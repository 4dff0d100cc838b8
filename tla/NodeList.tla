------------------------------ MODULE NodeList ------------------------------
(***************************************************************************)
(* How the group agrees on its list of nodes, while one coordinator is in  *)
(* office.  A user's edit is saved on his own node and then requested of   *)
(* the coordinator with the revision that node knows; the coordinator      *)
(* (control/coordination/service.py, _on_node_list_update_request) applies *)
(* it, counts a revision and broadcasts its list, its own client included; *)
(* every client (client.py, _on_node_list_state) applies the lists it gets *)
(* unless it knows a later revision.                                       *)
(*                                                                         *)
(* The coordinator handles each peer's frames in a thread of that peer,    *)
(* and its own requests in its window's; its lock covers the reading and   *)
(* the counting of the revision, and nothing between.  A thread's steps    *)
(* are todo[th].  A list is the set of the edits it contains: edits only   *)
(* add, so what an edit was built on stays visible in it.                  *)
(***************************************************************************)
EXTENDS Naturals, Sequences, SequencesExt

CONSTANTS
  Coord,     \* the coordinator's node
  Peers,     \* the other nodes, all connected to it
  Editor,    \* the nodes whose users edit the list
  Failing,   \* the nodes on which saving a list that differs from theirs may fail
  MaxEdits   \* bound: edits in a behaviour

Member == Peers \cup {Coord}
Edit == 1 .. MaxEdits
List == SUBSET Edit

VARIABLES
  edits,  \* edits made so far
  lst,    \* lst[n]: the node list of n, in its context and its file
  crev,   \* crev[n]: _node_list_revision of n's client
  rev,    \* _node_list_revision of the coordinator's service
  up,     \* up[p]: requests on their way from p to the coordinator
  down,   \* down[p]: lists on their way from the coordinator to p
  todo,   \* todo[th]: the steps thread th still has to take
  calm    \* edits have taken turns so far, and every peer could save its lists

vars == <<edits, lst, crev, rev, up, down, todo, calm>>

Window(n) == <<"window", n>>   \* n's user interface
Serve(p)  == <<"serve", p>>    \* the coordinator's receive thread for p
Recv(p)   == <<"recv", p>>     \* p's receive thread for the coordinator
Thread    == ({"window"} \X Member) \cup ({"serve", "recv"} \X Peers)

(***************************************************************************)
(* A step: what, at or for which node, with which list and revision.       *)
(***************************************************************************)
Do(what, n, l, r) == [do |-> what, node |-> n, nodes |-> l, revision |-> r]

Kind  == {"request", "check", "apply", "count", "build", "accept", "take", "note", "send"}
Frame == [nodes : List, revision : 0 .. MaxEdits]
Step  == [do : Kind, node : Member, nodes : List, revision : 0 .. MaxEdits]

TypeOK ==
  /\ edits \in 0 .. MaxEdits
  /\ lst \in [Member -> List]
  /\ crev \in [Member -> 0 .. MaxEdits]
  /\ rev \in 0 .. MaxEdits
  /\ up \in [Peers -> Seq(Frame)]
  /\ down \in [Peers -> Seq(Frame)]
  /\ todo \in [Thread -> Seq(Step)]
  /\ calm \in BOOLEAN

Init ==
  /\ edits = 0
  /\ lst = [n \in Member |-> {}]
  /\ crev = [n \in Member |-> 0]
  /\ rev = 0
  /\ up = [p \in Peers |-> <<>>]
  /\ down = [p \in Peers |-> <<>>]
  /\ todo = [th \in Thread |-> <<>>]
  /\ calm = TRUE

Runs(th, what)       == todo[th] # <<>> /\ todo[th][1].do = what
Continues(th, steps) == todo' = [todo EXCEPT ![th] = steps \o Tail(@)]
Starts(th, steps)    == todo[th] = <<>> /\ todo' = [todo EXCEPT ![th] = steps]

\* an edit is being requested: saved, on its way, or in a handler
Requested ==
  \/ \E p \in Peers : up[p] # <<>> \/ todo[Serve(p)] # <<>>
  \/ \E n \in Member : todo[Window(n)] # <<>>

-----------------------------------------------------------------------------
(***************************************************************************)
(* The user's edit is saved on his own node; only then is it requested,    *)
(* with the revision that the client knows by that time.  Edits take turns *)
(* if none is begun while another one is being requested or a list being   *)
(* handled on the same node, and no list comes between saving and request. *)
(***************************************************************************)
Save(n) ==
  /\ n \in Editor
  /\ edits < MaxEdits
  /\ edits' = edits + 1
  /\ LET new == lst[n] \cup {edits + 1}
     IN  /\ lst' = [lst EXCEPT ![n] = new]
         /\ Starts(Window(n), <<Do("request", n, new, 0)>>)
  /\ calm' = (calm /\ ~Requested /\ (n \in Peers => todo[Recv(n)] = <<>>))
  /\ UNCHANGED <<crev, rev, up, down>>

Request(th) ==
  /\ Runs(th, "request")
  /\ LET n   == todo[th][1].node
         new == todo[th][1].nodes
     IN  \/ /\ n = Coord
            /\ Continues(th, <<Do("check", n, new, crev[n])>>)
            /\ UNCHANGED up
         \/ /\ n # Coord
            /\ up' = [up EXCEPT ![n] = Append(@, [nodes |-> new, revision |-> crev[n]])]
            /\ Continues(th, <<>>)
  /\ UNCHANGED <<edits, lst, crev, rev, down, calm>>

ReceiveRequest(p) ==
  /\ up[p] # <<>>
  /\ up' = [up EXCEPT ![p] = Tail(@)]
  /\ Starts(Serve(p), <<Do("check", p, Head(up[p]).nodes, Head(up[p]).revision)>>)
  /\ UNCHANGED <<edits, lst, crev, rev, down, calm>>

-----------------------------------------------------------------------------
(***************************************************************************)
(* The handler.  It compares the revision under the lock; what it does     *)
(* with the answer comes after the lock has been released.                 *)
(***************************************************************************)
Reply(n, l, r) == IF n = Coord THEN Do("accept", n, l, r) ELSE Do("send", n, l, r)

\* Mutant of Check: any revision will do.
CheckNothing(th) ==
  /\ Runs(th, "check")
  /\ LET s == todo[th][1] IN Continues(th, <<Do("apply", s.node, s.nodes, 0)>>)
  /\ UNCHANGED <<edits, lst, crev, rev, up, down, calm>>

Check(th) ==
  /\ Runs(th, "check")
  /\ LET s == todo[th][1]
     IN  \/ /\ s.revision = rev
            /\ Continues(th, <<Do("apply", s.node, s.nodes, 0)>>)
         \/ /\ s.revision # rev
            /\ Continues(th, <<Reply(s.node, lst[Coord], rev)>>)
  /\ UNCHANGED <<edits, lst, crev, rev, up, down, calm>>

\* Mutant of Apply: a list that cannot be saved is not answered.
ApplyUnanswered(th) ==
  /\ Runs(th, "apply")
  /\ LET s == todo[th][1]
     IN  \/ /\ lst' = [lst EXCEPT ![Coord] = s.nodes]
            /\ Continues(th, <<Do("count", Coord, {}, 0)>>)
         \/ /\ Coord \in Failing /\ s.nodes # lst[Coord]
            /\ Continues(th, <<>>)
            /\ UNCHANGED lst
  /\ UNCHANGED <<edits, crev, rev, up, down, calm>>

Apply(th) ==
  /\ Runs(th, "apply")
  /\ LET s == todo[th][1]
     IN  \/ /\ lst' = [lst EXCEPT ![Coord] = s.nodes]
            /\ Continues(th, <<Do("count", Coord, {}, 0)>>)
         \/ /\ Coord \in Failing /\ s.nodes # lst[Coord]
            /\ Continues(th, <<Reply(s.node, lst[Coord], rev)>>)
            /\ UNCHANGED lst
  /\ UNCHANGED <<edits, crev, rev, up, down, calm>>

\* Mutant of Count: the revision that is announced is one ahead.
CountAhead(th) ==
  /\ Runs(th, "count")
  /\ rev' = rev + 1
  /\ Continues(th, <<Do("build", Coord, {}, rev + 2)>>)
  /\ UNCHANGED <<edits, lst, crev, up, down, calm>>

Count(th) ==
  /\ Runs(th, "count")
  /\ rev' = rev + 1
  /\ Continues(th, <<Do("build", Coord, {}, rev')>>)
  /\ UNCHANGED <<edits, lst, crev, up, down, calm>>

(***************************************************************************)
(* The broadcast: the list as it is by now, to the coordinator's own       *)
(* client first, and then to one peer after the other.                     *)
(***************************************************************************)
Build(th) ==
  /\ Runs(th, "build")
  /\ LET r     == todo[th][1].revision
         order == SetToSeq(Peers)
         sends == [i \in DOMAIN order |-> Do("send", order[i], lst[Coord], r)]
     IN  Continues(th, <<Do("accept", Coord, lst[Coord], r)>> \o sends)
  /\ UNCHANGED <<edits, lst, crev, rev, up, down, calm>>

Send(th) ==
  /\ Runs(th, "send")
  /\ LET s == todo[th][1]
     IN  down' = [down EXCEPT ![s.node] = Append(@, [nodes |-> s.nodes, revision |-> s.revision])]
  /\ Continues(th, <<>>)
  /\ UNCHANGED <<edits, lst, crev, rev, up, calm>>

-----------------------------------------------------------------------------
(***************************************************************************)
(* The client: a list of an earlier revision is ignored; otherwise it is   *)
(* applied, and when that has succeeded its revision is noted.             *)
(***************************************************************************)
ReceiveList(p) ==
  /\ down[p] # <<>>
  /\ down' = [down EXCEPT ![p] = Tail(@)]
  /\ Starts(Recv(p), <<Do("accept", p, Head(down[p]).nodes, Head(down[p]).revision)>>)
  /\ calm' = (calm /\ todo[Window(p)] = <<>>)
  /\ UNCHANGED <<edits, lst, crev, rev, up>>

\* Mutant of Accept: a list of the revision already known is ignored.
AcceptNewer(th) ==
  /\ Runs(th, "accept")
  /\ LET s == todo[th][1]
     IN  \/ /\ s.revision > crev[s.node]
            /\ Continues(th, <<Do("take", s.node, s.nodes, s.revision)>>)
         \/ /\ s.revision <= crev[s.node]
            /\ Continues(th, <<>>)
  /\ UNCHANGED <<edits, lst, crev, rev, up, down, calm>>

\* Mutant of Accept: revisions are not compared.
AcceptAll(th) ==
  /\ Runs(th, "accept")
  /\ LET s == todo[th][1]
     IN  Continues(th, <<Do("take", s.node, s.nodes, s.revision)>>)
  /\ UNCHANGED <<edits, lst, crev, rev, up, down, calm>>

Accept(th) ==
  /\ Runs(th, "accept")
  /\ LET s == todo[th][1]
     IN  \/ /\ s.revision >= crev[s.node]
            /\ Continues(th, <<Do("take", s.node, s.nodes, s.revision)>>)
         \/ /\ s.revision < crev[s.node]
            /\ Continues(th, <<>>)
  /\ UNCHANGED <<edits, lst, crev, rev, up, down, calm>>

Take(th) ==
  /\ Runs(th, "take")
  /\ LET s == todo[th][1]
     IN  \/ /\ lst' = [lst EXCEPT ![s.node] = s.nodes]
            /\ Continues(th, <<Do("note", s.node, {}, s.revision)>>)
            /\ UNCHANGED calm
         \/ /\ s.node \in Failing /\ s.nodes # lst[s.node]
            /\ Continues(th, <<>>)
            /\ calm' = FALSE
            /\ UNCHANGED lst
  /\ UNCHANGED <<edits, crev, rev, up, down>>

Note(th) ==
  /\ Runs(th, "note")
  /\ LET s == todo[th][1] IN crev' = [crev EXCEPT ![s.node] = s.revision]
  /\ Continues(th, <<>>)
  /\ UNCHANGED <<edits, lst, rev, up, down, calm>>

-----------------------------------------------------------------------------
ThreadStep(th) ==
  \/ Request(th)
  \/ Check(th)
  \/ Apply(th)
  \/ Count(th)
  \/ Build(th)
  \/ Send(th)
  \/ Accept(th)
  \/ Take(th)
  \/ Note(th)

Next ==
  \/ \E n \in Member : Save(n)
  \/ \E p \in Peers : ReceiveRequest(p) \/ ReceiveList(p)
  \/ \E th \in Thread : ThreadStep(th)

Spec == Init /\ [][Next]_vars

(***************************************************************************)
(* Threads go on with their work and with the frames they are sent.        *)
(***************************************************************************)
FairSpec ==
  /\ Spec
  /\ \A th \in Thread : WF_vars(ThreadStep(th))
  /\ \A p \in Peers : WF_vars(ReceiveRequest(p)) /\ WF_vars(ReceiveList(p))

-----------------------------------------------------------------------------
(***************************************************************************)
(* An edit the coordinator has accepted is never lost to somebody else's:  *)
(* the revision protects it from a list that was built without it          *)
(* (README.md:98).                                                         *)
(***************************************************************************)
AcceptedEditsKept == [][lst[Coord] \subseteq lst'[Coord]]_vars

(***************************************************************************)
(* As long as edits take turns, an edit that was built on an old list is   *)
(* refused, also when that list's successor is still on its way.           *)
(***************************************************************************)
NoLostUpdate == [][calm' => lst[Coord] \subseteq lst'[Coord]]_vars

(***************************************************************************)
(* Once every request has been handled and every list delivered, all nodes *)
(* have the coordinator's list, if edits took turns and peers could save.  *)
(***************************************************************************)
Quiet ==
  /\ \A p \in Peers : up[p] = <<>> /\ down[p] = <<>>
  /\ \A th \in Thread : todo[th] = <<>>

Converged == Quiet /\ calm => \A n \in Member : lst[n] = lst[Coord]

(***************************************************************************)
(* A peer never goes back to an earlier revision nor ahead of the          *)
(* coordinator, in whatever order the coordinator's threads send lists.    *)
(***************************************************************************)
PeersMoveOn == [][\A p \in Peers : crev[p] <= crev'[p] /\ crev'[p] <= rev]_vars

(***************************************************************************)
(* An edit ends, also when the coordinator cannot save it: it is in every  *)
(* list or in none, unless edits overlap or peers fail to save.            *)
(***************************************************************************)
EditSettled ==
  \A x \in Edit : (\E n \in Member : x \in lst[n]) ~>
    \/ \A n \in Member : x \in lst[n]
    \/ \A n \in Member : x \notin lst[n]
    \/ ~calm
=============================================================================

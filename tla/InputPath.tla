----------------------------- MODULE InputPath ------------------------------
(***************************************************************************)
(* The way of a key from the controller's keyboard to the operating system *)
(* of a target: InputRouter (control/routing/router.py) forwards captured  *)
(* events to the target it is active on, and InputSink                     *)
(* (control/routing/sink.py) injects what comes from the controller its    *)
(* lease names.  Three parties are to see that no key stays down on a      *)
(* target that is left: the user, who lets go of it, the router, which     *)
(* releases what it has sent when its target changes, and the sink, which  *)
(* releases what it has injected when the controller loses the target or   *)
(* its connection.                                                         *)
(*                                                                         *)
(* At the controller, the router's thread, the window and the client's     *)
(* receive thread run against each other; at a target, the receive threads *)
(* of the controller's and of the coordinator's connection do.  A thread's *)
(* remaining steps are todo[th]; a step is what is done under one lock, or *)
(* one call out of the component.  The coordinator is a third node: what   *)
(* it does with leases is LeaseService's business, here it serves one      *)
(* request at a time.                                                      *)
(***************************************************************************)
EXTENDS Naturals, Sequences

CONSTANTS
  Target,       \* the nodes the controller may control
  Key,          \* keys and mouse buttons
  Me,           \* the controller
  Other,        \* any other controller
  None,         \* nobody, nothing
  Flaky,        \* the targets whose connection with the controller may break
  MaxPresses,   \* bound: keys pressed in a behaviour
  MaxRequests,  \* bound: calls of request_target and clear_target
  MaxMeddling   \* bound: leases taken away or given to others, broken connections

ASSUME InputPathAssumption ==
  /\ Me # Other /\ None \notin {Me, Other}
  /\ None \notin Target /\ None \notin Key
  /\ Flaky \subseteq Target
  /\ {MaxPresses, MaxRequests, MaxMeddling} \subseteq Nat

VARIABLES
  \* the controller
  phys,     \* the keys its user holds down
  queue,    \* capture_queue: events that are still to be routed
  state,    \* the router's _state
  target,   \* the router's _requested_target_id, and _active_target_id if it is active
  sent,     \* the router's _remote_pressed_entries
  want,     \* the client's _requested_target_id
  \* the coordinator
  asks,     \* claims and releases on their way to it
  answers,  \* its grants and denies on their way back
  lease,    \* lease[t]: who holds t
  told,     \* told[t]: lease updates on their way to t
  \* the targets
  conn,     \* conn[t]: t's end of its connection with the controller
  link,     \* link[t]: input on its way to t
  auth,     \* auth[t]: the sink's _authorized_controller_id
  pressed,  \* pressed[t]: the sink's _pressed, for the controller
  os,       \* os[t]: the keys that injection has left down
  \* threads and history
  todo,     \* todo[th]: the steps thread th still has to take
  races,    \* which parties have been overtaken in the middle of an event
  used      \* how often each kind of input has been given, against the bounds

userVars  == <<phys, queue>>
routeVars == <<state, target, sent>>
coordVars == <<asks, answers, lease, told>>
sinkVars  == <<auth, pressed, os>>
vars == <<userVars, routeVars, want, coordVars, conn, link, sinkVars, todo, races, used>>

Router   == <<"router", None>>   \* InputRouter.run
Window   == <<"window", None>>   \* the user interface
Client   == <<"client", None>>   \* the controller's receive thread for the coordinator
Input(t) == <<"input", t>>       \* t's receive thread for the controller
Lease(t) == <<"lease", t>>       \* t's receive thread for the coordinator
Gone(t)  == <<"gone", t>>    \* the thread of a connection t has closed
Lost(t)  == <<"lost", t>>    \* the thread of a connection with t the controller has closed
Thread   == {Router, Window, Client} \cup ({"input", "lease", "gone", "lost"} \X Target)

(***************************************************************************)
(* A key goes down or up.  A step is what, with which event or with which  *)
(* keys that are to go up, for which target.                               *)
(***************************************************************************)
Event   == {"down", "up"} \X Key
Down(k) == <<"down", k>>
Up(k)   == <<"up", k>>

Do(what, e, t) == [do |-> what, event |-> e, keys |-> {}, target |-> t]
Go(what, t)    == Do(what, None, t)
Lift(what, S, t) ==
  IF S = {} THEN <<>> ELSE <<[do |-> what, event |-> None, keys |-> S, target |-> t]>>

Steps(kinds, events, keys, targets) == [do : kinds, event : events, keys : keys, target : targets]
Step == Steps({"send", "track", "note", "inject"}, Event, {{}}, Target)
        \cup Steps({"release", "lift"}, {None}, SUBSET Key, Target)
        \cup Steps({"pending", "active", "claim", "let go", "unbind", "forget", "give up"},
                     {None}, {{}}, Target)
        \cup Steps({"inactive"}, {None}, {{}}, {None})
Frame == [do : {"claim", "let go", "grant", "deny"}, target : Target]

TypeOK ==
  /\ phys \subseteq Key
  /\ queue \in Seq(Event)
  /\ state \in {"inactive", "pending", "active"}
  /\ target \in Target \cup {None}
  /\ (state = "inactive") <=> (target = None)
  /\ sent \subseteq Key
  /\ want \in Target \cup {None}
  /\ asks \in Seq(Frame)
  /\ answers \in Seq(Frame)
  /\ lease \in [Target -> {Me, Other, None}]
  /\ told \in [Target -> Seq({Me, Other, None})]
  /\ conn \in [Target -> {"up", "broken", "closed", "down"}]
  /\ link \in [Target -> Seq(Event)]
  /\ auth \in [Target -> {Me, Other, None}]
  /\ pressed \in [Target -> SUBSET Key]
  /\ os \in [Target -> SUBSET Key]
  /\ todo \in [Thread -> Seq(Step)]
  /\ races \subseteq {"router", "sink", "link"}
  /\ used \in [{"presses", "requests", "meddling"} -> Nat]

Init ==
  /\ phys = {} /\ queue = <<>>
  /\ state = "inactive" /\ target = None /\ sent = {} /\ want = None
  /\ asks = <<>> /\ answers = <<>>
  /\ lease = [t \in Target |-> None]
  /\ told = [t \in Target |-> <<>>]
  /\ conn = [t \in Target |-> "up"]
  /\ link = [t \in Target |-> <<>>]
  /\ auth = [t \in Target |-> None]
  /\ pressed = [t \in Target |-> {}]
  /\ os = [t \in Target |-> {}]
  /\ todo = [th \in Thread |-> <<>>]
  /\ races = {}
  /\ used = [presses |-> 0, requests |-> 0, meddling |-> 0]

\* the threads that change the router's target
Steering == {Window, Client} \cup {Lost(t) : t \in Target}

Idle(th)             == todo[th] = <<>>
Next1(th)            == Head(todo[th])
Runs(th, what)       == ~Idle(th) /\ Next1(th).do = what
Starts(th, steps)    == Idle(th) /\ todo' = [todo EXCEPT ![th] = steps]
Continues(th, steps) == todo' = [todo EXCEPT ![th] = steps \o Tail(@)]

Uses(what, bound) == used[what] < bound /\ used' = [used EXCEPT ![what] = @ + 1]

\* the keys of S once event e has happened
Change(S, e) == IF e[1] = "down" THEN S \cup {e[2]} ELSE S \ {e[2]}

-----------------------------------------------------------------------------
(***************************************************************************)
(* The user's keyboard.                                                    *)
(***************************************************************************)
Press(k) ==
  /\ k \notin phys
  /\ Uses("presses", MaxPresses)
  /\ phys' = phys \cup {k}
  /\ queue' = Append(queue, Down(k))
  /\ UNCHANGED <<routeVars, want, coordVars, conn, link, sinkVars, todo, races>>

LetGo(k) ==
  /\ k \in phys
  /\ phys' = phys \ {k}
  /\ queue' = Append(queue, Up(k))
  /\ UNCHANGED <<routeVars, want, coordVars, conn, link, sinkVars, todo, races, used>>

(***************************************************************************)
(* InputRouter.run: state and target are read under the lock; the event is *)
(* sent after that, and tracked, under the lock again, when it was sent.   *)
(***************************************************************************)
Route ==
  /\ queue # <<>>
  /\ queue' = Tail(queue)
  /\ Starts(Router, IF state = "active" THEN <<Do("send", Head(queue), target)>> ELSE <<>>)
  /\ UNCHANGED <<phys, routeVars, want, coordVars, conn, link, sinkVars, races, used>>

SendEvent ==
  /\ Runs(Router, "send")
  /\ LET s == Next1(Router)
     IN  \/ /\ conn[s.target] = "up"
            /\ link' = [link EXCEPT ![s.target] = Append(@, s.event)]
            /\ Continues(Router, <<Do("track", s.event, s.target)>>)
         \/ /\ conn[s.target] # "up"
            /\ Continues(Router, <<>>)
            /\ UNCHANGED link
  /\ UNCHANGED <<userVars, routeVars, want, coordVars, conn, sinkVars, races, used>>

TrackRemotePressed ==
  /\ Runs(Router, "track")
  /\ sent' = Change(sent, Next1(Router).event)
  /\ Continues(Router, <<>>)
  /\ UNCHANGED <<userVars, state, target, want, coordVars, conn, link, sinkVars, races, used>>

\* Mutant of Swap: a router that becomes inactive keeps its target.
SwapKeepsTarget(th) ==
  /\ \E s \in {"inactive", "pending", "active"} : Runs(th, s)
  /\ LET s == Next1(th).do
         t == IF s = "inactive" THEN target ELSE Next1(th).target
     IN  /\ state' = s /\ target' = t /\ sent' = {}
         /\ Continues(th, IF state = "active" /\ ~(s = "active" /\ t = target)
                          THEN Lift("release", sent, target) ELSE <<>>)
  /\ UNCHANGED <<userVars, want, coordVars, conn, link, sinkVars, races, used>>

(***************************************************************************)
(* InputRouter._swap_state, called by set_pending_target, activate_target  *)
(* and clear_target: the keys sent so far are forgotten, and released on   *)
(* the target the router was active on, if that is not the new one.        *)
(***************************************************************************)
Swap(th) ==
  /\ \E s \in {"inactive", "pending", "active"} : Runs(th, s)
  /\ LET s == Next1(th).do
         t == Next1(th).target
     IN  \/ /\ state = s /\ target = t
            /\ Continues(th, <<>>)
            /\ UNCHANGED <<routeVars, races>>
         \/ /\ ~(state = s /\ target = t)
            /\ state' = s /\ target' = t /\ sent' = {}
            /\ Continues(th, IF state = "active" /\ ~(s = "active" /\ t = target)
                             THEN Lift("release", sent, target) ELSE <<>>)
            /\ races' = IF Idle(Router) THEN races ELSE races \cup {"router"}
  /\ UNCHANGED <<userVars, want, coordVars, conn, link, sinkVars, used>>

ReleaseKey(th) ==
  /\ Runs(th, "release")
  /\ LET s == Next1(th)
     IN  \E k \in s.keys :
           /\ IF conn[s.target] = "up"
              THEN link' = [link EXCEPT ![s.target] = Append(@, Up(k))]
              ELSE UNCHANGED link
           /\ Continues(th, Lift("release", s.keys \ {k}, s.target))
  /\ UNCHANGED <<userVars, routeVars, want, coordVars, conn, sinkVars, races, used>>

-----------------------------------------------------------------------------
(***************************************************************************)
(* CoordinatorClient: the user picks a target or none, and the coordinator *)
(* answers.  The client's own look at its request is one step with the     *)
(* change it makes to it.                                                  *)
(***************************************************************************)
LetGoOf(t) == IF t = None THEN <<>> ELSE <<Go("let go", t)>>

RequestTarget(t) ==
  /\ Uses("requests", MaxRequests)
  /\ want # t
  /\ want' = t
  /\ Starts(Window, LetGoOf(want) \o <<Go("pending", t), Go("claim", t)>>)
  /\ UNCHANGED <<userVars, routeVars, coordVars, conn, link, sinkVars, races>>

ClearTarget ==
  /\ Uses("requests", MaxRequests)
  /\ want' = None
  /\ Starts(Window, LetGoOf(want) \o <<Go("inactive", None)>>)
  /\ UNCHANGED <<userVars, routeVars, coordVars, conn, link, sinkVars, races>>

SendAsk(th) ==
  /\ Runs(th, "claim") \/ Runs(th, "let go")
  /\ asks' = Append(asks, [do |-> Next1(th).do, target |-> Next1(th).target])
  /\ Continues(th, <<>>)
  /\ UNCHANGED <<userVars, routeVars, want, answers, lease, told, conn, link, sinkVars, races, used>>

OnAnswer ==
  /\ answers # <<>>
  /\ answers' = Tail(answers)
  /\ LET f == Head(answers)
     IN  \/ /\ f.do = "grant" /\ want \in {None, f.target}
            /\ want' = f.target
            /\ Starts(Client, <<Go("active", f.target)>>)
         \/ /\ f.do = "grant" /\ want \notin {None, f.target}
            /\ Starts(Client, <<Go("let go", f.target)>>)
            /\ UNCHANGED want
         \/ /\ f.do = "deny" /\ want = f.target
            /\ want' = None
            /\ Starts(Client, <<Go("inactive", None)>>)
         \/ /\ f.do = "deny" /\ want # f.target
            /\ Starts(Client, <<>>)
            /\ UNCHANGED want
  /\ UNCHANGED <<userVars, routeVars, asks, lease, told, conn, link, sinkVars, races, used>>

-----------------------------------------------------------------------------
(***************************************************************************)
(* The coordinator: a lease changes, and those it concerns are told.       *)
(***************************************************************************)
Holds(t, c) ==
  /\ lease' = [lease EXCEPT ![t] = c]
  /\ told' = [told EXCEPT ![t] = Append(@, c)]

Answers(what, t) == answers' = Append(answers, [do |-> what, target |-> t])

Serve ==
  /\ asks # <<>>
  /\ asks' = Tail(asks)
  /\ LET t == Head(asks).target
     IN  \/ Head(asks).do = "claim" /\ lease[t] # Other /\ Holds(t, Me) /\ Answers("grant", t)
         \/ Head(asks).do = "claim" /\ lease[t] = Other /\ Answers("deny", t) /\ UNCHANGED <<lease, told>>
         \/ Head(asks).do = "let go" /\ lease[t] = Me /\ Holds(t, None) /\ UNCHANGED answers
         \/ Head(asks).do = "let go" /\ lease[t] # Me /\ UNCHANGED <<answers, lease, told>>
  /\ UNCHANGED <<userVars, routeVars, want, conn, link, sinkVars, todo, races, used>>

\* The lease runs out, or local input at t takes it away; a heartbeat or a
\* repeated claim brings it back; another controller takes t or leaves it.
Meddle(t) ==
  /\ Uses("meddling", MaxMeddling)
  /\ \/ lease[t] = Me /\ Holds(t, None) /\ (Answers("deny", t) \/ UNCHANGED answers)
     \/ lease[t] = None /\ Holds(t, Me) /\ (Answers("grant", t) \/ UNCHANGED answers)
     \/ lease[t] = None /\ Holds(t, Other) /\ UNCHANGED answers
     \/ lease[t] = Other /\ Holds(t, None) /\ UNCHANGED answers
  /\ UNCHANGED <<userVars, routeVars, want, asks, conn, link, sinkVars, todo, races>>

-----------------------------------------------------------------------------
(***************************************************************************)
(* InputSink.handle: the authorization is looked up, the key is tracked,   *)
(* and it is injected, one after the other.                                *)
(***************************************************************************)
Handle(t) ==
  /\ link[t] # <<>>
  /\ link' = [link EXCEPT ![t] = Tail(@)]
  /\ LET e == Head(link[t])
     IN  Starts(Input(t), IF auth[t] = Me THEN <<Do("note", e, t), Do("inject", e, t)>> ELSE <<>>)
  /\ UNCHANGED <<userVars, routeVars, want, coordVars, conn, sinkVars, races, used>>

TrackPressed(t) ==
  /\ Runs(Input(t), "note")
  /\ pressed' = [pressed EXCEPT ![t] = Change(@, Next1(Input(t)).event)]
  /\ Continues(Input(t), <<>>)
  /\ UNCHANGED <<userVars, routeVars, want, coordVars, conn, link, auth, os, races, used>>

Inject(t) ==
  /\ Runs(Input(t), "inject")
  /\ os' = [os EXCEPT ![t] = Change(@, Next1(Input(t)).event)]
  /\ Continues(Input(t), <<>>)
  /\ UNCHANGED <<userVars, routeVars, want, coordVars, conn, link, auth, pressed, races, used>>

(***************************************************************************)
(* InputSink._release_entries: key after key is injected as released.      *)
(***************************************************************************)
ReleaseEntry(t, th) ==
  /\ Runs(th, "lift")
  /\ \E k \in Next1(th).keys :
       /\ os' = [os EXCEPT ![t] = @ \ {k}]
       /\ Continues(th, Lift("lift", Next1(th).keys \ {k}, t))
  /\ UNCHANGED <<userVars, routeVars, want, coordVars, conn, link, auth, pressed, races, used>>

\* what releases keys at t overtakes an event that is being handled there
Overtakes(t) == races' = IF Idle(Input(t)) THEN races ELSE races \cup {"sink"}

\* Mutant of SetAuthorizedController: the keys of the last one stay as they are.
SetControllerOnly(t) ==
  /\ told[t] # <<>>
  /\ told' = [told EXCEPT ![t] = Tail(@)]
  /\ auth' = [auth EXCEPT ![t] = Head(told[t])]
  /\ Starts(Lease(t), <<>>)
  /\ UNCHANGED <<userVars, routeVars, want, asks, answers, lease, conn, link, pressed, os, races, used>>

(***************************************************************************)
(* InputSink.set_authorized_controller: unless the controller remains, its *)
(* keys are released.                                                      *)
(***************************************************************************)
SetAuthorizedController(t) ==
  /\ told[t] # <<>>
  /\ told' = [told EXCEPT ![t] = Tail(@)]
  /\ auth' = [auth EXCEPT ![t] = Head(told[t])]
  /\ LET leaves == Head(told[t]) \notin {Me, auth[t]}
     IN  \/ /\ leaves
            /\ pressed' = [pressed EXCEPT ![t] = {}]
            /\ Starts(Lease(t), Lift("lift", pressed[t], t))
            /\ Overtakes(t)
         \/ /\ ~leaves
            /\ Starts(Lease(t), <<>>)
            /\ UNCHANGED <<pressed, races>>
  /\ UNCHANGED <<userVars, routeVars, want, asks, answers, lease, conn, link, os, used>>

(***************************************************************************)
(* The connection breaks: what is on its way may be lost.  t's receive     *)
(* thread handles what has arrived, closes the connection and unbinds it,  *)
(* whereupon the sink releases the controller's keys.  The controller      *)
(* unbinds its end, too, whereupon the client gives the target up.  A      *)
(* connection that has been bound in place of a closed one is not unbound. *)
(***************************************************************************)
Break(t) ==
  /\ t \in Flaky
  /\ Uses("meddling", MaxMeddling)
  /\ conn[t] = "up"
  /\ conn' = [conn EXCEPT ![t] = "broken"]
  /\ \E n \in 0 .. Len(link[t]) : link' = [link EXCEPT ![t] = SubSeq(@, 1, n)]
  /\ Starts(Lost(t), <<Go("unbind", t), Go("give up", t)>>)
  /\ UNCHANGED <<userVars, routeVars, want, coordVars, sinkVars, races>>

UnbindTarget(t) ==
  /\ Runs(Lost(t), "unbind")
  /\ \/ conn[t] # "up" /\ Continues(Lost(t), <<>>)
     \/ conn[t] = "up" /\ todo' = [todo EXCEPT ![Lost(t)] = <<>>]
  /\ UNCHANGED <<userVars, routeVars, want, coordVars, conn, link, sinkVars, races, used>>

OnPeerUnbound(t) ==
  /\ Runs(Lost(t), "give up")
  /\ \/ /\ target = t
        /\ want' = None
        /\ Continues(Lost(t), <<Go("inactive", None)>>)
     \/ /\ target # t
        /\ Continues(Lost(t), <<>>)
        /\ UNCHANGED want
  /\ UNCHANGED <<userVars, routeVars, coordVars, conn, link, sinkVars, races, used>>

Close(t) ==
  /\ conn[t] = "broken" /\ link[t] = <<>> /\ Idle(Input(t))
  /\ conn' = [conn EXCEPT ![t] = "closed"]
  /\ Starts(Gone(t), <<Go("unbind", t), Go("forget", t)>>)
  /\ UNCHANGED <<userVars, routeVars, want, coordVars, link, sinkVars, races, used>>

Unbind(t) ==
  /\ Runs(Gone(t), "unbind")
  /\ \/ /\ conn[t] = "closed"
        /\ conn' = [conn EXCEPT ![t] = "down"]
        /\ Continues(Gone(t), <<>>)
     \/ /\ conn[t] # "closed"
        /\ todo' = [todo EXCEPT ![Gone(t)] = <<>>]
        /\ UNCHANGED conn
  /\ UNCHANGED <<userVars, routeVars, want, coordVars, link, sinkVars, races, used>>

\* Mutant of ReleasePeer: the keys are forgotten and stay down.
ForgetPeer(t) ==
  /\ Runs(Gone(t), "forget")
  /\ pressed' = [pressed EXCEPT ![t] = {}]
  /\ Continues(Gone(t), <<>>)
  /\ Overtakes(t)
  /\ UNCHANGED <<userVars, routeVars, want, coordVars, conn, link, auth, os, used>>

ReleasePeer(t) ==
  /\ Runs(Gone(t), "forget")
  /\ pressed' = [pressed EXCEPT ![t] = {}]
  /\ Continues(Gone(t), Lift("lift", pressed[t], t))
  /\ Overtakes(t)
  /\ UNCHANGED <<userVars, routeVars, want, coordVars, conn, link, auth, os, used>>

Rebind(t) ==
  /\ conn[t] \in {"closed", "down"}
  /\ conn' = [conn EXCEPT ![t] = "up"]
  /\ races' = IF Idle(Gone(t)) THEN races ELSE races \cup {"link"}
  /\ UNCHANGED <<userVars, routeVars, want, coordVars, link, sinkVars, todo, used>>

-----------------------------------------------------------------------------
Next ==
  \/ \E k \in Key : Press(k) \/ LetGo(k)
  \/ Route \/ SendEvent \/ TrackRemotePressed
  \/ \E th \in Steering : Swap(th) \/ ReleaseKey(th)
  \/ \E th \in {Window, Client} : SendAsk(th)
  \/ ClearTarget \/ OnAnswer \/ Serve
  \/ \E t \in Target :
       \/ RequestTarget(t) \/ Meddle(t)
       \/ Handle(t) \/ TrackPressed(t) \/ SetAuthorizedController(t)
       \/ Break(t) \/ UnbindTarget(t) \/ OnPeerUnbound(t)
       \/ Close(t) \/ Unbind(t) \/ ReleasePeer(t) \/ Rebind(t)
       \/ Inject(t)
       \/ \E th \in {Lease(t), Gone(t)} : ReleaseEntry(t, th)

Spec == Init /\ [][Next]_vars

-----------------------------------------------------------------------------
\* every event and every frame has been dealt with
Quiet ==
  /\ queue = <<>> /\ asks = <<>> /\ answers = <<>>
  /\ \A t \in Target : link[t] = <<>> /\ told[t] = <<>> /\ conn[t] # "broken"
  /\ \A th \in Thread : Idle(th)

(***************************************************************************)
(* When the lease on a target is gone, every key of its last controller is *)
(* up again (test_sink_injector_wiring.py:139,                             *)
(* test_clearing_authorized_controller_releases_stuck_input).              *)
(***************************************************************************)
LeftTargetReleased ==
  Quiet => \A t \in Target : auth[t] # Me => os[t] = {}

(***************************************************************************)
(* The sink's safety net: as long as no release has overtaken the handling *)
(* of an event, every key that is down on a target is tracked, and a       *)
(* target that does not let the controller in has none, whatever the       *)
(* router, the user and the connections did.                               *)
(***************************************************************************)
SinkReleases ==
  Quiet /\ "sink" \notin races =>
    \A t \in Target : os[t] \subseteq pressed[t] /\ (auth[t] # Me => os[t] = {})

(***************************************************************************)
(* As long as the router's target has not been changed in the middle of    *)
(* its sending either, only the target the router is active on has keys    *)
(* down, and none but those the user holds.                                *)
(***************************************************************************)
OnlyHeldKeysDown ==
  Quiet /\ races = {} =>
    \A t \in Target : os[t] \subseteq (IF state = "active" /\ target = t THEN phys ELSE {})
=============================================================================

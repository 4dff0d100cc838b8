------------------------------ MODULE Election ------------------------------
(***************************************************************************)
(* How one node picks the coordinator: CoordinatorElection                 *)
(* (control/coordination/election.py) of node Self, over the connections   *)
(* that its PeerRegistry (transport/peer/peer_registry.py) shows it.       *)
(*                                                                         *)
(* Nothing in the election is locked.  The control loop, the receive       *)
(* threads, the status reporter and the window all call pick(), and the    *)
(* registry calls the listener from the threads that bind and unbind.  A   *)
(* pick is two steps here: it brings the tracking in line with the         *)
(* registry and takes a snapshot of it, then decides on that snapshot.     *)
(*                                                                         *)
(* Only differences of clock readings matter to the code, so the model     *)
(* keeps ages: the ticks since a node came online, and since the           *)
(* challenger did, neither counted further than the code compares it.  A   *)
(* pick is far shorter than a tick: no tick falls between its two steps.   *)
(***************************************************************************)
EXTENDS Naturals

CONSTANTS
  Node,      \* every node of the group
  Self,      \* the node whose election this is
  Picker,    \* the threads that call pick()
  Rank,      \* Rank[n]: place of n in the order of _coordinator_sort_key, best first
  None,      \* no node; also the age of a node that is not tracked
  Grace,     \* health_grace_sec, in ticks
  HoldDown   \* hold_down_sec, in ticks

ASSUME ElectionAssumption ==
  /\ Self \in Node
  /\ Rank \in [Node -> Nat]
  /\ \A m, n \in Node : Rank[m] = Rank[n] => m = n
  /\ None \notin Node
  /\ None \notin Nat
  /\ Grace \in Nat \ {0}
  /\ HoldDown \in Nat \ {0}

Peers  == Node \ {Self}
MaxAge == IF Grace > HoldDown THEN Grace ELSE HoldDown
Age    == 0 .. MaxAge

VARIABLES
  conn,        \* conn[n]: "up"; "closing" (closed, its unbind still due); "down"
  late,        \* the calls of the registry's listener that are still to come
  age,         \* age[n]: ticks since _online_since[n], or None if n is not tracked
  current,     \* _current_coordinator_id
  challenger,  \* _challenger_id
  chAge,       \* ticks since _challenger_since
  seen         \* seen[p]: the online nodes that p's pick goes by; {} if p is not picking

vars == <<conn, late, age, current, challenger, chAge, seen>>

TypeOK ==
  /\ conn \in [Node -> {"up", "closing", "down"}]
  /\ late \subseteq {"bound", "unbound"} \X Peers
  /\ age \in [Node -> Age \cup {None}]
  /\ current \in Node \cup {None}
  /\ challenger \in Node \cup {None}
  /\ chAge \in Age
  /\ seen \in [Picker -> SUBSET Node]

Init ==
  /\ conn = [n \in Node |-> IF n = Self THEN "up" ELSE "down"]
  /\ late = {}
  /\ age = [n \in Node |-> IF n = Self THEN 0 ELSE None]
  /\ current = None
  /\ challenger = None
  /\ chAge = 0
  /\ seen = [p \in Picker |-> {}]

Online == {n \in Node : conn[n] = "up"}

-----------------------------------------------------------------------------
(***************************************************************************)
(* The registry.  It changes under its lock and calls the listener after   *)
(* that, so a node may be bound again before the listener hears that its   *)
(* last connection was unbound.  A closed connection is offline at once.   *)
(***************************************************************************)
Bind(n) ==
  /\ conn[n] # "up"
  /\ conn' = [conn EXCEPT ![n] = "up"]
  /\ late' = late \cup {<<"bound", n>>}
  /\ UNCHANGED <<age, current, challenger, chAge, seen>>

Close(n) ==
  /\ conn[n] = "up"
  /\ conn' = [conn EXCEPT ![n] = "closing"]
  /\ UNCHANGED <<late, age, current, challenger, chAge, seen>>

Unbind(n) ==
  /\ conn[n] = "closing"
  /\ <<"unbound", n>> \notin late
  /\ conn' = [conn EXCEPT ![n] = "down"]
  /\ late' = late \cup {<<"unbound", n>>}
  /\ UNCHANGED <<age, current, challenger, chAge, seen>>

(***************************************************************************)
(* The listener.  "bound" is dropped if the connection is closed already.  *)
(***************************************************************************)
Track(n) == age' = [age EXCEPT ![n] = IF @ = None THEN 0 ELSE @]

Bound(n) ==
  /\ <<"bound", n>> \in late
  /\ late' = late \ {<<"bound", n>>}
  /\ \/ Track(n)
     \/ n \notin Online /\ UNCHANGED age
  /\ UNCHANGED <<conn, current, challenger, chAge, seen>>

\* Mutant of ClearChallenger: the time of the challenger is unset, not zeroed.
ClearChallengerUnset ==
  /\ challenger' = None
  /\ chAge' = None

ClearChallenger ==
  /\ challenger' = None
  /\ chAge' = 0

\* Mutant of Unbound: a challenger that has gone is kept.
UnboundKeepsChallenger(n) ==
  /\ <<"unbound", n>> \in late
  /\ late' = late \ {<<"unbound", n>>}
  /\ age' = [age EXCEPT ![n] = None]
  /\ UNCHANGED <<conn, current, challenger, chAge, seen>>

Unbound(n) ==
  /\ <<"unbound", n>> \in late
  /\ late' = late \ {<<"unbound", n>>}
  /\ age' = [age EXCEPT ![n] = None]
  /\ \/ challenger = n /\ ClearChallenger
     \/ challenger # n /\ UNCHANGED <<challenger, chAge>>
  /\ UNCHANGED <<conn, current, seen>>

-----------------------------------------------------------------------------
(***************************************************************************)
(* pick(), first step: nodes that are online are tracked, others are not,  *)
(* and the pick goes by the nodes that are online now.                     *)
(***************************************************************************)
Read(p) ==
  /\ seen[p] = {}
  /\ seen' = [seen EXCEPT ![p] = Online]
  /\ age' = [n \in Node |-> CASE n \notin Online -> None
                              [] n \in Online /\ age[n] = None -> 0
                              [] OTHER -> age[n]]
  /\ UNCHANGED <<conn, late, current, challenger, chAge>>

(***************************************************************************)
(* Second step.  best is the best of the healthy nodes (Self always is):   *)
(* it is elected if the current coordinator was not among the nodes seen,  *)
(* and otherwise has to be better, and online for the hold-down.           *)
(***************************************************************************)
Healthy(S) == {n \in S : n = Self \/ (age[n] # None /\ age[n] >= Grace)}

Choose(n) ==
  /\ current' = n
  /\ ClearChallenger

Elect(S, best) ==
  /\ current \notin S
  /\ Choose(best)

Keep(S, best) ==
  /\ current \in S
  /\ Rank[current] <= Rank[best]
  /\ ClearChallenger
  /\ UNCHANGED current

\* Mutant of Challenge: every pick takes the challenger for a new one.
ChallengeAnew(S, best) ==
  /\ current \in S
  /\ Rank[best] < Rank[current]
  /\ challenger' = best
  /\ chAge' = 0
  /\ UNCHANGED current

Challenge(S, best) ==
  /\ current \in S
  /\ Rank[best] < Rank[current]
  /\ challenger # best
  /\ challenger' = best
  /\ chAge' = age[best]
  /\ UNCHANGED current

Wait(S, best) ==
  /\ current \in S
  /\ Rank[best] < Rank[current]
  /\ challenger = best
  /\ chAge < HoldDown
  /\ UNCHANGED <<current, challenger, chAge>>

\* Mutant of HandOver: the hold-down is not waited for.
HandOverAtOnce(S, best) ==
  /\ current \in S
  /\ Rank[best] < Rank[current]
  /\ challenger = best
  /\ Choose(best)

HandOver(S, best) ==
  /\ current \in S
  /\ Rank[best] < Rank[current]
  /\ challenger = best
  /\ chAge >= HoldDown
  /\ Choose(best)

Decide(p) ==
  /\ seen[p] # {}
  /\ \E best \in Healthy(seen[p]) :
       /\ \A n \in Healthy(seen[p]) : Rank[best] <= Rank[n]
       /\ \/ Elect(seen[p], best)
          \/ Keep(seen[p], best)
          \/ Challenge(seen[p], best)
          \/ Wait(seen[p], best)
          \/ HandOver(seen[p], best)
  /\ seen' = [seen EXCEPT ![p] = {}]
  /\ UNCHANGED <<conn, late, age>>

-----------------------------------------------------------------------------
Older(a) == IF a < MaxAge THEN a + 1 ELSE a

AllIdle == \A p \in Picker : seen[p] = {}

Tick ==
  /\ AllIdle
  /\ age' = [n \in Node |-> IF age[n] = None THEN None ELSE Older(age[n])]
  /\ chAge' = IF challenger = None THEN chAge ELSE Older(chAge)
  /\ UNCHANGED <<conn, late, current, challenger, seen>>

Next ==
  \/ \E n \in Peers : Bind(n) \/ Close(n) \/ Unbind(n) \/ Bound(n) \/ Unbound(n)
  \/ \E p \in Picker : Read(p) \/ Decide(p)
  \/ Tick

Spec == Init /\ [][Next]_vars

(***************************************************************************)
(* The control loop picks every 500 ms, and every pick ends; there are     *)
(* moments at which nobody picks, and time passes then; a connection that  *)
(* was closed is unbound by the thread that closed it, and the thread      *)
(* that changed the registry calls the listener.                           *)
(***************************************************************************)
FairSpec ==
  /\ Spec
  /\ WF_vars(\E p \in Picker : Read(p))
  /\ \A p \in Picker : WF_vars(Decide(p))
  /\ []<>AllIdle
  /\ SF_vars(Tick)
  /\ \A n \in Peers : WF_vars(Unbind(n)) /\ WF_vars(Bound(n)) /\ WF_vars(Unbound(n))

-----------------------------------------------------------------------------
(***************************************************************************)
(* The two clocks of a challenger, _challenger_since and _online_since,    *)
(* agree.  They drift apart only when a pick has dropped the tracking of   *)
(* a challenger it did not see online: that pick is about to clear the     *)
(* challenger, and until then the challenger counts as new.                *)
(***************************************************************************)
ChallengerTracked ==
  challenger # None =>
    \/ chAge = age[challenger]
    \/ /\ \E p \in Picker : seen[p] # {} /\ challenger \notin seen[p]
       /\ age[challenger] \in {None, 0}

(***************************************************************************)
(* A pick that sees the coordinator online replaces it only by a better    *)
(* node that it sees online, too, and that has been tracked as online for  *)
(* the hold-down and the health grace: whatever other picks and registry   *)
(* events come between the two steps of this one.                          *)
(***************************************************************************)
Earned(n, S) ==
  /\ n \in S
  /\ Rank[n] < Rank[current]
  /\ age[n] \in Age
  /\ age[n] >= HoldDown
  /\ n = Self \/ age[n] >= Grace

NoHastyHandoff ==
  [][\A p \in Picker :
       (seen'[p] # seen[p] /\ current \in seen[p] /\ current' # current)
         => Earned(current', seen[p])]_vars

(***************************************************************************)
(* Once the set of online nodes stays the same, the node settles on the    *)
(* best of them; so nodes that see one another settle on the same one.     *)
(***************************************************************************)
SettlesOnBest ==
  \A S \in {T \in SUBSET Node : Self \in T} :
    <>[](Online = S) => <>[](current \in S /\ \A n \in S : Rank[current] <= Rank[n])
=============================================================================

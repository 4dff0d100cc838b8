---------------------------- MODULE LeaseSession ----------------------------
(***************************************************************************)
(* The coordinator's leases (LeaseService) together with the clients that  *)
(* use them: CoordinatorClient (control/coordination/client.py), the       *)
(* target state of its InputRouter (control/routing/router.py) and the     *)
(* authorization of its InputSink (control/routing/sink.py).               *)
(*                                                                         *)
(* The coordinator stays the same and every peer stays connected to it, so *)
(* what is left to go wrong is the order in which the coordinator's        *)
(* threads send, the frames still on their way when a user changes his     *)
(* mind, and heartbeats that come too late.  A client handler is one step. *)
(***************************************************************************)
EXTENDS LeaseService

CONSTANTS
  Quitters,   \* the controllers whose users switch remote control off
  Touched,    \* the targets whose own users may touch keyboard or mouse
  MaxUp,      \* bound: frames waiting to the coordinator when a client sends more
  MaxDown     \* bound: frames a connection to a peer holds before a send blocks

ASSUME LeaseSessionAssumption ==
  /\ Flaky = {}
  /\ Quitters \subseteq Peer
  /\ Touched \subseteq Peer
  /\ MaxUp \in Nat \ {0}
  /\ MaxDown \in Nat \ {0}

VARIABLES
  req,         \* req[c]: the target c asks for (client and router agree on it), or None
  active,      \* active[c]: the router of c is active on req[c]; pending if FALSE
  auth,        \* auth[t]: the controller the sink of t lets in, or None
  overriding,  \* overriding[t]: the controller t has reported local input against, or None
  up,          \* up[n]: frames from n to the coordinator
  down         \* down[n]: frames from the coordinator to n

clientVars  == <<req, active, auth, overriding>>
sessionVars == <<lsVars, clientVars, up, down>>

UpFrame == [do : {"claim", "release", "heartbeat", "override"}, target : Peer, who : Peer]
ControllersOf(t) == {c \in Peer : <<c, t>> \in Controls}
Ask(what, t, c) == [do |-> what, target |-> t, who |-> c]

SessionTypeOK ==
  /\ TypeOK
  /\ req \in [Peer -> Peer \cup {None}]
  /\ active \in [Peer -> BOOLEAN]
  /\ \A c \in Peer : active[c] => req[c] # None
  /\ auth \in [Peer -> Peer \cup {None}]
  /\ overriding \in [Peer -> Peer \cup {None}]
  /\ up \in [Peer -> Seq(UpFrame)]
  /\ down \in [Peer -> Seq(Frame)]

SessionInit ==
  /\ Init
  /\ req = [c \in Peer |-> None]
  /\ active = [c \in Peer |-> FALSE]
  /\ auth = [t \in Peer |-> None]
  /\ overriding = [t \in Peer |-> None]
  /\ up = [n \in Peer |-> <<>>]
  /\ down = [n \in Peer |-> <<>>]

SendUp(n, frames) == up' = [up EXCEPT ![n] = @ \o frames]
MaySend(n)        == Len(up[n]) < MaxUp

\* frames that make c let go of the target it asks for, if there is one
LetGo(c) == IF req[c] = None THEN <<>> ELSE <<Ask("release", req[c], c)>>

Asks(c, t, a) ==
  /\ req' = [req EXCEPT ![c] = t]
  /\ active' = [active EXCEPT ![c] = a]

-----------------------------------------------------------------------------
(***************************************************************************)
(* The user of c, or an edge of its screen, picks target t.                *)
(***************************************************************************)
RequestTarget(c, t) ==
  /\ MaySend(c)
  /\ \/ /\ req[c] = t
        /\ ~active[c]
        /\ SendUp(c, <<Ask("claim", t, c)>>)
        /\ UNCHANGED <<req, active>>
     \/ /\ req[c] # t
        /\ SendUp(c, LetGo(c) \o <<Ask("claim", t, c)>>)
        /\ Asks(c, t, FALSE)
  /\ UNCHANGED <<lsVars, auth, overriding, down>>

ClearTarget(c) ==
  /\ MaySend(c)
  /\ req[c] # None
  /\ SendUp(c, LetGo(c))
  /\ Asks(c, None, FALSE)
  /\ UNCHANGED <<lsVars, auth, overriding, down>>

(***************************************************************************)
(* The control loop of c: the claim is repeated while it is pending, the   *)
(* lease is renewed while it is active.                                    *)
(***************************************************************************)
ControlTick(c) ==
  /\ MaySend(c)
  /\ req[c] # None
  /\ SendUp(c, <<Ask(IF active[c] THEN "heartbeat" ELSE "claim", req[c], c)>>)
  /\ UNCHANGED <<lsVars, clientVars, down>>

(***************************************************************************)
(* Local input at target t against the controller its sink lets in: it is  *)
(* reported once, until a lease_update names somebody else.                *)
(***************************************************************************)
LocalInput(t) ==
  /\ MaySend(t)
  /\ auth[t] \notin {None, overriding[t]}
  /\ SendUp(t, <<Ask("override", t, auth[t])>>)
  /\ overriding' = [overriding EXCEPT ![t] = auth[t]]
  /\ UNCHANGED <<lsVars, req, active, auth, down>>

-----------------------------------------------------------------------------
(***************************************************************************)
(* Frames from the coordinator.  A grant for another target than the one   *)
(* asked for is given back; a grant that comes when nothing is asked for   *)
(* is taken.                                                               *)
(***************************************************************************)
OnGrant(c, t) ==
  \/ /\ req[c] \notin {None, t}
     /\ SendUp(c, <<Ask("release", t, c)>>)
     /\ UNCHANGED <<req, active>>
  \/ /\ req[c] \in {None, t}
     /\ Asks(c, t, TRUE)
     /\ UNCHANGED up

\* Mutant of OnDeny: only a pending request is given up, an active one stays.
OnDenyPending(c, t) ==
  /\ IF req[c] = t /\ ~active[c] THEN Asks(c, None, FALSE) ELSE UNCHANGED <<req, active>>
  /\ UNCHANGED up

\* Mutant of OnDeny: the request is given up, the router stays active.
OnDenyHalf(c, t) ==
  /\ IF req[c] = t THEN Asks(c, None, active[c]) ELSE UNCHANGED <<req, active>>
  /\ UNCHANGED up

OnDeny(c, t) ==
  /\ IF req[c] = t THEN Asks(c, None, FALSE) ELSE UNCHANGED <<req, active>>
  /\ UNCHANGED up

OnLeaseUpdate(t, c) ==
  /\ auth' = [auth EXCEPT ![t] = c]
  /\ overriding' = [overriding EXCEPT ![t] = IF c = @ THEN @ ELSE None]
  /\ UNCHANGED <<req, active, up>>

Receive(n) ==
  /\ down[n] # <<>>
  /\ LET f == Head(down[n])
     IN  \/ f.do = "grant" /\ OnGrant(n, f.target) /\ UNCHANGED <<auth, overriding>>
         \/ f.do = "deny" /\ OnDeny(n, f.target) /\ UNCHANGED <<auth, overriding>>
         \/ f.do = "lease_update" /\ OnLeaseUpdate(n, f.who)
  /\ down' = [down EXCEPT ![n] = Tail(@)]
  /\ UNCHANGED lsVars

-----------------------------------------------------------------------------
(***************************************************************************)
(* The coordinator's receive thread of n takes the next frame.             *)
(***************************************************************************)
Deliver(n) ==
  /\ up[n] # <<>>
  /\ LET f == Head(up[n])
     IN  \/ f.do = "claim" /\ Claim(n, f.target)
         \/ f.do = "release" /\ Release(n, f.target)
         \/ f.do = "heartbeat" /\ Heartbeat(n, f.target)
         \/ f.do = "override" /\ Override(n, f.who)
  /\ up' = [up EXCEPT ![n] = Tail(@)]
  /\ UNCHANGED <<clientVars, down>>

SendDown(th) ==
  /\ Send(th)
  /\ LET f == Next1(th)
     IN  /\ Len(down[f.to]) < MaxDown
         /\ down' = [down EXCEPT ![f.to] = Append(@, f)]
  /\ UNCHANGED <<clientVars, up>>

LeaseStep(th) ==
  /\ ClaimLocked(th) \/ HeartbeatLocked(th)
  /\ UNCHANGED <<clientVars, up, down>>

Expire ==
  /\ ExpireOnce
  /\ UNCHANGED <<clientVars, up, down>>

TimePasses ==
  /\ Tick
  /\ UNCHANGED <<clientVars, up, down>>

-----------------------------------------------------------------------------
\* what nodes and users do
PromptNext ==
  \/ \E t \in Peer : \E c \in ControllersOf(t) : RequestTarget(c, t)
  \/ \E c \in Quitters : ClearTarget(c)
  \/ \E t \in Touched : LocalInput(t)
  \/ \E n \in Peer : ControlTick(n) \/ Receive(n) \/ Deliver(n)
  \/ \E th \in Thread : LeaseStep(th) \/ SendDown(th)

\* and heartbeats may come so late that leases run out
SessionNext ==
  \/ PromptNext
  \/ Expire
  \/ TimePasses

SessionSpec == SessionInit /\ [][SessionNext]_sessionVars
PromptSpec  == SessionInit /\ [][PromptNext]_sessionVars

(***************************************************************************)
(* The threads of the coordinator and the receive threads of the clients   *)
(* go on, the control loops tick every 500 ms, the expiry thread runs      *)
(* every 250 ms, and a clock does not stop.  Users owe nothing.            *)
(***************************************************************************)
PromptFairness ==
  /\ \A n \in Peer : /\ WF_sessionVars(Deliver(n))
                     /\ WF_sessionVars(Receive(n))
                     /\ SF_sessionVars(ControlTick(n))
  /\ \A th \in Thread : WF_sessionVars(LeaseStep(th) \/ SendDown(th))

SessionFairness ==
  /\ PromptFairness
  /\ WF_sessionVars(Expire)
  /\ WF_sessionVars(TimePasses)

FairSessionSpec == SessionSpec /\ SessionFairness
FairPromptSpec  == PromptSpec /\ PromptFairness

-----------------------------------------------------------------------------
Active(c, t)  == req[c] = t /\ active[c]
Pending(c, t) == req[c] = t /\ ~active[c]

(***************************************************************************)
(* Every request is answered: the controller becomes active, is refused,   *)
(* or asks for something else (_on_claim answers each claim, and           *)
(* _control_tick repeats a claim that is pending).                         *)
(***************************************************************************)
PendingDecided ==
  \A t \in Peer : \A c \in ControllersOf(t) : Pending(c, t) ~> ~Pending(c, t)

(***************************************************************************)
(* A lease its holder no longer asks for does not stay, whatever frames    *)
(* crossed when the holder was refused, overridden or went elsewhere.      *)
(***************************************************************************)
AbandonedLeaseFreed ==
  \A t \in Peer : \A c \in ControllersOf(t) :
    (leases[t] = c /\ req[c] # t) ~> (leases[t] # c \/ req[c] = t)

(***************************************************************************)
(* A controller that is active without holding the lease gets it back or   *)
(* is stopped: otherwise its user's input is captured and goes nowhere.    *)
(***************************************************************************)
UnleasedControllerStops ==
  \A t \in Peer : \A c \in ControllersOf(t) :
    (Active(c, t) /\ leases[t] # c) ~> (~Active(c, t) \/ leases[t] = c)

(***************************************************************************)
(* When no frame is on its way and no thread at work, the target of an     *)
(* active controller that holds the lease lets it in                       *)
(* (test_control_plane_soak.py:110, assert_active_control).  A heartbeat   *)
(* that renews a lease tells the target nothing, so it stays as it is.     *)
(***************************************************************************)
Settled ==
  /\ \A th \in Thread : Idle(th)
  /\ \A n \in Peer : up[n] = <<>> /\ down[n] = <<>>

SettledControl ==
  Settled => \A t \in Peer : \A c \in ControllersOf(t) :
               Active(c, t) /\ leases[t] = c => auth[t] = c

(***************************************************************************)
(* Once the lease on a target stays with one controller, no other stays    *)
(* active on it (README.md:4: one node at a time controls the input).      *)
(***************************************************************************)
OneControllerRemains ==
  \A t \in Peer : \A d \in ControllersOf(t) :
    <>[](leases[t] = d) => []<>(\A c \in Peer : Active(c, t) => c = d)
=============================================================================

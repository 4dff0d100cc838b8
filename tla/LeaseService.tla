---------------------------- MODULE LeaseService ----------------------------
(***************************************************************************)
(* The lease part of CoordinatorService (control/coordination/service.py), *)
(* at the granularity of its lock: a handler reads or changes the lease    *)
(* table in one step and sends its frames in later steps, after the lock   *)
(* has been released, so the frames of two handlers may be sent in either  *)
(* order.  What a thread has still to do is its continuation todo[th].     *)
(*                                                                         *)
(* Each peer's connection has a receive thread, which handles the peer's   *)
(* frames one after another, a link thread (dialer or handshake) that      *)
(* announces the binding, and the receive thread of its last connection,   *)
(* which announces the unbinding; one more thread expires leases.  The clients and *)
(* the frames on their way are left open here: any peer may send any lease *)
(* frame at any time.  LeaseSession adds them.                             *)
(***************************************************************************)
EXTENDS Naturals, Sequences, FiniteSets

CONSTANTS
  Peer,      \* the nodes connected to this coordinator
  None,      \* "no controller"
  Ttl,       \* lease lifetime, in ticks (DEFAULT_LEASE_TTL_MS)
  Controls,  \* the pairs <<c, t>> such that peer c may ask for target t
  Flaky,     \* the peers whose connection may break
  MaxTodo    \* bound: steps a thread may have left when a send of it fails

ASSUME LeaseServiceAssumption ==
  /\ IsFiniteSet(Peer)
  /\ None \notin Peer
  /\ Ttl \in Nat \ {0}
  /\ Controls \subseteq Peer \X Peer
  /\ Flaky \subseteq Peer
  /\ MaxTodo \in Nat

VARIABLES
  conn,     \* conn[n]: registry entry of peer n: "up", "closing" (closed, unbind still due), "down"
  leases,   \* leases[t]: the controller holding target t, or None
  ttl,      \* ttl[t]: ticks left of the lease on t
  todo      \* todo[th]: the steps thread th has still to take

lsVars == <<conn, leases, ttl, todo>>

Recv(n) == <<"recv", n>>
Link(n) == <<"link", n>>
Last(n) == <<"last", n>>
Expiry  == <<"expiry", None>>
Thread  == ({"recv", "link", "last"} \X Peer) \cup {Expiry}

(***************************************************************************)
(* The steps a handler still has to take: the locked sections of the       *)
(* handlers that first look at the registry, and the frames to be sent.    *)
(***************************************************************************)
ForWho   == {"claim", "heartbeat", "hb_offline", "grant", "deny"}
ForAny   == {"lease_update", "bound", "unbind", "unbound"}
Frames   == {"lease_update", "grant", "deny"}
Step     == [do : ForWho, to : Peer, target : Peer, who : Peer]
              \cup [do : ForAny, to : Peer, target : Peer, who : Peer \cup {None}]
Frame    == {s \in Step : s.do \in Frames}

Do(what, to, t, c)  == [do |-> what, to |-> to, target |-> t, who |-> c]
LeaseUpdate(t, c)   == Do("lease_update", t, t, c)
Grant(t, c)         == Do("grant", c, t, c)
Deny(t, c)          == Do("deny", c, t, c)

TypeOK ==
  /\ conn \in [Peer -> {"up", "closing", "down"}]
  /\ leases \in [Peer -> Peer \cup {None}]
  /\ ttl \in [Peer -> 0 .. Ttl]
  /\ todo \in [Thread -> Seq(Step)]

Init ==
  /\ conn = [n \in Peer |-> "up"]
  /\ leases = [t \in Peer |-> None]
  /\ ttl = [t \in Peer |-> 0]
  /\ todo = [th \in Thread |-> <<>>]

Idle(th)      == todo[th] = <<>>
Next1(th)     == Head(todo[th])
Online(n)     == conn[n] = "up"
Runs(th, what) == ~Idle(th) /\ Next1(th).do = what

\* thread th starts a handler whose remaining steps are steps
Starts(th, steps) == Idle(th) /\ todo' = [todo EXCEPT ![th] = steps]

\* thread th has taken its next step, which leaves steps to be taken first
Continues(th, steps) == todo' = [todo EXCEPT ![th] = steps \o Tail(todo[th])]

\* Mutant of Hold: the lease lasts a tick longer than the TTL.
HoldTooLong(t, c) ==
  /\ leases' = [leases EXCEPT ![t] = c]
  /\ ttl' = [ttl EXCEPT ![t] = Ttl + 1]

\* the lease on t is given to c for a full lifetime, or taken away
Hold(t, c) ==
  /\ leases' = [leases EXCEPT ![t] = c]
  /\ ttl' = [ttl EXCEPT ![t] = Ttl]

Drop(t) ==
  /\ leases' = [leases EXCEPT ![t] = None]
  /\ ttl' = [ttl EXCEPT ![t] = 0]

-----------------------------------------------------------------------------
(***************************************************************************)
(* ctrl.claim from c for t: the registry is consulted before the lock is   *)
(* taken, the lease table under it.                                        *)
(***************************************************************************)
Claim(c, t) ==
  /\ Online(c)
  /\ Starts(Recv(c), IF Online(t) THEN <<Do("claim", c, t, c)>> ELSE <<Deny(t, c)>>)
  /\ UNCHANGED <<conn, leases, ttl>>

\* Mutant of ClaimLocked: a claim of a held target gets no answer.
ClaimUnanswered(th) ==
  /\ Runs(th, "claim")
  /\ LET t == Next1(th).target
         c == Next1(th).who
     IN  \/ /\ leases[t] \in {None, c}
            /\ Hold(t, c)
            /\ Continues(th, <<LeaseUpdate(t, c), Grant(t, c)>>)
         \/ /\ leases[t] \notin {None, c}
            /\ Continues(th, <<>>)
            /\ UNCHANGED <<leases, ttl>>
  /\ UNCHANGED conn

ClaimLocked(th) ==
  /\ Runs(th, "claim")
  /\ LET t == Next1(th).target
         c == Next1(th).who
     IN  \/ /\ leases[t] \in {None, c}
            /\ Hold(t, c)
            /\ Continues(th, <<LeaseUpdate(t, c), Grant(t, c)>>)
         \/ /\ leases[t] \notin {None, c}
            /\ Continues(th, <<Deny(t, c)>>)
            /\ UNCHANGED <<leases, ttl>>
  /\ UNCHANGED conn

(***************************************************************************)
(* ctrl.release from c for t: ignored unless c holds t.                    *)
(***************************************************************************)
Release(c, t) ==
  /\ Online(c)
  /\ \/ /\ leases[t] = c
        /\ Drop(t)
        /\ Starts(Recv(c), <<LeaseUpdate(t, None)>>)
     \/ /\ leases[t] # c
        /\ Idle(Recv(c))
        /\ UNCHANGED <<leases, ttl, todo>>
  /\ UNCHANGED conn

(***************************************************************************)
(* ctrl.local_input_override from the target t against its controller c:   *)
(* local input at t takes the lease away and tells c why.                  *)
(***************************************************************************)
Override(t, c) ==
  /\ Online(t)
  /\ \/ /\ leases[t] = c
        /\ Drop(t)
        /\ Starts(Recv(t), <<LeaseUpdate(t, None), Deny(t, c)>>)
     \/ /\ leases[t] # c
        /\ Idle(Recv(t))
        /\ UNCHANGED <<leases, ttl, todo>>
  /\ UNCHANGED conn

\* Mutant of Heartbeat: the registry is not asked whether t is there.
HeartbeatUnchecked(c, t) ==
  /\ Online(c)
  /\ Starts(Recv(c), <<Do("heartbeat", c, t, c)>>)
  /\ UNCHANGED <<conn, leases, ttl>>

(***************************************************************************)
(* ctrl.heartbeat from c for t.  A target that has gone loses c's lease;   *)
(* otherwise c's lease is renewed, or restored if t is free.  A heartbeat  *)
(* for a target held by another controller is dropped without an answer.   *)
(***************************************************************************)
Heartbeat(c, t) ==
  /\ Online(c)
  /\ Starts(Recv(c), <<Do(IF Online(t) THEN "heartbeat" ELSE "hb_offline", c, t, c)>>)
  /\ UNCHANGED <<conn, leases, ttl>>

HeartbeatOffline(th) ==
  /\ Runs(th, "hb_offline")
  /\ LET t == Next1(th).target
         c == Next1(th).who
     IN  \/ /\ leases[t] = c
            /\ Drop(t)
            /\ Continues(th, <<LeaseUpdate(t, None), Deny(t, c)>>)
         \/ /\ leases[t] # c
            /\ Continues(th, <<Deny(t, c)>>)
            /\ UNCHANGED <<leases, ttl>>
  /\ UNCHANGED conn

\* Mutant of HeartbeatLocked: the holder is not compared with the sender.
HeartbeatSteals(th) ==
  /\ Runs(th, "heartbeat")
  /\ Hold(Next1(th).target, Next1(th).who)
  /\ Continues(th, <<>>)
  /\ UNCHANGED conn

\* Mutant of HeartbeatLocked: only the holder's lease is renewed, a lost one
\* is not restored.
HeartbeatOnlyRenews(th) ==
  /\ Runs(th, "heartbeat")
  /\ LET t == Next1(th).target
         c == Next1(th).who
     IN  \/ /\ leases[t] = c
            /\ Hold(t, c)
         \/ /\ leases[t] # c
            /\ UNCHANGED <<leases, ttl>>
  /\ Continues(th, <<>>)
  /\ UNCHANGED conn

HeartbeatLocked(th) ==
  /\ Runs(th, "heartbeat")
  /\ LET t == Next1(th).target
         c == Next1(th).who
     IN  \/ /\ leases[t] \in {None, c}
            /\ Hold(t, c)
            /\ Continues(th, IF leases[t] = c THEN <<>> ELSE <<LeaseUpdate(t, c)>>)
         \/ /\ leases[t] \notin {None, c}
            /\ Continues(th, <<>>)
            /\ UNCHANGED <<leases, ttl>>
  /\ UNCHANGED conn

-----------------------------------------------------------------------------
(***************************************************************************)
(* A new connection of n is bound (possibly replacing one that is closed   *)
(* and not yet unbound) and its link thread tells the listeners: n is sent *)
(* the lease that the table holds for it.                                  *)
(***************************************************************************)
Bind(n) ==
  /\ conn[n] # "up"
  /\ Idle(Link(n))
  /\ conn' = [conn EXCEPT ![n] = "up"]
  /\ todo' = [todo EXCEPT ![Link(n)] = <<Do("bound", n, n, None)>>]
  /\ UNCHANGED <<leases, ttl>>

BoundLocked(th) ==
  /\ Runs(th, "bound")
  /\ LET t == Next1(th).target IN Continues(th, <<LeaseUpdate(t, leases[t])>>)
  /\ UNCHANGED <<conn, leases, ttl>>

(***************************************************************************)
(* The receive thread of n sees the end of the stream and closes the       *)
(* connection.  Whichever thread closes a connection runs the unbind and   *)
(* then the listeners.                                                     *)
(***************************************************************************)
Close(n) ==
  /\ n \in Flaky
  /\ Online(n)
  /\ Idle(Recv(n))
  /\ conn' = [conn EXCEPT ![n] = "closing"]
  /\ Starts(Last(n), <<Do("unbind", n, n, None)>>)
  /\ UNCHANGED <<leases, ttl>>

(***************************************************************************)
(* Nothing is unbound when a newer connection has taken the entry of the   *)
(* registry: then the listeners never learn that the old one broke.        *)
(***************************************************************************)
Unbind(th) ==
  /\ Runs(th, "unbind")
  /\ LET n == Next1(th).target
     IN  \/ /\ conn[n] = "closing"
            /\ conn' = [conn EXCEPT ![n] = "down"]
            /\ Continues(th, <<Do("unbound", n, n, None)>>)
         \/ /\ conn[n] # "closing"
            /\ Continues(th, <<>>)
            /\ UNCHANGED conn
  /\ UNCHANGED <<leases, ttl>>

(***************************************************************************)
(* The listener drops the lease on n, even if n is bound again by now, and *)
(* tells its controller; the leases n holds on others are left to run out. *)
(***************************************************************************)
UnboundLocked(th) ==
  /\ Runs(th, "unbound")
  /\ LET n == Next1(th).target
         c == leases[n]
     IN  \/ /\ c # None
            /\ Drop(n)
            /\ Continues(th, <<LeaseUpdate(n, None), Deny(n, c)>>)
         \/ /\ c = None
            /\ Continues(th, <<>>)
            /\ UNCHANGED <<leases, ttl>>
  /\ UNCHANGED conn

-----------------------------------------------------------------------------
(***************************************************************************)
(* One pass of the expiry thread: every lease that has run out is dropped  *)
(* under the lock, and the targets are told, in some order.  The           *)
(* controllers are not told.                                               *)
(***************************************************************************)
\* Mutant of Expired: leases on targets that are connected never run out.
ExpiredWhenGone == {t \in Peer : leases[t] # None /\ ttl[t] = 0 /\ ~Online(t)}

Expired == {t \in Peer : leases[t] # None /\ ttl[t] = 0}

ExpireOnce ==
  /\ Expired # {}
  /\ leases' = [t \in Peer |-> IF t \in Expired THEN None ELSE leases[t]]
  /\ \E order \in [1 .. Cardinality(Expired) -> Expired] :
       /\ \A t \in Expired : \E i \in DOMAIN order : order[i] = t
       /\ Starts(Expiry, [i \in 1 .. Cardinality(Expired) |-> LeaseUpdate(order[i], None)])
  /\ UNCHANGED <<conn, ttl>>

(***************************************************************************)
(* Time passes for every lease.                                            *)
(***************************************************************************)
Tick ==
  /\ \E t \in Peer : ttl[t] > 0
  /\ ttl' = [t \in Peer |-> IF ttl[t] > 0 THEN ttl[t] - 1 ELSE 0]
  /\ UNCHANGED <<conn, leases, todo>>

(***************************************************************************)
(* Thread th sends its next frame, which goes nowhere when its addressee   *)
(* has no connection.  A send that fails closes the connection, and the    *)
(* sending thread runs the unbind before it goes on.                       *)
(***************************************************************************)
Sending(th) == ~Idle(th) /\ Next1(th).do \in Frames

Send(th) ==
  /\ Sending(th)
  /\ Continues(th, <<>>)
  /\ UNCHANGED <<conn, leases, ttl>>

SendFails(th) ==
  /\ Sending(th)
  /\ LET n == Next1(th).to
     IN  /\ n \in Flaky
         /\ Online(n)
         /\ Len(todo[th]) <= MaxTodo
         /\ conn' = [conn EXCEPT ![n] = "closing"]
         /\ Continues(th, <<Do("unbind", n, n, None)>>)
  /\ UNCHANGED <<leases, ttl>>

-----------------------------------------------------------------------------
ThreadStep(th) ==
  \/ ClaimLocked(th)
  \/ HeartbeatOffline(th)
  \/ HeartbeatLocked(th)
  \/ BoundLocked(th)
  \/ Unbind(th)
  \/ UnboundLocked(th)
  \/ Send(th)

Next ==
  \/ \E c, t \in Peer :
       /\ <<c, t>> \in Controls
       /\ Claim(c, t) \/ Release(c, t) \/ Override(t, c) \/ Heartbeat(c, t)
  \/ \E th \in Thread : ThreadStep(th) \/ SendFails(th)
  \/ \E n \in Peer : Bind(n) \/ Close(n)
  \/ ExpireOnce
  \/ Tick

Spec == Init /\ [][Next]_lsVars

(***************************************************************************)
(* Fairness: every thread that has work goes on with it, time passes and   *)
(* the expiry thread runs every 250 ms.                                    *)
(***************************************************************************)
Fairness ==
  /\ \A th \in Thread : WF_lsVars(ThreadStep(th))
  /\ WF_lsVars(ExpireOnce)
  /\ WF_lsVars(Tick)

FairSpec == Spec /\ Fairness

-----------------------------------------------------------------------------
(***************************************************************************)
(* A held target passes to another controller only after it has been free, *)
(* whatever the handlers of two peers, the expiry thread and the unbind    *)
(* listeners do between each other's steps (_leases under _lock).          *)
(***************************************************************************)
Lease == INSTANCE LeaseTable WITH holder <- leases
ImplementsLeaseTable == Lease!Spec

(***************************************************************************)
(* The lease on a target that has gone is freed, even if a heartbeat that  *)
(* saw the target online restores it after the unbind listener dropped it, *)
(* and however often its controller goes on sending heartbeats.            *)
(***************************************************************************)
OfflineTargetFreed ==
  \A t \in Peer : []<>(conn[t] = "down" => leases[t] = None)

(***************************************************************************)
(* The lease of a controller that has gone runs out: the unbind listener   *)
(* leaves it in the table and only the expiry thread takes it away.        *)
(***************************************************************************)
OrphanedLeaseFreed ==
  \A c, t \in Peer : []<>(conn[c] = "down" => leases[t] # c)
=============================================================================

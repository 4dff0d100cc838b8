--------------------------- MODULE InstallerShare ---------------------------
(***************************************************************************)
(* InstallerShareManager (app/update/group_update.py) gives an installer   *)
(* that has been downloaded to the other nodes of the group, over HTTP.    *)
(* Each transfer has a thread of its own; they go one after another, in    *)
(* the order of their tickets.                                             *)
(***************************************************************************)
EXTENDS Naturals

CONSTANTS
  Share,        \* share ids
  Transfer,     \* the threads that answer requests (_handle_get)
  MaxTickets    \* bound: tickets that are given out

VARIABLES
  shares,       \* _shares: those that are offered
  stage,        \* of a thread: idle, waits, sends
  ticket,       \* its ticket
  next, active  \* _next_transfer_ticket, _active_transfer_ticket

vars == <<shares, stage, ticket, next, active>>

TypeOK ==
  /\ shares \subseteq Share
  /\ stage \in [Transfer -> {"idle", "waits", "sends"}]
  /\ ticket \in [Transfer -> Nat]
  /\ next \in Nat /\ active \in Nat

Init ==
  /\ shares = {}
  /\ stage = [h \in Transfer |-> "idle"]
  /\ ticket = [h \in Transfer |-> 0]
  /\ next = 0 /\ active = 0

-----------------------------------------------------------------------------
\* share_file
Offer(s) ==
  /\ s \notin shares /\ shares' = shares \cup {s}
  /\ UNCHANGED <<stage, ticket, next, active>>

\* _purge_expired_locked; close drops all of them.  A transfer that has
\* begun goes on.
Expire(s) ==
  /\ s \in shares /\ shares' = shares \ {s}
  /\ UNCHANGED <<stage, ticket, next, active>>

\* _handle_get for a share that is offered, up to the ticket; the wait of
\* _acquire_transfer_ticket releases the condition.
Acquire(h) ==
  /\ stage[h] = "idle" /\ shares # {}
  /\ next < MaxTickets
  /\ ticket' = [ticket EXCEPT ![h] = next] /\ next' = next + 1
  /\ stage' = [stage EXCEPT ![h] = "waits"]
  /\ UNCHANGED <<shares, active>>

\* Mutant of Begin: the one that waits next but one goes as well.
BeginEarly(h) ==
  /\ stage[h] = "waits" /\ ticket[h] <= active + 1
  /\ stage' = [stage EXCEPT ![h] = "sends"]
  /\ UNCHANGED <<shares, ticket, next, active>>

Begin(h) ==
  /\ stage[h] = "waits" /\ ticket[h] = active
  /\ stage' = [stage EXCEPT ![h] = "sends"]
  /\ UNCHANGED <<shares, ticket, next, active>>

\* Mutant of Release: a transfer that fails does not pass the turn on.
ReleaseNobody(h) ==
  /\ stage[h] = "sends"
  /\ stage' = [stage EXCEPT ![h] = "idle"]
  /\ active' \in {active, active + 1}
  /\ UNCHANGED <<shares, ticket, next>>

\* A transfer ends: all has been sent, or the receiver has gone.  Both ways
\* lead through _release_transfer_ticket.
Release(h) ==
  /\ stage[h] = "sends"
  /\ stage' = [stage EXCEPT ![h] = "idle"]
  /\ active' = IF ticket[h] = active THEN active + 1 ELSE active
  /\ UNCHANGED <<shares, ticket, next>>

Next ==
  \/ \E s \in Share : Offer(s) \/ Expire(s)
  \/ \E h \in Transfer : Acquire(h) \/ Begin(h) \/ Release(h)

Spec == Init /\ [][Next]_vars

\* Threads run, and a transfer ends: its receiver takes all of it or breaks
\* the connection.  (Nothing in the code limits the time it may take.)
Fairness == \A h \in Transfer : WF_vars(Begin(h)) /\ WF_vars(Release(h))

-----------------------------------------------------------------------------
(***************************************************************************)
(* However many nodes fetch the installer at the same time, and however    *)
(* their transfers end, one is sent at a time: two threads never have the  *)
(* same turn (_transfer_condition).                                        *)
(***************************************************************************)
OneTransfer ==
  \A g, h \in Transfer : stage[g] = "sends" /\ stage[h] = "sends" => g = h

(***************************************************************************)
(* Whoever has a ticket gets its turn, also when those before it give up   *)
(* in the middle of their transfers: in the end nobody waits (tickets are  *)
(* bounded).                                                               *)
(***************************************************************************)
EveryoneServed == []<>(\A h \in Transfer : stage[h] # "waits")
=============================================================================

----------------------------- MODULE OwnAddress -----------------------------
(***************************************************************************)
(* How a node that is not the coordinator follows its own address:         *)
(* control/state/state_watcher.py finds out that it has changed,           *)
(* app/bootstrap/session.py enters it in the node's own list and asks the  *)
(* coordinator to do the same, and asks again when its list was stale.     *)
(*                                                                         *)
(* Two threads do so: the watcher's, and the one that receives lists and   *)
(* answers a stale one.  One thread at a time saves, the coordinator       *)
(* handles a request as one step (NodeList has the steps), and a request   *)
(* is tracked as soon as it is sent.  Of a list only this node's address   *)
(* is kept; edits of others leave it as the coordinator has it.            *)
(***************************************************************************)
EXTENDS Naturals, Sequences

CONSTANTS
  Address,      \* the addresses this machine may have
  Home,         \* the one it has at first
  Locals,       \* the sets of addresses it may have at a time
  None,
  MaxRetries,   \* SELF_IP_SYNC_MAX_RETRIES
  \* bounds: how often the addresses change, others edit the list, the connection
  \* breaks, and somebody fails to save it
  MaxMoves, MaxEdits, MaxBreaks, MaxFails

Loopback == "127.0.0.1"
Others   == 0    \* the identifier of somebody else's request
Thread   == {"watcher", "receiver"}

VARIABLES
  local,      \* the addresses of the machine, but for the loopback address
  seen,       \* _last_local_ips
  last,       \* _last_self_ip
  told,       \* a peer told the address, which the watcher has not noted
  own,        \* this node's address in its own list
  rev,        \* the revision of its list
  pending,    \* _pending_self_ip_sync
  step,       \* what a thread does next in _sync_self_ip_change
  tracked,    \* the requests that may still time out
  known,      \* this node's address in the coordinator's list
  crev,       \* the revision of that list
  up, down,   \* requests and lists on their way
  linked,     \* whether the two are connected
  warned,     \* the user was warned since the node last set out to follow a change
  crossed,    \* the two threads have been at it at the same time
  refused,    \* the coordinator or the client could not save a list
  ids, moves, edits, breaks

vars == <<local, seen, last, told, own, rev, pending, step, tracked, known, crev, up, down, linked,
          warned, crossed, refused, ids, moves, edits, breaks>>

here   == <<local, seen, last, told, moves>>
there  == <<known, crev, edits>>
wire   == <<linked, breaks>>

Ids     == Nat \ {0}
Ip      == Address \cup {Loopback}
Step    == {"none", "apply", "check", "number", "send"}
Change  == [ip : Ip, retries : 0 .. MaxRetries, id : Ids \cup {None}]
Request == [ip : Ip, base : Nat, id : Ids]
List    == [ip : Ip, revision : Nat, id : Ids \cup {Others, None},
            reject : {"none", "stale_revision", "apply_failed"}]

AddressTypeOK ==
  /\ local \subseteq Address /\ seen \subseteq Address
  /\ last \in Ip /\ own \in Ip /\ known \in Ip
  /\ pending = None \/ pending \in Change
  /\ step \in [Thread -> [do : Step, ip : Ip \cup {None}]]
  /\ tracked \subseteq Ids
  /\ rev \in Nat /\ crev \in Nat /\ ids \in Nat
  /\ moves \in Nat /\ edits \in Nat /\ breaks \in Nat
  /\ up \in Seq(Request) /\ down \in Seq(List)
  /\ linked \in BOOLEAN /\ warned \in BOOLEAN /\ crossed \in BOOLEAN /\ refused \in BOOLEAN
  /\ told \in BOOLEAN

Idle == [do |-> "none", ip |-> None]
Busy(th) == step[th] # Idle

AddressInit ==
  /\ local = {Home} /\ seen = {Home}
  /\ last = Home /\ own = Home /\ known = Home
  /\ rev = 0 /\ crev = 0
  /\ pending = None /\ told = FALSE
  /\ step = [th \in Thread |-> Idle]
  /\ tracked = {}
  /\ up = <<>> /\ down = <<>>
  /\ linked = TRUE
  /\ warned = FALSE /\ crossed = FALSE /\ refused = FALSE
  /\ ids = 0 /\ moves = 0 /\ edits = 0 /\ breaks = 0

Runs(th, what) == step[th].do = what
Goes(th, what) == step' = [step EXCEPT ![th] = IF what = "none" THEN Idle ELSE [@ EXCEPT !.do = what]]

-----------------------------------------------------------------------------
(***************************************************************************)
(* The addresses change.  Without any the connection is gone.              *)
(***************************************************************************)
Move(s) ==
  /\ moves < MaxMoves /\ s # local
  /\ moves' = moves + 1
  /\ local' = s
  /\ IF s = {} THEN linked' = FALSE /\ up' = <<>> /\ down' = <<>>
               ELSE UNCHANGED <<linked, up, down>>
  /\ UNCHANGED <<seen, last, told, own, rev, pending, step, tracked, there, warned, crossed,
                 refused, ids, breaks>>

(***************************************************************************)
(* What the watcher takes for the current address, None when it cannot     *)
(* tell.  The loopback address is always local.                            *)
(***************************************************************************)
Single(s)  == \E a \in s : s = {a}
TheOnly(s) == CHOOSE a \in s : s = {a}

Resolved ==
  LET new == local \ seen
  IN  IF Single(local) /\ last \notin local THEN TheOnly(local)
      ELSE IF last \in local \cup {Loopback} THEN last
      ELSE IF Single(new) THEN TheOnly(new)
      ELSE IF local = {} THEN Loopback
      ELSE None

\* the change is to be made known
Sync(ip) ==
  /\ IF pending # None /\ pending.ip = ip
     THEN UNCHANGED <<pending, step, crossed, warned>>
     ELSE /\ pending' = [ip |-> ip, retries |-> 0, id |-> None]
          /\ step' = [step EXCEPT !["watcher"] = [do |-> "apply", ip |-> ip]]
          /\ crossed' = (crossed \/ Busy("receiver"))
          /\ warned' = FALSE

\* Mutant of Ambiguous: nothing is said when no peer can be reached.
AmbiguousUntold ==
  \/ linked /\ told' = TRUE /\ \E a \in local : Sync(a)
  \/ UNCHANGED <<pending, step, crossed, warned, told>>

\* which of several addresses leads to a peer, if one answers
Ambiguous ==
  \/ linked /\ told' = TRUE /\ \E a \in local : Sync(a)
  \/ warned' = TRUE /\ UNCHANGED <<pending, step, crossed, told>>

(***************************************************************************)
(* A tick of the watcher.  It counts the change as dealt with whatever     *)
(* comes of it, except that an address a peer had to tell is not noted.    *)
(***************************************************************************)
Detect ==
  /\ ~Busy("watcher")
  /\ local # seen \/ Resolved # last
  /\ seen' = local
  /\ \/ /\ Resolved = None /\ local # seen
        /\ Ambiguous
        /\ UNCHANGED last
     \/ /\ Resolved \in Ip /\ Resolved # last
        /\ Sync(Resolved)
        /\ last' = Resolved /\ told' = FALSE
     \/ /\ Resolved = last
        /\ UNCHANGED <<last, told, pending, step, crossed, warned>>
  /\ UNCHANGED <<local, moves, own, rev, tracked, there, up, down, wire, refused, ids>>

-----------------------------------------------------------------------------
(***************************************************************************)
(* _sync_self_ip_change, in either thread.  The address is entered in the  *)
(* node's own list, which is saved; a list may come before it is looked    *)
(* at again, and before it is sent.                                        *)
(***************************************************************************)
Abandon == pending' = None

Apply(th) ==
  /\ Runs(th, "apply")
  /\ \/ /\ own' = step[th].ip
        /\ Goes(th, "check")
        /\ UNCHANGED <<pending, warned>>
     \/ /\ own # step[th].ip
        /\ Abandon /\ warned' = TRUE
        /\ Goes(th, "none")
        /\ UNCHANGED own
  /\ UNCHANGED <<here, rev, tracked, there, up, down, wire, crossed, refused, ids>>

Check(th) ==
  /\ Runs(th, "check")
  /\ \/ own = step[th].ip /\ Goes(th, "number") /\ UNCHANGED pending
     \/ own # step[th].ip /\ Goes(th, "none") /\ Abandon
  /\ UNCHANGED <<here, own, rev, tracked, there, up, down, wire, warned, crossed, refused, ids>>

\* the request gets an identifier; it goes to whatever is pending by now
Number(th) ==
  /\ Runs(th, "number")
  /\ ids' = ids + 1
  /\ pending' = IF pending = None THEN None ELSE [pending EXCEPT !.id = ids']
  /\ Goes(th, "send")
  /\ UNCHANGED <<here, own, rev, tracked, there, up, down, wire, warned, crossed, refused>>

\* Mutant of Send: a request that cannot be sent is passed over.
SendSilently(th) ==
  /\ Runs(th, "send")
  /\ IF linked
     THEN /\ up' = Append(up, [ip |-> own, base |-> rev, id |-> ids])
          /\ tracked' = tracked \cup {ids}
          /\ UNCHANGED <<pending, warned>>
     ELSE /\ Abandon
          /\ UNCHANGED <<up, tracked, warned>>
  /\ Goes(th, "none")
  /\ UNCHANGED <<here, own, rev, there, down, wire, crossed, refused, ids>>

\* the list, as it is by now; without a connection the user is warned
Send(th) ==
  /\ Runs(th, "send")
  /\ IF linked
     THEN /\ up' = Append(up, [ip |-> own, base |-> rev, id |-> ids])
          /\ tracked' = tracked \cup {ids}
          /\ UNCHANGED <<pending, warned>>
     ELSE /\ Abandon /\ warned' = TRUE
          /\ UNCHANGED <<up, tracked>>
  /\ Goes(th, "none")
  /\ UNCHANGED <<here, own, rev, there, down, wire, crossed, refused, ids>>

-----------------------------------------------------------------------------
(***************************************************************************)
(* The coordinator, which refuses a list that was made from an old one.    *)
(***************************************************************************)
Told(ip, r, id, reject) ==
  down' = Append(down, [ip |-> ip, revision |-> r, id |-> id, reject |-> reject])

Serve ==
  /\ up # <<>>
  /\ up' = Tail(up)
  /\ LET q == Head(up)
     IN  \/ /\ q.base # crev
            /\ Told(known, crev, q.id, "stale_revision")
            /\ UNCHANGED <<known, crev, refused>>
         \/ /\ q.base = crev
            /\ known' = q.ip /\ crev' = crev + 1
            /\ Told(q.ip, crev', q.id, "none")
            /\ UNCHANGED refused
         \/ /\ q.base = crev /\ q.ip # known /\ ~refused /\ MaxFails > 0
            /\ Told(known, crev, q.id, "apply_failed")
            /\ refused' = TRUE
            /\ UNCHANGED <<known, crev>>
  /\ UNCHANGED <<here, own, rev, pending, step, tracked, wire, warned, crossed, ids, edits>>

\* somebody else's edit is granted
Edit ==
  /\ edits < MaxEdits
  /\ edits' = edits + 1
  /\ crev' = crev + 1
  /\ IF linked THEN Told(known, crev', Others, "none") ELSE UNCHANGED down
  /\ UNCHANGED <<here, own, rev, pending, step, tracked, known, up, wire, warned, crossed,
                 refused, ids>>

-----------------------------------------------------------------------------
(***************************************************************************)
(* _handle_self_ip_sync_node_list_change: it answers for the request that  *)
(* is pending, or for any while that has no identifier yet.                *)
(***************************************************************************)
Concerns(id) == pending # None /\ pending.id \in {None, id}

Stale(id, reject) == Concerns(id) /\ reject = "stale_revision"

\* Mutant of Retry: the address is not entered again, which the coordinator's list has undone.
RetryAsItIs ==
  /\ pending' = [pending EXCEPT !.retries = @ + 1, !.id = None]
  /\ step' = [step EXCEPT !["receiver"] = [do |-> "number", ip |-> pending.ip]]
  /\ crossed' = (crossed \/ Busy("watcher"))
  /\ UNCHANGED warned

Retry ==
  /\ pending' = [pending EXCEPT !.retries = @ + 1, !.id = None]
  /\ step' = [step EXCEPT !["receiver"] = [do |-> "apply", ip |-> pending.ip]]
  /\ crossed' = (crossed \/ Busy("watcher"))
  /\ UNCHANGED warned

GiveUp ==
  /\ Abandon /\ warned' = TRUE
  /\ UNCHANGED <<step, crossed>>

(***************************************************************************)
(* A list that is not older than the one here replaces it.  When it cannot *)
(* be saved, the listener hears so only with a request's identifier, and   *)
(* does nothing.                                                           *)
(***************************************************************************)
Listen(l) ==
  IF Stale(l.id, l.reject)
  THEN IF pending.retries < MaxRetries THEN Retry ELSE GiveUp
  ELSE /\ IF Concerns(l.id) /\ pending.id # None /\ own' = pending.ip
          THEN Abandon ELSE UNCHANGED pending
       /\ crossed' = (crossed \/ Busy("watcher"))
       /\ UNCHANGED <<step, warned>>

Receive ==
  /\ down # <<>> /\ ~Busy("receiver")
  /\ down' = Tail(down)
  /\ LET l == Head(down)
     IN  \/ /\ l.revision < rev
            /\ UNCHANGED <<own, rev, pending, step, tracked, warned, crossed, refused>>
         \/ /\ l.revision >= rev
            /\ own' = l.ip /\ rev' = l.revision /\ tracked' = tracked \ {l.id}
            /\ Listen(l)
            /\ UNCHANGED refused
         \/ /\ l.revision >= rev /\ l.ip # own /\ ~refused /\ MaxFails > 0
            /\ refused' = TRUE
            /\ UNCHANGED <<own, rev, pending, step, tracked, warned, crossed>>
  /\ UNCHANGED <<here, there, up, wire, ids>>

\* Mutant of Expire: it is only forgotten.
ExpireUntold(id) ==
  /\ id \in tracked
  /\ tracked' = tracked \ {id}
  /\ UNCHANGED <<pending, warned>>
  /\ UNCHANGED <<here, own, rev, step, there, up, down, wire, crossed, refused, ids>>

\* a request has not been answered in time; it is not made again
Expire(id) ==
  /\ id \in tracked
  /\ tracked' = tracked \ {id}
  /\ IF Concerns(id) THEN Abandon /\ warned' = TRUE ELSE UNCHANGED <<pending, warned>>
  /\ UNCHANGED <<here, own, rev, step, there, up, down, wire, crossed, refused, ids>>

-----------------------------------------------------------------------------
Break ==
  /\ linked /\ breaks < MaxBreaks
  /\ linked' = FALSE /\ breaks' = breaks + 1
  /\ up' = <<>> /\ down' = <<>>
  /\ UNCHANGED <<here, own, rev, pending, step, tracked, there, warned, crossed, refused, ids>>

\* whoever connects is sent the coordinator's list
Rebind ==
  /\ ~linked /\ local # {}
  /\ linked' = TRUE
  /\ Told(known, crev, None, "none")
  /\ UNCHANGED <<here, own, rev, pending, step, tracked, there, up, warned, crossed, refused,
                 ids, breaks>>

AddressNext ==
  \/ \E s \in Locals : Move(s)
  \/ Detect
  \/ \E th \in Thread : Apply(th) \/ Check(th) \/ Number(th) \/ Send(th)
  \/ Serve \/ Edit \/ Receive
  \/ \E id \in tracked : Expire(id)
  \/ Break \/ Rebind

AddressSpec == AddressInit /\ [][AddressNext]_vars

-----------------------------------------------------------------------------
(***************************************************************************)
(* Once everything has been dealt with, nothing is pending, and either the *)
(* coordinator and this node have the same address for it, which is one it *)
(* has, or the user was warned (README.md:99, session.py:539-623): unless  *)
(* the two threads got into each other's way, or somebody could not save   *)
(* a list, after which the request is neither made again nor given up.     *)
(* An address a peer told may be gone: the watcher, which has noted the    *)
(* one before, sees nothing when the machine goes back to that one; and    *)
(* the loopback address stays when several come at a time after none.      *)
(***************************************************************************)
Quiet ==
  /\ up = <<>> /\ down = <<>> /\ tracked = {}
  /\ \A th \in Thread : ~Busy(th)
  /\ local = seen /\ Resolved \in {last, None}

AddressFollows ==
  Quiet /\ linked /\ ~crossed /\ ~refused =>
    /\ pending = None
    /\ warned \/ (own = known /\ (told \/ own \in local \cup {Loopback}))
=============================================================================

------------------------- MODULE LeaseServiceProofs -------------------------
(***************************************************************************)
(* Proofs about LeaseService, for any set of peers: the type invariant is  *)
(* inductive as it stands; with it, every step of the service is a step of *)
(* LeaseTable or leaves the lease table alone.  And about OwnAddress, for  *)
(* any addresses and any number of changes: the node's own address reaches *)
(* the coordinator, or its user is warned.                                 *)
(***************************************************************************)
EXTENDS Membership, FiniteSetTheorems, SequenceTheorems, TLAPS

USE LeaseServiceAssumption

(***************************************************************************)
(* The threads, and the steps a handler may leave behind.                  *)
(***************************************************************************)
LEMMA ThreadNames ==
  /\ Expiry \in Thread
  /\ \A n \in Peer : Recv(n) \in Thread /\ Link(n) \in Thread /\ Last(n) \in Thread
BY DEF Thread, Recv, Link, Last, Expiry

LEMMA StepTypes ==
  ASSUME NEW t \in Peer, NEW n \in Peer
  PROVE  /\ \A c \in Peer : /\ Grant(t, c) \in Step
                            /\ Deny(t, c) \in Step
                            /\ \A what \in ForWho : Do(what, n, t, c) \in Step
         /\ \A c \in Peer \cup {None} : /\ LeaseUpdate(t, c) \in Step
                                       /\ \A what \in ForAny : Do(what, n, t, c) \in Step
BY DEF LeaseUpdate, Grant, Deny, Do, Step, ForWho, ForAny

(***************************************************************************)
(* A thread that is not idle has a step to take, and others after it.      *)
(***************************************************************************)
LEMMA NextStep ==
  ASSUME TypeOK, NEW th \in Thread, ~Idle(th)
  PROVE  /\ Next1(th) \in Step
         /\ Next1(th).to \in Peer
         /\ Next1(th).target \in Peer
         /\ Next1(th).who \in Peer \cup {None}
         /\ Next1(th).do \in ForWho => Next1(th).who \in Peer
         /\ Tail(todo[th]) \in Seq(Step)
<1>1. todo[th] \in Seq(Step) /\ todo[th] # <<>>
  BY DEF TypeOK, Idle
<1>2. Next1(th) \in Step /\ Tail(todo[th]) \in Seq(Step)
  BY <1>1 DEF Next1
<1>3. QED
  BY <1>2 DEF Step, ForWho, ForAny

(***************************************************************************)
(* Starting or continuing a handler with well-typed steps keeps todo       *)
(* well-typed.                                                             *)
(***************************************************************************)
LEMMA ContinuesType ==
  ASSUME TypeOK, NEW th \in Thread, ~Idle(th),
         NEW steps \in Seq(Step), Continues(th, steps)
  PROVE  todo' \in [Thread -> Seq(Step)]
<1>1. steps \o Tail(todo[th]) \in Seq(Step)
  BY NextStep
<1>2. QED
  BY <1>1 DEF Continues, TypeOK

LEMMA StartsType ==
  ASSUME TypeOK, NEW th \in Thread, NEW steps \in Seq(Step), Starts(th, steps)
  PROVE  todo' \in [Thread -> Seq(Step)]
BY DEF Starts, TypeOK

(***************************************************************************)
(* Giving a lease to a peer, or dropping it, keeps the lease table well-   *)
(* typed.                                                                  *)
(***************************************************************************)
LEMMA HoldType ==
  ASSUME TypeOK, NEW t \in Peer, NEW c \in Peer, Hold(t, c)
  PROVE  leases' \in [Peer -> Peer \cup {None}] /\ ttl' \in [Peer -> 0 .. Ttl]
BY DEF Hold, TypeOK

LEMMA DropType ==
  ASSUME TypeOK, NEW t \in Peer, Drop(t)
  PROVE  leases' \in [Peer -> Peer \cup {None}] /\ ttl' \in [Peer -> 0 .. Ttl]
BY DEF Drop, TypeOK

-----------------------------------------------------------------------------
(***************************************************************************)
(* The service starts well-typed: all peers connected, no lease, no thread *)
(* at work.                                                                *)
(***************************************************************************)
LEMMA InitType == Init => TypeOK
BY DEF Init, TypeOK

(***************************************************************************)
(* The part of a claim, release, override or heartbeat that runs before    *)
(* the lock, or all of it, keeps the state well-typed.                     *)
(***************************************************************************)
LEMMA RequestType ==
  ASSUME TypeOK, NEW c \in Peer, NEW t \in Peer,
         Claim(c, t) \/ Release(c, t) \/ Override(t, c) \/ Heartbeat(c, t)
  PROVE  TypeOK'
<1>1. Recv(c) \in Thread /\ Recv(t) \in Thread
  BY ThreadNames
<1>2. CASE Claim(c, t)
  <2>1. PICK s \in Step : Starts(Recv(c), <<s>>)
    <3>1. Do("claim", c, t, c) \in Step /\ Deny(t, c) \in Step
      BY StepTypes DEF ForWho
    <3>2. CASE Online(t)
      BY <1>2, <3>1, <3>2 DEF Claim
    <3>3. CASE ~Online(t)
      BY <1>2, <3>1, <3>3 DEF Claim
    <3>4. QED
      BY <3>2, <3>3
  <2>2. todo' \in [Thread -> Seq(Step)]
    <3>1. <<s>> \in Seq(Step)
      OBVIOUS
    <3>2. QED
      BY <1>1, <2>1, <3>1, StartsType
  <2>3. QED
    BY <1>2, <2>2 DEF Claim, TypeOK
<1>3. CASE Release(c, t)
  <2>1. CASE leases[t] = c /\ Drop(t) /\ Starts(Recv(c), <<LeaseUpdate(t, None)>>)
    <3>1. <<LeaseUpdate(t, None)>> \in Seq(Step)
      BY StepTypes
    <3>2. todo' \in [Thread -> Seq(Step)]
      BY <1>1, <2>1, <3>1, StartsType
    <3>3. QED
      BY <1>3, <2>1, <3>2, DropType DEF Release, TypeOK
  <2>2. CASE UNCHANGED <<leases, ttl, todo>>
    BY <1>3, <2>2 DEF Release, TypeOK
  <2>3. QED
    BY <1>3, <2>1, <2>2 DEF Release
<1>4. CASE Override(t, c)
  <2>1. CASE /\ leases[t] = c
             /\ Drop(t)
             /\ Starts(Recv(t), <<LeaseUpdate(t, None), Deny(t, c)>>)
    <3>1. <<LeaseUpdate(t, None), Deny(t, c)>> \in Seq(Step)
      BY StepTypes
    <3>2. todo' \in [Thread -> Seq(Step)]
      BY <1>1, <2>1, <3>1, StartsType
    <3>3. QED
      BY <1>4, <2>1, <3>2, DropType DEF Override, TypeOK
  <2>2. CASE UNCHANGED <<leases, ttl, todo>>
    BY <1>4, <2>2 DEF Override, TypeOK
  <2>3. QED
    BY <1>4, <2>1, <2>2 DEF Override
<1>5. CASE Heartbeat(c, t)
  <2>1. PICK s \in Step : Starts(Recv(c), <<s>>)
    <3>1. Do("heartbeat", c, t, c) \in Step /\ Do("hb_offline", c, t, c) \in Step
      BY StepTypes DEF ForWho
    <3>2. QED
      BY <1>5, <3>1 DEF Heartbeat
  <2>2. todo' \in [Thread -> Seq(Step)]
    <3>1. <<s>> \in Seq(Step)
      OBVIOUS
    <3>2. QED
      BY <1>1, <2>1, <3>1, StartsType
  <2>3. QED
    BY <1>5, <2>2 DEF Heartbeat, TypeOK
<1>6. QED
  BY <1>2, <1>3, <1>4, <1>5

(***************************************************************************)
(* The locked parts of claim and heartbeat keep the state well-typed.      *)
(***************************************************************************)
LEMMA LockedType ==
  ASSUME TypeOK, NEW th \in Thread,
         ClaimLocked(th) \/ HeartbeatOffline(th) \/ HeartbeatLocked(th)
  PROVE  TypeOK'
<1> DEFINE t == Next1(th).target
           c == Next1(th).who
<1>1. ~Idle(th) /\ Next1(th).do \in ForWho
  BY DEF ClaimLocked, HeartbeatOffline, HeartbeatLocked, Runs, ForWho
<1>2. t \in Peer /\ c \in Peer
  BY <1>1, NextStep
<1>3. /\ <<>> \in Seq(Step)
      /\ <<LeaseUpdate(t, c), Grant(t, c)>> \in Seq(Step)
      /\ <<LeaseUpdate(t, None), Deny(t, c)>> \in Seq(Step)
      /\ <<LeaseUpdate(t, c)>> \in Seq(Step)
      /\ <<Deny(t, c)>> \in Seq(Step)
  BY <1>2, StepTypes
<1>4. UNCHANGED conn
  BY DEF ClaimLocked, HeartbeatOffline, HeartbeatLocked
<1>5. todo' \in [Thread -> Seq(Step)]
  <2>1. PICK steps \in Seq(Step) : Continues(th, steps)
    <3> HIDE DEF t, c
    <3>1. CASE ClaimLocked(th)
      BY <1>3, <3>1 DEF ClaimLocked, t, c
    <3>2. CASE HeartbeatOffline(th)
      BY <1>3, <3>2 DEF HeartbeatOffline, t, c
    <3>3. CASE HeartbeatLocked(th)
      BY <1>3, <3>3 DEF HeartbeatLocked, t, c
    <3>4. QED
      BY <3>1, <3>2, <3>3
  <2>2. QED
    BY <1>1, <2>1, ContinuesType
<1>6. \/ Hold(t, c)
      \/ Drop(t)
      \/ UNCHANGED <<leases, ttl>>
  BY DEF ClaimLocked, HeartbeatOffline, HeartbeatLocked
<1>7. leases' \in [Peer -> Peer \cup {None}] /\ ttl' \in [Peer -> 0 .. Ttl]
  <2>1. CASE Hold(t, c)
    BY <1>2, <2>1, HoldType
  <2>2. CASE Drop(t)
    BY <1>2, <2>2, DropType
  <2>3. CASE UNCHANGED <<leases, ttl>>
    BY <2>3 DEF TypeOK
  <2>4. QED
    BY <1>6, <2>1, <2>2, <2>3
<1>8. QED
  BY <1>4, <1>5, <1>7 DEF TypeOK

(***************************************************************************)
(* The unbind and the registry listener keep the state well-typed: whoever *)
(* loses a lease that is dropped is a peer, so the deny has an addressee.  *)
(***************************************************************************)
LEMMA ListenerType ==
  ASSUME TypeOK, NEW th \in Thread,
         BoundLocked(th) \/ Unbind(th) \/ UnboundLocked(th)
  PROVE  TypeOK'
<1> DEFINE n == Next1(th).target
<1>1. ~Idle(th)
  BY DEF BoundLocked, Unbind, UnboundLocked, Runs
<1>2. n \in Peer /\ leases[n] \in Peer \cup {None}
  BY <1>1, NextStep DEF TypeOK
<1>3. CASE BoundLocked(th)
  <2>1. Continues(th, <<LeaseUpdate(n, leases[n])>>) /\ UNCHANGED <<conn, leases, ttl>>
    BY <1>3 DEF BoundLocked
  <2>2. <<LeaseUpdate(n, leases[n])>> \in Seq(Step)
    BY <1>2, StepTypes
  <2>3. todo' \in [Thread -> Seq(Step)]
    BY <1>1, <2>1, <2>2, ContinuesType
  <2>4. QED
    BY <2>1, <2>3 DEF TypeOK
<1>4. CASE Unbind(th)
  <2>1. <<Do("unbound", n, n, None)>> \in Seq(Step) /\ <<>> \in Seq(Step)
    BY <1>2, StepTypes DEF ForAny
  <2>2. todo' \in [Thread -> Seq(Step)]
    <3>1. PICK steps \in Seq(Step) : Continues(th, steps)
      BY <1>4, <2>1 DEF Unbind
    <3>2. QED
      BY <1>1, <3>1, ContinuesType
  <2>3. conn' \in [Peer -> {"up", "closing", "down"}] /\ UNCHANGED <<leases, ttl>>
    BY <1>2, <1>4 DEF Unbind, TypeOK
  <2>4. QED
    BY <2>2, <2>3 DEF TypeOK
<1>5. CASE UnboundLocked(th)
  <2>1. CASE leases[n] # None
    <3>1. /\ Drop(n)
          /\ Continues(th, <<LeaseUpdate(n, None), Deny(n, leases[n])>>)
          /\ UNCHANGED conn
      BY <1>5, <2>1 DEF UnboundLocked
    <3>2. <<LeaseUpdate(n, None), Deny(n, leases[n])>> \in Seq(Step)
      BY <1>2, <2>1, StepTypes
    <3>3. todo' \in [Thread -> Seq(Step)]
      BY <1>1, <3>1, <3>2, ContinuesType
    <3>4. QED
      BY <1>2, <3>1, <3>3, DropType DEF TypeOK
  <2>2. CASE leases[n] = None
    <3>1. Continues(th, <<>>) /\ UNCHANGED <<conn, leases, ttl>>
      BY <1>5, <2>2 DEF UnboundLocked
    <3>2. todo' \in [Thread -> Seq(Step)]
      <4>1. <<>> \in Seq(Step)
        OBVIOUS
      <4>2. QED
        BY <1>1, <3>1, <4>1, ContinuesType
    <3>3. QED
      BY <3>1, <3>2 DEF TypeOK
  <2>3. QED
    BY <2>1, <2>2
<1>6. QED
  BY <1>3, <1>4, <1>5

(***************************************************************************)
(* Sending a frame keeps the state well-typed, also when it fails and the  *)
(* sender has the unbind to run.                                           *)
(***************************************************************************)
LEMMA SendType ==
  ASSUME TypeOK, NEW th \in Thread, Send(th) \/ SendFails(th)
  PROVE  TypeOK'
<1> DEFINE n == Next1(th).to
<1>1. ~Idle(th)
  BY DEF Send, SendFails, Sending
<1>2. n \in Peer
  BY <1>1, NextStep
<1>3. CASE Send(th)
  <2>1. todo' \in [Thread -> Seq(Step)]
    <3>1. <<>> \in Seq(Step)
      OBVIOUS
    <3>2. QED
      BY <1>1, <1>3, <3>1, ContinuesType DEF Send
  <2>2. QED
    BY <1>3, <2>1 DEF Send, TypeOK
<1>4. CASE SendFails(th)
  <2>1. <<Do("unbind", n, n, None)>> \in Seq(Step)
    BY <1>2, StepTypes DEF ForAny
  <2>2. todo' \in [Thread -> Seq(Step)]
    BY <1>1, <1>4, <2>1, ContinuesType DEF SendFails
  <2>3. QED
    BY <1>4, <2>2 DEF SendFails, TypeOK
<1>5. QED
  BY <1>3, <1>4

(***************************************************************************)
(* Binding and closing a connection keep the state well-typed.             *)
(***************************************************************************)
LEMMA LinkType ==
  ASSUME TypeOK, NEW n \in Peer, Bind(n) \/ Close(n)
  PROVE  TypeOK'
<1>1. Link(n) \in Thread /\ Last(n) \in Thread
  BY ThreadNames
<1>2. <<Do("bound", n, n, None)>> \in Seq(Step) /\ <<Do("unbind", n, n, None)>> \in Seq(Step)
  BY StepTypes DEF ForAny
<1>3. CASE Bind(n)
  BY <1>1, <1>2, <1>3 DEF Bind, TypeOK
<1>4. CASE Close(n)
  <2>1. todo' \in [Thread -> Seq(Step)]
    BY <1>1, <1>2, <1>4, StartsType DEF Close
  <2>2. QED
    BY <1>4, <2>1 DEF Close, TypeOK
<1>5. QED
  BY <1>3, <1>4

(***************************************************************************)
(* A pass of the expiry thread keeps the state well-typed: the targets are *)
(* told in an order, a sequence of lease updates.                          *)
(***************************************************************************)
LEMMA ExpiryType ==
  ASSUME TypeOK, ExpireOnce
  PROVE  TypeOK'
<1> DEFINE size == Cardinality(Expired)
<1>1. size \in Nat
  <2>1. Expired \subseteq Peer
    BY DEF Expired
  <2>2. QED
    BY <2>1, FS_Subset, FS_CardinalityType DEF LeaseServiceAssumption
<1>2. PICK order \in [1 .. size -> Expired] :
        Starts(Expiry, [i \in 1 .. size |-> LeaseUpdate(order[i], None)])
  BY DEF ExpireOnce
<1>3. [i \in 1 .. size |-> LeaseUpdate(order[i], None)] \in Seq(Step)
  <2>1. \A i \in 1 .. size : LeaseUpdate(order[i], None) \in Step
    <3>1. \A i \in 1 .. size : order[i] \in Peer
      BY DEF Expired
    <3>2. QED
      BY <3>1, StepTypes
  <2>2. QED
    BY <1>1, <2>1, IsASeq
<1>4. todo' \in [Thread -> Seq(Step)]
  BY <1>2, <1>3, ThreadNames, StartsType
<1>5. leases' \in [Peer -> Peer \cup {None}]
  BY DEF ExpireOnce, TypeOK
<1>6. QED
  BY <1>4, <1>5 DEF ExpireOnce, TypeOK

(***************************************************************************)
(* The passing of time keeps the remaining lifetimes within the TTL.       *)
(***************************************************************************)
LEMMA TickType ==
  ASSUME TypeOK, Tick
  PROVE  TypeOK'
BY DEF Tick, TypeOK, LeaseServiceAssumption

(***************************************************************************)
(* Every state of the lease service is well-typed; in particular no frame  *)
(* that refuses or grants a lease is ever addressed to "no controller".    *)
(***************************************************************************)
THEOREM TypeCorrect == Spec => []TypeOK
<1>1. Init => TypeOK
  BY InitType
<1>2. TypeOK /\ [Next]_lsVars => TypeOK'
  <2> SUFFICES ASSUME TypeOK, [Next]_lsVars
               PROVE  TypeOK'
    OBVIOUS
  <2>1. CASE \E c, t \in Peer : Claim(c, t) \/ Release(c, t) \/ Override(t, c) \/ Heartbeat(c, t)
    BY <2>1, RequestType
  <2>2. CASE \E th \in Thread : ThreadStep(th) \/ SendFails(th)
    BY <2>2, LockedType, ListenerType, SendType DEF ThreadStep
  <2>3. CASE \E n \in Peer : Bind(n) \/ Close(n)
    BY <2>3, LinkType
  <2>4. CASE ExpireOnce
    BY <2>4, ExpiryType
  <2>5. CASE Tick
    BY <2>5, TickType
  <2>6. CASE UNCHANGED lsVars
    BY <2>6 DEF lsVars, TypeOK
  <2>7. QED
    BY <2>1, <2>2, <2>3, <2>4, <2>5, <2>6 DEF Next
<1>3. QED
  BY <1>1, <1>2, PTL DEF Spec

-----------------------------------------------------------------------------
(***************************************************************************)
(* The steps of the service as steps of the abstract lease table.  A lease *)
(* is held anew only where it was free: this is where the conditions under *)
(* the lock of _on_claim and _on_heartbeat matter.                         *)
(***************************************************************************)
LEMMA HoldGives ==
  ASSUME TypeOK, NEW t \in Peer, NEW c \in Peer, leases[t] \in {None, c}, Hold(t, c)
  PROVE  [Lease!Next]_leases
<1>1. CASE leases[t] = None
  BY <1>1 DEF Hold, Lease!Next, Lease!Give
<1>2. CASE leases[t] = c
  BY <1>2 DEF Hold, TypeOK
<1>3. QED
  BY <1>1, <1>2

(***************************************************************************)
(* Dropping the lease on t is freeing {t} in the abstract table.           *)
(***************************************************************************)
LEMMA DropFrees ==
  ASSUME TypeOK, NEW t \in Peer, Drop(t)
  PROVE  [Lease!Next]_leases
<1>1. leases' = [p \in Peer |-> IF p \in {t} THEN None ELSE leases[p]]
  BY DEF Drop, TypeOK
<1>2. Lease!Free({t})
  BY <1>1 DEF Lease!Free
<1>3. QED
  BY <1>2 DEF Lease!Next

(***************************************************************************)
(* Every step of the service is a step of the abstract table or leaves it  *)
(* alone.                                                                  *)
(***************************************************************************)
LEMMA StepRefines ==
  ASSUME TypeOK, [Next]_lsVars
  PROVE  [Lease!Next]_leases
<1>1. CASE \E c, t \in Peer : Claim(c, t) \/ Release(c, t) \/ Override(t, c) \/ Heartbeat(c, t)
  BY <1>1, DropFrees DEF Claim, Release, Override, Heartbeat
<1>2. CASE \E th \in Thread : ThreadStep(th) \/ SendFails(th)
  <2> PICK th \in Thread : ThreadStep(th) \/ SendFails(th)
    BY <1>2
  <2> DEFINE t == Next1(th).target
             c == Next1(th).who
  <2>1. ~Idle(th)
    BY DEF ThreadStep, SendFails, Sending, Send, ClaimLocked, HeartbeatOffline,
           HeartbeatLocked, BoundLocked, Unbind, UnboundLocked, Runs
  <2>2. t \in Peer /\ (Next1(th).do \in ForWho => c \in Peer)
    BY <2>1, NextStep
  <2>3. CASE ClaimLocked(th) \/ HeartbeatLocked(th)
    <3>1. c \in Peer
      BY <2>2, <2>3 DEF ClaimLocked, HeartbeatLocked, Runs, ForWho
    <3>2. \/ leases[t] \in {None, c} /\ Hold(t, c)
          \/ UNCHANGED leases
      BY <2>3 DEF ClaimLocked, HeartbeatLocked
    <3>3. QED
      BY <2>2, <3>1, <3>2, HoldGives
  <2>4. CASE HeartbeatOffline(th) \/ UnboundLocked(th)
    <3>1. Drop(t) \/ UNCHANGED leases
      BY <2>4 DEF HeartbeatOffline, UnboundLocked
    <3>2. QED
      BY <2>2, <3>1, DropFrees
  <2>5. CASE BoundLocked(th) \/ Unbind(th) \/ Send(th) \/ SendFails(th)
    BY <2>5 DEF BoundLocked, Unbind, Send, SendFails
  <2>6. QED
    BY <2>3, <2>4, <2>5 DEF ThreadStep
<1>3. CASE \E n \in Peer : Bind(n) \/ Close(n)
  BY <1>3 DEF Bind, Close
<1>4. CASE ExpireOnce
  <2>1. Expired \in SUBSET Peer /\ Lease!Free(Expired)
    BY <1>4 DEF ExpireOnce, Expired, Lease!Free
  <2>2. QED
    BY <2>1 DEF Lease!Next
<1>5. CASE Tick \/ UNCHANGED lsVars
  BY <1>5 DEF Tick, lsVars
<1>6. QED
  BY <1>1, <1>2, <1>3, <1>4, <1>5 DEF Next

(***************************************************************************)
(* The lease service keeps the promise of LeaseTable: a target that is     *)
(* held passes to another controller only after it has been free.          *)
(***************************************************************************)
THEOREM Refinement == Spec => ImplementsLeaseTable
<1>1. Init => Lease!Init
  BY DEF Init, Lease!Init
<1>2. TypeOK /\ [Next]_lsVars => [Lease!Next]_leases
  BY StepRefines
<1>3. QED
  BY <1>1, <1>2, TypeCorrect, PTL DEF Spec, ImplementsLeaseTable, Lease!Spec

-----------------------------------------------------------------------------
USE AddressesAreKnown

(***************************************************************************)
(* OwnAddress: a thread that is busy has an address to work on, and a      *)
(* number once it sends.                                                   *)
(***************************************************************************)
Sends(th)  == Address!Runs(th, "send")
Doing(th) == step[th].do \in {"check", "number", "send"}

WorkOK ==
  \A th \in Address!Thread :
    /\ Address!Runs(th, "none") \/ step[th].ip \in Address!Ip
    /\ Address!Runs(th, "none") => step[th] = Address!Idle
    /\ Sends(th) => ids # 0

AddressTypes == Address!AddressTypeOK /\ WorkOK

LEMMA Goes ==
  ASSUME AddressTypes, NEW th \in Address!Thread, ~Address!Runs(th, "none"),
         NEW what \in Address!Step, Address!Goes(th, what), what = "send" => ids' # 0
  PROVE  /\ step' \in [Address!Thread -> [do : Address!Step, ip : Address!Ip \cup {None}]]
         /\ \A t \in Address!Thread : t # th => step'[t] = step[t]
         /\ step'[th].do = what
         /\ what = "none" => step'[th] = Address!Idle
         /\ what # "none" => step'[th].ip = step[th].ip
BY DEF AddressTypes, WorkOK, Address!AddressTypeOK, Address!Goes, Address!Runs, Address!Idle, Address!Step

LEMMA Found ==
  ASSUME AddressTypes
  PROVE  /\ Address!Resolved \in Address!Ip \cup {None}
         /\ Address!Resolved # None => Address!Resolved \in local \cup {Address!Loopback}
<1>1. \A s : Address!Single(s) => Address!TheOnly(s) \in s
  BY DEF Address!Single, Address!TheOnly
<1>2. local \in SUBSET Ip4 /\ local \ seen \in SUBSET Ip4 /\ last \in Address!Ip
  BY DEF AddressTypes, Address!AddressTypeOK
<1>. QED BY <1>1, <1>2 DEF Address!Resolved, Address!Ip, Address!Loopback

LEMMA SyncTypes ==
  ASSUME AddressTypes, NEW ip \in Address!Ip, Address!Sync(ip), ~Address!Busy("watcher")
  PROVE  /\ pending' = None \/ pending' \in Address!Change
         /\ step' \in [Address!Thread -> [do : Address!Step, ip : Address!Ip \cup {None}]]
         /\ warned' \in BOOLEAN /\ crossed' \in BOOLEAN
         /\ \A th \in Address!Thread :
              \/ step'[th] = step[th]
              \/ step'[th] = [do |-> "apply", ip |-> ip]
<1>. USE DEF Address!Sync
<1>1. pending' = None \/ pending' \in Address!Change
  BY DEF AddressTypes, Address!AddressTypeOK, Address!Change
<1>2. \/ step' = step
      \/ step' = [step EXCEPT !["watcher"] = [do |-> "apply", ip |-> ip]]
  OBVIOUS
<1>3. "watcher" \in Address!Thread /\ [do |-> "apply", ip |-> ip] \in [do : Address!Step, ip : Address!Ip \cup {None}]
  BY DEF Address!Thread, Address!Step
<1>4. step \in [Address!Thread -> [do : Address!Step, ip : Address!Ip \cup {None}]]
  BY DEF AddressTypes, Address!AddressTypeOK
<1>5. /\ step' \in [Address!Thread -> [do : Address!Step, ip : Address!Ip \cup {None}]]
      /\ \A th \in Address!Thread :
              \/ step'[th] = step[th]
              \/ step'[th] = [do |-> "apply", ip |-> ip]
  BY <1>2, <1>3, <1>4
<1>6. warned' \in BOOLEAN /\ crossed' \in BOOLEAN
  BY DEF AddressTypes, Address!AddressTypeOK
<1>. QED BY <1>1, <1>5, <1>6

LEMMA AddressTypesKept ==
  ASSUME AddressTypes, Address!AddressNext
  PROVE  AddressTypes'
<1>. USE DEF AddressTypes, Address!AddressTypeOK, Address!here, Address!there, Address!wire
<1>1. ASSUME NEW s \in Locals, Address!Move(s)
      PROVE  AddressTypes'
  <2>1. local' \subseteq Ip4 /\ moves' \in Nat
    BY <1>1 DEF Address!Move
  <2>2. (up' = up \/ up' = <<>>) /\ (down' = down \/ down' = <<>>)
    BY <1>1 DEF Address!Move
  <2>4. up' \in Seq(Address!Request) /\ down' \in Seq(Address!List)
    <3>1. /\ <<>> \in Seq(Address!Request) /\ up \in Seq(Address!Request)
          /\ <<>> \in Seq(Address!List) /\ down \in Seq(Address!List)
      OBVIOUS
    <3>. HIDE DEF Address!AddressTypeOK
    <3>. QED BY <2>2, <3>1, Zenon
  <2>5. linked' \in BOOLEAN
    BY <1>1 DEF Address!Move
  <2>3. WorkOK'
    BY <1>1 DEF Address!Move, WorkOK, Sends, Address!Runs
  <2>. QED BY <1>1, <2>1, <2>3, <2>4, <2>5 DEF Address!Move
<1>2. CASE Address!Detect
  <2>1. /\ local' = local /\ seen' = local /\ last' \in Address!Ip /\ told' \in BOOLEAN
        /\ \/ \E ip \in Address!Ip : Address!Sync(ip)
           \/ UNCHANGED <<pending, step, crossed>> /\ warned' \in BOOLEAN
    BY <1>2 DEF Address!Detect, Address!Ambiguous, Address!Ip
  <2>2. ~Address!Busy("watcher")
    BY <1>2 DEF Address!Detect
  <2>3. /\ pending' = None \/ pending' \in Address!Change
        /\ step' \in [Address!Thread -> [do : Address!Step, ip : Address!Ip \cup {None}]]
        /\ warned' \in BOOLEAN /\ crossed' \in BOOLEAN
        /\ \A th \in Address!Thread :
             \/ step'[th] = step[th]
             \/ \E ip \in Address!Ip : step'[th] = [do |-> "apply", ip |-> ip]
    BY <2>1, <2>2, SyncTypes
  <2>. HIDE DEF Address!AddressTypeOK
  <2>4. WorkOK'
    BY <1>2, <2>3 DEF Address!Detect, WorkOK, Sends, Address!Runs
  <2>. QED BY <1>2, <2>1, <2>3, <2>4 DEF Address!Detect, Address!AddressTypeOK
<1>3. ASSUME NEW th \in Address!Thread,
             Address!Apply(th) \/ Address!Check(th) \/ Address!Number(th) \/ Address!Send(th)
      PROVE  AddressTypes'
  <2>1. ~Address!Runs(th, "none") /\ step[th].ip \in Address!Ip
    BY <1>3 DEF WorkOK, Address!Apply, Address!Check, Address!Number, Address!Send, Address!Runs
  <2>2. PICK what \in Address!Step : Address!Goes(th, what) /\ (what = "send" => ids' # 0)
    BY <1>3 DEF Address!Apply, Address!Check, Address!Number, Address!Send, Address!Step
  <2>3. /\ step' \in [Address!Thread -> [do : Address!Step, ip : Address!Ip \cup {None}]]
        /\ \A t \in Address!Thread : t # th => step'[t] = step[t]
        /\ step'[th].do = what
        /\ what = "none" => step'[th] = Address!Idle
        /\ what # "none" => step'[th].ip = step[th].ip
    BY <2>1, <2>2, Goes
  <2>4. ids' = ids \/ ids' = ids + 1
    BY <1>3 DEF Address!Apply, Address!Check, Address!Number, Address!Send
  <2>5. WorkOK'
    BY <2>1, <2>2, <2>3, <2>4 DEF WorkOK, Sends, Address!Runs
  <2>6. /\ own' \in Address!Ip
        /\ warned' \in BOOLEAN /\ crossed' \in BOOLEAN /\ refused' \in BOOLEAN
    BY <1>3, <2>1 DEF Address!Apply, Address!Check, Address!Number, Address!Send
  <2>8. tracked' \subseteq Address!Ids
    <3>1. Sends(th) => ids \in Address!Ids
      BY DEF WorkOK, Address!Ids
    <3>. QED BY <1>3, <3>1 DEF Address!Apply, Address!Check, Address!Number, Address!Send, Sends
  <2>9. pending' = None \/ pending' \in Address!Change
    <3>1. \A id \in Address!Ids : pending # None => [pending EXCEPT !.id = id] \in Address!Change
      BY DEF Address!Change
    <3>2. ids + 1 \in Address!Ids
      BY DEF Address!Ids
    <3>. QED BY <1>3, <3>1, <3>2 DEF Address!Apply, Address!Check, Address!Number, Address!Send, Address!Abandon
  <2>7. up' \in Seq(Address!Request)
    <3>1. Sends(th) => [ip |-> own, base |-> rev, id |-> ids] \in Address!Request
      BY DEF Address!Request, Address!Ids, WorkOK
    <3>2. up' = up \/ (Sends(th) /\ up' = Append(up, [ip |-> own, base |-> rev, id |-> ids]))
      BY <1>3 DEF Address!Apply, Address!Check, Address!Number, Address!Send, Sends
    <3>3. up \in Seq(Address!Request) /\ \A q \in Address!Request : Append(up, q) \in Seq(Address!Request)
      OBVIOUS
    <3>. HIDE DEF Address!AddressTypeOK
    <3>. QED BY <3>1, <3>2, <3>3, Zenon
  <2>. QED BY <1>3, <2>3, <2>4, <2>5, <2>6, <2>7, <2>8, <2>9 DEF Address!Apply, Address!Check, Address!Number, Address!Send
<1>4. CASE Address!Serve
  <2>1. /\ Head(up) \in Address!Request /\ Tail(up) \in Seq(Address!Request)
    BY <1>4 DEF Address!Serve
  <2>2. \A ip \in Address!Ip, r \in Nat, id \in Address!Ids, reject \in {"none", "stale_revision", "apply_failed"} :
           Address!Told(ip, r, id, reject) => down' \in Seq(Address!List)
    BY DEF Address!Told, Address!List
  <2>4. refused' \in BOOLEAN
    BY <1>4 DEF Address!Serve
  <2>3. down' \in Seq(Address!List) /\ known' \in Address!Ip /\ crev' \in Nat
    <3>1. PICK q \in Address!Request : q = Head(up)
      BY <2>1
    <3>2. q.ip \in Address!Ip /\ q.id \in Address!Ids
      BY DEF Address!Request
    <3>. QED BY <1>4, <2>2, <3>1, <3>2 DEF Address!Serve
  <2>. QED BY <1>4, <2>1, <2>3, <2>4 DEF Address!Serve, WorkOK, Sends, Address!Runs
<1>5. CASE Address!Edit
  <2>1. down' \in Seq(Address!List)
    <3>1. [ip |-> known, revision |-> crev + 1, id |-> Address!Others, reject |-> "none"] \in Address!List
      BY DEF Address!List
    <3>2. \/ down' = down
          \/ down' = Append(down, [ip |-> known, revision |-> crev + 1, id |-> Address!Others, reject |-> "none"])
      BY <1>5 DEF Address!Edit, Address!Told
    <3>. QED BY <3>1, <3>2
  <2>. QED BY <1>5, <2>1 DEF Address!Edit, WorkOK, Sends, Address!Runs
<1>6. CASE Address!Receive
  <2>1. Head(down) \in Address!List /\ Tail(down) \in Seq(Address!List)
    BY <1>6 DEF Address!Receive
  <2>2. ASSUME NEW l \in Address!List, Address!Listen(l)
        PROVE  /\ pending' = None \/ pending' \in Address!Change
               /\ step' = step \/ (pending # None /\ step' = [step EXCEPT !["receiver"] = [do |-> "apply", ip |-> pending.ip]])
               /\ warned' \in BOOLEAN /\ crossed' \in BOOLEAN
    <3>1. CASE Address!Stale(l.id, l.reject) /\ pending.retries < MaxRetries
      <4>1. Address!Retry /\ pending # None
        BY <2>2, <3>1 DEF Address!Listen, Address!Stale, Address!Concerns
      <4>2. pending' \in Address!Change
        <5>1. pending \in Address!Change /\ pending.retries + 1 \in 0 .. MaxRetries /\ pending.ip \in Address!Ip
          BY <3>1, <4>1 DEF Address!Change
        <5>2. pending' = [ip |-> pending.ip, retries |-> pending.retries + 1, id |-> None]
          BY <4>1, <5>1 DEF Address!Retry, Address!Change
        <5>. QED BY <5>1, <5>2 DEF Address!Change
      <4>. QED BY <4>1, <4>2 DEF Address!Retry
    <3>2. CASE Address!Stale(l.id, l.reject) /\ ~(pending.retries < MaxRetries)
      BY <2>2, <3>2 DEF Address!Listen, Address!GiveUp, Address!Abandon
    <3>3. CASE ~Address!Stale(l.id, l.reject)
      BY <2>2, <3>3 DEF Address!Listen, Address!Abandon
    <3>. QED BY <3>1, <3>2, <3>3
  <2>3. /\ pending' = None \/ pending' \in Address!Change
        /\ step' = step \/ (pending # None /\ step' = [step EXCEPT !["receiver"] = [do |-> "apply", ip |-> pending.ip]])
        /\ warned' \in BOOLEAN /\ crossed' \in BOOLEAN /\ refused' \in BOOLEAN
        /\ own' \in Address!Ip /\ rev' \in Nat /\ tracked' \subseteq Address!Ids
    BY <1>6, <2>1, <2>2 DEF Address!Receive, Address!List
  <2>4. WorkOK' /\ step' \in [Address!Thread -> [do : Address!Step, ip : Address!Ip \cup {None}]]
    <3>1. pending # None => pending.ip \in Address!Ip
      BY DEF Address!Change
    <3>2. "receiver" \in Address!Thread /\ "apply" \in Address!Step
      BY DEF Address!Step, Address!Thread
    <3>3. /\ step' \in [Address!Thread -> [do : Address!Step, ip : Address!Ip \cup {None}]]
          /\ \A th \in Address!Thread :
               \/ step'[th] = step[th]
               \/ step'[th] = [do |-> "apply", ip |-> pending.ip] /\ pending # None
      BY <2>3, <3>1, <3>2
    <3>4. ids' = ids
      BY <1>6 DEF Address!Receive
    <3>. HIDE DEF Address!AddressTypeOK
    <3>. QED BY <3>1, <3>3, <3>4 DEF WorkOK, Sends, Address!Runs
  <2>. QED BY <1>6, <2>1, <2>3, <2>4 DEF Address!Receive
<1>7. ASSUME NEW id \in tracked, Address!Expire(id)
      PROVE  AddressTypes'
  BY <1>7 DEF Address!Expire, Address!Abandon, WorkOK, Sends, Address!Runs
<1>8. CASE Address!Break
  <2>1. up' \in Seq(Address!Request) /\ down' \in Seq(Address!List)
    BY <1>8 DEF Address!Break
  <2>3. linked' \in BOOLEAN
    BY <1>8 DEF Address!Break
  <2>2. WorkOK'
    BY <1>8 DEF Address!Break, WorkOK, Sends, Address!Runs
  <2>. QED BY <1>8, <2>1, <2>2, <2>3 DEF Address!Break
<1>9. CASE Address!Rebind
  <2>1. down' \in Seq(Address!List)
    BY <1>9 DEF Address!Rebind, Address!Told, Address!List
  <2>. QED BY <1>9, <2>1 DEF Address!Rebind, WorkOK, Sends, Address!Runs
<1>. QED BY <1>1, <1>2, <1>3, <1>4, <1>5, <1>6, <1>7, <1>8, <1>9 DEF Address!AddressNext

-----------------------------------------------------------------------------
(***************************************************************************)
(* Taking the first element of a sequence, and adding one.                 *)
(***************************************************************************)
LEMMA FirstTaken ==
  ASSUME NEW S, NEW q \in Seq(S), q # <<>>
  PROVE  /\ Len(q) \in Nat \ {0} /\ Len(Tail(q)) = Len(q) - 1
         /\ Head(q) = q[1] /\ Head(q) \in S
         /\ \A i \in 1 .. Len(Tail(q)) : i + 1 \in 2 .. Len(q) /\ Tail(q)[i] = q[i + 1]
         /\ Tail(q) = <<>> => Len(q) = 1
         /\ Tail(q) # <<>> => Len(Tail(q)) \in Nat \ {0}
<1>1. Len(q) \in Nat \ {0} /\ Len(Tail(q)) = Len(q) - 1 /\ Head(q) = q[1] /\ Tail(q) \in Seq(S)
  BY EmptySeq
<1>2. \A i \in 1 .. Len(Tail(q)) : i + 1 \in 2 .. Len(q) /\ Tail(q)[i] = q[i + 1]
  BY <1>1
<1>3. Tail(q) = <<>> <=> Len(Tail(q)) = 0
  BY <1>1, EmptySeq
<1>4. q[1] \in S
  BY <1>1
<1>. QED BY <1>1, <1>2, <1>3, <1>4

LEMMA LastAdded ==
  ASSUME NEW S, NEW q \in Seq(S), NEW e
  PROVE  /\ Len(q) \in Nat /\ Len(Append(q, e)) = Len(q) + 1
         /\ \A i \in 1 .. Len(q) : Append(q, e)[i] = q[i]
         /\ Append(q, e)[Len(q) + 1] = e
         /\ \A i \in 1 .. Len(Append(q, e)) : i \in 1 .. Len(q) \/ i = Len(q) + 1
         /\ Append(q, e) # <<>>
<1>1. Len(q) \in Nat /\ Len(Append(q, e)) = Len(q) + 1
  OBVIOUS
<1>2. \A i \in 1 .. Len(q) : Append(q, e)[i] = q[i]
  OBVIOUS
<1>3. Append(q, e)[Len(q) + 1] = e /\ Append(q, e) # <<>>
  OBVIOUS
<1>. QED BY <1>1, <1>2, <1>3

LEMMA ListFields ==
  ASSUME AddressTypes
  PROVE  /\ \A i \in 1 .. Len(down) : down[i].revision \in Nat /\ down[i].ip \in Address!Ip
         /\ \A i \in 1 .. Len(up) : up[i].id \in Nat \ {0} /\ up[i].ip \in Address!Ip
<1>1. down \in Seq(Address!List) /\ up \in Seq(Address!Request)
  BY DEF AddressTypes, Address!AddressTypeOK
<1>2. /\ \A i \in 1 .. Len(down) : down[i] \in Address!List
      /\ \A i \in 1 .. Len(up) : up[i] \in Address!Request
  BY <1>1
<1>3. \A l \in Address!List : l.revision \in Nat /\ l.ip \in Address!Ip
  BY DEF Address!List
<1>4. \A q \in Address!Request : q.id \in Nat \ {0} /\ q.ip \in Address!Ip
  BY DEF Address!Request, Address!Ids
<1>. QED BY <1>2, <1>3, <1>4

-----------------------------------------------------------------------------
(***************************************************************************)
(* The last list on its way is the coordinator's, and when nothing is on   *)
(* its way this node has it, unless a thread has just entered an address   *)
(* of its own and is going to send that.                                   *)
(***************************************************************************)
Pushes(th) == Doing(th) /\ own = step[th].ip

Unlinked  == ~linked => up = <<>> /\ down = <<>>
Revisions == rev <= crev /\ \A i \in 1 .. Len(down) : down[i].revision <= crev
Newest    == down # <<>> => down[Len(down)].ip = known /\ down[Len(down)].revision = crev
SameList  ==
  linked /\ up = <<>> /\ down = <<>> =>
    rev = crev /\ (own = known \/ \E th \in Address!Thread : Pushes(th))

ListsOK == Unlinked /\ Revisions /\ (refused \/ (Newest /\ SameList))

\* a list has been sent
LEMMA ListSent ==
  ASSUME AddressTypes, AddressTypes', Revisions, NEW id, NEW reject,
         Address!Told(known', crev', id, reject), crev' \in {crev, crev + 1}, rev' = rev
  PROVE  Revisions' /\ Newest' /\ down' # <<>>
<1>. DEFINE l == [ip |-> known', revision |-> crev', id |-> id, reject |-> reject]
<1>1. down \in Seq(Address!List) /\ crev \in Nat /\ rev \in Nat
  BY DEF AddressTypes, Address!AddressTypeOK
<1>2. down' = Append(down, l) /\ l.ip = known' /\ l.revision = crev'
  BY DEF Address!Told
<1>3. \A i \in 1 .. Len(down) : down[i].revision \in Nat
  BY ListFields
<1>. HIDE DEF l
<1>4. /\ Len(down) \in Nat /\ Len(down') = Len(down) + 1
      /\ \A i \in 1 .. Len(down) : down'[i] = down[i]
      /\ down'[Len(down) + 1] = l
      /\ \A i \in 1 .. Len(down') : i \in 1 .. Len(down) \/ i = Len(down) + 1
      /\ down' # <<>>
  BY <1>1, <1>2, LastAdded
<1>5. Newest'
  BY <1>2, <1>4 DEF Newest
<1>6. Revisions'
  BY <1>1, <1>2, <1>3, <1>4 DEF Revisions
<1>. QED BY <1>4, <1>5, <1>6

LEMMA ListsKept ==
  ASSUME AddressTypes, AddressTypes', ListsOK, Address!AddressNext
  PROVE  ListsOK'
<1>. USE DEF ListsOK, Address!here, Address!there, Address!wire
<1>1. ASSUME NEW s \in Locals, Address!Move(s)
      PROVE  ListsOK'
  <2>1. CASE s = {}
    BY <1>1, <2>1 DEF Address!Move, Unlinked, Revisions, Newest, SameList, Pushes, Doing
  <2>2. CASE s # {}
    BY <1>1, <2>2 DEF Address!Move, Unlinked, Revisions, Newest, SameList, Pushes, Doing
  <2>. QED BY <2>1, <2>2
<1>2. ASSUME NEW th \in Address!Thread, ~Doing(th), \A t \in Address!Thread : t # th => step'[t] = step[t],
             UNCHANGED <<linked, up, down, rev, crev, known, own, refused>>
      PROVE  ListsOK'
  <2>1. \A t \in Address!Thread : Pushes(t) => Pushes(t)'
    BY <1>2 DEF Pushes, Doing
  <2>. QED BY <1>2, <2>1 DEF Unlinked, Revisions, Newest, SameList
<1>3. CASE Address!Detect
  <2>1. "watcher" \in Address!Thread /\ ~Doing("watcher")
    BY <1>3 DEF Address!Detect, Address!Thread, Doing, Address!Busy, Address!Idle
  <2>2. step \in [Address!Thread -> [do : Address!Step, ip : Address!Ip \cup {None}]]
    BY DEF AddressTypes, Address!AddressTypeOK
  <2>3. step' = step \/ \E s : step' = [step EXCEPT !["watcher"] = s]
    BY <1>3 DEF Address!Detect, Address!Ambiguous, Address!Sync
  <2>4. \A t \in Address!Thread : t # "watcher" => step'[t] = step[t]
    BY <2>2, <2>3
  <2>5. UNCHANGED <<linked, up, down, rev, crev, known, own, refused>>
    BY <1>3 DEF Address!Detect
  <2>. QED BY <1>2, <2>1, <2>4, <2>5
<1>4. ASSUME NEW th \in Address!Thread,
             Address!Apply(th) \/ Address!Check(th) \/ Address!Number(th) \/ Address!Send(th)
      PROVE  ListsOK'
  <2>1. ~Address!Runs(th, "none") /\ step[th].ip \in Address!Ip
    BY <1>4 DEF AddressTypes, WorkOK, Address!Apply, Address!Check, Address!Number, Address!Send, Address!Runs
  <2>2. \A what \in Address!Step \ {"none"} : Address!Goes(th, what) =>
           /\ \A t \in Address!Thread : t # th => step'[t] = step[t]
           /\ step'[th].do = what /\ step'[th].ip = step[th].ip
    BY DEF AddressTypes, Address!AddressTypeOK, Address!Goes
  <2>3. Address!Goes(th, "none") => \A t \in Address!Thread : t # th => step'[t] = step[t]
    BY DEF AddressTypes, Address!AddressTypeOK, Address!Goes
  <2>4. CASE Address!Apply(th)
    <3>1. ~Doing(th) /\ UNCHANGED <<linked, up, down, rev, crev, known, refused>>
      BY <2>4 DEF Address!Apply, Address!Runs, Doing
    <3>2. CASE own' = step[th].ip /\ Address!Goes(th, "check")
      <4>1. Pushes(th)'
        BY <2>2, <3>2 DEF Pushes, Doing, Address!Step
      <4>. QED BY <3>1, <4>1 DEF Unlinked, Revisions, Newest, SameList
    <3>3. CASE UNCHANGED own /\ Address!Goes(th, "none")
      BY <1>2, <2>3, <3>1, <3>3
    <3>. QED BY <2>4, <3>2, <3>3 DEF Address!Apply
  <2>5. CASE Address!Check(th)
    <3>1. UNCHANGED <<linked, up, down, rev, crev, known, own, refused>>
      BY <2>5 DEF Address!Check
    <3>2. \A t \in Address!Thread : Pushes(t) => Pushes(t)'
      BY <2>2, <2>3, <2>5 DEF Address!Check, Pushes, Doing, Address!Step
    <3>. QED BY <3>1, <3>2 DEF Unlinked, Revisions, Newest, SameList
  <2>6. CASE Address!Number(th)
    <3>1. UNCHANGED <<linked, up, down, rev, crev, known, own, refused>>
      BY <2>6 DEF Address!Number
    <3>2. \A t \in Address!Thread : Pushes(t) => Pushes(t)'
      BY <2>2, <2>6 DEF Address!Number, Pushes, Doing, Address!Step
    <3>. QED BY <3>1, <3>2 DEF Unlinked, Revisions, Newest, SameList
  <2>7. CASE Address!Send(th)
    <3>1. UNCHANGED <<linked, down, rev, crev, known, own, refused>>
      BY <2>7 DEF Address!Send
    <3>2. CASE linked
      <4>1. up' # <<>>
        BY <2>7, <3>2, LastAdded DEF Address!Send, AddressTypes, Address!AddressTypeOK
      <4>. QED BY <3>1, <3>2, <4>1 DEF Unlinked, Revisions, Newest, SameList
    <3>3. CASE ~linked
      BY <2>7, <3>1, <3>3 DEF Address!Send, Unlinked, Revisions, Newest, SameList
    <3>. QED BY <3>2, <3>3
  <2>. QED BY <1>4, <2>4, <2>5, <2>6, <2>7
<1>5. CASE Address!Serve
  <2>1. linked' /\ rev' = rev /\ linked
    BY <1>5 DEF Address!Serve, Unlinked
  <2>2. crev \in Nat
    BY DEF AddressTypes, Address!AddressTypeOK
  <2>3. crev' \in {crev, crev + 1} /\ \E id, reject : Address!Told(known', crev', id, reject)
    BY <1>5 DEF Address!Serve
  <2>. QED BY <2>1, <2>2, <2>3, ListSent DEF Unlinked, SameList
<1>6. CASE Address!Edit
  <2>1. crev' \in {crev, crev + 1} /\ UNCHANGED <<linked, up, rev, known, own, refused, step>>
    BY <1>6 DEF Address!Edit
  <2>2. CASE linked
    <3>1. Address!Told(known', crev', Address!Others, "none")
      BY <1>6, <2>2 DEF Address!Edit, Address!Told
    <3>. QED BY <2>1, <2>2, <3>1, ListSent DEF Unlinked, SameList
  <2>3. CASE ~linked
    <3>1. down' = down /\ crev \in Nat /\ rev \in Nat /\ crev' = crev + 1
      BY <1>6, <2>3 DEF Address!Edit, AddressTypes, Address!AddressTypeOK
    <3>2. down = <<>>
      BY <2>3 DEF Unlinked
    <3>. QED BY <2>1, <2>3, <3>1, <3>2 DEF Unlinked, SameList, Revisions, Newest
  <2>. QED BY <2>2, <2>3
<1>7. CASE Address!Receive
  <2>1. /\ down # <<>> /\ down' = Tail(down) /\ UNCHANGED <<linked, up, known, crev>>
        /\ linked
    BY <1>7 DEF Address!Receive, Unlinked
  <2>2. down \in Seq(Address!List) /\ rev \in Nat /\ crev \in Nat /\ rev' \in Nat
    BY DEF AddressTypes, Address!AddressTypeOK
  <2>3. \A i \in 1 .. Len(down) : down[i].revision \in Nat
    BY ListFields
  <2>4. /\ Len(down) \in Nat \ {0} /\ Len(down') = Len(down) - 1
        /\ Head(down) = down[1]
        /\ \A i \in 1 .. Len(down') : i + 1 \in 2 .. Len(down) /\ down'[i] = down[i + 1]
        /\ down' = <<>> => Len(down) = 1
        /\ down' # <<>> => Len(down') \in Nat \ {0}
    BY <2>1, <2>2, FirstTaken
  <2>5. Unlinked'
    BY <2>1 DEF Unlinked
  <2>6. \/ Head(down).revision < rev /\ rev' = rev /\ own' = own /\ refused' = refused
        \/ rev' = Head(down).revision /\ own' = Head(down).ip /\ refused' = refused
        \/ rev' = rev /\ refused'
    BY <1>7 DEF Address!Receive
  <2>7. Revisions'
    BY <2>1, <2>2, <2>3, <2>4, <2>6 DEF Revisions
  <2>8. ASSUME Newest, refused' = refused
        PROVE  Newest' /\ SameList'
    <3>1. Newest'
      BY <2>1, <2>4, <2>8 DEF Newest
    <3>2. ASSUME down' = <<>>
          PROVE  own' = known /\ rev' = crev
      <4>1. Head(down).ip = known /\ Head(down).revision = crev
        BY <2>1, <2>4, <2>8, <3>2 DEF Newest
      <4>2. ~(Head(down).revision < rev)
        BY <2>2, <4>1 DEF Revisions
      <4>3. rev' = Head(down).revision /\ own' = Head(down).ip
        BY <1>7, <4>2, <2>8 DEF Address!Receive
      <4>. QED BY <4>1, <4>3
    <3>. QED BY <2>1, <3>1, <3>2 DEF SameList
  <2>. QED BY <2>5, <2>6, <2>7, <2>8
<1>8. ASSUME NEW id \in tracked, Address!Expire(id)
      PROVE  ListsOK'
  BY <1>8 DEF Address!Expire, Unlinked, Revisions, Newest, SameList, Pushes, Doing
<1>9. CASE Address!Break
  BY <1>9 DEF Address!Break, Unlinked, Revisions, Newest, SameList
<1>10. CASE Address!Rebind
  <2>1. /\ Address!Told(known', crev', None, "none") /\ crev' \in {crev, crev + 1} /\ rev' = rev
        /\ linked' /\ refused' = refused
    BY <1>10 DEF Address!Rebind, Address!Told
  <2>. QED BY <2>1, ListSent DEF Unlinked, SameList
<1>. QED BY <1>1, <1>3, <1>4, <1>5, <1>6, <1>7, <1>8, <1>9, <1>10 DEF Address!AddressNext

-----------------------------------------------------------------------------
(***************************************************************************)
(* What the watcher has noted is an address that it saw last, or somebody  *)
(* else's word for it, or the user knows; what is pending is about that    *)
(* address, and about the last request.                                    *)
(***************************************************************************)
Noted    == last \in seen \cup {Address!Loopback} \/ told \/ warned
Meant    == pending # None => told \/ pending.ip = last
Numbered == pending # None /\ pending.id # None => pending.id = ids

FollowedOK == Noted /\ Meant /\ Numbered

LEMMA NoneIsNoChange == None \notin Address!Change /\ None \notin Nat /\ None \notin Address!Ip
OBVIOUS

LEMMA SyncDoes ==
  ASSUME NEW ip \in Address!Ip, Address!Sync(ip)
  PROVE  /\ pending' # None /\ pending'.ip = ip
         /\ \/ pending # None /\ UNCHANGED <<pending, step, crossed, warned>>
            \/ /\ pending'.id = None
               /\ step' = [step EXCEPT !["watcher"] = [do |-> "apply", ip |-> ip]]
               /\ crossed' = (crossed \/ Address!Busy("receiver"))
<1>1. [ip |-> ip, retries |-> 0, id |-> None] \in Address!Change
  BY DEF Address!Change
<1>2. [ip |-> ip, retries |-> 0, id |-> None] # None
  BY <1>1, NoneIsNoChange
<1>3. CASE pending # None /\ pending.ip = ip
  BY <1>3 DEF Address!Sync
<1>4. CASE ~(pending # None /\ pending.ip = ip)
  BY <1>2, <1>4 DEF Address!Sync
<1>. QED BY <1>3, <1>4

LEMMA DetectDoes ==
  ASSUME AddressTypes, Address!Detect
  PROVE  /\ seen' = local /\ ~Address!Busy("watcher")
         /\ UNCHANGED <<local, own, rev, tracked, known, crev, up, down, linked, refused, ids>>
         /\ \/ /\ \E ip \in Address!Ip :
                    /\ Address!Sync(ip)
                    /\ told' \/ (ip = last' /\ last' \in local \cup {Address!Loopback})
            \/ /\ UNCHANGED <<pending, step, crossed, last, told>>
               /\ warned => warned'
               /\ warned' \/ last \in local \cup {Address!Loopback}
<1>. USE DEF Address!Detect, Address!here, Address!there, Address!wire
<1>1. local \subseteq Ip4 /\ last \in Address!Ip
  BY DEF AddressTypes, Address!AddressTypeOK
<1>2. CASE Address!Resolved = None /\ Address!Ambiguous /\ UNCHANGED last
  <2>1. CASE told' = TRUE /\ \E a \in local : Address!Sync(a)
    BY <1>1, <1>2, <2>1 DEF Address!Ip
  <2>2. CASE warned' = TRUE /\ UNCHANGED <<pending, step, crossed, told>>
    BY <1>2, <2>2
  <2>. QED BY <1>2, <2>1, <2>2 DEF Address!Ambiguous
<1>3. CASE Address!Resolved \in Address!Ip /\ Address!Sync(Address!Resolved) /\ last' = Address!Resolved
  <2>1. Address!Resolved \in local \cup {Address!Loopback}
    BY <1>3, Found, NoneIsNoChange
  <2>. QED BY <1>3, <2>1
<1>4. CASE Address!Resolved = last /\ UNCHANGED <<last, told, pending, step, crossed, warned>>
  <2>1. last \in local \cup {Address!Loopback}
    BY <1>1, <1>4, Found, NoneIsNoChange
  <2>. QED BY <1>4, <2>1
<1>. QED BY <1>2, <1>3, <1>4

LEMMA OthersDo ==
  ASSUME AddressTypes, Address!AddressNext, ~Address!Detect
  PROVE  /\ UNCHANGED <<seen, last, told>>
         /\ warned => warned'
         /\ \/ pending' = None
            \/ /\ pending # None /\ pending'.ip = pending.ip
               /\ \/ pending'.id = None
                  \/ pending'.id = pending.id /\ ids' = ids
                  \/ pending'.id = ids'
<1>. USE DEF Address!here, Address!there, Address!wire
<1>1. ASSUME NEW s \in Locals, Address!Move(s)
      PROVE  UNCHANGED <<seen, last, told, warned, pending, ids>>
  BY <1>1 DEF Address!Move
<1>2. pending = None \/ pending \in Address!Change
  BY DEF AddressTypes, Address!AddressTypeOK
<1>3. ASSUME NEW th \in Address!Thread,
             Address!Apply(th) \/ Address!Check(th) \/ Address!Send(th)
      PROVE  UNCHANGED <<seen, last, told, ids>> /\ (warned => warned') /\ (pending' = None \/ pending' = pending)
  BY <1>3 DEF Address!Apply, Address!Check, Address!Send, Address!Abandon
<1>4. ASSUME NEW th \in Address!Thread, Address!Number(th)
      PROVE  /\ UNCHANGED <<seen, last, told, warned>>
             /\ pending' = None \/ (pending # None /\ pending'.ip = pending.ip /\ pending'.id = ids')
  BY <1>2, <1>4 DEF Address!Number, Address!Change
<1>5. CASE Address!Serve \/ Address!Edit \/ Address!Break \/ Address!Rebind
  BY <1>5 DEF Address!Serve, Address!Edit, Address!Break, Address!Rebind
<1>6. CASE Address!Receive
  <2>1. UNCHANGED <<seen, last, told, ids>>
    BY <1>6 DEF Address!Receive
  <2>2. ASSUME NEW l, Address!Listen(l)
        PROVE  /\ warned => warned'
               /\ \/ pending' = None \/ pending' = pending
                  \/ pending # None /\ pending'.ip = pending.ip /\ pending'.id = None
    <3>1. CASE Address!Stale(l.id, l.reject) /\ pending.retries < MaxRetries
      <4>1. Address!Retry /\ pending \in Address!Change
        BY <1>2, <2>2, <3>1 DEF Address!Listen, Address!Stale, Address!Concerns
      <4>. QED BY <4>1, NoneIsNoChange DEF Address!Retry, Address!Change
    <3>2. CASE Address!Stale(l.id, l.reject) /\ ~(pending.retries < MaxRetries)
      BY <2>2, <3>2 DEF Address!Listen, Address!GiveUp, Address!Abandon
    <3>3. CASE ~Address!Stale(l.id, l.reject)
      BY <2>2, <3>3 DEF Address!Listen, Address!Abandon
    <3>. QED BY <3>1, <3>2, <3>3
  <2>3. Address!Listen(Head(down)) \/ UNCHANGED <<warned, pending>>
    BY <1>6 DEF Address!Receive
  <2>. QED BY <2>1, <2>2, <2>3
<1>7. ASSUME NEW id \in tracked, Address!Expire(id)
      PROVE  UNCHANGED <<seen, last, told, ids>> /\ (warned => warned') /\ (pending' = None \/ pending' = pending)
  BY <1>7 DEF Address!Expire, Address!Abandon
<1>. QED BY <1>1, <1>3, <1>4, <1>5, <1>6, <1>7 DEF Address!AddressNext

LEMMA FollowedKept ==
  ASSUME AddressTypes, FollowedOK, Address!AddressNext
  PROVE  FollowedOK'
<1>. USE DEF FollowedOK
<1>1. CASE Address!Detect
  <2>1. CASE \E ip \in Address!Ip :
                    /\ Address!Sync(ip)
                    /\ told' \/ (ip = last' /\ last' \in local \cup {Address!Loopback})
    <3>1. PICK ip \in Address!Ip :
                    /\ Address!Sync(ip)
                    /\ told' \/ (ip = last' /\ last' \in local \cup {Address!Loopback})
      BY <2>1
    <3>2. pending' # None /\ pending'.ip = ip /\ (pending' = pending \/ pending'.id = None)
      BY <3>1, SyncDoes
    <3>3. seen' = local /\ ids' = ids
      BY <1>1, DetectDoes
    <3>. QED BY <3>1, <3>2, <3>3 DEF Noted, Meant, Numbered
  <2>2. CASE /\ UNCHANGED <<pending, step, crossed, last, told>>
             /\ warned => warned'
             /\ warned' \/ last \in local \cup {Address!Loopback}
    <3>1. seen' = local /\ ids' = ids
      BY <1>1, DetectDoes
    <3>. QED BY <2>2, <3>1 DEF Noted, Meant, Numbered
  <2>. QED BY <1>1, <2>1, <2>2, DetectDoes
<1>2. CASE ~Address!Detect
  BY <1>2, OthersDo DEF Noted, Meant, Numbered
<1>. QED BY <1>1, <1>2

-----------------------------------------------------------------------------
(***************************************************************************)
(* As long as the two threads have kept out of each other's way and every  *)
(* list could be saved: one of them works at a time, on what is pending,   *)
(* unless the user knows already; and what is pending waits for a thread   *)
(* or for the answer to a request that has not timed out.                  *)
(***************************************************************************)
OneBusy    == ~Address!Busy("watcher") \/ ~Address!Busy("receiver")
HasNumber  == \A th \in Address!Thread : Sends(th) /\ pending # None => pending.id # None
SameChange == \A th \in Address!Thread : Address!Busy(th) /\ pending # None => step[th].ip = pending.ip
Entered    == \A th \in Address!Thread : Doing(th) => own = step[th].ip \/ (pending = None /\ warned)
Awaited    == pending # None => (\E th \in Address!Thread : Address!Busy(th)) \/ pending.id \in tracked

(***************************************************************************)
(* Requests are answered in the order of their numbers; a request that is  *)
(* about to be sent has the last one.  Once the last one is answered, the  *)
(* coordinator keeps the address it has told.                              *)
(***************************************************************************)
SentUpTo == IF \E th \in Address!Thread : Sends(th) THEN ids - 1 ELSE ids

InOrder ==
  /\ \A i \in 1 .. Len(up) : up[i].id <= SentUpTo
  /\ \A i, j \in 1 .. Len(up) : i < j => up[i].id < up[j].id
  /\ \A i \in 1 .. Len(down) : down[i].id \in Address!Ids =>
       down[i].id <= SentUpTo /\ \A j \in 1 .. Len(up) : down[i].id < up[j].id

Granted ==
  \A i, j \in 1 .. Len(down) :
    i <= j /\ down[i].id = ids /\ ids # 0 /\ down[i].reject # "stale_revision" => down[j].ip = known

Asked ==
  pending # None /\ pending.id # None =>
    /\ \A i \in 1 .. Len(up) : up[i].id = pending.id => up[i].ip = pending.ip
    /\ \A i \in 1 .. Len(down) :
         down[i].id = pending.id /\ down[i].reject # "stale_revision" => down[i].ip = pending.ip

(***************************************************************************)
(* When nothing is pending, everybody has the address that was noted.      *)
(***************************************************************************)
Agreed ==
  pending = None =>
    \/ warned \/ told
    \/ /\ own = last /\ known = last /\ up = <<>> /\ \A i \in 1 .. Len(down) : down[i].ip = last
       /\ \A th \in Address!Thread : ~Address!Busy(th)

WorkFollows  == OneBusy /\ HasNumber /\ SameChange /\ Entered /\ Awaited
WiresFollow  == InOrder /\ Granted /\ Asked /\ Agreed
UndisturbedOK == ~crossed /\ ~refused => WorkFollows /\ WiresFollow

AddressInv == AddressTypes /\ ListsOK /\ FollowedOK /\ UndisturbedOK

LEMMA ThreadsAre == \A th : th \in Address!Thread <=> th = "watcher" \/ th = "receiver"
BY DEF Address!Thread

LEMMA BusyIs ==
  ASSUME AddressTypes, NEW th \in Address!Thread
  PROVE  /\ Address!Busy(th) <=> ~Address!Runs(th, "none")
         /\ Doing(th) => Address!Busy(th)
         /\ Sends(th) => Doing(th) /\ ids # 0
         /\ Address!Busy(th) => step[th].ip \in Address!Ip
BY DEF AddressTypes, WorkOK, Address!Busy, Address!Idle, Address!Runs, Doing, Sends

LEMMA Latched ==
  ASSUME AddressTypes, Address!AddressNext
  PROVE  (crossed => crossed') /\ (refused => refused')
<1>. USE DEF Address!here, Address!there, Address!wire
<1>1. ASSUME NEW s \in Locals, Address!Move(s)
      PROVE  (crossed => crossed') /\ (refused => refused')
  BY <1>1 DEF Address!Move
<1>2. CASE Address!Detect
  <2>1. \A ip : Address!Sync(ip) => (crossed => crossed')
    BY Zenon DEF Address!Sync
  <2>2. refused' = refused /\ ((\E ip : Address!Sync(ip)) \/ crossed' = crossed)
    BY <1>2 DEF Address!Detect, Address!Ambiguous
  <2>. QED BY <2>1, <2>2
<1>3. ASSUME NEW th \in Address!Thread,
             Address!Apply(th) \/ Address!Check(th) \/ Address!Number(th) \/ Address!Send(th)
      PROVE  (crossed => crossed') /\ (refused => refused')
  BY <1>3 DEF Address!Apply, Address!Check, Address!Number, Address!Send
<1>4. CASE Address!Serve \/ Address!Edit \/ Address!Break \/ Address!Rebind
  BY <1>4 DEF Address!Serve, Address!Edit, Address!Break, Address!Rebind
<1>5. CASE Address!Receive
  <2>1. \A l : Address!Listen(l) => (crossed => crossed')
    BY Zenon DEF Address!Listen, Address!Retry, Address!GiveUp
  <2>2. /\ refused => refused'
        /\ Address!Listen(Head(down)) \/ crossed' = crossed
    BY <1>5 DEF Address!Receive
  <2>. QED BY <2>1, <2>2
<1>6. ASSUME NEW id \in tracked, Address!Expire(id)
      PROVE  (crossed => crossed') /\ (refused => refused')
  BY <1>6 DEF Address!Expire
<1>. QED BY <1>1, <1>2, <1>3, <1>4, <1>5, <1>6 DEF Address!AddressNext

(***************************************************************************)
(* What leaves the threads and the change alone, and at most empties the   *)
(* connection.                                                             *)
(***************************************************************************)
LEMMA NothingFollows ==
  ASSUME WorkFollows, WiresFollow,
         UNCHANGED <<pending, step, own, known, tracked, ids, last>>,
         warned => warned', told => told',
         up' = up \/ up' = <<>>, down' = down \/ down' = <<>>
  PROVE  WorkFollows' /\ WiresFollow'
<1>1. WorkFollows'
  BY DEF WorkFollows, OneBusy, HasNumber, SameChange, Entered, Awaited, Doing, Sends, Address!Busy, Address!Runs
<1>2. Len(up') = 0 \/ up' = up
  OBVIOUS
<1>3. Len(down') = 0 \/ down' = down
  OBVIOUS
<1>4. /\ \A i : i \in 1 .. Len(up') => i \in 1 .. Len(up) /\ up'[i] = up[i]
      /\ \A i : i \in 1 .. Len(down') => i \in 1 .. Len(down) /\ down'[i] = down[i]
  BY <1>2, <1>3
<1>5. InOrder'
  BY <1>4 DEF WiresFollow, InOrder, SentUpTo, Sends, Address!Runs
<1>6. Granted' /\ Asked'
  BY <1>4 DEF WiresFollow, Granted, Asked
<1>7. Agreed'
  BY <1>4 DEF WiresFollow, Agreed, Address!Busy
<1>. QED BY <1>1, <1>5, <1>6, <1>7 DEF WiresFollow

\* the same requests and lists, and no request that is about to be sent
LEMMA StillInOrder ==
  ASSUME AddressTypes, InOrder, UNCHANGED <<up, down, ids>>, \A th \in Address!Thread : ~Sends(th)'
  PROVE  InOrder'
<1>1. ids \in Nat /\ SentUpTo' = ids
  BY DEF AddressTypes, Address!AddressTypeOK, SentUpTo
<1>2. SentUpTo = ids \/ SentUpTo = ids - 1
  BY DEF SentUpTo
<1>3. /\ \A i \in 1 .. Len(up) : up[i].id <= ids
      /\ \A i \in 1 .. Len(down) : down[i].id \in Address!Ids => down[i].id <= ids
  <2>1. \A n \in Nat : n <= SentUpTo => n <= ids
    BY <1>1, <1>2
  <2>. QED BY <2>1, ListFields DEF InOrder, Address!Ids
<1>. QED BY <1>1, <1>3 DEF InOrder

LEMMA DetectFollows ==
  ASSUME AddressTypes, WorkFollows, WiresFollow, Address!Detect, ~crossed', ~refused'
  PROVE  WorkFollows' /\ WiresFollow'
<1>1. CASE UNCHANGED <<pending, step, crossed, last, told>> /\ (warned => warned')
  BY <1>1, DetectDoes, NothingFollows
<1>2. ASSUME NEW ip \in Address!Ip, Address!Sync(ip)
      PROVE  WorkFollows' /\ WiresFollow'
  <2>1. UNCHANGED <<own, known, tracked, ids, up, down>> /\ pending' # None
    BY <1>2, DetectDoes, SyncDoes
  <2>2. CASE pending # None /\ UNCHANGED <<pending, step, crossed, warned>>
    <3>1. WorkFollows'
      BY <2>1, <2>2 DEF WorkFollows, OneBusy, HasNumber, SameChange, Entered, Awaited, Doing, Sends, Address!Busy, Address!Runs
    <3>2. InOrder' /\ Granted' /\ Asked' /\ Agreed'
      BY <2>1, <2>2 DEF WiresFollow, InOrder, Granted, Asked, Agreed, SentUpTo, Sends, Address!Runs
    <3>. QED BY <3>1, <3>2 DEF WiresFollow
  <2>3. CASE /\ pending'.id = None /\ pending'.ip = ip
             /\ step' = [step EXCEPT !["watcher"] = [do |-> "apply", ip |-> ip]]
             /\ crossed' = (crossed \/ Address!Busy("receiver"))
    <3>1. /\ step \in [Address!Thread -> [do : Address!Step, ip : Address!Ip \cup {None}]]
          /\ "watcher" \in Address!Thread /\ "receiver" \in Address!Thread
      BY DEF AddressTypes, Address!AddressTypeOK, Address!Thread
    <3>2. ~Address!Busy("receiver")
      BY <2>3
    <3>3. step'["receiver"] = Address!Idle /\ step'["watcher"] = [do |-> "apply", ip |-> ip]
      BY <2>3, <3>1, <3>2 DEF Address!Busy
    <3>4. /\ ~Address!Busy("receiver")' /\ Address!Busy("watcher")'
          /\ \A th \in Address!Thread : ~Sends(th)' /\ ~Doing(th)'
      BY <3>3, ThreadsAre DEF Address!Busy, Address!Idle, Sends, Doing, Address!Runs
    <3>5. WorkFollows'
      BY <2>1, <2>3, <3>1, <3>3, <3>4, ThreadsAre DEF WorkFollows, OneBusy, HasNumber, SameChange, Entered, Awaited
    <3>6. InOrder'
      BY <2>1, <3>4, StillInOrder DEF WiresFollow
    <3>7. Granted' /\ Asked' /\ Agreed'
      BY <2>1, <2>3 DEF WiresFollow, Granted, Asked, Agreed
    <3>. QED BY <3>5, <3>6, <3>7 DEF WiresFollow
  <2>. QED BY <1>2, <2>2, <2>3, SyncDoes
<1>. QED BY <1>1, <1>2, DetectDoes

(***************************************************************************)
(* The thread that works does so alone.                                    *)
(***************************************************************************)
LEMMA Alone ==
  ASSUME AddressTypes, WorkFollows, NEW th \in Address!Thread, Address!Busy(th),
         NEW what \in Address!Step, Address!Goes(th, what)
  PROVE  /\ \A t \in Address!Thread : t # th => ~Address!Busy(t) /\ ~Address!Busy(t)' /\ ~Sends(t)' /\ ~Doing(t)'
         /\ Address!Busy(th)' <=> what # "none"
         /\ Address!Busy(th)' => step'[th].ip = step[th].ip
         /\ Sends(th)' <=> what = "send"
         /\ Doing(th)' <=> what \in {"check", "number", "send"}
<1>1. step \in [Address!Thread -> [do : Address!Step, ip : Address!Ip \cup {None}]]
  BY DEF AddressTypes, Address!AddressTypeOK
<1>2. \A t \in Address!Thread : t # th => ~Address!Busy(t)
  BY ThreadsAre DEF WorkFollows, OneBusy
<1>3. \A t \in Address!Thread : t # th => step'[t] = Address!Idle
  BY <1>1, <1>2 DEF Address!Goes, Address!Busy
<1>4. \A t \in Address!Thread : t # th => ~Address!Busy(t)' /\ ~Sends(t)' /\ ~Doing(t)'
  BY <1>3 DEF Address!Busy, Address!Idle, Sends, Doing, Address!Runs
<1>5. step'[th] = IF what = "none" THEN Address!Idle ELSE [step[th] EXCEPT !.do = what]
  BY <1>1 DEF Address!Goes
<1>6. CASE what = "none"
  BY <1>2, <1>4, <1>5, <1>6 DEF Address!Busy, Address!Idle, Sends, Doing, Address!Runs
<1>7. CASE what # "none"
  <2>1. step'[th].do = what /\ step'[th].ip = step[th].ip
    BY <1>1, <1>5, <1>7
  <2>2. Address!Busy(th)'
    BY <1>7, <2>1 DEF Address!Busy, Address!Idle
  <2>. QED BY <1>2, <1>4, <1>7, <2>1, <2>2 DEF Sends, Doing, Address!Runs
<1>. QED BY <1>6, <1>7

\* nothing is pending any more, the user knows, and the threads are idle
LEMMA GivenUp ==
  ASSUME AddressTypes, WorkFollows, WiresFollow, pending' = None, warned',
         \A t \in Address!Thread : ~Address!Busy(t)' /\ ~Sends(t)' /\ ~Doing(t)',
         UNCHANGED <<known, ids, up, down>>
  PROVE  WorkFollows' /\ WiresFollow'
<1>1. WorkFollows'
  BY ThreadsAre DEF WorkFollows, OneBusy, HasNumber, SameChange, Entered, Awaited
<1>2. InOrder'
  BY StillInOrder DEF WiresFollow
<1>3. Granted' /\ Asked' /\ Agreed'
  BY DEF WiresFollow, Granted, Asked, Agreed
<1>. QED BY <1>1, <1>2, <1>3 DEF WiresFollow

LEMMA ApplyFollows ==
  ASSUME AddressTypes, WorkFollows, WiresFollow, NEW th \in Address!Thread, Address!Apply(th)
  PROVE  WorkFollows' /\ WiresFollow'
<1>. USE DEF Address!here, Address!there, Address!wire
<1>1. Address!Busy(th)
  BY BusyIs DEF Address!Apply, Address!Runs
<1>2. UNCHANGED <<known, ids, up, down, last, told, tracked>>
  BY DEF Address!Apply
<1>3. CASE own' = step[th].ip /\ Address!Goes(th, "check") /\ UNCHANGED <<pending, warned>>
  <2>1. /\ \A t \in Address!Thread : t # th => ~Address!Busy(t) /\ ~Address!Busy(t)' /\ ~Sends(t)' /\ ~Doing(t)'
        /\ Address!Busy(th)' /\ step'[th].ip = step[th].ip /\ ~Sends(th)'
    BY <1>1, <1>3, Alone DEF Address!Step
  <2>2. WorkFollows'
    BY <1>1, <1>2, <1>3, <2>1, ThreadsAre DEF WorkFollows, OneBusy, HasNumber, SameChange, Entered, Awaited
  <2>3. InOrder'
    BY <1>1, <1>2, <2>1, StillInOrder DEF WiresFollow
  <2>4. Granted' /\ Asked' /\ Agreed'
    BY <1>1, <1>2, <1>3 DEF WiresFollow, Granted, Asked, Agreed
  <2>. QED BY <2>2, <2>3, <2>4 DEF WiresFollow
<1>4. CASE Address!Abandon /\ warned' = TRUE /\ Address!Goes(th, "none")
  <2>1. \A t \in Address!Thread : ~Address!Busy(t)' /\ ~Sends(t)' /\ ~Doing(t)'
    BY <1>1, <1>4, Alone DEF Address!Step
  <2>. QED BY <1>2, <1>4, <2>1, GivenUp DEF Address!Abandon
<1>. QED BY <1>3, <1>4 DEF Address!Apply

LEMMA CheckFollows ==
  ASSUME AddressTypes, WorkFollows, WiresFollow, NEW th \in Address!Thread, Address!Check(th)
  PROVE  WorkFollows' /\ WiresFollow'
<1>. USE DEF Address!here, Address!there, Address!wire
<1>1. Address!Busy(th) /\ Doing(th)
  BY BusyIs DEF Address!Check, Address!Runs, Doing
<1>2. UNCHANGED <<known, ids, up, down, last, told, tracked, warned, own>>
  BY DEF Address!Check
<1>3. CASE Address!Goes(th, "number") /\ UNCHANGED pending
  <2>1. /\ \A t \in Address!Thread : t # th => ~Address!Busy(t) /\ ~Address!Busy(t)' /\ ~Sends(t)' /\ ~Doing(t)'
        /\ Address!Busy(th)' /\ step'[th].ip = step[th].ip /\ ~Sends(th)'
    BY <1>1, <1>3, Alone DEF Address!Step
  <2>2. WorkFollows'
    BY <1>1, <1>2, <1>3, <2>1, ThreadsAre DEF WorkFollows, OneBusy, HasNumber, SameChange, Entered, Awaited
  <2>3. InOrder'
    BY <1>1, <1>2, <2>1, StillInOrder DEF WiresFollow
  <2>4. Granted' /\ Asked' /\ Agreed'
    BY <1>1, <1>2, <1>3 DEF WiresFollow, Granted, Asked, Agreed
  <2>. QED BY <2>2, <2>3, <2>4 DEF WiresFollow
<1>4. CASE own # step[th].ip /\ Address!Goes(th, "none") /\ Address!Abandon
  <2>1. \A t \in Address!Thread : ~Address!Busy(t)' /\ ~Sends(t)' /\ ~Doing(t)'
    BY <1>1, <1>4, Alone DEF Address!Step
  <2>2. warned
    BY <1>1, <1>4 DEF WorkFollows, Entered
  <2>. QED BY <1>2, <1>4, <2>1, <2>2, GivenUp DEF Address!Abandon
<1>. QED BY <1>3, <1>4 DEF Address!Check

LEMMA NumberFollows ==
  ASSUME AddressTypes, FollowedOK', WorkFollows, WiresFollow, NEW th \in Address!Thread, Address!Number(th)
  PROVE  WorkFollows' /\ WiresFollow'
<1>. USE DEF Address!here, Address!there, Address!wire
<1>1. Address!Busy(th) /\ Doing(th)
  BY BusyIs DEF Address!Number, Address!Runs, Doing
<1>2. UNCHANGED <<known, up, down, last, told, tracked, warned, own>>
  BY DEF Address!Number
<1>3. ids \in Nat /\ ids' = ids + 1 /\ (pending = None \/ pending \in Address!Change)
  BY DEF Address!Number, AddressTypes, Address!AddressTypeOK
<1>4. \/ pending' = None /\ pending = None
      \/ /\ pending # None /\ pending'.id = ids' /\ pending'.ip = pending.ip
         /\ pending' # None
  <2>1. ids' \in Address!Ids
    BY <1>3 DEF Address!Ids
  <2>2. pending # None => [pending EXCEPT !.id = ids'] \in Address!Change
    BY <1>3, <2>1 DEF Address!Change
  <2>. QED BY <1>3, <2>2, NoneIsNoChange DEF Address!Number, Address!Change
<1>5. ids' # None
  BY <1>3, NoneIsNoChange
<1>6. /\ \A t \in Address!Thread : t # th => ~Address!Busy(t) /\ ~Address!Busy(t)' /\ ~Sends(t)' /\ ~Doing(t)'
      /\ Address!Busy(th)' /\ step'[th].ip = step[th].ip
  BY <1>1, Alone DEF Address!Step, Address!Number
<1>7. WorkFollows'
  BY <1>1, <1>2, <1>4, <1>5, <1>6, ThreadsAre DEF WorkFollows, OneBusy, HasNumber, SameChange, Entered, Awaited
<1>8. SentUpTo = ids /\ SentUpTo' = ids
  <2>1. \A t \in Address!Thread : ~Sends(t)
    BY <1>6, BusyIs DEF Sends, Address!Number, Address!Runs
  <2>2. Sends(th)'
    BY <1>1, Alone DEF Address!Step, Address!Number
  <2>. QED BY <1>3, <2>1, <2>2 DEF SentUpTo
<1>9. /\ \A i \in 1 .. Len(up) : up[i].id < ids'
      /\ \A i \in 1 .. Len(down) : down[i].id \in Address!Ids => down[i].id < ids'
  <2>1. \A n \in Nat : n <= ids => n < ids'
    BY <1>3
  <2>. QED BY <1>8, <2>1, ListFields DEF WiresFollow, InOrder, Address!Ids
<1>11. InOrder'
  BY <1>2, <1>8 DEF WiresFollow, InOrder
<1>12. ids' \in Address!Ids /\ ~(ids' < ids')
  BY <1>3 DEF Address!Ids
<1>13. Granted'
  BY <1>2, <1>9, <1>12 DEF Granted
<1>14. Asked'
  BY <1>2, <1>4, <1>9, <1>12 DEF Asked
<1>15. Agreed'
  BY <1>1, <1>2, <1>4 DEF WiresFollow, Agreed
<1>. QED BY <1>7, <1>11, <1>13, <1>14, <1>15 DEF WiresFollow

LEMMA SendFollows ==
  ASSUME AddressTypes, FollowedOK, WorkFollows, WiresFollow, NEW th \in Address!Thread, Address!Send(th)
  PROVE  WorkFollows' /\ WiresFollow'
<1>. USE DEF Address!here, Address!there, Address!wire
<1>1. Address!Busy(th) /\ Doing(th) /\ Sends(th)
  BY BusyIs DEF Address!Send, Address!Runs, Doing, Sends
<1>2. UNCHANGED <<known, down, last, told, ids, own>>
  BY DEF Address!Send
<1>3. ids \in Nat /\ ids # 0 /\ up \in Seq(Address!Request)
  BY <1>1, BusyIs DEF AddressTypes, Address!AddressTypeOK
<1>4. \A t \in Address!Thread : ~Address!Busy(t)' /\ ~Sends(t)' /\ ~Doing(t)'
  BY <1>1, Alone DEF Address!Step, Address!Send
<1>5. CASE linked
  <2>. DEFINE q == [ip |-> own, base |-> rev, id |-> ids]
  <2>1. up' = Append(up, q) /\ tracked' = tracked \cup {ids} /\ UNCHANGED <<pending, warned>>
        /\ q.ip = own /\ q.id = ids
    BY <1>5 DEF Address!Send
  <2>. HIDE DEF q
  <2>2. /\ Len(up) \in Nat /\ Len(up') = Len(up) + 1
        /\ \A i \in 1 .. Len(up) : up'[i] = up[i]
        /\ up'[Len(up) + 1] = q
        /\ \A i \in 1 .. Len(up') : i \in 1 .. Len(up) \/ i = Len(up) + 1
    BY <1>3, <2>1, LastAdded
  <2>3. pending # None => pending.id = ids /\ own = pending.ip
    BY <1>1 DEF WorkFollows, HasNumber, SameChange, Entered, FollowedOK, Numbered
  <2>4. WorkFollows'
    BY <1>4, <2>1, <2>3, ThreadsAre DEF WorkFollows, OneBusy, HasNumber, SameChange, Entered, Awaited
  <2>5. /\ \A i \in 1 .. Len(up) : up[i].id < ids /\ up[i].id <= ids
        /\ \A i \in 1 .. Len(down) : down[i].id \in Address!Ids => down[i].id < ids /\ down[i].id <= ids
    <3>1. SentUpTo = ids - 1
      BY <1>1 DEF SentUpTo
    <3>2. \A n \in Nat : n <= ids - 1 => n < ids /\ n <= ids
      BY <1>3
    <3>. QED BY <3>1, <3>2, ListFields DEF WiresFollow, InOrder, Address!Ids
  <2>6. SentUpTo' = ids /\ ids <= ids
    BY <1>2, <1>3, <1>4 DEF SentUpTo
  <2>7. InOrder'
    <3>1. \A i \in 1 .. Len(up') : up'[i].id <= ids
      BY <2>1, <2>2, <2>5, <2>6
    <3>2. \A i, j \in 1 .. Len(up') : i < j => up'[i].id < up'[j].id
      BY <2>1, <2>2, <2>5 DEF WiresFollow, InOrder
    <3>3. \A i \in 1 .. Len(down) : down[i].id \in Address!Ids =>
            \A j \in 1 .. Len(up') : down[i].id < up'[j].id
      BY <2>1, <2>2, <2>5 DEF WiresFollow, InOrder
    <3>. QED BY <1>2, <2>5, <2>6, <3>1, <3>2, <3>3 DEF InOrder
  <2>8. Granted'
    BY <1>2 DEF WiresFollow, Granted
  <2>9. Asked'
    BY <1>2, <2>1, <2>2, <2>3 DEF WiresFollow, Asked
  <2>10. Agreed'
    BY <1>1, <1>2, <2>1 DEF WiresFollow, Agreed
  <2>. QED BY <2>4, <2>7, <2>8, <2>9, <2>10 DEF WiresFollow
<1>6. CASE ~linked
  BY <1>2, <1>4, <1>6, GivenUp DEF Address!Send, Address!Abandon
<1>. QED BY <1>5, <1>6

\* threads, what is pending and what is tracked stay as they are
LEMMA WorkStays ==
  ASSUME WorkFollows, UNCHANGED <<pending, step, own, tracked>>, warned => warned'
  PROVE  WorkFollows' /\ (ids' = ids => SentUpTo' = SentUpTo)
BY DEF WorkFollows, OneBusy, HasNumber, SameChange, Entered, Awaited, Doing, Sends, SentUpTo,
       Address!Busy, Address!Runs

(***************************************************************************)
(* A list that answers nobody's request: an edit, or a connection.         *)
(***************************************************************************)
LEMMA ListFollows ==
  ASSUME AddressTypes, WorkFollows, WiresFollow,
         UNCHANGED <<pending, step, own, tracked, ids, up, known, last, told, warned>>,
         NEW id, id \notin Address!Ids, NEW reject,
         Address!Told(known, crev', id, reject)
  PROVE  WorkFollows' /\ WiresFollow'
<1>. DEFINE l == [ip |-> known, revision |-> crev', id |-> id, reject |-> reject]
<1>1. down \in Seq(Address!List) /\ ids \in Nat /\ (pending = None \/ pending \in Address!Change)
  BY DEF AddressTypes, Address!AddressTypeOK
<1>2. down' = Append(down, l) /\ l.ip = known /\ l.id = id
  BY DEF Address!Told
<1>. HIDE DEF l
<1>3. /\ Len(down) \in Nat /\ Len(down') = Len(down) + 1
      /\ \A i \in 1 .. Len(down) : down'[i] = down[i]
      /\ down'[Len(down) + 1] = l
      /\ \A i \in 1 .. Len(down') : i \in 1 .. Len(down) \/ i = Len(down) + 1
  BY <1>1, <1>2, LastAdded
<1>4. WorkFollows' /\ SentUpTo' = SentUpTo
  BY WorkStays
<1>5. InOrder'
  BY <1>2, <1>3, <1>4 DEF WiresFollow, InOrder
<1>6. ids # 0 => ids \in Address!Ids
  BY <1>1 DEF Address!Ids
<1>7. \A j \in 1 .. Len(down) : j <= Len(down)
  BY <1>3
<1>8. Granted'
  <2>. SUFFICES ASSUME NEW i \in 1 .. Len(down'), NEW j \in 1 .. Len(down'), i <= j,
                       down'[i].id = ids, ids # 0, down'[i].reject # "stale_revision"
                PROVE  down'[j].ip = known
    BY DEF Granted
  <2>1. i \in 1 .. Len(down)
    BY <1>2, <1>3, <1>6
  <2>. QED BY <1>2, <1>3, <2>1 DEF WiresFollow, Granted
<1>9. pending # None /\ pending.id # None => pending.id \in Address!Ids
  BY <1>1 DEF Address!Change
<1>10. Asked'
  BY <1>2, <1>3, <1>9 DEF WiresFollow, Asked
<1>11. Agreed'
  BY <1>2, <1>3 DEF WiresFollow, Agreed, Address!Busy
<1>. QED BY <1>4, <1>5, <1>8, <1>10, <1>11 DEF WiresFollow

LEMMA ServeFollows ==
  ASSUME AddressTypes, FollowedOK, WorkFollows, WiresFollow, Address!Serve, ~refused'
  PROVE  WorkFollows' /\ WiresFollow'
<1>. USE DEF Address!here, Address!there, Address!wire
<1>1. UNCHANGED <<pending, step, own, tracked, ids, last, told, warned>>
  BY DEF Address!Serve
<1>2. /\ up # <<>> /\ up' = Tail(up) /\ up \in Seq(Address!Request)
      /\ down \in Seq(Address!List) /\ ids \in Nat
      /\ pending = None \/ pending \in Address!Change
  BY DEF Address!Serve, AddressTypes, Address!AddressTypeOK
<1>3. /\ Len(up) \in Nat \ {0} /\ Len(up') = Len(up) - 1
      /\ Head(up) = up[1]
      /\ \A i \in 1 .. Len(up') : i + 1 \in 2 .. Len(up) /\ up'[i] = up[i + 1]
  BY <1>2, FirstTaken
<1>4. PICK l : /\ down' = Append(down, l) /\ l.id = up[1].id
               /\ l.reject = "stale_revision" \/ (l.reject = "none" /\ l.ip = up[1].ip /\ known' = l.ip)
               /\ l.reject = "stale_revision" => known' = known
  <2>1. \A ip, r, id, reject : Address!Told(ip, r, id, reject) =>
           \E l : down' = Append(down, l) /\ l.ip = ip /\ l.id = id /\ l.reject = reject
    BY DEF Address!Told
  <2>2. \/ Address!Told(known, crev, up[1].id, "stale_revision") /\ known' = known
        \/ \E r : Address!Told(up[1].ip, r, up[1].id, "none") /\ known' = up[1].ip
    BY <1>3 DEF Address!Serve
  <2>. QED BY <2>1, <2>2
<1>5. /\ Len(down) \in Nat /\ Len(down') = Len(down) + 1
      /\ \A i \in 1 .. Len(down) : down'[i] = down[i]
      /\ down'[Len(down) + 1] = l
      /\ \A i \in 1 .. Len(down') : i \in 1 .. Len(down) \/ i = Len(down) + 1
  BY <1>2, <1>4, LastAdded
<1>6. WorkFollows' /\ SentUpTo' = SentUpTo
  BY <1>1, WorkStays
<1>7. InOrder'
  <2>1. 1 \in 1 .. Len(up) /\ \A i \in 1 .. Len(up') : i + 1 \in 1 .. Len(up) /\ 1 < i + 1
    BY <1>3
  <2>2. \A i \in 1 .. Len(up') : up'[i].id <= SentUpTo /\ up[1].id < up'[i].id
    BY <1>3, <2>1 DEF WiresFollow, InOrder
  <2>3. \A i, j \in 1 .. Len(up') : i < j => up'[i].id < up'[j].id
    <3>1. \A i, j \in 1 .. Len(up') : i < j => i + 1 < j + 1
      BY <1>3
    <3>. QED BY <1>3, <2>1, <3>1 DEF WiresFollow, InOrder
  <2>4. \A i \in 1 .. Len(down) : down[i].id \in Address!Ids =>
          down[i].id <= SentUpTo /\ \A j \in 1 .. Len(up') : down[i].id < up'[j].id
    BY <1>3, <2>1 DEF WiresFollow, InOrder
  <2>5. l.id <= SentUpTo
    BY <1>4, <2>1 DEF WiresFollow, InOrder
  <2>. QED BY <1>4, <1>5, <1>6, <2>2, <2>3, <2>4, <2>5 DEF InOrder
<1>8. \A i \in 1 .. Len(down) : ~(down[i].id = ids /\ ids # 0)
  <2>1. ids # 0 => ids \in Address!Ids
    BY <1>2 DEF Address!Ids
  <2>2. 1 \in 1 .. Len(up) /\ up[1].id \in Nat
    BY <1>3, ListFields
  <2>3. SentUpTo \in {ids, ids - 1}
    BY DEF SentUpTo
  <2>4. up[1].id <= ids
    <3>1. up[1].id <= SentUpTo
      BY <2>2 DEF WiresFollow, InOrder
    <3>. QED BY <1>2, <2>2, <2>3, <3>1
  <2>5. ~(ids < up[1].id)
    BY <1>2, <2>2, <2>4
  <2>. QED BY <2>1, <2>2, <2>5 DEF WiresFollow, InOrder
<1>9. Granted'
  <2>. SUFFICES ASSUME NEW i \in 1 .. Len(down'), NEW j \in 1 .. Len(down'), i <= j,
                       down'[i].id = ids, ids # 0, down'[i].reject # "stale_revision"
                PROVE  down'[j].ip = known'
    BY <1>1 DEF Granted
  <2>1. i = Len(down) + 1 /\ j = Len(down) + 1
    BY <1>5, <1>8
  <2>. QED BY <1>4, <1>5, <2>1
<1>10. Asked'
  <2>1. \A i \in 1 .. Len(up') : i + 1 \in 1 .. Len(up)
    BY <1>3
  <2>2. 1 \in 1 .. Len(up)
    BY <1>3
  <2>3. pending # None /\ pending.id # None =>
          /\ \A i \in 1 .. Len(up') : up'[i].id = pending.id => up'[i].ip = pending.ip
          /\ up[1].id = pending.id => up[1].ip = pending.ip
    BY <1>3, <2>1, <2>2 DEF WiresFollow, Asked
  <2>4. pending # None /\ pending.id # None =>
          /\ \A i \in 1 .. Len(down) :
               down[i].id = pending.id /\ down[i].reject # "stale_revision" => down[i].ip = pending.ip
          /\ l.id = pending.id /\ l.reject # "stale_revision" => l.ip = pending.ip
    BY <1>4, <2>3 DEF WiresFollow, Asked
  <2>. QED BY <1>1, <1>5, <2>3, <2>4 DEF Asked
<1>11. Agreed'
  BY <1>1, <1>2 DEF WiresFollow, Agreed
<1>. QED BY <1>6, <1>7, <1>9, <1>10, <1>11 DEF WiresFollow

(***************************************************************************)
(* A list is taken, or passed over.                                        *)
(***************************************************************************)
LEMMA ListTaken ==
  ASSUME AddressTypes, WiresFollow, down # <<>>, down' = Tail(down),
         UNCHANGED <<step, ids, up, known>>
  PROVE  /\ InOrder' /\ Granted' /\ SentUpTo' = SentUpTo
         /\ 1 \in 1 .. Len(down) /\ Head(down) = down[1]
         /\ \A i \in 1 .. Len(down') : i + 1 \in 1 .. Len(down) /\ 1 <= i + 1 /\ down'[i] = down[i + 1]
<1>1. down \in Seq(Address!List)
  BY DEF AddressTypes, Address!AddressTypeOK
<1>2. /\ Len(down) \in Nat \ {0} /\ Len(down') = Len(down) - 1
      /\ Head(down) = down[1]
      /\ \A i \in 1 .. Len(down') : i + 1 \in 2 .. Len(down) /\ down'[i] = down[i + 1]
  BY <1>1, FirstTaken
<1>3. /\ 1 \in 1 .. Len(down)
      /\ \A i \in 1 .. Len(down') : i + 1 \in 1 .. Len(down) /\ 1 <= i + 1 /\ down'[i] = down[i + 1]
  BY <1>2
<1>4. SentUpTo' = SentUpTo
  BY DEF SentUpTo, Sends, Address!Runs
<1>5. InOrder'
  BY <1>3, <1>4 DEF WiresFollow, InOrder
<1>6. \A i, j \in 1 .. Len(down') : i <= j => i + 1 <= j + 1
  BY <1>2
<1>7. Granted'
  BY <1>3, <1>6 DEF WiresFollow, Granted
<1>. QED BY <1>2, <1>3, <1>4, <1>5, <1>7

LEMMA ReceiveFollows ==
  ASSUME AddressTypes, FollowedOK, WorkFollows, WiresFollow, Address!Receive, ~crossed', ~refused'
  PROVE  WorkFollows' /\ WiresFollow'
<1>. USE DEF Address!here, Address!there, Address!wire
<1>1. /\ down # <<>> /\ down' = Tail(down) /\ ~Address!Busy("receiver")
      /\ UNCHANGED <<ids, up, known, last, told>>
  BY DEF Address!Receive
<1>2. pending = None \/ pending \in Address!Change
  BY DEF AddressTypes, Address!AddressTypeOK
<1>. DEFINE l == Head(down)
<1>3. UNCHANGED step =>
        /\ InOrder' /\ Granted' /\ SentUpTo' = SentUpTo
        /\ 1 \in 1 .. Len(down) /\ l = down[1]
        /\ \A i \in 1 .. Len(down') : i + 1 \in 1 .. Len(down) /\ 1 <= i + 1 /\ down'[i] = down[i + 1]
  BY <1>1, ListTaken
<1>4. CASE UNCHANGED <<own, pending, step, tracked, warned>>
  <2>1. WorkFollows'
    BY <1>4, WorkStays
  <2>2. Asked' /\ Agreed'
    BY <1>1, <1>3, <1>4 DEF WiresFollow, Asked, Agreed, Address!Busy
  <2>. QED BY <1>3, <1>4, <2>1, <2>2 DEF WiresFollow
<1>5. ASSUME own' = l.ip, tracked' = tracked \ {l.id}, Address!Listen(l)
      PROVE  WorkFollows' /\ WiresFollow'
  <2>1. CASE Address!Stale(l.id, l.reject) /\ pending.retries < MaxRetries
    <3>1. /\ pending' = [pending EXCEPT !.retries = @ + 1, !.id = None]
          /\ step' = [step EXCEPT !["receiver"] = [do |-> "apply", ip |-> pending.ip]]
          /\ ~Address!Busy("watcher")
      BY <1>5, <2>1 DEF Address!Listen, Address!Retry
    <3>2. pending # None /\ pending \in Address!Change
      BY <1>2, <2>1 DEF Address!Stale, Address!Concerns
    <3>3. pending'.ip = pending.ip /\ pending'.id = None
      BY <3>1, <3>2 DEF Address!Change
    <3>4. /\ step \in [Address!Thread -> [do : Address!Step, ip : Address!Ip \cup {None}]]
          /\ "watcher" \in Address!Thread /\ "receiver" \in Address!Thread
      BY DEF AddressTypes, Address!AddressTypeOK, Address!Thread
    <3>5. step'["watcher"] = Address!Idle /\ step'["receiver"] = [do |-> "apply", ip |-> pending.ip]
      BY <3>1, <3>4 DEF Address!Busy
    <3>6. /\ ~Address!Busy("watcher")' /\ Address!Busy("receiver")'
          /\ \A th \in Address!Thread : ~Sends(th)' /\ ~Doing(th)'
      BY <3>5, ThreadsAre DEF Address!Busy, Address!Idle, Sends, Doing, Address!Runs
    <3>7. pending' # None
      <4>1. AddressTypes' => pending' = None \/ pending' \in Address!Change
        BY DEF AddressTypes, Address!AddressTypeOK
      <4>2. pending' = [ip |-> pending.ip, retries |-> pending.retries + 1, id |-> None]
        BY <3>1, <3>2 DEF Address!Change
      <4>3. pending.ip \in Address!Ip /\ pending.retries + 1 \in 0 .. MaxRetries
        BY <2>1, <3>2 DEF Address!Change
      <4>4. pending' \in Address!Change
        BY <4>2, <4>3 DEF Address!Change
      <4>. QED BY <4>4, NoneIsNoChange
    <3>8. WorkFollows'
      BY <3>3, <3>4, <3>5, <3>6, <3>7, ThreadsAre DEF WorkFollows, OneBusy, HasNumber, SameChange, Entered, Awaited
    <3>9. InOrder' /\ Granted'
      <4>1. \A th \in Address!Thread : ~Sends(th)
        BY <1>1, <3>1, ThreadsAre, BusyIs
      <4>2. SentUpTo' = SentUpTo
        BY <1>1, <3>6, <4>1 DEF SentUpTo
      <4>3. /\ \A i \in 1 .. Len(down') : i + 1 \in 1 .. Len(down) /\ 1 <= i + 1 /\ down'[i] = down[i + 1]
            /\ \A i, j \in 1 .. Len(down') : i <= j => i + 1 <= j + 1
        <5>1. down \in Seq(Address!List)
          BY DEF AddressTypes, Address!AddressTypeOK
        <5>2. /\ Len(down) \in Nat \ {0} /\ Len(down') = Len(down) - 1
              /\ \A i \in 1 .. Len(down') : i + 1 \in 2 .. Len(down) /\ down'[i] = down[i + 1]
          BY <1>1, <5>1, FirstTaken
        <5>. QED BY <5>2
      <4>. QED BY <1>1, <4>2, <4>3 DEF WiresFollow, InOrder, Granted
    <3>10. Asked' /\ Agreed'
      BY <3>3, <3>7 DEF Asked, Agreed
    <3>. QED BY <3>8, <3>9, <3>10 DEF WiresFollow
  <2>2. CASE Address!Stale(l.id, l.reject) /\ ~(pending.retries < MaxRetries)
    <3>1. pending' = None /\ warned' /\ UNCHANGED step
      BY <1>5, <2>2 DEF Address!Listen, Address!GiveUp, Address!Abandon
    <3>2. WorkFollows'
      BY <3>1 DEF WorkFollows, OneBusy, HasNumber, SameChange, Entered, Awaited, Address!Busy, Doing, Sends, Address!Runs
    <3>. QED BY <1>3, <3>1, <3>2 DEF WiresFollow, Asked, Agreed
  <2>3. CASE ~Address!Stale(l.id, l.reject)
    <3>1. /\ UNCHANGED <<step, warned>> /\ ~Address!Busy("watcher")
          /\ IF Address!Concerns(l.id) /\ pending.id # None /\ l.ip = pending.ip
             THEN pending' = None ELSE pending' = pending
      BY <1>5, <2>3 DEF Address!Listen, Address!Abandon
    <3>2. \A th \in Address!Thread : ~Address!Busy(th) /\ ~Address!Busy(th)' /\ ~Sends(th)' /\ ~Doing(th)'
      <4>1. \A th \in Address!Thread : ~Address!Busy(th) /\ ~Sends(th) /\ ~Doing(th)
        BY <1>1, <3>1, ThreadsAre, BusyIs
      <4>. QED BY <3>1, <4>1 DEF Address!Busy, Sends, Doing, Address!Runs
    <3>3. /\ 1 \in 1 .. Len(down) /\ l = down[1]
          /\ \A i \in 1 .. Len(down') : i + 1 \in 1 .. Len(down) /\ 1 <= i + 1 /\ down'[i] = down[i + 1]
          /\ InOrder' /\ Granted'
      BY <1>3, <3>1
    <3>4. CASE Address!Concerns(l.id) /\ pending.id # None /\ l.ip = pending.ip
      <4>1. pending' = None /\ pending # None /\ l.id = pending.id /\ l.reject # "stale_revision"
        BY <2>3, <3>1, <3>4 DEF Address!Concerns, Address!Stale
      <4>2. pending.id = ids /\ ids \in Address!Ids /\ ids # 0 /\ ids \in Nat
        BY <1>2, <3>4, <4>1 DEF FollowedOK, Numbered, Address!Change, Address!Ids
      <4>3. \A j \in 1 .. Len(down) : 1 <= j => down[j].ip = known
        BY <3>3, <4>1, <4>2 DEF WiresFollow, Granted
      <4>4. up = <<>>
        <5>1. up \in Seq(Address!Request)
          BY DEF AddressTypes, Address!AddressTypeOK
        <5>2. ASSUME up # <<>>
              PROVE  FALSE
          <6>1. Len(up) \in Nat \ {0} /\ 1 \in 1 .. Len(up) /\ up[1].id \in Nat
            BY <5>1, <5>2, FirstTaken, ListFields
          <6>2. up[1].id <= SentUpTo /\ SentUpTo \in {ids, ids - 1} /\ ids < up[1].id
            BY <3>3, <4>1, <4>2, <6>1 DEF WiresFollow, InOrder, SentUpTo
          <6>. QED BY <4>2, <6>1, <6>2
        <5>. QED BY <5>2
      <4>5. known = l.ip /\ \A i \in 1 .. Len(down') : down'[i].ip = known
        BY <3>3, <4>3
      <4>6. Agreed'
        BY <1>1, <1>5, <3>1, <3>2, <3>4, <4>1, <4>4, <4>5 DEF Agreed, FollowedOK, Meant
      <4>7. WorkFollows'
        BY <3>2, <4>1, ThreadsAre DEF WorkFollows, OneBusy, HasNumber, SameChange, Entered, Awaited
      <4>. QED BY <3>3, <4>1, <4>6, <4>7 DEF WiresFollow, Asked
    <3>5. CASE ~(Address!Concerns(l.id) /\ pending.id # None /\ l.ip = pending.ip)
      <4>1. pending' = pending
        BY <3>1, <3>5
      <4>2. pending # None => pending.id \in tracked'
        <5>1. tracked \subseteq Address!Ids
          BY DEF AddressTypes, Address!AddressTypeOK
        <5>2. pending # None => pending.id \in tracked /\ pending.id # None
          BY <3>2, <5>1, NoneIsNoChange DEF WorkFollows, Awaited, Address!Ids
        <5>3. ASSUME pending # None
              PROVE  pending.id # l.id
          <6>1. SUFFICES ASSUME pending.id = l.id
                         PROVE  FALSE
            OBVIOUS
          <6>2. Address!Concerns(l.id) /\ l.reject # "stale_revision"
            BY <2>3, <5>3, <6>1 DEF Address!Concerns, Address!Stale
          <6>3. l.ip = pending.ip
            BY <3>3, <5>2, <5>3, <6>1, <6>2 DEF WiresFollow, Asked
          <6>. QED BY <3>5, <5>2, <5>3, <6>2, <6>3
        <5>. QED BY <1>5, <5>2, <5>3
      <4>3. WorkFollows'
        BY <3>2, <4>1, <4>2, ThreadsAre DEF WorkFollows, OneBusy, HasNumber, SameChange, Entered, Awaited
      <4>4. Asked'
        BY <1>1, <3>3, <4>1 DEF WiresFollow, Asked
      <4>5. Agreed'
        BY <1>1, <1>5, <3>1, <3>2, <3>3, <4>1 DEF WiresFollow, Agreed
      <4>. QED BY <3>3, <4>3, <4>4, <4>5 DEF WiresFollow
    <3>. QED BY <3>4, <3>5
  <2>. QED BY <2>1, <2>2, <2>3
<1>6. \/ UNCHANGED <<own, pending, step, tracked, warned>>
      \/ own' = l.ip /\ tracked' = tracked \ {l.id} /\ Address!Listen(l)
  BY DEF Address!Receive
<1>. QED BY <1>4, <1>5, <1>6

LEMMA ExpireFollows ==
  ASSUME AddressTypes, FollowedOK, WorkFollows, WiresFollow, NEW id \in tracked, Address!Expire(id)
  PROVE  WorkFollows' /\ WiresFollow'
<1>. USE DEF Address!here, Address!there, Address!wire
<1>1. UNCHANGED <<step, own, known, up, down, ids, last, told>> /\ tracked' = tracked \ {id}
  BY DEF Address!Expire
<1>2. SentUpTo' = SentUpTo /\ InOrder' /\ Granted'
  BY <1>1 DEF WiresFollow, InOrder, Granted, SentUpTo, Sends, Address!Runs
<1>3. CASE pending' = None /\ warned'
  <2>1. WorkFollows'
    BY <1>1, <1>3 DEF WorkFollows, OneBusy, HasNumber, SameChange, Entered, Awaited, Address!Busy, Doing, Sends, Address!Runs
  <2>. QED BY <1>2, <1>3, <2>1 DEF WiresFollow, Asked, Agreed
<1>4. CASE UNCHANGED <<pending, warned>> /\ ~Address!Concerns(id)
  <2>1. pending # None => pending.id # id
    BY <1>4 DEF Address!Concerns
  <2>2. WorkFollows'
    BY <1>1, <1>4, <2>1 DEF WorkFollows, OneBusy, HasNumber, SameChange, Entered, Awaited, Address!Busy, Doing, Sends, Address!Runs
  <2>3. Asked' /\ Agreed'
    BY <1>1, <1>4 DEF WiresFollow, Asked, Agreed, Address!Busy
  <2>. QED BY <1>2, <2>2, <2>3 DEF WiresFollow
<1>. QED BY <1>3, <1>4 DEF Address!Expire, Address!Abandon

LEMMA UndisturbedKept ==
  ASSUME AddressTypes, FollowedOK, FollowedOK', UndisturbedOK, Address!AddressNext
  PROVE  UndisturbedOK'
<1>. USE DEF Address!here, Address!there, Address!wire
<1>0. SUFFICES ASSUME ~crossed', ~refused'
               PROVE  WorkFollows' /\ WiresFollow'
  BY DEF UndisturbedOK
<1>1. WorkFollows /\ WiresFollow
  BY <1>0, Latched DEF UndisturbedOK
<1>2. ASSUME NEW s \in Locals, Address!Move(s)
      PROVE  WorkFollows' /\ WiresFollow'
  <2>1. /\ UNCHANGED <<pending, step, own, known, tracked, ids, last, warned, told>>
        /\ (up' = up \/ up' = <<>>) /\ (down' = down \/ down' = <<>>)
    BY <1>2 DEF Address!Move
  <2>. QED BY <1>1, <2>1, NothingFollows
<1>3. CASE Address!Detect
  BY <1>0, <1>1, <1>3, DetectFollows
<1>4. ASSUME NEW th \in Address!Thread,
             Address!Apply(th) \/ Address!Check(th) \/ Address!Number(th) \/ Address!Send(th)
      PROVE  WorkFollows' /\ WiresFollow'
  BY <1>1, <1>4, ApplyFollows, CheckFollows, NumberFollows, SendFollows
<1>5. CASE Address!Serve
  BY <1>0, <1>1, <1>5, ServeFollows
<1>6. CASE Address!Edit
  <2>1. UNCHANGED <<pending, step, own, tracked, ids, up, known, last, told, warned>>
    BY <1>6 DEF Address!Edit
  <2>2. down' = down \/ Address!Told(known, crev', Address!Others, "none")
    BY <1>6 DEF Address!Edit
  <2>3. Address!Others \notin Address!Ids
    BY DEF Address!Others, Address!Ids
  <2>4. CASE down' = down
    BY <1>1, <2>1, <2>4, NothingFollows
  <2>5. CASE Address!Told(known, crev', Address!Others, "none")
    BY <1>1, <2>1, <2>3, <2>5, ListFollows
  <2>. QED BY <2>2, <2>4, <2>5
<1>7. CASE Address!Receive
  BY <1>0, <1>1, <1>7, ReceiveFollows
<1>8. ASSUME NEW id \in tracked, Address!Expire(id)
      PROVE  WorkFollows' /\ WiresFollow'
  BY <1>1, <1>8, ExpireFollows
<1>9. CASE Address!Break
  <2>1. /\ UNCHANGED <<pending, step, own, known, tracked, ids, last, warned, told>>
        /\ up' = <<>> /\ down' = <<>>
    BY <1>9 DEF Address!Break
  <2>. QED BY <1>1, <2>1, NothingFollows
<1>10. CASE Address!Rebind
  <2>1. /\ UNCHANGED <<pending, step, own, tracked, ids, up, known, last, told, warned>>
        /\ Address!Told(known, crev', None, "none")
    BY <1>10 DEF Address!Rebind
  <2>2. None \notin Address!Ids
    BY NoneIsNoChange DEF Address!Ids
  <2>. QED BY <1>1, <2>1, <2>2, ListFollows
<1>. QED BY <1>2, <1>3, <1>4, <1>5, <1>6, <1>7, <1>8, <1>9, <1>10 DEF Address!AddressNext

(***************************************************************************)
(* The invariant holds at first, is kept, and says what is claimed.        *)
(***************************************************************************)
LEMMA AddressStarts == Address!AddressInit => AddressInv
<1>. SUFFICES ASSUME Address!AddressInit PROVE AddressInv
  OBVIOUS
<1>. USE DEF Address!AddressInit
<1>1. Home \in Address!Ip /\ {Home} \subseteq Ip4
  BY DEF Address!Ip
<1>2. Address!AddressTypeOK
  <2>1. step \in [Address!Thread -> [do : Address!Step, ip : Address!Ip \cup {None}]]
    BY DEF Address!Step, Address!Idle
  <2>2. up \in Seq(Address!Request) /\ down \in Seq(Address!List)
    OBVIOUS
  <2>3. linked \in BOOLEAN /\ warned \in BOOLEAN /\ crossed \in BOOLEAN /\ refused \in BOOLEAN /\ told \in BOOLEAN
    OBVIOUS
  <2>4. /\ rev \in Nat /\ crev \in Nat /\ ids \in Nat
        /\ moves \in Nat /\ edits \in Nat /\ breaks \in Nat
    OBVIOUS
  <2>. QED BY <1>1, <2>1, <2>2, <2>3, <2>4 DEF Address!AddressTypeOK
<1>3. \A th \in Address!Thread :
        ~Address!Busy(th) /\ Address!Runs(th, "none") /\ ~Sends(th) /\ step[th] = Address!Idle
  BY DEF Address!Busy, Address!Runs, Address!Idle, Sends
<1>4. AddressTypes
  BY <1>2, <1>3 DEF AddressTypes, WorkOK
<1>5. Len(up) = 0 /\ Len(down) = 0 /\ 1 .. 0 = {}
  OBVIOUS
<1>6. ListsOK
  BY <1>5 DEF ListsOK, Unlinked, Revisions, Newest, SameList
<1>7. FollowedOK
  BY DEF FollowedOK, Noted, Meant, Numbered
<1>8. WorkFollows
  BY <1>3, ThreadsAre, BusyIs, <1>4 DEF WorkFollows, OneBusy, HasNumber, SameChange, Entered, Awaited
<1>9. WiresFollow
  BY <1>3, <1>5 DEF WiresFollow, InOrder, Granted, Asked, Agreed
<1>. QED BY <1>4, <1>6, <1>7, <1>8, <1>9 DEF AddressInv, UndisturbedOK

LEMMA AddressKept == AddressInv /\ [Address!AddressNext]_addressVars => AddressInv'
<1>. SUFFICES ASSUME AddressInv, [Address!AddressNext]_addressVars PROVE AddressInv'
  OBVIOUS
<1>1. CASE Address!AddressNext
  BY <1>1, AddressTypesKept, ListsKept, FollowedKept, UndisturbedKept DEF AddressInv
<1>2. CASE UNCHANGED addressVars
  <2>. USE <1>2 DEF addressVars
  <2>1. AddressTypes'
    BY DEF AddressInv, AddressTypes, Address!AddressTypeOK, WorkOK, Sends, Address!Runs
  <2>2. ListsOK'
    BY DEF AddressInv, ListsOK, Unlinked, Revisions, Newest, SameList, Pushes, Doing
  <2>3. FollowedOK'
    BY DEF AddressInv, FollowedOK, Noted, Meant, Numbered
  <2>4. UndisturbedOK'
    BY NothingFollows DEF AddressInv, UndisturbedOK
  <2>. QED BY <2>1, <2>2, <2>3, <2>4 DEF AddressInv
<1>. QED BY <1>1, <1>2

LEMMA AddressSays == AddressInv => Address!AddressFollows
<1>. SUFFICES ASSUME AddressInv, Address!Quiet, linked, ~crossed, ~refused
              PROVE  /\ pending = None
                     /\ warned \/ (own = known /\ (told \/ own \in local \cup {Address!Loopback}))
  BY DEF Address!AddressFollows
<1>. USE DEF Address!Quiet, AddressInv
<1>1. pending = None
  BY DEF UndisturbedOK, WorkFollows, Awaited
<1>2. own = known
  <2>1. \A th \in Address!Thread : ~Pushes(th)
    BY BusyIs DEF Pushes
  <2>. QED BY <2>1 DEF ListsOK, SameList
<1>3. warned \/ told \/ (own = last /\ last \in local \cup {Address!Loopback})
  BY <1>1 DEF UndisturbedOK, WiresFollow, Agreed, FollowedOK, Noted
<1>. QED BY <1>1, <1>2, <1>3

(***************************************************************************)
(* Once everything has been dealt with, the node's address is the same for *)
(* it and for the coordinator, and one it has, or its user was warned      *)
(* (session._sync_self_ip_change, state_watcher.py).                       *)
(***************************************************************************)
THEOREM AddressKnown == MemberSpec => []AddressFollows
<1>1. MemberInit => AddressInv
  BY AddressStarts DEF MemberInit
<1>2. AddressInv /\ [MemberNext]_<<part, lsVars, addressVars>> => AddressInv'
  <2>1. [MemberNext]_<<part, lsVars, addressVars>> => [Address!AddressNext]_addressVars
    BY DEF MemberNext, LeaseStep, AddressStep
  <2>. QED BY <2>1, AddressKept
<1>3. AddressInv => AddressFollows
  BY AddressSays DEF AddressFollows, AddressInv, AddressTypes
<1>. QED BY <1>1, <1>2, <1>3, PTL DEF MemberSpec
=============================================================================

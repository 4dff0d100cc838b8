--------------------------- MODULE NetworkProofs ---------------------------
(***************************************************************************)
(* What the parts of Network promise, for any number of nodes, requests,   *)
(* transfers and faults.  Only the part that has been chosen moves; the    *)
(* variables of a part change by its own steps.                            *)
(***************************************************************************)
EXTENDS Network, PeerLinkProofs, SequenceTheorems, FiniteSetTheorems, TLAPS

USE DEF LinkStep, RelayStep, GroupStep, ShareStep, EditStep, LeaseStep, OfficeStep

LEMMA OnlyPartsMove ==
  ASSUME [NetworkNext]_networkVars
  PROVE  /\ [Sharing!Next]_shareVars
         /\ [Group!Next]_groupVars
         /\ [Office!Next]_officeVars
         /\ [Editing!Next]_layoutVars
         /\ [Relay!Next]_relayVars
         /\ [Leases!Next]_leaseVars
         /\ [Next]_vars
BY DEF NetworkNext, networkVars, linkVars

-----------------------------------------------------------------------------
(***************************************************************************)
(* InstallerShare: transfers take turns.  The tickets that are in use have *)
(* been given out, are not over, and differ; whoever sends has the one     *)
(* whose turn it is.                                                       *)
(***************************************************************************)
TicketsDiffer ==
  /\ \A h \in Transfer :
       stage[h] # "idle" => active <= ticket[h] /\ ticket[h] < next
  /\ \A g, h \in Transfer :
       stage[g] # "idle" /\ stage[h] # "idle" /\ ticket[g] = ticket[h] => g = h

TurnHeld == \A h \in Transfer : stage[h] = "sends" => ticket[h] = active

ShareInv == Sharing!TypeOK /\ active <= next /\ TicketsDiffer /\ TurnHeld

LEMMA ShareInit == Sharing!Init => ShareInv
BY DEF Sharing!Init, ShareInv, Sharing!TypeOK, TicketsDiffer, TurnHeld

(***************************************************************************)
(* A new ticket is one that nobody has.                                    *)
(***************************************************************************)
LEMMA AcquireInv ==
  ASSUME ShareInv, NEW h \in Transfer, Sharing!Acquire(h)
  PROVE  ShareInv'
<1>. USE DEF ShareInv, Sharing!TypeOK
<1>1. Sharing!TypeOK' /\ active' <= next'
  BY DEF Sharing!Acquire
<1>2. \A g \in Transfer :
        /\ g # h => stage'[g] = stage[g] /\ ticket'[g] = ticket[g]
        /\ stage'[h] = "waits" /\ ticket'[h] = next
  BY DEF Sharing!Acquire
<1>3. TicketsDiffer'
  BY <1>2 DEF Sharing!Acquire, TicketsDiffer
<1>4. TurnHeld'
  BY <1>2 DEF Sharing!Acquire, TurnHeld
<1>. QED BY <1>1, <1>3, <1>4

LEMMA BeginInv ==
  ASSUME ShareInv, NEW h \in Transfer, Sharing!Begin(h)
  PROVE  ShareInv'
<1>. USE DEF ShareInv, Sharing!TypeOK, Sharing!Begin
<1>1. Sharing!TypeOK' /\ active' <= next'
  OBVIOUS
<1>2. TicketsDiffer'
  BY DEF TicketsDiffer
<1>3. TurnHeld'
  BY DEF TurnHeld
<1>. QED BY <1>1, <1>2, <1>3

(***************************************************************************)
(* Nobody else has the ticket of the one that has sent: the turn passes to *)
(* one that waits, if anybody has the next ticket.                         *)
(***************************************************************************)
LEMMA ReleaseInv ==
  ASSUME ShareInv, NEW h \in Transfer, Sharing!Release(h)
  PROVE  ShareInv'
<1>. USE DEF ShareInv, Sharing!TypeOK, Sharing!Release
<1>1. ticket[h] = active /\ active < next /\ active' = active + 1
  BY DEF TurnHeld, TicketsDiffer
<1>2. Sharing!TypeOK' /\ active' <= next'
  BY <1>1
<1>3. \A g \in Transfer : stage'[g] # "idle" =>
        g # h /\ stage'[g] = stage[g] /\ ticket[g] # active
  BY <1>1 DEF TicketsDiffer
<1>4. TicketsDiffer'
  BY <1>1, <1>3 DEF TicketsDiffer
<1>5. TurnHeld'
  BY <1>3 DEF TurnHeld
<1>. QED BY <1>2, <1>4, <1>5

LEMMA ShareNext == ShareInv /\ [Sharing!Next]_shareVars => ShareInv'
<1>. SUFFICES ASSUME ShareInv, [Sharing!Next]_shareVars PROVE ShareInv'
  OBVIOUS
<1>1. CASE UNCHANGED shareVars
  BY <1>1 DEF shareVars, ShareInv, Sharing!TypeOK, TicketsDiffer, TurnHeld
<1>2. ASSUME NEW s \in Share, Sharing!Offer(s) \/ Sharing!Expire(s) PROVE ShareInv'
  BY <1>2 DEF Sharing!Offer, Sharing!Expire, ShareInv, Sharing!TypeOK, TicketsDiffer, TurnHeld
<1>3. ASSUME NEW h \in Transfer, Sharing!Acquire(h) \/ Sharing!Begin(h) \/ Sharing!Release(h)
      PROVE  ShareInv'
  BY <1>3, AcquireInv, BeginInv, ReleaseInv
<1>. QED BY <1>1, <1>2, <1>3 DEF Sharing!Next

(***************************************************************************)
(* _transfer_condition: one installer is sent at a time, however many      *)
(* nodes ask for it and however their transfers end.                       *)
(***************************************************************************)
THEOREM OneAtATime == NetworkSpec => []OneTransfer
<1>1. NetworkInit => ShareInv BY ShareInit DEF NetworkInit
<1>2. ShareInv /\ [NetworkNext]_networkVars => ShareInv' BY ShareNext, OnlyPartsMove
<1>3. ShareInv => OneTransfer
  BY DEF ShareInv, TicketsDiffer, TurnHeld, OneTransfer, Sharing!OneTransfer
<1>. QED BY <1>1, <1>2, <1>3, PTL DEF NetworkSpec

-----------------------------------------------------------------------------
(***************************************************************************)
(* GroupUpdate: who has asked for what a job is about waits for it, and    *)
(* has not been answered; nobody else has asked in vain.                   *)
(***************************************************************************)
RequestersWait ==
  /\ \A r \in UpdateRequest :
       /\ gAsked[r] = None => gTold[r] = <<>>
       /\ Len(gTold[r]) <= 1
  /\ \A k \in UpdateKey : job[k] # None =>
       \A r \in job[k].requesters : gAsked[r] = k /\ gTold[r] = <<>>

GroupInv == Group!TypeOK /\ Group!JobInHand /\ RequestersWait

LEMMA GroupInit == Group!Init => GroupInv
BY NodesDiffer, BoundsAreNumbers DEF Group!Init, GroupInv, Group!TypeOK, Group!JobInHand, RequestersWait,
   Group!Node, Group!Job

(***************************************************************************)
(* An answer is the first one of those who get it.                         *)
(***************************************************************************)
LEMMA TellOnce ==
  ASSUME GroupInv, NEW who \in SUBSET UpdateRequest, NEW what \in {"ready", "failed"},
         \A r \in who : gTold[r] = <<>>,
         Group!Tell(who, what)
  PROVE  /\ gTold' \in [UpdateRequest -> Seq({"ready", "failed"})]
         /\ \A r \in UpdateRequest : r \notin who => gTold'[r] = gTold[r]
         /\ \A r \in UpdateRequest : Len(gTold'[r]) <= 1
BY DEF Group!Tell, GroupInv, Group!TypeOK, RequestersWait

LEMMA OnRequestInv ==
  ASSUME GroupInv, NEW r \in UpdateRequest, NEW k \in UpdateKey, Group!OnRequest(r, k)
  PROVE  GroupInv'
<1>. USE DEF GroupInv, Group!TypeOK
<1>1. gAsked[r] = None /\ gTold[r] = <<>> /\ gAsked' = [gAsked EXCEPT ![r] = k] /\ k # None
  BY NodesDiffer DEF Group!OnRequest, RequestersWait
<1>5. \A q \in UpdateKey : job[q] # None => r \notin job[q].requesters
  BY <1>1, NodesDiffer DEF RequestersWait
<1>6. \A q \in UpdateKey : job[q] # None => job[q].requesters \subseteq UpdateRequest
  BY DEF Group!Job
<1>7. \A q \in UpdateRequest \ {r} : gAsked'[q] = gAsked[q]
  BY <1>1
<1>2. CASE Group!Tell({r}, "ready") /\ UNCHANGED <<job, dispatch, jobs>>
  <2>1. /\ gTold' \in [UpdateRequest -> Seq({"ready", "failed"})]
        /\ \A q \in UpdateRequest : q # r => gTold'[q] = gTold[q]
        /\ \A q \in UpdateRequest : Len(gTold'[q]) <= 1
    <3>1. {r} \in SUBSET UpdateRequest /\ \A q \in {r} : gTold[q] = <<>>
      BY <1>1
    <3>. QED BY <1>2, <3>1, TellOnce
  <2>2. Group!TypeOK' /\ Group!JobInHand'
    BY <1>1, <1>2, <2>1 DEF Group!OnRequest, Group!JobInHand
  <2>3. RequestersWait'
    BY <1>1, <1>2, <1>5, <1>6, <1>7, <2>1 DEF RequestersWait
  <2>. QED BY <2>2, <2>3
<1>3. CASE Group!JoinJob(r, k)
  <2>1. /\ job[k] \in Group!Job
        /\ job' = [job EXCEPT ![k] = [job[k] EXCEPT !.requesters = @ \cup {r}]]
        /\ UNCHANGED <<dispatch, jobs, gTold>>
    BY <1>3 DEF Group!JoinJob
  <2>2. /\ [job[k] EXCEPT !.requesters = @ \cup {r}] \in Group!Job
        /\ [job[k] EXCEPT !.requesters = @ \cup {r}].active = job[k].active
        /\ [job[k] EXCEPT !.requesters = @ \cup {r}].requesters = job[k].requesters \cup {r}
    BY <2>1 DEF Group!Job
  <2>3. Group!TypeOK'
    BY <1>1, <2>1, <2>2 DEF Group!OnRequest
  <2>4. Group!JobInHand'
    BY <1>3, <2>1, <2>2 DEF Group!JobInHand, Group!JoinJob
  <2>5. RequestersWait'
    BY <1>1, <1>3, <1>5, <1>6, <1>7, <2>1, <2>2 DEF RequestersWait, Group!JoinJob
  <2>. QED BY <2>3, <2>4, <2>5
<1>4. CASE Group!NewJob(r, k)
  <2>. DEFINE new == [id |-> jobs + 1, requesters |-> {r}, candidates |-> Group!Candidates,
                      active |-> None]
  <2>1. /\ job' = [job EXCEPT ![k] = new] /\ dispatch' = [dispatch EXCEPT ![k] = @ + 1]
        /\ jobs' = jobs + 1 /\ jobs < MaxJobs /\ UNCHANGED gTold
    BY <1>4 DEF Group!NewJob
  <2>6. jobs' \in 1 .. MaxJobs
    BY <2>1, BoundsAreNumbers
  <2>2. new \in Group!Job /\ new.requesters = {r}
    BY <2>1, <2>6 DEF Group!Job, Group!Candidates
  <2>. HIDE DEF new
  <2>3. Group!TypeOK'
    BY <1>1, <2>1, <2>2, <2>6 DEF Group!OnRequest
  <2>4. Group!JobInHand'
    BY <2>1 DEF Group!JobInHand
  <2>5. RequestersWait'
    BY <1>1, <1>5, <1>6, <1>7, <2>1, <2>2 DEF RequestersWait
  <2>. QED BY <2>3, <2>4, <2>5
<1>. QED BY <1>2, <1>3, <1>4 DEF Group!OnRequest

(***************************************************************************)
(* A job that is let go keeps its requesters, and a thread is about to ask *)
(* the next candidate.                                                     *)
(***************************************************************************)
LEMMA ReleasedInv ==
  ASSUME GroupInv, NEW k \in UpdateKey, job[k] # None
  PROVE  /\ Group!Released(k) \in [UpdateKey -> Group!Job \cup {None}]
         /\ \A q \in UpdateKey : q # k => Group!Released(k)[q] = job[q]
         /\ Group!Released(k)[k].requesters = job[k].requesters
         /\ Group!Released(k)[k].active = None
BY DEF GroupInv, Group!TypeOK, Group!Released, Group!Job

LEMMA ReleaseJobInv ==
  ASSUME GroupInv, NEW k \in UpdateKey, job[k] # None,
         job' = Group!Released(k), dispatch' = [dispatch EXCEPT ![k] = @ + 1],
         UNCHANGED <<gAsked, gTold>>
  PROVE  /\ job' \in [UpdateKey -> Group!Job \cup {None}]
         /\ dispatch' \in [UpdateKey -> Nat]
         /\ Group!JobInHand' /\ RequestersWait'
<1>. USE ReleasedInv
<1>1. job' \in [UpdateKey -> Group!Job \cup {None}] /\ dispatch' \in [UpdateKey -> Nat]
  BY DEF GroupInv, Group!TypeOK
<1>2. Group!JobInHand'
  BY DEF GroupInv, Group!TypeOK, Group!JobInHand
<1>3. RequestersWait'
  BY DEF GroupInv, RequestersWait
<1>. QED BY <1>1, <1>2, <1>3

LEMMA PickInv ==
  ASSUME GroupInv, NEW k \in UpdateKey, Group!DispatchNext(k), Group!PickCandidate(k)
  PROVE  GroupInv'
<1>. USE DEF GroupInv, Group!TypeOK
<1>1. PICK c \in {d \in job[k].candidates : Group!Online(d)} :
        /\ job' = [job EXCEPT ![k].active = c,
                     ![k].candidates = {d \in @ : GroupRank[d] > GroupRank[c]}]
        /\ sending' = sending \cup {[key |-> k, id |-> job[k].id, to |-> c]}
  BY DEF Group!PickCandidate
<1>2. job[k] # None /\ job[k] \in Group!Job /\ UNCHANGED gTold
  BY DEF Group!PickCandidate
<1>3. /\ dispatch' \in [UpdateKey -> Nat] /\ \A q \in UpdateKey \ {k} : dispatch'[q] = dispatch[q]
      /\ UNCHANGED <<link, cache, doing, results, gAsked, jobs, gBreaks>>
  BY DEF Group!DispatchNext
<1>4. c \in Group!Node /\ c # None
  BY <1>2, NodesDiffer DEF Group!Job, Group!Node
<1>5. /\ job'[k] \in Group!Job /\ job'[k].requesters = job[k].requesters /\ job'[k].active = c
      /\ \A q \in UpdateKey \ {k} : job'[q] = job[q]
      /\ DOMAIN job' = UpdateKey
  BY <1>1, <1>2, <1>4 DEF Group!Job
<1>6. job' \in [UpdateKey -> Group!Job \cup {None}]
  <2>1. job' = [q \in UpdateKey |-> job'[q]]
    BY <1>1
  <2>. QED BY <1>5, <2>1
<1>7. Group!TypeOK'
  <2>1. [key |-> k, id |-> job[k].id, to |-> c] \in Group!Command
    BY <1>2, <1>4 DEF Group!Command, Group!Job
  <2>. QED BY <1>1, <1>2, <1>6, <1>3, <2>1
<1>8. Group!JobInHand'
  BY <1>4, <1>5, <1>3 DEF Group!JobInHand
<1>9. RequestersWait'
  BY <1>2, <1>5, <1>3 DEF RequestersWait
<1>. QED BY <1>7, <1>8, <1>9

LEMMA GiveUpInv ==
  ASSUME GroupInv, NEW k \in UpdateKey, Group!DispatchNext(k), Group!GiveUp(k)
  PROVE  GroupInv'
<1>. USE DEF GroupInv, Group!TypeOK
<1>1. /\ job[k] # None /\ job' = [job EXCEPT ![k] = None]
      /\ Group!Tell(job[k].requesters, "failed")
      /\ dispatch' \in [UpdateKey -> Nat] /\ \A q \in UpdateKey \ {k} : dispatch'[q] = dispatch[q]
      /\ UNCHANGED <<link, cache, sending, doing, results, gAsked, jobs, gBreaks>>
  BY DEF Group!GiveUp, Group!DispatchNext
<1>2. job[k].requesters \in SUBSET UpdateRequest
      /\ \A r \in job[k].requesters : gTold[r] = <<>> /\ gAsked[r] = k
  BY <1>1 DEF Group!Job, RequestersWait
<1>3. /\ gTold' \in [UpdateRequest -> Seq({"ready", "failed"})]
      /\ \A r \in UpdateRequest : r \notin job[k].requesters => gTold'[r] = gTold[r]
      /\ \A r \in UpdateRequest : Len(gTold'[r]) <= 1
  BY <1>1, <1>2, TellOnce
<1>4. Group!TypeOK'
  BY <1>1, <1>3
<1>5. Group!JobInHand'
  BY <1>1 DEF Group!JobInHand
<1>6. RequestersWait'
  <2>1. \A r \in UpdateRequest : gAsked'[r] = None => gTold'[r] = <<>>
    BY <1>1, <1>2, <1>3, NodesDiffer DEF RequestersWait
  <2>2. ASSUME NEW q \in UpdateKey, job'[q] # None, NEW r \in job'[q].requesters
        PROVE  gAsked'[r] = q /\ gTold'[r] = <<>>
    <3>1. q # k /\ job'[q] = job[q] /\ r \in UpdateRequest
      BY <1>1, <2>2 DEF Group!Job
    <3>2. gAsked[r] = q /\ gTold[r] = <<>>
      BY <2>2, <3>1 DEF RequestersWait
    <3>. QED BY <1>1, <1>2, <1>3, <3>1, <3>2
  <2>. QED BY <1>3, <2>1, <2>2 DEF RequestersWait
<1>. QED BY <1>4, <1>5, <1>6

LEMMA DispatchNextInv ==
  ASSUME GroupInv, NEW k \in UpdateKey, Group!DispatchNext(k)
  PROVE  GroupInv'
<1>1. CASE job[k] = None /\ UNCHANGED <<job, sending, gTold>>
  BY <1>1 DEF Group!DispatchNext, GroupInv, Group!TypeOK, Group!JobInHand, RequestersWait
<1>. QED BY <1>1, PickInv, GiveUpInv DEF Group!DispatchNext

LEMMA SendCommandInv ==
  ASSUME GroupInv, NEW m \in sending, Group!SendCommand(m)
  PROVE  GroupInv'
<1>. USE DEF GroupInv, Group!TypeOK
<1>1. m.key \in UpdateKey /\ UNCHANGED <<link, cache, results, gAsked, gTold, jobs, gBreaks>>
  BY DEF Group!SendCommand, Group!Command
<1>2. CASE UNCHANGED <<job, dispatch>> /\ doing' = doing \cup {m}
  BY <1>1, <1>2 DEF Group!SendCommand, Group!JobInHand, RequestersWait
<1>3. CASE /\ UNCHANGED <<job, doing>>
           /\ dispatch' = [dispatch EXCEPT ![m.key] = @ + 1]
  <2>1. \A q \in UpdateKey : dispatch[q] > 0 => dispatch'[q] > 0
    BY <1>1, <1>3
  <2>. QED BY <1>1, <1>3, <2>1 DEF Group!SendCommand, Group!JobInHand, RequestersWait
<1>4. CASE /\ job[m.key] # None /\ job' = Group!Released(m.key) /\ UNCHANGED doing
           /\ dispatch' = [dispatch EXCEPT ![m.key] = @ + 1]
  BY <1>1, <1>4, ReleaseJobInv DEF Group!SendCommand
<1>. QED BY <1>2, <1>3, <1>4 DEF Group!SendCommand

LEMMA OnResultInv ==
  ASSUME GroupInv, NEW m \in results, Group!OnResult(m)
  PROVE  GroupInv'
<1>. USE DEF GroupInv, Group!TypeOK
<1>1. /\ m.key \in UpdateKey /\ m.from \in Group!Node /\ results' \subseteq results
      /\ UNCHANGED <<link, sending, doing, gAsked, jobs, gBreaks>>
  BY DEF Group!OnResult, Group!Result
<1>2. CASE UNCHANGED <<job, cache, dispatch, gTold>>
  BY <1>1, <1>2 DEF Group!JobInHand, RequestersWait
<1>3. CASE /\ job[m.key] # None /\ job' = Group!Released(m.key) /\ UNCHANGED <<cache, gTold>>
           /\ dispatch' = [dispatch EXCEPT ![m.key] = @ + 1]
  BY <1>1, <1>3, ReleaseJobInv
<1>4. CASE /\ job[m.key] # None /\ job' = [job EXCEPT ![m.key] = None]
           /\ cache' = [cache EXCEPT ![m.key] = m.from] /\ UNCHANGED dispatch
           /\ Group!Tell(job[m.key].requesters, "ready")
  <2>1. job[m.key].requesters \in SUBSET UpdateRequest
        /\ \A r \in job[m.key].requesters : gTold[r] = <<>> /\ gAsked[r] = m.key
    BY <1>1, <1>4 DEF Group!Job, RequestersWait
  <2>2. /\ gTold' \in [UpdateRequest -> Seq({"ready", "failed"})]
        /\ \A r \in UpdateRequest : r \notin job[m.key].requesters => gTold'[r] = gTold[r]
        /\ \A r \in UpdateRequest : Len(gTold'[r]) <= 1
    BY <1>4, <2>1, TellOnce
  <2>3. Group!TypeOK' /\ Group!JobInHand'
    BY <1>1, <1>4, <2>2 DEF Group!JobInHand
  <2>4. \A r \in UpdateRequest : gAsked'[r] = None => gTold'[r] = <<>>
    BY <1>1, <2>1, <2>2, NodesDiffer DEF RequestersWait
  <2>5. ASSUME NEW q \in UpdateKey, job'[q] # None, NEW r \in job'[q].requesters
        PROVE  gAsked'[r] = q /\ gTold'[r] = <<>>
    <3>1. q # m.key /\ job'[q] = job[q] /\ r \in UpdateRequest
      BY <1>1, <1>4, <2>5 DEF Group!Job
    <3>2. gAsked[r] = q /\ gTold[r] = <<>>
      BY <2>5, <3>1 DEF RequestersWait
    <3>. QED BY <1>1, <2>1, <2>2, <3>1, <3>2
  <2>. QED BY <2>2, <2>3, <2>4, <2>5 DEF RequestersWait
<1>. QED BY <1>2, <1>3, <1>4 DEF Group!OnResult, Group!Expected

LEMMA OnUnboundInv ==
  ASSUME GroupInv, NEW n \in Group!Node, Group!OnUnbound(n)
  PROVE  GroupInv'
<1>. USE DEF GroupInv, Group!TypeOK
<1>. DEFINE left == {k \in UpdateKey : job[k] # None /\ job[k].active = n}
<1>1. /\ link[n] = "closed" /\ link' = [link EXCEPT ![n] = "off"]
      /\ job' = [k \in UpdateKey |-> IF k \in left THEN [job[k] EXCEPT !.active = None] ELSE job[k]]
      /\ dispatch' = [k \in UpdateKey |-> IF k \in left THEN dispatch[k] + 1 ELSE dispatch[k]]
      /\ cache' = [k \in UpdateKey |-> IF k # "check" /\ cache[k] = n THEN None ELSE cache[k]]
      /\ UNCHANGED <<sending, doing, results, gAsked, gTold, jobs, gBreaks>>
  BY DEF Group!OnUnbound
<1>2. \A k \in left : /\ [job[k] EXCEPT !.active = None] \in Group!Job
                      /\ [job[k] EXCEPT !.active = None].requesters = job[k].requesters
  BY DEF Group!Job
<1>3. Group!TypeOK'
  BY <1>1, <1>2
<1>4. Group!JobInHand'
  BY <1>1, <1>2 DEF Group!JobInHand
<1>5. RequestersWait'
  BY <1>1, <1>2 DEF RequestersWait
<1>. QED BY <1>3, <1>4, <1>5

LEMMA GroupNext == GroupInv /\ [Group!Next]_groupVars => GroupInv'
<1>. SUFFICES ASSUME GroupInv, [Group!Next]_groupVars PROVE GroupInv'
  OBVIOUS
<1>. USE DEF GroupInv, Group!TypeOK
<1>1. CASE UNCHANGED groupVars
  BY <1>1 DEF groupVars, Group!JobInHand, RequestersWait
<1>2. ASSUME NEW r \in UpdateRequest, NEW k \in UpdateKey, Group!OnRequest(r, k) PROVE GroupInv'
  BY <1>2, OnRequestInv
<1>3. ASSUME NEW k \in UpdateKey, Group!DispatchNext(k) PROVE GroupInv'
  BY <1>3, DispatchNextInv
<1>4. ASSUME NEW k \in UpdateKey, Group!ExpireOnce(k) PROVE GroupInv'
  BY <1>4, ReleaseJobInv DEF Group!ExpireOnce
<1>5. ASSUME NEW k \in UpdateKey, Group!CacheExpires(k) PROVE GroupInv'
  BY <1>5 DEF Group!CacheExpires, Group!JobInHand, RequestersWait
<1>6. ASSUME NEW m \in sending, Group!SendCommand(m) PROVE GroupInv'
  BY <1>6, SendCommandInv
<1>7. ASSUME NEW m \in doing, Group!Finish(m) PROVE GroupInv'
  BY <1>7 DEF Group!Finish, Group!Command, Group!Result, Group!JobInHand, RequestersWait
<1>8. ASSUME NEW m \in results, Group!OnResult(m) PROVE GroupInv'
  BY <1>8, OnResultInv
<1>9. ASSUME NEW n \in Group!Node, Group!Break(n) \/ Group!Rebind(n) PROVE GroupInv'
  <2>1. UNCHANGED <<job, cache, dispatch, sending, doing, gAsked, gTold, jobs>>
    BY <1>9 DEF Group!Break, Group!Rebind
  <2>2. Group!JobInHand' /\ RequestersWait'
    BY <2>1 DEF Group!JobInHand, RequestersWait
  <2>3. results' \subseteq results /\ gBreaks' \in 0 .. MaxGroupBreaks
    BY <1>9, BoundsAreNumbers DEF Group!Break, Group!Rebind
  <2>4. link' \in [Group!Node -> {"on", "closed", "off"}] /\ link'[n1] = "on"
    BY <1>9 DEF Group!Break, Group!Rebind, Group!Node
  <2>. QED BY <2>1, <2>2, <2>3, <2>4
<1>10. ASSUME NEW n \in Group!Node, Group!OnUnbound(n) PROVE GroupInv'
  BY <1>10, OnUnboundInv
<1>. QED BY <1>1, <1>2, <1>3, <1>4, <1>5, <1>6, <1>7, <1>8, <1>9, <1>10 DEF Group!Next

(***************************************************************************)
(* CoordinatorService, the jobs: whatever requests, results, timeouts and  *)
(* broken connections cross, a job is never left alone and no request is   *)
(* answered twice.                                                         *)
(***************************************************************************)
THEOREM JobsAreTaken == NetworkSpec => []JobsInOrder
<1>1. NetworkInit => GroupInv BY GroupInit DEF NetworkInit
<1>2. GroupInv /\ [NetworkNext]_networkVars => GroupInv' BY GroupNext, OnlyPartsMove
<1>3. GroupInv => JobsInOrder
  BY DEF GroupInv, RequestersWait, JobsInOrder, Group!AnsweredOnce
<1>. QED BY <1>1, <1>2, <1>3, PTL DEF NetworkSpec

-----------------------------------------------------------------------------
(***************************************************************************)
(* Takeover: what a service has told the target last is what it has in its *)
(* table; and when the target has heard all that the coordinator in office *)
(* said, it lets the controller in only if that one has given the lease.   *)
(***************************************************************************)
ToTarget(k) == oDown[k][Tgt]

LastFrameTells ==
  \A k \in Office!Coordinator :
    Office!Connected(Tgt, k) /\ ToTarget(k) # <<>> =>
      (ToTarget(k)[Len(ToTarget(k))] = "held" <=> lease[k])

HeardMeansLeased ==
  \A k \in Office!Coordinator :
    /\ office[Tgt] = k /\ seen[Tgt] = k /\ Tgt \notin missed
    /\ ToTarget(k) = <<>> /\ auth
    => lease[k]

OfficeInv == Office!TypeOK /\ LastFrameTells /\ HeardMeansLeased

LEMMA OfficeInit == Office!Init => OfficeInv
<1>. SUFFICES ASSUME Office!Init PROVE OfficeInv
  OBVIOUS
<1>1. \A k \in Office!Coordinator : ToTarget(k) = <<>>
  BY DEF Office!Init, ToTarget, Office!Node
<1>2. \A k \in Office!Coordinator : oUp[k] = <<>> /\ \A n \in Office!Node : oDown[k][n] = <<>>
  BY DEF Office!Init
<1>3. /\ oUp \in [Office!Coordinator -> Seq(Office!Ask)]
      /\ oDown \in [Office!Coordinator -> [Office!Node -> Seq(Office!Answer)]]
  BY <1>2 DEF Office!Init
<1>4. Office!TypeOK
  <2>1. /\ office \in [Office!Node -> Office!Coordinator]
        /\ seen \in [Office!Node -> Office!Coordinator \cup {None}]
        /\ epoch \in [Office!Node -> Office!Coordinator \cup {None}]
        /\ lease \in [Office!Coordinator -> BOOLEAN]
    BY DEF Office!Init, Office!Coordinator
  <2>2. 0 \in 0 .. MaxChanges
    BY BoundsAreNumbers
  <2>. QED BY <1>3, <2>1, <2>2 DEF Office!Init, Office!TypeOK
<1>. QED BY <1>1, <1>4 DEF Office!Init, OfficeInv, LastFrameTells, HeardMeansLeased

(***************************************************************************)
(* What the service of k sends to the target comes last.                   *)
(***************************************************************************)
LEMMA SendsToTarget ==
  ASSUME Office!TypeOK, NEW k \in Office!Coordinator,
         NEW c \in Seq(Office!Answer), NEW t \in Seq(Office!Answer), Office!Sends(k, c, t)
  PROVE  /\ oDown' \in [Office!Coordinator -> [Office!Node -> Seq(Office!Answer)]]
         /\ \A j \in Office!Coordinator \ {k} : oDown'[j] = oDown[j]
         /\ oDown'[k][Tgt] = IF Office!Connected(Tgt, k) THEN oDown[k][Tgt] \o t ELSE oDown[k][Tgt]
<1>. DEFINE ctlGets == IF Office!Connected(Ctl, k) THEN oDown[k][Ctl] \o c ELSE oDown[k][Ctl]
            tgtGets == IF Office!Connected(Tgt, k) THEN oDown[k][Tgt] \o t ELSE oDown[k][Tgt]
<1>1. oDown[k] \in [Office!Node -> Seq(Office!Answer)] /\ Ctl \in Office!Node /\ Tgt \in Office!Node
  BY DEF Office!TypeOK, Office!Node
<1>2. ctlGets \in Seq(Office!Answer) /\ tgtGets \in Seq(Office!Answer)
  BY <1>1
<1>3. oDown' = [oDown EXCEPT ![k][Ctl] = ctlGets, ![k][Tgt] = tgtGets]
  BY <1>1, NodesDiffer DEF Office!Sends, Office!TypeOK
<1>. HIDE DEF ctlGets, tgtGets
<1>4. oDown'[k] = [oDown[k] EXCEPT ![Ctl] = ctlGets, ![Tgt] = tgtGets]
      /\ oDown' = [oDown EXCEPT ![k] = oDown'[k]]
  BY <1>3 DEF Office!TypeOK
<1>5. oDown'[k] \in [Office!Node -> Seq(Office!Answer)] /\ oDown'[k][Tgt] = tgtGets
  BY <1>1, <1>2, <1>4
<1>6. /\ oDown' \in [Office!Coordinator -> [Office!Node -> Seq(Office!Answer)]]
      /\ \A j \in Office!Coordinator \ {k} : oDown'[j] = oDown[j]
  BY <1>4, <1>5 DEF Office!TypeOK
<1>. QED BY <1>5, <1>6 DEF tgtGets

(***************************************************************************)
(* A service that changes its table, or leaves it, tells the target what   *)
(* has changed, if the target is connected.                                *)
(***************************************************************************)
LEMMA ServiceInv ==
  ASSUME OfficeInv, NEW k \in Office!Coordinator,
         NEW c \in Seq(Office!Answer), NEW t \in {<<>>, <<"held">>, <<"free">>},
         Office!Sends(k, c, t),
         NEW held \in BOOLEAN, lease' = [lease EXCEPT ![k] = held],
         Office!Connected(Tgt, k) =>
           \/ t = <<>> /\ held = lease[k]
           \/ t = <<"held">> /\ held
           \/ t = <<"free">> /\ ~held,
         UNCHANGED <<oLinked, office, seen, auth, missed>>
  PROVE  /\ lease' \in [Office!Coordinator -> BOOLEAN]
         /\ oDown' \in [Office!Coordinator -> [Office!Node -> Seq(Office!Answer)]]
         /\ LastFrameTells' /\ HeardMeansLeased'
<1>1. t \in Seq(Office!Answer)
  <2>1. <<>> \in Seq(Office!Answer) /\ "held" \in Office!Answer /\ "free" \in Office!Answer
    BY DEF Office!Answer
  <2>2. \A f \in Office!Answer : <<f>> \in Seq(Office!Answer)
    OBVIOUS
  <2>. QED BY <2>1, <2>2
<1>2. /\ oDown' \in [Office!Coordinator -> [Office!Node -> Seq(Office!Answer)]]
      /\ \A j \in Office!Coordinator \ {k} : oDown'[j] = oDown[j]
      /\ oDown'[k][Tgt] = IF Office!Connected(Tgt, k) THEN oDown[k][Tgt] \o t ELSE oDown[k][Tgt]
  BY <1>1, SendsToTarget DEF OfficeInv
<1>3. /\ lease' \in [Office!Coordinator -> BOOLEAN] /\ lease'[k] = held
      /\ \A j \in Office!Coordinator \ {k} : lease'[j] = lease[j]
  BY DEF OfficeInv, Office!TypeOK
<1>4. \A j \in Office!Coordinator : Office!Connected(Tgt, j)' <=> Office!Connected(Tgt, j)
  BY DEF Office!Connected
<1>5. ToTarget(k) \in Seq(Office!Answer)
  BY DEF OfficeInv, Office!TypeOK, ToTarget, Office!Node
<1>6. CASE ~Office!Connected(Tgt, k)
  <2>1. office[Tgt] # k
    BY <1>6 DEF OfficeInv, Office!TypeOK, Office!Connected, Office!Coordinator, Office!Node
  <2>. QED BY <1>2, <1>3, <1>4, <1>6, <2>1 DEF OfficeInv, LastFrameTells, HeardMeansLeased, ToTarget
<1>7. CASE Office!Connected(Tgt, k) /\ t = <<>> /\ held = lease[k]
  <2>1. ToTarget(k)' = ToTarget(k)
    BY <1>2, <1>5, <1>7 DEF ToTarget
  <2>2. \A j \in Office!Coordinator : ToTarget(j)' = ToTarget(j) /\ lease'[j] = lease[j]
    BY <1>2, <1>3, <1>7, <2>1 DEF ToTarget
  <2>. QED BY <1>2, <1>3, <1>4, <2>2 DEF OfficeInv, LastFrameTells, HeardMeansLeased
<1>8. CASE /\ Office!Connected(Tgt, k)
           /\ \/ t = <<"held">> /\ held
              \/ t = <<"free">> /\ ~held
  <2>1. /\ ToTarget(k)' # <<>>
        /\ ToTarget(k)'[Len(ToTarget(k)')] = "held" <=> lease'[k]
    <3>1. PICK f \in {"held", "free"} : t = <<f>> /\ (f = "held" <=> held)
      BY <1>8
    <3>2. ToTarget(k)' = Append(ToTarget(k), f)
      BY <1>2, <1>5, <1>8, <3>1 DEF ToTarget, Office!Answer
    <3>. QED BY <1>3, <1>5, <3>1, <3>2 DEF Office!Answer
  <2>2. \A j \in Office!Coordinator \ {k} : ToTarget(j)' = ToTarget(j)
    BY <1>2 DEF ToTarget
  <2>. QED BY <1>2, <1>3, <1>4, <2>1, <2>2 DEF OfficeInv, LastFrameTells, HeardMeansLeased
<1>. QED BY <1>6, <1>7, <1>8, <1>2, <1>3

LEMMA ServeInv ==
  ASSUME OfficeInv, NEW k \in Office!Coordinator, Office!Serve(k)
  PROVE  OfficeInv'
<1>1. /\ oUp' \in [Office!Coordinator -> Seq(Office!Ask)]
      /\ UNCHANGED <<oLinked, office, seen, epoch, state, auth, missed, changes>>
  BY DEF Office!Serve, OfficeInv, Office!TypeOK
<1>2. lease[k] \in BOOLEAN /\ lease = [lease EXCEPT ![k] = lease[k]]
  BY DEF OfficeInv, Office!TypeOK
<1>3. <<>> \in Seq(Office!Answer) /\ <<"grant">> \in Seq(Office!Answer) /\ <<"deny">> \in Seq(Office!Answer)
  <2>1. "grant" \in Office!Answer /\ "deny" \in Office!Answer
    BY DEF Office!Answer
  <2>. QED BY <2>1
<1>4. /\ lease' \in [Office!Coordinator -> BOOLEAN]
      /\ oDown' \in [Office!Coordinator -> [Office!Node -> Seq(Office!Answer)]]
      /\ LastFrameTells' /\ HeardMeansLeased'
  <2>1. CASE Office!OnClaim(k)
    BY <1>1, <1>2, <1>3, <2>1, ServiceInv DEF Office!OnClaim
  <2>2. CASE Office!OnRelease(k)
    BY <1>1, <1>2, <1>3, <2>2, ServiceInv DEF Office!OnRelease
  <2>3. CASE Office!OnHeartbeat(k)
    BY <1>1, <1>2, <1>3, <2>3, ServiceInv DEF Office!OnHeartbeat
  <2>. QED BY <2>1, <2>2, <2>3 DEF Office!Serve
<1>. QED BY <1>1, <1>4 DEF OfficeInv, Office!TypeOK

LEMMA LeaseExpiresInv ==
  ASSUME OfficeInv, NEW k \in Office!Coordinator, Office!LeaseExpires(k)
  PROVE  OfficeInv'
<1>1. UNCHANGED <<oLinked, office, seen, epoch, state, auth, oUp, missed, changes>>
  BY DEF Office!LeaseExpires
<1>2. /\ lease' \in [Office!Coordinator -> BOOLEAN]
      /\ oDown' \in [Office!Coordinator -> [Office!Node -> Seq(Office!Answer)]]
      /\ LastFrameTells' /\ HeardMeansLeased'
  <2>1. <<>> \in Seq(Office!Answer)
    OBVIOUS
  <2>. QED BY <1>1, <2>1, ServiceInv DEF Office!LeaseExpires
<1>. QED BY <1>1, <1>2 DEF OfficeInv, Office!TypeOK

(***************************************************************************)
(* The client of a node takes a frame.  The target's last frame tells what *)
(* the table says.                                                         *)
(***************************************************************************)
LEMMA FrameTaken ==
  ASSUME Office!TypeOK, NEW k \in Office!Coordinator, NEW n \in Office!Node,
         oDown[k][n] # <<>>, oDown' = [oDown EXCEPT ![k][n] = Tail(@)]
  PROVE  /\ oDown' \in [Office!Coordinator -> [Office!Node -> Seq(Office!Answer)]]
         /\ oDown'[k][n] = Tail(oDown[k][n])
         /\ \A j \in Office!Coordinator, m \in Office!Node :
              j # k \/ m # n => oDown'[j][m] = oDown[j][m]
<1>1. oDown[k] \in [Office!Node -> Seq(Office!Answer)] /\ Tail(oDown[k][n]) \in Seq(Office!Answer)
  BY DEF Office!TypeOK
<1>2. oDown' = [oDown EXCEPT ![k] = [oDown[k] EXCEPT ![n] = Tail(oDown[k][n])]]
  BY <1>1 DEF Office!TypeOK
<1>. QED BY <1>1, <1>2 DEF Office!TypeOK

LEMMA LastOfTail ==
  ASSUME NEW S, NEW s \in Seq(S), s # <<>>
  PROVE  /\ Tail(s) # <<>> => Tail(s)[Len(Tail(s))] = s[Len(s)]
         /\ Tail(s) = <<>> => Head(s) = s[Len(s)]
<1>1. /\ Len(s) \in Nat \ {0} /\ Len(Tail(s)) = Len(s) - 1
      /\ \A i \in 1 .. Len(Tail(s)) : Tail(s)[i] = s[i + 1]
      /\ Tail(s) # <<>> => Len(Tail(s)) \in Nat \ {0}
  BY HeadTailProperties, EmptySeq
<1>2. Tail(s) # <<>> => Tail(s)[Len(Tail(s))] = s[Len(s)]
  BY <1>1
<1>3. ASSUME Tail(s) = <<>> PROVE Len(s) = 1
  <2>1. Len(<<>>) = 0
    BY EmptySeq
  <2>2. Len(Tail(s)) = 0
    BY <1>3, <2>1, Zenon
  <2>. DEFINE n == Len(s)
              t == Len(Tail(s))
  <2>3. n \in Nat /\ t = n - 1 /\ t = 0
    BY <1>1, <2>2
  <2>. HIDE DEF n, t
  <2>4. n = 1
    BY <2>3
  <2>. QED BY <2>4 DEF n
<1>. QED BY <1>1, <1>2, <1>3

LEMMA CtlReceivesInv ==
  ASSUME OfficeInv, NEW k \in Office!Coordinator, Office!CtlReceives(k)
  PROVE  OfficeInv'
<1>1. /\ UNCHANGED <<oLinked, office, seen, auth, lease, oUp, missed, changes>>
      /\ state' \in {"inactive", "pending", "active"}
      /\ epoch' \in [Office!Node -> Office!Coordinator \cup {None}]
  BY DEF Office!CtlReceives, OfficeInv, Office!TypeOK
<1>2. /\ oDown' \in [Office!Coordinator -> [Office!Node -> Seq(Office!Answer)]]
      /\ \A j \in Office!Coordinator : ToTarget(j)' = ToTarget(j)
  <2>1. Ctl \in Office!Node /\ Tgt \in Office!Node
    BY DEF Office!Node
  <2>2. oDown[k][Ctl] # <<>> /\ oDown' = [oDown EXCEPT ![k][Ctl] = Tail(@)]
    BY DEF Office!CtlReceives
  <2>3. /\ oDown' \in [Office!Coordinator -> [Office!Node -> Seq(Office!Answer)]]
        /\ \A j \in Office!Coordinator, m \in Office!Node :
             j # k \/ m # Ctl => oDown'[j][m] = oDown[j][m]
    BY <2>1, <2>2, FrameTaken DEF OfficeInv
  <2>. QED BY <2>1, <2>3, NodesDiffer DEF ToTarget
<1>3. LastFrameTells' /\ HeardMeansLeased'
  BY <1>1, <1>2 DEF OfficeInv, LastFrameTells, HeardMeansLeased, Office!Connected
<1>. QED BY <1>1, <1>2, <1>3 DEF OfficeInv, Office!TypeOK

LEMMA TgtReceivesInv ==
  ASSUME OfficeInv, NEW k \in Office!Coordinator, Office!TgtReceives(k)
  PROVE  OfficeInv'
<1>1. /\ UNCHANGED <<oLinked, office, seen, state, lease, oUp, missed, changes>>
      /\ epoch' \in [Office!Node -> Office!Coordinator \cup {None}]
      /\ auth' \in BOOLEAN
      /\ auth' = IF office[Tgt] = k THEN Head(ToTarget(k)) = "held" ELSE auth
  BY DEF Office!TgtReceives, Office!Accepts, OfficeInv, Office!TypeOK, ToTarget
<1>2. /\ oDown' \in [Office!Coordinator -> [Office!Node -> Seq(Office!Answer)]]
      /\ ToTarget(k)' = Tail(ToTarget(k))
      /\ \A j \in Office!Coordinator : j # k => ToTarget(j)' = ToTarget(j)
  <2>1. Tgt \in Office!Node
    BY DEF Office!Node
  <2>. QED BY <2>1, FrameTaken DEF Office!TgtReceives, OfficeInv, ToTarget
<1>3. ToTarget(k) \in Seq(Office!Answer) /\ ToTarget(k) # <<>>
  BY DEF Office!TgtReceives, OfficeInv, Office!TypeOK, ToTarget, Office!Node
<1>4. /\ ToTarget(k)' # <<>> => ToTarget(k)'[Len(ToTarget(k)')] = ToTarget(k)[Len(ToTarget(k))]
      /\ ToTarget(k)' = <<>> => Head(ToTarget(k)) = ToTarget(k)[Len(ToTarget(k))]
  BY <1>2, <1>3, LastOfTail
<1>5. LastFrameTells'
  BY <1>1, <1>2, <1>3, <1>4 DEF OfficeInv, LastFrameTells, Office!Connected
<1>6. HeardMeansLeased'
  <2>1. SUFFICES ASSUME NEW j \in Office!Coordinator, office[Tgt] = j, seen[Tgt] = j,
                        Tgt \notin missed, ToTarget(j)' = <<>>, auth'
                 PROVE  lease[j]
    BY <1>1 DEF HeardMeansLeased
  <2>2. Office!Connected(Tgt, j)
    BY <2>1 DEF OfficeInv, Office!TypeOK, Office!Connected, Office!Coordinator, Office!Node
  <2>3. CASE j = k
    BY <1>1, <1>3, <1>4, <2>1, <2>2, <2>3 DEF OfficeInv, LastFrameTells
  <2>4. CASE j # k
    BY <1>1, <1>2, <2>1, <2>4 DEF OfficeInv, HeardMeansLeased
  <2>. QED BY <2>3, <2>4
<1>. QED BY <1>1, <1>2, <1>5, <1>6 DEF OfficeInv, Office!TypeOK

-----------------------------------------------------------------------------
LEMMA AsksForTypes ==
  ASSUME Office!TypeOK, NEW frames \in Seq(Office!Ask), Office!AsksFor(frames)
  PROVE  oUp' \in [Office!Coordinator -> Seq(Office!Ask)]
BY DEF Office!AsksFor, Office!TypeOK, Office!Node

LEMMA WishIsAsked == Office!Wish \in Seq(Office!Ask) /\ Office!Wish \o Office!Wish \in Seq(Office!Ask)
<1>1. "claim" \in Office!Ask /\ "heartbeat" \in Office!Ask /\ "release" \in Office!Ask
  BY DEF Office!Ask
<1>2. Office!Wish \in Seq(Office!Ask)
  BY <1>1 DEF Office!Wish
<1>. QED BY <1>2

(***************************************************************************)
(* What only the controller does leaves the target alone.                  *)
(***************************************************************************)
LEMMA ControllerInv ==
  ASSUME OfficeInv, Office!RequestTarget \/ Office!ClearTarget \/ Office!ControlTick
  PROVE  OfficeInv'
<1>1. UNCHANGED <<oLinked, office, seen, epoch, auth, lease, oDown, missed>>
  BY DEF Office!RequestTarget, Office!ClearTarget, Office!ControlTick
<1>2. state' \in {"inactive", "pending", "active"} /\ changes' \in 0 .. MaxChanges
  BY BoundsAreNumbers DEF OfficeInv, Office!TypeOK, Office!Changes,
     Office!RequestTarget, Office!ClearTarget, Office!ControlTick
<1>3. oUp' \in [Office!Coordinator -> Seq(Office!Ask)]
  <2>1. <<"claim">> \in Seq(Office!Ask) /\ <<"release">> \in Seq(Office!Ask)
    BY DEF Office!Ask
  <2>. QED BY <2>1, AsksForTypes, WishIsAsked DEF OfficeInv,
           Office!RequestTarget, Office!ClearTarget, Office!ControlTick
<1>4. LastFrameTells' /\ HeardMeansLeased'
  BY <1>1 DEF OfficeInv, LastFrameTells, HeardMeansLeased, ToTarget, Office!Connected
<1>. QED BY <1>1, <1>2, <1>3, <1>4 DEF OfficeInv, Office!TypeOK

(***************************************************************************)
(* A target that notices a change of coordinator lets nobody in.           *)
(***************************************************************************)
LEMMA ChangedInv ==
  ASSUME OfficeInv, NEW n \in Office!Node, Office!OnCoordinatorChanged(n)
  PROVE  OfficeInv'
<1>1. /\ UNCHANGED <<oLinked, office, state, lease, oDown, missed, changes>>
      /\ seen' = [seen EXCEPT ![n] = office[n]] /\ epoch' = [epoch EXCEPT ![n] = None]
  BY DEF Office!OnCoordinatorChanged
<1>2. seen' \in [Office!Node -> Office!Coordinator \cup {None}]
      /\ epoch' \in [Office!Node -> Office!Coordinator \cup {None}]
  BY <1>1 DEF OfficeInv, Office!TypeOK
<1>3. oUp' \in [Office!Coordinator -> Seq(Office!Ask)] /\ auth' \in BOOLEAN
  <2>1. CASE n = Ctl
    <3>1. Office!Wish \o <<>> \in Seq(Office!Ask)
      BY WishIsAsked
    <3>. QED BY <2>1, <3>1, AsksForTypes, WishIsAsked DEF Office!OnCoordinatorChanged, OfficeInv, Office!TypeOK
  <2>2. CASE n # Ctl
    BY <2>2 DEF Office!OnCoordinatorChanged, OfficeInv, Office!TypeOK
  <2>. QED BY <2>1, <2>2
<1>4. IF n = Tgt THEN auth' = FALSE ELSE auth' = auth /\ seen'[Tgt] = seen[Tgt]
  BY <1>1, NodesDiffer DEF Office!OnCoordinatorChanged, Office!Node, OfficeInv, Office!TypeOK
<1>5. LastFrameTells' /\ HeardMeansLeased'
  BY <1>1, <1>4 DEF OfficeInv, LastFrameTells, HeardMeansLeased, ToTarget, Office!Connected
<1>. QED BY <1>1, <1>2, <1>3, <1>5 DEF OfficeInv, Office!TypeOK

(***************************************************************************)
(* Who loses the connection to First has Second in office; its client has  *)
(* missed a change if it had not noticed First.                            *)
(***************************************************************************)
LEMMA BreakTypes ==
  ASSUME OfficeInv, NEW n \in Office!Node, Office!Break(n)
  PROVE  Office!TypeOK'
<1>. USE DEF OfficeInv, Office!TypeOK
<1>1. /\ oLinked' = oLinked \ {n} /\ office' = [office EXCEPT ![n] = n2]
      /\ UNCHANGED <<seen, epoch, state, auth>>
      /\ changes' \in 0 .. MaxChanges /\ missed' \subseteq Office!Node
  BY BoundsAreNumbers DEF Office!Break, Office!Changes
<1>2. office' \in [Office!Node -> Office!Coordinator]
      /\ \A m \in Office!Node \ oLinked' : office'[m] = n2
  BY <1>1 DEF Office!Coordinator
<1>3. /\ oUp' \in [Office!Coordinator -> Seq(Office!Ask)]
      /\ lease' \in [Office!Coordinator -> BOOLEAN]
  <2>1. /\ oUp' = IF n = Ctl THEN [oUp EXCEPT ![n1] = <<>>] ELSE oUp
        /\ lease' = IF n = Tgt THEN [lease EXCEPT ![n1] = FALSE] ELSE lease
    BY DEF Office!Break
  <2>2. [oUp EXCEPT ![n1] = <<>>] \in [Office!Coordinator -> Seq(Office!Ask)]
    <3>1. <<>> \in Seq(Office!Ask) /\ oUp \in [Office!Coordinator -> Seq(Office!Ask)]
      BY EmptySeq
    <3>. QED BY <3>1, Zenon
  <2>3. [lease EXCEPT ![n1] = FALSE] \in [Office!Coordinator -> BOOLEAN]
    OBVIOUS
  <2>. QED BY <2>1, <2>2, <2>3
<1>4. oDown' \in [Office!Coordinator -> [Office!Node -> Seq(Office!Answer)]]
  <2>. DEFINE lost == [m \in Office!Node |-> IF m = n THEN <<>>
                       ELSE IF m = Ctl /\ lease[n1] /\ Ctl \in oLinked
                       THEN Append(oDown[n1][m], "deny") ELSE oDown[n1][m]]
  <2>1. n1 \in Office!Coordinator /\ "deny" \in Office!Answer
    BY DEF Office!Coordinator, Office!Answer
  <2>2. lost \in [Office!Node -> Seq(Office!Answer)]
    BY <2>1
  <2>3. oDown' = [oDown EXCEPT ![n1] = lost]
    BY <2>1 DEF Office!Break
  <2>. HIDE DEF lost
  <2>. QED BY <2>2, <2>3
<1>. QED BY <1>1, <1>2, <1>3, <1>4

LEMMA BreakInv ==
  ASSUME OfficeInv, NEW n \in Office!Node, Office!Break(n)
  PROVE  OfficeInv'
<1>. USE DEF OfficeInv, Office!TypeOK
<1>1. /\ oLinked' = oLinked \ {n} /\ office' = [office EXCEPT ![n] = n2]
      /\ UNCHANGED <<seen, auth>> /\ missed \subseteq missed'
      /\ office[n] = n1 /\ seen[n] = n2 => n \in missed'
      /\ lease' = IF n = Tgt THEN [lease EXCEPT ![n1] = FALSE] ELSE lease
  BY DEF Office!Break
<1>2. /\ ToTarget(n2)' = ToTarget(n2)
      /\ n # Tgt => ToTarget(n1)' = ToTarget(n1)
  BY NodesDiffer DEF Office!Break, ToTarget, Office!Coordinator, Office!Node
<1>3. LastFrameTells'
  BY <1>1, <1>2, NodesDiffer DEF LastFrameTells, Office!Connected, Office!Coordinator
<1>4. HeardMeansLeased'
  <2>1. CASE n = Tgt
    BY <1>1, <1>2, <2>1, NodesDiffer DEF HeardMeansLeased, Office!Coordinator
  <2>2. CASE n # Tgt
    BY <1>1, <1>2, <2>2, NodesDiffer DEF HeardMeansLeased, Office!Coordinator, Office!Node
  <2>. QED BY <2>1, <2>2
<1>. QED BY <1>3, <1>4, BreakTypes

(***************************************************************************)
(* First tells a target that is back what is in its table.                 *)
(***************************************************************************)
LEMMA RebindInv ==
  ASSUME OfficeInv, NEW n \in Office!Node, Office!Rebind(n)
  PROVE  OfficeInv'
<1>. USE DEF OfficeInv, Office!TypeOK
<1>. DEFINE first == IF n = Tgt THEN <<IF lease[n1] THEN "held" ELSE "free">> ELSE <<>>
<1>1. /\ n \notin oLinked /\ oLinked' = oLinked \cup {n}
      /\ UNCHANGED <<office, seen, epoch, state, auth, lease, oUp, missed, changes>>
  BY DEF Office!Rebind
<1>2. /\ oDown' \in [Office!Coordinator -> [Office!Node -> Seq(Office!Answer)]]
      /\ oDown'[n1][n] = first
      /\ \A j \in Office!Coordinator, m \in Office!Node :
           j # n1 \/ m # n => oDown'[j][m] = oDown[j][m]
  <2>1. first \in Seq(Office!Answer)
    <3>1. "held" \in Office!Answer /\ "free" \in Office!Answer
      BY DEF Office!Answer
    <3>. QED BY <3>1
  <2>2. oDown' = [oDown EXCEPT ![n1][n] = first] /\ n1 \in Office!Coordinator
    BY DEF Office!Rebind, Office!Coordinator
  <2>. HIDE DEF first
  <2>3. oDown[n1] \in [Office!Node -> Seq(Office!Answer)]
    BY <2>2
  <2>4. oDown' = [oDown EXCEPT ![n1] = [oDown[n1] EXCEPT ![n] = first]]
    BY <2>2, <2>3
  <2>. QED BY <2>1, <2>2, <2>3, <2>4
<1>3. /\ ToTarget(n2)' = ToTarget(n2)
      /\ ToTarget(n1)' = IF n = Tgt THEN <<IF lease[n1] THEN "held" ELSE "free">> ELSE ToTarget(n1)
  BY <1>2, NodesDiffer DEF ToTarget, Office!Coordinator, Office!Node
<1>4. LastFrameTells'
  BY <1>1, <1>3, NodesDiffer DEF LastFrameTells, Office!Connected, Office!Coordinator
<1>5. HeardMeansLeased'
  BY <1>1, <1>3, NodesDiffer DEF HeardMeansLeased, Office!Coordinator, Office!Node
<1>. QED BY <1>1, <1>2, <1>4, <1>5

LEMMA HandOverInv ==
  ASSUME OfficeInv, NEW n \in Office!Node, Office!HandOver(n)
  PROVE  OfficeInv'
<1>1. /\ office' = [office EXCEPT ![n] = n1] /\ seen[n] = n2 /\ n \in oLinked
      /\ UNCHANGED <<oLinked, seen, epoch, state, auth, lease, oUp, oDown, missed, changes>>
  BY DEF Office!HandOver
<1>2. LastFrameTells' /\ HeardMeansLeased'
  BY <1>1, NodesDiffer DEF OfficeInv, Office!TypeOK, LastFrameTells, HeardMeansLeased, ToTarget,
     Office!Connected, Office!Node
<1>. QED BY <1>1, <1>2 DEF OfficeInv, Office!TypeOK, Office!Coordinator

LEMMA OfficeNext == OfficeInv /\ [Office!Next]_officeVars => OfficeInv'
<1>. SUFFICES ASSUME OfficeInv, [Office!Next]_officeVars PROVE OfficeInv'
  OBVIOUS
<1>1. CASE UNCHANGED officeVars
  BY <1>1 DEF officeVars, OfficeInv, Office!TypeOK, LastFrameTells, HeardMeansLeased, ToTarget,
     Office!Connected
<1>2. CASE Office!RequestTarget \/ Office!ClearTarget \/ Office!ControlTick
  BY <1>2, ControllerInv
<1>3. ASSUME NEW k \in Office!Coordinator,
             \/ Office!Serve(k) \/ Office!LeaseExpires(k)
             \/ Office!CtlReceives(k) \/ Office!TgtReceives(k)
      PROVE  OfficeInv'
  BY <1>3, ServeInv, LeaseExpiresInv, CtlReceivesInv, TgtReceivesInv
<1>4. ASSUME NEW n \in Office!Node,
             \/ Office!OnCoordinatorChanged(n) \/ Office!Break(n)
             \/ Office!Rebind(n) \/ Office!HandOver(n)
      PROVE  OfficeInv'
  BY <1>4, ChangedInv, BreakInv, RebindInv, HandOverInv
<1>. QED BY <1>1, <1>2, <1>3, <1>4 DEF Office!Next

(***************************************************************************)
(* CoordinatorClient._on_lease_update, _on_coordinator_changed: whoever    *)
(* was in office and in whatever order frames and changes are noticed, a   *)
(* controller that is let in has a lease of the coordinator in office.     *)
(***************************************************************************)
THEOREM OnlyLeaseholdersEnter == NetworkSpec => []LetInByOffice
<1>1. NetworkInit => OfficeInv BY OfficeInit DEF NetworkInit
<1>2. OfficeInv /\ [NetworkNext]_networkVars => OfficeInv' BY OfficeNext, OnlyPartsMove
<1>3. OfficeInv => LetInByOffice
  BY DEF OfficeInv, Office!TypeOK, HeardMeansLeased, ToTarget, LetInByOffice, Office!LetInByOffice,
     Office!Quiet, Office!Node
<1>. QED BY <1>1, <1>2, <1>3, PTL DEF NetworkSpec

-----------------------------------------------------------------------------
(***************************************************************************)
(* LayoutEdit: whoever is connected has the latest revision, or it is on   *)
(* its way, in a thread that is about to send it or in the connection; and *)
(* no later one is.                                                        *)
(***************************************************************************)
AnyFrame == [kind : {"grant"}] \cup [kind : {"deny", "state"}, who : Editing!Who]
            \cup [kind : {"update"}, rev : Nat, what : Nat, who : Editing!Who]
AnyStep  == [do : {"state", "unbound"}] \cup [do : {"send"}, to : SUBSET Editing!Node, frame : AnyFrame]
            \cup [do : {"number"}, what : Nat, who : Editing!Who]
AnyAsk   == [kind : {"begin", "end"}] \cup [kind : {"publish", "toggle"}, what : Nat]

EditTypes ==
  /\ editor \in Editing!Who /\ revision \in Nat
  /\ steps \in [Editing!Thread -> Seq(AnyStep)]
  /\ rev \in [Editing!Node -> Nat] /\ layout \in [Editing!Node -> Nat] /\ layouts \in Nat
  /\ eUp \in [EditPeer -> Seq(AnyAsk)] /\ eDown \in [EditPeer -> Seq(AnyFrame)]
  /\ eLinked \subseteq EditPeer

\* the layouts among what a thread has to do, and among frames
ToPublish(s) == {x \in Range(s) : x.do = "send" /\ x.frame.kind = "update"}
Updates(s)   == {f \in Range(s) : f.kind = "update"}

OnItsWay(n) ==
  \/ \E t \in Editing!Thread : \E x \in ToPublish(steps[t]) : n \in x.to /\ x.frame.rev = revision
  \/ n \in EditPeer /\ \E f \in Updates(eDown[n]) : f.rev = revision

NoneAhead ==
  /\ \A n \in Editing!Node : rev[n] <= revision
  /\ \A t \in Editing!Thread : \A x \in ToPublish(steps[t]) : x.frame.rev <= revision
  /\ \A p \in EditPeer : \A f \in Updates(eDown[p]) : f.rev <= revision

Informed == \A n \in eLinked \cup {n1} : rev[n] = revision \/ OnItsWay(n)

EditInv == EditTypes /\ NoneAhead /\ Informed

LEMMA EmptyRange == Range(<<>>) = {}
BY DEF Range

LEMMA RangeOfTail ==
  ASSUME NEW S, NEW s \in Seq(S), s # <<>>
  PROVE  Range(s) = {Head(s)} \cup Range(Tail(s)) /\ Tail(s) \in Seq(S) /\ Head(s) \in S
<1>1. /\ Len(s) \in Nat \ {0} /\ Len(Tail(s)) = Len(s) - 1 /\ Tail(s) \in Seq(S) /\ Head(s) \in S
      /\ \A i \in 1 .. Len(Tail(s)) : Tail(s)[i] = s[i + 1]
  BY HeadTailProperties, EmptySeq
<1>2. DOMAIN s = 1 .. Len(s) /\ DOMAIN Tail(s) = 1 .. Len(Tail(s)) /\ Head(s) = s[1]
  BY <1>1
<1>3. ASSUME NEW x \in Range(s) PROVE x \in {Head(s)} \cup Range(Tail(s))
  <2>1. PICK i \in 1 .. Len(s) : x = s[i]
    BY <1>2 DEF Range
  <2>2. CASE i = 1
    BY <1>2, <2>1, <2>2
  <2>3. CASE i # 1
    <3>1. i - 1 \in 1 .. Len(Tail(s)) /\ Tail(s)[i - 1] = s[i]
      BY <1>1, <2>1, <2>3
    <3>. QED BY <1>2, <2>1, <3>1 DEF Range
  <2>. QED BY <2>2, <2>3
<1>4. ASSUME NEW x \in Range(Tail(s)) PROVE x \in Range(s)
  <2>1. PICK i \in 1 .. Len(Tail(s)) : x = Tail(s)[i]
    BY <1>2 DEF Range
  <2>2. i + 1 \in 1 .. Len(s) /\ x = s[i + 1]
    BY <1>1, <2>1
  <2>. QED BY <1>2, <2>2 DEF Range
<1>5. Head(s) \in Range(s)
  BY <1>1, <1>2 DEF Range
<1>. QED BY <1>1, <1>3, <1>4, <1>5

LEMMA RangeOfAppend ==
  ASSUME NEW S, NEW s \in Seq(S), NEW x \in S
  PROVE  Range(Append(s, x)) = Range(s) \cup {x} /\ Append(s, x) \in Seq(S)
<1>1. Append(s, x) \in Seq(S) /\ Append(s, x) = s \o <<x>> /\ <<x>> \in Seq(S)
  BY AppendIsConcat
<1>2. Range(<<x>>) = {x}
  BY DEF Range
<1>3. Range(s \o <<x>>) = Range(s) \cup Range(<<x>>)
  BY <1>1, RangeConcatenation
<1>. QED BY <1>1, <1>2, <1>3, Zenon

LEMMA RangeOfPair ==
  ASSUME NEW a, NEW b PROVE Range(<<a>>) = {a} /\ Range(<<a, b>>) = {a, b}
BY DEF Range

(***************************************************************************)
(* The layouts among what is added to, or taken from, a sequence.          *)
(***************************************************************************)
LEMMA NothingToPublish == ToPublish(<<>>) = {} /\ Updates(<<>>) = {}
BY EmptyRange DEF ToPublish, Updates

LEMMA PublishedNext ==
  ASSUME NEW s \in Seq(AnyStep), s # <<>>
  PROVE  /\ Tail(s) \in Seq(AnyStep) /\ Head(s) \in AnyStep
         /\ ToPublish(s) = ToPublish(Tail(s)) \cup
              {x \in {Head(s)} : x.do = "send" /\ x.frame.kind = "update"}
BY RangeOfTail DEF ToPublish

LEMMA UpdateTaken ==
  ASSUME NEW s \in Seq(AnyFrame), s # <<>>
  PROVE  /\ Tail(s) \in Seq(AnyFrame) /\ Head(s) \in AnyFrame
         /\ Updates(s) = Updates(Tail(s)) \cup {f \in {Head(s)} : f.kind = "update"}
BY RangeOfTail DEF Updates

LEMMA PublishedAfter ==
  ASSUME NEW s \in Seq(AnyStep), NEW r \in Seq(AnyStep)
  PROVE  s \o r \in Seq(AnyStep) /\ ToPublish(s \o r) = ToPublish(s) \cup ToPublish(r)
BY RangeConcatenation, ConcatProperties DEF ToPublish

LEMMA UpdateSent ==
  ASSUME NEW s \in Seq(AnyFrame), NEW f \in AnyFrame
  PROVE  /\ Append(s, f) \in Seq(AnyFrame)
         /\ Updates(Append(s, f)) = Updates(s) \cup {g \in {f} : g.kind = "update"}
BY RangeOfAppend DEF Updates

LEMMA PublishedTypes ==
  ASSUME EditTypes
  PROVE  /\ \A t \in Editing!Thread : \A x \in ToPublish(steps[t]) :
              x.to \subseteq Editing!Node /\ x.frame \in AnyFrame /\ x.frame.rev \in Nat
         /\ \A p \in EditPeer : \A f \in Updates(eDown[p]) : f \in AnyFrame /\ f.rev \in Nat
<1>1. ASSUME NEW f \in AnyFrame, f.kind = "update" PROVE f.rev \in Nat
  BY <1>1 DEF AnyFrame
<1>2. ASSUME NEW x \in AnyStep, x.do = "send" PROVE x.to \subseteq Editing!Node /\ x.frame \in AnyFrame
  BY <1>2 DEF AnyStep
<1>3. \A t \in Editing!Thread : Range(steps[t]) \subseteq AnyStep
  BY RangeOfSeq DEF EditTypes
<1>4. \A p \in EditPeer : Range(eDown[p]) \subseteq AnyFrame
  BY RangeOfSeq DEF EditTypes
<1>. QED BY <1>1, <1>2, <1>3, <1>4 DEF ToPublish, Updates

(***************************************************************************)
(* Whoever is informed stays so while no layout is published, sent or      *)
(* received, and nobody joins.                                             *)
(***************************************************************************)
LEMMA StaysInformed ==
  ASSUME EditInv, UNCHANGED <<revision, rev>>, eLinked' \subseteq eLinked,
         \A t \in Editing!Thread : ToPublish(steps'[t]) = ToPublish(steps[t]),
         \A p \in EditPeer : Updates(eDown'[p]) \subseteq Updates(eDown[p]),
         \A p \in eLinked' : Updates(eDown'[p]) = Updates(eDown[p])
  PROVE  NoneAhead' /\ Informed'
<1>1. NoneAhead'
  BY DEF EditInv, NoneAhead
<1>2. ASSUME NEW n \in eLinked' \cup {n1} PROVE rev'[n] = revision' \/ OnItsWay(n)'
  <2>1. rev[n] = revision \/ OnItsWay(n)
    BY <1>2 DEF EditInv, Informed
  <2>2. ASSUME OnItsWay(n) PROVE OnItsWay(n)'
    <3>1. CASE \E t \in Editing!Thread : \E x \in ToPublish(steps[t]) :
                 n \in x.to /\ x.frame.rev = revision
      BY <3>1 DEF OnItsWay
    <3>2. CASE n \in EditPeer /\ \E f \in Updates(eDown[n]) : f.rev = revision
      BY <3>2, <1>2, NodesDiffer DEF OnItsWay
    <3>. QED BY <2>2, <3>1, <3>2 DEF OnItsWay
  <2>. QED BY <2>1, <2>2
<1>. QED BY <1>1, <1>2 DEF Informed

(***************************************************************************)
(* The handlers of the lock add nothing to publish to what a thread has to *)
(* do.                                                                     *)
(***************************************************************************)
LEMMA StepsAdded ==
  ASSUME EditTypes, NEW t \in Editing!Thread, NEW extra \in Seq(AnyStep), NEW rest \in Seq(AnyStep),
         ToPublish(extra) = {}, Editing!Then(t, extra, rest)
  PROVE  /\ steps' \in [Editing!Thread -> Seq(AnyStep)]
         /\ ToPublish(steps'[t]) = ToPublish(rest)
         /\ \A u \in Editing!Thread : u # t => steps'[u] = steps[u]
<1>1. extra \o rest \in Seq(AnyStep) /\ ToPublish(extra \o rest) = ToPublish(rest)
  <2>1. /\ extra \o rest \in Seq(AnyStep)
        /\ ToPublish(extra \o rest) = ToPublish(extra) \cup ToPublish(rest)
    BY PublishedAfter
  <2>. QED BY <2>1
<1>2. steps' = [steps EXCEPT ![t] = extra \o rest]
  BY DEF Editing!Then
<1>. QED BY <1>1, <1>2 DEF EditTypes

LEMMA LockSteps ==
  ASSUME NEW n \in Editing!Node, NEW w \in Editing!Who, NEW x \in Nat
  PROVE  \A extra \in {<<>>, <<Editing!SendTo({n}, Editing!F("grant")), [do |-> "state"]>>,
                      <<[do |-> "state"]>>, <<[do |-> "number", what |-> x, who |-> w]>>,
                      <<Editing!SendTo({n}, [kind |-> "deny", who |-> w])>>} :
           extra \in Seq(AnyStep) /\ ToPublish(extra) = {}
<1>. DEFINE grant == Editing!SendTo({n}, Editing!F("grant"))
            deny  == Editing!SendTo({n}, [kind |-> "deny", who |-> w])
            state0 == [do |-> "state"]
            number == [do |-> "number", what |-> x, who |-> w]
<1>1. /\ grant \in AnyStep /\ grant.frame.kind = "grant"
      /\ deny \in AnyStep /\ deny.frame.kind = "deny"
      /\ state0 \in AnyStep /\ state0.do = "state"
      /\ number \in AnyStep /\ number.do = "number"
  BY DEF AnyStep, AnyFrame, Editing!SendTo, Editing!F
<1>. HIDE DEF grant, deny, state0, number
<1>2. /\ <<>> \in Seq(AnyStep) /\ <<grant, state0>> \in Seq(AnyStep) /\ <<state0>> \in Seq(AnyStep)
      /\ <<number>> \in Seq(AnyStep) /\ <<deny>> \in Seq(AnyStep)
  BY <1>1
<1>3. /\ ToPublish(<<>>) = {} /\ ToPublish(<<grant, state0>>) = {} /\ ToPublish(<<state0>>) = {}
      /\ ToPublish(<<number>>) = {} /\ ToPublish(<<deny>>) = {}
  <2>1. \A a, b : /\ ToPublish(<<a>>) = {y \in {a} : y.do = "send" /\ y.frame.kind = "update"}
                  /\ ToPublish(<<a, b>>) = {y \in {a, b} : y.do = "send" /\ y.frame.kind = "update"}
    BY RangeOfPair DEF ToPublish
  <2>2. ToPublish(<<grant, state0>>) = {}
    BY <1>1, <2>1
  <2>. QED BY <1>1, <2>1, <2>2, NothingToPublish
<1>. QED BY <1>2, <1>3 DEF grant, deny, state0, number

LEMMA HandlersOfLock ==
  ASSUME EditTypes, NEW t \in Editing!Thread, NEW n \in Editing!Node, NEW x \in Nat,
         NEW rest \in Seq(AnyStep),
         \/ Editing!OnBegin(t, n, rest) \/ Editing!OnEnd(t, n, rest)
         \/ Editing!OnPublish(t, n, x, rest)
  PROVE  /\ editor' \in Editing!Who
         /\ steps' \in [Editing!Thread -> Seq(AnyStep)]
         /\ ToPublish(steps'[t]) = ToPublish(rest)
         /\ \A u \in Editing!Thread : u # t => steps'[u] = steps[u]
<1>1. editor \in Editing!Who /\ n \in Editing!Who /\ None \in Editing!Who
  BY DEF EditTypes, Editing!Who
<1>2. editor' \in Editing!Who
  BY <1>1 DEF Editing!OnBegin, Editing!OnEnd, Editing!OnPublish
<1>3. PICK extra \in Seq(AnyStep) : ToPublish(extra) = {} /\ Editing!Then(t, extra, rest)
  BY <1>1, LockSteps DEF Editing!OnBegin, Editing!OnEnd, Editing!OnPublish
<1>. QED BY <1>2, <1>3, StepsAdded

(***************************************************************************)
(* A handler in a thread that was idle.                                    *)
(***************************************************************************)
LEMMA IdleThreadActs ==
  ASSUME EditTypes, NEW t \in Editing!Thread, steps[t] = <<>>, NEW n \in Editing!Node, NEW x \in Nat,
         \/ Editing!OnBegin(t, n, <<>>) \/ Editing!OnEnd(t, n, <<>>)
         \/ Editing!OnPublish(t, n, x, <<>>)
  PROVE  /\ editor' \in Editing!Who
         /\ steps' \in [Editing!Thread -> Seq(AnyStep)]
         /\ \A u \in Editing!Thread : ToPublish(steps'[u]) = ToPublish(steps[u])
<1>1. <<>> \in Seq(AnyStep)
  OBVIOUS
<1>. QED BY <1>1, HandlersOfLock


LEMMA CoordReceivesInv ==
  ASSUME EditInv, NEW p \in EditPeer, Editing!CoordReceives(p)
  PROVE  EditInv'
<1>. DEFINE f == Head(eUp[p])
<1>1. /\ steps[p] = <<>> /\ eUp[p] # <<>> /\ eUp' = [eUp EXCEPT ![p] = Tail(@)]
      /\ Editing!Serve(p, f)
      /\ UNCHANGED <<revision, eDown, eLinked, layouts>>
  BY DEF Editing!CoordReceives
<1>2. f \in AnyAsk /\ eUp' \in [EditPeer -> Seq(AnyAsk)]
  BY <1>1 DEF EditInv, EditTypes
<1>3. p \in Editing!Thread /\ p \in Editing!Node /\ None \in Editing!Who
  BY DEF Editing!Thread, Editing!Node, Editing!Who
<1>4. /\ editor' \in Editing!Who /\ rev' = rev /\ layout' \in [Editing!Node -> Nat]
      /\ steps' \in [Editing!Thread -> Seq(AnyStep)]
      /\ \A u \in Editing!Thread : ToPublish(steps'[u]) = ToPublish(steps[u])
  <2>1. CASE f.kind \in {"begin", "end"}
    <3>1. /\ \/ Editing!OnBegin(p, p, <<>>) \/ Editing!OnEnd(p, p, <<>>)
          /\ UNCHANGED <<rev, layout>>
      BY <1>1, <2>1 DEF Editing!Serve, Editing!client
    <3>. QED BY <1>1, <1>3, <3>1, IdleThreadActs DEF EditInv, EditTypes
  <2>2. CASE f.kind = "publish"
    <3>1. /\ Editing!OnPublish(p, p, f.what, <<>>) /\ UNCHANGED <<rev, layout>>
          /\ f.what \in Nat
      BY <1>1, <1>2, <2>2 DEF Editing!Serve, Editing!client, AnyAsk
    <3>. QED BY <1>1, <1>3, <3>1, IdleThreadActs DEF EditInv, EditTypes
  <2>3. CASE f.kind = "toggle"
    <3>1. f.what \in Nat /\ Editing!OnToggle(p, f.what)
      BY <1>1, <1>2, <2>3 DEF Editing!Serve, AnyAsk
    <3>2. /\ layout' = [layout EXCEPT ![n1] = f.what] /\ UNCHANGED <<editor, rev>>
          /\ Editing!Then(p, <<[do |-> "number", what |-> f.what, who |-> None]>>, <<>>)
      BY <3>1 DEF Editing!OnToggle
    <3>. DEFINE extra == <<[do |-> "number", what |-> f.what, who |-> None]>>
    <3>3. extra \in Seq(AnyStep) /\ ToPublish(extra) = {}
      BY <1>3, <3>1, LockSteps
    <3>4. <<>> \in Seq(AnyStep)
      OBVIOUS
    <3>5. /\ steps' \in [Editing!Thread -> Seq(AnyStep)]
          /\ ToPublish(steps'[p]) = ToPublish(<<>>)
          /\ \A u \in Editing!Thread : u # p => steps'[u] = steps[u]
      BY <1>3, <3>2, <3>3, <3>4, StepsAdded DEF EditInv
    <3>. QED BY <1>1, <3>1, <3>2, <3>5 DEF EditInv, EditTypes
  <2>. QED BY <1>1, <2>1, <2>2, <2>3 DEF Editing!Serve
<1>5. NoneAhead' /\ Informed'
  BY <1>1, <1>4, StaysInformed
<1>. QED BY <1>1, <1>2, <1>4, <1>5 DEF EditInv, EditTypes

(***************************************************************************)
(* Users who start or end edits, drag, and switch the automatic change.    *)
(***************************************************************************)
LEMMA UsersInv ==
  ASSUME EditInv, NEW n \in Editing!Node,
         \/ Editing!BeginEdit(n) \/ Editing!Retry(n) \/ Editing!EndEdit(n)
         \/ Editing!StartDrag(n) \/ Editing!Drop(n)
         \/ n \in EditPeer /\ Editing!Toggle(n)
  PROVE  EditInv'
<1>. USE DEF EditInv, EditTypes
<1>1. /\ UNCHANGED <<revision, rev, eDown, eLinked>>
      /\ layouts' \in Nat /\ layout' \in [Editing!Node -> Nat]
  <2>1. /\ UNCHANGED <<revision, rev, eDown, eLinked>>
        /\ layouts' \in {layouts, layouts + 1}
        /\ layout' \in {layout, [layout EXCEPT ![n] = layouts + 1]}
    BY DEF Editing!BeginEdit, Editing!Retry, Editing!EndEdit, Editing!StartDrag, Editing!Drop,
       Editing!Toggle, Editing!client
  <2>2. layouts + 1 \in Nat /\ [layout EXCEPT ![n] = layouts + 1] \in [Editing!Node -> Nat]
    OBVIOUS
  <2>. QED BY <2>1, <2>2
<1>2. eUp' \in [EditPeer -> Seq(AnyAsk)]
  <2>1. /\ Editing!F("begin") \in AnyAsk /\ Editing!F("end") \in AnyAsk
        /\ [kind |-> "publish", what |-> layouts + 1] \in AnyAsk
        /\ [kind |-> "toggle", what |-> layouts + 1] \in AnyAsk
    BY DEF AnyAsk, Editing!F
  <2>2. ASSUME NEW x \in AnyAsk PROVE [eUp EXCEPT ![n] = Append(@, x)] \in [EditPeer -> Seq(AnyAsk)]
    <3>1. \A p \in EditPeer : eUp[p] \in Seq(AnyAsk) /\ Append(eUp[p], x) \in Seq(AnyAsk)
      BY AppendProperties
    <3>2. CASE n \in EditPeer
      BY <3>1, <3>2
    <3>3. CASE n \notin EditPeer
      BY <3>1, <3>3
    <3>. QED BY <3>2, <3>3
  <2>3. UNCHANGED eUp \/ \E x \in AnyAsk : eUp' = [eUp EXCEPT ![n] = Append(@, x)]
    BY <2>1 DEF Editing!BeginEdit, Editing!Retry, Editing!EndEdit, Editing!StartDrag, Editing!Drop,
       Editing!Toggle, Editing!AskLock
  <2>. QED BY <2>2, <2>3
<1>3. /\ editor' \in Editing!Who /\ steps' \in [Editing!Thread -> Seq(AnyStep)]
      /\ \A u \in Editing!Thread : ToPublish(steps'[u]) = ToPublish(steps[u])
  <2>1. n1 \in Editing!Thread /\ n1 \in Editing!Node
    BY DEF Editing!Thread, Editing!Node
  <2>2. \/ UNCHANGED <<editor, steps>>
        \/ /\ steps[n1] = <<>>
           /\ \/ Editing!OnBegin(n1, n1, <<>>) \/ Editing!OnEnd(n1, n1, <<>>)
              \/ \E x \in Nat : Editing!OnPublish(n1, n1, x, <<>>)
    BY DEF Editing!BeginEdit, Editing!Retry, Editing!EndEdit, Editing!StartDrag, Editing!Drop,
       Editing!Toggle, Editing!AskLock, Editing!CanSend
  <2>. QED BY <2>1, <2>2, IdleThreadActs
<1>4. NoneAhead' /\ Informed'
  BY <1>1, <1>3, StaysInformed
<1>. QED BY <1>1, <1>2, <1>3, <1>4

(***************************************************************************)
(* A client takes a layout that is not older than its own: it never falls  *)
(* behind, and has the latest one when that one comes.                     *)
(***************************************************************************)
LEMMA FrameOnClient ==
  ASSUME EditTypes, NEW n \in Editing!Node, NEW f \in AnyFrame, Editing!OnFrame(n, f),
         rev[n] <= revision, f.kind = "update" => f.rev <= revision
  PROVE  /\ rev' \in [Editing!Node -> Nat] /\ layout' \in [Editing!Node -> Nat]
         /\ \A m \in Editing!Node : m # n => rev'[m] = rev[m]
         /\ rev'[n] <= revision
         /\ rev[n] = revision \/ (f.kind = "update" /\ f.rev = revision) => rev'[n] = revision
<1>1. CASE f.kind # "update"
  BY <1>1 DEF Editing!OnFrame, Editing!OnGrant, Editing!OnDeny, Editing!OnState, EditTypes
<1>2. CASE f.kind = "update"
  <2>1. f.rev \in Nat /\ f.what \in Nat
    BY <1>2 DEF AnyFrame
  <2>2. Editing!OnUpdate(n, f)
    BY <1>2 DEF Editing!OnFrame
  <2>3. CASE f.rev < rev[n]
    <3>1. UNCHANGED <<rev, layout>>
      BY <2>2, <2>3 DEF Editing!OnUpdate, Editing!client
    <3>2. f.rev # revision \/ rev[n] = revision
      BY <2>1, <2>3 DEF EditTypes
    <3>. QED BY <3>1, <3>2 DEF EditTypes
  <2>4. CASE ~(f.rev < rev[n])
    <3>1. rev' = [rev EXCEPT ![n] = f.rev] /\ layout' = [layout EXCEPT ![n] = f.what]
      BY <2>2, <2>4 DEF Editing!OnUpdate
    <3>2. /\ rev' \in [Editing!Node -> Nat] /\ layout' \in [Editing!Node -> Nat]
          /\ rev'[n] = f.rev /\ \A m \in Editing!Node : m # n => rev'[m] = rev[m]
      BY <2>1, <3>1 DEF EditTypes
    <3>3. rev[n] = revision => f.rev = revision
      BY <1>2, <2>1, <2>4 DEF EditTypes
    <3>. QED BY <1>2, <3>2, <3>3
  <2>. QED BY <2>3, <2>4
<1>. QED BY <1>1, <1>2

LEMMA PeerReceivesInv ==
  ASSUME EditInv, NEW p \in EditPeer, Editing!PeerReceives(p)
  PROVE  EditInv'
<1>. DEFINE f == Head(eDown[p])
<1>. USE DEF EditInv, EditTypes
<1>1. /\ eDown[p] # <<>> /\ eDown' = [eDown EXCEPT ![p] = Tail(@)]
      /\ Editing!OnFrame(p, f)
      /\ UNCHANGED <<editor, revision, steps, eLinked, layouts>>
  BY DEF Editing!PeerReceives
<1>2. p \in Editing!Node /\ p # n1
  BY NodesDiffer DEF Editing!Node
<1>3. /\ Tail(eDown[p]) \in Seq(AnyFrame) /\ f \in AnyFrame
      /\ Updates(eDown[p]) = Updates(Tail(eDown[p])) \cup {g \in {f} : g.kind = "update"}
  BY <1>1, UpdateTaken
<1>4. f.kind = "update" => f \in Updates(eDown[p]) /\ f.rev <= revision
  BY <1>3 DEF NoneAhead
<1>5. /\ rev' \in [Editing!Node -> Nat] /\ layout' \in [Editing!Node -> Nat]
      /\ \A m \in Editing!Node : m # p => rev'[m] = rev[m]
      /\ rev'[p] <= revision
      /\ rev[p] = revision \/ (f.kind = "update" /\ f.rev = revision) => rev'[p] = revision
  BY <1>1, <1>2, <1>3, <1>4, FrameOnClient DEF NoneAhead
<1>6. /\ eDown' \in [EditPeer -> Seq(AnyFrame)]
      /\ Updates(eDown'[p]) = Updates(Tail(eDown[p]))
      /\ \A q \in EditPeer : q # p => eDown'[q] = eDown[q]
  BY <1>1, <1>3
<1>7. eUp' \in [EditPeer -> Seq(AnyAsk)]
  <2>1. Editing!F("end") \in AnyAsk
    BY DEF AnyAsk, Editing!F
  <2>2. Append(eUp[p], Editing!F("end")) \in Seq(AnyAsk)
    BY <2>1, AppendProperties
  <2>. QED BY <2>2 DEF Editing!PeerReceives
<1>8. NoneAhead'
  BY <1>1, <1>3, <1>5, <1>6 DEF NoneAhead
<1>9. ASSUME NEW n \in eLinked \cup {n1} PROVE rev'[n] = revision \/ OnItsWay(n)'
  <2>1. n \in Editing!Node
    BY DEF Editing!Node
  <2>2. CASE rev[n] = revision
    BY <1>5, <2>1, <2>2
  <2>3. CASE \E t \in Editing!Thread : \E x \in ToPublish(steps[t]) : n \in x.to /\ x.frame.rev = revision
    BY <1>1, <2>3 DEF OnItsWay
  <2>4. CASE n \in EditPeer /\ \E g \in Updates(eDown[n]) : g.rev = revision
    <3>1. CASE n # p
      BY <1>1, <1>6, <2>4, <3>1 DEF OnItsWay
    <3>2. CASE n = p
      BY <1>1, <1>3, <1>5, <1>6, <2>4, <3>2 DEF OnItsWay
    <3>. QED BY <3>1, <3>2
  <2>. QED BY <2>2, <2>3, <2>4 DEF Informed, OnItsWay
<1>10. Informed'
  BY <1>1, <1>9 DEF Informed
<1>. QED BY <1>1, <1>5, <1>6, <1>7, <1>8, <1>10

(***************************************************************************)
(* A connection that breaks takes what was on it along; a node that comes  *)
(* back is sent the latest layout.                                         *)
(***************************************************************************)
LEMMA EditBreakInv ==
  ASSUME EditInv, NEW p \in EditPeer, Editing!Break(p)
  PROVE  EditInv'
<1>. USE DEF EditInv, EditTypes
<1>. DEFINE unbound == [do |-> "unbound"]
<1>1. /\ eLinked' = eLinked \ {p} /\ UNCHANGED <<editor, revision, rev, layout, layouts>>
      /\ eUp' = [eUp EXCEPT ![p] = <<>>] /\ eDown' = [eDown EXCEPT ![p] = <<>>]
      /\ steps' = [steps EXCEPT ![p] = Append(@, unbound)]
  BY DEF Editing!Break, Editing!client
<1>2. p \in Editing!Thread
  BY DEF Editing!Thread, Editing!Node
<1>3. unbound \in AnyStep /\ unbound.do = "unbound"
  BY DEF AnyStep
<1>. HIDE DEF unbound
<1>4. /\ Append(steps[p], unbound) \in Seq(AnyStep)
      /\ Range(Append(steps[p], unbound)) = Range(steps[p]) \cup {unbound}
  BY <1>2, <1>3, RangeOfAppend
<1>5. ToPublish(Append(steps[p], unbound)) = ToPublish(steps[p])
  BY <1>3, <1>4 DEF ToPublish
<1>6. /\ steps' \in [Editing!Thread -> Seq(AnyStep)]
      /\ \A t \in Editing!Thread : ToPublish(steps'[t]) = ToPublish(steps[t])
  BY <1>1, <1>4, <1>5
<1>7. /\ eUp' \in [EditPeer -> Seq(AnyAsk)] /\ eDown' \in [EditPeer -> Seq(AnyFrame)]
      /\ eDown'[p] = <<>> /\ \A q \in EditPeer : q # p => eDown'[q] = eDown[q]
  <2>1. <<>> \in Seq(AnyAsk) /\ <<>> \in Seq(AnyFrame)
    BY EmptySeq
  <2>. QED BY <1>1, <2>1
<1>8. NoneAhead' /\ Informed'
  <2>1. /\ \A q \in EditPeer : Updates(eDown'[q]) \subseteq Updates(eDown[q])
        /\ \A q \in eLinked' : Updates(eDown'[q]) = Updates(eDown[q])
    BY <1>1, <1>7, NothingToPublish
  <2>. QED BY <1>1, <1>6, <2>1, StaysInformed
<1>. QED BY <1>1, <1>6, <1>7, <1>8

LEMMA EditRebindInv ==
  ASSUME EditInv, NEW p \in EditPeer, Editing!Rebind(p)
  PROVE  EditInv'
<1>. USE DEF EditInv, EditTypes
<1>. DEFINE first  == Editing!SendTo({p}, Editing!StateOf(editor))
            second == Editing!SendTo({p}, Editing!Update(revision, layout[n1], editor))
<1>1. /\ steps["bound"] = <<>> /\ eLinked' = eLinked \cup {p}
      /\ steps' = [steps EXCEPT !["bound"] = <<first, second>> \o <<>>]
      /\ UNCHANGED <<editor, revision, rev, layout, eUp, eDown, layouts>>
  BY DEF Editing!Rebind, Editing!Then, Editing!client
<1>2. /\ "bound" \in Editing!Thread /\ n1 \in Editing!Node /\ p \in Editing!Node
      /\ p # n1
  BY NodesDiffer DEF Editing!Thread, Editing!Node
<1>3. /\ first \in AnyStep /\ first.frame.kind = "state"
      /\ second \in AnyStep /\ second.do = "send" /\ second.to = {p}
      /\ second.frame.kind = "update" /\ second.frame.rev = revision
  BY <1>2 DEF AnyStep, AnyFrame, Editing!SendTo, Editing!StateOf, Editing!Update
<1>. HIDE DEF first, second
<1>4. /\ <<first, second>> \in Seq(AnyStep)
      /\ <<first, second>> \o <<>> = <<first, second>>
      /\ Range(<<first, second>>) = {first, second}
  <2>1. <<first, second>> \in Seq(AnyStep)
    BY <1>3
  <2>2. <<first, second>> \o <<>> = <<first, second>>
    BY <2>1, ConcatEmptySeq
  <2>. QED BY <2>1, <2>2, RangeOfPair
<1>5. ToPublish(<<first, second>>) = {second}
  BY <1>3, <1>4 DEF ToPublish
<1>6. /\ steps' \in [Editing!Thread -> Seq(AnyStep)]
      /\ steps'["bound"] = <<first, second>>
      /\ \A t \in Editing!Thread : t # "bound" => steps'[t] = steps[t]
  BY <1>1, <1>2, <1>4
<1>7. NoneAhead'
  <2>1. ASSUME NEW t \in Editing!Thread, NEW x \in ToPublish(steps'[t]) PROVE x.frame.rev <= revision'
    <3>1. CASE t = "bound"
      <4>1. x = second
        BY <1>5, <1>6, <2>1, <3>1
      <4>. QED BY <1>1, <1>3, <4>1
    <3>2. CASE t # "bound"
      BY <1>1, <1>6, <2>1, <3>2 DEF NoneAhead
    <3>. QED BY <3>1, <3>2
  <2>. QED BY <1>1, <2>1 DEF NoneAhead
<1>8. ASSUME NEW n \in eLinked' \cup {n1} PROVE rev'[n] = revision' \/ OnItsWay(n)'
  <2>1. CASE n = p
    BY <1>1, <1>2, <1>3, <1>5, <1>6, <2>1 DEF OnItsWay
  <2>2. CASE n # p
    <3>1. rev[n] = revision \/ OnItsWay(n)
      BY <1>1, <2>2 DEF Informed
    <3>2. ToPublish(steps["bound"]) = {}
      BY <1>1, NothingToPublish
    <3>. QED BY <1>1, <1>6, <3>1, <3>2 DEF OnItsWay
  <2>. QED BY <2>1, <2>2
<1>9. Informed'
  BY <1>8 DEF Informed
<1>. QED BY <1>1, <1>2, <1>6, <1>7, <1>9

(***************************************************************************)
(* A thread goes on.  To number a layout makes everybody's out of date     *)
(* until the frame that the same step prepares has come to them.           *)
(***************************************************************************)
LEMMA NumberInv ==
  ASSUME EditInv, NEW t \in Editing!Thread, steps[t] # <<>>, NEW s, s = Head(steps[t]),
         s.do = "number", Editing!Number(t, s),
         UNCHANGED <<rev, layout, eUp, eDown, eLinked, layouts>>
  PROVE  EditInv'
<1>. USE DEF EditInv, EditTypes
<1>. DEFINE publish == Editing!SendTo(Editing!Node, Editing!Update(revision + 1, s.what, s.who))
            rest == Tail(steps[t])
<1>1. /\ revision' = revision + 1 /\ UNCHANGED editor
      /\ steps' = [steps EXCEPT ![t] = <<publish>> \o rest]
  BY DEF Editing!Number, Editing!Then
<1>2. /\ rest \in Seq(AnyStep) /\ s \in AnyStep
      /\ ToPublish(rest) \subseteq ToPublish(steps[t])
      /\ ToPublish(steps[t]) = ToPublish(rest)
  BY PublishedNext
<1>3. s.what \in Nat /\ s.who \in Editing!Who
  BY <1>2 DEF AnyStep
<1>4. /\ publish \in AnyStep /\ publish.do = "send" /\ publish.to = Editing!Node
      /\ publish.frame.kind = "update" /\ publish.frame.rev = revision + 1
  BY <1>3 DEF AnyStep, AnyFrame, Editing!SendTo, Editing!Update
<1>. HIDE DEF publish, rest
<1>5. <<publish>> \in Seq(AnyStep) /\ ToPublish(<<publish>>) = {publish}
  <2>1. Range(<<publish>>) = {publish}
    BY RangeOfPair
  <2>. QED BY <1>4, <2>1 DEF ToPublish
<1>6. /\ <<publish>> \o rest \in Seq(AnyStep)
      /\ ToPublish(<<publish>> \o rest) = {publish} \cup ToPublish(steps[t])
  BY <1>2, <1>5, PublishedAfter
<1>7. /\ steps' \in [Editing!Thread -> Seq(AnyStep)]
      /\ ToPublish(steps'[t]) = {publish} \cup ToPublish(steps[t])
      /\ \A u \in Editing!Thread : u # t => steps'[u] = steps[u]
  BY <1>1, <1>6
<1>8. NoneAhead'
  <2>1. \A n \in Editing!Node : rev'[n] <= revision'
    BY <1>1 DEF NoneAhead
  <2>2. ASSUME NEW u \in Editing!Thread, NEW x \in ToPublish(steps'[u]) PROVE x.frame.rev <= revision'
    <3>1. CASE x = publish
      BY <1>1, <1>4, <3>1
    <3>2. CASE x # publish
      <4>1. x \in ToPublish(steps[u])
        BY <1>7, <2>2, <3>2
      <4>. QED BY <1>1, <4>1, PublishedTypes DEF NoneAhead
    <3>. QED BY <3>1, <3>2
  <2>3. \A p \in EditPeer : \A f \in Updates(eDown'[p]) : f.rev <= revision'
    BY <1>1, PublishedTypes DEF NoneAhead
  <2>. QED BY <2>1, <2>2, <2>3 DEF NoneAhead
<1>9. Informed'
  <2>1. ASSUME NEW n \in eLinked' \cup {n1} PROVE OnItsWay(n)'
    <3>1. n \in Editing!Node
      BY DEF Editing!Node
    <3>. QED BY <1>1, <1>4, <1>7, <3>1 DEF OnItsWay
  <2>. QED BY <2>1 DEF Informed
<1>. QED BY <1>1, <1>7, <1>8, <1>9

\* what is sent is a state, or nothing
LEMMA LockStepInv ==
  ASSUME EditInv, NEW t \in Editing!Thread, steps[t] # <<>>, NEW s, s = Head(steps[t]),
         \/ /\ s.do = "state"
            /\ Editing!Then(t, <<Editing!SendTo(Editing!Node, Editing!StateOf(editor))>>, Tail(steps[t]))
            /\ UNCHANGED editor
         \/ s.do = "unbound" /\ Editing!Unbound(t),
         UNCHANGED <<revision, rev, layout, eUp, eDown, eLinked, layouts>>
  PROVE  EditInv'
<1>. USE DEF EditInv, EditTypes
<1>. DEFINE tell == Editing!SendTo(Editing!Node, Editing!StateOf(editor))
            state0 == [do |-> "state"]
<1>1. /\ Tail(steps[t]) \in Seq(AnyStep)
      /\ ToPublish(steps[t]) = ToPublish(Tail(steps[t]))
  BY PublishedNext
<1>2. /\ tell \in AnyStep /\ tell.frame.kind = "state"
      /\ state0 \in AnyStep /\ state0.do = "state"
  BY DEF AnyStep, AnyFrame, Editing!SendTo, Editing!StateOf
<1>3. PICK extra : /\ extra \in {<<tell>>, <<state0>>, <<>>}
                  /\ Editing!Then(t, extra, Tail(steps[t]))
  BY DEF Editing!Unbound
<1>4. editor' \in Editing!Who
  BY DEF Editing!Unbound, Editing!Who
<1>. HIDE DEF tell, state0
<1>5. extra \in Seq(AnyStep) /\ ToPublish(extra) = {}
  <2>1. \A a : Range(<<a>>) = {a}
    BY RangeOfPair
  <2>2. \A a \in AnyStep : <<a>> \in Seq(AnyStep)
    OBVIOUS
  <2>3. ToPublish(<<tell>>) = {} /\ ToPublish(<<state0>>) = {}
    BY <1>2, <2>1 DEF ToPublish
  <2>. QED BY <1>2, <1>3, <2>2, <2>3, NothingToPublish, EmptySeq
<1>6. /\ steps' \in [Editing!Thread -> Seq(AnyStep)]
      /\ \A u \in Editing!Thread : ToPublish(steps'[u]) = ToPublish(steps[u])
  BY <1>1, <1>3, <1>5, StepsAdded
<1>7. NoneAhead' /\ Informed'
  BY <1>6, StaysInformed
<1>. QED BY <1>4, <1>6, <1>7

LEMMA SendFrameInv ==
  ASSUME EditInv, NEW t \in Editing!Thread, steps[t] # <<>>, NEW s, s = Head(steps[t]),
         s.do = "send", Editing!SendFrame(t, s),
         UNCHANGED <<revision, eUp, eLinked, layouts>>
  PROVE  EditInv'
<1>. USE DEF EditInv, EditTypes
<1>. DEFINE rest == Tail(steps[t])
            f == s.frame
<1>1. /\ rest \in Seq(AnyStep) /\ s \in AnyStep
      /\ ToPublish(steps[t]) = ToPublish(rest) \cup {x \in {s} : f.kind = "update"}
  BY PublishedNext
<1>2. f \in AnyFrame /\ s.to \subseteq Editing!Node
  BY <1>1 DEF AnyStep
<1>3. f.kind = "update" => f.rev \in Nat /\ f.rev <= revision
  BY <1>1, PublishedTypes DEF NoneAhead
<1>4. n1 \in Editing!Node /\ n1 \notin EditPeer
  BY NodesDiffer DEF Editing!Node
<1>5. /\ editor' \in Editing!Who /\ steps' \in [Editing!Thread -> Seq(AnyStep)]
      /\ ToPublish(steps'[t]) = ToPublish(rest)
      /\ \A u \in Editing!Thread : u # t => steps'[u] = steps[u]
  <2>1. CASE Editing!OnEnd(t, n1, rest)
    BY <1>1, <1>4, <2>1, HandlersOfLock
  <2>2. CASE Editing!Then(t, <<>>, rest) /\ UNCHANGED editor
    BY <1>1, <2>2, StepsAdded, NothingToPublish, EmptySeq
  <2>. QED BY <2>1, <2>2 DEF Editing!SendFrame
<1>6. /\ rev' \in [Editing!Node -> Nat] /\ layout' \in [Editing!Node -> Nat]
      /\ \A m \in Editing!Node : m # n1 => rev'[m] = rev[m]
      /\ rev'[n1] <= revision
      /\ rev[n1] = revision \/ (n1 \in s.to /\ f.kind = "update" /\ f.rev = revision)
           => rev'[n1] = revision
  <2>1. CASE n1 \in s.to
    <3>1. Editing!OnFrame(n1, f)
      BY <2>1 DEF Editing!SendFrame
    <3>. QED BY <1>2, <1>3, <1>4, <2>1, <3>1, FrameOnClient DEF NoneAhead
  <2>2. CASE n1 \notin s.to
    <3>1. UNCHANGED <<rev, layout>>
      BY <2>2 DEF Editing!SendFrame, Editing!client
    <3>. QED BY <1>4, <2>2, <3>1 DEF NoneAhead
  <2>. QED BY <2>1, <2>2
<1>7. /\ eDown' \in [EditPeer -> Seq(AnyFrame)]
      /\ \A q \in EditPeer : Updates(eDown'[q]) =
           Updates(eDown[q]) \cup {g \in {f} : q \in eLinked \cap s.to /\ g.kind = "update"}
  <2>1. eDown' = [q \in EditPeer |-> IF q \in eLinked \cap s.to THEN Append(eDown[q], f) ELSE eDown[q]]
    BY DEF Editing!SendFrame
  <2>2. ASSUME NEW q \in EditPeer
        PROVE  /\ eDown'[q] \in Seq(AnyFrame)
               /\ Updates(eDown'[q]) =
                    Updates(eDown[q]) \cup {g \in {f} : q \in eLinked \cap s.to /\ g.kind = "update"}
    <3>. HIDE DEF f
    <3>1. CASE q \in eLinked \cap s.to
      <4>1. eDown'[q] = Append(eDown[q], f)
        BY <2>1, <3>1
      <4>. QED BY <1>2, <3>1, <4>1, UpdateSent
    <3>2. CASE q \notin eLinked \cap s.to
      BY <2>1, <3>2
    <3>. QED BY <3>1, <3>2
  <2>. QED BY <2>1, <2>2
<1>. HIDE DEF rest, f
<1>8. NoneAhead'
  <2>1. \A n \in Editing!Node : rev'[n] <= revision'
    BY <1>4, <1>6 DEF NoneAhead
  <2>2. \A u \in Editing!Thread : \A x \in ToPublish(steps'[u]) : x.frame.rev <= revision'
    BY <1>1, <1>5 DEF NoneAhead
  <2>3. \A p \in EditPeer : \A g \in Updates(eDown'[p]) : g.rev <= revision'
    BY <1>3, <1>7 DEF NoneAhead
  <2>. QED BY <2>1, <2>2, <2>3 DEF NoneAhead
<1>9. ASSUME NEW n \in eLinked' \cup {n1} PROVE rev'[n] = revision' \/ OnItsWay(n)'
  <2>1. CASE rev[n] = revision
    <3>1. n \in Editing!Node
      BY DEF Editing!Node
    <3>. QED BY <1>6, <2>1, <3>1
  <2>2. CASE n \in EditPeer /\ \E g \in Updates(eDown[n]) : g.rev = revision
    BY <1>7, <2>2 DEF OnItsWay
  <2>3. CASE \E u \in Editing!Thread : \E x \in ToPublish(steps[u]) : n \in x.to /\ x.frame.rev = revision
    <3>0. PICK u \in Editing!Thread : \E x \in ToPublish(steps[u]) : n \in x.to /\ x.frame.rev = revision
      BY <2>3
    <3>1. PICK x \in ToPublish(steps[u]) : n \in x.to /\ x.frame.rev = revision
      BY <3>0
    <3>2. CASE x \in ToPublish(steps'[u])
      BY <3>1, <3>2 DEF OnItsWay
    <3>3. CASE x \notin ToPublish(steps'[u])
      <4>1. x = s /\ f.kind = "update"
        BY <1>1, <1>5, <3>1, <3>3
      <4>2. n \in s.to /\ f.rev = revision
        BY <3>1, <4>1 DEF f
      <4>3. CASE n = n1
        BY <1>6, <4>1, <4>2, <4>3
      <4>4. CASE n # n1
        <5>1. n \in EditPeer /\ f \in Updates(eDown'[n])
          BY <1>7, <4>1, <4>2, <4>4
        <5>. QED BY <4>2, <5>1 DEF OnItsWay
      <4>. QED BY <4>3, <4>4
    <3>. QED BY <3>2, <3>3
  <2>. QED BY <2>1, <2>2, <2>3 DEF Informed, OnItsWay
<1>10. Informed'
  BY <1>9 DEF Informed
<1>. QED BY <1>5, <1>6, <1>7, <1>8, <1>10

LEMMA EditProceedInv ==
  ASSUME EditInv, NEW t \in Editing!Thread, Editing!Proceed(t)
  PROVE  EditInv'
<1>. DEFINE s == Head(steps[t])
<1>1. steps[t] # <<>> /\ UNCHANGED <<eUp, eLinked, layouts>>
  BY DEF Editing!Proceed
<1>2. CASE s.do = "send" /\ Editing!SendFrame(t, s) /\ UNCHANGED revision
  BY <1>1, <1>2, SendFrameInv
<1>3. CASE s.do = "number" /\ Editing!Number(t, s) /\ UNCHANGED <<Editing!client, eDown>>
  BY <1>1, <1>3, NumberInv DEF Editing!client
<1>4. CASE /\ \/ /\ s.do = "state"
                 /\ Editing!Then(t, <<Editing!SendTo(Editing!Node, Editing!StateOf(editor))>>, Tail(steps[t]))
                 /\ UNCHANGED editor
              \/ s.do = "unbound" /\ Editing!Unbound(t)
           /\ UNCHANGED <<revision, Editing!client, eDown>>
  BY <1>1, <1>4, LockStepInv DEF Editing!client
<1>. QED BY <1>2, <1>3, <1>4 DEF Editing!Proceed

LEMMA EditInit == Editing!Init => EditInv
<1>. SUFFICES ASSUME Editing!Init PROVE EditInv
  OBVIOUS
<1>. USE DEF Editing!Init
<1>1. EditTypes
  <2>1. <<>> \in Seq(AnyStep) /\ <<>> \in Seq(AnyAsk) /\ <<>> \in Seq(AnyFrame)
    BY EmptySeq
  <2>. QED BY <2>1 DEF EditTypes, Editing!Who
<1>2. NoneAhead
  BY NothingToPublish DEF NoneAhead
<1>3. Informed
  BY DEF Informed, Editing!Node
<1>. QED BY <1>1, <1>2, <1>3 DEF EditInv

LEMMA EditNext == EditInv /\ [Editing!Next]_layoutVars => EditInv'
<1>. SUFFICES ASSUME EditInv, [Editing!Next]_layoutVars PROVE EditInv'
  OBVIOUS
<1>1. CASE \E t \in Editing!Thread : Editing!Proceed(t)
  BY <1>1, EditProceedInv
<1>2. CASE \E p \in EditPeer : \/ Editing!CoordReceives(p) \/ Editing!PeerReceives(p)
                                \/ Editing!Break(p) \/ Editing!Rebind(p)
  BY <1>2, CoordReceivesInv, PeerReceivesInv, EditBreakInv, EditRebindInv
<1>3. CASE \/ \E p \in EditPeer : Editing!Toggle(p)
           \/ \E n \in Editing!Node : \/ Editing!BeginEdit(n) \/ Editing!Retry(n) \/ Editing!EndEdit(n)
                                      \/ Editing!StartDrag(n) \/ Editing!Drop(n)
  <2>1. EditPeer \subseteq Editing!Node
    BY DEF Editing!Node
  <2>2. CASE \E p \in EditPeer : Editing!Toggle(p)
    BY <2>1, <2>2, UsersInv
  <2>3. CASE \E n \in Editing!Node : \/ Editing!BeginEdit(n) \/ Editing!Retry(n) \/ Editing!EndEdit(n)
                                    \/ Editing!StartDrag(n) \/ Editing!Drop(n)
    BY <2>3, UsersInv
  <2>. QED BY <1>3, <2>2, <2>3
<1>4. CASE UNCHANGED layoutVars
  <2>1. UNCHANGED <<editor, revision, steps, rev, layout, layouts, eUp, eDown, eLinked>>
    BY <1>4 DEF layoutVars
  <2>. QED BY <2>1 DEF EditInv, EditTypes, NoneAhead, Informed, OnItsWay
<1>. QED BY <1>1, <1>2, <1>3, <1>4 DEF Editing!Next

(***************************************************************************)
(* When everything that was sent has been received, every connected node   *)
(* has the latest revision of the layout, whatever crossed on the way and  *)
(* however often connections broke.                                        *)
(***************************************************************************)
THEOREM LayoutsArrive == NetworkSpec => []LatestRevision
<1>1. NetworkInit => EditInv
  BY EditInit DEF NetworkInit
<1>2. EditInv /\ [NetworkNext]_networkVars => EditInv'
  BY OnlyPartsMove, EditNext
<1>3. EditInv => LatestRevision
  <2>. SUFFICES ASSUME EditInv, Editing!Quiet, NEW n \in eLinked \cup {n1}
                PROVE  rev[n] = revision
    BY DEF LatestRevision, Editing!LatestRevision
  <2>1. ~OnItsWay(n)
    BY NothingToPublish DEF Editing!Quiet, OnItsWay
  <2>. QED BY <2>1 DEF EditInv, Informed
<1>. QED BY <1>1, <1>2, <1>3, PTL DEF NetworkSpec

-----------------------------------------------------------------------------
(***************************************************************************)
(* RequestRelay: whatever the coordinator's service and the clients do     *)
(* with a frame, one in the middle of another, what they keep has its type,*)
(* and nothing is sent to a peer that is not connected.                    *)
(***************************************************************************)
RelayPeer == {n2, n3}
Answer    == Relay!Status \cup {"answered", "timeout"}

Kept(st) ==
  /\ st = [track |-> st.track, told |-> st.told, work |-> st.work, down |-> st.down]
  /\ st.track \in [Requests -> {"no", "sent", "tracked", "over"}]
  /\ st.told \in [Requests -> Seq(Answer)]
  /\ st.work \in [Requests -> {"no", "running", "done", "lost"}]
  /\ st.down \in [RelayPeer -> Seq(Relay!ToClient)]
  /\ \A p \in RelayPeer \ linked : st.down[p] = <<>>

LEMMA FrameFacts ==
  /\ \A f \in Relay!Frame :
       /\ f.req \in Requests
       /\ f.kind = "update_status" => f.status \in Relay!Status
       /\ f.kind \in {"update_request", "refresh_request", "note_request", "switch_request", "update_status",
                      "update_command", "refresh_status", "note_state", "layout_update"}
       /\ Relay!HandlerOf(f.kind) = "client" => f \in Relay!ToClient
       /\ Relay!HandlerOf(f.kind) # "client" => f.kind \notin Relay!ClientRegisters
  /\ \A f \in Relay!ToClient : f \in Relay!Frame /\ f.kind \in Relay!ClientRegisters
  /\ \A f \in Relay!ToService : f \in Relay!Frame /\ f.kind \in Relay!ServiceRegisters
  /\ \A r \in Requests :
       /\ Relay!F("update_command", r) \in Relay!ToClient /\ Relay!F("note_state", r) \in Relay!ToClient
       /\ Relay!F("layout_update", r) \in Relay!ToClient
       /\ \A s \in Relay!Status :
            Relay!Report(r, s) \in Relay!ToClient /\ Relay!Report(r, s) \in Relay!ToService
BY DEF Relay!Frame, Relay!F, Relay!Report, Relay!ToClient, Relay!ToService, Relay!HandlerOf,
   Relay!ClientRegisters, Relay!ServiceRegisters

LEMMA ToldKept ==
  ASSUME NEW st, Kept(st), NEW r \in Requests, NEW what \in Answer
  PROVE  Kept(Relay!Told(st, r, what))
<1>1. Append(st.told[r], what) \in Seq(Answer)
  BY DEF Kept
<1>. DEFINE t == [st.told EXCEPT ![r] = Append(@, what)]
<1>2. t \in [Requests -> Seq(Answer)]
  BY <1>1 DEF Kept
<1>3. Relay!Told(st, r, what) = [st EXCEPT !.told = t]
  BY DEF Relay!Told
<1>. HIDE DEF t
<1>4. Relay!Told(st, r, what) = [track |-> st.track, told |-> t, work |-> st.work, down |-> st.down]
  BY <1>3 DEF Kept
<1>. QED BY <1>2, <1>4 DEF Kept

LEMMA ResolveKept ==
  ASSUME NEW st, Kept(st), NEW r \in Requests
  PROVE  Kept(Relay!Resolve(st, r))
<1>. DEFINE t == [st.track EXCEPT ![r] = "over"]
<1>1. t \in [Requests -> {"no", "sent", "tracked", "over"}]
  BY DEF Kept
<1>2. \/ Relay!Resolve(st, r) = st
      \/ Relay!Resolve(st, r) = [track |-> t, told |-> st.told, work |-> st.work, down |-> st.down]
  BY DEF Relay!Resolve, Kept
<1>. HIDE DEF t
<1>. QED BY <1>1, <1>2 DEF Kept

LEMMA ClientKeeps ==
  ASSUME NEW st, Kept(st), NEW n, NEW f \in Relay!ToClient
  PROVE  Kept(Relay!ClientDoes(st, n, f))
<1>. DEFINE r == f.req
            w == [st.work EXCEPT ![r] = "running"]
<1>1. /\ r \in Requests
      /\ f.kind \in {"update_command", "update_status", "refresh_request", "refresh_status",
                     "note_state", "layout_update"}
      /\ f.kind = "update_status" => f.status \in Relay!Status
  BY FrameFacts DEF Relay!ClientRegisters
<1>2. Kept(Relay!Resolve(st, r))
  BY <1>1, ResolveKept
<1>3. "answered" \in Answer /\ Relay!Status \subseteq Answer
  BY DEF Answer
<1>4. Kept(Relay!OnCommand(st, n, r))
  <2>1. w \in [Requests -> {"no", "running", "done", "lost"}]
    BY <1>1 DEF Kept
  <2>2. \/ Relay!OnCommand(st, n, r) = st
        \/ Relay!OnCommand(st, n, r) = [track |-> st.track, told |-> st.told, work |-> w, down |-> st.down]
    BY DEF Relay!OnCommand, Kept
  <2>. HIDE DEF w
  <2>. QED BY <2>1, <2>2 DEF Kept
<1>5. Kept(Relay!OnAnswer(st, n, r))
  <2>1. Kept(Relay!Told(Relay!Resolve(st, r), r, "answered"))
    BY <1>1, <1>2, <1>3, ToldKept
  <2>. QED BY <2>1 DEF Relay!OnAnswer
<1>6. f.kind = "update_status" => Kept(Relay!OnStatus(st, n, f))
  <2>1. f.kind = "update_status" => Kept(Relay!Told(Relay!Resolve(st, r), r, f.status))
    BY <1>1, <1>2, <1>3, ToldKept
  <2>. QED BY <2>1 DEF Relay!OnStatus
<1>. QED BY <1>1, <1>4, <1>5, <1>6 DEF Relay!ClientDoes

LEMMA ReplyKept ==
  ASSUME NEW st, Kept(st), linked \subseteq RelayPeer, NEW n, NEW f \in Relay!ToClient
  PROVE  Kept(Relay!Reply(st, n, f))
<1>1. CASE n = n1
  BY <1>1, ClientKeeps DEF Relay!Reply
<1>2. CASE n # n1 /\ n \in linked
  <2>. DEFINE d == [st.down EXCEPT ![n] = Append(@, f)]
  <2>1. n \in RelayPeer /\ Append(st.down[n], f) \in Seq(Relay!ToClient)
    BY <1>2 DEF Kept
  <2>2. d \in [RelayPeer -> Seq(Relay!ToClient)] /\ \A p \in RelayPeer \ linked : d[p] = <<>>
    BY <1>2, <2>1 DEF Kept
  <2>3. Relay!Reply(st, n, f) = [track |-> st.track, told |-> st.told, work |-> st.work, down |-> d]
    BY <1>2 DEF Relay!Reply, Kept
  <2>. HIDE DEF d
  <2>. QED BY <2>2, <2>3 DEF Kept
<1>3. CASE n # n1 /\ n \notin linked
  BY <1>3 DEF Relay!Reply
<1>. QED BY <1>1, <1>2, <1>3

LEMMA BroadcastKept ==
  ASSUME NEW st, Kept(st), linked \subseteq RelayPeer, NEW f \in Relay!ToClient
  PROVE  Kept(Relay!Broadcast(st, f))
<1>. DEFINE own == Relay!ClientDoes(st, n1, f)
            d == [p \in RelayPeer |-> IF p \in linked THEN Append(own.down[p], f) ELSE own.down[p]]
<1>1. Kept(own)
  BY ClientKeeps
<1>. HIDE DEF own
<1>2. \A p \in RelayPeer : /\ own.down[p] \in Seq(Relay!ToClient)
                           /\ Append(own.down[p], f) \in Seq(Relay!ToClient)
  BY <1>1 DEF Kept
<1>3. d \in [RelayPeer -> Seq(Relay!ToClient)] /\ \A p \in RelayPeer \ linked : d[p] = <<>>
  BY <1>1, <1>2 DEF Kept
<1>4. Relay!Broadcast(st, f) = [own EXCEPT !.down = d]
  BY DEF Relay!Broadcast, own, RelayPeer
<1>5. Relay!Broadcast(st, f) = [track |-> own.track, told |-> own.told, work |-> own.work, down |-> d]
  BY <1>1, <1>4 DEF Kept
<1>. HIDE DEF d
<1>. QED BY <1>1, <1>3, <1>5 DEF Kept

LEMMA ServiceKeeps ==
  ASSUME NEW st, Kept(st), linked \subseteq RelayPeer, NEW f \in Relay!Frame,
         Relay!HandlerOf(f.kind) = "service"
  PROVE  Kept(Relay!ServiceDoes(st, f))
<1>. DEFINE r == f.req
<1>1. r \in Requests /\ f.kind \in {"update_request", "note_request", "switch_request"}
  BY FrameFacts DEF Relay!HandlerOf, Relay!ClientRegisters
<1>. DEFINE command == Relay!F("update_command", r)
            asked   == Relay!Report(r, "requested")
            failed  == Relay!Report(r, "failed")
            note    == Relay!F("note_state", r)
            switch  == Relay!F("layout_update", r)
<1>2. /\ command \in Relay!ToClient /\ asked \in Relay!ToClient /\ failed \in Relay!ToClient
      /\ note \in Relay!ToClient /\ switch \in Relay!ToClient
  BY <1>1, FrameFacts DEF Relay!Status
<1>. HIDE DEF r, command, asked, failed, note, switch
<1>4. Kept(Relay!Reply(st, r.target, command)) /\ Kept(Relay!Reply(st, r.by, failed))
  BY <1>2, ReplyKept
<1>5. Kept(Relay!Reply(Relay!Reply(st, r.target, command), r.by, asked))
  BY <1>2, <1>4, ReplyKept
<1>6. Kept(Relay!OnUpdateRequest(st, r))
  BY <1>4, <1>5 DEF Relay!OnUpdateRequest, command, asked, failed
<1>7. Kept(Relay!Broadcast(st, note)) /\ Kept(Relay!Broadcast(st, switch))
  BY <1>2, BroadcastKept
<1>. QED BY <1>1, <1>6, <1>7 DEF Relay!ServiceDoes, r, note, switch

LEMMA DispatchKeeps ==
  ASSUME NEW st, Kept(st), linked \subseteq RelayPeer, NEW f \in Relay!Frame, Relay!CoordDispatch(f, st)
  PROVE  \E x : Kept(x) /\ Relay!Becomes(x)
<1>1. CASE Relay!HandlerOf(f.kind) = "service"
  BY <1>1, ServiceKeeps DEF Relay!CoordDispatch
<1>2. CASE Relay!HandlerOf(f.kind) = "client"
  BY <1>2, ClientKeeps, FrameFacts DEF Relay!CoordDispatch
<1>. QED BY <1>1, <1>2 DEF Relay!HandlerOf

(***************************************************************************)
(* The actions.                                                            *)
(***************************************************************************)
LEMMA StateKept ==
  ASSUME Relay!TypeOK PROVE Kept(Relay!State) /\ linked \subseteq RelayPeer
BY DEF Relay!TypeOK, Relay!State, Kept, Answer, RelayPeer

LEMMA Returned ==
  ASSUME Relay!TypeOK, NEW x, Kept(x), Relay!Becomes(x), UNCHANGED <<linked, breaks>>,
         up' \in [RelayPeer -> Seq(Relay!ToService)], \A p \in RelayPeer \ linked : up'[p] = <<>>
  PROVE  Relay!TypeOK'
<1>1. /\ track' \in [Requests -> {"no", "sent", "tracked", "over"}]
      /\ told' \in [Requests -> Seq(Answer)]
      /\ work' \in [Requests -> {"no", "running", "done", "lost"}]
      /\ down' \in [RelayPeer -> Seq(Relay!ToClient)]
      /\ \A p \in RelayPeer \ linked : down'[p] = <<>>
  BY DEF Kept, Relay!Becomes
<1>. QED BY <1>1 DEF Relay!TypeOK, Answer, RelayPeer

LEMMA SendTypes ==
  ASSUME Relay!TypeOK, NEW st, Kept(st), NEW n, NEW f \in Relay!ToService, Relay!ClientSends(n, f, st),
         UNCHANGED <<linked, breaks>>
  PROVE  Relay!TypeOK'
<1>1. up \in [RelayPeer -> Seq(Relay!ToService)] /\ \A p \in RelayPeer \ linked : up[p] = <<>>
  BY DEF Relay!TypeOK, RelayPeer
<1>2. linked \subseteq RelayPeer
  BY StateKept
<1>3. CASE n = n1
  <2>1. PICK x : Kept(x) /\ Relay!Becomes(x)
    BY <1>2, <1>3, DispatchKeeps, FrameFacts DEF Relay!ClientSends
  <2>2. up' = up
    BY <1>3 DEF Relay!ClientSends
  <2>. QED BY <1>1, <2>1, <2>2, Returned
<1>4. CASE n # n1
  <2>1. n \in linked /\ up' = [up EXCEPT ![n] = Append(@, f)] /\ Relay!Becomes(st)
    BY <1>4 DEF Relay!ClientSends
  <2>2. Append(up[n], f) \in Seq(Relay!ToService)
    BY <1>1, <1>2, <2>1
  <2>3. up' \in [RelayPeer -> Seq(Relay!ToService)] /\ \A p \in RelayPeer \ linked : up'[p] = <<>>
    BY <1>1, <2>1, <2>2
  <2>. QED BY <2>1, <2>3, Returned
<1>. QED BY <1>3, <1>4

\* the state with one record of a request changed
LEMMA WithTrack ==
  ASSUME Relay!TypeOK, NEW r \in Requests, NEW v \in {"no", "sent", "tracked", "over"}
  PROVE  Kept([Relay!State EXCEPT !.track[r] = v])
<1>. DEFINE t == [track EXCEPT ![r] = v]
            x == [Relay!State EXCEPT !.track[r] = v]
<1>1. t \in [Requests -> {"no", "sent", "tracked", "over"}]
  BY DEF Relay!TypeOK
<1>2. x = [track |-> t, told |-> told, work |-> work, down |-> down]
  BY DEF Relay!State
<1>. HIDE DEF t, x
<1>. QED BY <1>1, <1>2 DEF Relay!TypeOK, Kept, Answer, RelayPeer, x

LEMMA AskTypes ==
  ASSUME Relay!TypeOK, NEW r \in Requests, Relay!Ask(r)
  PROVE  Relay!TypeOK'
<1>1. Relay!RequestFrame(r) \in Relay!ToService
  <2>1. r.kind \in {"update", "refresh", "note", "switch"}
    BY DEF Requests, Ask
  <2>. QED BY <2>1 DEF Relay!RequestFrame, Relay!F, Relay!Frame, Relay!ToService, Relay!ServiceRegisters
<1>2. Kept([Relay!State EXCEPT !.track[r] = "sent"])
  BY WithTrack
<1>. QED BY <1>1, <1>2, SendTypes DEF Relay!Ask

LEMMA FinishTypes ==
  ASSUME Relay!TypeOK, NEW r \in Requests, Relay!Finish(r)
  PROVE  Relay!TypeOK'
<1>1. Relay!Report(r, "outcome") \in Relay!ToService
  BY FrameFacts DEF Relay!Status
<1>. DEFINE w == [work EXCEPT ![r] = "done"]
            x == [Relay!State EXCEPT !.work[r] = "done"]
<1>2. Kept(x)
  <2>1. w \in [Requests -> {"no", "running", "done", "lost"}]
    BY DEF Relay!TypeOK
  <2>2. x = [track |-> track, told |-> told, work |-> w, down |-> down]
    BY DEF Relay!State
  <2>. HIDE DEF w, x
  <2>. QED BY <2>1, <2>2 DEF Relay!TypeOK, Kept, Answer, RelayPeer
<1>. QED BY <1>1, <1>2, SendTypes DEF Relay!Finish

LEMMA ExpireTypes ==
  ASSUME Relay!TypeOK, NEW r \in Requests, Relay!Track(r) \/ Relay!Expire(r)
  PROVE  Relay!TypeOK'
<1>1. CASE Relay!Track(r)
  BY <1>1 DEF Relay!Track, Relay!TypeOK
<1>2. CASE Relay!Expire(r)
  <2>1. Kept([Relay!State EXCEPT !.track[r] = "over"]) /\ "timeout" \in Answer
    BY WithTrack DEF Answer
  <2>2. Kept(Relay!Told([Relay!State EXCEPT !.track[r] = "over"], r, "timeout"))
    BY <2>1, ToldKept
  <2>3. up' = up /\ up \in [RelayPeer -> Seq(Relay!ToService)] /\ \A p \in RelayPeer \ linked : up[p] = <<>>
    BY <1>2 DEF Relay!Expire, Relay!TypeOK, RelayPeer
  <2>4. /\ Relay!Becomes(Relay!Told([Relay!State EXCEPT !.track[r] = "over"], r, "timeout"))
        /\ UNCHANGED <<linked, breaks>>
    BY <1>2 DEF Relay!Expire
  <2>. QED BY <2>2, <2>3, <2>4, Returned
<1>. QED BY <1>1, <1>2

LEMMA CoordReceivesTypes ==
  ASSUME Relay!TypeOK, NEW p \in RelayPeer, Relay!CoordReceives(p)
  PROVE  Relay!TypeOK'
<1>1. /\ up[p] # <<>> /\ up' = [up EXCEPT ![p] = Tail(@)]
      /\ Relay!CoordDispatch(Head(up[p]), Relay!State) /\ UNCHANGED <<linked, breaks>>
  BY DEF Relay!CoordReceives
<1>2. up \in [RelayPeer -> Seq(Relay!ToService)] /\ \A q \in RelayPeer \ linked : up[q] = <<>>
  BY DEF Relay!TypeOK, RelayPeer
<1>3. Head(up[p]) \in Relay!ToService /\ Tail(up[p]) \in Seq(Relay!ToService) /\ p \in linked
  BY <1>1, <1>2
<1>4. PICK x : Kept(x) /\ Relay!Becomes(x)
  BY <1>1, <1>3, StateKept, DispatchKeeps, FrameFacts
<1>5. up' \in [RelayPeer -> Seq(Relay!ToService)] /\ \A q \in RelayPeer \ linked : up'[q] = <<>>
  BY <1>1, <1>2, <1>3
<1>. QED BY <1>1, <1>4, <1>5, Returned

LEMMA PeerReceivesTypes ==
  ASSUME Relay!TypeOK, NEW p \in RelayPeer, Relay!PeerReceives(p)
  PROVE  Relay!TypeOK'
<1>. DEFINE d == [down EXCEPT ![p] = Tail(@)]
            x == [Relay!State EXCEPT !.down[p] = Tail(@)]
<1>1. /\ down[p] # <<>> /\ Relay!Becomes(Relay!ClientDoes(x, p, Head(down[p])))
      /\ UNCHANGED <<up, linked, breaks>>
  BY DEF Relay!PeerReceives
<1>2. down \in [RelayPeer -> Seq(Relay!ToClient)] /\ \A q \in RelayPeer \ linked : down[q] = <<>>
  BY DEF Relay!TypeOK, RelayPeer
<1>3. Head(down[p]) \in Relay!ToClient /\ Tail(down[p]) \in Seq(Relay!ToClient) /\ p \in linked
  BY <1>1, <1>2
<1>4. Kept(x)
  <2>1. d \in [RelayPeer -> Seq(Relay!ToClient)] /\ \A q \in RelayPeer \ linked : d[q] = <<>>
    BY <1>2, <1>3
  <2>2. x = [Relay!State EXCEPT !.down = d]
    BY DEF Relay!State
  <2>. HIDE DEF d, x
  <2>3. x = [track |-> track, told |-> told, work |-> work, down |-> d]
    BY <2>2 DEF Relay!State
  <2>. QED BY <2>1, <2>3 DEF Relay!TypeOK, Kept, Answer
<1>. HIDE DEF x
<1>5. Kept(Relay!ClientDoes(x, p, Head(down[p])))
  BY <1>3, <1>4, ClientKeeps
<1>6. up' \in [RelayPeer -> Seq(Relay!ToService)] /\ \A q \in RelayPeer \ linked : up'[q] = <<>>
  BY <1>1 DEF Relay!TypeOK, RelayPeer
<1>. QED BY <1>1, <1>5, <1>6, Returned

LEMMA RelayBreakTypes ==
  ASSUME Relay!TypeOK, NEW p \in RelayPeer, Relay!Break(p) \/ Relay!Rebind(p)
  PROVE  Relay!TypeOK'
<1>1. CASE Relay!Rebind(p)
  BY <1>1 DEF Relay!Rebind, Relay!TypeOK, RelayPeer
<1>2. CASE Relay!Break(p)
  <2>1. /\ breaks < 1 /\ breaks' = breaks + 1 /\ linked' = linked \ {p} /\ UNCHANGED <<track, told>>
        /\ up' = [up EXCEPT ![p] = <<>>] /\ down' = [down EXCEPT ![p] = <<>>]
    BY <1>2 DEF Relay!Break
  <2>2. work' \in [Requests -> {"no", "running", "done", "lost"}]
    <3>1. \A r \in Requests : work[r] \in {"no", "running", "done", "lost"}
      BY DEF Relay!TypeOK
    <3>2. work' = [r \in Requests |->
                     IF r.target = p /\ Relay!Contains(down[p], Relay!F("update_command", r))
                     THEN "lost" ELSE work[r]]
      BY <1>2 DEF Relay!Break
    <3>. QED BY <3>1, <3>2
  <2>3. <<>> \in Seq(Relay!ToService) /\ <<>> \in Seq(Relay!ToClient)
    BY EmptySeq
  <2>. QED BY <2>1, <2>2, <2>3 DEF Relay!TypeOK, RelayPeer
<1>. QED BY <1>1, <1>2

LEMMA RelayInit == Relay!Init => Relay!TypeOK
<1>1. <<>> \in Seq(Relay!ToService) /\ <<>> \in Seq(Relay!ToClient) /\ <<>> \in Seq(Answer)
  BY EmptySeq
<1>. QED BY <1>1 DEF Relay!Init, Relay!TypeOK, Answer

LEMMA RelayNext == Relay!TypeOK /\ [Relay!Next]_relayVars => Relay!TypeOK'
<1>. SUFFICES ASSUME Relay!TypeOK, [Relay!Next]_relayVars PROVE Relay!TypeOK'
  OBVIOUS
<1>1. CASE UNCHANGED relayVars
  BY <1>1 DEF relayVars, Relay!TypeOK
<1>2. ASSUME NEW r \in Requests, Relay!Ask(r) \/ Relay!Track(r) \/ Relay!Expire(r) \/ Relay!Finish(r)
      PROVE  Relay!TypeOK'
  BY <1>2, AskTypes, ExpireTypes, FinishTypes
<1>3. ASSUME NEW p \in RelayPeer,
             Relay!CoordReceives(p) \/ Relay!PeerReceives(p) \/ Relay!Break(p) \/ Relay!Rebind(p)
      PROVE  Relay!TypeOK'
  BY <1>3, CoordReceivesTypes, PeerReceivesTypes, RelayBreakTypes
<1>. QED BY <1>1, <1>2, <1>3 DEF Relay!Next, RelayPeer

-----------------------------------------------------------------------------
(***************************************************************************)
(* Types of the lease service, here between one controller and one target  *)
(* that may both go: the argument of TypeCorrect in LeaseServiceProofs.    *)
(***************************************************************************)
LEMMA OthersFinite == IsFiniteSet({n2, n3})
<1>. {n2, n3} = ({} \cup {n2}) \cup {n3}
  OBVIOUS
<1>. QED BY FS_EmptySet, FS_AddElement

LEMMA CountsAre == \A S : Leases!Cardinality(S) = Cardinality(S)
BY DEF Leases!Cardinality, Cardinality

LEMMA LeaseThreadNames ==
  /\ Leases!Expiry \in Leases!Thread
  /\ \A n \in {n2, n3} : /\ Leases!Recv(n) \in Leases!Thread
                         /\ Leases!Link(n) \in Leases!Thread /\ Leases!Last(n) \in Leases!Thread
BY DEF Leases!Thread, Leases!Recv, Leases!Link, Leases!Last, Leases!Expiry

LEMMA LeaseStepTypes ==
  ASSUME NEW t \in {n2, n3}, NEW n \in {n2, n3}
  PROVE  /\ \A c \in {n2, n3} : /\ Leases!Grant(t, c) \in Leases!Step
                            /\ Leases!Deny(t, c) \in Leases!Step
                            /\ \A what \in Leases!ForWho : Leases!Do(what, n, t, c) \in Leases!Step
         /\ \A c \in {n2, n3} \cup {None} : /\ Leases!LeaseUpdate(t, c) \in Leases!Step
                                       /\ \A what \in Leases!ForAny : Leases!Do(what, n, t, c) \in Leases!Step
BY DEF Leases!LeaseUpdate, Leases!Grant, Leases!Deny, Leases!Do, Leases!Step, Leases!ForWho, Leases!ForAny

(***************************************************************************)
(* A thread that is not idle has a step to take, and others after it.      *)
(***************************************************************************)
LEMMA LeaseNextStep ==
  ASSUME Leases!TypeOK, NEW th \in Leases!Thread, ~Leases!Idle(th)
  PROVE  /\ Leases!Next1(th) \in Leases!Step
         /\ Leases!Next1(th).to \in {n2, n3}
         /\ Leases!Next1(th).target \in {n2, n3}
         /\ Leases!Next1(th).who \in {n2, n3} \cup {None}
         /\ Leases!Next1(th).do \in Leases!ForWho => Leases!Next1(th).who \in {n2, n3}
         /\ Tail(todo[th]) \in Seq(Leases!Step)
<1>1. todo[th] \in Seq(Leases!Step) /\ todo[th] # <<>>
  BY DEF Leases!TypeOK, Leases!Idle
<1>2. Leases!Next1(th) \in Leases!Step /\ Tail(todo[th]) \in Seq(Leases!Step)
  BY <1>1 DEF Leases!Next1
<1>3. QED
  BY <1>2 DEF Leases!Step, Leases!ForWho, Leases!ForAny

(***************************************************************************)
(* Starting or continuing a handler with well-typed given keeps todo       *)
(* well-typed.                                                             *)
(***************************************************************************)
LEMMA LeaseContinuesType ==
  ASSUME Leases!TypeOK, NEW th \in Leases!Thread, ~Leases!Idle(th),
         NEW given \in Seq(Leases!Step), Leases!Continues(th, given)
  PROVE  todo' \in [Leases!Thread -> Seq(Leases!Step)]
<1>1. given \o Tail(todo[th]) \in Seq(Leases!Step)
  BY LeaseNextStep
<1>2. QED
  BY <1>1 DEF Leases!Continues, Leases!TypeOK

LEMMA LeaseStartsType ==
  ASSUME Leases!TypeOK, NEW th \in Leases!Thread, NEW given \in Seq(Leases!Step), Leases!Starts(th, given)
  PROVE  todo' \in [Leases!Thread -> Seq(Leases!Step)]
BY DEF Leases!Starts, Leases!TypeOK

(***************************************************************************)
(* Giving a lease to a peer, or dropping it, keeps the lease table well-   *)
(* typed.                                                                  *)
(***************************************************************************)
LEMMA LeaseHoldType ==
  ASSUME Leases!TypeOK, NEW t \in {n2, n3}, NEW c \in {n2, n3}, Leases!Hold(t, c)
  PROVE  leases' \in [{n2, n3} -> {n2, n3} \cup {None}] /\ ttl' \in [{n2, n3} -> 0 .. 1]
BY DEF Leases!Hold, Leases!TypeOK

LEMMA LeaseDropType ==
  ASSUME Leases!TypeOK, NEW t \in {n2, n3}, Leases!Drop(t)
  PROVE  leases' \in [{n2, n3} -> {n2, n3} \cup {None}] /\ ttl' \in [{n2, n3} -> 0 .. 1]
BY DEF Leases!Drop, Leases!TypeOK

-----------------------------------------------------------------------------
(***************************************************************************)
(* The service starts well-typed: all peers connected, no lease, no thread *)
(* at work.                                                                *)
(***************************************************************************)
LEMMA LeaseInitType == Leases!Init => Leases!TypeOK
BY DEF Leases!Init, Leases!TypeOK

(***************************************************************************)
(* The part of a claim, release, override or heartbeat that runs before    *)
(* the lock, or all of it, keeps the state well-typed.                     *)
(***************************************************************************)
LEMMA LeaseRequestType ==
  ASSUME Leases!TypeOK, NEW c \in {n2, n3}, NEW t \in {n2, n3},
         Leases!Claim(c, t) \/ Leases!Release(c, t) \/ Leases!Override(t, c) \/ Leases!Heartbeat(c, t)
  PROVE  Leases!TypeOK'
<1>1. Leases!Recv(c) \in Leases!Thread /\ Leases!Recv(t) \in Leases!Thread
  BY LeaseThreadNames
<1>2. CASE Leases!Claim(c, t)
  <2>1. PICK s \in Leases!Step : Leases!Starts(Leases!Recv(c), <<s>>)
    <3>1. Leases!Do("claim", c, t, c) \in Leases!Step /\ Leases!Deny(t, c) \in Leases!Step
      BY LeaseStepTypes DEF Leases!ForWho
    <3>2. CASE Leases!Online(t)
      BY <1>2, <3>1, <3>2 DEF Leases!Claim
    <3>3. CASE ~Leases!Online(t)
      BY <1>2, <3>1, <3>3 DEF Leases!Claim
    <3>4. QED
      BY <3>2, <3>3
  <2>2. todo' \in [Leases!Thread -> Seq(Leases!Step)]
    <3>1. <<s>> \in Seq(Leases!Step)
      OBVIOUS
    <3>2. QED
      BY <1>1, <2>1, <3>1, LeaseStartsType
  <2>3. QED
    BY <1>2, <2>2 DEF Leases!Claim, Leases!TypeOK
<1>3. CASE Leases!Release(c, t)
  <2>1. CASE leases[t] = c /\ Leases!Drop(t) /\ Leases!Starts(Leases!Recv(c), <<Leases!LeaseUpdate(t, None)>>)
    <3>1. <<Leases!LeaseUpdate(t, None)>> \in Seq(Leases!Step)
      BY LeaseStepTypes
    <3>2. todo' \in [Leases!Thread -> Seq(Leases!Step)]
      BY <1>1, <2>1, <3>1, LeaseStartsType
    <3>3. QED
      BY <1>3, <2>1, <3>2, LeaseDropType DEF Leases!Release, Leases!TypeOK
  <2>2. CASE UNCHANGED <<leases, ttl, todo>>
    BY <1>3, <2>2 DEF Leases!Release, Leases!TypeOK
  <2>3. QED
    BY <1>3, <2>1, <2>2 DEF Leases!Release
<1>4. CASE Leases!Override(t, c)
  <2>1. CASE /\ leases[t] = c
             /\ Leases!Drop(t)
             /\ Leases!Starts(Leases!Recv(t), <<Leases!LeaseUpdate(t, None), Leases!Deny(t, c)>>)
    <3>1. <<Leases!LeaseUpdate(t, None), Leases!Deny(t, c)>> \in Seq(Leases!Step)
      BY LeaseStepTypes
    <3>2. todo' \in [Leases!Thread -> Seq(Leases!Step)]
      BY <1>1, <2>1, <3>1, LeaseStartsType
    <3>3. QED
      BY <1>4, <2>1, <3>2, LeaseDropType DEF Leases!Override, Leases!TypeOK
  <2>2. CASE UNCHANGED <<leases, ttl, todo>>
    BY <1>4, <2>2 DEF Leases!Override, Leases!TypeOK
  <2>3. QED
    BY <1>4, <2>1, <2>2 DEF Leases!Override
<1>5. CASE Leases!Heartbeat(c, t)
  <2>1. PICK s \in Leases!Step : Leases!Starts(Leases!Recv(c), <<s>>)
    <3>1. Leases!Do("heartbeat", c, t, c) \in Leases!Step /\ Leases!Do("hb_offline", c, t, c) \in Leases!Step
      BY LeaseStepTypes DEF Leases!ForWho
    <3>2. QED
      BY <1>5, <3>1 DEF Leases!Heartbeat
  <2>2. todo' \in [Leases!Thread -> Seq(Leases!Step)]
    <3>1. <<s>> \in Seq(Leases!Step)
      OBVIOUS
    <3>2. QED
      BY <1>1, <2>1, <3>1, LeaseStartsType
  <2>3. QED
    BY <1>5, <2>2 DEF Leases!Heartbeat, Leases!TypeOK
<1>6. QED
  BY <1>2, <1>3, <1>4, <1>5

(***************************************************************************)
(* The locked parts of claim and heartbeat keep the state well-typed.      *)
(***************************************************************************)
LEMMA LeaseLockedType ==
  ASSUME Leases!TypeOK, NEW th \in Leases!Thread,
         Leases!ClaimLocked(th) \/ Leases!HeartbeatOffline(th) \/ Leases!HeartbeatLocked(th)
  PROVE  Leases!TypeOK'
<1> DEFINE t == Leases!Next1(th).target
           c == Leases!Next1(th).who
<1>1. ~Leases!Idle(th) /\ Leases!Next1(th).do \in Leases!ForWho
  BY DEF Leases!ClaimLocked, Leases!HeartbeatOffline, Leases!HeartbeatLocked, Leases!Runs, Leases!ForWho
<1>2. t \in {n2, n3} /\ c \in {n2, n3}
  BY <1>1, LeaseNextStep
<1>3. /\ <<>> \in Seq(Leases!Step)
      /\ <<Leases!LeaseUpdate(t, c), Leases!Grant(t, c)>> \in Seq(Leases!Step)
      /\ <<Leases!LeaseUpdate(t, None), Leases!Deny(t, c)>> \in Seq(Leases!Step)
      /\ <<Leases!LeaseUpdate(t, c)>> \in Seq(Leases!Step)
      /\ <<Leases!Deny(t, c)>> \in Seq(Leases!Step)
  BY <1>2, LeaseStepTypes
<1>4. UNCHANGED conn
  BY DEF Leases!ClaimLocked, Leases!HeartbeatOffline, Leases!HeartbeatLocked
<1>5. todo' \in [Leases!Thread -> Seq(Leases!Step)]
  <2>1. PICK given \in Seq(Leases!Step) : Leases!Continues(th, given)
    <3> HIDE DEF t, c
    <3>1. CASE Leases!ClaimLocked(th)
      BY <1>3, <3>1 DEF Leases!ClaimLocked, t, c
    <3>2. CASE Leases!HeartbeatOffline(th)
      BY <1>3, <3>2 DEF Leases!HeartbeatOffline, t, c
    <3>3. CASE Leases!HeartbeatLocked(th)
      BY <1>3, <3>3 DEF Leases!HeartbeatLocked, t, c
    <3>4. QED
      BY <3>1, <3>2, <3>3
  <2>2. QED
    BY <1>1, <2>1, LeaseContinuesType
<1>6. \/ Leases!Hold(t, c)
      \/ Leases!Drop(t)
      \/ UNCHANGED <<leases, ttl>>
  BY DEF Leases!ClaimLocked, Leases!HeartbeatOffline, Leases!HeartbeatLocked
<1>7. leases' \in [{n2, n3} -> {n2, n3} \cup {None}] /\ ttl' \in [{n2, n3} -> 0 .. 1]
  <2>1. CASE Leases!Hold(t, c)
    BY <1>2, <2>1, LeaseHoldType
  <2>2. CASE Leases!Drop(t)
    BY <1>2, <2>2, LeaseDropType
  <2>3. CASE UNCHANGED <<leases, ttl>>
    BY <2>3 DEF Leases!TypeOK
  <2>4. QED
    BY <1>6, <2>1, <2>2, <2>3
<1>8. QED
  BY <1>4, <1>5, <1>7 DEF Leases!TypeOK

(***************************************************************************)
(* The unbind and the registry listener keep the state well-typed: whoever *)
(* loses a lease that is dropped is a peer, so the deny has an addressee.  *)
(***************************************************************************)
LEMMA LeaseListenerType ==
  ASSUME Leases!TypeOK, NEW th \in Leases!Thread,
         Leases!BoundLocked(th) \/ Leases!Unbind(th) \/ Leases!UnboundLocked(th)
  PROVE  Leases!TypeOK'
<1> DEFINE n == Leases!Next1(th).target
<1>1. ~Leases!Idle(th)
  BY DEF Leases!BoundLocked, Leases!Unbind, Leases!UnboundLocked, Leases!Runs
<1>2. n \in {n2, n3} /\ leases[n] \in {n2, n3} \cup {None}
  BY <1>1, LeaseNextStep DEF Leases!TypeOK
<1>3. CASE Leases!BoundLocked(th)
  <2>1. Leases!Continues(th, <<Leases!LeaseUpdate(n, leases[n])>>) /\ UNCHANGED <<conn, leases, ttl>>
    BY <1>3 DEF Leases!BoundLocked
  <2>2. <<Leases!LeaseUpdate(n, leases[n])>> \in Seq(Leases!Step)
    BY <1>2, LeaseStepTypes
  <2>3. todo' \in [Leases!Thread -> Seq(Leases!Step)]
    BY <1>1, <2>1, <2>2, LeaseContinuesType
  <2>4. QED
    BY <2>1, <2>3 DEF Leases!TypeOK
<1>4. CASE Leases!Unbind(th)
  <2>1. <<Leases!Do("unbound", n, n, None)>> \in Seq(Leases!Step) /\ <<>> \in Seq(Leases!Step)
    BY <1>2, LeaseStepTypes DEF Leases!ForAny
  <2>2. todo' \in [Leases!Thread -> Seq(Leases!Step)]
    <3>1. PICK given \in Seq(Leases!Step) : Leases!Continues(th, given)
      BY <1>4, <2>1 DEF Leases!Unbind
    <3>2. QED
      BY <1>1, <3>1, LeaseContinuesType
  <2>3. conn' \in [{n2, n3} -> {"up", "closing", "down"}] /\ UNCHANGED <<leases, ttl>>
    BY <1>2, <1>4 DEF Leases!Unbind, Leases!TypeOK
  <2>4. QED
    BY <2>2, <2>3 DEF Leases!TypeOK
<1>5. CASE Leases!UnboundLocked(th)
  <2>1. CASE leases[n] # None
    <3>1. /\ Leases!Drop(n)
          /\ Leases!Continues(th, <<Leases!LeaseUpdate(n, None), Leases!Deny(n, leases[n])>>)
          /\ UNCHANGED conn
      BY <1>5, <2>1 DEF Leases!UnboundLocked
    <3>2. <<Leases!LeaseUpdate(n, None), Leases!Deny(n, leases[n])>> \in Seq(Leases!Step)
      BY <1>2, <2>1, LeaseStepTypes
    <3>3. todo' \in [Leases!Thread -> Seq(Leases!Step)]
      BY <1>1, <3>1, <3>2, LeaseContinuesType
    <3>4. QED
      BY <1>2, <3>1, <3>3, LeaseDropType DEF Leases!TypeOK
  <2>2. CASE leases[n] = None
    <3>1. Leases!Continues(th, <<>>) /\ UNCHANGED <<conn, leases, ttl>>
      BY <1>5, <2>2 DEF Leases!UnboundLocked
    <3>2. todo' \in [Leases!Thread -> Seq(Leases!Step)]
      <4>1. <<>> \in Seq(Leases!Step)
        OBVIOUS
      <4>2. QED
        BY <1>1, <3>1, <4>1, LeaseContinuesType
    <3>3. QED
      BY <3>1, <3>2 DEF Leases!TypeOK
  <2>3. QED
    BY <2>1, <2>2
<1>6. QED
  BY <1>3, <1>4, <1>5

(***************************************************************************)
(* Sending a frame keeps the state well-typed, also when it fails and the  *)
(* sender has the unbind to run.                                           *)
(***************************************************************************)
LEMMA LeaseSendType ==
  ASSUME Leases!TypeOK, NEW th \in Leases!Thread, Leases!Send(th) \/ Leases!SendFails(th)
  PROVE  Leases!TypeOK'
<1> DEFINE n == Leases!Next1(th).to
<1>1. ~Leases!Idle(th)
  BY DEF Leases!Send, Leases!SendFails, Leases!Sending
<1>2. n \in {n2, n3}
  BY <1>1, LeaseNextStep
<1>3. CASE Leases!Send(th)
  <2>1. todo' \in [Leases!Thread -> Seq(Leases!Step)]
    <3>1. <<>> \in Seq(Leases!Step)
      OBVIOUS
    <3>2. QED
      BY <1>1, <1>3, <3>1, LeaseContinuesType DEF Leases!Send
  <2>2. QED
    BY <1>3, <2>1 DEF Leases!Send, Leases!TypeOK
<1>4. CASE Leases!SendFails(th)
  <2>1. <<Leases!Do("unbind", n, n, None)>> \in Seq(Leases!Step)
    BY <1>2, LeaseStepTypes DEF Leases!ForAny
  <2>2. todo' \in [Leases!Thread -> Seq(Leases!Step)]
    BY <1>1, <1>4, <2>1, LeaseContinuesType DEF Leases!SendFails
  <2>3. QED
    BY <1>4, <2>2 DEF Leases!SendFails, Leases!TypeOK
<1>5. QED
  BY <1>3, <1>4

(***************************************************************************)
(* Binding and closing a connection keep the state well-typed.             *)
(***************************************************************************)
LEMMA LeaseLinkType ==
  ASSUME Leases!TypeOK, NEW n \in {n2, n3}, Leases!Bind(n) \/ Leases!Close(n)
  PROVE  Leases!TypeOK'
<1>1. Leases!Link(n) \in Leases!Thread /\ Leases!Last(n) \in Leases!Thread
  BY LeaseThreadNames
<1>2. /\ <<Leases!Do("bound", n, n, None)>> \in Seq(Leases!Step)
      /\ <<Leases!Do("unbind", n, n, None)>> \in Seq(Leases!Step)
  BY LeaseStepTypes DEF Leases!ForAny
<1>3. CASE Leases!Bind(n)
  BY <1>1, <1>2, <1>3 DEF Leases!Bind, Leases!TypeOK
<1>4. CASE Leases!Close(n)
  <2>1. todo' \in [Leases!Thread -> Seq(Leases!Step)]
    BY <1>1, <1>2, <1>4, LeaseStartsType DEF Leases!Close
  <2>2. QED
    BY <1>4, <2>1 DEF Leases!Close, Leases!TypeOK
<1>5. QED
  BY <1>3, <1>4

(***************************************************************************)
(* A pass of the expiry thread keeps the state well-typed: the targets are *)
(* told in an order, a sequence of lease updates.                          *)
(***************************************************************************)
LEMMA LeaseExpiryType ==
  ASSUME Leases!TypeOK, Leases!ExpireOnce
  PROVE  Leases!TypeOK'
<1> DEFINE size == Leases!Cardinality(Leases!Expired)
<1>1. size \in Nat
  <2>1. Leases!Expired \subseteq {n2, n3}
    BY DEF Leases!Expired
  <2>2. QED
    BY <2>1, FS_Subset, FS_CardinalityType, OthersFinite, CountsAre
<1>2. PICK order \in [1 .. size -> Leases!Expired] :
        Leases!Starts(Leases!Expiry, [i \in 1 .. size |-> Leases!LeaseUpdate(order[i], None)])
  BY DEF Leases!ExpireOnce
<1>3. [i \in 1 .. size |-> Leases!LeaseUpdate(order[i], None)] \in Seq(Leases!Step)
  <2>1. \A i \in 1 .. size : Leases!LeaseUpdate(order[i], None) \in Leases!Step
    <3>1. \A i \in 1 .. size : order[i] \in {n2, n3}
      BY DEF Leases!Expired
    <3>2. QED
      BY <3>1, LeaseStepTypes
  <2>2. QED
    BY <1>1, <2>1, IsASeq
<1>4. todo' \in [Leases!Thread -> Seq(Leases!Step)]
  BY <1>2, <1>3, LeaseThreadNames, LeaseStartsType
<1>5. leases' \in [{n2, n3} -> {n2, n3} \cup {None}]
  BY DEF Leases!ExpireOnce, Leases!TypeOK
<1>6. QED
  BY <1>4, <1>5 DEF Leases!ExpireOnce, Leases!TypeOK

(***************************************************************************)
(* The passing of time keeps the remaining lifetimes within the TTL.       *)
(***************************************************************************)
LEMMA LeaseTickType ==
  ASSUME Leases!TypeOK, Leases!Tick
  PROVE  Leases!TypeOK'
BY DEF Leases!Tick, Leases!TypeOK

LEMMA LeaseNext == Leases!TypeOK /\ [Leases!Next]_leaseVars => Leases!TypeOK'
<1>. SUFFICES ASSUME Leases!TypeOK, [Leases!Next]_leaseVars PROVE Leases!TypeOK'
  OBVIOUS
<1>1. CASE \E c, t \in {n2, n3} : \/ Leases!Claim(c, t) \/ Leases!Release(c, t)
                                  \/ Leases!Override(t, c) \/ Leases!Heartbeat(c, t)
  BY <1>1, LeaseRequestType
<1>2. CASE \E th \in Leases!Thread : Leases!ThreadStep(th) \/ Leases!SendFails(th)
  BY <1>2, LeaseLockedType, LeaseListenerType, LeaseSendType DEF Leases!ThreadStep
<1>3. CASE \E n \in {n2, n3} : Leases!Bind(n) \/ Leases!Close(n)
  BY <1>3, LeaseLinkType
<1>4. CASE Leases!ExpireOnce
  BY <1>4, LeaseExpiryType
<1>5. CASE Leases!Tick
  BY <1>5, LeaseTickType
<1>6. CASE UNCHANGED leaseVars
  BY <1>6 DEF leaseVars, Leases!TypeOK
<1>. QED BY <1>1, <1>2, <1>3, <1>4, <1>5, <1>6 DEF Leases!Next

-----------------------------------------------------------------------------
(***************************************************************************)
(* Types of LayoutEdit.  A revision has a layout behind it: each layout is *)
(* counted once, and until then it is the next step of a thread of the     *)
(* coordinator or in the connection of a peer.  Those places are owed;     *)
(* thread t is <<t, 0>>, and <<p, i>> is the i-th frame of peer p.         *)
(***************************************************************************)
IsLayout(f) == f.kind \in {"publish", "toggle"}
Numbers(t)  == steps[t] # <<>> /\ Head(steps[t]).do = "number"
Sent(p, i)  == i \in 1 .. Len(eUp[p]) /\ IsLayout(eUp[p][i])

IsOwed(t, i) == IF i = 0 THEN Numbers(t) ELSE t \in EditPeer /\ Sent(t, i)
Owed == {x \in Editing!Thread \X Nat : IsOwed(x[1], x[2])}

LayoutBudget ==
  /\ IsFiniteSet(Owed) /\ revision + Cardinality(Owed) <= layouts
  /\ layouts <= eEvents

\* a thread numbers a layout first, whatever else it has to do
Plain(s) == \A i \in 1 .. Len(s) : s[i].do # "number"
Tidy(s)  == \A i \in 2 .. Len(s) : s[i].do # "number"

EditBound == /\ Editing!TypeOK /\ LayoutBudget
             /\ \A t \in Editing!Thread : Tidy(steps[t])

LEMMA EditNames ==
  /\ n1 \in Editing!Thread /\ n1 \in Editing!Node /\ "bound" \in Editing!Thread
  /\ EditPeer \subseteq Editing!Thread /\ EditPeer \subseteq Editing!Node
  /\ Editing!Node \subseteq Editing!Thread
  /\ Editing!Node \subseteq Editing!Who /\ None \in Editing!Who /\ n1 \notin EditPeer
BY NodesDiffer DEF Editing!Thread, Editing!Node, Editing!Who

(***************************************************************************)
(* What is owed after a step.                                              *)
(***************************************************************************)
LEMMA FromOwed ==
  ASSUME NEW S, IsFiniteSet(S), NEW T, NEW f, \A y \in T : \E x \in S : f[x] = y, DOMAIN f = S
  PROVE  IsFiniteSet(T) /\ Cardinality(T) <= Cardinality(S)
<1>. DEFINE R == {x \in S : f[x] \in T}
            g == [x \in R |-> f[x]]
<1>1. IsFiniteSet(R) /\ Cardinality(R) <= Cardinality(S)
  BY FS_Subset
<1>2. g \in [R -> T] /\ \A y \in T : \E x \in R : g[x] = y
  OBVIOUS
<1>. HIDE DEF g, R
<1>3. g \in Surjection(R, T)
  BY <1>2 DEF Surjection
<1>4. IsFiniteSet(T) /\ Cardinality(T) <= Cardinality(R)
  BY <1>1, <1>3, FS_Surjection
<1>. QED BY <1>1, <1>4, FS_CardinalityType

LEMMA SmallerOwed ==
  ASSUME NEW S, IsFiniteSet(S), NEW T, NEW y
  PROVE  /\ Cardinality(S) \in Nat
         /\ T \subseteq S => IsFiniteSet(T) /\ Cardinality(T) \in Nat /\ Cardinality(T) <= Cardinality(S)
         /\ T \subseteq S \cup {y} =>
              IsFiniteSet(T) /\ Cardinality(T) \in Nat /\ Cardinality(T) <= Cardinality(S) + 1
         /\ y \in S /\ T \subseteq S \ {y} =>
              IsFiniteSet(T) /\ Cardinality(T) \in Nat /\ Cardinality(T) + 1 <= Cardinality(S)
<1>1. Cardinality(S) \in Nat
  BY FS_CardinalityType
<1>2. ASSUME NEW U, IsFiniteSet(U), T \subseteq U
      PROVE  IsFiniteSet(T) /\ Cardinality(T) \in Nat /\ Cardinality(T) <= Cardinality(U)
  BY <1>2, FS_Subset, FS_CardinalityType
<1>3. IsFiniteSet(S \cup {y}) /\ Cardinality(S \cup {y}) <= Cardinality(S) + 1
  BY <1>1, FS_AddElement
<1>4. IsFiniteSet(S \ {y}) /\ (y \in S => Cardinality(S \ {y}) = Cardinality(S) - 1)
  BY FS_RemoveElement
<1>5. ASSUME T \subseteq S \cup {y}
      PROVE  IsFiniteSet(T) /\ Cardinality(T) \in Nat /\ Cardinality(T) <= Cardinality(S) + 1
  <2>1. IsFiniteSet(T) /\ Cardinality(T) \in Nat /\ Cardinality(T) <= Cardinality(S \cup {y})
    BY <1>2, <1>3, <1>5
  <2>2. Cardinality(S \cup {y}) \in Nat
    BY <1>3, FS_CardinalityType
  <2>. QED BY <1>1, <1>3, <2>1, <2>2
<1>6. ASSUME y \in S, T \subseteq S \ {y}
      PROVE  IsFiniteSet(T) /\ Cardinality(T) \in Nat /\ Cardinality(T) + 1 <= Cardinality(S)
  BY <1>1, <1>2, <1>4, <1>6
<1>. QED BY <1>1, <1>2, <1>5, <1>6

BudgetTypes ==
  revision \in Nat /\ layouts \in Nat /\ eEvents \in Nat

LEMMA OwedStays ==
  ASSUME BudgetTypes, LayoutBudget,
         \A u \in Editing!Thread : Numbers(u)' => Numbers(u),
         \A p \in EditPeer : \A i \in Nat \ {0} : Sent(p, i)' => Sent(p, i),
         revision' = revision, layouts' = layouts, eEvents' \in {eEvents, eEvents + 1}
  PROVE  LayoutBudget'
<1>. DEFINE a == Owed
            b == Owed'
<1>1. b \subseteq a
  BY DEF Owed, IsOwed
<1>2. IsFiniteSet(a) /\ revision + Cardinality(a) <= layouts /\ layouts <= eEvents
  BY DEF LayoutBudget
<1>3. IsFiniteSet(b) /\ revision' + Cardinality(b) <= layouts'
  <2>. HIDE DEF a, b
  <2>. QED BY <1>1, <1>2, SmallerOwed DEF BudgetTypes
<1>4. layouts' <= eEvents'
  BY <1>2 DEF BudgetTypes
<1>. QED BY <1>3, <1>4 DEF LayoutBudget

LEMMA OwedMore ==
  ASSUME BudgetTypes, LayoutBudget, NEW t, NEW j,
         \A u \in Editing!Thread : Numbers(u)' => Numbers(u) \/ (u = t /\ j = 0),
         \A p \in EditPeer : \A i \in Nat \ {0} : Sent(p, i)' => Sent(p, i) \/ (p = t /\ i = j),
         revision' = revision, layouts' = layouts + 1, eEvents' = eEvents + 1
  PROVE  LayoutBudget'
<1>. DEFINE a == Owed
            b == Owed'
            y == <<t, j>>
<1>1. b \subseteq a \cup {y}
  BY DEF Owed, IsOwed
<1>2. IsFiniteSet(a) /\ revision + Cardinality(a) <= layouts /\ layouts <= eEvents
  BY DEF LayoutBudget
<1>3. IsFiniteSet(b) /\ revision' + Cardinality(b) <= layouts'
  <2>. HIDE DEF a, b, y
  <2>. QED BY <1>1, <1>2, SmallerOwed DEF BudgetTypes
<1>4. layouts' <= eEvents'
  BY <1>2 DEF BudgetTypes
<1>. QED BY <1>3, <1>4 DEF LayoutBudget

LEMMA OwedCounted ==
  ASSUME BudgetTypes, LayoutBudget, NEW t \in Editing!Thread, Numbers(t),
         \A u \in Editing!Thread : Numbers(u)' => u # t /\ Numbers(u),
         UNCHANGED <<eUp, layouts, eEvents>>, revision' = revision + 1
  PROVE  LayoutBudget' /\ revision + 1 <= eEvents
<1>. DEFINE a == Owed
            b == Owed'
            y == <<t, 0>>
<1>1. y \in a /\ b \subseteq a \ {y}
  <2>1. y \in a
    BY DEF Owed, IsOwed
  <2>2. ASSUME NEW x \in b PROVE x \in a /\ x # y
    BY <2>2 DEF Owed, IsOwed, Sent
  <2>. QED BY <2>1, <2>2
<1>2. IsFiniteSet(a) /\ revision + Cardinality(a) <= layouts /\ layouts <= eEvents
  BY DEF LayoutBudget
<1>3. IsFiniteSet(b) /\ revision' + Cardinality(b) <= layouts' /\ revision + 1 <= layouts
  <2>. HIDE DEF a, b, y
  <2>1. /\ Cardinality(a) \in Nat /\ IsFiniteSet(b)
        /\ Cardinality(b) \in Nat /\ Cardinality(b) + 1 <= Cardinality(a)
    BY <1>1, <1>2, SmallerOwed
  <2>. QED BY <1>2, <2>1 DEF BudgetTypes
<1>4. layouts' <= eEvents' /\ revision + 1 <= eEvents
  BY <1>2, <1>3 DEF BudgetTypes
<1>. QED BY <1>3, <1>4 DEF LayoutBudget

\* the coordinator takes a frame of p, whose thread had nothing to do
LEMMA OwedMoves ==
  ASSUME BudgetTypes, LayoutBudget, NEW p \in EditPeer, ~Numbers(p),
         \A u \in Editing!Thread : Numbers(u)' => Numbers(u) \/ (u = p /\ Sent(p, 1)),
         \A q \in EditPeer : \A i \in Nat \ {0} : Sent(q, i)' => Sent(q, IF q = p THEN i + 1 ELSE i),
         UNCHANGED <<revision, layouts, eEvents>>
  PROVE  LayoutBudget'
<1>. DEFINE a == Owed
            b == Owed'
            f == [x \in a |-> IF x[1] = p THEN <<p, x[2] - 1>> ELSE x]
<1>1. ASSUME NEW y \in b PROVE \E x \in a : f[x] = y
  <2>1. PICK u \in Editing!Thread, i \in Nat : y = <<u, i>> /\ IsOwed(u, i)'
    BY <1>1 DEF Owed
  <2>2. p \in Editing!Thread
    BY EditNames
  <2>3. CASE u = p
    <3>1. IsOwed(p, i + 1) /\ i + 1 \in Nat
      BY <2>1, <2>3 DEF IsOwed
    <3>2. <<p, i + 1>> \in a
      BY <2>2, <3>1 DEF Owed
    <3>3. f[<<p, i + 1>>] = <<p, i>>
      BY <3>2
    <3>. QED BY <2>1, <2>3, <3>2, <3>3
  <2>4. CASE u # p
    <3>1. IsOwed(u, i)
      BY <2>1, <2>4 DEF IsOwed
    <3>2. y \in a /\ y[1] # p
      BY <2>1, <2>4, <3>1 DEF Owed
    <3>. QED BY <3>2
  <2>. QED BY <2>3, <2>4
<1>2. IsFiniteSet(a) /\ revision + Cardinality(a) <= layouts /\ layouts <= eEvents /\ DOMAIN f = a
  BY DEF LayoutBudget
<1>3. IsFiniteSet(b) /\ revision' + Cardinality(b) <= layouts'
  <2>. HIDE DEF a, b, f
  <2>1. IsFiniteSet(b) /\ Cardinality(b) <= Cardinality(a)
    BY <1>1, <1>2, FromOwed
  <2>2. Cardinality(a) \in Nat /\ Cardinality(b) \in Nat
    BY <1>2, <2>1, FS_CardinalityType
  <2>. QED BY <1>2, <2>1, <2>2 DEF BudgetTypes
<1>. QED BY <1>2, <1>3 DEF LayoutBudget

(***************************************************************************)
(* What threads have to do.                                                *)
(***************************************************************************)
AllTidy == \A t \in Editing!Thread : Tidy(steps[t])

LEMMA BudgetNumbers == Editing!TypeOK => BudgetTypes
BY BoundsAreNumbers DEF Editing!TypeOK, BudgetTypes

LEMMA PlainSteps ==
  ASSUME NEW n \in Editing!Node, NEW w \in Editing!Who
  PROVE  \A extra \in {<<>>, <<Editing!SendTo({n}, Editing!F("grant")), [do |-> "state"]>>,
                      <<[do |-> "state"]>>, <<Editing!SendTo({n}, [kind |-> "deny", who |-> w])>>} :
           extra \in Seq(Editing!Step) /\ Plain(extra)
<1>. DEFINE grant == Editing!SendTo({n}, Editing!F("grant"))
            deny  == Editing!SendTo({n}, [kind |-> "deny", who |-> w])
            state0 == [do |-> "state"]
<1>1. /\ grant \in Editing!Step /\ grant.do = "send"
      /\ deny \in Editing!Step /\ deny.do = "send"
      /\ state0 \in Editing!Step /\ state0.do = "state"
  BY DEF Editing!Step, Editing!Down, Editing!SendTo, Editing!F
<1>. HIDE DEF grant, deny, state0
<1>2. /\ <<>> \in Seq(Editing!Step) /\ <<grant, state0>> \in Seq(Editing!Step)
      /\ <<state0>> \in Seq(Editing!Step) /\ <<deny>> \in Seq(Editing!Step)
  BY <1>1
<1>3. Plain(<<>>) /\ Plain(<<grant, state0>>) /\ Plain(<<state0>>) /\ Plain(<<deny>>)
  BY <1>1 DEF Plain
<1>. QED BY <1>2, <1>3 DEF grant, deny, state0

LEMMA SendIsPlain ==
  ASSUME NEW x \in Editing!Step, x.do # "number"
  PROVE  <<x>> \in Seq(Editing!Step) /\ Plain(<<x>>)
BY DEF Plain

LEMMA NothingIsPlain == <<>> \in Seq(Editing!Step) /\ Plain(<<>>)
<1>1. <<>> \in Seq(Editing!Step)
  OBVIOUS
<1>. QED BY <1>1 DEF Plain

LEMMA PlainTail ==
  ASSUME NEW s \in Seq(Editing!Step), s # <<>>, Tidy(s)
  PROVE  Tail(s) \in Seq(Editing!Step) /\ Head(s) \in Editing!Step /\ Plain(Tail(s))
<1>1. /\ Len(s) \in Nat \ {0} /\ Len(Tail(s)) = Len(s) - 1 /\ Tail(s) \in Seq(Editing!Step)
      /\ Head(s) \in Editing!Step /\ \A i \in 1 .. Len(Tail(s)) : Tail(s)[i] = s[i + 1]
  BY HeadTailProperties, EmptySeq
<1>2. ASSUME NEW i \in 1 .. Len(Tail(s)) PROVE Tail(s)[i].do # "number"
  <2>1. i + 1 \in 2 .. Len(s) /\ Tail(s)[i] = s[i + 1]
    BY <1>1
  <2>. QED BY <2>1 DEF Tidy
<1>. QED BY <1>1, <1>2 DEF Plain

LEMMA PlainJoined ==
  ASSUME NEW s \in Seq(Editing!Step), NEW r \in Seq(Editing!Step), Plain(s), Plain(r)
  PROVE  /\ s \o r \in Seq(Editing!Step) /\ Tidy(s \o r)
         /\ s \o r # <<>> => Head(s \o r).do # "number"
<1>1. /\ s \o r \in Seq(Editing!Step) /\ Len(s \o r) = Len(s) + Len(r)
      /\ \A i \in 1 .. Len(s) + Len(r) : (s \o r)[i] = IF i <= Len(s) THEN s[i] ELSE r[i - Len(s)]
  BY ConcatProperties
<1>2. Len(s) \in Nat /\ Len(r) \in Nat
  OBVIOUS
<1>3. ASSUME NEW i \in 1 .. Len(s \o r) PROVE (s \o r)[i].do # "number"
  <2>1. CASE i <= Len(s)
    BY <1>1, <1>2, <2>1 DEF Plain
  <2>2. CASE ~(i <= Len(s))
    <3>1. i - Len(s) \in 1 .. Len(r) /\ (s \o r)[i] = r[i - Len(s)]
      BY <1>1, <1>2, <2>2
    <3>. QED BY <3>1 DEF Plain
  <2>. QED BY <2>1, <2>2
<1>4. Tidy(s \o r)
  BY <1>3 DEF Tidy
<1>5. ASSUME s \o r # <<>> PROVE Head(s \o r).do # "number"
  <2>. DEFINE z == s \o r
  <2>. HIDE DEF z
  <2>1. z \in Seq(Editing!Step) /\ z # <<>>
    BY <1>1, <1>5 DEF z
  <2>2. Head(z) = z[1] /\ 1 \in 1 .. Len(z)
    BY <2>1, EmptySeq
  <2>. QED BY <1>3, <2>2 DEF z
<1>. QED BY <1>1, <1>4, <1>5

LEMMA PlainAdded ==
  ASSUME Editing!TypeOK, AllTidy, NEW t \in Editing!Thread, NEW extra \in Seq(Editing!Step),
         Plain(extra), NEW rest \in Seq(Editing!Step), Plain(rest), Editing!Then(t, extra, rest)
  PROVE  /\ steps' \in [Editing!Thread -> Seq(Editing!Step)]
         /\ AllTidy'
         /\ \A u \in Editing!Thread : Numbers(u)' => u # t /\ Numbers(u)
<1>1. /\ extra \o rest \in Seq(Editing!Step) /\ Tidy(extra \o rest)
      /\ extra \o rest # <<>> => Head(extra \o rest).do # "number"
  BY PlainJoined
<1>. DEFINE z == extra \o rest
<1>. HIDE DEF z
<1>2. steps \in [Editing!Thread -> Seq(Editing!Step)] /\ steps' = [steps EXCEPT ![t] = z]
  BY DEF Editing!Then, Editing!TypeOK, z
<1>3. z \in Seq(Editing!Step) /\ Tidy(z) /\ (z # <<>> => Head(z).do # "number")
  BY <1>1 DEF z
<1>4. /\ steps' \in [Editing!Thread -> Seq(Editing!Step)] /\ steps'[t] = z
      /\ \A u \in Editing!Thread : u # t => steps'[u] = steps[u]
  BY <1>2, <1>3
<1>5. AllTidy'
  <2>1. ASSUME NEW u \in Editing!Thread PROVE Tidy(steps'[u])
    BY <1>3, <1>4 DEF AllTidy
  <2>. QED BY <2>1 DEF AllTidy, Tidy
<1>6. \A u \in Editing!Thread : Numbers(u)' => u # t /\ Numbers(u)
  BY <1>3, <1>4 DEF Numbers
<1>. QED BY <1>4, <1>5, <1>6

LEMMA NumberBegun ==
  ASSUME Editing!TypeOK, AllTidy, NEW t \in Editing!Thread, NEW x \in 1 .. MaxEdits,
         NEW w \in Editing!Who,
         Editing!Then(t, <<[do |-> "number", what |-> x, who |-> w]>>, <<>>)
  PROVE  /\ steps' \in [Editing!Thread -> Seq(Editing!Step)]
         /\ AllTidy'
         /\ \A u \in Editing!Thread : Numbers(u)' => u = t \/ Numbers(u)
<1>. DEFINE number == [do |-> "number", what |-> x, who |-> w]
            z == <<number>>
<1>1. number \in Editing!Step
  BY DEF Editing!Step
<1>. HIDE DEF number
<1>2. z \in Seq(Editing!Step) /\ z \o <<>> = z /\ Len(z) = 1
  BY <1>1, ConcatEmptySeq
<1>3. Tidy(z)
  BY <1>2 DEF Tidy
<1>. HIDE DEF z
<1>4. steps \in [Editing!Thread -> Seq(Editing!Step)] /\ steps' = [steps EXCEPT ![t] = z]
  BY <1>2 DEF Editing!Then, Editing!TypeOK, z, number
<1>5. /\ steps' \in [Editing!Thread -> Seq(Editing!Step)] /\ steps'[t] = z
      /\ \A u \in Editing!Thread : u # t => steps'[u] = steps[u]
  BY <1>2, <1>4
<1>6. AllTidy'
  <2>1. ASSUME NEW u \in Editing!Thread PROVE Tidy(steps'[u])
    BY <1>3, <1>5 DEF AllTidy
  <2>. QED BY <2>1 DEF AllTidy, Tidy
<1>7. \A u \in Editing!Thread : Numbers(u)' => u = t \/ Numbers(u)
  BY <1>5 DEF Numbers
<1>. QED BY <1>5, <1>6, <1>7

LEMMA LockHandled ==
  ASSUME Editing!TypeOK, AllTidy, NEW t \in Editing!Thread, NEW n \in Editing!Node,
         NEW rest \in Seq(Editing!Step), Plain(rest),
         Editing!OnBegin(t, n, rest) \/ Editing!OnEnd(t, n, rest)
  PROVE  /\ editor' \in Editing!Who
         /\ steps' \in [Editing!Thread -> Seq(Editing!Step)]
         /\ AllTidy'
         /\ \A u \in Editing!Thread : Numbers(u)' => u # t /\ Numbers(u)
<1>1. editor \in Editing!Who /\ n \in Editing!Who /\ None \in Editing!Who
  BY EditNames DEF Editing!TypeOK
<1>2. editor' \in Editing!Who
  BY <1>1 DEF Editing!OnBegin, Editing!OnEnd
<1>3. PICK extra \in Seq(Editing!Step) : Plain(extra) /\ Editing!Then(t, extra, rest)
  BY <1>1, PlainSteps DEF Editing!OnBegin, Editing!OnEnd
<1>. QED BY <1>2, <1>3, PlainAdded

LEMMA Published ==
  ASSUME Editing!TypeOK, AllTidy, NEW t \in Editing!Thread, NEW n \in Editing!Node,
         NEW x \in 1 .. MaxEdits, Editing!OnPublish(t, n, x, <<>>)
  PROVE  /\ editor' \in Editing!Who
         /\ steps' \in [Editing!Thread -> Seq(Editing!Step)]
         /\ AllTidy'
         /\ \A u \in Editing!Thread : Numbers(u)' => u = t \/ Numbers(u)
<1>1. editor' \in Editing!Who
  BY DEF Editing!OnPublish, Editing!TypeOK
<1>2. CASE Editing!Then(t, <<>>, <<>>)
  BY <1>1, <1>2, NothingIsPlain, PlainAdded
<1>3. CASE Editing!Then(t, <<[do |-> "number", what |-> x, who |-> n]>>, <<>>)
  BY <1>1, <1>3, EditNames, NumberBegun
<1>. QED BY <1>2, <1>3 DEF Editing!OnPublish

(***************************************************************************)
(* The steps.                                                              *)
(***************************************************************************)
ClientTypes ==
  /\ wants \in [Editing!Node -> BOOLEAN] /\ holder \in [Editing!Node -> Editing!Who]
  /\ rev \in [Editing!Node -> 0 .. MaxEdits] /\ layout \in [Editing!Node -> 0 .. MaxEdits]

LEMMA AnswerTypes ==
  ASSUME Editing!TypeOK, NEW n \in Editing!Node, NEW f \in Editing!Down, Editing!OnFrame(n, f)
  PROVE  ClientTypes'
<1>1. n \in Editing!Who /\ None \in Editing!Who
  BY EditNames
<1>2. f.kind \in {"deny", "state", "update"} => f.who \in Editing!Who
  BY DEF Editing!Down
<1>3. f.kind = "update" => f.rev \in 0 .. MaxEdits /\ f.what \in 0 .. MaxEdits
  BY DEF Editing!Down
<1>4. CASE f.kind = "grant" /\ Editing!OnGrant(n)
  BY <1>1, <1>4 DEF Editing!OnGrant, Editing!TypeOK, ClientTypes
<1>5. CASE f.kind = "deny" /\ Editing!OnDeny(n, f)
  BY <1>2, <1>5 DEF Editing!OnDeny, Editing!TypeOK, ClientTypes
<1>6. CASE f.kind = "state" /\ Editing!OnState(n, f)
  <2>1. (wants[n] /\ f.who \in {n, None}) \in BOOLEAN
    OBVIOUS
  <2>2. wants' \in [Editing!Node -> BOOLEAN]
    BY <1>6, <2>1 DEF Editing!OnState, Editing!TypeOK
  <2>. QED BY <1>2, <1>6, <2>2 DEF Editing!OnState, Editing!TypeOK, ClientTypes
<1>7. CASE f.kind = "update" /\ Editing!OnUpdate(n, f)
  BY <1>2, <1>3, <1>7 DEF Editing!OnUpdate, Editing!TypeOK, ClientTypes, Editing!client
<1>. QED BY <1>4, <1>5, <1>6, <1>7 DEF Editing!OnFrame

\* the coordinator takes the first of the frames of p
LEMMA FirstTaken ==
  ASSUME Editing!TypeOK, NEW p \in EditPeer, eUp[p] # <<>>, eUp' = [eUp EXCEPT ![p] = Tail(@)]
  PROVE  /\ Head(eUp[p]) \in Editing!Up /\ eUp' \in [EditPeer -> Seq(Editing!Up)]
         /\ IsLayout(Head(eUp[p])) => Sent(p, 1)
         /\ \A q \in EditPeer : \A i \in Nat \ {0} : Sent(q, i)' => Sent(q, IF q = p THEN i + 1 ELSE i)
<1>. DEFINE s == eUp[p]
<1>1. s \in Seq(Editing!Up) /\ s # <<>>
  BY DEF Editing!TypeOK
<1>2. eUp' = [eUp EXCEPT ![p] = Tail(s)] /\ eUp \in [EditPeer -> Seq(Editing!Up)]
  BY DEF Editing!TypeOK
<1>. HIDE DEF s
<1>3. /\ Len(s) \in Nat \ {0} /\ Len(Tail(s)) = Len(s) - 1 /\ Tail(s) \in Seq(Editing!Up)
      /\ Head(s) \in Editing!Up /\ Head(s) = s[1]
      /\ \A i \in 1 .. Len(Tail(s)) : Tail(s)[i] = s[i + 1]
  BY <1>1, HeadTailProperties, EmptySeq
<1>4. /\ eUp' \in [EditPeer -> Seq(Editing!Up)] /\ eUp'[p] = Tail(s)
      /\ \A q \in EditPeer : q # p => eUp'[q] = eUp[q]
  BY <1>2, <1>3
<1>5. ASSUME NEW q \in EditPeer, NEW i \in Nat \ {0}, Sent(q, i)'
      PROVE  Sent(q, IF q = p THEN i + 1 ELSE i)
  <2>1. CASE q = p
    <3>1. i \in 1 .. Len(Tail(s)) /\ IsLayout(Tail(s)[i])
      BY <1>4, <1>5, <2>1 DEF Sent, IsLayout
    <3>2. i + 1 \in 1 .. Len(s) /\ s[i + 1] = Tail(s)[i]
      BY <1>3, <3>1
    <3>. QED BY <2>1, <3>1, <3>2 DEF Sent, s
  <2>2. CASE q # p
    BY <1>4, <1>5, <2>2 DEF Sent, IsLayout
  <2>. QED BY <2>1, <2>2
<1>6. IsLayout(Head(s)) => Sent(p, 1)
  BY <1>3 DEF Sent, s
<1>. QED BY <1>3, <1>4, <1>5, <1>6 DEF s

LEMMA CoordReceivesBound ==
  ASSUME EditBound, NEW p \in EditPeer, Editing!CoordReceives(p)
  PROVE  EditBound'
<1>. DEFINE f == Head(eUp[p])
<1>1. Editing!TypeOK /\ AllTidy /\ LayoutBudget /\ BudgetTypes
  BY BudgetNumbers DEF EditBound, AllTidy
<1>2. /\ steps[p] = <<>> /\ eUp[p] # <<>> /\ eUp' = [eUp EXCEPT ![p] = Tail(@)]
      /\ Editing!Serve(p, f)
      /\ UNCHANGED <<revision, drag, eDown, eLinked, layouts, eEvents>>
  BY DEF Editing!CoordReceives
<1>3. p \in Editing!Thread /\ p \in Editing!Node /\ n1 \in Editing!Node /\ None \in Editing!Who
  BY EditNames
<1>4. /\ f \in Editing!Up /\ eUp' \in [EditPeer -> Seq(Editing!Up)]
      /\ IsLayout(f) => Sent(p, 1)
      /\ \A q \in EditPeer : \A i \in Nat \ {0} : Sent(q, i)' => Sent(q, IF q = p THEN i + 1 ELSE i)
  BY <1>1, <1>2, FirstTaken
<1>. HIDE DEF f
<1>5. ~Numbers(p)
  BY <1>2 DEF Numbers
<1>6. f.kind \in {"publish", "toggle"} => f.what \in 1 .. MaxEdits /\ IsLayout(f)
  BY <1>4 DEF Editing!Up, IsLayout
<1>7. /\ editor' \in Editing!Who /\ steps' \in [Editing!Thread -> Seq(Editing!Step)] /\ AllTidy'
      /\ \A u \in Editing!Thread : Numbers(u)' => Numbers(u) \/ (u = p /\ Sent(p, 1))
      /\ ClientTypes'
  <2>1. CASE f.kind \in {"begin", "end"}
    <3>1. /\ Editing!OnBegin(p, p, <<>>) \/ Editing!OnEnd(p, p, <<>>)
          /\ UNCHANGED <<wants, holder, rev, layout>>
      BY <1>2, <2>1 DEF Editing!Serve, Editing!client
    <3>2. ClientTypes'
      BY <1>1, <3>1 DEF Editing!TypeOK, ClientTypes
    <3>. QED BY <1>1, <1>3, <3>1, <3>2, NothingIsPlain, LockHandled
  <2>2. CASE f.kind = "publish"
    <3>1. Editing!OnPublish(p, p, f.what, <<>>) /\ UNCHANGED <<wants, holder, rev, layout>>
      BY <1>2, <2>2 DEF Editing!Serve, Editing!client
    <3>2. ClientTypes'
      BY <1>1, <3>1 DEF Editing!TypeOK, ClientTypes
    <3>. QED BY <1>1, <1>3, <1>4, <1>6, <2>2, <3>1, <3>2, Published
  <2>3. CASE f.kind = "toggle"
    <3>1. /\ layout' = [layout EXCEPT ![n1] = f.what] /\ UNCHANGED <<editor, wants, holder, rev>>
          /\ Editing!Then(p, <<[do |-> "number", what |-> f.what, who |-> None]>>, <<>>)
      BY <1>2, <2>3 DEF Editing!Serve, Editing!OnToggle
    <3>2. f.what \in 1 .. MaxEdits /\ f.what \in 0 .. MaxEdits /\ Sent(p, 1)
      BY <1>4, <1>6, <2>3
    <3>3. ClientTypes'
      BY <1>1, <1>3, <3>1, <3>2 DEF Editing!TypeOK, ClientTypes
    <3>4. editor' \in Editing!Who
      BY <1>1, <3>1 DEF Editing!TypeOK
    <3>. QED BY <1>1, <1>3, <3>1, <3>2, <3>3, <3>4, NumberBegun
  <2>. QED BY <1>2, <2>1, <2>2, <2>3 DEF Editing!Serve
<1>8. LayoutBudget'
  BY <1>1, <1>2, <1>4, <1>5, <1>7, OwedMoves
<1>9. Editing!TypeOK'
  BY <1>1, <1>2, <1>4, <1>7 DEF Editing!TypeOK, ClientTypes
<1>. QED BY <1>7, <1>8, <1>9 DEF EditBound, AllTidy

\* a frame that joins those of n
LEMMA Joins ==
  ASSUME Editing!TypeOK, NEW n \in EditPeer, NEW x \in Editing!Up,
         eUp' = [eUp EXCEPT ![n] = Append(@, x)]
  PROVE  /\ eUp' \in [EditPeer -> Seq(Editing!Up)]
         /\ \A q \in EditPeer : \A i \in Nat \ {0} :
              Sent(q, i)' => Sent(q, i) \/ (q = n /\ i = Len(eUp[n]) + 1 /\ IsLayout(x))
<1>. DEFINE s == eUp[n]
            z == Append(s, x)
<1>1. s \in Seq(Editing!Up) /\ Len(s) \in Nat
  BY DEF Editing!TypeOK
<1>2. eUp' = [eUp EXCEPT ![n] = z] /\ eUp \in [EditPeer -> Seq(Editing!Up)]
  BY DEF Editing!TypeOK
<1>3. /\ z \in Seq(Editing!Up) /\ Len(z) = Len(s) + 1
      /\ \A i \in 1 .. Len(s) : z[i] = s[i]
      /\ z[Len(s) + 1] = x
  BY <1>1, AppendProperties
<1>. HIDE DEF s, z
<1>4. /\ eUp' \in [EditPeer -> Seq(Editing!Up)] /\ eUp'[n] = z
      /\ \A q \in EditPeer : q # n => eUp'[q] = eUp[q]
  BY <1>2, <1>3
<1>5. ASSUME NEW q \in EditPeer, NEW i \in Nat \ {0}, Sent(q, i)'
      PROVE  Sent(q, i) \/ (q = n /\ i = Len(eUp[n]) + 1 /\ IsLayout(x))
  <2>1. CASE q = n
    <3>1. i \in 1 .. Len(z) /\ IsLayout(z[i])
      BY <1>4, <1>5, <2>1 DEF Sent, IsLayout
    <3>2. i \in 1 .. Len(s) \/ i = Len(s) + 1
      BY <1>1, <1>3, <3>1
    <3>3. CASE i = Len(s) + 1
      BY <1>3, <2>1, <3>1, <3>3 DEF s
    <3>4. CASE i \in 1 .. Len(s)
      BY <1>3, <2>1, <3>1, <3>4 DEF Sent, s
    <3>. QED BY <3>2, <3>3, <3>4
  <2>2. CASE q # n
    BY <1>4, <1>5, <2>2 DEF Sent, IsLayout
  <2>. QED BY <2>1, <2>2
<1>. QED BY <1>4, <1>5

\* nothing more is owed after the step
NoLayoutComes ==
  /\ editor' \in Editing!Who /\ steps' \in [Editing!Thread -> Seq(Editing!Step)] /\ AllTidy'
  /\ eUp' \in [EditPeer -> Seq(Editing!Up)]
  /\ \A u \in Editing!Thread : Numbers(u)' => Numbers(u)
  /\ \A q \in EditPeer : \A i \in Nat \ {0} : Sent(q, i)' => Sent(q, i)

LEMMA LockOnly ==
  ASSUME Editing!TypeOK, AllTidy, NEW n \in Editing!Node,
         \/ Editing!AskLock(n)
         \/ n = n1 /\ Editing!OnEnd(n1, n1, <<>>) /\ UNCHANGED eUp
         \/ /\ n \in EditPeer /\ UNCHANGED <<editor, steps>>
            /\ eUp' = [eUp EXCEPT ![n] = Append(@, Editing!F("end"))]
         \/ UNCHANGED <<editor, steps, eUp>>
  PROVE  NoLayoutComes
<1>1. CASE /\ n = n1 /\ UNCHANGED eUp
           /\ Editing!OnBegin(n1, n1, <<>>) \/ Editing!OnEnd(n1, n1, <<>>)
  <2>1. /\ editor' \in Editing!Who /\ steps' \in [Editing!Thread -> Seq(Editing!Step)] /\ AllTidy'
        /\ \A u \in Editing!Thread : Numbers(u)' => Numbers(u)
    BY <1>1, EditNames, NothingIsPlain, LockHandled
  <2>2. /\ eUp' \in [EditPeer -> Seq(Editing!Up)]
        /\ \A q \in EditPeer : \A i \in Nat \ {0} : Sent(q, i)' => Sent(q, i)
    BY <1>1 DEF Editing!TypeOK, Sent, IsLayout
  <2>. QED BY <2>1, <2>2 DEF NoLayoutComes
<1>2. CASE UNCHANGED <<editor, steps>>
  <2>1. /\ editor' \in Editing!Who /\ steps' \in [Editing!Thread -> Seq(Editing!Step)] /\ AllTidy'
        /\ \A u \in Editing!Thread : Numbers(u)' => Numbers(u)
    BY <1>2 DEF Editing!TypeOK, AllTidy, Tidy, Numbers
  <2>2. CASE UNCHANGED eUp
    <3>1. /\ eUp' \in [EditPeer -> Seq(Editing!Up)]
          /\ \A q \in EditPeer : \A i \in Nat \ {0} : Sent(q, i)' => Sent(q, i)
      BY <2>2 DEF Editing!TypeOK, Sent, IsLayout
    <3>. QED BY <2>1, <3>1 DEF NoLayoutComes
  <2>3. CASE /\ n \in EditPeer
             /\ \E x \in {Editing!F("begin"), Editing!F("end")} : eUp' = [eUp EXCEPT ![n] = Append(@, x)]
    <3>1. PICK x \in {Editing!F("begin"), Editing!F("end")} : eUp' = [eUp EXCEPT ![n] = Append(@, x)]
      BY <2>3
    <3>2. x \in Editing!Up /\ ~IsLayout(x)
      BY <3>1 DEF Editing!Up, Editing!F, IsLayout
    <3>3. /\ eUp' \in [EditPeer -> Seq(Editing!Up)]
          /\ \A q \in EditPeer : \A i \in Nat \ {0} : Sent(q, i)' => Sent(q, i)
      BY <2>3, <3>1, <3>2, Joins
    <3>. QED BY <2>1, <3>3 DEF NoLayoutComes
  <2>4. n \notin EditPeer => n = n1
    BY DEF Editing!Node
  <2>. QED BY <1>2, <2>2, <2>3, <2>4 DEF Editing!AskLock
<1>. QED BY <1>1, <1>2 DEF Editing!AskLock

LEMMA LockUsersBound ==
  ASSUME EditBound, NEW n \in Editing!Node,
         Editing!BeginEdit(n) \/ Editing!Retry(n) \/ Editing!EndEdit(n) \/ Editing!StartDrag(n)
  PROVE  EditBound'
<1>1. Editing!TypeOK /\ AllTidy /\ LayoutBudget /\ BudgetTypes
  BY BudgetNumbers DEF EditBound, AllTidy
<1>2. NoLayoutComes
  <2>1. \/ Editing!AskLock(n)
        \/ n = n1 /\ Editing!OnEnd(n1, n1, <<>>) /\ UNCHANGED eUp
        \/ /\ n \in EditPeer /\ UNCHANGED <<editor, steps>>
           /\ eUp' = [eUp EXCEPT ![n] = Append(@, Editing!F("end"))]
        \/ UNCHANGED <<editor, steps, eUp>>
    <3>1. n = n1 \/ n \in EditPeer
      BY DEF Editing!Node
    <3>. QED BY <3>1 DEF Editing!BeginEdit, Editing!Retry, Editing!EndEdit, Editing!StartDrag
  <2>. QED BY <1>1, <2>1, LockOnly
<1>3. /\ UNCHANGED <<revision, rev, layout, eDown, eLinked, layouts>>
      /\ wants' \in [Editing!Node -> BOOLEAN] /\ holder' \in [Editing!Node -> Editing!Who]
      /\ drag' \subseteq Editing!Node
      /\ eEvents' \in {eEvents, eEvents + 1} /\ eEvents' \in 0 .. MaxEdits
  <2>1. CASE Editing!BeginEdit(n)
    <3>1. eEvents' = eEvents + 1 /\ eEvents < MaxEdits
      BY <2>1 DEF Editing!BeginEdit
    <3>2. eEvents' \in 0 .. MaxEdits
      BY <1>1, <3>1, BoundsAreNumbers DEF Editing!TypeOK
    <3>. QED BY <1>1, <2>1, <3>1, <3>2 DEF Editing!BeginEdit, Editing!TypeOK
  <2>2. CASE Editing!Retry(n)
    BY <1>1, <2>2 DEF Editing!Retry, Editing!TypeOK, Editing!client
  <2>3. CASE Editing!EndEdit(n)
    <3>1. None \in Editing!Who
      BY EditNames
    <3>. QED BY <1>1, <2>3, <3>1 DEF Editing!EndEdit, Editing!TypeOK
  <2>4. CASE Editing!StartDrag(n)
    BY <1>1, <2>4 DEF Editing!StartDrag, Editing!TypeOK, Editing!client
  <2>. QED BY <2>1, <2>2, <2>3, <2>4
<1>4. LayoutBudget'
  BY <1>1, <1>2, <1>3, OwedStays DEF NoLayoutComes
<1>5. Editing!TypeOK'
  BY <1>1, <1>2, <1>3 DEF Editing!TypeOK, NoLayoutComes
<1>. QED BY <1>2, <1>4, <1>5 DEF EditBound, AllTidy, NoLayoutComes

\* a layout is made: it may be lost, be published at once, or be sent
LEMMA DropBound ==
  ASSUME EditBound, NEW n \in Editing!Node,
         \/ Editing!Drop(n)
         \/ n \in EditPeer /\ Editing!Toggle(n)
  PROVE  EditBound'
<1>. DEFINE x == layouts + 1
            frames == {[kind |-> "publish", what |-> x], [kind |-> "toggle", what |-> x]}
<1>1. Editing!TypeOK /\ AllTidy /\ LayoutBudget /\ BudgetTypes
  BY BudgetNumbers DEF EditBound, AllTidy
<1>2. /\ UNCHANGED <<revision, wants, holder, rev, eDown, eLinked>>
      /\ layouts' = x /\ eEvents' = eEvents + 1 /\ eEvents < MaxEdits
      /\ layout' \in {layout, [layout EXCEPT ![n] = x]} /\ drag' \subseteq drag
  BY DEF Editing!Drop, Editing!Toggle, Editing!client
<1>3. x \in 1 .. MaxEdits /\ eEvents' \in 0 .. MaxEdits
  <2>1. layouts \in Nat /\ eEvents \in Nat /\ MaxEdits \in Nat /\ layouts <= eEvents
    BY <1>1, BoundsAreNumbers DEF BudgetTypes, LayoutBudget
  <2>. QED BY <1>2, <2>1
<1>4. \A f \in frames : f \in Editing!Up
  BY <1>3 DEF Editing!Up
<1>5. \/ /\ n = n1 /\ Editing!OnPublish(n1, n1, x, <<>>) /\ UNCHANGED eUp
      \/ /\ n \in EditPeer /\ UNCHANGED <<editor, steps>>
         /\ \E f \in frames : eUp' = [eUp EXCEPT ![n] = Append(@, f)]
      \/ UNCHANGED <<editor, steps, eUp>>
  <2>1. eLinked \subseteq EditPeer
    BY <1>1 DEF Editing!TypeOK
  <2>. QED BY <2>1 DEF Editing!Drop, Editing!Toggle
<1>. HIDE DEF frames
<1>6. /\ editor' \in Editing!Who /\ steps' \in [Editing!Thread -> Seq(Editing!Step)] /\ AllTidy'
      /\ eUp' \in [EditPeer -> Seq(Editing!Up)] /\ LayoutBudget'
  <2>1. CASE n = n1 /\ Editing!OnPublish(n1, n1, x, <<>>) /\ UNCHANGED eUp
    <3>1. /\ editor' \in Editing!Who /\ steps' \in [Editing!Thread -> Seq(Editing!Step)] /\ AllTidy'
          /\ \A u \in Editing!Thread : Numbers(u)' => u = n1 \/ Numbers(u)
      BY <1>1, <1>3, <2>1, EditNames, Published
    <3>2. \A q \in EditPeer : \A i \in Nat \ {0} : Sent(q, i)' => Sent(q, i)
      BY <2>1 DEF Sent, IsLayout
    <3>3. LayoutBudget'
      BY <1>1, <1>2, <3>1, <3>2, OwedMore
    <3>4. eUp' \in [EditPeer -> Seq(Editing!Up)]
      BY <1>1, <2>1 DEF Editing!TypeOK
    <3>. QED BY <3>1, <3>3, <3>4
  <2>2. CASE UNCHANGED <<editor, steps>>
    <3>1. /\ editor' \in Editing!Who /\ steps' \in [Editing!Thread -> Seq(Editing!Step)] /\ AllTidy'
          /\ \A u \in Editing!Thread : Numbers(u)' => Numbers(u)
      BY <1>1, <2>2 DEF Editing!TypeOK, AllTidy, Tidy, Numbers
    <3>2. CASE n \in EditPeer /\ \E f \in frames : eUp' = [eUp EXCEPT ![n] = Append(@, f)]
      <4>1. PICK f \in frames : eUp' = [eUp EXCEPT ![n] = Append(@, f)]
        BY <3>2
      <4>2. /\ eUp' \in [EditPeer -> Seq(Editing!Up)]
            /\ \A q \in EditPeer : \A i \in Nat \ {0} :
                 Sent(q, i)' => Sent(q, i) \/ (q = n /\ i = Len(eUp[n]) + 1)
        BY <1>1, <1>4, <3>2, <4>1, Joins
      <4>. DEFINE j == Len(eUp[n]) + 1
      <4>. HIDE DEF j
      <4>3. \A q \in EditPeer : \A i \in Nat \ {0} : Sent(q, i)' => Sent(q, i) \/ (q = n /\ i = j)
        BY <4>2 DEF j
      <4>4. \A u \in Editing!Thread : Numbers(u)' => Numbers(u) \/ (u = n /\ j = 0)
        BY <3>1
      <4>5. /\ revision' = revision /\ layouts' = layouts + 1 /\ eEvents' = eEvents + 1
            /\ BudgetTypes /\ LayoutBudget
        BY <1>1, <1>2
      <4>. HIDE DEF x
      <4>6. LayoutBudget'
        BY <4>3, <4>4, <4>5, OwedMore
      <4>. QED BY <3>1, <4>2, <4>6
    <3>3. CASE UNCHANGED eUp
      <4>1. \A q \in EditPeer : \A i \in Nat \ {0} : Sent(q, i)' => Sent(q, i)
        BY <3>3 DEF Sent, IsLayout
      <4>2. LayoutBudget'
        BY <1>1, <1>2, <3>1, <4>1, OwedMore
      <4>3. eUp' \in [EditPeer -> Seq(Editing!Up)]
        BY <1>1, <3>3 DEF Editing!TypeOK
      <4>. QED BY <3>1, <4>2, <4>3
    <3>. QED BY <1>5, <2>2, <3>2, <3>3
  <2>. QED BY <1>5, <2>1, <2>2
<1>7. layout' \in [Editing!Node -> 0 .. MaxEdits]
  <2>1. x \in 0 .. MaxEdits
    BY <1>3
  <2>. HIDE DEF x
  <2>2. layout \in [Editing!Node -> 0 .. MaxEdits]
    BY <1>1 DEF Editing!TypeOK
  <2>. QED BY <1>2, <2>1, <2>2
<1>8. layouts' \in 0 .. MaxEdits
  BY <1>2, <1>3
<1>9. Editing!TypeOK'
  BY <1>1, <1>2, <1>3, <1>6, <1>7, <1>8 DEF Editing!TypeOK
<1>. QED BY <1>6, <1>9 DEF EditBound, AllTidy

LEMMA PeerReceivesBound ==
  ASSUME EditBound, NEW p \in EditPeer, Editing!PeerReceives(p)
  PROVE  EditBound'
<1>. DEFINE f == Head(eDown[p])
<1>1. Editing!TypeOK /\ AllTidy /\ LayoutBudget /\ BudgetTypes
  BY BudgetNumbers DEF EditBound, AllTidy
<1>2. /\ eDown[p] # <<>> /\ eDown' = [eDown EXCEPT ![p] = Tail(@)]
      /\ Editing!OnFrame(p, f)
      /\ UNCHANGED <<editor, revision, steps, drag, eLinked, layouts, eEvents>>
      /\ UNCHANGED eUp \/ eUp' = [eUp EXCEPT ![p] = Append(@, Editing!F("end"))]
  BY DEF Editing!PeerReceives
<1>3. p \in Editing!Node
  BY EditNames
<1>4. f \in Editing!Down /\ eDown' \in [EditPeer -> Seq(Editing!Down)]
  <2>1. eDown[p] \in Seq(Editing!Down)
    BY <1>1 DEF Editing!TypeOK
  <2>2. f \in Editing!Down /\ Tail(eDown[p]) \in Seq(Editing!Down)
    BY <1>2, <2>1
  <2>. HIDE DEF f
  <2>. QED BY <1>1, <1>2, <2>2 DEF Editing!TypeOK
<1>. HIDE DEF f
<1>5. ClientTypes'
  BY <1>1, <1>2, <1>3, <1>4, AnswerTypes
<1>6. NoLayoutComes
  BY <1>1, <1>2, <1>3, LockOnly
<1>7. LayoutBudget'
  BY <1>1, <1>2, <1>6, OwedStays DEF NoLayoutComes
<1>8. Editing!TypeOK'
  BY <1>1, <1>2, <1>4, <1>5, <1>6 DEF Editing!TypeOK, NoLayoutComes, ClientTypes
<1>. QED BY <1>6, <1>7, <1>8 DEF EditBound, AllTidy, NoLayoutComes

\* what is in the connection of p is lost, and its thread has the unbind to run
LEMMA EditBreakBound ==
  ASSUME EditBound, NEW p \in EditPeer, Editing!Break(p)
  PROVE  EditBound'
<1>. DEFINE s == steps[p]
            unbound == [do |-> "unbound"]
            z == Append(s, unbound)
<1>1. Editing!TypeOK /\ AllTidy /\ LayoutBudget /\ BudgetTypes
  BY BudgetNumbers DEF EditBound, AllTidy
<1>2. /\ eEvents < MaxEdits /\ eEvents' = eEvents + 1 /\ eLinked' = eLinked \ {p}
      /\ eUp' = [eUp EXCEPT ![p] = <<>>] /\ eDown' = [eDown EXCEPT ![p] = <<>>]
      /\ steps' = [steps EXCEPT ![p] = z]
      /\ UNCHANGED <<editor, revision, wants, holder, rev, layout, drag, layouts>>
  BY DEF Editing!Break, Editing!client
<1>3. p \in Editing!Thread
  BY EditNames
<1>4. unbound \in Editing!Step /\ unbound.do # "number" /\ s \in Seq(Editing!Step) /\ Tidy(s)
  BY <1>1, <1>3 DEF Editing!Step, Editing!TypeOK, AllTidy
<1>5. /\ z \in Seq(Editing!Step) /\ Len(z) = Len(s) + 1 /\ Len(s) \in Nat
      /\ \A i \in 1 .. Len(s) : z[i] = s[i]
      /\ z[Len(s) + 1] = unbound
  BY <1>4, AppendProperties
<1>6. steps \in [Editing!Thread -> Seq(Editing!Step)]
  BY <1>1 DEF Editing!TypeOK
<1>7. Numbers(p) <=> s # <<>> /\ Head(s).do = "number"
  BY DEF Numbers
<1>. HIDE DEF s, z, unbound
<1>8. Tidy(z)
  <2>1. ASSUME NEW i \in 2 .. Len(z) PROVE z[i].do # "number"
    <3>1. i \in 2 .. Len(s) \/ i = Len(s) + 1
      BY <1>5
    <3>2. CASE i \in 2 .. Len(s)
      BY <1>4, <1>5, <3>2 DEF Tidy
    <3>3. CASE i = Len(s) + 1
      BY <1>4, <1>5, <3>3
    <3>. QED BY <3>1, <3>2, <3>3
  <2>. QED BY <2>1 DEF Tidy
<1>9. z # <<>> /\ Head(z) = z[1] /\ (Head(z).do = "number" => s # <<>> /\ Head(s).do = "number")
  <2>1. z # <<>> /\ Head(z) = z[1]
    BY <1>5
  <2>2. CASE s = <<>>
    BY <1>4, <1>5, <2>1, <2>2
  <2>3. CASE s # <<>>
    <3>1. 1 \in 1 .. Len(s) /\ Head(s) = s[1]
      BY <1>4, <2>3, EmptySeq
    <3>. QED BY <1>5, <2>1, <2>3, <3>1
  <2>. QED BY <2>2, <2>3
<1>10. /\ steps' \in [Editing!Thread -> Seq(Editing!Step)] /\ steps'[p] = z
       /\ \A u \in Editing!Thread : u # p => steps'[u] = steps[u]
  BY <1>2, <1>3, <1>5, <1>6
<1>11. AllTidy'
  <2>1. ASSUME NEW u \in Editing!Thread PROVE Tidy(steps'[u])
    BY <1>1, <1>8, <1>10 DEF AllTidy
  <2>. QED BY <2>1 DEF AllTidy, Tidy
<1>12. \A u \in Editing!Thread : Numbers(u)' => Numbers(u)
  <2>1. ASSUME NEW u \in Editing!Thread, Numbers(u)' PROVE Numbers(u)
    <3>1. CASE u = p
      BY <1>7, <1>9, <1>10, <2>1, <3>1 DEF Numbers
    <3>2. CASE u # p
      BY <1>10, <2>1, <3>2 DEF Numbers
    <3>. QED BY <3>1, <3>2
  <2>. QED BY <2>1
<1>13. <<>> \in Seq(Editing!Up) /\ <<>> \in Seq(Editing!Down) /\ Len(<<>>) = 0
  BY EmptySeq
<1>14. eUp' \in [EditPeer -> Seq(Editing!Up)] /\ eDown' \in [EditPeer -> Seq(Editing!Down)]
  BY <1>1, <1>2, <1>13 DEF Editing!TypeOK
<1>15. \A q \in EditPeer : \A i \in Nat \ {0} : Sent(q, i)' => Sent(q, i)
  <2>1. eUp \in [EditPeer -> Seq(Editing!Up)]
    BY <1>1 DEF Editing!TypeOK
  <2>2. eUp'[p] = <<>> /\ \A q \in EditPeer : q # p => eUp'[q] = eUp[q]
    BY <1>2, <2>1
  <2>3. ASSUME NEW q \in EditPeer, NEW i \in Nat \ {0}, Sent(q, i)' PROVE Sent(q, i)
    <3>1. q # p
      BY <1>13, <2>2, <2>3 DEF Sent
    <3>. QED BY <2>2, <2>3, <3>1 DEF Sent, IsLayout
  <2>. QED BY <2>3
<1>16. LayoutBudget'
  BY <1>1, <1>2, <1>12, <1>15, OwedStays
<1>17. eEvents' \in 0 .. MaxEdits
  BY <1>1, <1>2, BoundsAreNumbers DEF Editing!TypeOK
<1>18. Editing!TypeOK'
  BY <1>1, <1>2, <1>10, <1>14, <1>17 DEF Editing!TypeOK
<1>. QED BY <1>11, <1>16, <1>18 DEF EditBound, AllTidy

LEMMA EditRebindBound ==
  ASSUME EditBound, NEW p \in EditPeer, Editing!Rebind(p)
  PROVE  EditBound'
<1>. DEFINE first  == Editing!SendTo({p}, Editing!StateOf(editor))
            second == Editing!SendTo({p}, Editing!Update(revision, layout[n1], editor))
            extra  == <<first, second>>
<1>1. Editing!TypeOK /\ AllTidy /\ LayoutBudget /\ BudgetTypes
  BY BudgetNumbers DEF EditBound, AllTidy
<1>2. /\ eLinked' = eLinked \cup {p} /\ Editing!Then("bound", extra, <<>>)
      /\ UNCHANGED <<editor, revision, wants, holder, rev, layout, drag, eUp, eDown, layouts, eEvents>>
  BY DEF Editing!Rebind, Editing!client
<1>3. /\ first \in Editing!Step /\ first.do = "send"
      /\ second \in Editing!Step /\ second.do = "send"
  BY <1>1, EditNames
  DEF Editing!TypeOK, Editing!Step, Editing!Down, Editing!SendTo, Editing!StateOf, Editing!Update
<1>. HIDE DEF first, second
<1>4. extra \in Seq(Editing!Step)
  BY <1>3
<1>5. Plain(extra)
  BY <1>3 DEF Plain
<1>. HIDE DEF extra
<1>6. /\ steps' \in [Editing!Thread -> Seq(Editing!Step)] /\ AllTidy'
      /\ \A u \in Editing!Thread : Numbers(u)' => Numbers(u)
  BY <1>1, <1>2, <1>4, <1>5, EditNames, NothingIsPlain, PlainAdded
<1>7. \A q \in EditPeer : \A i \in Nat \ {0} : Sent(q, i)' => Sent(q, i)
  BY <1>2 DEF Sent, IsLayout
<1>8. LayoutBudget'
  BY <1>1, <1>2, <1>6, <1>7, OwedStays
<1>9. Editing!TypeOK'
  BY <1>1, <1>2, <1>6 DEF Editing!TypeOK
<1>. QED BY <1>6, <1>8, <1>9 DEF EditBound, AllTidy

LEMMA EditProceedBound ==
  ASSUME EditBound, NEW t \in Editing!Thread, Editing!Proceed(t)
  PROVE  EditBound'
<1>. DEFINE s == Head(steps[t])
            rest == Tail(steps[t])
<1>1. Editing!TypeOK /\ AllTidy /\ LayoutBudget /\ BudgetTypes
  BY BudgetNumbers DEF EditBound, AllTidy
<1>2. steps[t] # <<>> /\ UNCHANGED <<drag, eUp, eLinked, layouts, eEvents>>
  BY DEF Editing!Proceed
<1>3. rest \in Seq(Editing!Step) /\ s \in Editing!Step /\ Plain(rest)
  BY <1>1, <1>2, PlainTail DEF Editing!TypeOK, AllTidy
<1>4. \/ s.do = "send" /\ Editing!SendFrame(t, s) /\ UNCHANGED revision
      \/ /\ s.do = "state"
         /\ Editing!Then(t, <<Editing!SendTo(Editing!Node, Editing!StateOf(editor))>>, rest)
         /\ UNCHANGED <<editor, revision, wants, holder, rev, layout, eDown>>
      \/ s.do = "number" /\ Editing!Number(t, s) /\ UNCHANGED <<wants, holder, rev, layout, eDown>>
      \/ s.do = "unbound" /\ Editing!Unbound(t) /\ UNCHANGED <<revision, wants, holder, rev, layout, eDown>>
  BY DEF Editing!Proceed, Editing!client
<1>5. s.do = "number" => Numbers(t)
  BY <1>2 DEF Numbers
<1>6. \A q \in EditPeer : \A i \in Nat \ {0} : Sent(q, i)' => Sent(q, i)
  BY <1>2 DEF Sent, IsLayout
<1>7. CASE s.do = "number"
  <2>. DEFINE tell == Editing!SendTo(Editing!Node, Editing!Update(revision + 1, s.what, s.who))
  <2>1. /\ revision' = revision + 1 /\ Editing!Then(t, <<tell>>, rest)
        /\ UNCHANGED <<editor, wants, holder, rev, layout, eDown>>
    BY <1>4, <1>7 DEF Editing!Number
  <2>2. s.what \in 1 .. MaxEdits /\ s.who \in Editing!Who
    BY <1>3, <1>7 DEF Editing!Step
  <2>3. revision + 1 <= eEvents
    <3>1. Cardinality(Owed) \in Nat \ {0}
      <4>1. <<t, 0>> \in Owed
        BY <1>5, <1>7 DEF Owed, IsOwed
      <4>2. IsFiniteSet(Owed)
        BY <1>1 DEF LayoutBudget
      <4>. DEFINE a == Owed
      <4>. HIDE DEF a
      <4>3. IsFiniteSet(a) /\ <<t, 0>> \in a
        BY <4>1, <4>2 DEF a
      <4>4. Cardinality(a) \in Nat /\ Cardinality(a) # 0
        BY <4>3, FS_CardinalityType, FS_EmptySet
      <4>. QED BY <4>4 DEF a
    <3>. QED BY <1>1, <3>1 DEF LayoutBudget, BudgetTypes
  <2>4. revision + 1 \in 0 .. MaxEdits
    BY <1>1, <2>3, BoundsAreNumbers DEF Editing!TypeOK
  <2>5. tell \in Editing!Step /\ tell.do = "send"
    <3>1. s.what \in 0 .. MaxEdits
      BY <2>2
    <3>. QED BY <2>2, <2>4, <3>1 DEF Editing!Step, Editing!Down, Editing!SendTo, Editing!Update
  <2>. HIDE DEF tell, rest, s
  <2>6. <<tell>> \in Seq(Editing!Step) /\ Plain(<<tell>>)
    BY <2>5, SendIsPlain
  <2>7. /\ steps' \in [Editing!Thread -> Seq(Editing!Step)] /\ AllTidy'
        /\ \A u \in Editing!Thread : Numbers(u)' => u # t /\ Numbers(u)
    BY <1>1, <1>3, <2>1, <2>6, PlainAdded
  <2>8. LayoutBudget'
    BY <1>1, <1>2, <1>5, <1>7, <2>1, <2>7, OwedCounted
  <2>9. Editing!TypeOK'
    BY <1>1, <1>2, <2>1, <2>4, <2>7 DEF Editing!TypeOK
  <2>. QED BY <2>7, <2>8, <2>9 DEF EditBound, AllTidy
<1>8. CASE s.do \in {"state", "unbound"}
  <2>. DEFINE tell == Editing!SendTo(Editing!Node, Editing!StateOf(editor))
              state0 == [do |-> "state"]
  <2>1. UNCHANGED <<revision, wants, holder, rev, layout, eDown>> /\ editor' \in {editor, None}
    BY <1>4, <1>8 DEF Editing!Unbound
  <2>2. PICK extra \in {<<tell>>, <<state0>>, <<>>} : Editing!Then(t, extra, rest)
    BY <1>4, <1>8 DEF Editing!Unbound
  <2>3. tell \in Editing!Step /\ tell.do = "send" /\ state0 \in Editing!Step /\ state0.do = "state"
    BY <1>1 DEF Editing!TypeOK, Editing!Step, Editing!Down, Editing!SendTo, Editing!StateOf
  <2>. HIDE DEF tell, state0, rest, s
  <2>4. extra \in Seq(Editing!Step) /\ Plain(extra)
    BY <2>2, <2>3, SendIsPlain, NothingIsPlain
  <2>5. /\ steps' \in [Editing!Thread -> Seq(Editing!Step)] /\ AllTidy'
        /\ \A u \in Editing!Thread : Numbers(u)' => Numbers(u)
    BY <1>1, <1>3, <2>2, <2>4, PlainAdded
  <2>6. LayoutBudget'
    BY <1>1, <1>2, <1>6, <2>1, <2>5, OwedStays
  <2>7. Editing!TypeOK'
    BY <1>1, <1>2, <2>1, <2>5, EditNames DEF Editing!TypeOK
  <2>. QED BY <2>5, <2>6, <2>7 DEF EditBound, AllTidy
<1>9. CASE s.do = "send"
  <2>1. Editing!SendFrame(t, s) /\ UNCHANGED revision
    BY <1>4, <1>9
  <2>2. s.frame \in Editing!Down
    BY <1>3, <1>9 DEF Editing!Step
  <2>3. eDown' \in [EditPeer -> Seq(Editing!Down)]
    <3>1. \A q \in EditPeer : /\ eDown[q] \in Seq(Editing!Down)
                              /\ Append(eDown[q], s.frame) \in Seq(Editing!Down)
      BY <1>1, <2>2, AppendProperties DEF Editing!TypeOK
    <3>2. eDown' = [q \in EditPeer |->
                      IF q \in eLinked \cap s.to THEN Append(eDown[q], s.frame) ELSE eDown[q]]
      BY <2>1 DEF Editing!SendFrame
    <3>. HIDE DEF s
    <3>. QED BY <3>1, <3>2
  <2>4. ClientTypes'
    <3>1. CASE Editing!OnFrame(n1, s.frame)
      BY <1>1, <2>2, <3>1, EditNames, AnswerTypes
    <3>2. CASE UNCHANGED <<wants, holder, rev, layout>>
      BY <1>1, <3>2 DEF Editing!TypeOK, ClientTypes
    <3>. QED BY <2>1, <3>1, <3>2 DEF Editing!SendFrame, Editing!client
  <2>5. /\ editor' \in Editing!Who /\ steps' \in [Editing!Thread -> Seq(Editing!Step)] /\ AllTidy'
        /\ \A u \in Editing!Thread : Numbers(u)' => Numbers(u)
    <3>1. CASE Editing!OnEnd(t, n1, rest)
      BY <1>1, <1>3, <3>1, EditNames, LockHandled
    <3>2. CASE Editing!Then(t, <<>>, rest) /\ UNCHANGED editor
      <4>1. editor' \in Editing!Who
        BY <1>1, <3>2 DEF Editing!TypeOK
      <4>. QED BY <1>1, <1>3, <3>2, <4>1, NothingIsPlain, PlainAdded
    <3>. QED BY <2>1, <3>1, <3>2 DEF Editing!SendFrame
  <2>6. LayoutBudget'
    BY <1>1, <1>2, <1>6, <2>1, <2>5, OwedStays
  <2>7. Editing!TypeOK'
    BY <1>1, <1>2, <2>1, <2>3, <2>4, <2>5 DEF Editing!TypeOK, ClientTypes
  <2>. QED BY <2>5, <2>6, <2>7 DEF EditBound, AllTidy
<1>. QED BY <1>4, <1>7, <1>8, <1>9

LEMMA EditBoundInit == Editing!Init => EditBound
<1>. SUFFICES ASSUME Editing!Init PROVE EditBound
  OBVIOUS
<1>. USE DEF Editing!Init
<1>1. /\ <<>> \in Seq(Editing!Step) /\ <<>> \in Seq(Editing!Up) /\ <<>> \in Seq(Editing!Down)
      /\ Len(<<>>) = 0
  BY EmptySeq
<1>2. Editing!TypeOK
  <2>1. 0 \in 0 .. MaxEdits
    BY BoundsAreNumbers
  <2>. QED BY <1>1, <2>1, EditNames DEF Editing!TypeOK
<1>3. Owed = {}
  BY <1>1 DEF Owed, IsOwed, Numbers, Sent
<1>4. LayoutBudget
  BY <1>3, FS_EmptySet DEF LayoutBudget
<1>5. \A t \in Editing!Thread : Tidy(steps[t])
  BY <1>1 DEF Tidy
<1>. QED BY <1>2, <1>4, <1>5 DEF EditBound

LEMMA EditBoundNext == EditBound /\ [Editing!Next]_layoutVars => EditBound'
<1>. SUFFICES ASSUME EditBound, [Editing!Next]_layoutVars PROVE EditBound'
  OBVIOUS
<1>1. CASE \E t \in Editing!Thread : Editing!Proceed(t)
  BY <1>1, EditProceedBound
<1>2. CASE \E p \in EditPeer : \/ Editing!CoordReceives(p) \/ Editing!PeerReceives(p)
                                \/ Editing!Break(p) \/ Editing!Rebind(p)
  BY <1>2, CoordReceivesBound, PeerReceivesBound, EditBreakBound, EditRebindBound
<1>3. CASE \E p \in EditPeer : Editing!Toggle(p)
  BY <1>3, EditNames, DropBound
<1>4. CASE \E n \in Editing!Node : \/ Editing!BeginEdit(n) \/ Editing!Retry(n) \/ Editing!EndEdit(n)
                                  \/ Editing!StartDrag(n)
  BY <1>4, LockUsersBound
<1>5. CASE \E n \in Editing!Node : Editing!Drop(n)
  BY <1>5, DropBound
<1>6. CASE UNCHANGED layoutVars
  <2>1. /\ UNCHANGED <<editor, revision, steps, wants, holder, rev, layout, drag>>
        /\ UNCHANGED <<eUp, eDown, eLinked, layouts, eEvents>>
    BY <1>6 DEF layoutVars
  <2>2. Editing!TypeOK' /\ AllTidy'
    BY <2>1 DEF EditBound, Editing!TypeOK, AllTidy, Tidy
  <2>3. LayoutBudget'
    BY <2>1 DEF EditBound, LayoutBudget, Owed, IsOwed, Numbers, Sent, IsLayout
  <2>. QED BY <2>2, <2>3 DEF EditBound, AllTidy
<1>. QED BY <1>1, <1>2, <1>3, <1>4, <1>5, <1>6 DEF Editing!Next

-----------------------------------------------------------------------------
(***************************************************************************)
(* Every variable of the control plane has a value of its type, whatever   *)
(* frames cross and whatever connections break: no frame comes to a        *)
(* handler that does not know it, nothing is kept for or sent to nobody,   *)
(* a lease never lasts longer than its time to live, and there are no more *)
(* revisions of the layout than layouts were made.                         *)
(***************************************************************************)
THEOREM NetworkTypes == NetworkSpec => []NetworkTypeOK
<1>. DEFINE Inv == /\ IInv /\ ShareInv /\ GroupInv /\ OfficeInv
                   /\ Relay!TypeOK /\ Leases!TypeOK /\ EditBound
<1>1. Distinct
  BY NodesDiffer, BoundsAreNumbers DEF Distinct
<1>2. NetworkInit => Inv
  BY <1>1, InitInv, ShareInit, GroupInit, OfficeInit, RelayInit, LeaseInitType, EditBoundInit
  DEF NetworkInit
<1>3. Inv /\ [NetworkNext]_networkVars => Inv'
  <2>. SUFFICES ASSUME Inv, [NetworkNext]_networkVars PROVE Inv'
    OBVIOUS
  <2>1. IInv' /\ ShareInv' /\ GroupInv' /\ OfficeInv'
    BY <1>1, OnlyPartsMove, NextInv, ShareNext, GroupNext, OfficeNext
  <2>2. Relay!TypeOK' /\ Leases!TypeOK' /\ EditBound'
    BY OnlyPartsMove, RelayNext, LeaseNext, EditBoundNext
  <2>. QED BY <2>1, <2>2
<1>4. Inv => NetworkTypeOK
  BY DEF NetworkTypeOK, IInv, ShareInv, GroupInv, OfficeInv, EditBound
<1>. QED BY <1>2, <1>3, <1>4, PTL DEF NetworkSpec
=============================================================================

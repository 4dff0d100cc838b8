------------------------------ MODULE Network ------------------------------
(***************************************************************************)
(* The components that exchange frames with the coordinator, and the       *)
(* connections of two nodes (PeerLink, which this module extends).  They   *)
(* have no variable in common and run side by side: in the first state one *)
(* is chosen, and only that one runs.                                      *)
(***************************************************************************)
EXTENDS PeerLink, Sequences, FiniteSets

CONSTANTS
  n1, n2, n3,                                        \* a coordinator and two other nodes
  GroupPeer, GroupRank, UpdateKey, UpdateRequest,    \* GroupUpdate
  MaxGroupBreaks, MaxJobs,
  Share, Transfer, MaxTickets,                       \* InstallerShare
  EditPeer, MaxEdits,                                \* LayoutEdit
  Ctl, Tgt, MaxChanges                               \* Takeover

\* the nodes of a list are finitely many, and differ; None is none of them
ASSUME NodesDiffer ==
  /\ n1 # n2 /\ n1 # n3 /\ n2 # n3 /\ None \notin {n1, n2, n3}
  /\ A # B /\ None \notin End
  /\ n1 \notin GroupPeer /\ None \notin GroupPeer /\ None \notin UpdateKey
  /\ n1 \notin EditPeer /\ None \notin EditPeer /\ "bound" \notin EditPeer \cup {n1}
  /\ IsFiniteSet(EditPeer)
  /\ Ctl # Tgt

ASSUME BoundsAreNumbers ==
  {MaxEvents, MaxGroupBreaks, MaxJobs, MaxEdits, MaxChanges} \subseteq Nat

VARIABLES
  part,                                                             \* the one that runs
  track, told, work, up, down, linked, breaks,                      \* RequestRelay
  link, job, cache, dispatch, sending, doing, results,              \* GroupUpdate
  gAsked, gTold, jobs, gBreaks,
  shares, stage, ticket, next, active,                              \* InstallerShare
  editor, revision, steps, wants, holder, rev, layout, drag,        \* LayoutEdit
  eUp, eDown, eLinked, layouts, eEvents,
  conn, leases, ttl, todo,                                          \* LeaseService
  oLinked, office, seen, epoch, state, auth, lease, oUp, oDown,     \* Takeover
  missed, changes

leaseVars  == <<conn, leases, ttl, todo>>
linkVars   == vars   \* PeerLink
relayVars  == <<track, told, work, up, down, linked, breaks>>
groupVars  == <<link, job, cache, dispatch, sending, doing, results, gAsked, gTold, jobs, gBreaks>>
shareVars  == <<shares, stage, ticket, next, active>>
layoutVars == <<editor, revision, steps, wants, holder, rev, layout, drag, eUp, eDown,
                eLinked, layouts, eEvents>>
officeVars == <<oLinked, office, seen, epoch, state, auth, lease, oUp, oDown, missed, changes>>

Ask(who, what, whom) == [by |-> who, kind |-> what, target |-> whom]
Requests == {Ask(n2, "update", n3), Ask(n2, "refresh", n3), Ask(n1, "update", n2),
             Ask(n3, "note", n2), Ask(n1, "switch", n1)}

Relay   == INSTANCE RequestRelay WITH Coord <- n1, Peer <- {n2, n3}, Request <- Requests,
             MaxAsked <- 2, MaxBreaks <- 1
Group   == INSTANCE GroupUpdate WITH Coord <- n1, Peer <- GroupPeer, Rank <- GroupRank,
             Key <- UpdateKey, Request <- UpdateRequest, MaxBreaks <- MaxGroupBreaks,
             asked <- gAsked, told <- gTold, breaks <- gBreaks
Sharing == INSTANCE InstallerShare
Editing == INSTANCE LayoutEdit WITH Coord <- n1, Peer <- EditPeer, MaxEvents <- MaxEdits,
             up <- eUp, down <- eDown, linked <- eLinked, events <- eEvents
Leases  == INSTANCE LeaseService WITH Peer <- {n2, n3}, Controls <- {<<n2, n3>>}, Flaky <- {n2, n3},
             Ttl <- 1, MaxTodo <- 0
Office  == INSTANCE Takeover WITH First <- n1, Second <- n2,
             linked <- oLinked, up <- oUp, down <- oDown

NetworkInit ==
  /\ part \in {"links", "relay", "group", "share", "layout", "lease", "office"}
  /\ Init /\ Relay!Init /\ Group!Init /\ Sharing!Init /\ Editing!Init
  /\ Leases!Init /\ Office!Init
  /\ part # "links" => known = {}
  /\ part # "relay" => linked = {}

LinkStep   == /\ part = "links" /\ Next
              /\ UNCHANGED <<part, relayVars, groupVars, shareVars, layoutVars, leaseVars, officeVars>>
RelayStep  == /\ part = "relay" /\ Relay!Next
              /\ UNCHANGED <<part, linkVars, groupVars, shareVars, layoutVars, leaseVars, officeVars>>
GroupStep  == /\ part = "group" /\ Group!Next
              /\ UNCHANGED <<part, linkVars, relayVars, shareVars, layoutVars, leaseVars, officeVars>>
ShareStep  == /\ part = "share" /\ Sharing!Next
              /\ UNCHANGED <<part, linkVars, relayVars, groupVars, layoutVars, leaseVars, officeVars>>
EditStep   == /\ part = "layout" /\ Editing!Next
              /\ UNCHANGED <<part, linkVars, relayVars, groupVars, shareVars, leaseVars, officeVars>>
LeaseStep  == /\ part = "lease" /\ Leases!Next
              /\ UNCHANGED <<part, linkVars, relayVars, groupVars, shareVars, layoutVars, officeVars>>
OfficeStep == /\ part = "office" /\ Office!Next
              /\ UNCHANGED <<part, linkVars, relayVars, groupVars, shareVars, layoutVars, leaseVars>>

NetworkNext == LinkStep \/ RelayStep \/ GroupStep \/ ShareStep \/ EditStep \/ LeaseStep \/ OfficeStep

networkVars == <<part, linkVars, relayVars, groupVars, shareVars, layoutVars, leaseVars, officeVars>>

-----------------------------------------------------------------------------
(***************************************************************************)
(* Fairness, as in the modules, of the part that runs: threads that have   *)
(* something to do go on.                                                  *)
(***************************************************************************)
LinkFairness ==
  /\ \A n \in Node :
       /\ WF_linkVars(part = "links" /\ DialConnect(n))
       /\ WF_linkVars(part = "links" /\ (DialBind(n) \/ DialAgain(n)))
       /\ WF_linkVars(part = "links" /\ WaitOver(n))
  /\ \A e \in End : WF_linkVars(part = "links" /\ (Close(e) \/ Unbind(e)))
  /\ \A k \in Conn :
       WF_linkVars(part = "links" /\ (HandleReject(k) \/ ServeBind(k)
                                      \/ ServeReject(k)))

RelayFairness ==
  /\ \A r \in Requests : /\ WF_relayVars(part = "relay" /\ Relay!Track(r))
                         /\ WF_relayVars(part = "relay" /\ Relay!Expire(r))
  /\ \A n \in {n2, n3} : /\ WF_relayVars(part = "relay" /\ Relay!CoordReceives(n))
                       /\ WF_relayVars(part = "relay" /\ Relay!PeerReceives(n))

GroupFairness ==
  /\ \A k \in UpdateKey : /\ WF_groupVars(part = "group" /\ Group!DispatchNext(k))
                                /\ WF_groupVars(part = "group" /\ Group!ExpireOnce(k))
  /\ WF_groupVars(part = "group" /\ \E m \in sending : Group!SendCommand(m))

ShareFairness ==
  \A h \in Transfer : WF_shareVars(part = "share" /\ (Sharing!Begin(h) \/ Sharing!Release(h)))

EditFairness ==
  /\ \A t \in Editing!Thread : WF_layoutVars(part = "layout" /\ Editing!Proceed(t))
  /\ \A n \in EditPeer : /\ WF_layoutVars(part = "layout" /\ Editing!CoordReceives(n))
                         /\ WF_layoutVars(part = "layout" /\ Editing!PeerReceives(n))
                         /\ WF_layoutVars(part = "layout" /\ Editing!Rebind(n))
  /\ \A n \in EditPeer \cup {n1} : WF_layoutVars(part = "layout" /\ Editing!Retry(n))

LeaseFairness ==
  /\ \A th \in Leases!Thread : WF_leaseVars(part = "lease" /\ Leases!ThreadStep(th))
  /\ WF_leaseVars(part = "lease" /\ Leases!ExpireOnce)
  /\ WF_leaseVars(part = "lease" /\ Leases!Tick)

OfficeFairness ==
  /\ WF_officeVars(part = "office" /\ Office!ControlTick)
  /\ \A k \in {n1, n2} : /\ WF_officeVars(part = "office" /\ Office!Serve(k))
                       /\ WF_officeVars(part = "office" /\ Office!CtlReceives(k))
                       /\ WF_officeVars(part = "office" /\ Office!TgtReceives(k))
  /\ \A n \in {Ctl, Tgt} : /\ WF_officeVars(part = "office" /\ Office!OnCoordinatorChanged(n))
                               /\ WF_officeVars(part = "office" /\ Office!Rebind(n))
                               /\ WF_officeVars(part = "office" /\ Office!HandOver(n))

NetworkSpec ==
  /\ NetworkInit /\ [][NetworkNext]_networkVars
  /\ LinkFairness /\ RelayFairness /\ GroupFairness /\ ShareFairness
  /\ EditFairness /\ LeaseFairness /\ OfficeFairness

-----------------------------------------------------------------------------
(***************************************************************************)
(* The properties of the parts, which are explained there.  Those of       *)
(* PeerLink (OneConnection, EndsAgree, GetConnected) are its own.          *)
(***************************************************************************)
\* every variable has a value of its type
NetworkTypeOK == /\ TypeOK /\ Relay!TypeOK /\ Group!TypeOK
                 /\ Sharing!TypeOK /\ Editing!TypeOK /\ Leases!TypeOK /\ Office!TypeOK

\* RequestRelay: every request comes to an end.
RequestsEnd == Relay!RequestsEnd

\* GroupUpdate: a job is always in somebody's hands and no request is answered
\* twice; every request is answered.
JobsInOrder == Group!JobInHand /\ Group!AnsweredOnce
Answered    == Group!Answered

\* InstallerShare: transfers take turns, and each gets its turn.
OneTransfer    == Sharing!OneTransfer
EveryoneServed == Sharing!EveryoneServed

\* LayoutEdit: all end with the latest layout; who asks for the lock is answered.
LatestRevision == Editing!LatestRevision
EditAnswered   == Editing!EditAnswered

\* LeaseService: leases on targets that have gone, and of controllers that
\* have gone, are freed.
LeasesFreed == Leases!OfflineTargetFreed /\ Leases!OrphanedLeaseFreed

\* Takeover: who is let in has the lease of the coordinator in office, and
\* who is active gets it.
LetInByOffice == Office!LetInByOffice
LeaseFollows  == Office!LeaseFollows
=============================================================================

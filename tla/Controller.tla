----------------------------- MODULE Controller -----------------------------
(***************************************************************************)
(* What one controller does: its keyboard hook (KeyCapture, which this     *)
(* module extends), its session with the coordinator about one target      *)
(* (LeaseSession) and its pointer (EdgeSwitch).  As in Network they have   *)
(* no variable in common: in the first state one is chosen, and only that  *)
(* one runs.                                                               *)
(***************************************************************************)
EXTENDS KeyCapture, Naturals

CONSTANTS
  ctl, tgt,                     \* the controller and the target
  Row, NodeOf, Logical, Self    \* EdgeSwitch

VARIABLES
  part,                                                               \* the one that runs
  conn, leases, ttl, todo, req, engaged, auth, overriding, up, down,  \* LeaseSession
  router, online, auto, drag, cool, hold, clip, pointer, scheme,      \* EdgeSwitch
  flag, listeners, move, crossed, app, dog

sessionVars == <<conn, leases, ttl, todo, req, engaged, auth, overriding, up, down>>
keyVars     == vars   \* KeyCapture
edgeVars    == <<router, online, auto, drag, cool, hold, clip, pointer, scheme, flag, listeners,
                 move, crossed, app, dog>>

Session == INSTANCE LeaseSession WITH Peer <- {ctl, tgt}, Controls <- {<<ctl, tgt>>},
             Flaky <- {}, Ttl <- 1, MaxTodo <- 0, Quitters <- {ctl},
             Touched <- {tgt}, MaxUp <- 1, MaxDown <- 1, active <- engaged
Edges   == INSTANCE EdgeSwitch WITH todo <- listeners, raced <- crossed

ASSUME NoneIsNeither == None \notin Edges!Node \cup Edges!Hold
ASSUME NoneIsNoPeer  == None \notin {ctl, tgt}

\* build_layout_config places every node of the node list, this one as well
ASSUME SelfHasScreens == Self \in Edges!Node

ControllerInit ==
  /\ part \in {"session", "keys", "edges"}
  /\ Session!SessionInit /\ KeyInit /\ Edges!EdgeInit

SessionStep ==
  part = "session" /\ Session!SessionNext /\ UNCHANGED <<part, keyVars, edgeVars>>
KeyStep  == part = "keys"  /\ KeyNext        /\ UNCHANGED <<part, sessionVars, edgeVars>>
EdgeStep == part = "edges" /\ Edges!EdgeNext /\ UNCHANGED <<part, sessionVars, keyVars>>

ControllerNext == SessionStep \/ KeyStep \/ EdgeStep

controllerVars == <<part, sessionVars, keyVars, edgeVars>>

\* fairness as in the modules, of the part that runs
SessionFairness ==
  /\ \A n \in {ctl, tgt} : /\ WF_sessionVars(part = "session" /\ Session!Deliver(n))
                           /\ WF_sessionVars(part = "session" /\ Session!Receive(n))
                           /\ SF_sessionVars(part = "session" /\ Session!ControlTick(n))
  /\ \A th \in Session!Thread :
       WF_sessionVars(part = "session" /\ (Session!LeaseStep(th) \/ Session!SendDown(th)))
  /\ WF_sessionVars(part = "session" /\ Session!Expire)
  /\ WF_sessionVars(part = "session" /\ Session!TimePasses)

ControllerSpec == /\ ControllerInit /\ [][ControllerNext]_controllerVars
                  /\ SessionFairness
                  /\ WF_edgeVars(part = "edges" /\ Edges!Guard)

-----------------------------------------------------------------------------
(***************************************************************************)
(* The properties of the parts, which are explained there; that of         *)
(* KeyCapture (ModifiersAccounted) is its own.                             *)
(***************************************************************************)
\* every variable has a value of its type
ControllerTypeOK == Session!SessionTypeOK /\ KeyTypeOK /\ Edges!EdgeTypeOK

\* LeaseSession: a lease nobody asks for is freed, and a controller without
\* one gets it back or stops.
LeaseOrStop == Session!AbandonedLeaseFreed /\ Session!UnleasedControllerStops

\* EdgeSwitch: the cursor is confined, hidden and given back as it should be.
ClipOnlyWhileHeld   == Edges!ClipOnlyWhileHeld
CursorFollowsRouter == Edges!CursorFollowsRouter
CursorComesBack     == Edges!CursorComesBack
=============================================================================

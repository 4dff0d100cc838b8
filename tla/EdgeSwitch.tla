----------------------------- MODULE EdgeSwitch -----------------------------
(***************************************************************************)
(* The pointer of a controller at the edges of its screens:                *)
(* AutoTargetSwitcher (routing/auto_switch.py), EdgeActionExecutor         *)
(* (edge_actions.py), the local cursor (windows/local_cursor.py), and what *)
(* the session hangs on the router's state: the cursor is parked, freed    *)
(* and hidden while another node is controlled, and shown otherwise.       *)
(*                                                                         *)
(* The mouse hook handles one move at a time.  The router's state changes  *)
(* under its lock, in the hook's thread or another; the listeners run      *)
(* after it, in the thread that changed it, one after the other.  Pixels   *)
(* are left out: a move may be at any edge of any screen of its node, and  *)
(* one that is dropped (late, at the anchor, away from an edge) changes    *)
(* nothing.  Clearing the clip and restoring the cursors do not fail.      *)
(***************************************************************************)
EXTENDS Naturals, Sequences

CONSTANTS
  Row,      \* the screens, from left to right
  NodeOf,   \* the node of each
  Logical,  \* the edges <<screen, direction>> with a neighbour in the logical layout only
  Self,
  None

Direction == {"left", "right"}
Screen == {Row[i] : i \in DOMAIN Row}
Node == {NodeOf[s] : s \in Screen}
Thread == {"hook", "other"}   \* the mouse hook's; one that handles frames, or the window's

VARIABLES
  router,   \* state and target of the InputRouter
  online,   \* the nodes with an open connection
  auto,     \* layout.auto_switch.enabled
  drag,     \* a mouse button is held
  cool,     \* the cooldown after a switch runs
  hold,     \* _edge_hold, or None
  clip,     \* what the system's cursor is confined to: a hold's, another program's, or nothing
  pointer,  \* the node of the ActiveRemotePointer, or None
  scheme,   \* the system's cursors
  flag,     \* _transparent_cursors_active
  todo,     \* what a thread still has to do about states it has set
  move,     \* the node the hook takes its current move to be on, or None
  raced,    \* the last change of state met listeners, or a move, of another thread
  app,      \* the program is up, stopping or down
  dog       \* its watchdog runs

routerVars == <<router, todo, raced>>
edgeVars == <<hold, clip>>
cursorVars == <<scheme, flag>>
worldVars == <<online, auto, drag, cool>>
lifeVars == <<app, dog>>
vars == <<routerVars, edgeVars, cursorVars, worldVars, lifeVars, pointer, move>>

Inactive == [state |-> "inactive", target |-> None]
Pending(t) == [state |-> "pending", target |-> t]
Active(t) == [state |-> "active", target |-> t]
RouterState == {Inactive} \cup {Pending(t) : t \in Node \ {Self}} \cup {Active(t) : t \in Node \ {Self}}

Hold == [node : Node, screen : Screen, dir : Direction, local : BOOLEAN,
         guarded : BOOLEAN, inward : 0..1]
Job == [do : {"cursor", "pointer", "claim"}, for : RouterState]

EdgeTypeOK ==
  /\ router \in RouterState /\ online \subseteq Node
  /\ auto \in BOOLEAN /\ drag \in BOOLEAN /\ cool \in BOOLEAN
  /\ hold \in Hold \cup {None} /\ clip \in {"none", "ours", "other"}
  /\ pointer \in Node \cup {None} /\ scheme \in {"normal", "partly", "transparent"}
  /\ flag \in BOOLEAN /\ todo \in [Thread -> Seq(Job)] /\ move \in Node \cup {None}
  /\ raced \in BOOLEAN /\ app \in {"up", "stopping", "down"} /\ dog \in BOOLEAN

EdgeInit ==
  /\ router = Inactive /\ online = {} /\ auto = TRUE /\ drag = FALSE /\ cool = FALSE
  /\ hold = None /\ clip = "none" /\ pointer = None /\ scheme = "normal" /\ flag = FALSE
  /\ todo = [th \in Thread |-> <<>>] /\ move = None /\ raced = FALSE
  /\ app = "up" /\ dog = TRUE

Running == app # "down"
Idle(th) == todo[th] = <<>> /\ (th = "hook" => move = None)

-----------------------------------------------------------------------------
(***************************************************************************)
(* The router's state.                                                     *)
(***************************************************************************)

\* InputRouter._swap_state in thread th, which then has its listeners to run, and more after them
Swap(th, s, more) ==
  IF s = router
  THEN UNCHANGED routerVars
  ELSE /\ router' = s
       /\ todo' = [todo EXCEPT ![th] = <<[do |-> "cursor", for |-> s], [do |-> "pointer", for |-> s]>>
                                        \o more]
       /\ raced' = (\/ \E o \in Thread \ {th} : todo[o] # <<>>
                    \/ th # "hook" /\ move # None)

\* CoordinatorClient.request_target: the state changes first, then the claim is sent
Request(th, t) ==
  IF router.target = t
  THEN UNCHANGED routerVars
  ELSE Swap(th, Pending(t), <<[do |-> "claim", for |-> Pending(t)]>>)

\* a lease update or a reject, a key or a click of the user
Grant ==
  /\ Running /\ Idle("other") /\ router.state = "pending"
  /\ Swap("other", Active(router.target), <<>>)
  /\ UNCHANGED <<edgeVars, cursorVars, worldVars, lifeVars, pointer, move>>

Lose ==
  /\ Running /\ Idle("other") /\ router # Inactive
  /\ Swap("other", Inactive, <<>>)
  /\ UNCHANGED <<edgeVars, cursorVars, worldVars, lifeVars, pointer, move>>

Choose(t) ==
  /\ Running /\ Idle("other")
  /\ Request("other", t)
  /\ UNCHANGED <<edgeVars, cursorVars, worldVars, lifeVars, pointer, move>>

Done(th) == todo' = [todo EXCEPT ![th] = Tail(@)]
Doing(th, what) == Running /\ todo[th] # <<>> /\ Head(todo[th]).do = what

\* Mutant of HideCursor: that the cursors are transparent is not remembered.
HideCursorUnmarked ==
  /\ scheme' = IF flag THEN scheme ELSE "transparent"
  /\ UNCHANGED flag

\* apply_transparent_system_cursors: one cursor after the other, until one of them fails
Transparent ==
  \/ scheme' = "transparent" /\ flag' = TRUE
  \/ scheme' = (IF scheme = "normal" THEN "partly" ELSE scheme) /\ UNCHANGED flag
  \/ UNCHANGED cursorVars

HideCursor == IF flag THEN UNCHANGED cursorVars ELSE Transparent

\* show_cursor: only one that knows it has made them transparent restores them
ShowCursor ==
  /\ scheme' = IF flag THEN "normal" ELSE scheme
  /\ flag' = FALSE

\* LocalCursorController.clear_clip
ClearClip == clip' = "none"

\* session._sync_local_cursor_visibility: parked and hidden, or put back and shown
ListenCursor(th) ==
  /\ Doing(th, "cursor") /\ Done(th)
  /\ ClearClip
  /\ IF Head(todo[th]).for.state = "active" THEN HideCursor ELSE ShowCursor
  /\ UNCHANGED <<router, raced, hold, worldVars, lifeVars, pointer, move>>

\* AutoTargetSwitcher.on_router_state_change
ListenPointer(th) ==
  /\ Doing(th, "pointer") /\ Done(th)
  /\ LET s == Head(todo[th]).for
     IN pointer' = IF s.state = "active" THEN s.target ELSE None
  /\ UNCHANGED <<router, raced, edgeVars, cursorVars, worldVars, lifeVars, move>>

\* the rest of request_target: the claim is sent, or it fails and the target is given up
Claim(th) ==
  /\ Doing(th, "claim")
  /\ \/ Done(th) /\ UNCHANGED <<router, raced>>
     \/ IF router.target = Head(todo[th]).for.target
        THEN Swap(th, Inactive, <<>>)
        ELSE Done(th) /\ UNCHANGED <<router, raced>>
  /\ UNCHANGED <<edgeVars, cursorVars, worldVars, lifeVars, pointer, move>>

-----------------------------------------------------------------------------
(***************************************************************************)
(* Edges: resolve_edge_route and what its answer does.                     *)
(***************************************************************************)
Current == IF router.state = "active" THEN router.target ELSE Self

At(s) == CHOOSE i \in DOMAIN Row : Row[i] = s
NextTo(s, d) ==
  LET i == IF d = "left" THEN At(s) - 1 ELSE At(s) + 1
  IN IF i \in DOMAIN Row THEN Row[i] ELSE None

\* AutoTargetSwitcher._target_is_online
TargetIsOnline(n) == n \in online \cup {Self}

Resolve(s, d) ==
  LET next == NextTo(s, d) IN
  IF next = None THEN IF NodeOf[s] = Self \/ <<s, d>> \in Logical THEN "block" ELSE "allow"
  ELSE IF NodeOf[next] = NodeOf[s] THEN "self-warp"
  ELSE IF ~auto THEN "block"
  ELSE IF TargetIsOnline(NodeOf[next]) THEN "target-switch"
  ELSE IF NodeOf[s] = Self THEN "block" ELSE "allow"

\* Mutant of Release: the hold is forgotten, and the system still confines the cursor.
ReleaseForgotten == hold' = None /\ UNCHANGED clip

\* release_edge_hold: what is left of hold and clip
Release ==
  /\ hold' = None
  /\ clip' = IF hold # None /\ hold.local THEN "none" ELSE clip

NewHold(s, d) == [node |-> NodeOf[s], screen |-> s, dir |-> d, local |-> NodeOf[s] = Self,
                  guarded |-> FALSE, inward |-> 0]
SameEdge(s, d) == hold # None /\ hold.screen = s /\ hold.dir = d

\* _apply_block and _begin_edge_hold: on this node the system confines the cursor, if it can;
\* a cursor found outside is put back
ApplyBlock(s, d) ==
  \/ SameEdge(s, d) /\ UNCHANGED edgeVars
  \/ ~SameEdge(s, d) /\ NodeOf[s] # Self /\ hold' = NewHold(s, d)
     /\ clip' = IF hold # None /\ hold.local THEN "none" ELSE clip
  \/ ~SameEdge(s, d) /\ NodeOf[s] = Self /\ hold' = NewHold(s, d) /\ clip' = "ours"
  \/ ~SameEdge(s, d) /\ NodeOf[s] = Self /\ Release

\* _apply_internal_warp
ApplyWarp(s) ==
  /\ hold' = None
  /\ clip' = IF NodeOf[s] = Self \/ (hold # None /\ hold.local) THEN "none" ELSE clip

\* the rest of apply_route: a switch, unless a button is held or the last one is recent
ApplySwitch(s, d) ==
  LET to == NodeOf[NextTo(s, d)] IN
  IF drag \/ cool
  THEN UNCHANGED <<edgeVars, routerVars, cool>>
  ELSE /\ Release
       /\ IF to = Self THEN Swap("hook", Inactive, <<>>) ELSE Request("hook", to)
       /\ cool' = TRUE

ApplyRoute(s, d) ==
  \/ Resolve(s, d) = "allow" /\ Release /\ UNCHANGED <<routerVars, cool>>
  \/ Resolve(s, d) = "block" /\ ApplyBlock(s, d) /\ UNCHANGED <<routerVars, cool>>
  \/ Resolve(s, d) = "self-warp" /\ ApplyWarp(s) /\ UNCHANGED <<routerVars, cool>>
  \/ Resolve(s, d) = "target-switch" /\ ApplySwitch(s, d)

-----------------------------------------------------------------------------
(***************************************************************************)
(* A hold that exists goes on: _continue_local_edge_hold.  The pointer     *)
(* has moved inwards a little, or far, or not; then it presses on the      *)
(* edge, has leaked out, or what the hook sees is contradictory.           *)
(***************************************************************************)
Inwards(far) ==
  IF far \/ hold.inward = 1
  THEN Release
  ELSE /\ hold' = [hold EXCEPT !.inward = 1, !.guarded = TRUE]
       /\ UNCHANGED clip

\* clip_to_rect: the system confines the cursor, if it can
Clipped(before) == {before, "ours"}

\* _refresh_local_hold_clip
Refreshed == Clipped(clip)

\* _repair_local_hold_leak: a clip that cannot be had back is given up, the cursor
\* put back, and the clip tried once more
Repaired(now) == IF now = "ours" THEN {"ours"} ELSE Clipped("none")

Outwards(leaked, clear) ==
  LET held == [hold EXCEPT !.inward = 0] IN
  IF ~hold.guarded /\ clip = "ours" /\ clear /\ ~leaked
  THEN hold' = held /\ UNCHANGED clip
  ELSE \E now \in Refreshed :
         IF leaked
         THEN hold' = [held EXCEPT !.guarded = TRUE] /\ clip' \in Repaired(now)
         ELSE /\ hold' = [held EXCEPT !.guarded = ~(now = "ours" /\ clear)]
              /\ clip' = now

ContinueLocal ==
  \/ \E far \in BOOLEAN : Inwards(far)
  \/ \E leaked, clear \in BOOLEAN : Outwards(leaked, clear)

\* _continue_remote_edge_hold: the remote pointer stays at the edge, or leaves it
ContinueRemote == Release \/ UNCHANGED edgeVars

\* continue_edge_hold
ContinueHold == IF hold.local THEN ContinueLocal ELSE ContinueRemote

-----------------------------------------------------------------------------
(***************************************************************************)
(* A move of the mouse: AutoTargetSwitcher._process_mouse_move.            *)
(***************************************************************************)

\* edge_hold_context: a hold on node n
HoldOn(n) == hold # None /\ hold.node = n

\* sync_edge_hold: a hold on another node is given up
SyncHold == IF hold # None /\ ~HoldOn(Current) THEN Release ELSE UNCHANGED edgeVars

\* it reads which node the move is on
MoveBegins ==
  /\ Running /\ Idle("hook")
  /\ move' = Current
  /\ SyncHold
  /\ UNCHANGED <<routerVars, cursorVars, worldVars, lifeVars, pointer>>

\* on a target the remote pointer follows, and is begun if it has not been
Follow == pointer' = IF move # Self THEN move ELSE pointer

MoveEnds(Effect) ==
  /\ Running /\ move # None /\ todo["hook"] = <<>>
  /\ Follow
  /\ Effect
  /\ move' = None
  /\ UNCHANGED <<cursorVars, online, auto, drag, lifeVars>>

\* it changes nothing
MoveIgnored == MoveEnds(UNCHANGED <<edgeVars, routerVars, cool>>)

\* _build_frame reads the node again: a hold on that node goes on
MoveHeld ==
  /\ HoldOn(Current)
  /\ MoveEnds(ContinueHold /\ UNCHANGED <<routerVars, cool>>)

\* it meets an edge: with a hold on this node that is local, it does not get there
MoveAtEdge(s, d) ==
  /\ NodeOf[s] = Current
  /\ HoldOn(Current) => ~hold.local
  /\ MoveEnds(ApplyRoute(s, d))

-----------------------------------------------------------------------------
(***************************************************************************)
(* The surroundings, and the life of the program.                          *)
(***************************************************************************)
\* note_local_hold_risk: the focus has moved
HoldRisk ==
  /\ hold # None /\ hold.local /\ Current = Self
  /\ hold' = [hold EXCEPT !.guarded = TRUE]

World ==
  /\ \/ \E n \in Node \ {Self} : online' = (online \ {n}) \cup ({n} \ online)
        /\ UNCHANGED <<auto, drag, cool, edgeVars>>
     \/ auto' = ~auto /\ UNCHANGED <<online, drag, cool, edgeVars>>
     \/ drag' = ~drag /\ UNCHANGED <<online, auto, cool, edgeVars>>
     \/ cool /\ cool' = FALSE /\ UNCHANGED <<online, auto, drag, edgeVars>>
     \/ clip' \in {"none", "other"} /\ UNCHANGED <<hold, worldVars>>
     \/ HoldRisk /\ UNCHANGED <<clip, worldVars>>
  /\ Running
  /\ UNCHANGED <<routerVars, cursorVars, lifeVars, pointer, move>>

\* RuntimeSession.shutdown frees and shows the cursor first, and stops the threads later
Quit ==
  /\ app = "up" /\ app' = "stopping"
  /\ ClearClip /\ ShowCursor
  /\ UNCHANGED <<routerVars, hold, worldVars, dog, pointer, move>>

\* it ends, or is ended
Gone ==
  /\ Running /\ app' = "down"
  /\ router' = Inactive /\ hold' = None /\ pointer' = None /\ move' = None
  /\ todo' = [th \in Thread |-> <<>>] /\ raced' = FALSE /\ flag' = FALSE /\ cool' = FALSE
  /\ UNCHANGED <<clip, scheme, online, auto, drag, dog>>

\* Mutant of Guard: it only frees the clip.
GuardClipOnly ==
  /\ app = "down" /\ dog
  /\ clip' = "none" /\ dog' = FALSE
  /\ UNCHANGED <<routerVars, hold, cursorVars, worldVars, app, pointer, move>>

\* clip_recovery.release_input_guards
FreeInput == clip' = "none" /\ scheme' = "normal"

\* the watchdog sees that the program has gone
Guard ==
  /\ app = "down" /\ dog
  /\ FreeInput /\ dog' = FALSE
  /\ UNCHANGED <<routerVars, hold, flag, worldVars, app, pointer, move>>

\* spawn_clip_watchdog may fail
SpawnWatchdog == dog' \in BOOLEAN

\* entry.main frees the input as well
Start ==
  /\ app = "down" /\ ~dog /\ app' = "up"
  /\ FreeInput /\ SpawnWatchdog
  /\ UNCHANGED <<routerVars, hold, flag, worldVars, pointer, move>>

EdgeNext ==
  \/ Grant \/ Lose \/ (\E t \in Node \ {Self} : Choose(t))
  \/ \E th \in Thread : ListenCursor(th) \/ ListenPointer(th) \/ Claim(th)
  \/ MoveBegins \/ MoveIgnored \/ MoveHeld
  \/ \E s \in Screen, d \in Direction : MoveAtEdge(s, d)
  \/ World \/ Quit \/ Gone \/ Guard \/ Start

\* the watchdog polls the process it was given
EdgeSpec == EdgeInit /\ [][EdgeNext]_vars /\ WF_vars(Guard)

-----------------------------------------------------------------------------
(***************************************************************************)
(* Properties.                                                             *)
(***************************************************************************)

\* The program never leaves the cursor confined without a hold that a later move can
\* release: every way out of a hold, and every attempt at one that fails, frees it.
ClipOnlyWhileHeld ==
  Running /\ clip = "ours" => hold # None /\ hold.local /\ hold.node = Self

\* When the listeners of a change of state have run, and nothing overlapped it, the cursor
\* and the remote pointer agree with the router: no transparent cursors and no remote
\* pointer without an active target, no confined cursor and no other pointer with one.
CursorFollowsRouter ==
  app = "up" /\ ~raced /\ (\A th \in Thread : todo[th] = <<>>) =>
    IF router.state = "active"
    THEN pointer = router.target /\ (move = None => clip # "ours")
    ELSE scheme # "transparent" /\ pointer = None

\* However the program ends, its watchdog gives the cursor back.
CursorComesBack == (app = "down" /\ dog) ~> (clip # "ours" /\ scheme = "normal")

=============================================================================

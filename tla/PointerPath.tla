----------------------------- MODULE PointerPath -----------------------------
(***************************************************************************)
(* Where the pointer is, in pixels, as a controller moves it over its own  *)
(* screens and over a target's.  On its own screens the system moves the   *)
(* cursor, unless the mouse hook blocks the move.  On a target the cursor  *)
(* is held at the parking point, and what it is moved by moves a virtual   *)
(* pointer (routing/remote_pointer.py), whose position is sent.  Edges are *)
(* found with routing/edge_detection.py and display_state.py.              *)
(*                                                                         *)
(* EdgeSwitch has the rest of these files: holds, the clip, the threads.   *)
(* Here the target is online and automatic switching enabled; an edge has  *)
(* one neighbour or none, and the screens the same effective size, so that *)
(* pointers move at the same speed on all of them.  Time is left out: a    *)
(* cooldown runs or not, and a guard ends at some moment.                  *)
(***************************************************************************)
EXTENDS Integers, Sequences

CONSTANTS
  Screen,   \* the screens of both nodes
  Own,      \* those of the controller
  Rect,     \* Rect[s]: its first and last columns and rows
  Desk,     \* the rectangle that the controller's screens fill
  Beside,   \* Beside[s][d]: the screen at an edge, or None
  First,    \* a target's first logical screen
  Primary,  \* its primary screen
  Parking,  \* host_cursor_parking_point
  Moves,    \* what one event moves the mouse by
  None

Direction == {"left", "right", "up", "down"}
Opposite == [left |-> "right", right |-> "left", up |-> "down", down |-> "up"]
Within(r) == (r.left .. r.right) \X (r.top .. r.bottom)
Pixels(s) == Within(Rect[s])
OwnPixel == UNION {Pixels(s) : s \in Own}
FarPixel == UNION {Pixels(s) : s \in Screen \ Own}
Point == Int \X Int
Frame == [left : Int, right : Int, top : Int, bottom : Int]
Sample == [screen : Own, at : Point]
Trip == [dir : Direction, at : OwnPixel, line : Int]

VARIABLES
  mode,     \* the router: on its own screens, waiting for a grant, or on the target
  local,    \* where the local cursor is
  sample,   \* the last move there that met no edge: a screen and a position, or None
  guard,    \* _anchor_pixel, or None
  held,     \* there is a local _edge_hold
  handoff,  \* _handoff_anchor_event, or None
  due,      \* _apply_pending_handoff has still to run
  start,    \* _last_remote_anchor_event, or None
  remote,   \* current_event of the ActiveRemotePointer, or None
  shown,    \* its _active_display_id, or None
  known,    \* the target's screen in _display_state_by_node, or None
  stray,    \* the remote pointer has not been put in place by a move
  trip      \* where the pointer has left its own screens, until it leaves its line

localVars == <<local, sample, guard, held>>
farVars == <<start, remote, shown, known, stray>>
vars == <<mode, localVars, handoff, due, farVars, trip>>

PointerTypeOK ==
  /\ mode \in {"self", "pending", "target"} /\ local \in OwnPixel
  /\ sample \in Sample \cup {None}
  /\ guard \in OwnPixel \cup {None} /\ held \in BOOLEAN /\ due \in BOOLEAN
  /\ handoff \in FarPixel \cup {None}
  /\ start \in OwnPixel \cup FarPixel \cup {None}
  /\ remote \in OwnPixel \cup FarPixel \cup {None}
  /\ shown \in (Screen \ Own) \cup {None} /\ known \in (Screen \ Own) \cup {None}
  /\ stray \in BOOLEAN /\ trip \in Trip \cup {None}

PointerInit ==
  /\ mode = "self" /\ local = Parking /\ sample = None /\ guard = None /\ held = FALSE
  /\ handoff = None /\ due = FALSE /\ start = None /\ remote = None
  /\ shown = None /\ known = None /\ stray = FALSE /\ trip = None

-----------------------------------------------------------------------------
(***************************************************************************)
(* Geometry.  A point is <<x, y>>; a ratio is <<numerator, denominator>>.  *)
(***************************************************************************)
Plus(p, m) == <<p[1] + m[1], p[2] + m[2]>>
Minus(p, q) == <<p[1] - q[1], p[2] - q[2]>>

\* min(max(v, lo), hi)
Between(v, lo, hi) == IF v < lo THEN lo ELSE IF v > hi THEN hi ELSE v
Clamp(p, r) == <<Between(p[1], r.left, r.right), Between(p[2], r.top, r.bottom)>>
Inside(p, r) == Clamp(p, r) = p

Across(d) == IF d \in {"left", "right"} THEN 2 ELSE 1   \* the coordinate along the edge
Along(d) == 3 - Across(d)                               \* the one that crosses it
Low(r, axis) == IF axis = 1 THEN r.left ELSE r.top
High(r, axis) == IF axis = 1 THEN r.right ELSE r.bottom
Span(s, d) == High(Rect[s], Across(d)) - Low(Rect[s], Across(d))
EdgeOf(r, d) == IF d \in {"left", "up"} THEN Low(r, Along(d)) ELSE High(r, Along(d))
With(p, axis, v) == [p EXCEPT ![axis] = v]

\* axis_ratio of v/den
Ratio(v, den, lo, hi) ==
  LET span == IF hi > lo THEN hi - lo ELSE 1
  IN <<Between(v - lo * den, 0, span * den), span * den>>

\* Mutant of Rounded: int() instead of round().
Truncated(n, den) == n \div den

\* round(n / den): halves to the even neighbour
Rounded(n, den) ==
  LET q == n \div den
      r == n % den
  IN IF 2 * r < den \/ (2 * r = den /\ q % 2 = 0) THEN q ELSE q + 1

\* how far p is over the edge d of r
Over(p, r, d) ==
  IF d \in {"left", "up"} THEN EdgeOf(r, d) - p[Along(d)] ELSE p[Along(d)] - EdgeOf(r, d)

\* min() of the edges in D: of several at the same distance the first in the list
Nearest(D, distance, list) ==
  CHOOSE d \in D : \A e \in D \ {d} :
    \/ distance[d] < distance[e]
    \/ /\ distance[d] = distance[e]
       /\ \E i, j \in 1 .. 4 : i < j /\ list[i] = d /\ list[j] = e

Listed == <<"left", "right", "up", "down">>

\* detect_edge_press
Press(r, p) ==
  LET over == [d \in Direction |-> Over(p, r, d)]
      D    == {d \in Direction : over[d] >= 0}
      d    == Nearest(D, over, Listed)
      a    == Across(d)
  IN IF D = {} THEN None
     ELSE [dir |-> d, ratio |-> Ratio(p[a], 1, Low(r, a), High(r, a))]

\* detect_edge_crossing: where the segment from p to q leaves r; it has gone
\* steps[d] of its length[d] when it meets edge d, at meets[d] / length[d]
Crossing(r, p, q) ==
  LET steps  == [d \in Direction |-> -Over(p, r, d)]
      length == [d \in Direction |-> Over(q, r, d) - Over(p, r, d)]
      meets  == [d \in Direction |-> p[Across(d)] * length[d]
                                     + (q[Across(d)] - p[Across(d)]) * steps[d]]
      D == {d \in Direction :
              /\ steps[d] >= 0 /\ Over(q, r, d) > 0
              /\ meets[d] >= Low(r, Across(d)) * length[d]
              /\ meets[d] <= High(r, Across(d)) * length[d]}
      Size(n) == IF n < 0 THEN -n ELSE n
      d == Nearest(D, [e \in Direction |-> steps[e] * Size(q[Across(e)] - p[Across(e)])], Listed)
      a == Across(d)
  IN IF D = {} THEN None
     ELSE [dir |-> d, ratio |-> Ratio(meets[d], length[d], Low(r, a), High(r, a))]

\* detect_edge_approach: p and q are inside r, and q is nearer to an edge, within two pixels
Approach(r, p, q) ==
  LET gap == [d \in Direction |-> -Over(q, r, d)]
      D   == {d \in Direction : gap[d] \in {1, 2} /\ -Over(p, r, d) > gap[d]}
  IN IF ~Inside(p, r) \/ ~Inside(q, r) \/ D = {} THEN None
     ELSE Nearest(D, gap, <<"right", "left", "down", "up">>)

\* build_edge_anchor_event: where a pointer that goes over edge d enters screen s
Anchor(s, d, ratio) ==
  LET a == Across(d)
      c == Low(Rect[s], a) + Rounded(ratio[1] * (High(Rect[s], a) - Low(Rect[s], a)), ratio[2])
  IN With(<<c, c>>, Along(d), EdgeOf(Rect[s], Opposite[d]))

\* build_edge_anchor_event for a blocked edge
Blocked(s, d, p) == With(Clamp(p, Rect[s]), Along(d), EdgeOf(Rect[s], d))

\* build_display_center_event
Center(s) == LET r == Rect[s]
             IN <<r.left + Rounded(r.right - r.left, 2), r.top + Rounded(r.bottom - r.top, 2)>>

\* _adjust_self_anchor_inside_display
Adjusted(p, s) ==
  LET r == Rect[s]
      In(v, lo, hi) == IF v <= lo THEN Between(lo + 1, lo, hi)
                       ELSE IF v >= hi THEN Between(hi - 1, lo, hi) ELSE v
  IN <<In(p[1], r.left, r.right), In(p[2], r.top, r.bottom)>>

\* resolve_actual_self_display
ScreenAt(p, S) == CHOOSE s \in S : p \in Pixels(s)

\* the system moves its cursor, which stays on its screens
ToDesk(p) == Clamp(p, Desk)

\* resolve_edge_route
Resolve(s, d) ==
  LET next == Beside[s][d] IN
  IF next = None THEN IF s \in Own THEN "block" ELSE "allow"
  ELSE IF next \in Own <=> s \in Own THEN "self-warp" ELSE "target-switch"

-----------------------------------------------------------------------------
(***************************************************************************)
(* A move on the controller's own screens: _process_mouse_move.  The hook  *)
(* sees where the cursor would go, at, and still reads where it is.        *)
(***************************************************************************)
At(m) == Plus(local, m)
Here == ScreenAt(local, Own)

\* is_inside_anchor_guard
InGuard(p) == guard # None /\ Inside(Minus(p, guard), [left |-> -1, right |-> 1, top |-> -1, bottom |-> 1])

\* the move that edges are looked for with: the cursor itself if nothing is
\* known of its way (_previous_admission_sample)
Seen(m) == IF sample = None THEN local ELSE At(m)

\* _resolve_self_preblock_contact: the move comes near an edge that is blocked
Preblocked(m) ==
  /\ sample # None
  /\ LET d == Approach(Rect[sample.screen], sample.at, At(m))
     IN d # None /\ Resolve(sample.screen, d) = "block"

\* _resolve_edge_contact: the screen that is left, and where
Contact(m) ==
  LET cross == IF sample # None /\ sample.screen # Here
               THEN Crossing(Rect[sample.screen], sample.at, Seen(m)) ELSE None
      press == Press(Rect[Here], Seen(m))
  IN IF cross # None THEN [screen |-> sample.screen, edge |-> cross]
     ELSE IF press # None THEN [screen |-> Here, edge |-> press]
     ELSE None

\* the system carries the move out
Moved(m) == local' = ToDesk(At(m))

SelfMove(m) == mode # "target" /\ m # <<0, 0>>

\* near the anchor of a warp nothing is looked at
MoveAtAnchor(m) ==
  /\ SelfMove(m) /\ InGuard(local)
  /\ Moved(m)
  /\ UNCHANGED <<mode, sample, guard, held, handoff, due, farVars, trip>>

\* a hold keeps the cursor on its screen, or ends
MoveHeld(m) ==
  /\ SelfMove(m) /\ held /\ ~InGuard(local)
  /\ local' \in {local, Clamp(At(m), Rect[Here])}
  /\ held' \in BOOLEAN /\ sample' \in {sample, None}
  /\ guard' = None
  /\ UNCHANGED <<mode, handoff, due, farVars, trip>>

FreeMove(m) == SelfMove(m) /\ ~held /\ ~InGuard(local)

MoveWithin(m) ==
  /\ FreeMove(m) /\ guard' = None /\ ~Preblocked(m) /\ Contact(m) = None
  /\ Moved(m)
  /\ sample' = [screen |-> Here, at |-> Seen(m)]
  /\ UNCHANGED <<mode, held, handoff, due, farVars, trip>>

\* _apply_block: a hold begins, or else the cursor is put at the edge p
Block(s, p) ==
  \/ held' = TRUE /\ local' \in {Clamp(local, Rect[s]), p}
  \/ held' = FALSE /\ local' = p

MoveBlocked(m) ==
  /\ FreeMove(m) /\ guard' = None
  /\ \/ /\ Preblocked(m)
        /\ Block(sample.screen, Blocked(sample.screen, Approach(Rect[sample.screen], sample.at, At(m)), At(m)))
     \/ /\ ~Preblocked(m) /\ Contact(m) # None
        /\ LET c == Contact(m)
           IN /\ Resolve(c.screen, c.edge.dir) = "block"
              /\ Block(c.screen, Blocked(c.screen, c.edge.dir, local))
  /\ sample' \in {sample, None}
  /\ UNCHANGED <<mode, handoff, due, farVars, trip>>

\* _apply_internal_warp: to the next screen of its own, a pixel away from the edge
MoveWarped(m) ==
  /\ FreeMove(m) /\ ~Preblocked(m) /\ Contact(m) # None
  /\ LET c == Contact(m)
         s == Beside[c.screen][c.edge.dir]
     IN /\ Resolve(c.screen, c.edge.dir) = "self-warp"
        /\ local' = Adjusted(Anchor(s, c.edge.dir, c.edge.ratio), s)
  /\ guard' = local' /\ sample' = None
  /\ UNCHANGED <<mode, held, handoff, due, farVars, trip>>

\* a button is held, or the last switch is recent
MoveRefused(m) ==
  /\ FreeMove(m) /\ guard' = None /\ ~Preblocked(m) /\ Contact(m) # None
  /\ Resolve(Contact(m).screen, Contact(m).edge.dir) = "target-switch"
  /\ Moved(m)
  /\ UNCHANGED <<mode, sample, held, handoff, due, farVars, trip>>

\* the router's new state moves the cursor and clears the samples
Restore(p) == local' = p /\ sample' = None

\* apply_route: the target is asked for, to go on where the pointer enters its screen
Leave(m) ==
  /\ FreeMove(m) /\ guard' = None /\ ~Preblocked(m) /\ Contact(m) # None
  /\ LET c == Contact(m)
         s == Beside[c.screen][c.edge.dir]
     IN /\ Resolve(c.screen, c.edge.dir) = "target-switch"
        /\ handoff' = Anchor(s, c.edge.dir, c.edge.ratio)
        /\ known' = s
        /\ trip' = IF c.screen # Here \/ Span(Here, c.edge.dir) > Span(s, c.edge.dir) THEN None
                   ELSE [dir |-> c.edge.dir, at |-> Blocked(Here, c.edge.dir, Seen(m)),
                         line |-> handoff'[Across(c.edge.dir)]]
  /\ mode' = "pending"
  /\ IF mode = "self" THEN Restore(Parking) ELSE UNCHANGED <<local, sample>>
  /\ UNCHANGED <<held, due, start, remote, shown, stray>>

-----------------------------------------------------------------------------
(***************************************************************************)
(* The router's states.                                                    *)
(***************************************************************************)
\* by a hot key, or in the window, where nothing is said about the pointer
Choose(p) ==
  /\ mode = "self" /\ mode' = "pending"
  /\ handoff' = p
  /\ Restore(Parking) /\ trip' = None
  /\ UNCHANGED <<guard, held, due, farVars>>

\* the grant: activate_target, and the listeners, which begin the remote pointer
Grant ==
  /\ mode = "pending" /\ mode' = "target" /\ ~due /\ due' = TRUE
  /\ Restore(Parking)
  /\ remote' = start /\ stray' = TRUE
  /\ shown' = IF known = None THEN First ELSE known
  /\ UNCHANGED <<guard, held, handoff, start, known, trip>>

\* and then _apply_pending_handoff: without a handoff it takes the last pointer event
HandOff(p) ==
  /\ due /\ due' = FALSE
  /\ handoff # None => p = handoff
  /\ start' = p /\ handoff' = None
  /\ UNCHANGED <<mode, localVars, remote, shown, known, stray, trip>>

\* clear_target: the cursor is put back at p
Return(p) ==
  /\ mode' = "self" /\ Restore(p)
  /\ handoff' = None /\ start' = None /\ remote' = None /\ shown' = None
  /\ stray' = FALSE /\ trip' = None
  /\ UNCHANGED due

\* a hot key, or the lease is lost
Lose ==
  /\ mode # "self" /\ Return(Parking)
  /\ UNCHANGED <<guard, held, known>>

\* return_guard_ms have passed
GuardEnds ==
  /\ guard # None /\ guard' = None
  /\ UNCHANGED <<mode, local, sample, held, handoff, due, farVars, trip>>

-----------------------------------------------------------------------------
(***************************************************************************)
(* A move on the target: _process_active_target_mouse_move.                *)
(***************************************************************************)
\* translate_local_move: where the remote pointer is, what moves it, and where to
Origin == IF remote # None THEN remote ELSE IF start # None THEN start ELSE Center(shown)
By(m) == Minus(At(m), Parking)
Onward(m) == IF By(m) = <<0, 0>> THEN At(m) ELSE Clamp(Plus(Origin, By(m)), Rect[shown])

\* recenter_local_pointer
Recentered == local' = Parking

\* _display_state_by_node's screen; without one it is looked up, and found where the pointer is
FarHere == IF known = None THEN First ELSE known
FarContact(m) == Press(Rect[FarHere], Onward(m))
FarRoute(m) == IF FarContact(m) = None THEN "allow" ELSE Resolve(FarHere, FarContact(m).dir)
FarBeside(m) == Beside[FarHere][FarContact(m).dir]
FarAnchor(m) == Anchor(FarBeside(m), FarContact(m).dir, FarContact(m).ratio)

\* the pointer is where it has come, along the edge it has come over
OnTrip(p) == trip # None /\ p[Across(trip.dir)] = trip.line

\* sync_from_remote_event: the remote pointer is at p on screen s
Follow(p, s) == remote' = p /\ shown' = s /\ known' = s

\* the mouse has not moved: nothing is sent, unless nothing is known of the pointer
FarMoveDropped(m) ==
  /\ mode = "target" /\ By(m) = <<0, 0>> /\ start # None
  /\ held' = FALSE /\ remote' = Origin /\ Recentered
  /\ UNCHANGED <<mode, sample, guard, handoff, due, start, shown, known, stray, trip>>

FarMove(m) ==
  /\ mode = "target" /\ (By(m) # <<0, 0>> \/ start = None)
  /\ held' = FALSE

\* a move that is sent, and does not cross an edge
FarMoveSent(m) ==
  /\ FarMove(m) /\ Recentered
  /\ stray' = (By(m) = <<0, 0>>)
  /\ trip' = IF OnTrip(Onward(m)) /\ start # None THEN trip ELSE None
  /\ UNCHANGED <<mode, sample, handoff, due, start>>

\* near the anchor of the last warp, which was on the controller's own screens
FarMoveAtAnchor(m) ==
  /\ FarMoveSent(m) /\ InGuard(Onward(m))
  /\ remote' = Onward(m)
  /\ UNCHANGED <<guard, shown, known>>

\* no edge, one without a neighbour, or a switch that is refused
FarMoveWithin(m) ==
  /\ FarMoveSent(m) /\ ~InGuard(Onward(m)) /\ guard' = None
  /\ FarRoute(m) # "self-warp"
  /\ Follow(Onward(m), FarHere)

\* Mutant of FarMoveWarped: the remote pointer is not told of the next screen.
FarMoveWarpedUntold(m) ==
  /\ FarMove(m) /\ ~InGuard(Onward(m)) /\ guard' = None
  /\ FarRoute(m) = "self-warp"
  /\ remote' = FarAnchor(m) /\ known' = FarBeside(m)
  /\ local' = ToDesk(FarAnchor(m))
  /\ stray' = FALSE /\ trip' = None
  /\ UNCHANGED <<mode, sample, handoff, due, start, shown>>

\* _apply_internal_warp on the target: it moves the local cursor there as well
FarMoveWarped(m) ==
  /\ FarMove(m) /\ ~InGuard(Onward(m)) /\ guard' = None
  /\ FarRoute(m) = "self-warp"
  /\ Follow(FarAnchor(m), FarBeside(m))
  /\ local' = ToDesk(FarAnchor(m))
  /\ stray' = FALSE /\ trip' = None
  /\ UNCHANGED <<mode, sample, handoff, due, start>>

\* over an edge to a screen of the controller's own
Back(m) ==
  /\ FarMove(m) /\ ~InGuard(Onward(m))
  /\ FarRoute(m) = "target-switch"
  /\ Return(FarAnchor(m)) /\ guard' = local'
  /\ known' = FarHere

PointerNext ==
  \/ \E m \in Moves : \/ MoveAtAnchor(m) \/ MoveHeld(m) \/ MoveWithin(m) \/ MoveBlocked(m)
                      \/ MoveWarped(m) \/ MoveRefused(m) \/ Leave(m)
                      \/ FarMoveDropped(m) \/ FarMoveAtAnchor(m) \/ FarMoveWithin(m)
                      \/ FarMoveWarped(m) \/ Back(m)
  \/ \E p \in {Center(Primary), None} : Choose(p)
  \/ \E p \in OwnPixel \cup FarPixel \cup {None} : HandOff(p)
  \/ Grant \/ Lose \/ GuardEnds

PointerSpec == PointerInit /\ [][PointerNext]_vars

-----------------------------------------------------------------------------
(***************************************************************************)
(* Properties.                                                             *)
(***************************************************************************)

\* Once a move has put the remote pointer in place, it is on the screen whose edges it is
\* checked against, and on which the next activation will look for it.
OnItsScreen ==
  remote # None /\ ~stray => remote \in Pixels(shown) /\ shown = FarHere

\* A pointer that leaves for a screen with at least as many pixels along the edge, and comes
\* back over it without having moved along it, comes back to the pixel it has left from.
ThereAndBack ==
  [][mode = "target" /\ mode' = "self" =>
       \A m \in Moves :
         Back(m) /\ OnTrip(Onward(m)) /\ FarContact(m).dir = Opposite[trip.dir]
           => local' = trip.at]_vars
=============================================================================

--------------------------- MODULE SyntheticInput ---------------------------
(***************************************************************************)
(* A target tells the input it injects from its user's: both come back     *)
(* through its hooks, and the user's takes the node back from a            *)
(* controller.  SyntheticInputGuard (windows/synthetic_input.py) remembers *)
(* what PynputOSInjector (injection/os_injector.py) injects, and the hooks *)
(* (capture/input_capture.py) drop one event for each; what slips through  *)
(* counts as the user's unless remote input has come in a moment ago       *)
(* (session._configure_local_input_override).                              *)
(*                                                                         *)
(* Of an event only its kind is kept; "other" is one that resembles        *)
(* nothing that is injected.  Time goes in ticks, and the system takes at  *)
(* most Delay of them to call a hook.                                      *)
(***************************************************************************)
EXTENDS Naturals, Sequences

CONSTANTS
  Ttl,        \* Ttl[k]: KEY_TTL_SEC or POINTER_TTL_SEC, in ticks
  Grace,      \* _remote_input_grace_sec
  Delay,      \* what the system takes at most to call a hook
  MaxMoves,   \* MAX_MOVE_SAMPLES
  MaxMarks,   \* bound: events that are remembered
  MaxQueue    \* bound: events on their way to the hooks

Kind == {"key", "button", "wheel", "move"}

VARIABLES
  authorized,  \* the sink has a controller that is not this node
  recent,      \* ticks since its last input
  marks,       \* for each kind the ages of what the guard remembers, the oldest first
  unmarked,    \* a move has been injected and is not remembered yet
  queue,       \* the events the system has still to show the hooks
  override,    \* the controller's end has been asked for
  touched,     \* the user has done something since it was authorised
  letGo        \* a button of a controller that has gone has been released

vars == <<authorized, recent, marks, unmarked, queue, override, touched, letGo>>

Aged == [kind : Kind \cup {"other", "vertical", "horizontal"}, age : 0 .. Delay]

SyntheticTypeOK ==
  /\ authorized \in BOOLEAN /\ recent \in 0 .. Grace + 1
  /\ DOMAIN marks = Kind
  /\ \A k \in Kind : marks[k] \in Seq(0 .. Ttl[k] - 1)
  /\ Len(marks["move"]) <= MaxMoves
  /\ queue \in Seq(Aged)
  /\ unmarked \in BOOLEAN /\ override \in BOOLEAN /\ touched \in BOOLEAN /\ letGo \in BOOLEAN

SyntheticInit ==
  /\ authorized = FALSE /\ recent = Grace + 1 /\ unmarked = FALSE
  /\ marks = [k \in Kind |-> <<>>]
  /\ queue = <<>> /\ override = FALSE /\ touched = FALSE /\ letGo = FALSE

-----------------------------------------------------------------------------
(***************************************************************************)
(* SyntheticInputGuard.                                                    *)
(***************************************************************************)
\* _record_event, record_mouse_move: of the moves only the last few
Remembered(k) ==
  LET kept == IF k = "move" /\ Len(marks[k]) = MaxMoves THEN Tail(marks[k]) ELSE marks[k]
  IN  [marks EXCEPT ![k] = Append(kept, 0)]

\* _consume_event takes the oldest that matches, should_suppress_mouse_move the newest
Consumed(k) ==
  [marks EXCEPT ![k] = IF k = "move" THEN SubSeq(@, 1, Len(@) - 1) ELSE Tail(@)]

Older(s) == [i \in DOMAIN s |-> s[i] + 1]

\* _purge_event_bucket_locked, _purge_move_locked: all up to the first that is in force
InForce(s, ttl) ==
  CHOOSE i \in 1 .. Len(s) + 1 : /\ i <= Len(s) => s[i] < ttl
                                /\ \A j \in 1 .. i - 1 : s[j] >= ttl
Purged(s, ttl) == SubSeq(s, InForce(s, ttl), Len(s))

-----------------------------------------------------------------------------
(***************************************************************************)
(* PynputOSInjector.                                                       *)
(***************************************************************************)
Fresh(k) == [kind |-> k, age |-> 0]

\* what the system makes of an event: a button sets the cursor first, a wheel
\* that turns both ways is shown once for each
Shown(k) ==
  CASE k = "button" -> {<<Fresh("button")>>, <<Fresh("move"), Fresh("button")>>}
    [] k = "wheel"  -> {<<Fresh("wheel")>>, <<Fresh("vertical"), Fresh("horizontal")>>}
    [] OTHER        -> {<<Fresh(k)>>}

Few(m) ==
  Len(m["key"]) + Len(m["button"]) + Len(m["wheel"]) + Len(m["move"]) <= MaxMarks

Queued(s) == queue' = queue \o s /\ Len(queue') <= MaxQueue

\* Mutant of Inject: a key, too, is remembered after it has been injected, if in time.
InjectUnmarked(k) ==
  /\ \E s \in Shown(k) \cup {<<>>} : Queued(s)
  /\ marks' = IF k \in {"move", "key"} THEN marks ELSE Remembered(k)
  /\ unmarked' = (unmarked \/ k = "move")

\* inject_key, inject_mouse_button and inject_mouse_wheel remember first, the
\* moves afterwards; the system may refuse an event
Inject(k) ==
  /\ \E s \in Shown(k) \cup {<<>>} : Queued(s)
  /\ marks' = IF k = "move" THEN marks ELSE Remembered(k)
  /\ Few(marks')
  /\ unmarked' = (unmarked \/ k = "move")

\* _record_current_pointer_position
RecordMove ==
  /\ unmarked /\ unmarked' = FALSE
  /\ marks' = Remembered("move") /\ Few(marks')
  /\ UNCHANGED <<authorized, recent, queue, override, touched, letGo>>

\* InputSink.handle: an event of the authorised controller
Handle(k) ==
  /\ authorized /\ ~unmarked
  /\ recent' = 0
  /\ Inject(k)
  /\ UNCHANGED <<authorized, override, touched, letGo>>

\* InputSink.release_peer: its connection is closed with keys and buttons held
ReleasePeer(k) ==
  /\ authorized /\ k \in {"key", "button"}
  /\ Inject(k)
  /\ letGo' = (letGo \/ k = "button")
  /\ UNCHANGED <<authorized, recent, override, touched>>

\* InputSink.set_authorized_controller: to and from no controller
Authorize ==
  /\ authorized' = ~authorized
  /\ recent' = IF authorized' THEN 0 ELSE Grace + 1
  /\ override' = FALSE /\ letGo' = FALSE
  /\ touched' = (touched /\ queue # <<>>)   \* one event of the user's may have passed for another
  /\ UNCHANGED <<marks, unmarked, queue>>

-----------------------------------------------------------------------------
(***************************************************************************)
(* The hooks.                                                              *)
(***************************************************************************)
User(k) ==
  /\ Queued(<<Fresh(k)>>)
  /\ touched' = TRUE
  /\ UNCHANGED <<authorized, recent, marks, unmarked, override, letGo>>

\* should_suppress_...: the event is one that is remembered
Suppressed ==
  /\ queue # <<>> /\ queue' = Tail(queue)
  /\ LET k == Head(queue).kind IN
       k \in Kind /\ marks[k] # <<>> /\ marks' = Consumed(k)
  /\ UNCHANGED <<authorized, recent, unmarked, override, touched, letGo>>

\* Mutant of LocalInputOverride: it does not ask whether remote input is recent.
LocalInputOverrideAlways == override' = (override \/ authorized)

\* _local_input_override
LocalInputOverride == override' = (override \/ (authorized /\ recent > Grace))

\* the event is the user's, as it seems
LocalActivity ==
  /\ queue # <<>> /\ queue' = Tail(queue)
  /\ Head(queue).kind \in Kind => marks[Head(queue).kind] = <<>>
  /\ LocalInputOverride
  /\ UNCHANGED <<authorized, recent, marks, unmarked, touched, letGo>>

Tick ==
  /\ \A i \in DOMAIN queue : queue[i].age < Delay
  /\ marks' = [k \in Kind |-> Purged(Older(marks[k]), Ttl[k])]
  /\ queue' = [i \in DOMAIN queue |-> [queue[i] EXCEPT !.age = @ + 1]]
  /\ recent' = IF recent > Grace THEN recent ELSE recent + 1
  /\ UNCHANGED <<authorized, unmarked, override, touched, letGo>>

SyntheticNext ==
  \/ \E k \in Kind : Handle(k) \/ ReleasePeer(k)
  \/ \E k \in Kind \cup {"other"} : User(k)
  \/ RecordMove \/ Authorize \/ Suppressed \/ LocalActivity \/ Tick

SyntheticSpec == SyntheticInit /\ [][SyntheticNext]_vars

-----------------------------------------------------------------------------
\* As long as the hooks are called in time, no controller loses the node to input it has
\* injected itself: somebody has touched the node, or the controller has gone and left a
\* button behind, whose release puts the cursor at the origin without remembering it.
OverrideIsWanted == override => touched \/ letGo
=============================================================================

----------------------------- MODULE KeyCapture -----------------------------
(***************************************************************************)
(* The keys of a controller between its keyboard and the router, on a node *)
(* with the low-level hooks: InputCapture (capture/input_capture.py), one  *)
(* HotkeyMatcher (hotkey.py) and the hook that decides whether the local   *)
(* system sees a key (windows_keyboard_hook.py).  A modifier of the hot    *)
(* key waits until it is known what it belongs to; a press that completes  *)
(* the hot key swallows the modifiers that wait, and their releases.       *)
(*                                                                         *)
(* The mouse hook has a thread of its own, which sends waiting modifiers   *)
(* ahead of a mouse event, in steps between which the keyboard's runs.     *)
(* The recognition of injected input is left out: no input is injected on  *)
(* a node while it controls another.                                       *)
(***************************************************************************)
EXTENDS FiniteSets, Sequences

CONSTANTS
  Groups,   \* the hot key's modifiers: of each group one has to be down
  Trigger,  \* the key that completes it
  Other,    \* other keys
  None

Modifier == UNION Groups
Key == Modifier \cup {Trigger} \cup Other

VARIABLES
  phys,        \* the keys that are held
  last,        \* the one that repeats: the last pressed, while it is held
  consumed,    \* _consumed_trigger
  presses,     \* _pending_modifier_presses
  pending,     \* _pending_modifier_keys
  suppressed,  \* _suppressed_modifier_releases
  flush,       \* what the mouse hook's flush does next, or None
  forwarded,   \* the keys whose key_down, but no key_up, is in the queue
  local,       \* the keys that are down for the local system
  active,      \* get_target_state() = "active"
  raced        \* a key was pressed during a flush of the mouse hook

vars == <<phys, last, consumed, presses, pending, suppressed, flush, forwarded, local, active, raced>>

KeyTypeOK ==
  /\ phys \subseteq Key /\ last \in Key \cup {None} /\ consumed \in BOOLEAN
  /\ presses \in Seq(Modifier) /\ pending \subseteq Modifier /\ suppressed \subseteq Modifier
  /\ flush \in {None, "list", "keys"}
  /\ forwarded \subseteq Key /\ local \subseteq Key
  /\ active \in BOOLEAN /\ raced \in BOOLEAN

KeyInit ==
  /\ phys = {} /\ last = None /\ consumed = FALSE
  /\ presses = <<>> /\ pending = {} /\ suppressed = {} /\ flush = None
  /\ forwarded = {} /\ local = {} /\ active = FALSE /\ raced = FALSE

Waiting == {presses[i] : i \in DOMAIN presses}

\* the router gets a target, or loses it
Toggle ==
  /\ active' = ~active
  /\ UNCHANGED <<phys, last, consumed, presses, pending, suppressed, flush, forwarded, local, raced>>

\* HotkeyMatcher.on_press: its _down are the keys that are held
Matches(k) == k = Trigger /\ \A g \in Groups : g \cap phys # {}

\* on_key_press and the hook's decision, of a key that is pressed or repeats
Down(k) ==
  /\ phys' = phys \cup {k} /\ last' = k
  /\ raced' = (raced \/ flush # None)
  /\ UNCHANGED <<flush, active>>

PressHotkey(k) ==
  /\ Down(k) /\ Matches(k)
  /\ consumed' = TRUE
  /\ suppressed' = suppressed \cup pending /\ presses' = <<>> /\ pending' = {}
  /\ UNCHANGED <<forwarded, local>>

PressModifier(k) ==
  /\ Down(k) /\ k \in Modifier
  /\ presses' = IF k \in pending THEN presses ELSE Append(presses, k)
  /\ pending' = pending \cup {k}
  /\ local' = IF active THEN local ELSE local \cup {k}
  /\ UNCHANGED <<consumed, suppressed, forwarded>>

PressOther(k) ==
  /\ Down(k) /\ ~Matches(k) /\ k \notin Modifier
  /\ forwarded' = forwarded \cup Waiting \cup {k}
  /\ presses' = <<>> /\ pending' = {}
  /\ local' = IF active THEN local ELSE local \cup {k}
  /\ UNCHANGED <<consumed, suppressed>>

Press(k) == PressHotkey(k) \/ PressModifier(k) \/ PressOther(k)

\* on_key_release and the hook's decision
Up(k) ==
  /\ k \in phys /\ phys' = phys \ {k}
  /\ last' = IF last = k THEN None ELSE last
  /\ UNCHANGED <<flush, active, raced>>

ReleaseTrigger(k) ==
  /\ Up(k) /\ k = Trigger /\ consumed /\ consumed' = FALSE
  /\ UNCHANGED <<presses, pending, suppressed, forwarded, local>>

\* Mutant of ReleaseSuppressed: the key remains suppressed.
ReleaseSuppressedKept(k) ==
  /\ Up(k) /\ k \in suppressed
  /\ local' = IF active THEN local ELSE local \ {k}
  /\ UNCHANGED <<consumed, presses, pending, suppressed, forwarded>>

ReleaseSuppressed(k) ==
  /\ Up(k) /\ k \in suppressed /\ suppressed' = suppressed \ {k}
  /\ local' = IF active THEN local ELSE local \ {k}
  /\ UNCHANGED <<consumed, presses, pending, forwarded>>

ReleaseOther(k) ==
  /\ Up(k) /\ ~(k = Trigger /\ consumed) /\ k \notin suppressed
  /\ IF k \in pending
     THEN presses' = <<>> /\ pending' = {} /\ forwarded' = (forwarded \cup Waiting) \ {k}
     ELSE forwarded' = forwarded \ {k} /\ UNCHANGED <<presses, pending>>
  /\ local' = IF active THEN local ELSE local \ {k}
  /\ UNCHANGED <<consumed, suppressed>>

Release(k) == ReleaseTrigger(k) \/ ReleaseSuppressed(k) \/ ReleaseOther(k)

(***************************************************************************)
(* on_move, on_click, on_scroll: _flush_pending_modifiers in the thread of *)
(* the mouse hook sends the modifiers, empties the list and then the set.  *)
(***************************************************************************)
MouseFlush ==
  /\ flush = None /\ presses # <<>> /\ flush' = "list"
  /\ forwarded' = forwarded \cup Waiting
  /\ UNCHANGED <<phys, last, consumed, presses, pending, suppressed, local, active, raced>>

MouseClearList ==
  /\ flush = "list" /\ flush' = "keys" /\ presses' = <<>>
  /\ UNCHANGED <<phys, last, consumed, pending, suppressed, forwarded, local, active, raced>>

MouseClearKeys ==
  /\ flush = "keys" /\ flush' = None /\ pending' = {}
  /\ UNCHANGED <<phys, last, consumed, presses, suppressed, forwarded, local, active, raced>>

KeyNext ==
  \/ Toggle \/ MouseFlush \/ MouseClearList \/ MouseClearKeys
  \/ \E k \in Key : \/ (k \notin phys \/ last = k) /\ Press(k)
                    \/ Release(k)

KeySpec == KeyInit /\ [][KeyNext]_vars

-----------------------------------------------------------------------------
(***************************************************************************)
(* Every modifier that is held is down on the target, or waits, or belongs *)
(* to a hot key, so that a key pressed next arrives together with it,      *)
(* unless it was pressed in the middle of a flush of the mouse hook; and   *)
(* none waits or has its release swallowed that is no longer held, so that *)
(* the next use of it is a new one.                                        *)
(***************************************************************************)
ModifiersAccounted ==
  /\ pending \cup suppressed \subseteq phys
  /\ ~raced => phys \cap Modifier \subseteq forwarded \cup pending \cup suppressed

(***************************************************************************)
(* input_capture.py:199: the release of a modifier that belongs to a hot   *)
(* key is not sent on, but the local system must receive it, so that Ctrl  *)
(* and Alt do not remain stuck.  It does not hold: by then the hot key has *)
(* made the router active, and the hook's predicate blocks every key.      *)
(***************************************************************************)
HotkeyModifiersComeUp ==
  [][\A k \in suppressed \ suppressed' : k \notin local']_vars
=============================================================================

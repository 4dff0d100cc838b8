-------------------------- MODULE KeyCaptureProofs --------------------------
(***************************************************************************)
(* For any hot key, any number of modifiers and other keys: no modifier    *)
(* that goes down is forgotten.                                            *)
(***************************************************************************)
EXTENDS KeyCapture, Naturals, TLAPS

\* the key that completes the hot key is none of its modifiers
Keys == Trigger \notin Modifier /\ None \notin Key \cup {"list", "keys"}

Lists ==
  /\ presses \in Seq(Modifier)
  /\ pending \subseteq Modifier /\ suppressed \subseteq Modifier
  /\ flush \in {None, "list", "keys"}

(***************************************************************************)
(* The modifiers of the set are in the list, but while the mouse hook is   *)
(* emptying the two: then they have been sent, unless a key was pressed in *)
(* between.                                                                *)
(***************************************************************************)
ListAndSet ==
  ~raced => IF flush = None THEN pending \subseteq Waiting ELSE pending \subseteq forwarded

(***************************************************************************)
(* A modifier that belongs to a hot key does not repeat any more, for the  *)
(* key that has completed it was pressed later, so it does not wait again. *)
(***************************************************************************)
NoSecondWait == suppressed \cap pending = {} /\ last \notin suppressed

Held == pending \cup suppressed \subseteq phys

Sent == ~raced => phys \cap Modifier \subseteq forwarded \cup pending \cup suppressed

IInv == Lists /\ ListAndSet /\ NoSecondWait /\ Held /\ Sent

LEMMA InitInv == Keys /\ KeyInit => IInv
BY DEF Keys, Key, KeyInit, IInv, Lists, ListAndSet, NoSecondWait, Held, Sent, Waiting

(***************************************************************************)
(* What waits, when the list grows or is emptied.                          *)
(***************************************************************************)
LEMMA WaitingAppended ==
  ASSUME presses \in Seq(Modifier), NEW k \in Modifier, presses' = Append(presses, k)
  PROVE  presses' \in Seq(Modifier) /\ Waiting \subseteq Waiting' /\ k \in Waiting'
<1>1. /\ Len(presses') = Len(presses) + 1
      /\ presses'[Len(presses) + 1] = k
      /\ \A i \in 1 .. Len(presses) : presses'[i] = presses[i]
      /\ presses' \in Seq(Modifier)
  OBVIOUS
<1>2. DOMAIN presses = 1 .. Len(presses) /\ DOMAIN presses' = 1 .. (Len(presses) + 1)
  BY <1>1
<1>3. k \in Waiting'
  BY <1>1, <1>2 DEF Waiting
<1>4. Waiting \subseteq Waiting'
  BY <1>1, <1>2 DEF Waiting
<1>. QED BY <1>1, <1>3, <1>4

LEMMA WaitingModifiers == presses \in Seq(Modifier) => Waiting \subseteq Modifier
BY DEF Waiting

-----------------------------------------------------------------------------
(***************************************************************************)
(* Keys that go down.  A key that is pressed is not held, or is the one    *)
(* that repeats, so it does not belong to a hot key already.               *)
(***************************************************************************)
LEMMA PressInv ==
  ASSUME Keys, IInv, NEW k \in Key, k \notin phys \/ last = k, Press(k)
  PROVE  IInv'
<1>1. k \notin suppressed /\ Down(k)
  BY DEF IInv, Held, NoSecondWait, Press, PressHotkey, PressModifier, PressOther
<1>2. phys' = phys \cup {k} /\ last' = k /\ flush' = flush
      /\ (~raced' => ~raced /\ flush = None)
  BY <1>1 DEF Down
<1>3. CASE PressHotkey(k)
  <2>1. k \notin Modifier
    BY <1>3 DEF PressHotkey, Matches, Keys
  <2>2. presses' = <<>> /\ pending' = {} /\ suppressed' = suppressed \cup pending
        /\ UNCHANGED forwarded
    BY <1>3 DEF PressHotkey
  <2>. QED BY <1>2, <2>1, <2>2 DEF IInv, Lists, ListAndSet, NoSecondWait, Held, Sent
<1>4. CASE PressModifier(k)
  <2>1. k \in Modifier /\ pending' = pending \cup {k} /\ UNCHANGED <<suppressed, forwarded>>
        /\ presses' = IF k \in pending THEN presses ELSE Append(presses, k)
    BY <1>4 DEF PressModifier
  <2>2. presses' \in Seq(Modifier)
        /\ (pending \subseteq Waiting => pending' \subseteq Waiting')
    <3>1. CASE k \in pending
      BY <2>1, <3>1 DEF IInv, Lists, Waiting
    <3>2. CASE k \notin pending
      BY <2>1, <3>2, WaitingAppended DEF IInv, Lists
    <3>. QED BY <3>1, <3>2
  <2>. QED BY <1>1, <1>2, <2>1, <2>2
           DEF IInv, Lists, ListAndSet, NoSecondWait, Held, Sent
<1>5. CASE PressOther(k)
  <2>1. k \notin Modifier /\ presses' = <<>> /\ pending' = {} /\ UNCHANGED suppressed
        /\ forwarded' = forwarded \cup Waiting \cup {k}
    BY <1>5 DEF PressOther
  <2>. QED BY <1>1, <1>2, <2>1 DEF IInv, Lists, ListAndSet, NoSecondWait, Held, Sent
<1>. QED BY <1>3, <1>4, <1>5 DEF Press

(***************************************************************************)
(* Keys that come up.                                                      *)
(***************************************************************************)
LEMMA ReleaseInv ==
  ASSUME Keys, IInv, NEW k \in Key, Release(k)
  PROVE  IInv'
<1>1. /\ k \in phys /\ phys' = phys \ {k}
      /\ last' = IF last = k THEN None ELSE last
      /\ UNCHANGED <<flush, raced>>
  BY DEF Release, ReleaseTrigger, ReleaseSuppressed, ReleaseOther, Up
<1>2. None \notin Modifier /\ Trigger \notin Modifier
  BY DEF Keys, Key
<1>3. CASE ReleaseTrigger(k)
  <2>1. k = Trigger /\ UNCHANGED <<presses, pending, suppressed, forwarded>>
    BY <1>3 DEF ReleaseTrigger
  <2>. QED BY <1>1, <1>2, <2>1
           DEF IInv, Lists, ListAndSet, NoSecondWait, Held, Sent, Waiting
<1>4. CASE ReleaseSuppressed(k)
  <2>1. k \in suppressed /\ suppressed' = suppressed \ {k} /\ UNCHANGED <<presses, pending, forwarded>>
    BY <1>4 DEF ReleaseSuppressed
  <2>. QED BY <1>1, <1>2, <2>1
           DEF IInv, Lists, ListAndSet, NoSecondWait, Held, Sent, Waiting
<1>5. CASE ReleaseOther(k) /\ k \in pending
  <2>1. /\ presses' = <<>> /\ pending' = {} /\ forwarded' = (forwarded \cup Waiting) \ {k}
        /\ k \notin suppressed /\ UNCHANGED suppressed
    BY <1>5 DEF ReleaseOther
  <2>. QED BY <1>1, <1>2, <2>1 DEF IInv, Lists, ListAndSet, NoSecondWait, Held, Sent
<1>6. CASE ReleaseOther(k) /\ k \notin pending
  <2>1. /\ forwarded' = forwarded \ {k} /\ UNCHANGED <<presses, pending, suppressed>>
        /\ k \notin suppressed
    BY <1>6 DEF ReleaseOther
  <2>. QED BY <1>1, <1>2, <1>6, <2>1
           DEF IInv, Lists, ListAndSet, NoSecondWait, Held, Sent, Waiting
<1>. QED BY <1>3, <1>4, <1>5, <1>6 DEF Release

(***************************************************************************)
(* The mouse hook sends what waits, and empties the list and then the set. *)
(***************************************************************************)
LEMMA MouseInv ==
  ASSUME Keys, IInv, MouseFlush \/ MouseClearList \/ MouseClearKeys
  PROVE  IInv'
<1>1. CASE MouseFlush
  BY <1>1 DEF MouseFlush, Keys, IInv, Lists, ListAndSet, NoSecondWait, Held, Sent, Waiting
<1>2. CASE MouseClearList
  BY <1>2 DEF MouseClearList, Keys, IInv, Lists, ListAndSet, NoSecondWait, Held, Sent
<1>3. CASE MouseClearKeys
  BY <1>3 DEF MouseClearKeys, Keys, IInv, Lists, ListAndSet, NoSecondWait, Held, Sent
<1>. QED BY <1>1, <1>2, <1>3

LEMMA NextInv == Keys /\ IInv /\ [KeyNext]_vars => IInv'
<1>. SUFFICES ASSUME Keys, IInv, [KeyNext]_vars PROVE IInv'
  OBVIOUS
<1>1. CASE UNCHANGED vars
  BY <1>1 DEF vars, IInv, Lists, ListAndSet, NoSecondWait, Held, Sent, Waiting
<1>2. CASE Toggle
  BY <1>2 DEF Toggle, IInv, Lists, ListAndSet, NoSecondWait, Held, Sent, Waiting
<1>3. ASSUME NEW k \in Key, ((k \notin phys \/ last = k) /\ Press(k)) \/ Release(k)
      PROVE  IInv'
  BY <1>3, PressInv, ReleaseInv
<1>. QED BY <1>1, <1>2, <1>3, MouseInv DEF KeyNext

(***************************************************************************)
(* InputCapture: a modifier that is held has been sent, or waits, or       *)
(* belongs to a hot key, unless a key was pressed while the mouse hook was *)
(* sending those that wait; and what waits or belongs to a hot key is held *)
(* (_pending_modifier_keys, _suppressed_modifier_releases).                *)
(***************************************************************************)
THEOREM NoneForgotten ==
  ASSUME Keys PROVE KeySpec => []ModifiersAccounted
<1>1. KeyInit => IInv BY InitInv
<1>2. IInv /\ [KeyNext]_vars => IInv' BY NextInv
<1>3. IInv => ModifiersAccounted BY DEF IInv, Held, Sent, ModifiersAccounted
<1>. QED BY <1>1, <1>2, <1>3, PTL DEF KeySpec
=============================================================================

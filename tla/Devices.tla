------------------------------- MODULE Devices -------------------------------
(***************************************************************************)
(* The way of input: a controller's keys to its targets (InputPath, the    *)
(* module this one extends), its pointer over its own screens and those of *)
(* a target (PointerPath), and a target that tells injected input from its *)
(* user's (SyntheticInput).  As in Network they have no variable in        *)
(* common: in the first state one of them is chosen, and only that one     *)
(* runs.                                                                   *)
(***************************************************************************)
EXTENDS InputPath, Integers

CONSTANTS
  Screen, Own, Rect, Desk, Beside, First, Primary, Parking, Moves,  \* PointerPath
  Ttl, Grace, Delay, MaxMoves, MaxMarks, MaxQueue                   \* SyntheticInput

VARIABLES
  part,                                                          \* the one that runs
  mode, local, sample, guard, held, handoff, due, start, remote, \* PointerPath
  shown, known, stray, trip,
  authorized, recent, marks, unmarked, events, override,         \* SyntheticInput
  touched, letGo

keyVars     == vars
pointerVars == <<mode, local, sample, guard, held, handoff, due, start, remote,
                 shown, known, stray, trip>>
guardVars   == <<authorized, recent, marks, unmarked, events, override, touched, letGo>>

Pointer == INSTANCE PointerPath
Guarded == INSTANCE SyntheticInput WITH queue <- events

\* screens are rectangles that do not overlap, an edge leads back where another leads to,
\* and None is not a screen, nor a point, nor anything else the pointer's variables keep
ASSUME ScreensAreKnown ==
  /\ Own \subseteq Screen /\ First \in Screen \ Own /\ Primary \in Screen \ Own
  /\ Rect \in [Screen -> Pointer!Frame] /\ Desk \in Pointer!Frame
  /\ \A s \in Screen : Rect[s].left <= Rect[s].right /\ Rect[s].top <= Rect[s].bottom
  /\ Pointer!OwnPixel = Pointer!Within(Desk) /\ Parking \in Pointer!OwnPixel
  /\ \A s, t \in Own : s = t \/ Pointer!Pixels(s) \cap Pointer!Pixels(t) = {}
  /\ Beside \in [Screen -> [Pointer!Direction -> Screen \cup {None}]]
  /\ \A s, t \in Screen, d \in Pointer!Direction :
       Beside[s][d] = t => Beside[t][Pointer!Opposite[d]] = s
  /\ Moves \subseteq Pointer!Point
  /\ None \notin Screen \cup Pointer!Point \cup Pointer!Sample \cup Pointer!Trip

\* the system calls a hook before remote input counts as past and a key is forgotten
ASSUME HooksAreQuick ==
  /\ Ttl \in [Guarded!Kind -> Nat \ {0}] /\ Grace \in Nat /\ Delay \in Nat
  /\ Delay <= Grace /\ Delay < Ttl["key"]
  /\ MaxMoves \in Nat \ {0} /\ MaxMarks \in Nat /\ MaxQueue \in Nat

InputInit ==
  /\ part \in {"keys", "pointer", "guard"}
  /\ Init /\ Pointer!PointerInit /\ Guarded!SyntheticInit

KeyStep     == /\ part = "keys" /\ Next
               /\ UNCHANGED <<part, pointerVars, guardVars>>
PointerStep == /\ part = "pointer" /\ Pointer!PointerNext
               /\ UNCHANGED <<part, keyVars, guardVars>>
GuardStep   == /\ part = "guard" /\ Guarded!SyntheticNext
               /\ UNCHANGED <<part, keyVars, pointerVars>>

InputNext == KeyStep \/ PointerStep \/ GuardStep

InputSpec == InputInit /\ [][InputNext]_<<part, keyVars, pointerVars, guardVars>>

-----------------------------------------------------------------------------
(***************************************************************************)
(* The properties of the parts, which are explained there; those of        *)
(* InputPath have the same name.                                           *)
(***************************************************************************)
\* PointerPath: every variable has a value of its type, and the remote pointer is on the
\* screen it is taken to be on.
PointerOnItsScreen == part = "pointer" => Pointer!PointerTypeOK /\ Pointer!OnItsScreen

\* PointerPath: straight there and straight back leads to the pixel one has left from.
ThereAndBack == Pointer!ThereAndBack

\* SyntheticInput: every variable has a value of its type, and no controller loses the
\* node to its own input.
OverrideIsWanted == part = "guard" => Guarded!SyntheticTypeOK /\ Guarded!OverrideIsWanted
=============================================================================

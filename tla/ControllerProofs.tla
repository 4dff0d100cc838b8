-------------------------- MODULE ControllerProofs --------------------------
(***************************************************************************)
(* The pointer of a controller, for any row of screens on any nodes: the   *)
(* cursor is confined only by a hold, and once the listeners of a change   *)
(* of the router's state have run, cursor and pointer agree with it.  And  *)
(* every variable of the controller, of its session and its keyboard hook  *)
(* too, has a value of its type.                                           *)
(***************************************************************************)
EXTENDS Controller, FiniteSetTheorems, SequenceTheorems, TLAPS

LEMMA OnlyEdgesMove ==
  ASSUME [ControllerNext]_controllerVars
  PROVE  [Edges!EdgeNext]_edgeVars
BY DEF ControllerNext, controllerVars, SessionStep, KeyStep, EdgeStep

EdgeTypes ==
  /\ router \in Edges!RouterState
  /\ hold \in Edges!Hold \cup {None}
  /\ listeners \in [Edges!Thread -> Seq(Edges!Job)]
  /\ app \in {"up", "stopping", "down"}

(***************************************************************************)
(* A local hold is on this node, and only such a hold confines the cursor. *)
(***************************************************************************)
LocalHere == hold # None /\ hold.local => hold.node = Self

(***************************************************************************)
(* What a thread has to do about a state it has set: it takes the cursor's *)
(* listener first, then the pointer's, and then makes the claim.           *)
(***************************************************************************)
Cursor(s) == [do |-> "cursor", for |-> s]
Pointer(s) == [do |-> "pointer", for |-> s]
Claimed(s) == [do |-> "claim", for |-> s]

WithCursor(s)  == {<<Cursor(s), Pointer(s)>>, <<Cursor(s), Pointer(s), Claimed(s)>>}
WithPointer(s) == {<<Pointer(s)>>, <<Pointer(s), Claimed(s)>>}
Without(s)     == {<<>>, <<Claimed(s)>>}

CursorWaits  == \E th \in Edges!Thread : listeners[th] \in WithCursor(router)
PointerWaits == CursorWaits \/ \E th \in Edges!Thread : listeners[th] \in WithPointer(router)

(***************************************************************************)
(* Unless threads crossed, one of them works on the current state and the  *)
(* others have nothing to do, and the hook's move is on the current node.  *)
(***************************************************************************)
OneWorks ==
  ~crossed => /\ \E th \in Edges!Thread :
                   /\ listeners[th] \in WithCursor(router) \cup WithPointer(router) \cup Without(router)
                   /\ \A o \in Edges!Thread \ {th} : listeners[o] = <<>>
              /\ move \in {None, Edges!Current}

HookBusy == listeners["hook"] # <<>> => move = None

\* What each listener has brought about once it has run.
CursorSettled ==
  ~crossed /\ ~CursorWaits /\ Edges!Running =>
    IF router.state = "active" THEN clip # "ours" ELSE scheme # "transparent"

PointerSettled ==
  ~crossed /\ ~PointerWaits =>
    pointer = IF router.state = "active" THEN router.target ELSE None

\* The program knows of its transparent cursors; without it nothing happens.
Remembered == Edges!Running /\ scheme = "transparent" => flag

WhenDown ==
  ~Edges!Running => /\ router = Edges!Inactive /\ pointer = None /\ move = None /\ ~crossed
                    /\ \A th \in Edges!Thread : listeners[th] = <<>>

Confined == clip = "ours" => hold # None /\ hold.local /\ hold.node = Self

EdgeInv ==
  /\ EdgeTypes /\ LocalHere /\ (Edges!Running => Confined)
  /\ OneWorks /\ HookBusy /\ CursorSettled /\ PointerSettled /\ Remembered /\ WhenDown

LEMMA EdgesInit == Edges!EdgeInit => EdgeInv
<1>. SUFFICES ASSUME Edges!EdgeInit PROVE EdgeInv
  OBVIOUS
<1>. USE DEF Edges!EdgeInit
<1>1. EdgeTypes /\ LocalHere /\ Confined
  BY DEF EdgeTypes, LocalHere, Confined, Edges!RouterState
<1>2. OneWorks
  <2>1. "hook" \in Edges!Thread
    BY DEF Edges!Thread
  <2>. QED BY <2>1 DEF OneWorks, Without
<1>3. HookBusy /\ CursorSettled /\ PointerSettled /\ Remembered /\ WhenDown
  BY DEF HookBusy, CursorSettled, PointerSettled, Remembered, WhenDown, Edges!Running, Edges!Inactive
<1>. QED BY <1>1, <1>2, <1>3 DEF EdgeInv

-----------------------------------------------------------------------------
(***************************************************************************)
(* What the program does to a hold and to the clip.  It confines the       *)
(* cursor only on this node, and only with a hold.                         *)
(***************************************************************************)
HoldOK == hold \in Edges!Hold \cup {None} /\ LocalHere /\ Confined

LEMMA NewHolds ==
  ASSUME NEW s \in Edges!Screen, NEW d \in Edges!Direction
  PROVE  /\ Edges!NewHold(s, d) \in Edges!Hold /\ Edges!NewHold(s, d) # None
         /\ Edges!NewHold(s, d).node = NodeOf[s]
         /\ Edges!NewHold(s, d).local <=> NodeOf[s] = Self
<1>1. NodeOf[s] \in Edges!Node
  BY DEF Edges!Node
<1>2. Edges!NewHold(s, d) \in Edges!Hold
  BY <1>1 DEF Edges!NewHold, Edges!Hold
<1>. QED BY <1>2, NoneIsNeither DEF Edges!NewHold

LEMMA HoldReleased ==
  ASSUME HoldOK, Edges!Release
  PROVE  HoldOK' /\ clip' # "ours"
BY DEF HoldOK, LocalHere, Confined, Edges!Release

LEMMA EdgeBlocked ==
  ASSUME HoldOK, NEW s \in Edges!Screen, NEW d \in Edges!Direction, Edges!ApplyBlock(s, d)
  PROVE  HoldOK' /\ (NodeOf[s] # Self /\ clip' = "ours" => clip = "ours")
<1>1. CASE UNCHANGED Edges!edgeVars
  BY <1>1 DEF HoldOK, LocalHere, Confined, Edges!edgeVars
<1>2. CASE /\ NodeOf[s] # Self /\ hold' = Edges!NewHold(s, d)
           /\ clip' = IF hold # None /\ hold.local THEN "none" ELSE clip
  BY <1>2, NewHolds DEF HoldOK, LocalHere, Confined
<1>3. CASE NodeOf[s] = Self /\ hold' = Edges!NewHold(s, d) /\ clip' = "ours"
  BY <1>3, NewHolds DEF HoldOK, LocalHere, Confined
<1>4. CASE Edges!Release
  BY <1>4, HoldReleased
<1>. QED BY <1>1, <1>2, <1>3, <1>4 DEF Edges!ApplyBlock

LEMMA EdgeWarped ==
  ASSUME HoldOK, NEW s \in Edges!Screen, Edges!ApplyWarp(s)
  PROVE  HoldOK' /\ clip' # "ours"
BY DEF HoldOK, LocalHere, Confined, Edges!ApplyWarp

LEMMA HoldGoesOn ==
  ASSUME HoldOK, Edges!HoldOn(Edges!Current), Edges!ContinueHold
  PROVE  HoldOK' /\ (Edges!Current # Self /\ clip' = "ours" => clip = "ours")
<1>1. hold # None /\ hold.node = Edges!Current /\ hold \in Edges!Hold
  BY DEF HoldOK, Edges!HoldOn
<1>2. CASE UNCHANGED Edges!edgeVars
  BY <1>2 DEF HoldOK, LocalHere, Confined, Edges!edgeVars
<1>3. CASE Edges!Release
  BY <1>3, HoldReleased
<1>4. CASE /\ hold.local
           /\ \E g \in BOOLEAN, i \in 0..1 : hold' = [hold EXCEPT !.inward = i, !.guarded = g]
  <2>1. PICK g \in BOOLEAN, i \in 0..1 : hold' = [hold EXCEPT !.inward = i, !.guarded = g]
    BY <1>4
  <2>2. hold' \in Edges!Hold /\ hold'.local = hold.local /\ hold'.node = hold.node
    BY <1>1, <2>1 DEF Edges!Hold
  <2>3. hold' # None /\ hold.node = Self
    BY <1>1, <1>4, <2>2, NoneIsNeither DEF HoldOK, LocalHere
  <2>. QED BY <1>1, <1>4, <2>2, <2>3 DEF HoldOK, LocalHere, Confined
<1>5. ASSUME hold.local, NEW far \in BOOLEAN, Edges!Inwards(far), ~Edges!Release
      PROVE  \E g \in BOOLEAN, i \in 0..1 : hold' = [hold EXCEPT !.inward = i, !.guarded = g]
  <2>1. hold' = [hold EXCEPT !.inward = 1, !.guarded = TRUE]
    BY <1>5 DEF Edges!Inwards
  <2>2. TRUE \in BOOLEAN /\ 1 \in 0..1
    OBVIOUS
  <2>. QED BY <2>1, <2>2, Zenon
<1>6. ASSUME hold.local, NEW leaked \in BOOLEAN, NEW clear \in BOOLEAN, Edges!Outwards(leaked, clear)
      PROVE  \E g \in BOOLEAN, i \in 0..1 : hold' = [hold EXCEPT !.inward = i, !.guarded = g]
  <2>. DEFINE held(g) == [hold EXCEPT !.inward = 0, !.guarded = g]
  <2>1. hold.guarded \in BOOLEAN
    BY <1>1 DEF Edges!Hold
  <2>2. /\ [hold EXCEPT !.inward = 0] = held(hold.guarded)
        /\ \A g \in BOOLEAN : [[hold EXCEPT !.inward = 0] EXCEPT !.guarded = g] = held(g)
    BY <1>1 DEF Edges!Hold
  <2>3. \E g \in BOOLEAN : hold' = held(g)
    BY <1>6, <2>1, <2>2 DEF Edges!Outwards
  <2>4. 0 \in 0..1
    OBVIOUS
  <2>. QED BY <2>3, <2>4, Zenon
<1>. QED BY <1>2, <1>3, <1>4, <1>5, <1>6
         DEF Edges!ContinueHold, Edges!ContinueLocal, Edges!ContinueRemote

-----------------------------------------------------------------------------
(***************************************************************************)
(* The router's state.  To change it leaves the thread with both listeners *)
(* to run, and nothing else if threads do not cross.                       *)
(***************************************************************************)
LEMMA StateShapes ==
  ASSUME NEW r \in Edges!RouterState
  PROVE  /\ r.state = "active" => r.target \in Edges!Node \ {Self} /\ r = Edges!Active(r.target)
         /\ r.state = "pending" => r.target \in Edges!Node \ {Self} /\ r = Edges!Pending(r.target)
         /\ r.state \in {"inactive", "pending", "active"}
         /\ r.state = "inactive" => r = Edges!Inactive
BY DEF Edges!RouterState, Edges!Active, Edges!Pending, Edges!Inactive

LEMMA JobsOf ==
  ASSUME NEW s \in Edges!RouterState
  PROVE  \A more \in {<<>>, <<Claimed(s)>>} :
           LET w == <<Cursor(s), Pointer(s)>> \o more
           IN  w \in Seq(Edges!Job) /\ w \in WithCursor(s)
<1>1. Cursor(s) \in Edges!Job /\ Pointer(s) \in Edges!Job /\ Claimed(s) \in Edges!Job
  BY DEF Cursor, Pointer, Claimed, Edges!Job
<1>2. ASSUME NEW a \in Edges!Job, NEW b \in Edges!Job, NEW c \in Edges!Job
      PROVE  <<a, b>> \o <<>> = <<a, b>> /\ <<a, b>> \o <<c>> = <<a, b, c>>
  <2>1. <<a, b>> \in Seq(Edges!Job)
    OBVIOUS
  <2>2. Append(<<a, b>>, c) = <<a, b>> \o <<c>> /\ <<a, b>> \o <<>> = <<a, b>>
    BY <2>1, AppendIsConcat, ConcatEmptySeq
  <2>3. Append(<<a, b>>, c) = <<a, b, c>>
    <3>. DEFINE u == Append(<<a, b>>, c)
                v == <<a, b, c>>
    <3>1. u \in Seq(Edges!Job) /\ v \in Seq(Edges!Job)
      BY <2>1, AppendProperties
    <3>2. Len(u) = 3 /\ Len(v) = 3 /\ u[1] = a /\ u[2] = b /\ u[3] = c
      BY <2>1, AppendProperties
    <3>3. v[1] = a /\ v[2] = b /\ v[3] = c
      OBVIOUS
    <3>. HIDE DEF u, v
    <3>4. Len(u) = Len(v) /\ \A i \in 1 .. Len(u) : u[i] = v[i]
      BY <3>2, <3>3
    <3>5. u = v
      BY <3>1, <3>4, SeqEqual
    <3>. QED BY <3>5 DEF u, v
  <2>. QED BY <2>2, <2>3
<1>3. /\ <<Cursor(s), Pointer(s)>> \o <<>> = <<Cursor(s), Pointer(s)>>
      /\ <<Cursor(s), Pointer(s)>> \o <<Claimed(s)>> = <<Cursor(s), Pointer(s), Claimed(s)>>
  BY <1>1, <1>2
<1>4. /\ <<Cursor(s), Pointer(s)>> \in Seq(Edges!Job)
      /\ <<Cursor(s), Pointer(s), Claimed(s)>> \in Seq(Edges!Job)
  BY <1>1
<1>. QED BY <1>3, <1>4 DEF WithCursor

LEMMA Swapped ==
  ASSUME EdgeTypes, NEW th \in Edges!Thread, NEW s \in Edges!RouterState, s # router,
         NEW more \in {<<>>, <<Claimed(s)>>}, Edges!Swap(th, s, more)
  PROVE  /\ router' = s /\ listeners' \in [Edges!Thread -> Seq(Edges!Job)]
         /\ listeners'[th] \in WithCursor(s)
         /\ \A o \in Edges!Thread \ {th} : listeners'[o] = listeners[o]
         /\ ~crossed' => /\ \A o \in Edges!Thread \ {th} : listeners[o] = <<>>
                         /\ th # "hook" => move = None
<1>. DEFINE w == <<Cursor(s), Pointer(s)>> \o more
<1>1. w \in Seq(Edges!Job) /\ w \in WithCursor(s)
  BY JobsOf
<1>2. /\ router' = s /\ listeners' = [listeners EXCEPT ![th] = w]
      /\ ~crossed' => /\ \A o \in Edges!Thread \ {th} : listeners[o] = <<>>
                      /\ th # "hook" => move = None
  BY DEF Edges!Swap, Cursor, Pointer
<1>. HIDE DEF w
<1>. QED BY <1>1, <1>2 DEF EdgeTypes

LEMMA ChangeInv ==
  ASSUME EdgeInv, Edges!Running, UNCHANGED <<app, scheme, flag>>, HoldOK',
         NEW th \in Edges!Thread, NEW s \in Edges!RouterState, s # router,
         NEW more \in {<<>>, <<Claimed(s)>>}, Edges!Swap(th, s, more),
         IF th = "hook" THEN move' = None ELSE UNCHANGED move
  PROVE  EdgeInv'
<1>1. /\ router' = s /\ listeners' \in [Edges!Thread -> Seq(Edges!Job)]
      /\ listeners'[th] \in WithCursor(s)
      /\ \A o \in Edges!Thread \ {th} : listeners'[o] = listeners[o]
      /\ ~crossed' => /\ \A o \in Edges!Thread \ {th} : listeners[o] = <<>>
                      /\ th # "hook" => move = None
  BY Swapped DEF EdgeInv
<1>2. EdgeTypes' /\ LocalHere' /\ Confined'
  BY <1>1 DEF EdgeInv, EdgeTypes, HoldOK
<1>3. CursorWaits' /\ PointerWaits'
  BY <1>1 DEF CursorWaits, PointerWaits
<1>4. OneWorks'
  <2>1. ~crossed' => /\ listeners'[th] \in WithCursor(router')
                     /\ \A o \in Edges!Thread \ {th} : listeners'[o] = <<>>
    BY <1>1
  <2>2. ~crossed' => move' = None
    BY <1>1
  <2>. QED BY <2>1, <2>2 DEF OneWorks
<1>5. HookBusy'
  <2>1. CASE th = "hook"
    BY <2>1 DEF HookBusy
  <2>2. CASE th # "hook"
    <3>1. listeners'["hook"] = listeners["hook"]
      BY <1>1, <2>2 DEF Edges!Thread
    <3>. QED BY <2>2, <3>1 DEF EdgeInv, HookBusy
  <2>. QED BY <2>1, <2>2
<1>6. CursorSettled' /\ PointerSettled' /\ Remembered' /\ WhenDown'
  BY <1>3 DEF EdgeInv, CursorSettled, PointerSettled, Remembered, WhenDown, Edges!Running
<1>. QED BY <1>2, <1>4, <1>5, <1>6 DEF EdgeInv

(***************************************************************************)
(* A lease or a reject comes, the user chooses another target.             *)
(***************************************************************************)
LEMMA RequestIsSwap ==
  ASSUME EdgeTypes, NEW th, NEW t \in Edges!Node \ {Self}, Edges!Request(th, t)
  PROVE  \/ UNCHANGED Edges!routerVars
         \/ \E s \in Edges!RouterState : s # router /\ Edges!Swap(th, s, <<Claimed(s)>>)
<1>1. Edges!Pending(t) \in Edges!RouterState
  BY DEF Edges!RouterState
<1>2. CASE router.target = t
  BY <1>2 DEF Edges!Request
<1>3. CASE router.target # t
  <2>1. Edges!Swap(th, Edges!Pending(t), <<Claimed(Edges!Pending(t))>>)
    BY <1>3 DEF Edges!Request, Claimed
  <2>2. Edges!Pending(t) # router
    BY <1>3 DEF Edges!Pending
  <2>. QED BY <1>1, <2>1, <2>2
<1>. QED BY <1>2, <1>3

LEMMA NothingChanges ==
  ASSUME EdgeInv, UNCHANGED edgeVars
  PROVE  EdgeInv'
BY DEF EdgeInv, edgeVars, EdgeTypes, LocalHere, Confined, OneWorks, HookBusy, CursorSettled,
   PointerSettled, Remembered, WhenDown, CursorWaits, PointerWaits, Edges!Running, Edges!Current

LEMMA RouterInv ==
  ASSUME EdgeInv,
         Edges!Grant \/ Edges!Lose \/ \E t \in Edges!Node \ {Self} : Edges!Choose(t)
  PROVE  EdgeInv'
<1>1. /\ Edges!Running /\ UNCHANGED <<hold, clip, scheme, flag, online, auto, drag, cool, app, dog,
                                     pointer, move>>
  BY DEF Edges!Grant, Edges!Lose, Edges!Choose, Edges!edgeVars, Edges!cursorVars, Edges!worldVars,
     Edges!lifeVars
<1>2. HoldOK'
  BY <1>1 DEF EdgeInv, EdgeTypes, HoldOK, LocalHere, Confined
<1>3. "other" \in Edges!Thread /\ "other" # "hook"
  BY DEF Edges!Thread
<1>4. \/ UNCHANGED Edges!routerVars
      \/ \E s \in Edges!RouterState : \E more \in {<<>>, <<Claimed(s)>>} :
           s # router /\ Edges!Swap("other", s, more)
  <2>1. CASE Edges!Grant
    <3>1. /\ router.state = "pending" /\ Edges!Active(router.target) \in Edges!RouterState
          /\ Edges!Active(router.target) # router
      BY <2>1, StateShapes DEF EdgeInv, EdgeTypes, Edges!Grant, Edges!RouterState, Edges!Active
    <3>. QED BY <2>1, <3>1 DEF Edges!Grant
  <2>2. CASE Edges!Lose
    BY <2>2 DEF Edges!Lose, Edges!RouterState
  <2>3. CASE \E t \in Edges!Node \ {Self} : Edges!Choose(t)
    BY <2>3, RequestIsSwap DEF EdgeInv, Edges!Choose
  <2>. QED BY <2>1, <2>2, <2>3
<1>5. CASE UNCHANGED Edges!routerVars
  BY <1>1, <1>5, NothingChanges DEF edgeVars, Edges!routerVars
<1>6. ASSUME NEW s \in Edges!RouterState, NEW more \in {<<>>, <<Claimed(s)>>},
             s # router, Edges!Swap("other", s, more)
      PROVE  EdgeInv'
  BY <1>1, <1>2, <1>3, <1>6, ChangeInv
<1>. QED BY <1>4, <1>5, <1>6

-----------------------------------------------------------------------------
(***************************************************************************)
(* Listeners run and claims are made, from the first to the last.          *)
(***************************************************************************)
LEMMA TailsOf ==
  ASSUME NEW S, NEW a \in S, NEW b \in S, NEW c \in S
  PROVE  /\ Tail(<<a>>) = <<>> /\ Tail(<<a, b>>) = <<b>> /\ Tail(<<a, b, c>>) = <<b, c>>
         /\ Head(<<a>>) = a /\ Head(<<a, b>>) = a /\ Head(<<a, b, c>>) = a
         /\ <<a>> # <<>> /\ <<a, b>> # <<>> /\ <<a, b, c>> # <<>>
OBVIOUS

LEMMA WorkTaken ==
  ASSUME NEW r \in Edges!RouterState, NEW w \in WithCursor(r) \cup WithPointer(r) \cup Without(r)
  PROVE  /\ w \in WithCursor(r)  => Head(w) = Cursor(r) /\ Tail(w) \in WithPointer(r) /\ w # <<>>
         /\ w \in WithPointer(r) => Head(w) = Pointer(r) /\ Tail(w) \in Without(r) /\ w # <<>>
         /\ w \in Without(r) /\ w # <<>> => Head(w) = Claimed(r) /\ Tail(w) \in Without(r)
<1>. DEFINE c == Cursor(r)
            p == Pointer(r)
            k == Claimed(r)
<1>1. /\ Tail(<<k>>) = <<>> /\ Tail(<<p>>) = <<>> /\ Tail(<<p, k>>) = <<k>>
      /\ Tail(<<c, p>>) = <<p>> /\ Tail(<<c, p, k>>) = <<p, k>>
      /\ Head(<<k>>) = k /\ Head(<<p>>) = p /\ Head(<<p, k>>) = p
      /\ Head(<<c, p>>) = c /\ Head(<<c, p, k>>) = c
      /\ <<p>> # <<>> /\ <<p, k>> # <<>> /\ <<c, p>> # <<>> /\ <<c, p, k>> # <<>>
  <2>. HIDE DEF c, p, k
  <2>. QED BY TailsOf
<1>2. /\ WithCursor(r) = {<<c, p>>, <<c, p, k>>} /\ WithPointer(r) = {<<p>>, <<p, k>>}
      /\ Without(r) = {<<>>, <<k>>}
  BY DEF WithCursor, WithPointer, Without
<1>. HIDE DEF c, p, k
<1>3. w \in WithCursor(r) => Head(w) = c /\ Tail(w) \in WithPointer(r) /\ w # <<>>
  BY <1>1, <1>2, Zenon
<1>4. w \in WithPointer(r) => Head(w) = p /\ Tail(w) \in Without(r) /\ w # <<>>
  BY <1>1, <1>2, Zenon
<1>5. w \in Without(r) /\ w # <<>> => Head(w) = k /\ Tail(w) \in Without(r)
  BY <1>1, <1>2, Zenon
<1>. QED BY <1>3, <1>4, <1>5 DEF c, p, k

LEMMA NoWorkWaits ==
  ASSUME NEW r \in Edges!RouterState
  PROVE  <<>> \notin WithCursor(r) \cup WithPointer(r)
BY WorkTaken

\* unless threads crossed, whatever a thread has to do is about the current state
LEMMA Working ==
  ASSUME EdgeInv, ~crossed, NEW th \in Edges!Thread, listeners[th] # <<>>
  PROVE  /\ listeners[th] \in WithCursor(router) \cup WithPointer(router) \cup Without(router)
         /\ \A o \in Edges!Thread \ {th} : listeners[o] = <<>>
         /\ CursorWaits <=> Head(listeners[th]).do = "cursor"
         /\ PointerWaits <=> Head(listeners[th]).do \in {"cursor", "pointer"}
         /\ Head(listeners[th]).for = router
<1>1. /\ listeners[th] \in WithCursor(router) \cup WithPointer(router) \cup Without(router)
      /\ \A o \in Edges!Thread \ {th} : listeners[o] = <<>>
  BY DEF EdgeInv, OneWorks
<1>2. router \in Edges!RouterState
  BY DEF EdgeInv, EdgeTypes
<1>3. \/ listeners[th] \in WithCursor(router) /\ Head(listeners[th]) = Cursor(router)
      \/ listeners[th] \in WithPointer(router) /\ Head(listeners[th]) = Pointer(router)
      \/ listeners[th] \in Without(router) /\ Head(listeners[th]) = Claimed(router)
  BY <1>1, <1>2, WorkTaken
<1>4. /\ Cursor(router).do = "cursor" /\ Pointer(router).do = "pointer" /\ Claimed(router).do = "claim"
      /\ Cursor(router).for = router /\ Pointer(router).for = router /\ Claimed(router).for = router
  BY DEF Cursor, Pointer, Claimed
<1>5. CursorWaits <=> listeners[th] \in WithCursor(router)
  BY <1>1, <1>2, NoWorkWaits DEF CursorWaits
<1>6. PointerWaits <=> listeners[th] \in WithCursor(router) \cup WithPointer(router)
  BY <1>1, <1>2, <1>5, NoWorkWaits DEF PointerWaits
<1>7. /\ listeners[th] \in WithCursor(router) <=> Head(listeners[th]).do = "cursor"
      /\ listeners[th] \in WithPointer(router) <=> Head(listeners[th]).do = "pointer"
  BY <1>2, <1>3, <1>4, WorkTaken
<1>. QED BY <1>1, <1>3, <1>4, <1>5, <1>6, <1>7

LEMMA WorkDone ==
  ASSUME EdgeInv, NEW th \in Edges!Thread, listeners[th] # <<>>, Edges!Done(th),
         UNCHANGED <<router, crossed, move>>
  PROVE  /\ listeners' \in [Edges!Thread -> Seq(Edges!Job)]
         /\ OneWorks' /\ HookBusy'
         /\ ~crossed /\ Head(listeners[th]).do = "cursor" => PointerWaits'
<1>1. /\ Tail(listeners[th]) \in Seq(Edges!Job)
      /\ listeners' = [listeners EXCEPT ![th] = Tail(listeners[th])]
  BY DEF EdgeInv, EdgeTypes, Edges!Done
<1>2. /\ listeners' \in [Edges!Thread -> Seq(Edges!Job)]
      /\ listeners'[th] = Tail(listeners[th])
      /\ \A o \in Edges!Thread \ {th} : listeners'[o] = listeners[o]
  BY <1>1 DEF EdgeInv, EdgeTypes
<1>3. HookBusy'
  <2>1. listeners'["hook"] # <<>> => listeners["hook"] # <<>>
    BY <1>2 DEF Edges!Thread
  <2>. QED BY <2>1 DEF EdgeInv, HookBusy
<1>4. ASSUME ~crossed
      PROVE  /\ listeners'[th] \in WithPointer(router) \cup Without(router)
             /\ \A o \in Edges!Thread \ {th} : listeners'[o] = <<>>
             /\ Head(listeners[th]).do = "cursor" => listeners'[th] \in WithPointer(router)
  <2>1. router \in Edges!RouterState
    BY DEF EdgeInv, EdgeTypes
  <2>2. /\ listeners[th] \in WithCursor(router) \cup WithPointer(router) \cup Without(router)
        /\ \A o \in Edges!Thread \ {th} : listeners[o] = <<>>
    BY <1>4, Working
  <2>3. /\ listeners[th] \in WithPointer(router) => Head(listeners[th]).do = "pointer"
        /\ listeners[th] \in Without(router) => Head(listeners[th]).do = "claim"
    BY <2>1, WorkTaken DEF Pointer, Claimed
  <2>. QED BY <1>2, <2>1, <2>2, <2>3, WorkTaken
<1>5. OneWorks'
  BY <1>4 DEF EdgeInv, OneWorks, Edges!Current
<1>. QED BY <1>2, <1>3, <1>4, <1>5 DEF PointerWaits

LEMMA ListenCursorInv ==
  ASSUME EdgeInv, NEW th \in Edges!Thread, Edges!ListenCursor(th)
  PROVE  EdgeInv'
<1>. DEFINE s == Head(listeners[th]).for
<1>1. /\ Edges!Running /\ listeners[th] # <<>> /\ Head(listeners[th]).do = "cursor"
      /\ Edges!Done(th) /\ clip' = "none"
      /\ IF s.state = "active" THEN Edges!HideCursor ELSE Edges!ShowCursor
      /\ UNCHANGED <<router, crossed, hold, app, pointer, move>>
  BY DEF Edges!ListenCursor, Edges!Doing, Edges!ClearClip, Edges!lifeVars
<1>2. /\ listeners' \in [Edges!Thread -> Seq(Edges!Job)] /\ OneWorks' /\ HookBusy'
      /\ ~crossed => PointerWaits'
  BY <1>1, WorkDone
<1>3. EdgeTypes' /\ LocalHere' /\ Confined'
  BY <1>1, <1>2 DEF EdgeInv, EdgeTypes, LocalHere, Confined
<1>4. Remembered' /\ (s.state # "active" => scheme' # "transparent")
  BY <1>1 DEF EdgeInv, Remembered, Edges!Running, Edges!HideCursor, Edges!Transparent,
     Edges!ShowCursor, Edges!cursorVars
<1>5. CursorSettled'
  <2>1. ~crossed => s = router
    BY <1>1, Working
  <2>. QED BY <1>1, <1>4, <2>1 DEF CursorSettled
<1>6. PointerSettled' /\ WhenDown'
  BY <1>1, <1>2 DEF PointerSettled, WhenDown, Edges!Running
<1>. QED BY <1>2, <1>3, <1>4, <1>5, <1>6 DEF EdgeInv

LEMMA ListenPointerInv ==
  ASSUME EdgeInv, NEW th \in Edges!Thread, Edges!ListenPointer(th)
  PROVE  EdgeInv'
<1>. DEFINE s == Head(listeners[th]).for
<1>1. /\ Edges!Running /\ listeners[th] # <<>> /\ Head(listeners[th]).do = "pointer"
      /\ Edges!Done(th)
      /\ pointer' = IF s.state = "active" THEN s.target ELSE None
      /\ UNCHANGED <<router, crossed, hold, clip, scheme, flag, app, move>>
  BY DEF Edges!ListenPointer, Edges!Doing, Edges!lifeVars, Edges!edgeVars, Edges!cursorVars
<1>2. listeners' \in [Edges!Thread -> Seq(Edges!Job)] /\ OneWorks' /\ HookBusy'
  BY <1>1, WorkDone
<1>3. EdgeTypes' /\ LocalHere' /\ Confined' /\ Remembered' /\ WhenDown'
  BY <1>1, <1>2 DEF EdgeInv, EdgeTypes, LocalHere, Confined, Remembered, WhenDown, Edges!Running
<1>4. ~crossed => ~CursorWaits /\ s = router
  BY <1>1, Working
<1>5. CursorSettled' /\ PointerSettled'
  BY <1>1, <1>4 DEF EdgeInv, CursorSettled, PointerSettled, Edges!Running
<1>. QED BY <1>2, <1>3, <1>5 DEF EdgeInv

LEMMA ClaimInv ==
  ASSUME EdgeInv, NEW th \in Edges!Thread, Edges!Claim(th)
  PROVE  EdgeInv'
<1>1. /\ Edges!Running /\ listeners[th] # <<>> /\ Head(listeners[th]).do = "claim"
      /\ UNCHANGED <<hold, clip, scheme, flag, online, auto, drag, cool, app, dog, pointer, move>>
  BY DEF Edges!Claim, Edges!Doing, Edges!edgeVars, Edges!cursorVars, Edges!worldVars, Edges!lifeVars
<1>2. CASE Edges!Done(th) /\ UNCHANGED <<router, crossed>>
  <2>1. listeners' \in [Edges!Thread -> Seq(Edges!Job)] /\ OneWorks' /\ HookBusy'
    BY <1>1, <1>2, WorkDone
  <2>2. EdgeTypes' /\ LocalHere' /\ Confined' /\ Remembered' /\ WhenDown'
    BY <1>1, <1>2, <2>1
       DEF EdgeInv, EdgeTypes, LocalHere, Confined, Remembered, WhenDown, Edges!Running
  <2>3. ~crossed => ~CursorWaits /\ ~PointerWaits
    BY <1>1, Working
  <2>4. CursorSettled' /\ PointerSettled'
    BY <1>1, <1>2, <2>3 DEF EdgeInv, CursorSettled, PointerSettled, Edges!Running
  <2>. QED BY <2>1, <2>2, <2>4 DEF EdgeInv
<1>3. CASE Edges!Swap(th, Edges!Inactive, <<>>)
  <2>1. CASE router = Edges!Inactive
    <3>1. UNCHANGED Edges!routerVars
      BY <1>3, <2>1 DEF Edges!Swap
    <3>. QED BY <1>1, <3>1, NothingChanges DEF edgeVars, Edges!routerVars
  <2>2. CASE router # Edges!Inactive
    <3>1. Edges!Inactive \in Edges!RouterState
      BY DEF Edges!RouterState
    <3>2. HoldOK'
      BY <1>1 DEF EdgeInv, EdgeTypes, HoldOK, LocalHere, Confined
    <3>3. IF th = "hook" THEN move' = None ELSE UNCHANGED move
      BY <1>1 DEF EdgeInv, HookBusy
    <3>. QED BY <1>1, <1>3, <2>2, <3>1, <3>2, <3>3, ChangeInv
  <2>. QED BY <2>1, <2>2
<1>. QED BY <1>2, <1>3 DEF Edges!Claim

-----------------------------------------------------------------------------
(***************************************************************************)
(* A move of the mouse.                                                    *)
(***************************************************************************)
LEMMA MoveBeginsInv ==
  ASSUME EdgeInv, Edges!MoveBegins
  PROVE  EdgeInv'
<1>1. /\ Edges!Running /\ listeners["hook"] = <<>> /\ move' = Edges!Current
      /\ Edges!Release \/ UNCHANGED Edges!edgeVars
      /\ UNCHANGED <<router, listeners, crossed, scheme, flag, app, pointer>>
  BY DEF Edges!MoveBegins, Edges!Idle, Edges!SyncHold, Edges!routerVars, Edges!cursorVars, Edges!lifeVars
<1>2. HoldOK /\ EdgeTypes
  BY <1>1 DEF EdgeInv, EdgeTypes, HoldOK
<1>3. HoldOK' /\ (clip' = "ours" => clip = "ours")
  <2>1. CASE Edges!Release
    BY <1>1, <1>2, <2>1, HoldReleased DEF EdgeInv
  <2>2. CASE UNCHANGED Edges!edgeVars
    BY <1>1, <1>2, <2>2 DEF HoldOK, LocalHere, Confined, Edges!edgeVars
  <2>. QED BY <1>1, <2>1, <2>2
<1>4. EdgeTypes' /\ LocalHere' /\ Confined' /\ OneWorks' /\ HookBusy'
  BY <1>1, <1>3 DEF EdgeInv, EdgeTypes, HoldOK, OneWorks, HookBusy, Edges!Current
<1>5. CursorSettled' /\ PointerSettled' /\ Remembered' /\ WhenDown'
  BY <1>1, <1>3 DEF EdgeInv, CursorSettled, PointerSettled, Remembered, WhenDown,
     CursorWaits, PointerWaits, Edges!Running
<1>. QED BY <1>4, <1>5 DEF EdgeInv

\* how a move ends, whatever it has done to a hold and to the router
LEMMA MoveOver ==
  ASSUME EdgeInv, Edges!Running, move # None, Edges!Follow, move' = None,
         UNCHANGED <<scheme, flag, app>>,
         HoldOK', Edges!Current # Self /\ clip' = "ours" => clip = "ours",
         \/ UNCHANGED Edges!routerVars
         \/ \E s \in Edges!RouterState : \E more \in {<<>>, <<Claimed(s)>>} :
              s # router /\ Edges!Swap("hook", s, more)
  PROVE  EdgeInv'
<1>1. CASE \E s \in Edges!RouterState : \E more \in {<<>>, <<Claimed(s)>>} :
              s # router /\ Edges!Swap("hook", s, more)
  <2>1. "hook" \in Edges!Thread
    BY DEF Edges!Thread
  <2>. QED BY <1>1, <2>1, ChangeInv
<1>2. CASE UNCHANGED Edges!routerVars
  <2>1. UNCHANGED <<router, listeners, crossed>>
    BY <1>2 DEF Edges!routerVars
  <2>2. EdgeTypes' /\ LocalHere' /\ Confined' /\ OneWorks' /\ HookBusy' /\ Remembered' /\ WhenDown'
    BY <2>1 DEF EdgeInv, EdgeTypes, HoldOK, OneWorks, HookBusy, Remembered, WhenDown, Edges!Running
  <2>3. /\ CursorWaits' <=> CursorWaits
        /\ PointerWaits' <=> PointerWaits
    BY <2>1 DEF CursorWaits, PointerWaits
  <2>4. router.state = "active" <=> Edges!Current # Self
    BY StateShapes DEF EdgeInv, EdgeTypes, Edges!Current
  <2>5. CursorSettled'
    BY <2>1, <2>3, <2>4 DEF EdgeInv, CursorSettled, Edges!Running
  <2>6. PointerSettled'
    <3>1. ~crossed => move = Edges!Current
      BY DEF EdgeInv, OneWorks
    <3>. QED BY <2>1, <2>3, <2>4, <3>1 DEF EdgeInv, PointerSettled, Edges!Follow, Edges!Current
  <2>. QED BY <2>2, <2>5, <2>6 DEF EdgeInv
<1>. QED BY <1>1, <1>2

LEMMA SwitchGoes ==
  ASSUME EdgeTypes, HoldOK, NEW s \in Edges!Screen, NEW d \in Edges!Direction,
         Edges!Resolve(s, d) = "target-switch", Edges!ApplySwitch(s, d)
  PROVE  /\ HoldOK' /\ (clip' = "ours" => clip = "ours")
         /\ \/ UNCHANGED Edges!routerVars
            \/ \E r \in Edges!RouterState : \E more \in {<<>>, <<Claimed(r)>>} :
                 r # router /\ Edges!Swap("hook", r, more)
<1>. DEFINE to == NodeOf[Edges!NextTo(s, d)]
<1>1. CASE drag \/ cool
  BY <1>1 DEF Edges!ApplySwitch, HoldOK, LocalHere, Confined, Edges!edgeVars
<1>2. CASE ~(drag \/ cool)
  <2>1. HoldOK' /\ clip' # "ours"
    BY <1>2, HoldReleased DEF Edges!ApplySwitch
  <2>2. CASE to = Self
    <3>1. Edges!Swap("hook", Edges!Inactive, <<>>) /\ Edges!Inactive \in Edges!RouterState
      BY <1>2, <2>2 DEF Edges!ApplySwitch, Edges!RouterState
    <3>2. router = Edges!Inactive => UNCHANGED Edges!routerVars
      BY <3>1 DEF Edges!Swap
    <3>. QED BY <2>1, <3>1, <3>2
  <2>3. CASE to # Self
    <3>1. Edges!Request("hook", to)
      BY <1>2, <2>3 DEF Edges!ApplySwitch
    <3>2. Edges!NextTo(s, d) # None
      BY DEF Edges!Resolve
    <3>3. Edges!NextTo(s, d) \in Edges!Screen
      BY <3>2 DEF Edges!NextTo, Edges!Screen
    <3>4. to \in Edges!Node \ {Self}
      BY <2>3, <3>3 DEF Edges!Node
    <3>. QED BY <2>1, <3>1, <3>4, RequestIsSwap
  <2>. QED BY <2>2, <2>3
<1>. QED BY <1>1, <1>2

LEMMA MoveEndsInv ==
  ASSUME EdgeInv,
         \/ Edges!MoveIgnored \/ Edges!MoveHeld
         \/ \E s \in Edges!Screen, d \in Edges!Direction : Edges!MoveAtEdge(s, d)
  PROVE  EdgeInv'
<1>1. /\ Edges!Running /\ move # None /\ Edges!Follow /\ move' = None
      /\ UNCHANGED <<scheme, flag, app>>
  BY DEF Edges!MoveIgnored, Edges!MoveHeld, Edges!MoveAtEdge, Edges!MoveEnds, Edges!cursorVars,
     Edges!lifeVars
<1>2. HoldOK /\ EdgeTypes
  BY <1>1 DEF EdgeInv, EdgeTypes, HoldOK
<1>3. CASE Edges!MoveIgnored
  <2>1. UNCHANGED <<hold, clip>> /\ UNCHANGED Edges!routerVars
    BY <1>3 DEF Edges!MoveIgnored, Edges!MoveEnds, Edges!edgeVars
  <2>2. HoldOK'
    BY <1>2, <2>1 DEF HoldOK, LocalHere, Confined
  <2>. QED BY <1>1, <2>1, <2>2, MoveOver
<1>4. CASE Edges!MoveHeld
  <2>1. Edges!HoldOn(Edges!Current) /\ Edges!ContinueHold /\ UNCHANGED Edges!routerVars
    BY <1>4 DEF Edges!MoveHeld, Edges!MoveEnds
  <2>. QED BY <1>1, <1>2, <2>1, HoldGoesOn, MoveOver
<1>5. ASSUME NEW s \in Edges!Screen, NEW d \in Edges!Direction, Edges!MoveAtEdge(s, d)
      PROVE  EdgeInv'
  <2>1. NodeOf[s] = Edges!Current /\ Edges!ApplyRoute(s, d)
    BY <1>5 DEF Edges!MoveAtEdge, Edges!MoveEnds
  <2>2. CASE Edges!Release /\ UNCHANGED Edges!routerVars
    BY <1>1, <1>2, <2>2, HoldReleased, MoveOver
  <2>3. CASE Edges!ApplyBlock(s, d) /\ UNCHANGED Edges!routerVars
    BY <1>1, <1>2, <2>1, <2>3, EdgeBlocked, MoveOver
  <2>4. CASE Edges!ApplyWarp(s) /\ UNCHANGED Edges!routerVars
    BY <1>1, <1>2, <2>4, EdgeWarped, MoveOver
  <2>5. CASE Edges!Resolve(s, d) = "target-switch" /\ Edges!ApplySwitch(s, d)
    BY <1>1, <1>2, <2>5, SwitchGoes, MoveOver
  <2>. QED BY <2>1, <2>2, <2>3, <2>4, <2>5 DEF Edges!ApplyRoute
<1>. QED BY <1>3, <1>4, <1>5

-----------------------------------------------------------------------------
(***************************************************************************)
(* The surroundings, and the life of the program.                          *)
(***************************************************************************)
LEMMA WorldInv ==
  ASSUME EdgeInv, Edges!World
  PROVE  EdgeInv'
<1>1. Edges!Running /\ UNCHANGED <<router, listeners, crossed, scheme, flag, app, pointer, move>>
  BY DEF Edges!World, Edges!routerVars, Edges!cursorVars, Edges!lifeVars
<1>2. HoldOK
  BY <1>1 DEF EdgeInv, EdgeTypes, HoldOK
<1>3. HoldOK' /\ (clip' = "ours" => clip = "ours")
  <2>1. CASE UNCHANGED <<hold, clip>>
    BY <1>2, <2>1 DEF HoldOK, LocalHere, Confined
  <2>2. CASE clip' \in {"none", "other"} /\ UNCHANGED hold
    BY <1>2, <2>2 DEF HoldOK, LocalHere, Confined
  <2>3. CASE Edges!HoldRisk /\ UNCHANGED clip
    <3>1. hold \in Edges!Hold /\ hold' = [hold EXCEPT !.guarded = TRUE]
      BY <1>2, <2>3 DEF HoldOK, Edges!HoldRisk
    <3>2. hold' \in Edges!Hold /\ hold'.local = hold.local /\ hold'.node = hold.node
      BY <3>1 DEF Edges!Hold
    <3>3. hold # None /\ hold' # None
      BY <2>3, <3>2, NoneIsNeither DEF Edges!HoldRisk
    <3>. QED BY <1>2, <2>3, <3>2, <3>3 DEF HoldOK, LocalHere, Confined
  <2>. QED BY <2>1, <2>2, <2>3 DEF Edges!World, Edges!edgeVars
<1>4. EdgeTypes' /\ LocalHere' /\ Confined' /\ OneWorks' /\ HookBusy'
  BY <1>1, <1>3 DEF EdgeInv, EdgeTypes, HoldOK, OneWorks, HookBusy, Edges!Current
<1>5. CursorSettled' /\ PointerSettled' /\ Remembered' /\ WhenDown'
  BY <1>1, <1>3 DEF EdgeInv, CursorSettled, PointerSettled, Remembered, WhenDown,
     CursorWaits, PointerWaits, Edges!Running
<1>. QED BY <1>4, <1>5 DEF EdgeInv

LEMMA QuitInv ==
  ASSUME EdgeInv, Edges!Quit
  PROVE  EdgeInv'
<1>1. /\ app = "up" /\ app' = "stopping" /\ clip' = "none"
      /\ scheme' = (IF flag THEN "normal" ELSE scheme)
      /\ UNCHANGED <<router, listeners, crossed, hold, pointer, move>>
  BY DEF Edges!Quit, Edges!ClearClip, Edges!ShowCursor, Edges!routerVars
<1>2. EdgeTypes' /\ LocalHere' /\ Confined' /\ OneWorks' /\ HookBusy'
  BY <1>1 DEF EdgeInv, EdgeTypes, LocalHere, Confined, OneWorks, HookBusy, Edges!Current
<1>3. scheme' # "transparent"
  BY <1>1 DEF EdgeInv, Remembered, Edges!Running
<1>4. CursorSettled' /\ PointerSettled' /\ Remembered' /\ WhenDown'
  BY <1>1, <1>3 DEF EdgeInv, CursorSettled, PointerSettled, Remembered, WhenDown,
     CursorWaits, PointerWaits, Edges!Running
<1>. QED BY <1>2, <1>4 DEF EdgeInv

LEMMA GoneInv ==
  ASSUME EdgeInv, Edges!Gone
  PROVE  EdgeInv'
<1>1. /\ app' = "down" /\ router' = Edges!Inactive /\ hold' = None /\ pointer' = None /\ move' = None
      /\ listeners' = [th \in Edges!Thread |-> <<>>] /\ crossed' = FALSE
  BY DEF Edges!Gone
<1>2. EdgeTypes' /\ LocalHere'
  BY <1>1 DEF EdgeTypes, LocalHere, Edges!RouterState
<1>3. OneWorks'
  <2>1. "hook" \in Edges!Thread
    BY DEF Edges!Thread
  <2>. QED BY <1>1, <2>1 DEF OneWorks, Without
<1>4. HookBusy' /\ CursorSettled' /\ PointerSettled' /\ Remembered' /\ WhenDown'
  BY <1>1 DEF HookBusy, CursorSettled, PointerSettled, Remembered, WhenDown, Edges!Running, Edges!Inactive
<1>. QED BY <1>1, <1>2, <1>3, <1>4 DEF EdgeInv, Edges!Running

LEMMA DownInv ==
  ASSUME EdgeInv, Edges!Guard \/ Edges!Start
  PROVE  EdgeInv'
<1>1. /\ app = "down" /\ app' \in {"down", "up"} /\ clip' = "none" /\ scheme' = "normal"
      /\ UNCHANGED <<router, listeners, crossed, hold, pointer, move>>
  BY DEF Edges!Guard, Edges!Start, Edges!FreeInput, Edges!routerVars
<1>2. /\ EdgeTypes' /\ LocalHere' /\ Confined' /\ OneWorks' /\ HookBusy'
      /\ Remembered' /\ WhenDown'
  BY <1>1 DEF EdgeInv, EdgeTypes, LocalHere, Confined, OneWorks, HookBusy, Remembered, WhenDown,
     Edges!Current, Edges!Running
<1>3. CursorSettled' /\ PointerSettled'
  BY <1>1 DEF EdgeInv, WhenDown, CursorSettled, PointerSettled, Edges!Running, Edges!Inactive
<1>. QED BY <1>2, <1>3 DEF EdgeInv

LEMMA EdgesNext == EdgeInv /\ [Edges!EdgeNext]_edgeVars => EdgeInv'
<1>. SUFFICES ASSUME EdgeInv, [Edges!EdgeNext]_edgeVars PROVE EdgeInv'
  OBVIOUS
<1>1. CASE Edges!Grant \/ Edges!Lose \/ \E t \in Edges!Node \ {Self} : Edges!Choose(t)
  BY <1>1, RouterInv
<1>2. ASSUME NEW th \in Edges!Thread,
             Edges!ListenCursor(th) \/ Edges!ListenPointer(th) \/ Edges!Claim(th)
      PROVE  EdgeInv'
  BY <1>2, ListenCursorInv, ListenPointerInv, ClaimInv
<1>3. CASE \/ Edges!MoveBegins \/ Edges!MoveIgnored \/ Edges!MoveHeld
           \/ \E s \in Edges!Screen, d \in Edges!Direction : Edges!MoveAtEdge(s, d)
  BY <1>3, MoveBeginsInv, MoveEndsInv
<1>4. CASE Edges!World \/ Edges!Quit \/ Edges!Gone \/ Edges!Guard \/ Edges!Start
  BY <1>4, WorldInv, QuitInv, GoneInv, DownInv
<1>5. CASE UNCHANGED edgeVars
  BY <1>5, NothingChanges
<1>. QED BY <1>1, <1>2, <1>3, <1>4, <1>5 DEF Edges!EdgeNext

LEMMA EdgesKept == ControllerSpec => []EdgeInv
<1>1. ControllerInit => EdgeInv
  BY EdgesInit DEF ControllerInit
<1>2. EdgeInv /\ [ControllerNext]_controllerVars => EdgeInv'
  BY OnlyEdgesMove, EdgesNext
<1>. QED BY <1>1, <1>2, PTL DEF ControllerSpec

(***************************************************************************)
(* The program never leaves the cursor confined without a hold on this     *)
(* node that a later move can release.                                     *)
(***************************************************************************)
THEOREM OnlyHoldsConfine == ControllerSpec => []ClipOnlyWhileHeld
<1>1. EdgeInv => ClipOnlyWhileHeld
  BY DEF EdgeInv, Confined, ClipOnlyWhileHeld, Edges!ClipOnlyWhileHeld
<1>. QED BY <1>1, EdgesKept, PTL

(***************************************************************************)
(* When the listeners of a change of the router's state have run, and      *)
(* nothing overlapped it, the cursor and the remote pointer agree with it. *)
(***************************************************************************)
THEOREM ListenersAgree == ControllerSpec => []CursorFollowsRouter
<1>1. EdgeInv => CursorFollowsRouter
  <2>. SUFFICES ASSUME EdgeInv, app = "up", ~crossed, \A th \in Edges!Thread : listeners[th] = <<>>
                PROVE  IF router.state = "active"
                       THEN pointer = router.target /\ (move = None => clip # "ours")
                       ELSE scheme # "transparent" /\ pointer = None
    BY DEF CursorFollowsRouter, Edges!CursorFollowsRouter
  <2>1. ~PointerWaits /\ ~CursorWaits
    BY NoWorkWaits DEF EdgeInv, EdgeTypes, PointerWaits, CursorWaits
  <2>. QED BY <2>1 DEF EdgeInv, CursorSettled, PointerSettled, Edges!Running
<1>. QED BY <1>1, EdgesKept, PTL

-----------------------------------------------------------------------------
(***************************************************************************)
(* Types.  First the coordinator's lease service, here between one         *)
(* controller and one target; its threads, and the steps that a handler    *)
(* may leave behind.                                                       *)
(***************************************************************************)
LEMMA PeersFinite == IsFiniteSet({ctl, tgt})
<1>. {ctl, tgt} = ({} \cup {ctl}) \cup {tgt}
  OBVIOUS
<1>. QED BY FS_EmptySet, FS_AddElement

LEMMA CountsAre == \A S : Session!Cardinality(S) = Cardinality(S)
BY DEF Session!Cardinality, Cardinality

LEMMA LeaseThreadNames ==
  /\ Session!Expiry \in Session!Thread
  /\ \A n \in {ctl, tgt} : Session!Recv(n) \in Session!Thread
                  /\ Session!Link(n) \in Session!Thread /\ Session!Last(n) \in Session!Thread
BY DEF Session!Thread, Session!Recv, Session!Link, Session!Last, Session!Expiry

LEMMA LeaseStepTypes ==
  ASSUME NEW t \in {ctl, tgt}, NEW n \in {ctl, tgt}
  PROVE  /\ \A c \in {ctl, tgt} : Session!Grant(t, c) \in Session!Step /\ Session!Deny(t, c) \in Session!Step
         /\ \A c \in {ctl, tgt} : \A what \in Session!ForWho : Session!Do(what, n, t, c) \in Session!Step
         /\ \A c \in {ctl, tgt} \cup {None} : Session!LeaseUpdate(t, c) \in Session!Step
         /\ \A c \in {ctl, tgt} \cup {None} : \A what \in Session!ForAny :
              Session!Do(what, n, t, c) \in Session!Step
BY DEF Session!LeaseUpdate, Session!Grant, Session!Deny, Session!Do, Session!Step, Session!ForWho,
   Session!ForAny

(***************************************************************************)
(* A thread that is not idle has a step to take, and others after it.      *)
(***************************************************************************)
LEMMA LeaseNextStep ==
  ASSUME Session!TypeOK, NEW th \in Session!Thread, ~Session!Idle(th)
  PROVE  /\ Session!Next1(th) \in Session!Step
         /\ Session!Next1(th).to \in {ctl, tgt}
         /\ Session!Next1(th).target \in {ctl, tgt}
         /\ Session!Next1(th).who \in {ctl, tgt} \cup {None}
         /\ Session!Next1(th).do \in Session!ForWho => Session!Next1(th).who \in {ctl, tgt}
         /\ Tail(todo[th]) \in Seq(Session!Step)
<1>1. todo[th] \in Seq(Session!Step) /\ todo[th] # <<>>
  BY DEF Session!TypeOK, Session!Idle
<1>2. Session!Next1(th) \in Session!Step /\ Tail(todo[th]) \in Seq(Session!Step)
  BY <1>1 DEF Session!Next1
<1>3. QED
  BY <1>2 DEF Session!Step, Session!ForWho, Session!ForAny

(***************************************************************************)
(* Starting or continuing a handler with well-typed steps keeps todo       *)
(* well-typed.                                                             *)
(***************************************************************************)
LEMMA LeaseContinuesType ==
  ASSUME Session!TypeOK, NEW th \in Session!Thread, ~Session!Idle(th),
         NEW steps \in Seq(Session!Step), Session!Continues(th, steps)
  PROVE  todo' \in [Session!Thread -> Seq(Session!Step)]
<1>1. steps \o Tail(todo[th]) \in Seq(Session!Step)
  BY LeaseNextStep
<1>2. QED
  BY <1>1 DEF Session!Continues, Session!TypeOK

LEMMA LeaseStartsType ==
  ASSUME Session!TypeOK, NEW th \in Session!Thread, NEW steps \in Seq(Session!Step),
         Session!Starts(th, steps)
  PROVE  todo' \in [Session!Thread -> Seq(Session!Step)]
BY DEF Session!Starts, Session!TypeOK

(***************************************************************************)
(* Giving a lease to a peer, or dropping it, keeps the lease table well-   *)
(* typed.                                                                  *)
(***************************************************************************)
LEMMA LeaseHoldType ==
  ASSUME Session!TypeOK, NEW t \in {ctl, tgt}, NEW c \in {ctl, tgt}, Session!Hold(t, c)
  PROVE  leases' \in [{ctl, tgt} -> {ctl, tgt} \cup {None}] /\ ttl' \in [{ctl, tgt} -> 0 .. 1]
BY DEF Session!Hold, Session!TypeOK

LEMMA LeaseDropType ==
  ASSUME Session!TypeOK, NEW t \in {ctl, tgt}, Session!Drop(t)
  PROVE  leases' \in [{ctl, tgt} -> {ctl, tgt} \cup {None}] /\ ttl' \in [{ctl, tgt} -> 0 .. 1]
BY DEF Session!Drop, Session!TypeOK

(***************************************************************************)
(* The service starts well-typed: all peers connected, no lease, no thread *)
(* at work.                                                                *)
(***************************************************************************)
LEMMA LeaseInitType == Session!Init => Session!TypeOK
BY DEF Session!Init, Session!TypeOK

(***************************************************************************)
(* The part of a claim, release, override or heartbeat that runs before    *)
(* the lock, or all of it, keeps the state well-typed.                     *)
(***************************************************************************)
LEMMA LeaseRequestType ==
  ASSUME Session!TypeOK, NEW c \in {ctl, tgt}, NEW t \in {ctl, tgt},
         \/ Session!Claim(c, t) \/ Session!Release(c, t)
         \/ Session!Override(t, c) \/ Session!Heartbeat(c, t)
  PROVE  Session!TypeOK'
<1>1. Session!Recv(c) \in Session!Thread /\ Session!Recv(t) \in Session!Thread
  BY LeaseThreadNames
<1>2. CASE Session!Claim(c, t)
  <2>1. PICK s \in Session!Step : Session!Starts(Session!Recv(c), <<s>>)
    <3>1. Session!Do("claim", c, t, c) \in Session!Step /\ Session!Deny(t, c) \in Session!Step
      BY LeaseStepTypes DEF Session!ForWho
    <3>2. CASE Session!Online(t)
      BY <1>2, <3>1, <3>2 DEF Session!Claim
    <3>3. CASE ~Session!Online(t)
      BY <1>2, <3>1, <3>3 DEF Session!Claim
    <3>4. QED
      BY <3>2, <3>3
  <2>2. todo' \in [Session!Thread -> Seq(Session!Step)]
    <3>1. <<s>> \in Seq(Session!Step)
      OBVIOUS
    <3>2. QED
      BY <1>1, <2>1, <3>1, LeaseStartsType
  <2>3. QED
    BY <1>2, <2>2 DEF Session!Claim, Session!TypeOK
<1>3. CASE Session!Release(c, t)
  <2>1. CASE leases[t] = c /\ Session!Drop(t)
             /\ Session!Starts(Session!Recv(c), <<Session!LeaseUpdate(t, None)>>)
    <3>1. <<Session!LeaseUpdate(t, None)>> \in Seq(Session!Step)
      BY LeaseStepTypes
    <3>2. todo' \in [Session!Thread -> Seq(Session!Step)]
      BY <1>1, <2>1, <3>1, LeaseStartsType
    <3>3. QED
      BY <1>3, <2>1, <3>2, LeaseDropType DEF Session!Release, Session!TypeOK
  <2>2. CASE UNCHANGED <<leases, ttl, todo>>
    BY <1>3, <2>2 DEF Session!Release, Session!TypeOK
  <2>3. QED
    BY <1>3, <2>1, <2>2 DEF Session!Release
<1>4. CASE Session!Override(t, c)
  <2>1. CASE /\ leases[t] = c
             /\ Session!Drop(t)
             /\ Session!Starts(Session!Recv(t),
                  <<Session!LeaseUpdate(t, None), Session!Deny(t, c)>>)
    <3>1. <<Session!LeaseUpdate(t, None), Session!Deny(t, c)>> \in Seq(Session!Step)
      BY LeaseStepTypes
    <3>2. todo' \in [Session!Thread -> Seq(Session!Step)]
      BY <1>1, <2>1, <3>1, LeaseStartsType
    <3>3. QED
      BY <1>4, <2>1, <3>2, LeaseDropType DEF Session!Override, Session!TypeOK
  <2>2. CASE UNCHANGED <<leases, ttl, todo>>
    BY <1>4, <2>2 DEF Session!Override, Session!TypeOK
  <2>3. QED
    BY <1>4, <2>1, <2>2 DEF Session!Override
<1>5. CASE Session!Heartbeat(c, t)
  <2>1. PICK s \in Session!Step : Session!Starts(Session!Recv(c), <<s>>)
    <3>1. /\ Session!Do("heartbeat", c, t, c) \in Session!Step
          /\ Session!Do("hb_offline", c, t, c) \in Session!Step
      BY LeaseStepTypes DEF Session!ForWho
    <3>2. QED
      BY <1>5, <3>1 DEF Session!Heartbeat
  <2>2. todo' \in [Session!Thread -> Seq(Session!Step)]
    <3>1. <<s>> \in Seq(Session!Step)
      OBVIOUS
    <3>2. QED
      BY <1>1, <2>1, <3>1, LeaseStartsType
  <2>3. QED
    BY <1>5, <2>2 DEF Session!Heartbeat, Session!TypeOK
<1>6. QED
  BY <1>2, <1>3, <1>4, <1>5

(***************************************************************************)
(* The locked parts of claim and heartbeat keep the state well-typed.      *)
(***************************************************************************)
LEMMA LeaseLockedType ==
  ASSUME Session!TypeOK, NEW th \in Session!Thread,
         Session!ClaimLocked(th) \/ Session!HeartbeatLocked(th)
  PROVE  Session!TypeOK'
<1> DEFINE t == Session!Next1(th).target
           c == Session!Next1(th).who
<1>1. ~Session!Idle(th) /\ Session!Next1(th).do \in Session!ForWho
  BY DEF Session!ClaimLocked, Session!HeartbeatLocked, Session!Runs, Session!ForWho
<1>2. t \in {ctl, tgt} /\ c \in {ctl, tgt}
  BY <1>1, LeaseNextStep
<1>3. /\ <<>> \in Seq(Session!Step)
      /\ <<Session!LeaseUpdate(t, c), Session!Grant(t, c)>> \in Seq(Session!Step)
      /\ <<Session!LeaseUpdate(t, None), Session!Deny(t, c)>> \in Seq(Session!Step)
      /\ <<Session!LeaseUpdate(t, c)>> \in Seq(Session!Step)
      /\ <<Session!Deny(t, c)>> \in Seq(Session!Step)
  BY <1>2, LeaseStepTypes
<1>4. UNCHANGED conn
  BY DEF Session!ClaimLocked, Session!HeartbeatLocked
<1>5. todo' \in [Session!Thread -> Seq(Session!Step)]
  <2>1. PICK steps \in Seq(Session!Step) : Session!Continues(th, steps)
    <3> HIDE DEF t, c
    <3>1. CASE Session!ClaimLocked(th)
      BY <1>3, <3>1 DEF Session!ClaimLocked, t, c
    <3>3. CASE Session!HeartbeatLocked(th)
      BY <1>3, <3>3 DEF Session!HeartbeatLocked, t, c
    <3>4. QED
      BY <3>1, <3>3
  <2>2. QED
    BY <1>1, <2>1, LeaseContinuesType
<1>6. \/ Session!Hold(t, c)
      \/ Session!Drop(t)
      \/ UNCHANGED <<leases, ttl>>
  BY DEF Session!ClaimLocked, Session!HeartbeatLocked
<1>7. leases' \in [{ctl, tgt} -> {ctl, tgt} \cup {None}] /\ ttl' \in [{ctl, tgt} -> 0 .. 1]
  <2>1. CASE Session!Hold(t, c)
    BY <1>2, <2>1, LeaseHoldType
  <2>2. CASE Session!Drop(t)
    BY <1>2, <2>2, LeaseDropType
  <2>3. CASE UNCHANGED <<leases, ttl>>
    BY <2>3 DEF Session!TypeOK
  <2>4. QED
    BY <1>6, <2>1, <2>2, <2>3
<1>8. QED
  BY <1>4, <1>5, <1>7 DEF Session!TypeOK

(***************************************************************************)
(* Sending a frame keeps the state well-typed, also when it fails and the  *)
(* sender has the unbind to run.                                           *)
(***************************************************************************)
LEMMA LeaseSendType ==
  ASSUME Session!TypeOK, NEW th \in Session!Thread, Session!Send(th)
  PROVE  Session!TypeOK'
<1> DEFINE n == Session!Next1(th).to
<1>1. ~Session!Idle(th)
  BY DEF Session!Send, Session!Sending
<1>2. n \in {ctl, tgt}
  BY <1>1, LeaseNextStep
<1>3. CASE Session!Send(th)
  <2>1. todo' \in [Session!Thread -> Seq(Session!Step)]
    <3>1. <<>> \in Seq(Session!Step)
      OBVIOUS
    <3>2. QED
      BY <1>1, <1>3, <3>1, LeaseContinuesType DEF Session!Send
  <2>2. QED
    BY <1>3, <2>1 DEF Session!Send, Session!TypeOK
<1>5. QED
  BY <1>3

(***************************************************************************)
(* A pass of the expiry thread keeps the state well-typed: the targets are *)
(* told in an order, a sequence of lease updates.                          *)
(***************************************************************************)
LEMMA LeaseExpiryType ==
  ASSUME Session!TypeOK, Session!ExpireOnce
  PROVE  Session!TypeOK'
<1> DEFINE size == Session!Cardinality(Session!Expired)
<1>1. size \in Nat
  <2>1. Session!Expired \subseteq {ctl, tgt}
    BY DEF Session!Expired
  <2>2. QED
    BY <2>1, FS_Subset, FS_CardinalityType, PeersFinite, CountsAre
<1>2. PICK order \in [1 .. size -> Session!Expired] :
        Session!Starts(Session!Expiry, [i \in 1 .. size |-> Session!LeaseUpdate(order[i], None)])
  BY DEF Session!ExpireOnce
<1>3. [i \in 1 .. size |-> Session!LeaseUpdate(order[i], None)] \in Seq(Session!Step)
  <2>1. \A i \in 1 .. size : Session!LeaseUpdate(order[i], None) \in Session!Step
    <3>1. \A i \in 1 .. size : order[i] \in {ctl, tgt}
      BY DEF Session!Expired
    <3>2. QED
      BY <3>1, LeaseStepTypes
  <2>2. QED
    BY <1>1, <2>1, IsASeq
<1>4. todo' \in [Session!Thread -> Seq(Session!Step)]
  BY <1>2, <1>3, LeaseThreadNames, LeaseStartsType
<1>5. leases' \in [{ctl, tgt} -> {ctl, tgt} \cup {None}]
  BY DEF Session!ExpireOnce, Session!TypeOK
<1>6. QED
  BY <1>4, <1>5 DEF Session!ExpireOnce, Session!TypeOK

(***************************************************************************)
(* The passing of time keeps the remaining lifetimes within the TTL.       *)
(***************************************************************************)
LEMMA LeaseTickType ==
  ASSUME Session!TypeOK, Session!Tick
  PROVE  Session!TypeOK'
BY DEF Session!Tick, Session!TypeOK

(***************************************************************************)
(* Every state of the lease service is well-typed; in particular no frame  *)
(* that refuses or grants a lease is ever addressed to "no controller".    *)
(***************************************************************************)

-----------------------------------------------------------------------------
(***************************************************************************)
(* What the clients keep, and the frames on their way in both directions.  *)
(***************************************************************************)
ClientTypes ==
  /\ req \in [{ctl, tgt} -> {ctl, tgt} \cup {None}]
  /\ engaged \in [{ctl, tgt} -> BOOLEAN]
  /\ \A c \in {ctl, tgt} : engaged[c] => req[c] # None
  /\ auth \in [{ctl, tgt} -> {ctl, tgt} \cup {None}]
  /\ overriding \in [{ctl, tgt} -> {ctl, tgt} \cup {None}]
  /\ up \in [{ctl, tgt} -> Seq(Session!UpFrame)]
  /\ down \in [{ctl, tgt} -> Seq(Session!Frame)]

LEMMA SessionParts == Session!SessionTypeOK <=> Session!TypeOK /\ ClientTypes
BY DEF Session!SessionTypeOK, ClientTypes

LEMMA UpTypes ==
  ASSUME ClientTypes, NEW n \in {ctl, tgt}, NEW frames \in Seq(Session!UpFrame),
         Session!SendUp(n, frames)
  PROVE  up' \in [{ctl, tgt} -> Seq(Session!UpFrame)]
<1>1. up[n] \o frames \in Seq(Session!UpFrame)
  BY DEF ClientTypes
<1>. QED BY <1>1 DEF ClientTypes, Session!SendUp

LEMMA AskedTypes ==
  ASSUME NEW t \in {ctl, tgt}, NEW c \in {ctl, tgt},
         NEW what \in {"claim", "release", "heartbeat", "override"}
  PROVE  <<Session!Ask(what, t, c)>> \in Seq(Session!UpFrame)
<1>1. Session!Ask(what, t, c) \in Session!UpFrame
  BY DEF Session!Ask, Session!UpFrame
<1>. QED BY <1>1

\* a request of a peer is for a peer, and an active one is for one
LEMMA AsksTypes ==
  ASSUME ClientTypes, NEW c \in {ctl, tgt}, NEW t \in {ctl, tgt} \cup {None}, NEW a \in BOOLEAN,
         Session!Asks(c, t, a), a => t # None
  PROVE  /\ req' \in [{ctl, tgt} -> {ctl, tgt} \cup {None}]
         /\ engaged' \in [{ctl, tgt} -> BOOLEAN]
         /\ \A d \in {ctl, tgt} : engaged'[d] => req'[d] # None
BY DEF ClientTypes, Session!Asks

LEMMA ReleasedTypes ==
  ASSUME ClientTypes, NEW c \in {ctl, tgt}
  PROVE  Session!LetGo(c) \in Seq(Session!UpFrame)
<1>1. CASE req[c] = None
  BY <1>1 DEF Session!LetGo
<1>2. CASE req[c] # None
  <2>1. req[c] \in {ctl, tgt}
    BY <1>2 DEF ClientTypes
  <2>. QED BY <1>2, <2>1, AskedTypes DEF Session!LetGo
<1>. QED BY <1>1, <1>2

(***************************************************************************)
(* Steps of a user or of the control loop.                                 *)
(***************************************************************************)
LEMMA UserTypes ==
  ASSUME ClientTypes, NEW c \in {ctl, tgt},
         \/ \E t \in {ctl, tgt} : Session!RequestTarget(c, t)
         \/ Session!ClearTarget(c) \/ Session!ControlTick(c) \/ Session!LocalInput(c)
  PROVE  ClientTypes' /\ UNCHANGED Session!lsVars
<1>1. ASSUME NEW t \in {ctl, tgt}, Session!RequestTarget(c, t)
      PROVE  ClientTypes' /\ UNCHANGED Session!lsVars
  <2>1. Session!LetGo(c) \o <<Session!Ask("claim", t, c)>> \in Seq(Session!UpFrame)
    BY ReleasedTypes, AskedTypes
  <2>2. up' \in [{ctl, tgt} -> Seq(Session!UpFrame)]
    <3>1. \E frames \in Seq(Session!UpFrame) : Session!SendUp(c, frames)
      BY <1>1, <2>1, AskedTypes DEF Session!RequestTarget
    <3>. QED BY <3>1, UpTypes
  <2>3. UNCHANGED <<req, engaged>> \/ Session!Asks(c, t, FALSE)
    BY <1>1 DEF Session!RequestTarget
  <2>4. /\ req' \in [{ctl, tgt} -> {ctl, tgt} \cup {None}]
        /\ engaged' \in [{ctl, tgt} -> BOOLEAN]
        /\ \A d \in {ctl, tgt} : engaged'[d] => req'[d] # None
    <3>1. CASE UNCHANGED <<req, engaged>>
      BY <3>1 DEF ClientTypes
    <3>2. CASE Session!Asks(c, t, FALSE)
      BY <3>2, AsksTypes
    <3>. QED BY <2>3, <3>1, <3>2
  <2>. QED BY <1>1, <2>2, <2>4 DEF ClientTypes, Session!RequestTarget
<1>2. CASE Session!ClearTarget(c)
  <2>1. up' \in [{ctl, tgt} -> Seq(Session!UpFrame)]
    BY <1>2, ReleasedTypes, UpTypes DEF Session!ClearTarget
  <2>2. /\ req' \in [{ctl, tgt} -> {ctl, tgt} \cup {None}]
        /\ engaged' \in [{ctl, tgt} -> BOOLEAN]
        /\ \A d \in {ctl, tgt} : engaged'[d] => req'[d] # None
    BY <1>2, AsksTypes DEF Session!ClearTarget
  <2>. QED BY <1>2, <2>1, <2>2 DEF ClientTypes, Session!ClearTarget
<1>3. CASE Session!ControlTick(c)
  <2>1. req[c] \in {ctl, tgt}
    BY <1>3 DEF ClientTypes, Session!ControlTick
  <2>2. up' \in [{ctl, tgt} -> Seq(Session!UpFrame)]
    <3>1. PICK what \in {"heartbeat", "claim"} : Session!SendUp(c, <<Session!Ask(what, req[c], c)>>)
      BY <1>3 DEF Session!ControlTick
    <3>. QED BY <2>1, <3>1, AskedTypes, UpTypes
  <2>. QED BY <1>3, <2>2 DEF ClientTypes, Session!ControlTick, Session!clientVars
<1>4. CASE Session!LocalInput(c)
  <2>1. auth[c] \in {ctl, tgt}
    BY <1>4 DEF ClientTypes, Session!LocalInput
  <2>2. up' \in [{ctl, tgt} -> Seq(Session!UpFrame)]
    BY <1>4, <2>1, AskedTypes, UpTypes DEF Session!LocalInput
  <2>. QED BY <1>4, <2>1, <2>2 DEF ClientTypes, Session!LocalInput
<1>. QED BY <1>1, <1>2, <1>3, <1>4

(***************************************************************************)
(* Frames from the coordinator.                                            *)
(***************************************************************************)
LEMMA ReceiveTypes ==
  ASSUME ClientTypes, NEW n \in {ctl, tgt}, Session!Receive(n)
  PROVE  ClientTypes' /\ UNCHANGED Session!lsVars
<1>. DEFINE f == Head(down[n])
<1>1. /\ f \in Session!Step /\ f.do \in Session!Frames /\ Tail(down[n]) \in Seq(Session!Frame)
      /\ down' = [down EXCEPT ![n] = Tail(down[n])]
  <2>1. down[n] \in Seq(Session!Frame) /\ down[n] # <<>>
    BY DEF ClientTypes, Session!Receive
  <2>2. f \in Session!Frame /\ Tail(down[n]) \in Seq(Session!Frame)
    BY <2>1
  <2>. QED BY <2>2 DEF Session!Receive, Session!Frame
<1>2. f.target \in {ctl, tgt} /\ f.who \in {ctl, tgt} \cup {None}
  BY <1>1 DEF Session!Step
<1>3. down' \in [{ctl, tgt} -> Seq(Session!Frame)]
  BY <1>1 DEF ClientTypes
<1>4. UNCHANGED Session!lsVars
  BY DEF Session!Receive
<1>. HIDE DEF f
<1>5. ASSUME NEW t \in {ctl, tgt}, Session!OnGrant(n, t), UNCHANGED <<auth, overriding>>
      PROVE  ClientTypes'
  <2>1. CASE Session!SendUp(n, <<Session!Ask("release", t, n)>>) /\ UNCHANGED <<req, engaged>>
    <3>1. up' \in [{ctl, tgt} -> Seq(Session!UpFrame)]
      BY <2>1, AskedTypes, UpTypes
    <3>. QED BY <1>3, <1>5, <2>1, <3>1 DEF ClientTypes
  <2>2. CASE Session!Asks(n, t, TRUE) /\ UNCHANGED up
    <3>1. t # None
      BY NoneIsNoPeer
    <3>2. /\ req' \in [{ctl, tgt} -> {ctl, tgt} \cup {None}]
          /\ engaged' \in [{ctl, tgt} -> BOOLEAN]
          /\ \A d \in {ctl, tgt} : engaged'[d] => req'[d] # None
      BY <2>2, <3>1, AsksTypes
    <3>. QED BY <1>3, <1>5, <2>2, <3>2 DEF ClientTypes
  <2>. QED BY <1>5, <2>1, <2>2 DEF Session!OnGrant
<1>6. ASSUME NEW t \in {ctl, tgt}, Session!OnDeny(n, t), UNCHANGED <<auth, overriding>>
      PROVE  ClientTypes'
  <2>1. CASE Session!Asks(n, None, FALSE) /\ UNCHANGED up
    <3>1. /\ req' \in [{ctl, tgt} -> {ctl, tgt} \cup {None}]
          /\ engaged' \in [{ctl, tgt} -> BOOLEAN]
          /\ \A d \in {ctl, tgt} : engaged'[d] => req'[d] # None
      BY <2>1, AsksTypes
    <3>. QED BY <1>3, <1>6, <2>1, <3>1 DEF ClientTypes
  <2>2. CASE UNCHANGED <<req, engaged, up>>
    BY <1>3, <1>6, <2>2 DEF ClientTypes
  <2>. QED BY <1>6, <2>1, <2>2 DEF Session!OnDeny
<1>7. ASSUME NEW c \in {ctl, tgt} \cup {None}, Session!OnLeaseUpdate(n, c)
      PROVE  ClientTypes'
  BY <1>3, <1>7 DEF ClientTypes, Session!OnLeaseUpdate
<1>8. \/ Session!OnGrant(n, f.target) /\ UNCHANGED <<auth, overriding>>
      \/ Session!OnDeny(n, f.target) /\ UNCHANGED <<auth, overriding>>
      \/ Session!OnLeaseUpdate(n, f.who)
  BY DEF Session!Receive, f
<1>. QED BY <1>2, <1>4, <1>5, <1>6, <1>7, <1>8

(***************************************************************************)
(* Frames to the coordinator, and the frames of its threads.               *)
(***************************************************************************)
LEMMA DeliverTypes ==
  ASSUME Session!TypeOK, ClientTypes, NEW n \in {ctl, tgt}, Session!Deliver(n)
  PROVE  Session!TypeOK' /\ ClientTypes'
<1>. DEFINE f == Head(up[n])
<1>1. f \in Session!UpFrame /\ Tail(up[n]) \in Seq(Session!UpFrame)
  BY DEF ClientTypes, Session!Deliver
<1>2. f.target \in {ctl, tgt} /\ f.who \in {ctl, tgt}
  BY <1>1 DEF Session!UpFrame
<1>3. ClientTypes'
  BY <1>1 DEF ClientTypes, Session!Deliver, Session!clientVars
<1>4. \/ Session!Claim(n, f.target) \/ Session!Release(n, f.target)
      \/ Session!Heartbeat(n, f.target) \/ Session!Override(n, f.who)
  BY DEF Session!Deliver
<1>. HIDE DEF f
<1>5. Session!TypeOK'
  BY <1>2, <1>4, LeaseRequestType
<1>. QED BY <1>3, <1>5

LEMMA SendDownTypes ==
  ASSUME Session!TypeOK, ClientTypes, NEW th \in Session!Thread, Session!SendDown(th)
  PROVE  Session!TypeOK' /\ ClientTypes'
<1>. DEFINE f == Session!Next1(th)
<1>1. /\ ~Session!Idle(th) /\ f.do \in Session!Frames /\ Session!Send(th)
      /\ down' = [down EXCEPT ![f.to] = Append(@, f)]
      /\ UNCHANGED <<req, engaged, auth, overriding, up>>
  BY DEF Session!SendDown, Session!Send, Session!Sending, Session!clientVars
<1>2. f \in Session!Frame /\ f.to \in {ctl, tgt}
  BY <1>1, LeaseNextStep DEF Session!Frame
<1>3. ClientTypes'
  <2>. HIDE DEF f
  <2>1. Append(down[f.to], f) \in Seq(Session!Frame)
    BY <1>2 DEF ClientTypes
  <2>2. down' \in [{ctl, tgt} -> Seq(Session!Frame)]
    BY <1>1, <1>2, <2>1 DEF ClientTypes
  <2>. QED BY <1>1, <2>2 DEF ClientTypes
<1>. QED BY <1>1, <1>3, LeaseSendType

LEMMA SessionTypesStep ==
  ASSUME Session!SessionTypeOK, Session!SessionNext
  PROVE  Session!SessionTypeOK'
<1>1. Session!TypeOK /\ ClientTypes
  BY SessionParts
<1>. SUFFICES Session!TypeOK' /\ ClientTypes'
  BY DEF Session!SessionTypeOK, ClientTypes
<1>2. ASSUME UNCHANGED Session!lsVars
      PROVE  Session!TypeOK'
  BY <1>1, <1>2 DEF Session!TypeOK, Session!lsVars
<1>3. ASSUME UNCHANGED <<Session!clientVars, up, down>>
      PROVE  ClientTypes'
  BY <1>1, <1>3 DEF ClientTypes, Session!clientVars
<1>4. ASSUME NEW c \in {ctl, tgt},
             \/ \E t \in {ctl, tgt} : Session!RequestTarget(c, t)
             \/ Session!ClearTarget(c) \/ Session!ControlTick(c) \/ Session!LocalInput(c)
      PROVE  Session!TypeOK' /\ ClientTypes'
  BY <1>1, <1>2, <1>4, UserTypes
<1>5. ASSUME NEW n \in {ctl, tgt}, Session!Receive(n) \/ Session!Deliver(n)
      PROVE  Session!TypeOK' /\ ClientTypes'
  BY <1>1, <1>2, <1>5, ReceiveTypes, DeliverTypes
<1>6. ASSUME NEW th \in Session!Thread, Session!LeaseStep(th) \/ Session!SendDown(th)
      PROVE  Session!TypeOK' /\ ClientTypes'
  BY <1>1, <1>3, <1>6, LeaseLockedType, SendDownTypes DEF Session!LeaseStep
<1>7. CASE Session!Expire \/ Session!TimePasses
  BY <1>1, <1>3, <1>7, LeaseExpiryType, LeaseTickType DEF Session!Expire, Session!TimePasses
<1>8. ASSUME NEW t \in {ctl, tgt}, NEW c \in Session!ControllersOf(t)
      PROVE  c \in {ctl, tgt}
  BY <1>8 DEF Session!ControllersOf
<1>9. CASE \E t \in {ctl, tgt} : \E c \in Session!ControllersOf(t) : Session!RequestTarget(c, t)
  BY <1>4, <1>8, <1>9
<1>10. CASE \/ \E c \in {ctl} : Session!ClearTarget(c)
            \/ \E t \in {tgt} : Session!LocalInput(t)
  BY <1>4, <1>10
<1>11. CASE \/ \E n \in {ctl, tgt} : \/ Session!ControlTick(n) \/ Session!Receive(n)
                                     \/ Session!Deliver(n)
            \/ \E th \in Session!Thread : Session!LeaseStep(th) \/ Session!SendDown(th)
  BY <1>4, <1>5, <1>6, <1>11
<1>. QED BY <1>7, <1>9, <1>10, <1>11 DEF Session!SessionNext, Session!PromptNext

-----------------------------------------------------------------------------
(***************************************************************************)
(* The keys.                                                               *)
(***************************************************************************)
LEMMA NoPresses == <<>> \in Seq(Modifier)
OBVIOUS

LEMMA KeysType == KeyTypeOK /\ [KeyNext]_keyVars => KeyTypeOK'
<1>. SUFFICES ASSUME KeyTypeOK, [KeyNext]_keyVars PROVE KeyTypeOK'
  OBVIOUS
<1>1. Waiting \subseteq Modifier
  BY DEF Waiting, KeyTypeOK
<1>2. CASE Toggle
  BY <1>2 DEF Toggle, KeyTypeOK
<1>3. CASE MouseFlush \/ MouseClearList \/ MouseClearKeys
  <2>1. Waiting \subseteq Key
    BY <1>1 DEF Key
  <2>. QED BY <1>3, <2>1, NoPresses DEF MouseFlush, MouseClearList, MouseClearKeys, KeyTypeOK
<1>4. ASSUME NEW k \in Key, Press(k)
      PROVE  KeyTypeOK'
  <2>1. /\ phys' \subseteq Key /\ last' \in Key \cup {None} /\ flush' \in {None, "list", "keys"}
        /\ active' \in BOOLEAN
    BY <1>4 DEF Press, PressHotkey, PressModifier, PressOther, Down, KeyTypeOK
  <2>2. raced' \in BOOLEAN
    BY <1>4 DEF Press, PressHotkey, PressModifier, PressOther, Down, KeyTypeOK
  <2>3. CASE PressHotkey(k)
    BY <2>1, <2>2, <2>3 DEF PressHotkey, KeyTypeOK
  <2>4. CASE PressModifier(k)
    <3>1. k \in Modifier /\ Append(presses, k) \in Seq(Modifier)
      BY <2>4 DEF PressModifier, KeyTypeOK
    <3>. QED BY <2>1, <2>2, <2>4, <3>1 DEF PressModifier, KeyTypeOK
  <2>5. CASE PressOther(k)
    BY <1>1, <2>1, <2>2, <2>5 DEF PressOther, KeyTypeOK, Key
  <2>. QED BY <1>4, <2>3, <2>4, <2>5 DEF Press
<1>5. ASSUME NEW k \in Key, Release(k)
      PROVE  KeyTypeOK'
  <2>1. Waiting \subseteq Key
    BY <1>1 DEF Key
  <2>2. /\ phys' \subseteq Key /\ last' \in Key \cup {None} /\ UNCHANGED <<flush, active, raced>>
    BY <1>5 DEF Release, ReleaseTrigger, ReleaseSuppressed, ReleaseOther, Up, KeyTypeOK
  <2>3. CASE ReleaseTrigger(k)
    BY <2>2, <2>3 DEF ReleaseTrigger, KeyTypeOK
  <2>4. CASE ReleaseSuppressed(k)
    BY <2>2, <2>4 DEF ReleaseSuppressed, KeyTypeOK
  <2>5. CASE ReleaseOther(k)
    BY <2>1, <2>2, <2>5, NoPresses DEF ReleaseOther, KeyTypeOK
  <2>. QED BY <1>5, <2>3, <2>4, <2>5 DEF Release
<1>6. CASE UNCHANGED keyVars
  BY <1>6 DEF keyVars, vars, KeyTypeOK
<1>. QED BY <1>2, <1>3, <1>4, <1>5, <1>6 DEF KeyNext

-----------------------------------------------------------------------------
(***************************************************************************)
(* The pointer.  EdgeInv has the types of some of its state; these are the *)
(* others.                                                                 *)
(***************************************************************************)
Surroundings ==
  /\ online \subseteq Edges!Node /\ auto \in BOOLEAN /\ drag \in BOOLEAN /\ cool \in BOOLEAN
  /\ flag \in BOOLEAN /\ crossed \in BOOLEAN /\ dog \in BOOLEAN

Sights ==
  /\ clip \in {"none", "ours", "other"} /\ scheme \in {"normal", "partly", "transparent"}
  /\ pointer \in Edges!Node \cup {None} /\ move \in Edges!Node \cup {None}

LEMMA EdgeParts == Edges!EdgeTypeOK <=> EdgeTypes /\ Surroundings /\ Sights
BY DEF Edges!EdgeTypeOK, EdgeTypes, Surroundings, Sights

LEMMA CurrentIsNode ==
  ASSUME EdgeTypes
  PROVE  Edges!Current \in Edges!Node
BY StateShapes, SelfHasScreens DEF EdgeTypes, Edges!Current

\* whether threads have crossed, once the router's state has changed or not
LEMMA CrossedIsBoolean ==
  ASSUME Surroundings, NEW th, NEW s, NEW more,
         UNCHANGED Edges!routerVars \/ Edges!Swap(th, s, more)
  PROVE  crossed' \in BOOLEAN
BY DEF Surroundings, Edges!Swap, Edges!routerVars

LEMMA ClipTypes ==
  ASSUME Sights, NEW s, NEW d,
         \/ Edges!Release \/ Edges!ApplyBlock(s, d) \/ Edges!ApplyWarp(s)
         \/ Edges!ContinueHold \/ UNCHANGED Edges!edgeVars
  PROVE  clip' \in {"none", "ours", "other"}
BY DEF Sights, Edges!Release, Edges!ApplyBlock, Edges!ApplyWarp, Edges!ContinueHold,
   Edges!ContinueLocal, Edges!ContinueRemote, Edges!Inwards, Edges!Outwards, Edges!Refreshed,
   Edges!Repaired, Edges!Clipped, Edges!edgeVars

\* how a move that has ended leaves them
LEMMA MoveEndsTypes ==
  ASSUME Surroundings, Sights,
         \/ Edges!MoveIgnored \/ Edges!MoveHeld
         \/ \E s \in Edges!Screen, d \in Edges!Direction : Edges!MoveAtEdge(s, d)
  PROVE  Surroundings' /\ Sights'
<1>1. /\ move' = None /\ Edges!Follow /\ move # None
      /\ UNCHANGED <<scheme, flag, online, auto, drag, app, dog>>
  BY DEF Edges!MoveIgnored, Edges!MoveHeld, Edges!MoveAtEdge, Edges!MoveEnds, Edges!cursorVars,
     Edges!lifeVars
<1>2. pointer' \in Edges!Node \cup {None}
  BY <1>1 DEF Sights, Edges!Follow
<1>3. SUFFICES /\ cool' \in BOOLEAN /\ crossed' \in BOOLEAN
               /\ clip' \in {"none", "ours", "other"}
  BY <1>1, <1>2 DEF Surroundings, Sights
<1>4. CASE Edges!MoveIgnored
  BY <1>4, CrossedIsBoolean DEF Surroundings, Sights, Edges!MoveIgnored, Edges!MoveEnds,
     Edges!edgeVars
<1>5. CASE Edges!MoveHeld
  <2>1. Edges!ContinueHold /\ UNCHANGED Edges!routerVars /\ UNCHANGED cool
    BY <1>5 DEF Edges!MoveHeld, Edges!MoveEnds
  <2>. QED BY <2>1, ClipTypes, CrossedIsBoolean DEF Surroundings
<1>6. ASSUME NEW s \in Edges!Screen, NEW d \in Edges!Direction, Edges!ApplyRoute(s, d)
      PROVE  /\ cool' \in BOOLEAN /\ crossed' \in BOOLEAN
             /\ clip' \in {"none", "ours", "other"}
  <2>1. CASE Edges!Resolve(s, d) = "target-switch" /\ Edges!ApplySwitch(s, d)
    <3>1. CASE drag \/ cool
      BY <2>1, <3>1, CrossedIsBoolean DEF Edges!ApplySwitch, Surroundings, Sights, Edges!edgeVars
    <3>2. CASE ~(drag \/ cool)
      <4>1. Edges!Release /\ cool' = TRUE
        BY <2>1, <3>2 DEF Edges!ApplySwitch
      <4>2. crossed' \in BOOLEAN
        BY <2>1, <3>2, CrossedIsBoolean DEF Edges!ApplySwitch, Edges!Request
      <4>. QED BY <4>1, <4>2, ClipTypes
    <3>. QED BY <3>1, <3>2
  <2>2. CASE /\ Edges!Release \/ Edges!ApplyBlock(s, d) \/ Edges!ApplyWarp(s)
             /\ UNCHANGED Edges!routerVars /\ UNCHANGED cool
    BY <2>2, ClipTypes, CrossedIsBoolean DEF Surroundings
  <2>. QED BY <1>6, <2>1, <2>2 DEF Edges!ApplyRoute
<1>. QED BY <1>4, <1>5, <1>6 DEF Edges!MoveAtEdge, Edges!MoveEnds

LEMMA OthersTypes ==
  ASSUME EdgeTypes, Surroundings, Sights, [Edges!EdgeNext]_edgeVars
  PROVE  Surroundings' /\ Sights'
<1>1. CASE Edges!Grant \/ Edges!Lose \/ \E t \in Edges!Node \ {Self} : Edges!Choose(t)
  <2>1. UNCHANGED <<hold, clip, scheme, flag, online, auto, drag, cool, app, dog, pointer, move>>
    BY <1>1 DEF Edges!Grant, Edges!Lose, Edges!Choose, Edges!edgeVars, Edges!cursorVars,
       Edges!worldVars, Edges!lifeVars
  <2>2. crossed' \in BOOLEAN
    BY <1>1, CrossedIsBoolean DEF Edges!Grant, Edges!Lose, Edges!Choose, Edges!Request
  <2>. QED BY <2>1, <2>2 DEF Surroundings, Sights
<1>2. ASSUME NEW th \in Edges!Thread, Edges!ListenCursor(th)
      PROVE  Surroundings' /\ Sights'
  BY <1>2 DEF Surroundings, Sights, Edges!ListenCursor, Edges!ClearClip, Edges!HideCursor,
     Edges!ShowCursor, Edges!Transparent, Edges!cursorVars, Edges!worldVars, Edges!lifeVars
<1>3. ASSUME NEW th \in Edges!Thread, Edges!ListenPointer(th)
      PROVE  Surroundings' /\ Sights'
  <2>1. Head(listeners[th]).for \in Edges!RouterState
    <3>1. listeners[th] \in Seq(Edges!Job) /\ listeners[th] # <<>>
      BY <1>3 DEF EdgeTypes, Edges!ListenPointer, Edges!Doing
    <3>2. Head(listeners[th]) \in Edges!Job
      BY <3>1
    <3>. QED BY <3>2 DEF Edges!Job
  <2>2. pointer' \in Edges!Node \cup {None}
    BY <1>3, <2>1, StateShapes DEF Edges!ListenPointer
  <2>. QED BY <1>3, <2>2 DEF Surroundings, Sights, Edges!ListenPointer, Edges!edgeVars,
     Edges!cursorVars, Edges!worldVars, Edges!lifeVars
<1>4. ASSUME NEW th \in Edges!Thread, Edges!Claim(th)
      PROVE  Surroundings' /\ Sights'
  <2>1. crossed' \in BOOLEAN
    <3>1. CASE UNCHANGED <<router, crossed>>
      BY <3>1 DEF Surroundings
    <3>2. CASE Edges!Swap(th, Edges!Inactive, <<>>)
      BY <3>2, CrossedIsBoolean
    <3>. QED BY <1>4, <3>1, <3>2 DEF Edges!Claim
  <2>. QED BY <1>4, <2>1 DEF Surroundings, Sights, Edges!Claim, Edges!edgeVars, Edges!cursorVars,
     Edges!worldVars, Edges!lifeVars
<1>5. CASE Edges!MoveBegins
  <2>1. clip' \in {"none", "ours", "other"} /\ move' \in Edges!Node
    BY <1>5, ClipTypes, CurrentIsNode DEF Edges!MoveBegins, Edges!SyncHold
  <2>. QED BY <1>5, <2>1 DEF Surroundings, Sights, Edges!MoveBegins, Edges!routerVars,
     Edges!cursorVars, Edges!worldVars, Edges!lifeVars
<1>6. CASE \/ Edges!MoveIgnored \/ Edges!MoveHeld
           \/ \E s \in Edges!Screen, d \in Edges!Direction : Edges!MoveAtEdge(s, d)
  BY <1>6, MoveEndsTypes
<1>7. CASE Edges!World
  BY <1>7 DEF Surroundings, Sights, Edges!World, Edges!edgeVars, Edges!worldVars, Edges!cursorVars,
     Edges!routerVars, Edges!lifeVars
<1>8. CASE Edges!Quit \/ Edges!Gone \/ Edges!Guard \/ Edges!Start
  BY <1>8 DEF Surroundings, Sights, Edges!Quit, Edges!Gone, Edges!Guard, Edges!Start,
     Edges!FreeInput, Edges!SpawnWatchdog, Edges!ClearClip, Edges!ShowCursor, Edges!routerVars,
     Edges!worldVars, Edges!cursorVars
<1>9. CASE UNCHANGED edgeVars
  BY <1>9 DEF Surroundings, Sights, edgeVars
<1>. QED BY <1>1, <1>2, <1>3, <1>4, <1>5, <1>6, <1>7, <1>8, <1>9 DEF Edges!EdgeNext

(***************************************************************************)
(* Every variable of a controller has a value of its type: so an active    *)
(* request is for a target, and a move of the mouse on a node that has     *)
(* screens.                                                                *)
(***************************************************************************)
THEOREM ControllerTypes == ControllerSpec => []ControllerTypeOK
<1>. DEFINE Others == Session!SessionTypeOK /\ KeyTypeOK /\ Surroundings /\ Sights
<1>1. ControllerInit => Others
  <2>. SUFFICES ASSUME ControllerInit PROVE Others
    OBVIOUS
  <2>1. Session!SessionTypeOK
    BY LeaseInitType DEF ControllerInit, Session!SessionInit, Session!SessionTypeOK
  <2>2. KeyTypeOK
    BY NoPresses DEF ControllerInit, KeyInit, KeyTypeOK
  <2>3. Surroundings /\ Sights
    BY DEF ControllerInit, Edges!EdgeInit, Surroundings, Sights
  <2>. QED BY <2>1, <2>2, <2>3
<1>2. EdgeInv /\ Others /\ [ControllerNext]_controllerVars => Others'
  <2>. SUFFICES ASSUME EdgeInv, Others, [ControllerNext]_controllerVars PROVE Others'
    OBVIOUS
  <2>1. Session!SessionTypeOK'
    <3>1. CASE Session!SessionNext
      BY <3>1, SessionTypesStep
    <3>2. CASE UNCHANGED sessionVars
      BY <3>2 DEF sessionVars, Session!SessionTypeOK, Session!TypeOK
    <3>. QED BY <3>1, <3>2 DEF ControllerNext, SessionStep, KeyStep, EdgeStep, controllerVars
  <2>2. KeyTypeOK'
    <3>1. [KeyNext]_keyVars
      BY DEF ControllerNext, SessionStep, KeyStep, EdgeStep, controllerVars
    <3>. QED BY <3>1, KeysType
  <2>3. Surroundings' /\ Sights'
    BY OnlyEdgesMove, OthersTypes DEF EdgeInv
  <2>. QED BY <2>1, <2>2, <2>3
<1>3. EdgeInv /\ Others => ControllerTypeOK
  BY EdgeParts DEF EdgeInv, ControllerTypeOK
<1>. HIDE DEF Others
<1>. QED BY <1>1, <1>2, <1>3, EdgesKept, PTL DEF ControllerSpec
=============================================================================

----------------------------- MODULE DeskProofs -----------------------------
(***************************************************************************)
(* The parts of Desk.  The configuration, for any threads, whatever each   *)
(* of them saves and whatever cannot be written: what was saved last is in *)
(* the files and in force.  The node list, for any group: the revision     *)
(* keeps every edit while edits take turns, and no peer goes back or       *)
(* ahead.  The layout, for any monitors: nodes see the same edges.  The    *)
(* updates, for any commands: their outcomes are not forgotten.  Last, the *)
(* types of all the parts together, with the election of ElectionProofs.   *)
(***************************************************************************)
EXTENDS Desk, ElectionProofs, SequenceTheorems, FiniteSetTheorems, WellFoundedInduction, TLAPS

LEMMA OnlyOnePartMoves ==
  ASSUME [DeskNext]_deskVars
  PROVE  [Store!Next]_storeVars /\ [List!Next]_listVars
BY DEF DeskNext, deskVars, ElectionStep, ListStep, UpdateStep, StoreStep, ScreenStep

-----------------------------------------------------------------------------
(***************************************************************************)
(* The configuration.                                                      *)
(***************************************************************************)
Records == [nodes : Nat, settings : Nat, layout : Nat, inventory : SUBSET Nat]
AnyCall == [kind : Store!Kind, no : Nat, snapshots : SUBSET Nat]

StoreTypes ==
  /\ disk \in Records /\ ctx \in Records /\ content \in Records /\ before \in Records
  /\ saved \in [nodes : Nat, settings : Nat]
  /\ calls \in Nat
  /\ DOMAIN call = Caller
  /\ \A t \in Caller : call[t] = None \/ call[t] \in AnyCall
  /\ lock \in Caller \cup {None}

\* two contents agree on the sections in question
Same(a, b) == a.nodes = b.nodes /\ a.settings = b.settings

\* what is to be written is what a call brings, and otherwise what it has found
Brings(k) ==
  /\ content.nodes = IF k.kind \in {"nodes", "port", "note"} THEN k.no ELSE before.nodes
  /\ content.settings = IF k.kind \in {"settings", "both"} THEN k.no ELSE before.settings

\* the file with the nodes and the settings has been written
FirstWritten ==
  /\ unwritten \in {<<{"layout"}, {"inventory"}>>, <<{"inventory"}>>, <<>>}
  /\ Same(disk, content)

(***************************************************************************)
(* While a call holds the lock, what it found and what the program works   *)
(* with are what was saved last, and the first file has either one or the  *)
(* other content, so that a failure at any file can be undone.             *)
(***************************************************************************)
HeldInOrder ==
  lock # None =>
    /\ call[lock] # None
    /\ Same(before, saved)
    /\ Brings(call[lock])
    /\ FirstWritten \/ (unwritten = Store!File /\ Same(disk, before))

InForce == ~restart => Same(ctx, saved)

StoreInv == StoreTypes /\ InForce /\ HeldInOrder /\ (lock = None => Same(disk, saved))

LEMMA StoreInitInv == Store!Init => StoreInv
BY DEF Store!Init, StoreInv, StoreTypes, Records, Store!Empty, InForce, HeldInOrder, Same

(***************************************************************************)
(* Before the lock a call touches the layout and the inventory alone.      *)
(***************************************************************************)
LEMMA BeginInv ==
  ASSUME StoreInv, NEW t \in Caller, NEW kind \in Calls[t], Store!Begin(t, kind)
  PROVE  StoreInv'
<1>1. kind \in Store!Kind /\ calls' \in Nat
  BY CallersAreThreads DEF Store!Begin, StoreInv, StoreTypes
<1>2. ctx' \in Records /\ Same(ctx', ctx)
  BY <1>1 DEF Store!Begin, StoreInv, StoreTypes, Records, Same
<1>3. DOMAIN call' = Caller /\ \A s \in Caller \ {t} : call'[s] = call[s]
  BY DEF Store!Begin, StoreInv, StoreTypes
<1>4. call'[t] \in AnyCall
  BY <1>1 DEF Store!Begin, StoreInv, StoreTypes, AnyCall, Records
<1>5. StoreTypes'
  BY <1>1, <1>2, <1>3, <1>4 DEF Store!Begin, StoreInv, StoreTypes
<1>6. lock # None => lock \in Caller \ {t}
  BY DEF Store!Begin, StoreInv, HeldInOrder, StoreTypes
<1>7. HeldInOrder' /\ (lock' = None => Same(disk', saved'))
  BY <1>3, <1>6 DEF Store!Begin, StoreInv, HeldInOrder, Brings, FirstWritten, Same
<1>8. InForce'
  BY <1>2 DEF Store!Begin, StoreInv, InForce, Same
<1>. QED BY <1>5, <1>7, <1>8 DEF StoreInv

(***************************************************************************)
(* A call has loaded the files.                                            *)
(***************************************************************************)
LEMMA EnterInv ==
  ASSUME StoreInv, NEW t \in Caller, Store!Enter(t)
  PROVE  StoreInv'
<1>. DEFINE k == call[t]
<1>1. k \in AnyCall /\ k # None /\ lock = None /\ lock' = t /\ t # None
  BY CallersAreThreads DEF Store!Enter, StoreInv, StoreTypes
<1>2. Store!Changed(k) \in Records
  BY <1>1 DEF Store!Changed, Store!WithLayout, Store!WithInventory, Store!WithNodes,
              Store!WithNote, Store!WithSettings, Store!WithBoth, StoreInv, StoreTypes, Records, AnyCall
<1>3. StoreTypes'
  BY <1>1, <1>2 DEF Store!Enter, StoreInv, StoreTypes
<1>4. /\ Store!Changed(k).nodes = IF k.kind \in {"nodes", "port", "note"} THEN k.no ELSE disk.nodes
      /\ Store!Changed(k).settings = IF k.kind \in {"settings", "both"} THEN k.no ELSE disk.settings
  BY <1>1 DEF Store!Changed, Store!WithLayout, Store!WithInventory, Store!WithNodes,
              Store!WithNote, Store!WithSettings, Store!WithBoth, StoreInv, StoreTypes, Records, AnyCall, Store!Kind
<1>5. Brings(call[t])' /\ Same(before', saved') /\ Same(disk', before')
  BY <1>1, <1>4 DEF Store!Enter, Brings, StoreInv, Same
<1>6. FirstWritten' \/ unwritten' = Store!File
  BY <1>4 DEF Store!Enter, FirstWritten, Same
<1>7. HeldInOrder'
  BY <1>1, <1>5, <1>6 DEF Store!Enter, HeldInOrder
<1>8. InForce'
  BY DEF Store!Enter, StoreInv, InForce, Same
<1>. QED BY <1>1, <1>3, <1>7, <1>8 DEF StoreInv

(***************************************************************************)
(* The next file: the first one has the nodes and the settings, the others *)
(* have neither.                                                           *)
(***************************************************************************)
LEMMA WriteFileInv ==
  ASSUME StoreInv, NEW t \in Caller, Store!WriteFile(t)
  PROVE  StoreInv'
<1>1. lock = t /\ t # None /\ HeldInOrder
  BY CallersAreThreads DEF Store!WriteFile, StoreInv
<1>2. DOMAIN disk = {"nodes", "settings", "layout", "inventory"}
  BY DEF StoreInv, StoreTypes, Records
<1>3. disk' = [nodes     |-> IF "nodes" \in Head(unwritten) THEN content.nodes ELSE disk.nodes,
               settings  |-> IF "settings" \in Head(unwritten) THEN content.settings ELSE disk.settings,
               layout    |-> IF "layout" \in Head(unwritten) THEN content.layout ELSE disk.layout,
               inventory |-> IF "inventory" \in Head(unwritten) THEN content.inventory ELSE disk.inventory]
  BY <1>2 DEF Store!WriteFile
<1>4. disk' \in Records
  BY <1>3 DEF StoreInv, StoreTypes, Records
<1>5. StoreTypes'
  BY <1>4 DEF Store!WriteFile, StoreInv, StoreTypes
<1>6. ASSUME unwritten = Store!File PROVE FirstWritten'
  <2>1. Head(unwritten) = {"nodes", "settings"}
    BY <1>6 DEF Store!File
  <2>2. Tail(unwritten) = <<{"layout"}, {"inventory"}>>
    BY <1>6 DEF Store!File
  <2>3. disk'.nodes = content.nodes /\ disk'.settings = content.settings
    BY <1>3, <2>1
  <2>. QED BY <2>2, <2>3 DEF Store!WriteFile, FirstWritten, Same
<1>7. ASSUME FirstWritten PROVE FirstWritten'
  <2>1. CASE unwritten = <<{"layout"}, {"inventory"}>>
    <3>1. Head(unwritten) = {"layout"}
      BY <2>1
    <3>2. Tail(unwritten) = <<{"inventory"}>>
      BY <2>1
    <3>3. disk'.nodes = disk.nodes /\ disk'.settings = disk.settings
      BY <1>3, <3>1
    <3>. QED BY <1>7, <3>2, <3>3 DEF Store!WriteFile, FirstWritten, Same
  <2>2. CASE unwritten = <<{"inventory"}>>
    <3>1. Head(unwritten) = {"inventory"}
      BY <2>2
    <3>2. Tail(unwritten) = <<>>
      BY <2>2
    <3>3. disk'.nodes = disk.nodes /\ disk'.settings = disk.settings
      BY <1>3, <3>1
    <3>. QED BY <1>7, <3>2, <3>3 DEF Store!WriteFile, FirstWritten, Same
  <2>. QED BY <1>7, <2>1, <2>2 DEF FirstWritten, Store!WriteFile
<1>8. FirstWritten'
  BY <1>1, <1>6, <1>7 DEF HeldInOrder
<1>9. HeldInOrder'
  BY <1>1, <1>8 DEF Store!WriteFile, HeldInOrder, Brings, Same
<1>10. InForce'
  BY DEF Store!WriteFile, StoreInv, InForce, Same
<1>. QED BY <1>1, <1>5, <1>9, <1>10 DEF Store!WriteFile, StoreInv

LEMMA LeaveShapes ==
  ASSUME StoreInv, NEW t \in Caller, Store!Leave(t)
  PROVE  /\ DOMAIN call' = Caller
         /\ \A s \in Caller : call'[s] = None \/ call'[s] \in AnyCall
         /\ lock' = None
BY DEF Store!Leave, StoreInv, StoreTypes

LEMMA WriteFailsInv ==
  ASSUME StoreInv, NEW t \in Caller, Store!WriteFails(t)
  PROVE  StoreInv'
<1>1. lock = t /\ t # None
  BY CallersAreThreads DEF Store!WriteFails
<1>2. StoreTypes'
  BY LeaveShapes DEF Store!WriteFails, StoreInv, StoreTypes
<1>3. Same(disk', saved')
  BY <1>1 DEF Store!WriteFails, StoreInv, HeldInOrder, Same
<1>4. InForce'
  BY DEF Store!WriteFails, StoreInv, InForce, Same
<1>. QED BY <1>2, <1>3, <1>4, LeaveShapes DEF Store!WriteFails, StoreInv, HeldInOrder

(***************************************************************************)
(* All has been written: what the call has brought is in the files, and    *)
(* now in force.                                                           *)
(***************************************************************************)
LEMMA ApplyInv ==
  ASSUME StoreInv, NEW t \in Caller, Store!Apply(t)
  PROVE  StoreInv'
<1>. DEFINE k == call[t]
<1>1. lock = t /\ t # None /\ k \in AnyCall /\ unwritten # Store!File
  BY CallersAreThreads DEF Store!Apply, StoreInv, HeldInOrder, StoreTypes, Store!File
<1>2. Same(before, saved) /\ Brings(k) /\ Same(disk, content)
  BY <1>1 DEF StoreInv, HeldInOrder, FirstWritten
<1>3. ctx' \in Records
  BY <1>1 DEF Store!Apply, StoreInv, StoreTypes, Records
<1>4. saved' \in [nodes : Nat, settings : Nat]
  BY <1>1 DEF Store!Apply, StoreInv, StoreTypes, AnyCall
<1>5. StoreTypes'
  BY <1>3, <1>4, LeaveShapes DEF Store!Apply, StoreInv, StoreTypes
<1>6. Same(content, saved')
  BY <1>1, <1>2 DEF Store!Apply, Brings, Same, StoreInv, StoreTypes, AnyCall, Store!Kind
<1>7. ASSUME ~restart' PROVE Same(ctx', saved')
  <2>1. Same(ctx, saved) /\ k.kind # "port"
    BY <1>7 DEF Store!Apply, StoreInv, InForce
  <2>2. CASE k.kind = "layout"
    BY <2>1, <2>2 DEF Store!Apply, Same
  <2>3. CASE k.kind = "settings"
    <3>1. ctx' = [ctx EXCEPT !.settings = content.settings]
      BY <2>3 DEF Store!Apply
    <3>2. ctx'.nodes = ctx.nodes /\ ctx'.settings = content.settings
      BY <3>1 DEF StoreInv, StoreTypes, Records
    <3>. QED BY <1>2, <1>6, <2>1, <2>3, <3>2 DEF Brings, Same
  <2>4. CASE k.kind \notin {"layout", "settings"}
    BY <1>6, <1>7, <2>4 DEF Store!Apply, Same
  <2>. QED BY <2>2, <2>3, <2>4
<1>8. Same(disk', saved') /\ lock' = None
  BY <1>2, <1>6, LeaveShapes DEF Store!Apply, Same
<1>. QED BY <1>5, <1>7, <1>8 DEF StoreInv, InForce, HeldInOrder

LEMMA StoreNextInv == StoreInv /\ [Store!Next]_storeVars => StoreInv'
<1>. SUFFICES ASSUME StoreInv, [Store!Next]_storeVars PROVE StoreInv'
  OBVIOUS
<1>1. CASE UNCHANGED storeVars
  BY <1>1 DEF storeVars, StoreInv, StoreTypes, InForce, HeldInOrder, Brings, FirstWritten, Same
<1>2. CASE Store!Restart
  BY <1>2 DEF Store!Restart, StoreInv, StoreTypes, InForce, HeldInOrder, Same
<1>3. ASSUME NEW t \in Caller, \E kind \in Calls[t] : Store!Begin(t, kind) PROVE StoreInv'
  BY <1>3, BeginInv
<1>4. ASSUME NEW t \in Caller,
             Store!Enter(t) \/ Store!WriteFile(t) \/ Store!WriteFails(t) \/ Store!Apply(t)
      PROVE  StoreInv'
  BY <1>4, EnterInv, WriteFileInv, WriteFailsInv, ApplyInv
<1>. QED BY <1>1, <1>2, <1>3, <1>4 DEF Store!Next

(***************************************************************************)
(* RuntimeConfigReloader: nobody's nodes or settings are lost to a save of *)
(* another section, to a file that cannot be written, or to a change that  *)
(* was made before the lock was taken.                                     *)
(***************************************************************************)
THEOREM SavedInForce == DeskSpec => []SavesInForce
<1>1. DeskInit => StoreInv
  BY StoreInitInv DEF DeskInit
<1>2. StoreInv /\ [DeskNext]_deskVars => StoreInv'
  BY OnlyOnePartMoves, StoreNextInv
<1>3. StoreInv => SavesInForce
  BY DEF StoreInv, InForce, SavesInForce, Store!SavesInForce, Same
<1>. QED BY <1>1, <1>2, <1>3, PTL DEF DeskSpec

-----------------------------------------------------------------------------
(***************************************************************************)
(* The node list.  A thread of the coordinator or of a window works on a   *)
(* request; Recv(p), the receive thread of a peer, on a list.              *)
(***************************************************************************)
Others == Node \ {Coord}
Worker == ({"window"} \X List!Member) \cup ({"serve"} \X Others)

Letter == [nodes : SUBSET Nat, revision : Nat]
Work   == [do : List!Kind, node : List!Member, nodes : SUBSET Nat, revision : Nat]

ListTypes ==
  /\ edits \in Nat /\ rev \in Nat /\ calm \in BOOLEAN
  /\ lst \in [List!Member -> SUBSET Nat]
  /\ crev \in [List!Member -> Nat]
  /\ up \in [Others -> Seq(Letter)]
  /\ down \in [Others -> Seq(Letter)]
  /\ steps \in [List!Thread -> Seq(Work)]

Does(th, kinds) == steps[th] # <<>> /\ Head(steps[th]).do \in kinds

(***************************************************************************)
(* The coordinator's list has, or is to have, an edit that no revision     *)
(* counts yet; otherwise, while edits take turns, whoever has the current  *)
(* revision has all that is in the coordinator's list.                     *)
(***************************************************************************)
Uncounted ==
  \/ Does(List!Window(Coord), {"request", "check", "apply"})
  \/ \E th \in Worker : Does(th, {"count"})

Firm == calm /\ ~Uncounted

Fresh(l, r) == r <= rev /\ (Firm /\ r = rev => lst[Coord] \subseteq l)

\* so it is with what is on its way and what the peers have
AllFresh(q) == \A i \in 1 .. Len(q) : Fresh(q[i].nodes, q[i].revision)
Carried == \A p \in Others : AllFresh(up[p]) /\ AllFresh(down[p]) /\ Fresh(lst[p], crev[p])

NoneAhead == \A n \in List!Member : crev[n] <= rev

\* a request is worked on step by step; after the broadcast's first step come its sends
HeadOK(th, s) ==
  /\ s.do = "request" => th = List!Window(s.node)
  /\ s.do \in {"check", "apply"} => (s.node = Coord <=> th = List!Window(Coord))
  /\ s.do \in {"check", "build", "note"} => s.revision <= rev
  /\ s.do \in {"accept", "take", "note"} => s.node = Coord
  /\ s.do = "send" => s.node \in Others
  /\ s.do \in {"accept", "take", "send"} => Fresh(s.nodes, s.revision)

SendsFresh(q) ==
  \A i \in 2 .. Len(q) : /\ q[i].do = "send" /\ q[i].node \in Others
                         /\ Fresh(q[i].nodes, q[i].revision)

\* what is known of a step as long as edits take turns
InTurn(s) ==
  /\ s.do = "request" => IF s.node = Coord THEN s.nodes = lst[Coord]
                         ELSE Fresh(s.nodes, crev[s.node]) /\ steps[List!Recv(s.node)] = <<>>
  /\ s.do = "check" => IF s.node = Coord THEN s.nodes = lst[Coord] /\ s.revision = rev
                       ELSE Fresh(s.nodes, s.revision)
  /\ s.do = "apply" => lst[Coord] \subseteq s.nodes /\ (s.node = Coord => s.nodes = lst[Coord])
  /\ s.do \in {"build", "accept", "take", "note"} => s.revision = rev
  /\ s.do \in {"accept", "take"} => s.nodes = lst[Coord]

WorkerOK(th) ==
  steps[th] # <<>> =>
    /\ HeadOK(th, Head(steps[th]))
    /\ calm => InTurn(Head(steps[th]))
    /\ SendsFresh(steps[th])
    /\ Does(th, {"request", "check", "apply", "count", "build"}) => Len(steps[th]) = 1

Working == \A th \in Worker : WorkerOK(th)

\* one request at a time, on its way or in a thread
Turns ==
  calm => /\ \A s, t \in Worker : steps[s] # <<>> /\ steps[t] # <<>> => s = t
          /\ \A p \in Others : up[p] # <<>> => /\ Len(up[p]) = 1
                                               /\ \A th \in Worker : steps[th] = <<>>
          /\ \A p, q \in Others : up[p] # <<>> /\ up[q] # <<>> => p = q

\* the coordinator's own client is behind its service only during a broadcast
OwnBroadcast == {"build", "accept", "take", "note"}
CoordKnows == calm /\ (\A th \in Worker : ~Does(th, OwnBroadcast)) => crev[Coord] = rev

ReceiverOK(p) ==
  steps[List!Recv(p)] # <<>> =>
    LET s == Head(steps[List!Recv(p)]) IN
    /\ Len(steps[List!Recv(p)]) = 1
    /\ s.node = p /\ s.do \in {"accept", "take", "note"}
    /\ s.do \in {"accept", "take"} => Fresh(s.nodes, s.revision)
    /\ s.do \in {"take", "note"} => crev[p] <= s.revision
    /\ s.do = "note" => Fresh(lst[p], s.revision)

Receiving == \A p \in Others : ReceiverOK(p)

ListInv ==
  /\ ListTypes /\ Carried /\ NoneAhead /\ Working /\ Turns /\ CoordKnows /\ Receiving

LEMMA Threads ==
  /\ Coord \in List!Member /\ Coord \notin Others /\ Others \subseteq List!Member
  /\ \A n \in List!Member : n = Coord \/ n \in Others
  /\ Worker \subseteq List!Thread
  /\ \A n \in List!Member : List!Window(n) \in Worker
  /\ \A p \in Others : /\ List!Serve(p) \in Worker /\ List!Recv(p) \in List!Thread \ Worker
                       /\ \A n : List!Serve(p) # List!Window(n)
  /\ \A m, n : List!Window(m) = List!Window(n) => m = n
  /\ \A p, q : List!Recv(p) = List!Recv(q) => p = q
  /\ \A th \in List!Thread : th \in Worker \/ \E p \in Others : th = List!Recv(p)
<1>1. /\ Coord \in List!Member /\ Coord \notin Others /\ Others \subseteq List!Member
      /\ \A n \in List!Member : n = Coord \/ n \in Others
  BY DEF List!Member, Others
<1>2. Worker \subseteq List!Thread
  BY DEF Worker, List!Thread, Others
<1>3. /\ \A n \in List!Member : List!Window(n) \in Worker
      /\ \A p \in Others : List!Serve(p) \in Worker
  BY DEF Worker, List!Window, List!Serve
<1>4. \A p \in Others : List!Recv(p) \in List!Thread /\ List!Recv(p) \notin Worker
  BY DEF Worker, List!Recv, List!Thread, Others
<1>5. /\ \A p, n : List!Serve(p) # List!Window(n)
      /\ \A m, n : List!Window(m) = List!Window(n) => m = n
      /\ \A p, q : List!Recv(p) = List!Recv(q) => p = q
  BY DEF List!Serve, List!Window, List!Recv
<1>6. \A th \in List!Thread : th \in Worker \/ \E p \in Others : th = List!Recv(p)
  BY DEF Worker, List!Recv, List!Thread, Others
<1>. QED BY <1>1, <1>2, <1>3, <1>4, <1>5, <1>6

(***************************************************************************)
(* Replacing the first element of a sequence, and dropping it.             *)
(***************************************************************************)
LEMMA FirstReplaced ==
  ASSUME NEW S, NEW q \in Seq(S), q # <<>>, NEW x \in S
  PROVE  LET r == <<x>> \o Tail(q) IN
         /\ r \in Seq(S) /\ r # <<>> /\ Head(r) = x /\ Len(r) = Len(q)
         /\ \A i \in 2 .. Len(q) : r[i] = q[i]
<1>1. Tail(q) \in Seq(S) /\ Len(Tail(q)) = Len(q) - 1 /\ Len(q) \in Nat /\ Len(q) > 0
  BY HeadTailProperties, EmptySeq
<1>2. <<x>> \in Seq(S) /\ Len(<<x>>) = 1 /\ <<x>>[1] = x
  OBVIOUS
<1>3. \A i \in 1 .. Len(q) - 1 : Tail(q)[i] = q[i + 1]
  BY <1>1, HeadTailProperties
<1>4. /\ <<x>> \o Tail(q) \in Seq(S) /\ Len(<<x>> \o Tail(q)) = Len(q)
      /\ \A i \in 1 .. Len(q) : (<<x>> \o Tail(q))[i] = IF i <= 1 THEN <<x>>[i] ELSE Tail(q)[i - 1]
  BY <1>1, <1>2, ConcatProperties
<1>. QED BY <1>1, <1>2, <1>3, <1>4

LEMMA FirstDropped ==
  ASSUME NEW S, NEW q \in Seq(S), q # <<>>
  PROVE  /\ <<>> \o Tail(q) = Tail(q) /\ Tail(q) \in Seq(S)
         /\ Len(Tail(q)) = Len(q) - 1 /\ Len(q) \in Nat \ {0}
         /\ \A i \in 1 .. Len(q) - 1 : Tail(q)[i] = q[i + 1]
         /\ Tail(q) # <<>> => Head(Tail(q)) = q[2] /\ Len(q) >= 2
<1>1. Tail(q) \in Seq(S) /\ Len(Tail(q)) = Len(q) - 1 /\ Len(q) \in Nat \ {0}
  BY HeadTailProperties, EmptySeq
<1>2. \A i \in 1 .. Len(q) - 1 : Tail(q)[i] = q[i + 1]
  BY HeadTailProperties
<1>3. <<>> \o Tail(q) = Tail(q)
  BY <1>1, ConcatEmptySeq
<1>4. Tail(q) # <<>> => Head(Tail(q)) = q[2] /\ Len(q) >= 2
  BY <1>1, <1>2, EmptySeq
<1>. QED BY <1>1, <1>2, <1>3, <1>4

LEMMA ListInit == List!Init => ListInv
<1>. SUFFICES ASSUME List!Init PROVE ListInv
  OBVIOUS
<1>1. ListTypes
  BY DEF List!Init, ListTypes, Others
<1>2. \A p \in Others : up[p] = <<>> /\ down[p] = <<>> /\ crev[p] = 0 /\ lst[p] = {} /\ lst[Coord] = {}
  BY Threads DEF List!Init, Others
<1>6. rev = 0
  BY DEF List!Init
<1>3. \A th \in List!Thread : steps[th] = <<>>
  BY DEF List!Init
<1>7. ASSUME NEW p \in Others PROVE AllFresh(up[p]) /\ AllFresh(down[p]) /\ Fresh(lst[p], crev[p])
  <2>1. up[p] = <<>> /\ down[p] = <<>> /\ crev[p] = 0 /\ lst[Coord] = {}
    BY <1>2
  <2>. QED BY <1>6, <2>1 DEF AllFresh, Fresh
<1>4. Carried
  BY <1>7 DEF Carried
<1>5. NoneAhead /\ Working /\ Turns /\ CoordKnows /\ Receiving
  BY <1>2, <1>3, Threads
     DEF NoneAhead, Working, WorkerOK, Turns, CoordKnows, Receiving, ReceiverOK, List!Init
<1>. QED BY <1>1, <1>4, <1>5 DEF ListInv

(***************************************************************************)
(* What is fresh stays so, unless the revision ceases to stand for the     *)
(* list.                                                                   *)
(***************************************************************************)
Steady == rev <= rev' /\ (Firm' => rev < rev' \/ (Firm /\ lst'[Coord] = lst[Coord]))

FreshNow(l, r) == r <= rev' /\ (Firm' /\ r = rev' => lst'[Coord] \subseteq l)

LEMMA StillFresh ==
  ASSUME ListTypes, ListTypes', Steady
  PROVE  \A l, m \in SUBSET Nat : \A r \in Nat : l \subseteq m /\ Fresh(l, r) => FreshNow(m, r)
<1>. SUFFICES ASSUME NEW l \in SUBSET Nat, NEW m \in SUBSET Nat, NEW r \in Nat,
                     l \subseteq m, Fresh(l, r)
              PROVE  FreshNow(m, r)
  OBVIOUS
<1>1. rev \in Nat /\ rev' \in Nat /\ rev <= rev' /\ r <= rev
  BY DEF ListTypes, Steady, Fresh
<1>2. ASSUME Firm', r = rev' PROVE lst'[Coord] \subseteq m
  <2>1. Firm /\ lst'[Coord] = lst[Coord] /\ r = rev
    BY <1>1, <1>2 DEF Steady
  <2>. QED BY <2>1 DEF Fresh
<1>. QED BY <1>1, <1>2 DEF FreshNow

LEMMA FramesKept ==
  ASSUME ListInv, ListTypes', Steady, NEW p \in Others
  PROVE  /\ up'[p] = up[p] => AllFresh(up[p])'
         /\ down'[p] = down[p] => AllFresh(down[p])'
         /\ up[p] # <<>> /\ up'[p] = Tail(up[p]) => AllFresh(up[p])'
         /\ down[p] # <<>> /\ down'[p] = Tail(down[p]) => AllFresh(down[p])'
<1>1. up[p] \in Seq(Letter) /\ down[p] \in Seq(Letter) /\ AllFresh(up[p]) /\ AllFresh(down[p])
  BY DEF ListInv, ListTypes, Carried
<1>2. \A f \in Letter : Fresh(f.nodes, f.revision) => FreshNow(f.nodes, f.revision)
  BY StillFresh DEF ListInv, Letter
<1>3. ASSUME NEW q \in Seq(Letter), AllFresh(q)
      PROVE  /\ \A i \in 1 .. Len(q) : FreshNow(q[i].nodes, q[i].revision)
             /\ q # <<>> => \A i \in 1 .. Len(Tail(q)) : FreshNow(Tail(q)[i].nodes, Tail(q)[i].revision)
  <2>1. \A i \in 1 .. Len(q) : q[i] \in Letter /\ Fresh(q[i].nodes, q[i].revision)
    BY <1>3 DEF AllFresh
  <2>2. \A i \in 1 .. Len(q) : FreshNow(q[i].nodes, q[i].revision)
    BY <1>2, <2>1
  <2>3. ASSUME q # <<>>, NEW i \in 1 .. Len(Tail(q))
        PROVE  FreshNow(Tail(q)[i].nodes, Tail(q)[i].revision)
    <3>1. Tail(q)[i] = q[i + 1] /\ i + 1 \in 1 .. Len(q)
      BY <2>3, FirstDropped
    <3>. QED BY <2>2, <3>1
  <2>. QED BY <2>2, <2>3
<1>. QED BY <1>1, <1>3 DEF AllFresh, Fresh, FreshNow

(***************************************************************************)
(* When all workers but one are idle.                                      *)
(***************************************************************************)
LEMMA OneWorker ==
  ASSUME NEW th \in Worker
  PROVE  /\ (\A o \in Worker \ {th} : steps[o] = <<>>) =>
              (Uncounted <=> \/ Does(th, {"count"})
                             \/ th = List!Window(Coord) /\ Does(th, {"request", "check", "apply"}))
         /\ (\A o \in Worker \ {th} : steps'[o] = <<>>) =>
              (Uncounted' <=> \/ Does(th, {"count"})'
                              \/ th = List!Window(Coord) /\ Does(th, {"request", "check", "apply"})')
<1>1. List!Window(Coord) \in Worker
  BY Threads
<1>. QED BY <1>1 DEF Uncounted, Does

(***************************************************************************)
(* A worker takes a step, or takes up work while all others are idle.      *)
(***************************************************************************)
LEMMA WorkerMoves ==
  ASSUME ListInv, ListTypes', Steady, NEW th \in Worker,
         \A o \in List!Thread \ {th} : steps'[o] = steps[o],
         calm' => calm /\ \A o \in Worker \ {th} : steps[o] = <<>>,
         \A p \in Others : lst[p] \subseteq lst'[p] /\ crev'[p] = crev[p],
         WorkerOK(th)'
  PROVE  Working' /\ Receiving' /\ (calm' => \A s, t \in Worker : steps'[s] # <<>> /\ steps'[t] # <<>> => s = t)
<1>1. ASSUME NEW o \in Worker \ {th} PROVE WorkerOK(o)'
  <2>1. steps'[o] = steps[o] /\ steps[o] \in Seq(Work) /\ WorkerOK(o)
    BY <1>1, Threads DEF ListInv, ListTypes, Working
  <2>. SUFFICES ASSUME steps[o] # <<>> PROVE WorkerOK(o)'
    BY <2>1 DEF WorkerOK
  <2>2. ~calm'
    BY <1>1
  <2>3. /\ Len(steps[o]) \in Nat /\ Head(steps[o]) \in Work
        /\ \A i \in 2 .. Len(steps[o]) : steps[o][i] \in Work
    BY <2>1
  <2>6. \A s \in Work : /\ Fresh(s.nodes, s.revision) => FreshNow(s.nodes, s.revision)
                        /\ s.revision <= rev => s.revision <= rev'
    <3>1. rev \in Nat /\ rev' \in Nat /\ rev <= rev'
      BY DEF ListInv, ListTypes, Steady
    <3>2. \A s \in Work : s.nodes \in SUBSET Nat /\ s.revision \in Nat
      BY DEF Work
    <3>. QED BY <3>1, <3>2, StillFresh DEF ListInv
  <2>4. HeadOK(o, Head(steps[o]))'
    BY <2>1, <2>3, <2>6 DEF WorkerOK, HeadOK, Fresh, FreshNow
  <2>5. SendsFresh(steps[o])'
    BY <2>1, <2>3, <2>6 DEF WorkerOK, SendsFresh, Fresh, FreshNow
  <2>. QED BY <2>1, <2>2, <2>4, <2>5 DEF WorkerOK, Does
<1>2. ASSUME NEW p \in Others PROVE ReceiverOK(p)'
  <2>1. /\ steps'[List!Recv(p)] = steps[List!Recv(p)] /\ steps[List!Recv(p)] \in Seq(Work)
        /\ ReceiverOK(p)
    BY Threads DEF ListInv, ListTypes, Receiving
  <2>2. /\ lst[p] \in SUBSET Nat /\ lst'[p] \in SUBSET Nat
        /\ lst[p] \subseteq lst'[p] /\ crev'[p] = crev[p]
    BY Threads DEF ListInv, ListTypes
  <2>3. steps[List!Recv(p)] # <<>> => Head(steps[List!Recv(p)]) \in Work
    BY <2>1
  <2>4. \A s \in Work : /\ Fresh(s.nodes, s.revision) => FreshNow(s.nodes, s.revision)
                        /\ Fresh(lst[p], s.revision) => FreshNow(lst'[p], s.revision)
    BY <2>2, StillFresh DEF ListInv, Work
  <2>. QED BY <2>1, <2>2, <2>3, <2>4 DEF ReceiverOK, Fresh, FreshNow
<1>3. calm' => \A o \in Worker \ {th} : steps'[o] = <<>>
  BY Threads
<1>. QED BY <1>1, <1>2, <1>3 DEF Working, Receiving

(***************************************************************************)
(* A thread goes on with another first step, or without one.               *)
(***************************************************************************)
LEMMA GoesOn ==
  ASSUME ListTypes, NEW th \in List!Thread, steps[th] # <<>>, NEW x \in Work,
         List!Continues(th, <<x>>)
  PROVE  /\ steps' \in [List!Thread -> Seq(Work)]
         /\ \A o \in List!Thread \ {th} : steps'[o] = steps[o]
         /\ steps'[th] # <<>> /\ Head(steps'[th]) = x /\ Len(steps'[th]) = Len(steps[th])
         /\ \A i \in 2 .. Len(steps[th]) : steps'[th][i] = steps[th][i]
<1>1. steps[th] \in Seq(Work)
  BY DEF ListTypes
<1>. DEFINE new == <<x>> \o Tail(steps[th])
<1>2. /\ new \in Seq(Work) /\ new # <<>> /\ Head(new) = x /\ Len(new) = Len(steps[th])
      /\ \A i \in 2 .. Len(steps[th]) : new[i] = steps[th][i]
  BY <1>1, FirstReplaced
<1>3. steps' = [steps EXCEPT ![th] = new]
  BY DEF List!Continues
<1>. HIDE DEF new
<1>4. steps'[th] = new
  BY <1>3 DEF ListTypes
<1>. QED BY <1>2, <1>3, <1>4 DEF ListTypes

LEMMA GoesOnWithout ==
  ASSUME ListTypes, NEW th \in List!Thread, steps[th] # <<>>, List!Continues(th, <<>>)
  PROVE  /\ steps' \in [List!Thread -> Seq(Work)]
         /\ \A o \in List!Thread \ {th} : steps'[o] = steps[o]
         /\ steps'[th] = Tail(steps[th])
<1>1. steps[th] \in Seq(Work)
  BY DEF ListTypes
<1>2. <<>> \o Tail(steps[th]) = Tail(steps[th]) /\ Tail(steps[th]) \in Seq(Work)
  BY <1>1, FirstDropped
<1>3. steps' = [steps EXCEPT ![th] = Tail(steps[th])]
  BY <1>2 DEF List!Continues
<1>. QED BY <1>2, <1>3 DEF ListTypes

LEMMA SendsStayFresh ==
  ASSUME ListInv, ListTypes', Steady, NEW th \in Worker, steps[th] # <<>>,
         Len(steps'[th]) = Len(steps[th]),
         \A i \in 2 .. Len(steps[th]) : steps'[th][i] = steps[th][i]
  PROVE  SendsFresh(steps[th])'
<1>1. steps[th] \in Seq(Work) /\ SendsFresh(steps[th])
  BY Threads DEF ListInv, ListTypes, Working, WorkerOK
<1>2. \A i \in 2 .. Len(steps[th]) : steps[th][i] \in Work
  BY <1>1
<1>3. \A s \in Work : Fresh(s.nodes, s.revision) => FreshNow(s.nodes, s.revision)
  BY StillFresh DEF ListInv, Work
<1>. QED BY <1>1, <1>2, <1>3 DEF SendsFresh, Fresh, FreshNow

LEMMA SendsAreLeft ==
  ASSUME ListInv, ListTypes', Steady, NEW th \in Worker, steps[th] # <<>>,
         steps'[th] = Tail(steps[th])
  PROVE  WorkerOK(th)'
<1>1. steps[th] \in Seq(Work) /\ SendsFresh(steps[th])
  BY Threads DEF ListInv, ListTypes, Working, WorkerOK
<1>2. \A s \in Work : Fresh(s.nodes, s.revision) => FreshNow(s.nodes, s.revision)
  BY StillFresh DEF ListInv, Work
<1>3. \A i \in 2 .. Len(steps[th]) :
        /\ steps[th][i] \in Work /\ steps[th][i].do = "send" /\ steps[th][i].node \in Others
        /\ FreshNow(steps[th][i].nodes, steps[th][i].revision)
  BY <1>1, <1>2 DEF SendsFresh
<1>. DEFINE q == steps[th]
            r == Tail(q)
<1>4. /\ Len(q) \in Nat /\ Len(r) = Len(q) - 1
      /\ \A i \in 1 .. Len(r) : r[i] = q[i + 1] /\ i + 1 \in 2 .. Len(q)
      /\ r # <<>> => Head(r) = q[2] /\ 2 \in 2 .. Len(q)
  BY <1>1, FirstDropped
<1>. SUFFICES ASSUME r # <<>> PROVE WorkerOK(th)'
  BY DEF WorkerOK
<1>5. /\ Head(r) \in Work /\ Head(r).do = "send" /\ Head(r).node \in Others
      /\ FreshNow(Head(r).nodes, Head(r).revision)
  BY <1>3, <1>4
<1>6. HeadOK(th, Head(steps[th]))' /\ InTurn(Head(steps[th]))'
  BY <1>5 DEF HeadOK, InTurn, Fresh, FreshNow
<1>7. SendsFresh(steps[th])'
  BY <1>3, <1>4 DEF SendsFresh, Fresh, FreshNow
<1>. QED BY <1>5, <1>6, <1>7 DEF WorkerOK, Does

(***************************************************************************)
(* What is known of a thread that runs a step.                             *)
(***************************************************************************)
LEMMA Running ==
  ASSUME ListInv, NEW th \in List!Thread, NEW k, List!Runs(th, k)
  PROVE  /\ steps[th] # <<>> /\ Head(steps[th]) \in Work /\ Head(steps[th]).do = k
         /\ steps[th][1] = Head(steps[th])
         /\ k \notin {"accept", "take", "note"} => th \in Worker
         /\ th \notin Worker => \E p \in Others : th = List!Recv(p) /\ ReceiverOK(p)
<1>1. /\ steps[th] # <<>> /\ steps[th] \in Seq(Work) /\ steps[th][1] = Head(steps[th])
      /\ Head(steps[th]).do = k
  BY DEF List!Runs, ListInv, ListTypes
<1>2. Head(steps[th]) \in Work
  BY <1>1
<1>3. th \notin Worker => \E p \in Others : th = List!Recv(p) /\ ReceiverOK(p)
  BY Threads DEF ListInv, Receiving
<1>. QED BY <1>1, <1>2, <1>3 DEF ReceiverOK

LEMMA WorkerRuns ==
  ASSUME ListInv, NEW th \in Worker, NEW k, List!Runs(th, k)
  PROVE  /\ HeadOK(th, Head(steps[th])) /\ SendsFresh(steps[th])
         /\ k \in {"request", "check", "apply", "count", "build"} => Len(steps[th]) = 1
         /\ calm => /\ InTurn(Head(steps[th]))
                    /\ \A o \in Worker \ {th} : steps[o] = <<>>
                    /\ \A p \in Others : up[p] = <<>>
                    /\ Uncounted <=> \/ k = "count"
                                     \/ th = List!Window(Coord) /\ k \in {"request", "check", "apply"}
                    /\ k \notin OwnBroadcast => crev[Coord] = rev
<1>1. th \in List!Thread
  BY Threads
<1>2. steps[th] # <<>> /\ Head(steps[th]).do = k
  BY <1>1, Running
<1>3. WorkerOK(th)
  BY DEF ListInv, Working
<1>4. ASSUME calm
      PROVE  /\ \A o \in Worker \ {th} : steps[o] = <<>>
             /\ \A p \in Others : up[p] = <<>>
  BY <1>2, <1>4 DEF ListInv, Turns
<1>5. ASSUME calm
      PROVE  /\ Uncounted <=> \/ k = "count"
                              \/ th = List!Window(Coord) /\ k \in {"request", "check", "apply"}
             /\ k \notin OwnBroadcast => crev[Coord] = rev
  BY <1>2, <1>4, <1>5, OneWorker DEF Does, ListInv, CoordKnows
<1>. QED BY <1>2, <1>3, <1>4, <1>5 DEF WorkerOK, Does

(***************************************************************************)
(* A worker's step that sends no request.                                  *)
(***************************************************************************)
LEMMA WorkerStepInv ==
  ASSUME ListInv, ListTypes', Steady, NEW th \in Worker, steps[th] # <<>>,
         \A o \in List!Thread \ {th} : steps'[o] = steps[o],
         WorkerOK(th)', calm' => calm,
         up' = up, \A p \in Others : AllFresh(down[p])',
         \A p \in Others : lst'[p] = lst[p] /\ crev'[p] = crev[p],
         crev'[Coord] <= rev',
         calm' => Does(th, OwnBroadcast)' \/ crev'[Coord] = rev'
  PROVE  ListInv'
<1>1. calm' => /\ calm
               /\ \A o \in Worker \ {th} : steps[o] = <<>>
               /\ \A p \in Others : up[p] = <<>>
  BY DEF ListInv, Turns
<1>2. /\ Working' /\ Receiving'
      /\ calm' => \A s, t \in Worker : steps'[s] # <<>> /\ steps'[t] # <<>> => s = t
  BY <1>1, WorkerMoves
<1>3. Turns'
  BY <1>1, <1>2 DEF Turns
<1>4. ASSUME NEW p \in Others PROVE AllFresh(up[p])' /\ Fresh(lst[p], crev[p])'
  <2>1. lst[p] \in SUBSET Nat /\ crev[p] \in Nat /\ Fresh(lst[p], crev[p])
    BY Threads DEF ListInv, ListTypes, Carried
  <2>2. FreshNow(lst[p], crev[p])
    BY <2>1, StillFresh DEF ListInv
  <2>. QED BY <2>2, FramesKept DEF Fresh, FreshNow
<1>5. Carried'
  BY <1>4 DEF Carried
<1>6. NoneAhead'
  BY <1>4, Threads DEF NoneAhead, Fresh
<1>7. CoordKnows'
  BY DEF CoordKnows
<1>. QED BY <1>2, <1>3, <1>5, <1>6, <1>7 DEF ListInv

(***************************************************************************)
(* A step of a peer's receive thread.                                      *)
(***************************************************************************)
LEMMA ReceiverStepInv ==
  ASSUME ListInv, ListTypes', NEW p \in Others,
         \A o \in List!Thread \ {List!Recv(p)} : steps'[o] = steps[o],
         calm' => calm /\ (steps[List!Window(p)] = <<>> \/ steps[List!Recv(p)] # <<>>),
         up' = up, rev' = rev,
         \A o \in List!Member \ {p} : lst'[o] = lst[o] /\ crev'[o] = crev[o],
         Steady => \A o \in Others : AllFresh(down[o])',
         Steady => Fresh(lst[p], crev[p])' /\ ReceiverOK(p)'
  PROVE  ListInv' /\ Steady
<1>. DEFINE me == List!Recv(p)
<1>1. \A th \in Worker : steps'[th] = steps[th]
  BY Threads
<1>2. Uncounted' <=> Uncounted
  BY <1>1, Threads DEF Uncounted, Does
<1>3. Steady
  <2>1. rev \in Nat /\ lst'[Coord] = lst[Coord]
    BY Threads DEF ListInv, ListTypes
  <2>. QED BY <1>2, <2>1 DEF Steady, Firm
<1>4. \A l \in SUBSET Nat : \A r \in Nat : Fresh(l, r) => FreshNow(l, r)
  BY <1>3, StillFresh DEF ListInv
<1>5. ASSUME NEW th \in Worker PROVE WorkerOK(th)'
  <2>1. steps'[th] = steps[th] /\ steps[th] \in Seq(Work) /\ WorkerOK(th)
    BY <1>1, Threads DEF ListInv, ListTypes, Working
  <2>. SUFFICES ASSUME steps[th] # <<>> PROVE WorkerOK(th)'
    BY <2>1 DEF WorkerOK
  <2>2. /\ Len(steps[th]) \in Nat /\ Head(steps[th]) \in Work
        /\ \A i \in 2 .. Len(steps[th]) : steps[th][i] \in Work
    BY <2>1
  <2>3. \A s \in Work : /\ s.nodes \in SUBSET Nat /\ s.revision \in Nat
                        /\ Fresh(s.nodes, s.revision) => FreshNow(s.nodes, s.revision)
    BY <1>4 DEF Work
  <2>4. HeadOK(th, Head(steps[th]))' /\ SendsFresh(steps[th])'
    BY <2>1, <2>2, <2>3 DEF WorkerOK, HeadOK, SendsFresh, Fresh, FreshNow
  <2>5. ASSUME calm' PROVE InTurn(Head(steps[th]))'
    <3>. DEFINE s == Head(steps[th])
    <3>1. calm /\ InTurn(s) /\ s \in Work /\ s.node \in List!Member
      BY <2>1, <2>2, <2>5 DEF WorkerOK, Work
    <3>2. s.do = "request" => th = List!Window(s.node)
      BY <2>1 DEF WorkerOK, HeadOK
    <3>3. s.do = "request" /\ s.node # Coord => steps[List!Recv(s.node)] = <<>> /\ s.node # p
      BY <2>5, <3>1, <3>2 DEF InTurn
    <3>4. s.do = "request" /\ s.node # Coord =>
             steps'[List!Recv(s.node)] = <<>> /\ crev'[s.node] = crev[s.node]
      BY <3>1, <3>3, Threads
    <3>5. lst'[Coord] = lst[Coord]
      BY Threads
    <3>6. \A n \in Others : Fresh(s.nodes, crev[n]) => FreshNow(s.nodes, crev[n])
      BY <1>4, <2>3, <3>1, Threads DEF ListInv, ListTypes
    <3>7. s.node # Coord => s.node \in Others
      BY <3>1, Threads
    <3>. QED BY <2>1, <2>3, <3>1, <3>4, <3>5, <3>6, <3>7 DEF InTurn, Fresh, FreshNow
  <2>. QED BY <2>1, <2>4, <2>5 DEF WorkerOK, Does
<1>6. ASSUME NEW o \in Others \ {p} PROVE ReceiverOK(o)' /\ Fresh(lst[o], crev[o])'
  <2>1. /\ steps'[List!Recv(o)] = steps[List!Recv(o)] /\ steps[List!Recv(o)] \in Seq(Work)
        /\ ReceiverOK(o) /\ Fresh(lst[o], crev[o])
        /\ lst[o] \in SUBSET Nat /\ crev[o] \in Nat /\ lst'[o] = lst[o] /\ crev'[o] = crev[o]
    BY Threads DEF ListInv, ListTypes, Receiving, Carried
  <2>2. steps[List!Recv(o)] # <<>> => Head(steps[List!Recv(o)]) \in Work
    BY <2>1
  <2>3. \A s \in Work : /\ Fresh(s.nodes, s.revision) => FreshNow(s.nodes, s.revision)
                        /\ Fresh(lst[o], s.revision) => FreshNow(lst[o], s.revision)
    BY <1>4, <2>1 DEF Work
  <2>4. FreshNow(lst[o], crev[o])
    BY <1>4, <2>1
  <2>. QED BY <2>1, <2>2, <2>3, <2>4 DEF ReceiverOK, Fresh, FreshNow
<1>7. Carried' /\ Receiving'
  BY <1>3, <1>6, FramesKept DEF Carried, Receiving
<1>8. NoneAhead'
  BY <1>3, <1>6, Threads DEF NoneAhead, Fresh, ListInv
<1>9. Turns' /\ CoordKnows'
  BY <1>1, Threads DEF Turns, CoordKnows, ListInv, Does
<1>. QED BY <1>3, <1>5, <1>7, <1>8, <1>9 DEF ListInv, Working

(***************************************************************************)
(* What a step may do to the lists and the revisions of the clients.       *)
(***************************************************************************)
MovesOn ==
  /\ calm' => lst[Coord] \subseteq lst'[Coord]
  /\ \A p \in Others : crev[p] <= crev'[p] /\ crev'[p] <= rev

LEMMA NobodyMoves ==
  ASSUME ListInv, lst'[Coord] = lst[Coord], \A p \in Others : crev'[p] = crev[p]
  PROVE  MovesOn
BY Threads DEF MovesOn, ListInv, ListTypes, NoneAhead

LEMMA SaveInv ==
  ASSUME ListInv, NEW n \in List!Member, List!Save(n)
  PROVE  ListInv' /\ MovesOn
<1>. DEFINE th  == List!Window(n)
            new == lst[n] \cup {edits + 1}
            x   == List!Do("request", n, new, 0)
<1>1. th \in Worker /\ th \in List!Thread
  BY Threads
<1>2. steps[th] = <<>> /\ steps' = [steps EXCEPT ![th] = <<x>>]
  BY DEF List!Save, List!Starts
<1>3. lst' = [lst EXCEPT ![n] = new] /\ edits' = edits + 1
      /\ UNCHANGED <<crev, rev, up, down>>
  BY DEF List!Save
<1>4. new \in SUBSET Nat /\ x \in Work
  BY DEF ListInv, ListTypes, Work, List!Do, List!Kind
<1>5. calm' => /\ calm
               /\ \A o \in Worker : steps[o] = <<>>
               /\ \A p \in Others : up[p] = <<>>
               /\ n \in Others => steps[List!Recv(n)] = <<>>
  <2>. SUFFICES ASSUME calm'
                PROVE  /\ calm
                       /\ \A o \in Worker : steps[o] = <<>>
                       /\ \A p \in Others : up[p] = <<>>
                       /\ n \in Others => steps[List!Recv(n)] = <<>>
    OBVIOUS
  <2>1. calm /\ ~List!Requested /\ (n \in Others => steps[List!Recv(n)] = <<>>)
    BY DEF List!Save, Others
  <2>2. /\ \A p \in Others : up[p] = <<>> /\ steps[List!Serve(p)] = <<>>
        /\ \A m \in List!Member : steps[List!Window(m)] = <<>>
    BY <2>1 DEF List!Requested, Others
  <2>3. \A o \in Worker : steps[o] = <<>>
    BY <2>2 DEF Worker, List!Window, List!Serve
  <2>. QED BY <2>1, <2>2, <2>3
<1>6. calm' \in BOOLEAN
  BY DEF List!Save, ListInv, ListTypes
<1>. HIDE DEF x, new
<1>7. <<x>> \in Seq(Work) /\ Head(<<x>>) = x /\ <<x>> # <<>> /\ Len(<<x>>) = 1
  BY <1>4
<1>8. ListTypes'
  BY <1>1, <1>2, <1>3, <1>4, <1>6, <1>7 DEF ListInv, ListTypes
<1>9. steps'[th] = <<x>> /\ \A o \in List!Thread \ {th} : steps'[o] = steps[o]
  BY <1>1, <1>2 DEF ListInv, ListTypes
<1>10. /\ lst'[n] = new /\ lst[n] \subseteq new
       /\ \A m \in List!Member \ {n} : lst'[m] = lst[m]
  BY <1>3 DEF ListInv, ListTypes, new
<1>11. x.do = "request" /\ x.node = n /\ x.nodes = new
  BY DEF x, List!Do
<1>12. calm' => (Uncounted' <=> n = Coord) /\ ~Uncounted
  <2>1. calm' => \A o \in Worker \ {th} : steps'[o] = <<>>
    BY <1>5, <1>9, Threads
  <2>2. Does(th, {"request", "check", "apply"})' /\ ~Does(th, {"count"})'
    BY <1>7, <1>9, <1>11 DEF Does
  <2>. QED BY <1>1, <1>5, <2>1, <2>2, OneWorker, Threads DEF Uncounted, Does
<1>13. Steady
  BY <1>3, <1>5, <1>10, <1>12, Threads DEF Steady, Firm, ListInv, ListTypes
<1>14. \A p \in Others : FreshNow(lst'[p], crev[p])
  <2>1. \A p \in Others : /\ lst[p] \in SUBSET Nat /\ lst'[p] \in SUBSET Nat /\ lst[p] \subseteq lst'[p]
                          /\ crev[p] \in Nat /\ Fresh(lst[p], crev[p])
    <3>. SUFFICES ASSUME NEW p \in Others
                  PROVE  /\ lst[p] \in SUBSET Nat /\ lst'[p] \in SUBSET Nat /\ lst[p] \subseteq lst'[p]
                         /\ crev[p] \in Nat /\ Fresh(lst[p], crev[p])
      OBVIOUS
    <3>1. p \in List!Member
      BY Threads
    <3>2. lst[p] \in SUBSET Nat /\ lst'[p] \in SUBSET Nat /\ crev[p] \in Nat
      BY <1>8, <3>1 DEF ListInv, ListTypes
    <3>. QED BY <1>10, <3>1, <3>2 DEF ListInv, Carried
  <2>. QED BY <1>8, <1>13, <2>1, StillFresh DEF ListInv
<1>15. WorkerOK(th)'
  <2>1. Head(steps'[th]) = x /\ Len(steps'[th]) = 1
    BY <1>7, <1>9
  <2>2. HeadOK(th, x) /\ HeadOK(th, Head(steps[th]))'
    BY <1>11, <2>1 DEF HeadOK
  <2>3. ASSUME calm' PROVE InTurn(Head(steps[th]))'
    <3>1. CASE n = Coord
      BY <1>10, <1>11, <2>1, <3>1 DEF InTurn
    <3>2. CASE n # Coord
      <4>1. n \in Others /\ steps[List!Recv(n)] = <<>>
        BY <1>5, <2>3, <3>2, Threads
      <4>2. steps'[List!Recv(n)] = <<>>
        BY <1>1, <1>9, <4>1, Threads
      <4>3. FreshNow(new, crev[n])
        BY <1>10, <1>14, <4>1
      <4>. QED BY <1>3, <1>11, <2>1, <3>2, <4>2, <4>3 DEF InTurn, Fresh, FreshNow
    <3>. QED BY <3>1, <3>2
  <2>4. SendsFresh(steps[th])'
    BY <2>1 DEF SendsFresh
  <2>. QED BY <2>1, <2>2, <2>3, <2>4 DEF WorkerOK
<1>16. \A p \in Others : lst[p] \subseteq lst'[p] /\ crev'[p] = crev[p]
  BY <1>3, <1>10, Threads
<1>17. Working' /\ Receiving' /\ (calm' => \A s, t \in Worker : steps'[s] # <<>> /\ steps'[t] # <<>> => s = t)
  BY <1>1, <1>5, <1>8, <1>9, <1>13, <1>15, <1>16, WorkerMoves
<1>18. Turns'
  BY <1>3, <1>5, <1>17 DEF Turns
<1>19. Carried'
  BY <1>3, <1>8, <1>13, <1>14, FramesKept DEF Carried, Fresh, FreshNow
<1>20. NoneAhead' /\ CoordKnows'
  BY <1>3, <1>5 DEF NoneAhead, CoordKnows, ListInv, Does
<1>21. MovesOn
  BY <1>3, <1>10, Threads DEF MovesOn, ListInv, ListTypes, NoneAhead
<1>. QED BY <1>8, <1>17, <1>18, <1>19, <1>20, <1>21 DEF ListInv

LEMMA RequestInv ==
  ASSUME ListInv, NEW th \in List!Thread, List!Request(th)
  PROVE  ListInv' /\ MovesOn
<1>. DEFINE s == Head(steps[th])
<1>1. List!Runs(th, "request") /\ UNCHANGED <<edits, lst, crev, rev, down, calm>>
  BY DEF List!Request
<1>2. th \in Worker /\ steps[th] # <<>> /\ s \in Work /\ s.do = "request" /\ steps[th][1] = s
  BY <1>1, Running
<1>9. PICK n \in List!Member : n = s.node
  BY <1>2 DEF Work
<1>3. th = List!Window(n) /\ Len(steps[th]) = 1
  BY <1>1, <1>2, <1>9, WorkerRuns DEF HeadOK
<1>4. crev[n] \in Nat /\ crev[n] <= rev
  BY <1>3 DEF ListInv, ListTypes, NoneAhead
<1>5. calm => /\ InTurn(s) /\ crev[Coord] = rev
              /\ \A o \in Worker \ {th} : steps[o] = <<>>
              /\ \A p \in Others : up[p] = <<>>
              /\ Uncounted <=> th = List!Window(Coord)
  BY <1>1, <1>2, WorkerRuns DEF OwnBroadcast
<1>6. MovesOn
  BY <1>1, NobodyMoves
<1>7. CASE n = Coord
  <2>. DEFINE x == List!Do("check", n, s.nodes, crev[n])
  <2>1. List!Continues(th, <<x>>) /\ up' = up
    BY <1>2, <1>7, <1>9, Threads DEF List!Request
  <2>2. x \in Work /\ x.do = "check" /\ x.node = Coord /\ x.nodes = s.nodes /\ x.revision = crev[Coord]
    BY <1>2, <1>3, <1>4, <1>7 DEF List!Do, Work, List!Kind
  <2>. HIDE DEF x
  <2>3. /\ steps' \in [List!Thread -> Seq(Work)]
        /\ \A o \in List!Thread \ {th} : steps'[o] = steps[o]
        /\ steps'[th] # <<>> /\ Head(steps'[th]) = x /\ Len(steps'[th]) = Len(steps[th])
        /\ \A i \in 2 .. Len(steps[th]) : steps'[th][i] = steps[th][i]
    BY <1>2, <2>1, <2>2, GoesOn DEF ListInv
  <2>4. ListTypes'
    BY <1>1, <2>1, <2>3 DEF ListInv, ListTypes
  <2>5. Uncounted'
    BY <1>3, <1>7, <2>2, <2>3 DEF Uncounted, Does
  <2>6. Steady
    BY <1>1, <2>5 DEF Steady, Firm, ListInv, ListTypes
  <2>7. WorkerOK(th)'
    <3>1. HeadOK(th, Head(steps[th]))'
      BY <1>1, <1>3, <1>4, <1>7, <2>2, <2>3 DEF HeadOK
    <3>2. calm' => InTurn(Head(steps[th]))'
      BY <1>1, <1>2, <1>5, <1>7, <1>9, <2>2, <2>3 DEF InTurn
    <3>. QED BY <1>2, <1>3, <2>3, <2>4, <2>6, <3>1, <3>2, SendsStayFresh DEF WorkerOK
  <2>. QED BY <1>1, <1>2, <1>4, <1>5, <1>6, <1>7, <2>1, <2>3, <2>4, <2>6, <2>7, FramesKept, WorkerStepInv
<1>8. CASE n # Coord
  <2>. DEFINE f == [nodes |-> s.nodes, revision |-> crev[n]]
  <2>1. /\ n \in Others /\ th # List!Window(Coord)
        /\ List!Continues(th, <<>>) /\ up' = [up EXCEPT ![n] = Append(@, f)]
    BY <1>2, <1>3, <1>8, <1>9, Threads DEF List!Request
  <2>2. f \in Letter /\ f.nodes = s.nodes /\ f.revision = crev[n]
    BY <1>2, <1>4 DEF Letter, Work
  <2>. HIDE DEF f
  <2>3. /\ steps' \in [List!Thread -> Seq(Work)]
        /\ \A o \in List!Thread \ {th} : steps'[o] = steps[o]
        /\ steps'[th] = Tail(steps[th])
    BY <1>2, <2>1, GoesOnWithout DEF ListInv
  <2>4. steps'[th] = <<>>
    <3>1. steps[th] \in Seq(Work)
      BY <1>2, Threads DEF ListInv, ListTypes
    <3>2. Tail(steps[th]) \in Seq(Work) /\ Len(Tail(steps[th])) = 0
      BY <1>2, <1>3, <3>1, FirstDropped
    <3>. QED BY <2>3, <3>2, EmptySeq
  <2>5. up[n] \in Seq(Letter) /\ up'[n] = Append(up[n], f) /\ \A p \in Others \ {n} : up'[p] = up[p]
    BY <2>1 DEF ListInv, ListTypes
  <2>6. ListTypes'
    BY <1>1, <2>1, <2>2, <2>3 DEF ListInv, ListTypes
  <2>7. calm => ~Uncounted /\ ~Uncounted' /\ \A o \in Worker : steps'[o] = <<>>
    BY <1>2, <1>5, <2>1, <2>3, <2>4, Threads DEF Uncounted, Does
  <2>8. Steady
    BY <1>1, <2>7 DEF Steady, Firm, ListInv, ListTypes
  <2>9. FreshNow(f.nodes, f.revision)
    <3>1. ~Firm' \/ Fresh(s.nodes, crev[n])
      BY <1>1, <1>2, <1>5, <1>8, <1>9 DEF Firm, InTurn
    <3>2. CASE ~Firm'
      BY <1>1, <1>4, <2>2, <3>2 DEF FreshNow
    <3>3. CASE Fresh(s.nodes, crev[n])
      BY <1>2, <1>4, <2>2, <2>6, <2>8, <3>3, StillFresh DEF ListInv, Work
    <3>. QED BY <3>1, <3>2, <3>3
  <2>10. AllFresh(up[n])'
    <3>1. \A i \in 1 .. Len(up[n]) : up[n][i] \in Letter /\ FreshNow(up[n][i].nodes, up[n][i].revision)
      <4>1. \A g \in Letter : Fresh(g.nodes, g.revision) => FreshNow(g.nodes, g.revision)
        BY <2>6, <2>8, StillFresh DEF ListInv, Letter
      <4>2. AllFresh(up[n])
        BY <2>1 DEF ListInv, Carried
      <4>. QED BY <2>5, <4>1, <4>2 DEF AllFresh
    <3>2. \A i \in 1 .. Len(up'[n]) : FreshNow(up'[n][i].nodes, up'[n][i].revision)
      BY <2>2, <2>5, <2>9, <3>1
    <3>. QED BY <3>2 DEF AllFresh, Fresh, FreshNow
  <2>11. \A p \in Others : AllFresh(up[p])' /\ AllFresh(down[p])'
    BY <1>1, <2>5, <2>6, <2>8, <2>10, FramesKept
  <2>12. \A p \in Others : FreshNow(lst[p], crev[p])
    BY <2>6, <2>8, StillFresh, Threads DEF ListInv, ListTypes, Carried
  <2>13. Carried'
    BY <1>1, <2>11, <2>12 DEF Carried, Fresh, FreshNow
  <2>14. Working' /\ Receiving'
    BY <1>1, <1>2, <1>5, <2>3, <2>4, <2>6, <2>8, WorkerMoves DEF WorkerOK
  <2>15. Turns'
    <3>. SUFFICES ASSUME calm' PROVE Turns'
      BY DEF Turns
    <3>1. /\ \A o \in Worker : steps'[o] = <<>>
          /\ \A p \in Others \ {n} : up'[p] = <<>>
          /\ Len(up'[n]) = 1
      BY <1>1, <1>5, <2>1, <2>5, <2>7
    <3>. QED BY <2>1, <3>1 DEF Turns
  <2>16. NoneAhead' /\ CoordKnows'
    BY <1>1, <1>5 DEF NoneAhead, CoordKnows, ListInv
  <2>. QED BY <1>6, <2>6, <2>13, <2>14, <2>15, <2>16 DEF ListInv
<1>. QED BY <1>7, <1>8

LEMMA ReceiveRequestInv ==
  ASSUME ListInv, NEW p \in Others, List!ReceiveRequest(p)
  PROVE  ListInv' /\ MovesOn
<1>. DEFINE th == List!Serve(p)
            f  == Head(up[p])
            x  == List!Do("check", p, f.nodes, f.revision)
<1>1. /\ up[p] # <<>> /\ up' = [up EXCEPT ![p] = Tail(@)]
      /\ steps[th] = <<>> /\ steps' = [steps EXCEPT ![th] = <<x>>]
      /\ UNCHANGED <<edits, lst, crev, rev, down, calm>>
  BY DEF List!ReceiveRequest, List!Starts
<1>2. th \in Worker /\ th \in List!Thread /\ p \in List!Member /\ p # Coord /\ th # List!Window(Coord)
  BY Threads
<1>3. up[p] \in Seq(Letter) /\ f \in Letter /\ Fresh(f.nodes, f.revision)
  <2>1. up[p] \in Seq(Letter) /\ AllFresh(up[p])
    BY DEF ListInv, ListTypes, Carried
  <2>2. f \in Letter /\ f = up[p][1] /\ 1 \in 1 .. Len(up[p])
    BY <1>1, <2>1, EmptySeq
  <2>. QED BY <2>1, <2>2 DEF AllFresh
<1>4. x \in Work /\ x.do = "check" /\ x.node = p /\ x.nodes = f.nodes /\ x.revision = f.revision
  BY <1>2, <1>3 DEF List!Do, Work, List!Kind, Letter
<1>. HIDE DEF x
<1>5. <<x>> \in Seq(Work) /\ Head(<<x>>) = x /\ <<x>> # <<>> /\ Len(<<x>>) = 1
  BY <1>4
<1>6. steps'[th] = <<x>> /\ \A o \in List!Thread \ {th} : steps'[o] = steps[o]
  BY <1>1, <1>2 DEF ListInv, ListTypes
<1>7. Tail(up[p]) \in Seq(Letter) /\ up'[p] = Tail(up[p]) /\ \A q \in Others \ {p} : up'[q] = up[q]
  BY <1>1, <1>3 DEF ListInv, ListTypes
<1>8. ListTypes'
  BY <1>1, <1>2, <1>5, <1>7 DEF ListInv, ListTypes
<1>9. calm => /\ \A o \in Worker : steps[o] = <<>>
              /\ \A q \in Others : up'[q] = <<>>
              /\ crev[Coord] = rev
  <2>1. ASSUME calm
        PROVE  /\ \A o \in Worker : steps[o] = <<>>
               /\ \A q \in Others \ {p} : up[q] = <<>>
               /\ Len(up[p]) = 1
    BY <1>1, <2>1 DEF ListInv, Turns
  <2>2. ASSUME calm PROVE Tail(up[p]) = <<>>
    BY <1>1, <1>3, <2>1, <2>2, FirstDropped, EmptySeq
  <2>3. ASSUME calm PROVE crev[Coord] = rev
    BY <2>1, <2>3 DEF ListInv, CoordKnows, Does
  <2>. QED BY <1>7, <2>1, <2>2, <2>3
<1>10. calm => ~Uncounted
  BY <1>9, Threads DEF Uncounted, Does
<1>11. Steady
  BY <1>1, <1>10 DEF Steady, Firm, ListInv, ListTypes
<1>12. FreshNow(f.nodes, f.revision)
  BY <1>3, <1>8, <1>11, StillFresh DEF ListInv, Letter
<1>13. WorkerOK(th)'
  <2>1. Head(steps'[th]) = x /\ Len(steps'[th]) = 1
    BY <1>5, <1>6
  <2>2. HeadOK(th, Head(steps[th]))' /\ InTurn(Head(steps[th]))'
    BY <1>2, <1>4, <1>12, <2>1 DEF HeadOK, InTurn, Fresh, FreshNow
  <2>3. SendsFresh(steps[th])'
    BY <2>1 DEF SendsFresh
  <2>. QED BY <2>1, <2>2, <2>3 DEF WorkerOK
<1>14. Working' /\ Receiving' /\ (calm' => \A s, t \in Worker : steps'[s] # <<>> /\ steps'[t] # <<>> => s = t)
  BY <1>1, <1>2, <1>6, <1>8, <1>9, <1>11, <1>13, WorkerMoves
<1>15. Turns'
  BY <1>1, <1>9, <1>14 DEF Turns
<1>16. \A q \in Others : AllFresh(up[q])' /\ AllFresh(down[q])'
  BY <1>1, <1>7, <1>8, <1>11, FramesKept
<1>17. \A q \in Others : FreshNow(lst[q], crev[q])
  BY <1>8, <1>11, StillFresh, Threads DEF ListInv, ListTypes, Carried
<1>18. Carried'
  BY <1>1, <1>16, <1>17 DEF Carried, Fresh, FreshNow
<1>19. NoneAhead' /\ CoordKnows'
  BY <1>1, <1>9 DEF NoneAhead, CoordKnows, ListInv
<1>20. MovesOn
  BY <1>1, NobodyMoves
<1>. QED BY <1>8, <1>14, <1>15, <1>18, <1>19, <1>20 DEF ListInv

(***************************************************************************)
(* A worker goes on with another first step, or with the sends it has left *)
(***************************************************************************)
LEMMA GoesOnInv ==
  ASSUME ListInv, NEW th \in Worker, steps[th] # <<>>, NEW x \in Work,
         List!Continues(th, <<x>>), Steady,
         UNCHANGED <<edits, up, down, calm>>,
         lst' \in [List!Member -> SUBSET Nat], crev' \in [List!Member -> Nat], rev' \in Nat,
         \A p \in Others : lst'[p] = lst[p] /\ crev'[p] = crev[p],
         crev'[Coord] <= rev',
         HeadOK(th, x)', calm => InTurn(x)',
         x.do \in {"request", "check", "apply", "count", "build"} => Len(steps[th]) = 1,
         calm => x.do \in OwnBroadcast \/ crev'[Coord] = rev'
  PROVE  ListInv'
<1>1. th \in List!Thread
  BY Threads
<1>2. /\ steps' \in [List!Thread -> Seq(Work)]
      /\ \A o \in List!Thread \ {th} : steps'[o] = steps[o]
      /\ steps'[th] # <<>> /\ Head(steps'[th]) = x /\ Len(steps'[th]) = Len(steps[th])
      /\ \A i \in 2 .. Len(steps[th]) : steps'[th][i] = steps[th][i]
  BY <1>1, GoesOn DEF ListInv
<1>3. ListTypes'
  BY <1>2 DEF ListInv, ListTypes
<1>4. SendsFresh(steps[th])'
  BY <1>2, <1>3, SendsStayFresh
<1>5. HeadOK(th, Head(steps[th]))' /\ (calm' => InTurn(Head(steps[th]))')
  BY <1>2 DEF HeadOK, InTurn, Fresh
<1>6. WorkerOK(th)'
  BY <1>2, <1>4, <1>5 DEF WorkerOK, Does
<1>7. \A p \in Others : AllFresh(down[p])'
  BY <1>3, FramesKept
<1>8. calm' => Does(th, OwnBroadcast)' \/ crev'[Coord] = rev'
  BY <1>2 DEF Does
<1>. QED BY <1>2, <1>3, <1>6, <1>7, <1>8, WorkerStepInv

LEMMA SendsLeftInv ==
  ASSUME ListInv, NEW th \in Worker, steps[th] # <<>>,
         List!Continues(th, <<>>), Steady,
         UNCHANGED <<edits, up>>, calm' \in BOOLEAN, calm' => calm,
         lst' \in [List!Member -> SUBSET Nat], crev' \in [List!Member -> Nat], rev' \in Nat,
         down' \in [Others -> Seq(Letter)], ListTypes' => \A p \in Others : AllFresh(down[p])',
         \A p \in Others : lst'[p] = lst[p] /\ crev'[p] = crev[p],
         crev'[Coord] <= rev',
         calm' => crev'[Coord] = rev'
  PROVE  ListInv'
<1>1. th \in List!Thread
  BY Threads
<1>2. /\ steps' \in [List!Thread -> Seq(Work)]
      /\ \A o \in List!Thread \ {th} : steps'[o] = steps[o]
      /\ steps'[th] = Tail(steps[th])
  BY <1>1, GoesOnWithout DEF ListInv
<1>3. ListTypes'
  BY <1>2 DEF ListInv, ListTypes
<1>4. WorkerOK(th)'
  BY <1>2, <1>3, SendsAreLeft
<1>. QED BY <1>2, <1>3, <1>4, WorkerStepInv

(***************************************************************************)
(* In turn, a worker that makes no step of the coordinator's edit leaves   *)
(* the revision standing for the list.                                     *)
(***************************************************************************)
LEMMA NothingCounted ==
  ASSUME ListInv, NEW th \in Worker, NEW k, List!Runs(th, k),
         k # "count", th # List!Window(Coord) \/ k \notin {"request", "check", "apply"},
         rev' = rev, calm' => calm, calm => lst'[Coord] = lst[Coord]
  PROVE  Steady
BY WorkerRuns DEF Steady, Firm, ListInv, ListTypes

\* a refusal is answered with the list and the revision as they are
LEMMA ReplyOK ==
  ASSUME ListInv, NEW n \in List!Member, Steady,
         UNCHANGED <<lst, rev>>, calm' => calm, calm => n # Coord
  PROVE  LET x == List!Reply(n, lst[Coord], rev) IN
         /\ x \in Work
         /\ x.do = IF n = Coord THEN "accept" ELSE "send"
         /\ x.node = n /\ x.nodes = lst[Coord] /\ x.revision = rev
         /\ Fresh(lst[Coord], rev)'
<1>1. lst[Coord] \in SUBSET Nat /\ rev \in Nat
  BY Threads DEF ListInv, ListTypes
<1>. QED BY <1>1, Threads DEF List!Reply, List!Do, Work, List!Kind, Fresh

LEMMA CheckInv ==
  ASSUME ListInv, NEW th \in List!Thread, List!Check(th)
  PROVE  ListInv' /\ MovesOn
<1>1. List!Runs(th, "check") /\ UNCHANGED <<edits, lst, crev, rev, up, down, calm>>
  BY DEF List!Check
<1>2. PICK s \in Work : s = Head(steps[th])
  BY <1>1, Running
<1>3. th \in Worker /\ steps[th] # <<>> /\ s.do = "check" /\ steps[th][1] = s
  BY <1>1, <1>2, Running
<1>4. HeadOK(th, s) /\ Len(steps[th]) = 1
  BY <1>1, <1>2, <1>3, WorkerRuns
<1>5. calm => InTurn(s) /\ crev[Coord] = rev /\ (Uncounted <=> th = List!Window(Coord))
  BY <1>1, <1>2, <1>3, WorkerRuns DEF OwnBroadcast
<1>6. MovesOn
  BY <1>1, NobodyMoves
<1>7. /\ s.node \in List!Member /\ s.nodes \in SUBSET Nat /\ s.revision \in Nat
      /\ crev[Coord] \in Nat /\ crev[Coord] <= rev /\ rev \in Nat
      /\ s.node = Coord <=> th = List!Window(Coord)
  BY <1>3, <1>4, Threads DEF Work, ListInv, ListTypes, NoneAhead, HeadOK
<1>8. /\ lst' \in [List!Member -> SUBSET Nat] /\ crev' \in [List!Member -> Nat]
      /\ rev' \in Nat /\ crev'[Coord] <= rev'
      /\ \A p \in Others : lst'[p] = lst[p] /\ crev'[p] = crev[p]
  BY <1>1, <1>7 DEF ListInv, ListTypes
<1>9. CASE s.revision = rev
  <2>1. PICK x \in Work : x = List!Do("apply", s.node, s.nodes, 0)
    BY <1>7 DEF List!Do, Work, List!Kind
  <2>2. x.do = "apply" /\ x.node = s.node /\ x.nodes = s.nodes
    BY <2>1 DEF List!Do
  <2>3. List!Continues(th, <<x>>)
    BY <1>3, <1>9, <2>1 DEF List!Check
  <2>4. Steady
    <3>1. CASE th = List!Window(Coord)
      <4>1. Does(List!Window(Coord), {"request", "check", "apply"})'
        BY <1>3, <2>2, <2>3, <3>1, GoesOn, Threads DEF Does, ListInv
      <4>. QED BY <1>1, <1>7, <4>1 DEF Steady, Firm, Uncounted
    <3>2. CASE th # List!Window(Coord)
      BY <1>1, <1>3, <3>2, NothingCounted
    <3>. QED BY <3>1, <3>2
  <2>5. HeadOK(th, x)'
    BY <1>1, <1>7, <2>2 DEF HeadOK
  <2>6. calm => lst[Coord] \subseteq s.nodes /\ (s.node = Coord => s.nodes = lst[Coord])
    BY <1>3, <1>5, <1>7, <1>9 DEF InTurn, Fresh, Firm
  <2>7. calm => InTurn(x)'
    BY <1>1, <2>2, <2>6 DEF InTurn
  <2>. QED BY <1>1, <1>3, <1>4, <1>5, <1>6, <1>8, <2>2, <2>3, <2>4, <2>5, <2>7, GoesOnInv
<1>10. CASE s.revision # rev
  <2>1. calm => s.node # Coord
    BY <1>3, <1>5, <1>10 DEF InTurn
  <2>2. Steady
    BY <1>1, <1>3, <1>7, <2>1, NothingCounted DEF Steady, Firm
  <2>3. PICK x \in Work : x = List!Reply(s.node, lst[Coord], rev)
    BY <1>1, <1>7, <2>1, <2>2, ReplyOK
  <2>4. /\ x.do = IF s.node = Coord THEN "accept" ELSE "send"
        /\ x.node = s.node /\ Fresh(x.nodes, x.revision)'
    BY <1>1, <1>7, <2>1, <2>2, <2>3, ReplyOK DEF Fresh
  <2>5. List!Continues(th, <<x>>)
    BY <1>3, <1>10, <2>3 DEF List!Check
  <2>6. HeadOK(th, x)' /\ (calm => InTurn(x)')
    BY <1>7, <2>1, <2>4, Threads DEF HeadOK, InTurn
  <2>. QED BY <1>1, <1>3, <1>5, <1>6, <1>8, <2>2, <2>4, <2>5, <2>6, GoesOnInv
<1>. QED BY <1>9, <1>10

LEMMA ApplyListInv ==
  ASSUME ListInv, NEW th \in List!Thread, List!Apply(th)
  PROVE  ListInv' /\ MovesOn
<1>1. List!Runs(th, "apply") /\ UNCHANGED <<edits, crev, rev, up, down, calm>>
  BY DEF List!Apply
<1>2. PICK s \in Work : s = Head(steps[th])
  BY <1>1, Running
<1>3. th \in Worker /\ steps[th] # <<>> /\ s.do = "apply" /\ steps[th][1] = s
  BY <1>1, <1>2, Running
<1>4. HeadOK(th, s) /\ Len(steps[th]) = 1
  BY <1>1, <1>2, <1>3, WorkerRuns
<1>5. calm => InTurn(s) /\ crev[Coord] = rev
  BY <1>1, <1>2, <1>3, WorkerRuns DEF OwnBroadcast
<1>6. /\ s.node \in List!Member /\ s.nodes \in SUBSET Nat
      /\ crev[Coord] \in Nat /\ crev[Coord] <= rev /\ rev \in Nat
      /\ s.node = Coord <=> th = List!Window(Coord)
      /\ crev' \in [List!Member -> Nat] /\ rev' \in Nat /\ crev'[Coord] <= rev'
  BY <1>1, <1>3, <1>4, Threads DEF Work, ListInv, ListTypes, NoneAhead, HeadOK
<1>7. CASE lst' = [lst EXCEPT ![Coord] = s.nodes] /\ List!Continues(th, <<List!Do("count", Coord, {}, 0)>>)
  <2>1. PICK x \in Work : x = List!Do("count", Coord, {}, 0)
    BY Threads DEF List!Do, Work, List!Kind
  <2>2. x.do = "count" /\ List!Continues(th, <<x>>)
    BY <1>7, <2>1 DEF List!Do
  <2>3. Does(th, {"count"})'
    BY <1>3, <2>2, GoesOn, Threads DEF Does, ListInv
  <2>4. Steady
    BY <1>1, <1>3, <1>6, <2>3 DEF Steady, Firm, Uncounted
  <2>5. HeadOK(th, x)' /\ InTurn(x)'
    BY <2>2 DEF HeadOK, InTurn
  <2>6. /\ lst' \in [List!Member -> SUBSET Nat] /\ lst'[Coord] = s.nodes
        /\ \A p \in Others : lst'[p] = lst[p] /\ crev'[p] = crev[p]
    BY <1>1, <1>6, <1>7, Threads DEF ListInv, ListTypes
  <2>7. MovesOn
    BY <1>1, <1>3, <1>5, <2>6, Threads DEF MovesOn, InTurn, ListInv, ListTypes, NoneAhead
  <2>. QED BY <1>1, <1>3, <1>4, <1>5, <1>6, <2>2, <2>4, <2>5, <2>6, <2>7, GoesOnInv
<1>8. CASE /\ s.nodes # lst[Coord] /\ UNCHANGED lst
           /\ List!Continues(th, <<List!Reply(s.node, lst[Coord], rev)>>)
  <2>1. calm => s.node # Coord
    BY <1>3, <1>5, <1>8 DEF InTurn
  <2>2. Steady
    BY <1>1, <1>3, <1>6, <1>8, <2>1, NothingCounted DEF Steady, Firm
  <2>3. PICK x \in Work : x = List!Reply(s.node, lst[Coord], rev)
    BY <1>1, <1>6, <1>8, <2>1, <2>2, ReplyOK
  <2>4. /\ x.do = IF s.node = Coord THEN "accept" ELSE "send"
        /\ x.node = s.node /\ Fresh(x.nodes, x.revision)'
    BY <1>1, <1>6, <1>8, <2>1, <2>2, <2>3, ReplyOK DEF Fresh
  <2>5. List!Continues(th, <<x>>)
    BY <1>8, <2>3
  <2>6. HeadOK(th, x)' /\ (calm => InTurn(x)')
    BY <1>6, <2>1, <2>4, Threads DEF HeadOK, InTurn
  <2>7. /\ lst' \in [List!Member -> SUBSET Nat]
        /\ \A p \in Others : lst'[p] = lst[p] /\ crev'[p] = crev[p]
    BY <1>1, <1>8 DEF ListInv, ListTypes
  <2>8. MovesOn
    BY <1>1, <1>8, NobodyMoves
  <2>. QED BY <1>1, <1>3, <1>5, <1>6, <2>2, <2>4, <2>5, <2>6, <2>7, <2>8, GoesOnInv
<1>. QED BY <1>3, <1>7, <1>8 DEF List!Apply

LEMMA CountInv ==
  ASSUME ListInv, NEW th \in List!Thread, List!Count(th)
  PROVE  ListInv' /\ MovesOn
<1>1. List!Runs(th, "count") /\ rev' = rev + 1 /\ UNCHANGED <<edits, lst, crev, up, down, calm>>
  BY DEF List!Count
<1>2. th \in Worker /\ steps[th] # <<>>
  BY <1>1, Running
<1>3. Len(steps[th]) = 1
  BY <1>1, <1>2, WorkerRuns
<1>4. rev \in Nat /\ rev' \in Nat /\ crev[Coord] \in Nat /\ crev[Coord] <= rev
  BY <1>1, Threads DEF ListInv, ListTypes, NoneAhead
<1>11. rev + 1 \in Nat
  BY <1>4
<1>5. PICK x \in Work : x = List!Do("build", Coord, {}, rev + 1)
  BY <1>11, Threads DEF List!Do, Work, List!Kind
<1>6. List!Continues(th, <<x>>) /\ x.do = "build" /\ x.revision = rev'
  BY <1>1, <1>5 DEF List!Count, List!Do
<1>7. Steady
  BY <1>1, <1>4 DEF Steady
<1>8. HeadOK(th, x)' /\ InTurn(x)'
  BY <1>4, <1>6 DEF HeadOK, InTurn
<1>9. /\ lst' \in [List!Member -> SUBSET Nat] /\ crev' \in [List!Member -> Nat]
      /\ crev'[Coord] <= rev' /\ \A p \in Others : lst'[p] = lst[p] /\ crev'[p] = crev[p]
  BY <1>1, <1>4 DEF ListInv, ListTypes
<1>10. MovesOn
  BY <1>1, NobodyMoves
<1>. QED BY <1>1, <1>2, <1>3, <1>4, <1>6, <1>7, <1>8, <1>9, <1>10, GoesOnInv DEF OwnBroadcast

LEMMA SendInv ==
  ASSUME ListInv, NEW th \in List!Thread, List!Send(th)
  PROVE  ListInv' /\ MovesOn
<1>1. /\ List!Runs(th, "send") /\ List!Continues(th, <<>>)
      /\ UNCHANGED <<edits, lst, crev, rev, up, calm>>
  BY DEF List!Send
<1>2. PICK s \in Work : s = Head(steps[th])
  BY <1>1, Running
<1>3. th \in Worker /\ steps[th] # <<>> /\ s.do = "send" /\ steps[th][1] = s
  BY <1>1, <1>2, Running
<1>4. s.node \in Others /\ Fresh(s.nodes, s.revision)
  BY <1>1, <1>2, <1>3, WorkerRuns DEF HeadOK
<1>5. PICK f \in Letter : f = [nodes |-> s.nodes, revision |-> s.revision]
  BY DEF Letter, Work
<1>6. down' = [down EXCEPT ![s.node] = Append(@, f)]
  BY <1>3, <1>5 DEF List!Send
<1>7. /\ down' \in [Others -> Seq(Letter)] /\ down[s.node] \in Seq(Letter)
      /\ down'[s.node] = Append(down[s.node], f)
      /\ \A p \in Others \ {s.node} : down'[p] = down[p]
  BY <1>4, <1>6 DEF ListInv, ListTypes
<1>8. Steady
  BY <1>1, <1>3, NothingCounted
<1>9. ASSUME ListTypes' PROVE \A p \in Others : AllFresh(down[p])'
  <2>1. \A g \in Letter : Fresh(g.nodes, g.revision) => FreshNow(g.nodes, g.revision)
    BY <1>8, <1>9, StillFresh DEF ListInv, Letter
  <2>2. FreshNow(f.nodes, f.revision)
    BY <1>4, <1>5, <2>1
  <2>3. AllFresh(down[s.node])
    BY <1>4 DEF ListInv, Carried
  <2>4. \A i \in 1 .. Len(down[s.node]) : FreshNow(down[s.node][i].nodes, down[s.node][i].revision)
    BY <1>7, <2>1, <2>3 DEF AllFresh
  <2>5. \A i \in 1 .. Len(down'[s.node]) : FreshNow(down'[s.node][i].nodes, down'[s.node][i].revision)
    BY <1>7, <2>2, <2>4
  <2>6. AllFresh(down[s.node])'
    BY <2>5 DEF AllFresh, Fresh, FreshNow
  <2>. QED BY <1>7, <1>8, <1>9, <2>6, FramesKept
<1>10. /\ lst' \in [List!Member -> SUBSET Nat] /\ crev' \in [List!Member -> Nat] /\ rev' \in Nat
       /\ calm' \in BOOLEAN /\ crev'[Coord] <= rev'
       /\ \A p \in Others : lst'[p] = lst[p] /\ crev'[p] = crev[p]
  BY <1>1, Threads DEF ListInv, ListTypes, NoneAhead
<1>11. calm => crev[Coord] = rev
  BY <1>1, <1>3, WorkerRuns DEF OwnBroadcast
<1>12. MovesOn
  BY <1>1, NobodyMoves
<1>. QED BY <1>1, <1>3, <1>7, <1>8, <1>9, <1>10, <1>11, <1>12, SendsLeftInv

(***************************************************************************)
(* The broadcast goes to the peers in some order.                          *)
(***************************************************************************)
LEMMA InOrder == List!SetToSeq(Others) \in Seq(Others)
<1>1. IsFiniteSet(Others)
  BY GroupIsFinite, FS_Subset DEF Others
<1>2. Cardinality(Others) \in Nat /\ Bijection(1 .. Cardinality(Others), Others) # {}
  BY <1>1, FS_CardinalityType DEF ExistsBijection
<1>3. \E f \in [1 .. Cardinality(Others) -> Others] : IsInjective(f)
  BY <1>2 DEF Bijection, Injection
<1>4. List!Cardinality(Others) = Cardinality(Others)
  BY DEF List!Cardinality, Cardinality
<1>5. List!SetToSeq(Others) \in [1 .. Cardinality(Others) -> Others]
  BY <1>3, <1>4 DEF List!SetToSeq, List!IsInjective, IsInjective
<1>. QED BY <1>2, <1>5

LEMMA BuildInv ==
  ASSUME ListInv, NEW th \in List!Thread, List!Build(th)
  PROVE  ListInv' /\ MovesOn
<1>1. List!Runs(th, "build") /\ UNCHANGED <<edits, lst, crev, rev, up, down, calm>>
  BY DEF List!Build
<1>2. PICK s \in Work : s = Head(steps[th])
  BY <1>1, Running
<1>3. th \in Worker /\ steps[th] # <<>> /\ s.do = "build" /\ steps[th][1] = s
  BY <1>1, <1>2, Running
<1>4. s.revision <= rev /\ (calm => s.revision = rev) /\ Len(steps[th]) = 1
  BY <1>1, <1>2, <1>3, WorkerRuns DEF HeadOK, InTurn
<1>5. lst[Coord] \in SUBSET Nat /\ s.revision \in Nat /\ rev \in Nat
  BY Threads DEF ListInv, ListTypes, Work
<1>. DEFINE order == List!SetToSeq(Others)
            sends == [i \in DOMAIN order |-> List!Do("send", order[i], lst[Coord], s.revision)]
<1>6. PICK x \in Work : x = List!Do("accept", Coord, lst[Coord], s.revision)
  BY <1>5, Threads DEF List!Do, Work, List!Kind
<1>7. x.do = "accept" /\ x.node = Coord /\ x.nodes = lst[Coord] /\ x.revision = s.revision
  BY <1>6 DEF List!Do
<1>8. /\ sends \in Seq(Work)
      /\ \A i \in 1 .. Len(sends) : /\ sends[i].do = "send" /\ sends[i].node \in Others
                                    /\ sends[i].nodes = lst[Coord] /\ sends[i].revision = s.revision
  <2>1. order \in Seq(Others)
    BY InOrder
  <2>2. \A p \in Others : List!Do("send", p, lst[Coord], s.revision) \in Work
    BY <1>5, Threads DEF List!Do, Work, List!Kind
  <2>. HIDE DEF order
  <2>3. /\ DOMAIN order = 1 .. Len(order) /\ Len(order) \in Nat
        /\ \A i \in 1 .. Len(order) : order[i] \in Others
    BY <2>1
  <2>4. sends \in Seq(Work) /\ Len(sends) = Len(order)
    BY <2>2, <2>3
  <2>. QED BY <2>3, <2>4 DEF List!Do
<1>9. List!Continues(th, <<x>> \o sends)
  BY <1>3, <1>6 DEF List!Build, Others
<1>. HIDE DEF sends
<1>. DEFINE new == <<x>> \o sends
<1>10. /\ new \in Seq(Work) /\ Len(new) = Len(sends) + 1 /\ Len(sends) \in Nat
       /\ new[1] = x /\ \A i \in 2 .. Len(new) : new[i] = sends[i - 1] /\ i - 1 \in 1 .. Len(sends)
  <2>1. <<x>> \in Seq(Work) /\ Len(<<x>>) = 1 /\ <<x>>[1] = x
    OBVIOUS
  <2>2. /\ new \in Seq(Work) /\ Len(new) = 1 + Len(sends) /\ Len(sends) \in Nat
        /\ \A i \in 1 .. 1 + Len(sends) : new[i] = IF i <= 1 THEN <<x>>[i] ELSE sends[i - 1]
    BY <1>8, <2>1, ConcatProperties
  <2>. QED BY <2>1, <2>2
<1>11. new # <<>> /\ Head(new) = x
  BY <1>10
<1>. HIDE DEF new
<1>12. steps' = [steps EXCEPT ![th] = new]
  <2>1. steps[th] \in Seq(Work)
    BY DEF ListInv, ListTypes
  <2>2. Tail(steps[th]) \in Seq(Work) /\ Len(Tail(steps[th])) = 0
    BY <1>3, <1>4, <2>1, FirstDropped
  <2>3. Tail(steps[th]) = <<>>
    BY <2>2, EmptySeq
  <2>4. new \o Tail(steps[th]) = new
    BY <1>10, <2>3, ConcatEmptySeq
  <2>. QED BY <1>9, <2>4 DEF List!Continues, new
<1>13. /\ steps' \in [List!Thread -> Seq(Work)] /\ steps'[th] = new
       /\ \A o \in List!Thread \ {th} : steps'[o] = steps[o]
  BY <1>10, <1>12 DEF ListInv, ListTypes
<1>14. ListTypes'
  BY <1>1, <1>13 DEF ListInv, ListTypes
<1>15. Steady
  BY <1>1, <1>3, NothingCounted
<1>16. FreshNow(lst[Coord], s.revision)
  BY <1>1, <1>4 DEF FreshNow
<1>17. WorkerOK(th)'
  <2>1. HeadOK(th, Head(steps[th]))'
    BY <1>7, <1>11, <1>13, <1>16, Threads DEF HeadOK, Fresh, FreshNow
  <2>2. calm' => InTurn(Head(steps[th]))'
    BY <1>1, <1>4, <1>7, <1>11, <1>13 DEF InTurn
  <2>3. SendsFresh(steps[th])'
    BY <1>8, <1>10, <1>13, <1>16 DEF SendsFresh, Fresh, FreshNow
  <2>. QED BY <1>7, <1>11, <1>13, <2>1, <2>2, <2>3 DEF WorkerOK, Does
<1>18. Does(th, OwnBroadcast)'
  BY <1>7, <1>11, <1>13 DEF Does, OwnBroadcast
<1>19. \A p \in Others : AllFresh(down[p])'
  BY <1>1, <1>14, <1>15, FramesKept
<1>20. crev'[Coord] <= rev'
  BY <1>1, Threads DEF ListInv, NoneAhead
<1>21. MovesOn
  BY <1>1, NobodyMoves
<1>. QED BY <1>1, <1>3, <1>13, <1>14, <1>15, <1>17, <1>18, <1>19, <1>20, <1>21, WorkerStepInv

(***************************************************************************)
(* The client, in a thread of its coordinator.                             *)
(***************************************************************************)
LEMMA OwnAcceptInv ==
  ASSUME ListInv, NEW th \in Worker, List!Accept(th)
  PROVE  ListInv' /\ MovesOn
<1>1. List!Runs(th, "accept") /\ UNCHANGED <<edits, lst, crev, rev, up, down, calm>>
  BY DEF List!Accept
<1>2. PICK s \in Work : s = Head(steps[th])
  BY <1>1, Running, Threads
<1>3. steps[th] # <<>> /\ s.do = "accept" /\ steps[th][1] = s
  BY <1>1, <1>2, Running, Threads
<1>4. /\ s.node = Coord /\ Fresh(s.nodes, s.revision)
      /\ calm => s.revision = rev /\ s.nodes = lst[Coord]
  BY <1>1, <1>2, <1>3, WorkerRuns DEF HeadOK, InTurn
<1>5. Steady
  BY <1>1, NothingCounted
<1>6. /\ lst' \in [List!Member -> SUBSET Nat] /\ crev' \in [List!Member -> Nat]
      /\ rev' \in Nat /\ rev \in Nat /\ crev[Coord] \in Nat /\ crev'[Coord] <= rev'
      /\ \A p \in Others : lst'[p] = lst[p] /\ crev'[p] = crev[p]
      /\ calm' \in BOOLEAN /\ down' \in [Others -> Seq(Letter)]
  BY <1>1, Threads DEF ListInv, ListTypes, NoneAhead
<1>7. MovesOn
  BY <1>1, NobodyMoves
<1>8. CASE s.revision >= crev[Coord] /\ List!Continues(th, <<List!Do("take", Coord, s.nodes, s.revision)>>)
  <2>1. PICK x \in Work : x = List!Do("take", Coord, s.nodes, s.revision)
    BY Threads DEF List!Do, Work, List!Kind
  <2>2. x.do = "take" /\ x.node = Coord /\ x.nodes = s.nodes /\ x.revision = s.revision
    BY <2>1 DEF List!Do
  <2>3. FreshNow(s.nodes, s.revision)
    BY <1>1, <1>4, <1>5, <1>6 DEF Fresh, FreshNow, Steady, Work
  <2>4. HeadOK(th, x)' /\ (calm => InTurn(x)')
    BY <1>1, <1>4, <2>2, <2>3, Threads DEF HeadOK, InTurn, Fresh, FreshNow
  <2>. QED BY <1>1, <1>3, <1>5, <1>6, <1>7, <1>8, <2>1, <2>2, <2>4, GoesOnInv DEF OwnBroadcast
<1>9. CASE s.revision < crev[Coord] /\ List!Continues(th, <<>>)
  <2>1. ~calm
    BY <1>1, <1>4, <1>6, <1>9
  <2>. QED BY <1>1, <1>3, <1>5, <1>6, <1>7, <1>9, <2>1, FramesKept, SendsLeftInv
<1>. QED BY <1>3, <1>4, <1>8, <1>9 DEF List!Accept

LEMMA OwnTakeInv ==
  ASSUME ListInv, NEW th \in Worker, List!Take(th)
  PROVE  ListInv' /\ MovesOn
<1>1. List!Runs(th, "take") /\ UNCHANGED <<edits, crev, rev, up, down>>
  BY DEF List!Take
<1>2. PICK s \in Work : s = Head(steps[th])
  BY <1>1, Running, Threads
<1>3. steps[th] # <<>> /\ s.do = "take" /\ steps[th][1] = s
  BY <1>1, <1>2, Running, Threads
<1>4. /\ s.node = Coord /\ s.revision <= rev /\ s.nodes \in SUBSET Nat
      /\ calm => s.revision = rev /\ s.nodes = lst[Coord]
  BY <1>1, <1>2, <1>3, WorkerRuns DEF HeadOK, InTurn, Fresh, Work
<1>5. /\ crev' \in [List!Member -> Nat] /\ rev' \in Nat /\ crev'[Coord] <= rev'
      /\ down' \in [Others -> Seq(Letter)]
      /\ \A p \in Others : crev'[p] = crev[p]
  BY <1>1, Threads DEF ListInv, ListTypes, NoneAhead
<1>6. CASE /\ lst' = [lst EXCEPT ![Coord] = s.nodes] /\ UNCHANGED calm
           /\ List!Continues(th, <<List!Do("note", Coord, {}, s.revision)>>)
  <2>1. PICK x \in Work : x = List!Do("note", Coord, {}, s.revision)
    BY Threads DEF List!Do, Work, List!Kind
  <2>2. x.do = "note" /\ x.node = Coord /\ x.revision = s.revision
    BY <2>1 DEF List!Do
  <2>3. /\ lst' \in [List!Member -> SUBSET Nat] /\ lst'[Coord] = s.nodes
        /\ \A p \in Others : lst'[p] = lst[p]
    BY <1>4, <1>6, Threads DEF ListInv, ListTypes
  <2>4. Steady
    BY <1>1, <1>4, <1>6, <2>3, NothingCounted
  <2>5. HeadOK(th, x)' /\ (calm => InTurn(x)')
    BY <1>1, <1>4, <2>2 DEF HeadOK, InTurn
  <2>6. MovesOn
    BY <1>1, <1>4, <1>6, <2>3, Threads DEF MovesOn, ListInv, ListTypes, NoneAhead
  <2>. QED BY <1>1, <1>3, <1>5, <1>6, <2>1, <2>2, <2>3, <2>4, <2>5, <2>6, GoesOnInv DEF OwnBroadcast
<1>7. CASE calm' = FALSE /\ UNCHANGED lst /\ List!Continues(th, <<>>)
  <2>1. Steady
    BY <1>1, <1>7, NothingCounted
  <2>2. MovesOn
    BY <1>1, <1>7, NobodyMoves
  <2>3. /\ lst' \in [List!Member -> SUBSET Nat] /\ calm' \in BOOLEAN
        /\ \A p \in Others : lst'[p] = lst[p]
    BY <1>7 DEF ListInv, ListTypes
  <2>. QED BY <1>1, <1>3, <1>5, <1>7, <2>1, <2>2, <2>3, FramesKept, SendsLeftInv
<1>. QED BY <1>3, <1>4, <1>6, <1>7 DEF List!Take

LEMMA OwnNoteInv ==
  ASSUME ListInv, NEW th \in Worker, List!Note(th)
  PROVE  ListInv' /\ MovesOn
<1>1. /\ List!Runs(th, "note") /\ List!Continues(th, <<>>)
      /\ UNCHANGED <<edits, lst, rev, up, down, calm>>
  BY DEF List!Note
<1>2. PICK s \in Work : s = Head(steps[th])
  BY <1>1, Running, Threads
<1>3. steps[th] # <<>> /\ s.do = "note" /\ steps[th][1] = s
  BY <1>1, <1>2, Running, Threads
<1>4. s.node = Coord /\ s.revision <= rev /\ (calm => s.revision = rev) /\ s.revision \in Nat
  BY <1>1, <1>2, <1>3, WorkerRuns DEF HeadOK, InTurn, Work
<1>5. crev' = [crev EXCEPT ![Coord] = s.revision]
  BY <1>3, <1>4 DEF List!Note
<1>6. /\ crev' \in [List!Member -> Nat] /\ crev'[Coord] = s.revision
      /\ \A p \in Others : lst'[p] = lst[p] /\ crev'[p] = crev[p]
      /\ lst' \in [List!Member -> SUBSET Nat] /\ rev' \in Nat /\ calm' \in BOOLEAN
      /\ down' \in [Others -> Seq(Letter)]
  BY <1>1, <1>4, <1>5, Threads DEF ListInv, ListTypes
<1>7. Steady
  BY <1>1, NothingCounted
<1>8. MovesOn
  BY <1>1, <1>6, NobodyMoves
<1>. QED BY <1>1, <1>3, <1>4, <1>6, <1>7, <1>8, FramesKept, SendsLeftInv

(***************************************************************************)
(* The client of a peer.                                                   *)
(***************************************************************************)
LEMMA PeerRuns ==
  ASSUME ListInv, NEW p \in Others, NEW k, List!Runs(List!Recv(p), k)
  PROVE  /\ steps[List!Recv(p)] # <<>> /\ Len(steps[List!Recv(p)]) = 1
         /\ \E s \in Work :
              /\ s = Head(steps[List!Recv(p)]) /\ s = steps[List!Recv(p)][1]
              /\ s.do = k /\ s.node = p
              /\ s.do \in {"accept", "take"} => Fresh(s.nodes, s.revision)
              /\ s.do \in {"take", "note"} => crev[p] <= s.revision
              /\ s.do = "note" => Fresh(lst[p], s.revision)
<1>1. List!Recv(p) \in List!Thread
  BY Threads
<1>2. ReceiverOK(p)
  BY DEF ListInv, Receiving
<1>. QED BY <1>1, <1>2, Running DEF ReceiverOK

LEMMA PeerGoesOn ==
  ASSUME ListInv, NEW p \in Others, steps[List!Recv(p)] # <<>>, Len(steps[List!Recv(p)]) = 1
  PROVE  /\ \A x \in Work : List!Continues(List!Recv(p), <<x>>) =>
              /\ steps' \in [List!Thread -> Seq(Work)]
              /\ \A o \in List!Thread \ {List!Recv(p)} : steps'[o] = steps[o]
              /\ steps'[List!Recv(p)] # <<>> /\ Len(steps'[List!Recv(p)]) = 1
              /\ Head(steps'[List!Recv(p)]) = x
         /\ List!Continues(List!Recv(p), <<>>) =>
              /\ steps' \in [List!Thread -> Seq(Work)]
              /\ \A o \in List!Thread \ {List!Recv(p)} : steps'[o] = steps[o]
              /\ steps'[List!Recv(p)] = <<>>
<1>. DEFINE me == List!Recv(p)
<1>1. me \in List!Thread /\ steps[me] \in Seq(Work)
  BY Threads DEF ListInv, ListTypes
<1>2. Tail(steps[me]) \in Seq(Work) /\ Len(Tail(steps[me])) = 0
  BY <1>1, FirstDropped
<1>3. Tail(steps[me]) = <<>>
  BY <1>2, EmptySeq
<1>. QED BY <1>1, <1>3, GoesOn, GoesOnWithout DEF ListInv

LEMMA PeerAcceptInv ==
  ASSUME ListInv, NEW p \in Others, List!Accept(List!Recv(p))
  PROVE  ListInv' /\ MovesOn
<1>. DEFINE me == List!Recv(p)
<1>1. List!Runs(me, "accept") /\ UNCHANGED <<edits, lst, crev, rev, up, down, calm>>
  BY DEF List!Accept
<1>2. steps[me] # <<>> /\ Len(steps[me]) = 1
  BY <1>1, PeerRuns
<1>3. PICK s \in Work : /\ s = steps[me][1] /\ s.node = p /\ Fresh(s.nodes, s.revision)
  BY <1>1, PeerRuns
<1>4. MovesOn
  BY <1>1, NobodyMoves
<1>5. p \in List!Member /\ lst[p] \in SUBSET Nat /\ crev[p] \in Nat /\ Fresh(lst[p], crev[p])
  BY Threads DEF ListInv, ListTypes, Carried
<1>6. ASSUME steps' \in [List!Thread -> Seq(Work)],
             \A o \in List!Thread \ {me} : steps'[o] = steps[o],
             ListTypes' /\ Steady => ReceiverOK(p)'
      PROVE  ListInv'
  <2>1. ListTypes'
    BY <1>1, <1>6 DEF ListInv, ListTypes
  <2>2. Steady => Fresh(lst[p], crev[p])'
    BY <1>1, <1>5, <2>1, StillFresh DEF ListInv, Fresh, FreshNow
  <2>3. Steady => \A o \in Others : AllFresh(down[o])'
    BY <1>1, <2>1, FramesKept
  <2>. QED BY <1>1, <1>2, <1>6, <2>1, <2>2, <2>3, ReceiverStepInv
<1>7. CASE s.revision >= crev[p] /\ List!Continues(me, <<List!Do("take", p, s.nodes, s.revision)>>)
  <2>1. PICK x \in Work : x = List!Do("take", p, s.nodes, s.revision)
    BY <1>5 DEF List!Do, Work, List!Kind
  <2>2. x.do = "take" /\ x.node = p /\ x.nodes = s.nodes /\ x.revision = s.revision
    BY <2>1 DEF List!Do
  <2>3. /\ steps' \in [List!Thread -> Seq(Work)]
        /\ \A o \in List!Thread \ {me} : steps'[o] = steps[o]
        /\ steps'[me] # <<>> /\ Len(steps'[me]) = 1 /\ Head(steps'[me]) = x
    BY <1>2, <1>7, <2>1, PeerGoesOn
  <2>4. ASSUME ListTypes', Steady PROVE ReceiverOK(p)'
    <3>1. FreshNow(s.nodes, s.revision) /\ s.revision \in Nat
      BY <1>3, <2>4, StillFresh DEF ListInv, Work
    <3>. QED BY <1>1, <1>5, <1>7, <2>2, <2>3, <3>1 DEF ReceiverOK, Fresh, FreshNow
  <2>. QED BY <1>4, <1>6, <2>3, <2>4
<1>8. CASE List!Continues(me, <<>>)
  <2>1. /\ steps' \in [List!Thread -> Seq(Work)]
        /\ \A o \in List!Thread \ {me} : steps'[o] = steps[o]
        /\ steps'[me] = <<>>
    BY <1>2, <1>8, PeerGoesOn
  <2>. QED BY <1>4, <1>6, <2>1 DEF ReceiverOK
<1>. QED BY <1>3, <1>7, <1>8 DEF List!Accept

LEMMA PeerTakeInv ==
  ASSUME ListInv, NEW p \in Others, List!Take(List!Recv(p))
  PROVE  ListInv' /\ MovesOn
<1>. DEFINE me == List!Recv(p)
<1>1. List!Runs(me, "take") /\ UNCHANGED <<edits, crev, rev, up, down>>
  BY DEF List!Take
<1>2. steps[me] # <<>> /\ Len(steps[me]) = 1
  BY <1>1, PeerRuns
<1>3. PICK s \in Work : /\ s = steps[me][1] /\ s.node = p /\ Fresh(s.nodes, s.revision)
                        /\ crev[p] <= s.revision
  BY <1>1, PeerRuns
<1>4. /\ p \in List!Member /\ lst[p] \in SUBSET Nat /\ crev[p] \in Nat /\ rev \in Nat
      /\ Fresh(lst[p], crev[p]) /\ s.nodes \in SUBSET Nat /\ s.revision \in Nat
  BY Threads DEF ListInv, ListTypes, Carried, Work
<1>5. CASE /\ lst' = [lst EXCEPT ![p] = s.nodes] /\ UNCHANGED calm
           /\ List!Continues(me, <<List!Do("note", p, {}, s.revision)>>)
  <2>1. PICK x \in Work : x = List!Do("note", p, {}, s.revision)
    BY <1>4 DEF List!Do, Work, List!Kind
  <2>2. x.do = "note" /\ x.node = p /\ x.revision = s.revision
    BY <2>1 DEF List!Do
  <2>3. /\ steps' \in [List!Thread -> Seq(Work)]
        /\ \A o \in List!Thread \ {me} : steps'[o] = steps[o]
        /\ steps'[me] # <<>> /\ Len(steps'[me]) = 1 /\ Head(steps'[me]) = x
    BY <1>2, <1>5, <2>1, PeerGoesOn
  <2>4. /\ lst' \in [List!Member -> SUBSET Nat] /\ lst'[p] = s.nodes
        /\ \A o \in List!Member \ {p} : lst'[o] = lst[o]
    BY <1>4, <1>5 DEF ListInv, ListTypes
  <2>5. ListTypes'
    BY <1>1, <1>5, <2>3, <2>4 DEF ListInv, ListTypes
  <2>6. Steady => FreshNow(s.nodes, s.revision)
    BY <1>3, <1>4, <2>5, StillFresh DEF ListInv
  <2>7. Steady => FreshNow(s.nodes, crev[p])
    BY <1>1, <1>3, <1>4, <2>6 DEF FreshNow
  <2>8. Steady => Fresh(lst[p], crev[p])' /\ ReceiverOK(p)'
    BY <1>1, <1>3, <2>2, <2>3, <2>4, <2>6, <2>7 DEF ReceiverOK, Fresh, FreshNow
  <2>9. Steady => \A o \in Others : AllFresh(down[o])'
    BY <1>1, <2>5, FramesKept
  <2>10. ListInv'
    BY <1>1, <1>2, <1>5, <2>3, <2>4, <2>5, <2>8, <2>9, ReceiverStepInv
  <2>11. MovesOn
    BY <1>1, <2>4, NobodyMoves, Threads
  <2>. QED BY <2>10, <2>11
<1>6. CASE calm' = FALSE /\ UNCHANGED lst /\ List!Continues(me, <<>>)
  <2>1. /\ steps' \in [List!Thread -> Seq(Work)]
        /\ \A o \in List!Thread \ {me} : steps'[o] = steps[o]
        /\ steps'[me] = <<>>
    BY <1>2, <1>6, PeerGoesOn
  <2>2. ListTypes'
    BY <1>1, <1>6, <2>1 DEF ListInv, ListTypes
  <2>3. Steady => Fresh(lst[p], crev[p])' /\ ReceiverOK(p)'
    BY <1>1, <1>4, <1>6, <2>1, <2>2, StillFresh DEF ListInv, Fresh, FreshNow, ReceiverOK
  <2>4. Steady => \A o \in Others : AllFresh(down[o])'
    BY <1>1, <2>2, FramesKept
  <2>5. ListInv'
    BY <1>1, <1>2, <1>6, <2>1, <2>2, <2>3, <2>4, ReceiverStepInv
  <2>. QED BY <1>1, <1>6, <2>5, NobodyMoves
<1>. QED BY <1>3, <1>5, <1>6 DEF List!Take

LEMMA PeerNoteInv ==
  ASSUME ListInv, NEW p \in Others, List!Note(List!Recv(p))
  PROVE  ListInv' /\ MovesOn
<1>. DEFINE me == List!Recv(p)
<1>1. /\ List!Runs(me, "note") /\ List!Continues(me, <<>>)
      /\ UNCHANGED <<edits, lst, rev, up, down, calm>>
  BY DEF List!Note
<1>2. steps[me] # <<>> /\ Len(steps[me]) = 1
  BY <1>1, PeerRuns
<1>3. PICK s \in Work : /\ s = steps[me][1] /\ s.node = p /\ crev[p] <= s.revision
                        /\ Fresh(lst[p], s.revision)
  BY <1>1, PeerRuns
<1>4. crev' = [crev EXCEPT ![p] = s.revision]
  BY <1>3 DEF List!Note
<1>5. /\ steps' \in [List!Thread -> Seq(Work)]
      /\ \A o \in List!Thread \ {me} : steps'[o] = steps[o]
      /\ steps'[me] = <<>>
  BY <1>1, <1>2, PeerGoesOn
<1>6. /\ p \in List!Member /\ lst[p] \in SUBSET Nat /\ s.revision \in Nat
      /\ crev' \in [List!Member -> Nat] /\ crev'[p] = s.revision
      /\ \A o \in List!Member \ {p} : crev'[o] = crev[o]
  BY <1>4, Threads DEF ListInv, ListTypes, Work
<1>7. ListTypes'
  BY <1>1, <1>5, <1>6 DEF ListInv, ListTypes
<1>8. Steady => Fresh(lst[p], crev[p])' /\ ReceiverOK(p)'
  BY <1>1, <1>3, <1>5, <1>6, <1>7, StillFresh DEF ListInv, Fresh, FreshNow, ReceiverOK
<1>9. Steady => \A o \in Others : AllFresh(down[o])'
  BY <1>1, <1>7, FramesKept
<1>10. ListInv'
  BY <1>1, <1>2, <1>5, <1>6, <1>7, <1>8, <1>9, ReceiverStepInv
<1>11. MovesOn
  <2>1. ASSUME NEW q \in Others PROVE crev[q] <= crev'[q] /\ crev'[q] <= rev
    <3>1. q \in List!Member /\ crev[q] \in Nat /\ crev[q] <= rev
      BY Threads DEF ListInv, ListTypes, NoneAhead
    <3>. QED BY <1>3, <1>6, <3>1 DEF Fresh
  <2>. QED BY <1>1, <2>1 DEF MovesOn
<1>. QED BY <1>10, <1>11

LEMMA ReceiveListInv ==
  ASSUME ListInv, NEW p \in Others, List!ReceiveList(p)
  PROVE  ListInv' /\ MovesOn
<1>. DEFINE me == List!Recv(p)
            f  == Head(down[p])
            x  == List!Do("accept", p, f.nodes, f.revision)
<1>1. /\ down[p] # <<>> /\ down' = [down EXCEPT ![p] = Tail(@)]
      /\ steps[me] = <<>> /\ steps' = [steps EXCEPT ![me] = <<x>>]
      /\ calm' = (calm /\ steps[List!Window(p)] = <<>>)
      /\ UNCHANGED <<edits, lst, crev, rev, up>>
  BY DEF List!ReceiveList, List!Starts
<1>2. me \in List!Thread /\ p \in List!Member
  BY Threads
<1>3. down[p] \in Seq(Letter) /\ f \in Letter /\ Fresh(f.nodes, f.revision)
  <2>1. down[p] \in Seq(Letter) /\ AllFresh(down[p])
    BY DEF ListInv, ListTypes, Carried
  <2>2. f \in Letter /\ f = down[p][1] /\ 1 \in 1 .. Len(down[p])
    BY <1>1, <2>1, EmptySeq
  <2>. QED BY <2>1, <2>2 DEF AllFresh
<1>4. x \in Work /\ x.do = "accept" /\ x.node = p /\ x.nodes = f.nodes /\ x.revision = f.revision
  BY <1>2, <1>3 DEF List!Do, Work, List!Kind, Letter
<1>. HIDE DEF x
<1>5. <<x>> \in Seq(Work) /\ Head(<<x>>) = x /\ <<x>> # <<>> /\ Len(<<x>>) = 1
  BY <1>4
<1>6. steps'[me] = <<x>> /\ \A o \in List!Thread \ {me} : steps'[o] = steps[o]
  BY <1>1, <1>2 DEF ListInv, ListTypes
<1>7. Tail(down[p]) \in Seq(Letter) /\ down'[p] = Tail(down[p]) /\ \A q \in Others \ {p} : down'[q] = down[q]
  BY <1>1, <1>3 DEF ListInv, ListTypes
<1>8. calm \in BOOLEAN /\ calm' \in BOOLEAN
  BY <1>1 DEF ListInv, ListTypes
<1>9. ListTypes'
  BY <1>1, <1>2, <1>5, <1>7, <1>8 DEF ListInv, ListTypes
<1>10. Steady => FreshNow(f.nodes, f.revision)
  BY <1>3, <1>9, StillFresh DEF ListInv, Letter
<1>11. Steady => ReceiverOK(p)'
  BY <1>4, <1>5, <1>6, <1>10 DEF ReceiverOK, Fresh, FreshNow
<1>12. lst[p] \in SUBSET Nat /\ crev[p] \in Nat /\ Fresh(lst[p], crev[p])
  BY <1>2 DEF ListInv, ListTypes, Carried
<1>13. Steady => Fresh(lst[p], crev[p])'
  BY <1>1, <1>9, <1>12, StillFresh DEF ListInv, Fresh, FreshNow
<1>14. Steady => \A o \in Others : AllFresh(down[o])'
  BY <1>1, <1>7, <1>9, FramesKept
<1>15. ListInv'
  BY <1>1, <1>6, <1>9, <1>11, <1>13, <1>14, ReceiverStepInv
<1>. QED BY <1>1, <1>15, NobodyMoves

LEMMA ListStepInv ==
  ASSUME ListInv, List!Next
  PROVE  ListInv' /\ MovesOn
<1>1. ASSUME NEW n \in List!Member, List!Save(n) PROVE ListInv' /\ MovesOn
  BY <1>1, SaveInv
<1>2. ASSUME NEW p \in Others, List!ReceiveRequest(p) \/ List!ReceiveList(p)
      PROVE  ListInv' /\ MovesOn
  BY <1>2, ReceiveRequestInv, ReceiveListInv
<1>3. ASSUME NEW th \in List!Thread, List!ThreadStep(th) PROVE ListInv' /\ MovesOn
  <2>1. CASE List!Request(th) \/ List!Check(th) \/ List!Apply(th) \/ List!Count(th) \/ List!Build(th) \/ List!Send(th)
    BY <2>1, RequestInv, CheckInv, ApplyListInv, CountInv, BuildInv, SendInv
  <2>2. CASE (List!Accept(th) \/ List!Take(th) \/ List!Note(th)) /\ th \in Worker
    BY <2>2, OwnAcceptInv, OwnTakeInv, OwnNoteInv
  <2>3. ASSUME List!Accept(th) \/ List!Take(th) \/ List!Note(th), NEW p \in Others, th = List!Recv(p)
        PROVE  ListInv' /\ MovesOn
    BY <2>3, PeerAcceptInv, PeerTakeInv, PeerNoteInv
  <2>. QED BY <1>3, <2>1, <2>2, <2>3, Threads DEF List!ThreadStep
<1>. QED BY <1>1, <1>2, <1>3 DEF List!Next, Others

LEMMA ListNextInv == ListInv /\ [List!Next]_listVars => ListInv'
<1>. SUFFICES ASSUME ListInv, [List!Next]_listVars PROVE ListInv'
  OBVIOUS
<1>1. CASE UNCHANGED listVars
  BY <1>1 DEF listVars, ListInv, ListTypes, Carried, AllFresh, Fresh, Firm, Uncounted, Does,
     NoneAhead, Working, WorkerOK, HeadOK, InTurn, SendsFresh, Turns, CoordKnows, Receiving, ReceiverOK
<1>2. CASE List!Next
  BY <1>2, ListStepInv
<1>. QED BY <1>1, <1>2

LEMMA ListKept == DeskSpec => []ListInv
<1>1. DeskInit => ListInv
  BY ListInit DEF DeskInit
<1>2. ListInv /\ [DeskNext]_deskVars => ListInv'
  BY OnlyOnePartMoves, ListNextInv
<1>. QED BY <1>1, <1>2, PTL DEF DeskSpec

(***************************************************************************)
(* The coordinator's list of nodes loses no edit while edits take turns,   *)
(* whoever makes them, whoever fails to save and in whatever order lists   *)
(* and requests are handled; and in any case no peer goes back to an       *)
(* earlier revision or ahead of the coordinator.                           *)
(***************************************************************************)
THEOREM EditsAreKept == DeskSpec => ListsMoveOn
<1>1. ASSUME ListInv, [DeskNext]_deskVars
      PROVE  /\ [calm' => lst[Coord] \subseteq lst'[Coord]]_listVars
             /\ [\A p \in Others : crev[p] <= crev'[p] /\ crev'[p] <= rev]_listVars
  <2>1. [List!Next]_listVars
    BY <1>1, OnlyOnePartMoves
  <2>. QED BY <1>1, <2>1, ListStepInv DEF MovesOn
<1>2. ListInv /\ [DeskNext]_deskVars =>
        /\ [calm' => lst[Coord] \subseteq lst'[Coord]]_List!vars
        /\ [\A p \in Node \ {Coord} : crev[p] <= crev'[p] /\ crev'[p] <= rev]_List!vars
  BY <1>1 DEF List!vars, listVars, Others
<1>. QED BY <1>2, ListKept, PTL DEF DeskSpec, ListsMoveOn, List!NoLostUpdate, List!PeersMoveOn

-----------------------------------------------------------------------------
(***************************************************************************)
(* The layout.  Rows of displays have a first row and a first column, so   *)
(* that trimming them once more changes nothing.                           *)
(***************************************************************************)
Grid(D) == [D -> Nat \X Nat]

LEMMA LeastOf ==
  ASSUME NEW T, T \subseteq Nat, T # {}
  PROVE  \E x \in T : \A y \in T : x <= y
<1>1. \E x \in T : \A y \in T : ~(<<y, x>> \in OpToRel(<, Nat))
  BY WFMin, NatLessThanWellFounded, Zenon
<1>2. PICK x \in T : \A y \in T : ~(<<y, x>> \in OpToRel(<, Nat))
  BY <1>1
<1>3. \A y \in T : ~(y < x)
  BY <1>2 DEF OpToRel
<1>4. \A y \in T : y \in Nat
  OBVIOUS
<1>5. \A y \in T : x <= y
  BY <1>3, <1>4, x \in Nat
<1>. QED BY <1>5

LEMMA MinIs ==
  ASSUME NEW T, T \subseteq Nat, T # {}
  PROVE  Screens!Min(T) \in T /\ \A y \in T : Screens!Min(T) <= y
<1>1. \E x \in T : \A y \in T : x <= y
  BY LeastOf
<1>. QED BY <1>1 DEF Screens!Min

\* the places of coordinates among those there are, counted from zero
Below(D, g, d) == {x \in {g[e] : e \in D} : x < g[d]}
Ranks(D, g) == [d \in D |-> Cardinality(Below(D, g, d))]

LEMMA RanksAre ==
  ASSUME NEW D, IsFiniteSet(D), D # {}, NEW g \in [D -> Int]
  PROVE  Ranks(D, g) \in [D -> Nat] /\ \E d \in D : Ranks(D, g)[d] = 0
<1>. DEFINE R == {g[e] : e \in D}
            below(d) == {x \in R : x < g[d]}
            C == {Cardinality(below(d)) : d \in D}
<1>1. IsFiniteSet(R)
  <2>1. g \in Surjection(D, R)
    BY DEF Surjection
  <2>. QED BY <2>1, FS_Surjection DEF ExistsSurjection
<1>2. \A d \in D : below(d) \in SUBSET R /\ IsFiniteSet(below(d))
  BY <1>1, FS_Subset
<1>3. \A d \in D : Cardinality(below(d)) \in Nat
  BY <1>2, FS_CardinalityType
<1>4. PICK c \in C : \A y \in C : c <= y
  <2>1. C \subseteq Nat /\ C # {}
    BY <1>3
  <2>. HIDE DEF C
  <2>. QED BY <2>1, LeastOf
<1>5. PICK d \in D : c = Cardinality(below(d))
  OBVIOUS
<1>6. below(d) = {}
  <2>1. SUFFICES ASSUME NEW x \in below(d) PROVE FALSE
    OBVIOUS
  <2>2. PICK e \in D : x = g[e] /\ g[e] < g[d]
    BY <2>1
  <2>3. below(e) \subseteq below(d) /\ g[e] \in below(d) /\ g[e] \notin below(e)
    BY <2>2
  <2>4. Cardinality(below(e)) <= Cardinality(below(d)) /\ Cardinality(below(e)) # Cardinality(below(d))
    BY <1>2, <2>3, FS_Subset
  <2>5. Cardinality(below(d)) <= Cardinality(below(e))
    BY <1>4, <1>5
  <2>. QED BY <1>3, <2>4, <2>5
<1>7. Cardinality(below(d)) = 0
  BY <1>6, FS_EmptySet
<1>8. Ranks(D, g) = [e \in D |-> Cardinality(below(e))]
  BY DEF Ranks, Below
<1>. HIDE DEF below
<1>. QED BY <1>3, <1>7, <1>8

LEMMA Zeros ==
  ASSUME NEW D, NEW h \in [D -> Nat], NEW d \in D, h[d] = 0
  PROVE  Screens!Min({h[e] : e \in D}) = 0
<1>. DEFINE T == {h[e] : e \in D}
<1>1. T \subseteq Nat /\ h[d] \in T
  OBVIOUS
<1>. HIDE DEF T
<1>2. Screens!Min(T) \in Nat /\ Screens!Min(T) <= h[d]
  BY <1>1, MinIs
<1>3. Screens!Min(T) = 0
  BY <1>2
<1>. QED BY <1>3 DEF T

\* rows with a first row and a first column
Trimmed(f) == f \in Grid(DOMAIN f) /\ Screens!Left(f) = 0 /\ Screens!Top(f) = 0

LEMMA TrimmedStays ==
  ASSUME NEW f, Trimmed(f) PROVE Screens!Trim(f) = f
<1>1. f = [d \in DOMAIN f |-> f[d]] /\ \A d \in DOMAIN f : f[d] = <<f[d][1] - 0, f[d][2] - 0>>
  BY DEF Trimmed, Grid
<1>2. Screens!Trim(f) = [d \in DOMAIN f |-> <<f[d][1] - 0, f[d][2] - 0>>]
  BY DEF Trimmed, Screens!Trim
<1>. QED BY <1>1, <1>2

FirstOf(D, h) == Screens!Min({h[e] : e \in D})
FromFirst(D, h) == [d \in D |-> h[d] - FirstOf(D, h)]

LEMMA FirstIs ==
  ASSUME NEW D, D # {}, NEW h \in [D -> Nat]
  PROVE  FromFirst(D, h) \in [D -> Nat] /\ \E d \in D : FromFirst(D, h)[d] = 0
<1>. DEFINE T == {h[e] : e \in D}
            m == Screens!Min(T)
<1>1. T \subseteq Nat /\ T # {} /\ \A d \in D : h[d] \in T
  OBVIOUS
<1>2. m \in T /\ \A y \in T : m <= y
  <2>. HIDE DEF T
  <2>. QED BY <1>1, MinIs
<1>3. PICK d \in D : m = h[d]
  BY <1>2
<1>. HIDE DEF m, T
<1>4. m \in Nat /\ \A e \in D : h[e] \in Nat /\ m <= h[e]
  BY <1>1, <1>2
<1>5. \A e \in D : h[e] - m \in Nat
  BY <1>4
<1>6. h[d] - m = 0
  BY <1>3, <1>4
<1>7. FromFirst(D, h) = [e \in D |-> h[e] - m]
  BY DEF FromFirst, FirstOf, m, T
<1>. QED BY <1>5, <1>6, <1>7

LEMMA TrimDoes ==
  ASSUME NEW D, D # {}, NEW f \in Grid(D)
  PROVE  Trimmed(Screens!Trim(f)) /\ DOMAIN Screens!Trim(f) = D
<1>. DEFINE a == [d \in D |-> f[d][1]]
            b == [d \in D |-> f[d][2]]
            t == Screens!Trim(f)
            g == [d \in D |-> a[d] - Screens!Left(f)]
            h == [d \in D |-> b[d] - Screens!Top(f)]
<1>1. a \in [D -> Nat] /\ b \in [D -> Nat] /\ DOMAIN f = D
  BY DEF Grid
<1>2. Screens!Left(f) = FirstOf(D, a) /\ Screens!Top(f) = FirstOf(D, b)
  <2>1. {f[d][1] : d \in DOMAIN f} = {a[e] : e \in D} /\ {f[d][2] : d \in DOMAIN f} = {b[e] : e \in D}
    BY <1>1
  <2>. QED BY <2>1 DEF Screens!Left, Screens!Top, FirstOf
<1>3. t = [d \in D |-> <<g[d], h[d]>>]
  BY <1>1 DEF Screens!Trim
<1>. HIDE DEF a, b, t
<1>4. g \in [D -> Nat] /\ \E d \in D : g[d] = 0
  <2>1. g = FromFirst(D, a)
    BY <1>2 DEF FromFirst
  <2>. QED BY <1>1, <2>1, FirstIs
<1>5. h \in [D -> Nat] /\ \E d \in D : h[d] = 0
  <2>1. h = FromFirst(D, b)
    BY <1>2 DEF FromFirst
  <2>. QED BY <1>1, <2>1, FirstIs
<1>. HIDE DEF g, h
<1>6. Screens!Min({g[e] : e \in D}) = 0 /\ Screens!Min({h[e] : e \in D}) = 0
  BY <1>4, <1>5, Zeros
<1>7. DOMAIN t = D /\ t \in Grid(D) /\ \A d \in D : t[d][1] = g[d] /\ t[d][2] = h[d]
  BY <1>3, <1>4, <1>5 DEF Grid
<1>8. {t[d][1] : d \in DOMAIN t} = {g[e] : e \in D} /\ {t[d][2] : d \in DOMAIN t} = {h[e] : e \in D}
  BY <1>7
<1>9. Screens!Left(t) = 0 /\ Screens!Top(t) = 0
  BY <1>6, <1>8 DEF Screens!Left, Screens!Top
<1>10. Trimmed(t) /\ DOMAIN t = D
  BY <1>7, <1>9 DEF Trimmed
<1>. QED BY <1>10 DEF t

\* the counting of ScreenLayout is that of the library
LEMMA CountIs ==
  ASSUME NEW S PROVE Screens!Cardinality(S) = Cardinality(S)
BY DEF Screens!Cardinality, Cardinality

LEMMA RowsAre ==
  ASSUME NEW s, s \in [DOMAIN s -> Int \X Int], IsFiniteSet(DOMAIN s), DOMAIN s # {}
  PROVE  Trimmed(Screens!LogicalRows(s)) /\ DOMAIN Screens!LogicalRows(s) = DOMAIN s
<1>. DEFINE D == DOMAIN s
            a == [d \in D |-> s[d][1]]
            b == [d \in D |-> s[d][2]]
            g == Ranks(D, a)
            h == Ranks(D, b)
            t == Screens!LogicalRows(s)
<1>1. a \in [D -> Int] /\ b \in [D -> Int] /\ D # {} /\ IsFiniteSet(D)
  OBVIOUS
<1>2. ASSUME NEW d \in D
      PROVE  /\ {x \in {s[e][1] : e \in D} : x < s[d][1]} = Below(D, a, d)
             /\ {x \in {s[e][2] : e \in D} : x < s[d][2]} = Below(D, b, d)
  BY DEF Below
<1>3. t = [d \in D |-> <<g[d], h[d]>>]
  <2>1. \A d \in D : g[d] = Cardinality(Below(D, a, d)) /\ h[d] = Cardinality(Below(D, b, d))
    BY DEF Ranks
  <2>2. \A d \in D : t[d] = <<Screens!Cardinality({x \in {s[e][1] : e \in D} : x < s[d][1]}),
                            Screens!Cardinality({x \in {s[e][2] : e \in D} : x < s[d][2]})>>
    BY DEF Screens!LogicalRows
  <2>3. \A d \in D : t[d] = <<g[d], h[d]>>
    <3>. HIDE DEF a, b, g, h, t, D
    <3>. QED BY <1>2, <2>1, <2>2, CountIs
  <2>4. t = [d \in D |-> t[d]]
    BY DEF Screens!LogicalRows
  <2>. HIDE DEF g, h, t, D
  <2>. QED BY <2>3, <2>4
<1>. HIDE DEF a, b, D, t
<1>4. g \in [D -> Nat] /\ \E d \in D : g[d] = 0
  BY <1>1, RanksAre
<1>5. h \in [D -> Nat] /\ \E d \in D : h[d] = 0
  BY <1>1, RanksAre
<1>. HIDE DEF g, h
<1>6. Screens!Min({g[e] : e \in D}) = 0 /\ Screens!Min({h[e] : e \in D}) = 0
  BY <1>4, <1>5, Zeros
<1>7. DOMAIN t = D /\ t \in Grid(D) /\ \A d \in D : t[d][1] = g[d] /\ t[d][2] = h[d]
  BY <1>3, <1>4, <1>5 DEF Grid
<1>8. {t[d][1] : d \in DOMAIN t} = {g[e] : e \in D} /\ {t[d][2] : d \in DOMAIN t} = {h[e] : e \in D}
  BY <1>7
<1>9. Screens!Left(t) = 0 /\ Screens!Top(t) = 0
  BY <1>6, <1>8 DEF Screens!Left, Screens!Top
<1>10. Trimmed(t) /\ DOMAIN t = D
  BY <1>7, <1>9 DEF Trimmed
<1>. QED BY <1>10 DEF t, D

LEMMA DefaultIs == Trimmed(Screens!Default) /\ DOMAIN Screens!Default = {Solo}
<1>. DEFINE f == Screens!Default
<1>1. DOMAIN f = {Solo} /\ f \in Grid({Solo}) /\ \A d \in DOMAIN f : f[d][1] = 0 /\ f[d][2] = 0
  BY DEF Screens!Default, Grid
<1>. HIDE DEF f
<1>. DEFINE h == [d \in {Solo} |-> 0]
<1>2. {f[d][1] : d \in DOMAIN f} = {h[d] : d \in {Solo}} /\ {f[d][2] : d \in DOMAIN f} = {h[d] : d \in {Solo}}
  BY <1>1
<1>3. h \in [{Solo} -> Nat] /\ h[Solo] = 0
  OBVIOUS
<1>. HIDE DEF h
<1>4. Screens!Min({h[d] : d \in {Solo}}) = 0
  BY <1>3, Zeros
<1>5. Trimmed(f)
  BY <1>1, <1>2, <1>4 DEF Trimmed, Screens!Left, Screens!Top
<1>. QED BY <1>1, <1>5 DEF f

-----------------------------------------------------------------------------
(***************************************************************************)
(* A layout that shows the monitors there are: drawn or built, on a grid,  *)
(* with the displays of the desktop that was detected.                     *)
(***************************************************************************)
Rows(s) == IF s = None THEN Screens!Default ELSE Screens!LogicalRows(s)

ShowsOne(r, s) ==
  /\ r = [at |-> r.at, log |-> Rows(s), phys |-> r.phys, width |-> r.width, height |-> r.height]
  /\ r.phys \in Grid(DOMAIN Rows(s))
  /\ s = None => r.phys = Screens!Default

Shows(l, fd) == l = [n \in Node |-> l[n]] /\ \A n \in Node : ShowsOne(l[n], fd[n])

Known(fd) == \A n \in Node : fd[n] \in Snapshots[n] \cup {None}

Map(over) == over = None \/ (Trimmed(over) /\ DOMAIN over # {})

FileOK(f) == f = [at |-> f.at, over |-> f.over] /\ \A n \in Node : Map(f.over[n])

LEMMA RowsTrimmed ==
  ASSUME NEW n \in Node, NEW s \in Snapshots[n] \cup {None}
  PROVE  /\ Trimmed(Rows(s)) /\ DOMAIN Rows(s) # {}
         /\ s # None => DOMAIN Rows(s) = DOMAIN s
<1>1. CASE s = None
  BY <1>1, DefaultIs DEF Rows
<1>2. CASE s # None
  <2>1. s \in Snapshots[n]
    BY <1>2
  <2>2. s \in [DOMAIN s -> Int \X Int] /\ IsFiniteSet(DOMAIN s) /\ DOMAIN s # {}
    BY <2>1, MonitorsAreKnown
  <2>. QED BY <1>2, <2>2, RowsAre DEF Rows
<1>. QED BY <1>1, <1>2

\* what a node is built from: the rows and the map there are
LEMMA ResolveIs ==
  ASSUME NEW n \in Node, NEW s \in Snapshots[n] \cup {None}, NEW at, NEW over, Map(over)
  PROVE  \E p : /\ Screens!ResolveTopology(at, over, s) = Screens!LayoutNode(at, Rows(s), p)
                /\ Trimmed(p) /\ DOMAIN p = DOMAIN Rows(s)
                /\ s = None => p = Screens!Default
<1>1. CASE s = None
  BY <1>1, DefaultIs DEF Rows, Screens!ResolveTopology
<1>2. CASE s # None
  <2>. DEFINE p == Screens!OverrideRows(over, Screens!LogicalRows(s))
  <2>1. Screens!ResolveTopology(at, over, s) = Screens!LayoutNode(at, Rows(s), p)
    BY <1>2 DEF Rows, Screens!ResolveTopology
  <2>2. Rows(s) = Screens!LogicalRows(s) /\ Trimmed(Rows(s))
    BY <1>2, RowsTrimmed DEF Rows
  <2>3. Trimmed(p) /\ DOMAIN p = DOMAIN Rows(s)
    BY <2>2 DEF Map, Screens!OverrideRows
  <2>. QED BY <1>2, <2>1, <2>3
<1>. QED BY <1>1, <1>2

LEMMA LayoutNodeIs ==
  ASSUME NEW at, NEW s, NEW p, Trimmed(p), DOMAIN p = DOMAIN Rows(s), s = None => p = Screens!Default,
         Trimmed(Rows(s)),
         NEW r, r = Screens!LayoutNode(at, Rows(s), p)
  PROVE  /\ ShowsOne(r, s) /\ r.at = at /\ r.log = Rows(s) /\ r.phys = p
         /\ Screens!LayoutNode(r.at, Screens!Trim(r.log), Screens!Trim(r.phys)) = r
<1>1. r = [at |-> at, log |-> Rows(s), phys |-> p,
           width |-> Screens!Right(p) - Screens!Left(p), height |-> Screens!Bottom(p) - Screens!Top(p)]
  BY DEF Screens!LayoutNode
<1>2. r.at = at /\ r.log = Rows(s) /\ r.phys = p
  BY <1>1
<1>3. r = [at |-> r.at, log |-> Rows(s), phys |-> r.phys, width |-> r.width, height |-> r.height]
  BY <1>1
<1>4. Screens!Trim(r.log) = r.log /\ Screens!Trim(r.phys) = r.phys
  BY <1>2, TrimmedStays
<1>5. p \in Grid(DOMAIN Rows(s))
  BY DEF Trimmed
<1>. QED BY <1>2, <1>3, <1>4, <1>5 DEF ShowsOne

(***************************************************************************)
(* What is loaded shows the monitors, is where the file says, and is not   *)
(* changed by being sent.                                                  *)
(***************************************************************************)
LEMMA LoadedShows ==
  ASSUME NEW f, FileOK(f), NEW fd, Known(fd), NEW l, l = Screens!Loaded(f, fd)
  PROVE  /\ Shows(l, fd) /\ Screens!Rebuilt(l) = l
         /\ \A n \in Node : l[n].at = f.at[n]
<1>1. l = [n \in Node |-> Screens!ResolveTopology(f.at[n], f.over[n], fd[n])]
  BY DEF Screens!Loaded
<1>2. ASSUME NEW n \in Node
      PROVE  /\ ShowsOne(l[n], fd[n]) /\ l[n].at = f.at[n]
             /\ Screens!LayoutNode(l[n].at, Screens!Trim(l[n].log), Screens!Trim(l[n].phys)) = l[n]
  <2>1. fd[n] \in Snapshots[n] \cup {None} /\ Map(f.over[n])
    BY DEF Known, FileOK
  <2>2. PICK p : /\ Screens!ResolveTopology(f.at[n], f.over[n], fd[n]) = Screens!LayoutNode(f.at[n], Rows(fd[n]), p)
                 /\ Trimmed(p) /\ DOMAIN p = DOMAIN Rows(fd[n])
                 /\ fd[n] = None => p = Screens!Default
    BY <2>1, ResolveIs
  <2>3. l[n] = Screens!LayoutNode(f.at[n], Rows(fd[n]), p)
    BY <1>1, <2>2
  <2>4. Trimmed(Rows(fd[n]))
    BY <2>1, RowsTrimmed
  <2>. QED BY <2>2, <2>3, <2>4, LayoutNodeIs
<1>3. Screens!Rebuilt(l) = l
  BY <1>1, <1>2 DEF Screens!Rebuilt
<1>. QED BY <1>1, <1>2, <1>3 DEF Shows

LEMMA LoadedAgree ==
  ASSUME NEW f, NEW g, NEW fd, f.over = g.over, \A n \in Node : f.at[n] = g.at[n]
  PROVE  Screens!Loaded(f, fd) = Screens!Loaded(g, fd)
BY DEF Screens!Loaded

(***************************************************************************)
(* A layout that was sent shows the monitors too.                          *)
(***************************************************************************)
LEMMA RebuiltShows ==
  ASSUME NEW l, NEW fd, Known(fd), Shows(l, fd), NEW r, r = Screens!Rebuilt(l)
  PROVE  /\ Shows(r, fd)
         /\ \A n \in Node : /\ Trimmed(r[n].phys) /\ DOMAIN r[n].phys = DOMAIN Rows(fd[n])
                            /\ r[n] = Screens!LayoutNode(r[n].at, Rows(fd[n]), r[n].phys)
<1>1. r = [n \in Node |-> Screens!LayoutNode(l[n].at, Screens!Trim(l[n].log), Screens!Trim(l[n].phys))]
  BY DEF Screens!Rebuilt
<1>2. ASSUME NEW n \in Node
      PROVE  /\ ShowsOne(r[n], fd[n])
             /\ Trimmed(r[n].phys) /\ DOMAIN r[n].phys = DOMAIN Rows(fd[n])
             /\ r[n] = Screens!LayoutNode(r[n].at, Rows(fd[n]), r[n].phys)
  <2>. DEFINE s == fd[n]
              p == Screens!Trim(l[n].phys)
  <2>1. s \in Snapshots[n] \cup {None} /\ ShowsOne(l[n], s)
    BY DEF Known, Shows
  <2>2. Trimmed(Rows(s)) /\ DOMAIN Rows(s) # {}
    BY <2>1, RowsTrimmed
  <2>3. l[n].log = Rows(s) /\ l[n].phys \in Grid(DOMAIN Rows(s)) /\ (s = None => l[n].phys = Screens!Default)
    BY <2>1 DEF ShowsOne
  <2>4. Screens!Trim(l[n].log) = Rows(s)
    BY <2>2, <2>3, TrimmedStays
  <2>5. Trimmed(p) /\ DOMAIN p = DOMAIN Rows(s)
    BY <2>2, <2>3, TrimDoes
  <2>6. s = None => p = Screens!Default
    BY <2>3, DefaultIs, TrimmedStays
  <2>7. r[n] = Screens!LayoutNode(l[n].at, Rows(s), p)
    BY <1>1, <2>4
  <2>. HIDE DEF s, p
  <2>8. ShowsOne(r[n], s) /\ r[n].at = l[n].at /\ r[n].phys = p
    BY <2>2, <2>5, <2>6, <2>7, LayoutNodeIs
  <2>. QED BY <2>5, <2>7, <2>8 DEF s
<1>. QED BY <1>1, <1>2 DEF Shows

\* the maps that are written are maps
LEMMA OverridesFit ==
  ASSUME NEW l, NEW fd, NEW fe, Known(fd), Shows(l, fd)
  PROVE  \A n \in Node : Map(Screens!Overrides(l, fe)[n])
<1>. TAKE n \in Node
<1>1. fd[n] \in Snapshots[n] \cup {None} /\ ShowsOne(l[n], fd[n])
  BY DEF Known, Shows
<1>2. l[n].phys \in Grid(DOMAIN Rows(fd[n])) /\ DOMAIN Rows(fd[n]) # {}
  BY <1>1, RowsTrimmed DEF ShowsOne
<1>3. Trimmed(Screens!Trim(l[n].phys)) /\ DOMAIN Screens!Trim(l[n].phys) # {}
  BY <1>2, TrimDoes
<1>4. Screens!Overrides(l, fe)[n] \in {None, Screens!Trim(l[n].phys)}
  BY DEF Screens!Overrides
<1>. QED BY <1>3, <1>4 DEF Map

(***************************************************************************)
(* What was sent and saved is what is loaded.                              *)
(***************************************************************************)
LEMMA SavedLoaded ==
  ASSUME NEW l, NEW fd, Known(fd), Shows(l, fd), NEW r, r = Screens!Rebuilt(l),
         NEW f, f = Screens!Saved(r, fd)
  PROVE  FileOK(f) /\ Screens!Loaded(f, fd) = r
<1>1. /\ Shows(r, fd)
      /\ \A n \in Node : /\ Trimmed(r[n].phys) /\ DOMAIN r[n].phys = DOMAIN Rows(fd[n])
                         /\ r[n] = Screens!LayoutNode(r[n].at, Rows(fd[n]), r[n].phys)
  BY RebuiltShows
<1>2. f = [at |-> Screens!Positions(r), over |-> Screens!Overrides(r, fd)]
  BY DEF Screens!Saved
<1>3. FileOK(f)
  BY <1>1, <1>2, OverridesFit DEF FileOK
<1>4. ASSUME NEW n \in Node
      PROVE  Screens!ResolveTopology(f.at[n], f.over[n], fd[n]) = r[n]
  <2>. DEFINE s == fd[n]
              p == r[n].phys
              o == Screens!Overrides(r, fd)[n]
  <2>1. s \in Snapshots[n] \cup {None} /\ ShowsOne(r[n], s) /\ f.at[n] = r[n].at /\ f.over[n] = o
    <3>1. f.at = Screens!Positions(r) /\ f.over = Screens!Overrides(r, fd)
      BY <1>2
    <3>2. f.at[n] = r[n].at
      BY <3>1 DEF Screens!Positions
    <3>3. s \in Snapshots[n] \cup {None} /\ ShowsOne(r[n], s)
      BY <1>1 DEF Known, Shows
    <3>. QED BY <3>1, <3>2, <3>3
  <2>2. r[n] = Screens!LayoutNode(r[n].at, Rows(s), p) /\ Trimmed(p) /\ DOMAIN p = DOMAIN Rows(s)
    BY <1>1
  <2>3. CASE s = None
    BY <2>1, <2>2, <2>3 DEF ShowsOne, Rows, Screens!ResolveTopology
  <2>4. CASE s # None
    <3>1. Rows(s) = Screens!LogicalRows(s) /\ DOMAIN Rows(s) = DOMAIN s
      BY <2>1, <2>4, RowsTrimmed DEF Rows
    <3>2. Screens!Trim(p) = p
      BY <2>2, TrimmedStays
    <3>3. p # None
      <4>1. p \in [DOMAIN s -> Nat \X Nat]
        BY <2>2, <3>1 DEF Trimmed, Grid
      <4>2. None \notin [DOMAIN s -> Nat \X Nat]
        BY <2>1, <2>4, MonitorsAreKnown
      <4>. QED BY <4>1, <4>2
    <3>4. o = IF p # Rows(s) THEN p ELSE None
      BY <2>2, <2>4, <3>1, <3>2 DEF Screens!Overrides
    <3>. HIDE DEF o, p, s
    <3>5. Screens!OverrideRows(o, Rows(s)) = p
      BY <2>2, <3>3, <3>4 DEF Screens!OverrideRows
    <3>6. Screens!ResolveTopology(f.at[n], o, s) = Screens!LayoutNode(r[n].at, Rows(s), p)
      BY <2>1, <2>4, <3>1, <3>5 DEF Screens!ResolveTopology
    <3>. QED BY <2>1, <2>2, <3>6 DEF s
  <2>. QED BY <2>3, <2>4
<1>5. Screens!Loaded(f, fd) = r
  BY <1>1, <1>4 DEF Screens!Loaded, Shows
<1>. QED BY <1>3, <1>5

-----------------------------------------------------------------------------
(***************************************************************************)
(* Every layout shows the monitors that are known.  A node that has not    *)
(* kept a drawing of its own has the layout that its files give, and so    *)
(* have the others like it.                                                *)
(***************************************************************************)
InStep(fd, lay, fil, kept) ==
  /\ \A m \in Node \ kept : Screens!Loaded(fil[m], fd) = lay[m]
  /\ \A m, k \in Node \ kept : lay[m] = lay[k]

ScreensInv ==
  /\ Known(found) /\ found = [n \in Node |-> found[n]]
  /\ layout = [m \in Node |-> layout[m]] /\ \A m \in Node : Shows(layout[m], found)
  /\ file = [m \in Node |-> file[m]] /\ \A m \in Node : FileOK(file[m])
  /\ InStep(found, layout, file, ahead)

LEMMA FileIs ==
  ASSUME NEW at, NEW over, \A n \in Node : Map(over[n]), NEW f, f = [at |-> at, over |-> over]
  PROVE  FileOK(f)
<1>1. f.at = at /\ f.over = over
  OBVIOUS
<1>. QED BY <1>1 DEF FileOK

\* a node in step is where its file says, and its layout survives a frame
LEMMA InStepIs ==
  ASSUME ScreensInv, NEW m \in Node \ ahead
  PROVE  Screens!Rebuilt(layout[m]) = layout[m] /\ \A n \in Node : layout[m][n].at = file[m].at[n]
<1>1. layout[m] = Screens!Loaded(file[m], found) /\ FileOK(file[m]) /\ Known(found)
  BY DEF ScreensInv, InStep
<1>. QED BY <1>1, LoadedShows

LEMMA ScreensInitInv == Screens!ScreenInit => ScreensInv
<1>. SUFFICES ASSUME Screens!ScreenInit PROVE ScreensInv
  OBVIOUS
<1>1. Known(found) /\ found = [n \in Node |-> found[n]]
  BY DEF Screens!ScreenInit, Known
<1>2. \A m \in Node : file[m] = [at |-> Home, over |-> [n \in Node |-> None]]
  BY DEF Screens!ScreenInit
<1>3. \A m \in Node : FileOK(file[m])
  <2>1. \A n \in Node : Map([k \in Node |-> None][n])
    BY DEF Map
  <2>. QED BY <1>2, <2>1, FileIs
<1>4. \A m \in Node : layout[m] = Screens!Loaded(file[m], found)
  BY DEF Screens!ScreenInit
<1>5. \A m \in Node : Shows(layout[m], found)
  BY <1>1, <1>3, <1>4, LoadedShows
<1>6. InStep(found, layout, file, ahead)
  BY <1>2, <1>4 DEF InStep
<1>. QED BY <1>1, <1>3, <1>5, <1>6 DEF ScreensInv, Screens!ScreenInit

\* everyone is given the same layout and saves it
LEMMA GivenInv ==
  ASSUME NEW l, NEW fd, Known(fd), Shows(l, fd), NEW r, r = Screens!Rebuilt(l)
  PROVE  Shows(r, fd) /\ FileOK(Screens!Saved(r, fd)) /\ Screens!Loaded(Screens!Saved(r, fd), fd) = r
BY RebuiltShows, SavedLoaded

LEMMA PublishInv ==
  ASSUME ScreensInv, NEW m \in Node, NEW l, Shows(l, found), Screens!Publish(m, l)
  PROVE  ScreensInv'
<1>. DEFINE r == Screens!Rebuilt(l)
            f == Screens!Saved(r, found)
<1>1. found' = found /\ Known(found') /\ found' = [n \in Node |-> found'[n]]
  BY DEF Screens!Publish, ScreensInv
<1>2. Shows(r, found) /\ FileOK(f) /\ Screens!Loaded(f, found) = r
  BY GivenInv DEF ScreensInv
<1>3. CASE Screens!Overlapping(r)
  <2>1. layout' = [layout EXCEPT ![m] = l] /\ ahead' = ahead \cup {m} /\ file' = file
    BY <1>3 DEF Screens!Publish
  <2>2. layout' = [k \in Node |-> layout'[k]] /\ layout'[m] = l /\ \A k \in Node \ {m} : layout'[k] = layout[k]
    BY <2>1 DEF ScreensInv
  <2>3. \A k \in Node : Shows(layout'[k], found)
    BY <2>2 DEF ScreensInv
  <2>4. InStep(found', layout', file', ahead')
    BY <1>1, <2>1, <2>2 DEF ScreensInv, InStep
  <2>. QED BY <1>1, <2>1, <2>2, <2>3, <2>4 DEF ScreensInv
<1>4. CASE ~Screens!Overlapping(r)
  <2>1. file' = [k \in Node |-> f]
    BY <1>4 DEF Screens!Publish
  <2>2. PICK mine \in {l, r} : /\ layout' = [[k \in Node |-> r] EXCEPT ![m] = mine]
                               /\ ahead' = IF mine = r THEN {} ELSE {m}
    BY <1>4 DEF Screens!Publish
  <2>. HIDE DEF r, f
  <2>3. layout' = [k \in Node |-> layout'[k]] /\ layout'[m] = mine /\ \A k \in Node \ {m} : layout'[k] = r
    BY <2>2
  <2>4. \A k \in Node : Shows(layout'[k], found)
    BY <1>2, <2>2, <2>3
  <2>5. \A k \in Node \ ahead' : layout'[k] = r
    BY <2>2, <2>3
  <2>6. InStep(found', layout', file', ahead')
    BY <1>1, <1>2, <2>1, <2>5 DEF InStep
  <2>7. file' = [k \in Node |-> file'[k]] /\ \A k \in Node : FileOK(file'[k])
    BY <1>2, <2>1
  <2>. QED BY <1>1, <2>3, <2>4, <2>6, <2>7 DEF ScreensInv
<1>. QED BY <1>3, <1>4

\* what a user draws shows the monitors
LEMMA MovedShows ==
  ASSUME NEW l, NEW fd, Shows(l, fd), NEW n \in Node, NEW at
  PROVE  Shows(Screens!Moved(l, n, at), fd)
<1>. DEFINE r == Screens!Moved(l, n, at)
<1>1. l = [k \in Node |-> l[k]] /\ \A k \in Node : ShowsOne(l[k], fd[k])
  BY DEF Shows
<1>2. r = [k \in Node |-> r[k]] /\ r[n] = [l[n] EXCEPT !.at = at] /\ \A k \in Node \ {n} : r[k] = l[k]
  BY <1>1 DEF Screens!Moved
<1>. HIDE DEF r
<1>3. ShowsOne(r[n], fd[n])
  <2>1. /\ l[n] = [at |-> l[n].at, log |-> Rows(fd[n]), phys |-> l[n].phys, width |-> l[n].width, height |-> l[n].height]
        /\ l[n].phys \in Grid(DOMAIN Rows(fd[n]))
        /\ fd[n] = None => l[n].phys = Screens!Default
    BY <1>1 DEF ShowsOne
  <2>2. r[n] = [at |-> at, log |-> Rows(fd[n]), phys |-> l[n].phys, width |-> l[n].width, height |-> l[n].height]
    BY <1>2, <2>1
  <2>. QED BY <2>1, <2>2 DEF ShowsOne
<1>4. \A k \in Node : ShowsOne(r[k], fd[k])
  BY <1>1, <1>2, <1>3
<1>5. Shows(r, fd)
  BY <1>2, <1>4 DEF Shows
<1>. QED BY <1>5 DEF r

LEMMA ReplacedShows ==
  ASSUME NEW l, NEW fd, Shows(l, fd), NEW n \in Node, fd[n] # None,
         NEW phys \in Grid(DOMAIN Rows(fd[n]))
  PROVE  Shows(Screens!MonitorsReplaced(l, n, Screens!LogicalRows(fd[n]), phys), fd)
<1>. DEFINE r == Screens!MonitorsReplaced(l, n, Screens!LogicalRows(fd[n]), phys)
<1>1. l = [k \in Node |-> l[k]] /\ \A k \in Node : ShowsOne(l[k], fd[k])
  BY DEF Shows
<1>2. /\ r = [k \in Node |-> r[k]] /\ \A k \in Node \ {n} : r[k] = l[k]
      /\ r[n] = [Screens!LayoutNode(l[n].at, Screens!LogicalRows(fd[n]), phys)
                   EXCEPT !.width = Screens!Right(phys), !.height = Screens!Bottom(phys)]
  BY <1>1 DEF Screens!MonitorsReplaced
<1>3. r[n] = [at |-> l[n].at, log |-> Rows(fd[n]), phys |-> phys,
              width |-> Screens!Right(phys), height |-> Screens!Bottom(phys)]
  BY <1>2 DEF Screens!LayoutNode, Rows
<1>. HIDE DEF r
<1>4. ShowsOne(r[n], fd[n])
  BY <1>3 DEF ShowsOne
<1>5. \A k \in Node : ShowsOne(r[k], fd[k])
  BY <1>1, <1>2, <1>4
<1>6. Shows(r, fd)
  BY <1>2, <1>5 DEF Shows
<1>. QED BY <1>6 DEF r

LEMMA DragInv ==
  ASSUME ScreensInv, NEW m \in Node, NEW n \in Node, NEW at, Screens!Drag(m, n, at)
  PROVE  ScreensInv'
<1>1. Shows(Screens!Moved(layout[m], n, at), found)
  BY MovedShows DEF ScreensInv
<1>. QED BY <1>1, PublishInv DEF Screens!Drag

LEMMA MapEditInv ==
  ASSUME ScreensInv, NEW m \in Node, NEW n \in Node, NEW phys \in Screens!Maps(n),
         Screens!MapEdit(m, n, phys)
  PROVE  ScreensInv'
<1>. DEFINE l == Screens!MonitorsReplaced(layout[m], n, Screens!LogicalRows(found[n]), phys)
<1>1. found[n] # None /\ Screens!Publish(m, l)
  BY DEF Screens!MapEdit
<1>2. phys \in [DOMAIN found[n] -> Cell]
  BY <1>1 DEF Screens!Maps
<1>3. DOMAIN Rows(found[n]) = DOMAIN found[n]
  BY <1>1, RowsTrimmed DEF ScreensInv, Known
<1>4. phys \in Grid(DOMAIN Rows(found[n]))
  BY <1>2, <1>3, MonitorsAreKnown DEF Grid
<1>5. Shows(l, found)
  BY <1>1, <1>4, ReplacedShows DEF ScreensInv
<1>. QED BY <1>1, <1>5, PublishInv

(***************************************************************************)
(* New monitors: the maps are those of the layouts there were, and nodes   *)
(* in step had the same.                                                   *)
(***************************************************************************)
LEMMA DetectInv ==
  ASSUME ScreensInv, NEW n \in Node, NEW s \in Snapshots[n], Screens!Detect(n, s)
  PROVE  ScreensInv'
<1>1. found' = [k \in Node |-> found'[k]] /\ Known(found')
  BY DEF Screens!Detect, ScreensInv, Known
<1>2. /\ file' = [m \in Node |-> file'[m]]
      /\ \A m \in Node : file'[m] = [file[m] EXCEPT !.over = Screens!Overrides(layout[m], found')]
  BY DEF Screens!Detect
<1>3. \A m \in Node : file'[m] = [at |-> file[m].at, over |-> Screens!Overrides(layout[m], found')]
  <2>. SUFFICES ASSUME NEW m \in Node
                PROVE  file'[m] = [at |-> file[m].at, over |-> Screens!Overrides(layout[m], found')]
    OBVIOUS
  <2>1. file[m] = [at |-> file[m].at, over |-> file[m].over]
    BY DEF ScreensInv, FileOK
  <2>. QED BY <1>2, <2>1
<1>4. \A m \in Node : FileOK(file'[m])
  <2>. SUFFICES ASSUME NEW m \in Node PROVE FileOK(file'[m])
    OBVIOUS
  <2>1. \A k \in Node : Map(Screens!Overrides(layout[m], found')[k])
    BY OverridesFit DEF ScreensInv
  <2>. QED BY <1>3, <2>1, FileIs
<1>5. layout' = [m \in Node |-> layout'[m]] /\ \A m \in Node : layout'[m] = Screens!Loaded(file'[m], found')
  BY DEF Screens!Detect
<1>6. \A m \in Node : Shows(layout'[m], found')
  BY <1>1, <1>4, <1>5, LoadedShows
<1>7. ASSUME NEW m \in Node \ ahead, NEW k \in Node \ ahead PROVE layout'[m] = layout'[k]
  <2>1. layout[m] = layout[k]
    BY DEF ScreensInv, InStep
  <2>2. \A p \in Node : layout[m][p].at = file[m].at[p] /\ layout[k][p].at = file[k].at[p]
    BY InStepIs
  <2>3. ASSUME NEW q \in Node
        PROVE  file'[q].over = Screens!Overrides(layout[q], found') /\ file'[q].at = file[q].at
    <3>1. file'[q] = [at |-> file[q].at, over |-> Screens!Overrides(layout[q], found')]
      BY <1>3
    <3>. QED BY <3>1
  <2>. QED BY <1>5, <2>1, <2>2, <2>3, LoadedAgree
<1>8. InStep(found', layout', file', ahead')
  BY <1>5, <1>7 DEF InStep, Screens!Detect
<1>. QED BY <1>1, <1>2, <1>4, <1>5, <1>6, <1>8 DEF ScreensInv

LEMMA ToggleInv ==
  ASSUME ScreensInv, Screens!ToggleAutoSwitch
  PROVE  ScreensInv'
<1>. DEFINE r == Screens!Rebuilt(layout[Coord])
            f == Screens!Saved(r, found)
<1>1. found' = found /\ Known(found') /\ found' = [n \in Node |-> found'[n]] /\ ahead' = {}
  BY DEF Screens!ToggleAutoSwitch, ScreensInv
<1>2. Shows(r, found) /\ FileOK(f) /\ Screens!Loaded(f, found) = r
  BY GroupIsFinite, GivenInv DEF ScreensInv
<1>3. layout' = [m \in Node |-> r] /\ file' = [m \in Node |-> f]
  BY DEF Screens!ToggleAutoSwitch, Screens!ApplyLayout
<1>. HIDE DEF r, f
<1>4. InStep(found', layout', file', ahead')
  BY <1>1, <1>2, <1>3 DEF InStep
<1>. QED BY <1>1, <1>2, <1>3, <1>4 DEF ScreensInv

(***************************************************************************)
(* A node that is connected has what the coordinator would have after a    *)
(* frame, and that is what it has, if it is in step.                       *)
(***************************************************************************)
LEMMA SentAgainInv ==
  ASSUME ScreensInv, NEW m \in Node, Screens!Bound(m)
  PROVE  ScreensInv'
<1>. DEFINE r == Screens!Rebuilt(layout[Coord])
            f == Screens!Saved(r, found)
<1>1. found' = found /\ Known(found') /\ found' = [n \in Node |-> found'[n]] /\ m # Coord
  BY DEF Screens!Bound, ScreensInv
<1>2. Shows(r, found) /\ FileOK(f) /\ Screens!Loaded(f, found) = r
  BY GroupIsFinite, GivenInv DEF ScreensInv
<1>3. file' = [file EXCEPT ![m] = f] /\ layout' = [layout EXCEPT ![m] = Screens!Loaded(file'[m], found)]
  BY DEF Screens!Bound
<1>4. Coord \notin ahead => r = layout[Coord]
  BY GroupIsFinite, InStepIs
<1>. HIDE DEF r, f
<1>5. file' = [k \in Node |-> file'[k]] /\ file'[m] = f /\ \A k \in Node \ {m} : file'[k] = file[k]
  BY <1>3 DEF ScreensInv
<1>6. layout' = [k \in Node |-> layout'[k]] /\ layout'[m] = r /\ \A k \in Node \ {m} : layout'[k] = layout[k]
  BY <1>2, <1>3, <1>5 DEF ScreensInv
<1>7. ahead' = IF Coord \in ahead THEN ahead \cup {m} ELSE ahead \ {m}
  BY DEF Screens!Bound
<1>8. InStep(found', layout', file', ahead')
  <2>1. CASE Coord \in ahead
    BY <1>1, <1>5, <1>6, <1>7, <2>1 DEF ScreensInv, InStep
  <2>2. CASE Coord \notin ahead
    <3>1. Coord \in Node \ ahead' /\ ahead' = ahead \ {m}
      BY <1>7, <2>2, GroupIsFinite
    <3>2. \A k \in Node \ ahead' : layout'[k] = layout[Coord]
      BY <1>4, <1>6, <2>2, <3>1 DEF ScreensInv, InStep
    <3>3. \A k \in Node \ ahead' : Screens!Loaded(file'[k], found) = layout'[k]
      BY <1>2, <1>5, <1>6, <3>1 DEF ScreensInv, InStep
    <3>. QED BY <1>1, <3>2, <3>3 DEF InStep
  <2>. QED BY <2>1, <2>2
<1>9. \A k \in Node : FileOK(file'[k]) /\ Shows(layout'[k], found)
  BY <1>2, <1>5, <1>6 DEF ScreensInv
<1>. QED BY <1>1, <1>5, <1>6, <1>8, <1>9 DEF ScreensInv

LEMMA ReloadInv ==
  ASSUME ScreensInv, NEW m \in Node, Screens!Reload(m)
  PROVE  ScreensInv'
<1>1. UNCHANGED <<file, found, ahead>>
  BY DEF Screens!Reload
<1>2. /\ layout' = [k \in Node |-> layout'[k]] /\ layout'[m] = Screens!Loaded(file[m], found)
      /\ \A k \in Node \ {m} : layout'[k] = layout[k]
  BY DEF Screens!Reload, ScreensInv
<1>3. \A k \in Node : Shows(layout'[k], found)
  BY <1>2, LoadedShows DEF ScreensInv
<1>4. \A k \in Node \ ahead : layout'[k] = layout[k]
  BY <1>2 DEF ScreensInv, InStep
<1>5. InStep(found', layout', file', ahead')
  BY <1>1, <1>4 DEF ScreensInv, InStep
<1>. QED BY <1>1, <1>2, <1>3, <1>5 DEF ScreensInv

LEMMA ScreensStepInv == ScreensInv /\ [DeskNext]_deskVars => ScreensInv'
<1>. SUFFICES ASSUME ScreensInv, [DeskNext]_deskVars PROVE ScreensInv'
  OBVIOUS
<1>1. CASE UNCHANGED screenVars
  BY <1>1 DEF ScreensInv, screenVars
<1>2. CASE Screens!ScreenNext
  <2>1. ASSUME NEW m \in Drawer, NEW n \in Node, NEW at, Screens!Drag(m, n, at) PROVE ScreensInv'
    BY <2>1, DragInv, MonitorsAreKnown
  <2>2. ASSUME NEW m \in Drawer, NEW n \in Node, NEW phys \in Screens!Maps(n), Screens!MapEdit(m, n, phys)
        PROVE  ScreensInv'
    BY <2>2, MapEditInv, MonitorsAreKnown
  <2>. QED BY <1>2, <2>1, <2>2, DetectInv, ToggleInv, SentAgainInv, ReloadInv DEF Screens!ScreenNext
<1>. QED BY <1>1, <1>2 DEF DeskNext, deskVars, ElectionStep, ListStep, UpdateStep, StoreStep, ScreenStep

\* SameEdges: the edges of a screen lead to the same place whoever looks, from
\* whatever frame, file or detection a node has its layout, unless it has kept
\* a drawing that the others were not given.
THEOREM EdgesAgree == DeskSpec => []SameEdges
<1>1. DeskInit => ScreensInv
  BY ScreensInitInv DEF DeskInit
<1>2. ScreensInv => SameEdges
  BY DEF ScreensInv, InStep, SameEdges, Screens!SameEdges
<1>. QED BY <1>1, <1>2, ScreensStepInv, PTL DEF DeskSpec

-----------------------------------------------------------------------------
(***************************************************************************)
(* The outcomes of updates.  What is deleted from the files has been sent, *)
(* and what is dropped when the application ends is in the files.          *)
(***************************************************************************)
LEMMA ReportKeeps ==
  ASSUME Update!OutcomeKept, NEW outcomes, Update!Report(outcomes) PROVE Update!OutcomeKept'
BY DEF Update!OutcomeKept, Update!Report, Update!WriteOutcomes

LEMMA SilenceKeeps ==
  ASSUME Update!OutcomeKept, Update!Silent PROVE Update!OutcomeKept'
BY DEF Update!OutcomeKept, Update!Silent, Update!post

LEMMA ConcludeKeeps ==
  ASSUME Update!OutcomeKept, NEW what, Update!Conclude(what) PROVE Update!OutcomeKept'
BY ReportKeeps DEF Update!Conclude

LEMMA CheckKeeps ==
  ASSUME Update!OutcomeKept, Update!FinishCheck \/ Update!CheckTimesOut PROVE Update!OutcomeKept'
<1>1. CASE Update!CheckFailed
  BY <1>1, ConcludeKeeps, SilenceKeeps DEF Update!CheckFailed
<1>2. ASSUME NEW result, Update!CheckDone(result) PROVE Update!OutcomeKept'
  BY <1>2, ConcludeKeeps, SilenceKeeps DEF Update!CheckDone
<1>. QED BY <1>1, <1>2 DEF Update!FinishCheck, Update!CheckTimesOut

LEMMA InstallKeeps ==
  ASSUME Update!OutcomeKept, Update!FinishInstall \/ Update!DownloadFails \/ Update!DownloadReady
  PROVE  Update!OutcomeKept'
<1>1. CASE Update!InstallFailed
  BY <1>1, ConcludeKeeps, SilenceKeeps DEF Update!InstallFailed
<1>2. CASE Update!Silent
  BY <1>2, SilenceKeeps
<1>. QED BY <1>1, <1>2 DEF Update!FinishInstall, Update!InstallPrepared, Update!DownloadFails, Update!DownloadReady

LEMMA CommandKeeps ==
  ASSUME Update!OutcomeKept, NEW c, Update!StartRemoteUpdate(c) PROVE Update!OutcomeKept'
BY ReportKeeps, SilenceKeeps DEF Update!StartRemoteUpdate

LEMMA PostKeeps ==
  ASSUME Update!OutcomeKept, Update!FlushRetries \/ Update!DeliverFiles PROVE Update!OutcomeKept'
BY DEF Update!OutcomeKept, Update!FlushRetries, Update!DeliverFiles, Update!ConsumeOutcomes

LEMMA HandoffKeeps ==
  ASSUME Update!OutcomeKept, NEW c, Update!RunHandoff(c) PROVE Update!OutcomeKept'
BY DEF Update!OutcomeKept, Update!RunHandoff, Update!WriteOutcomes

LEMMA OthersKeep ==
  ASSUME Update!OutcomeKept,
         \/ \E t \in Update!Trigger : Update!StartCheck(t)
         \/ Update!InstallUpdate \/ Update!End \/ Update!Start \/ Update!Break \/ Update!Rebind
  PROVE  Update!OutcomeKept'
BY DEF Update!OutcomeKept, Update!StartCheck, Update!InstallUpdate, Update!End, Update!Start,
       Update!Break, Update!Rebind, Update!post

\* The part of UpdateReported that is about safety: an outcome that has been
\* decided has been sent or is in a file, whatever breaks and ends at whatever
\* moment (StatusWindow._emit_remote_update_status_for, run_update_handoff).
THEOREM OutcomesSurvive == DeskSpec => []Update!OutcomeKept
<1>1. DeskInit => Update!OutcomeKept
  BY DEF DeskInit, Update!Init, Update!OutcomeKept
<1>2. Update!OutcomeKept /\ [DeskNext]_deskVars => Update!OutcomeKept'
  <2>. SUFFICES ASSUME Update!OutcomeKept, [DeskNext]_deskVars PROVE Update!OutcomeKept'
    OBVIOUS
  <2>1. CASE UNCHANGED updateVars
    BY <2>1 DEF updateVars, Update!OutcomeKept
  <2>2. CASE Update!Next
    BY <2>2, CheckKeeps, InstallKeeps, CommandKeeps, PostKeeps, HandoffKeeps, OthersKeep DEF Update!Next
  <2>. QED BY <2>1, <2>2 DEF DeskNext, deskVars, ElectionStep, ListStep, UpdateStep, StoreStep, ScreenStep
<1>. QED BY <1>1, <1>2, PTL DEF DeskSpec

-----------------------------------------------------------------------------
(***************************************************************************)
(* The types.  A part that does not run stays as it is.                    *)
(***************************************************************************)
LEMMA ElectionTypes == DeskSpec => []TypeOK
<1>1. DeskInit => IInv
  <2>1. Settled => IInv
    BY ElectionAssumption, AgeFacts DEF Settled, IInv, TypeOK, SelfTracked, ChallengerTracked, Peers
  <2>. QED BY <2>1, InitInv DEF DeskInit
<1>2. [DeskNext]_deskVars => [Next]_vars
  BY DEF DeskNext, deskVars, electVars, ElectionStep, ListStep, UpdateStep, StoreStep, ScreenStep
<1>3. IInv => TypeOK
  BY DEF IInv
<1>. QED BY <1>1, <1>2, <1>3, NextInv, PTL DEF DeskSpec

(***************************************************************************)
(* The updates.                                                            *)
(***************************************************************************)
LEMMA JobsAre ==
  ASSUME NEW t \in Update!Trigger
  PROVE  /\ Update!Thread(t) \in Update!Job
         /\ Update!Group(t) \subseteq Update!Job
<1>1. Update!Thread(t) \in Update!Job
  BY DEF Update!Thread, Update!Job
<1>2. ASSUME NEW d \in BOOLEAN
      PROVE  [trigger |-> t, by |-> "group", due |-> d, tracked |-> TRUE] \in Update!Job
  BY DEF Update!Job
<1>. QED BY <1>1, <1>2 DEF Update!Group

LEMMA JobHas ==
  ASSUME NEW j \in Update!Job PROVE j.trigger \in Update!Trigger
BY DEF Update!Job

LEMMA BeginCheckTypes ==
  ASSUME NEW t \in Update!Trigger, Update!BeginCheck(t)
  PROVE  check' \in Update!Job
BY JobsAre DEF Update!BeginCheck

LEMMA BeginInstallTypes ==
  ASSUME Update!TypeOK, NEW t \in Update!Trigger, NEW result, Update!BeginInstall(t, result)
  PROVE  install' \in Update!Job \cup {None}
BY JobsAre DEF Update!BeginInstall, Update!Download, Update!TypeOK

PostOK == ended \subseteq Update!Outcome /\ files \subseteq Update!Outcome
          /\ retry \subseteq Update!Outcome /\ sent \subseteq Update!Outcome

LEMMA ReportTypes ==
  ASSUME Update!TypeOK, NEW o \in SUBSET Update!Outcome, Update!Report(o)
  PROVE  PostOK'
BY DEF Update!TypeOK, Update!Report, Update!WriteOutcomes, PostOK

LEMMA SilentTypes ==
  ASSUME Update!TypeOK, Update!Silent
  PROVE  PostOK'
BY DEF Update!TypeOK, Update!Silent, Update!post, PostOK

LEMMA ConcludeTypes ==
  ASSUME Update!TypeOK, NEW what \in {"failed", "no_update"}, Update!Conclude(what)
  PROVE  PostOK' /\ pending' = None
<1>1. (IF pending = None THEN {} ELSE {<<pending, what>>}) \in SUBSET Update!Outcome
  BY DEF Update!TypeOK, Update!Outcome
<1>. QED BY <1>1, ReportTypes DEF Update!Conclude

PageOK ==
  /\ check \in Update!Job \cup {None} /\ install \in Update!Job \cup {None}
  /\ latest \in {None, "current", "available", "no_file"}
  /\ pending \in Button \cup {None}

LEMMA CheckFailedTypes ==
  ASSUME Update!TypeOK, Update!CheckFailed
  PROVE  PageOK' /\ PostOK'
<1>1. "manual" \in Update!Trigger
  BY DEF Update!Trigger
<1>2. PostOK'
  BY ConcludeTypes, SilentTypes DEF Update!CheckFailed
<1>3. check' \in Update!Job \cup {None}
  BY <1>1, JobsAre DEF Update!CheckFailed
<1>4. pending' \in Button \cup {None}
  BY ConcludeTypes DEF Update!CheckFailed, Update!TypeOK
<1>. QED BY <1>2, <1>3, <1>4 DEF Update!CheckFailed, Update!TypeOK, PageOK

LEMMA CheckDoneTypes ==
  ASSUME Update!TypeOK, NEW result \in {"current", "available", "no_file"}, Update!CheckDone(result)
  PROVE  PageOK' /\ PostOK'
<1>1. "remote" \in Update!Trigger
  BY DEF Update!Trigger
<1>2. PostOK'
  BY ConcludeTypes, SilentTypes DEF Update!CheckDone
<1>3. install' \in Update!Job \cup {None}
  BY <1>1, BeginInstallTypes DEF Update!CheckDone, Update!TypeOK
<1>4. pending' \in Button \cup {None}
  BY ConcludeTypes DEF Update!CheckDone, Update!TypeOK
<1>. QED BY <1>2, <1>3, <1>4 DEF Update!CheckDone, Update!TypeOK, PageOK

LEMMA PageTypes ==
  ASSUME Update!TypeOK, PageOK', PostOK',
         UNCHANGED <<asked, ran, linked, clicks, breaks>>,
         app' \in {"up", "quitting", "down"}, helpers' \subseteq Button \cup {None}
  PROVE  Update!TypeOK'
BY DEF Update!TypeOK, PageOK, PostOK

LEMMA ChecksEndTypes ==
  ASSUME Update!TypeOK, Update!FinishCheck \/ Update!CheckTimesOut
  PROVE  Update!TypeOK'
<1>1. PageOK' /\ PostOK'
  BY CheckFailedTypes, CheckDoneTypes DEF Update!FinishCheck, Update!CheckTimesOut
<1>2. UNCHANGED <<app, asked, helpers, ran, linked, clicks, breaks>>
  BY DEF Update!FinishCheck, Update!CheckTimesOut
<1>. QED BY <1>1, <1>2, PageTypes DEF Update!TypeOK

LEMMA InstallsEndTypes ==
  ASSUME Update!TypeOK, Update!FinishInstall \/ Update!DownloadFails \/ Update!DownloadReady
  PROVE  Update!TypeOK'
<1>1. CASE Update!InstallFailed
  <2>1. PostOK'
    BY <1>1, ConcludeTypes, SilentTypes DEF Update!InstallFailed
  <2>2. pending' \in Button \cup {None}
    BY <1>1, ConcludeTypes DEF Update!InstallFailed, Update!TypeOK
  <2>3. UNCHANGED <<asked, ran, linked, clicks>>
    BY DEF Update!FinishInstall, Update!DownloadFails, Update!DownloadReady
  <2>4. PageOK'
    BY <1>1, <2>2 DEF Update!InstallFailed, Update!TypeOK, PageOK
  <2>. QED BY <1>1, <2>1, <2>3, <2>4, PageTypes DEF Update!InstallFailed, Update!TypeOK
<1>2. CASE Update!FinishInstall /\ Update!InstallPrepared
  <2>1. PostOK'
    BY <1>2, SilentTypes DEF Update!InstallPrepared
  <2>2. PageOK'
    BY <1>2 DEF Update!InstallPrepared, Update!TypeOK, PageOK
  <2>3. helpers' \subseteq Button \cup {None}
    BY <1>2 DEF Update!InstallPrepared, Update!Prepare, Update!Launch, Update!TypeOK
  <2>. QED BY <1>2, <2>1, <2>2, <2>3, PageTypes DEF Update!InstallPrepared, Update!FinishInstall
<1>3. CASE Update!DownloadReady
  <2>1. install \in Update!Job
    BY <1>3 DEF Update!DownloadReady, Update!TypeOK
  <2>2. install' \in Update!Job
    BY <1>3, <2>1, JobHas, JobsAre DEF Update!DownloadReady
  <2>3. PostOK'
    BY <1>3, SilentTypes DEF Update!DownloadReady
  <2>. QED BY <1>3, <2>2, <2>3 DEF Update!DownloadReady, Update!TypeOK, PostOK
<1>. QED BY <1>1, <1>2, <1>3 DEF Update!FinishInstall, Update!DownloadFails

LEMMA CommandTypes ==
  ASSUME Update!TypeOK, NEW c \in Button, Update!StartRemoteUpdate(c)
  PROVE  Update!TypeOK'
<1>1. "remote" \in Update!Trigger /\ {<<c, "failed">>} \in SUBSET Update!Outcome
  BY DEF Update!Trigger, Update!Outcome
<1>2. PostOK'
  BY <1>1, ReportTypes, SilentTypes DEF Update!StartRemoteUpdate
<1>3. CASE Update!Busy
  BY <1>2, <1>3 DEF Update!StartRemoteUpdate, Update!page, Update!TypeOK, PostOK
<1>4. CASE ~Update!Busy
  <2>1. check' \in Update!Job \cup {None}
    BY <1>1, <1>4, BeginCheckTypes DEF Update!StartRemoteUpdate, Update!TypeOK
  <2>2. install' \in Update!Job \cup {None}
    BY <1>1, <1>4, BeginInstallTypes DEF Update!StartRemoteUpdate, Update!TypeOK
  <2>. QED BY <1>2, <1>4, <2>1, <2>2 DEF Update!StartRemoteUpdate, Update!TypeOK, PostOK
<1>. QED BY <1>3, <1>4

LEMMA ClickTypes ==
  ASSUME Update!TypeOK,
         Update!InstallUpdate \/ \E t \in Update!Trigger : Update!StartCheck(t)
  PROVE  Update!TypeOK'
<1>1. clicks' \in 0 .. MaxClicks
  BY BoundsAreNumbers DEF Update!InstallUpdate, Update!StartCheck, Update!Click, Update!TypeOK
<1>2. "manual" \in Update!Trigger
  BY DEF Update!Trigger
<1>3. CASE Update!InstallUpdate
  <2>1. install' \in Update!Job \cup {None}
    BY <1>2, <1>3, BeginInstallTypes DEF Update!InstallUpdate
  <2>. QED BY <1>1, <1>3, <2>1 DEF Update!InstallUpdate, Update!TypeOK, Update!post
<1>4. ASSUME NEW t \in Update!Trigger, Update!StartCheck(t) PROVE Update!TypeOK'
  <2>1. check' \in Update!Job
    BY <1>4, BeginCheckTypes DEF Update!StartCheck
  <2>. QED BY <1>1, <1>4, <2>1 DEF Update!StartCheck, Update!TypeOK, Update!post
<1>. QED BY <1>3, <1>4

LEMMA RunTypes ==
  ASSUME Update!TypeOK, NEW c \in Button \cup {None}, Update!RunHandoff(c)
  PROVE  Update!TypeOK'
<1>1. PICK what \in {"completed", "failed"} :
        LET outcome == IF c = None THEN {} ELSE {<<c, what>>}
        IN  Update!WriteOutcomes(outcome) /\ ended' = ended \cup outcome
  BY DEF Update!RunHandoff
<1>. DEFINE outcome == IF c = None THEN {} ELSE {<<c, what>>}
<1>2. outcome \subseteq Update!Outcome
  BY DEF Update!Outcome
<1>3. files' = files \cup outcome /\ ended' = ended \cup outcome
  BY <1>1 DEF Update!WriteOutcomes
<1>. HIDE DEF outcome
<1>. QED BY <1>2, <1>3 DEF Update!RunHandoff, Update!TypeOK, Update!page

LEMMA OtherUpdateTypes ==
  ASSUME Update!TypeOK,
         \/ Update!FlushRetries \/ Update!DeliverFiles
         \/ Update!End \/ Update!Start \/ Update!Break \/ Update!Rebind
  PROVE  Update!TypeOK'
<1>1. breaks' \in 0 .. MaxBreaks
  BY BoundsAreNumbers DEF Update!FlushRetries, Update!DeliverFiles, Update!End, Update!Start,
                          Update!Break, Update!Rebind, Update!TypeOK
<1>2. CASE Update!FlushRetries \/ Update!DeliverFiles
  BY <1>2 DEF Update!FlushRetries, Update!DeliverFiles, Update!ConsumeOutcomes, Update!TypeOK, Update!page
<1>3. CASE Update!End \/ Update!Start
  BY <1>1, <1>3 DEF Update!End, Update!Start, Update!TypeOK, Update!page, Update!post
<1>4. CASE Update!Break \/ Update!Rebind
  BY <1>1, <1>4 DEF Update!Break, Update!Rebind, Update!TypeOK, Update!page, Update!post
<1>. QED BY <1>2, <1>3, <1>4

LEMMA UpdateTypes == DeskSpec => []Update!TypeOK
<1>1. DeskInit => Update!TypeOK
  BY BoundsAreNumbers DEF DeskInit, Update!Init, Update!TypeOK
<1>2. Update!TypeOK /\ [DeskNext]_deskVars => Update!TypeOK'
  <2>. SUFFICES ASSUME Update!TypeOK, [DeskNext]_deskVars PROVE Update!TypeOK'
    OBVIOUS
  <2>1. CASE UNCHANGED updateVars
    BY <2>1 DEF updateVars, Update!TypeOK
  <2>2. CASE Update!Next
    BY <2>2, ChecksEndTypes, InstallsEndTypes, CommandTypes, ClickTypes, RunTypes, OtherUpdateTypes
    DEF Update!Next
  <2>. QED BY <2>1, <2>2 DEF DeskNext, deskVars, ElectionStep, ListStep, UpdateStep, StoreStep, ScreenStep
<1>. QED BY <1>1, <1>2, PTL DEF DeskSpec

-----------------------------------------------------------------------------
(***************************************************************************)
(* The configuration: numbers of calls that there have been.               *)
(***************************************************************************)
Rest(i) == SubSeq(Store!File, i, 3)

LEMMA RestIs ==
  /\ Rest(1) = Store!File
  /\ \A i \in 1 .. 3 : Rest(i) # <<>> /\ Tail(Rest(i)) = Rest(i + 1)
  /\ Rest(4) = <<>>
<1>. DEFINE S == {{"nodes", "settings"}, {"layout"}, {"inventory"}}
<1>1. Store!File \in Seq(S) /\ Len(Store!File) = 3
  BY DEF Store!File
<1>. HIDE DEF S
<1>2. \A k \in 1 .. 3 : Store!File[k] \in S
  BY <1>1
<1>3. Rest(1) = Store!File
  BY <1>1, SubSeqFull DEF Rest
<1>4. Rest(4) = <<>>
  BY <1>1, SubSeqEmpty DEF Rest
<1>5. ASSUME NEW i \in 1 .. 3 PROVE Rest(i) # <<>> /\ Tail(Rest(i)) = Rest(i + 1)
  <2>1. /\ Rest(i) \in Seq(S) /\ Len(Rest(i)) = 4 - i
        /\ \A k \in 1 .. 4 - i : Rest(i)[k] = Store!File[i + k - 1]
    <3>1. \A k \in i .. 3 : Store!File[k] \in S
      BY <1>2
    <3>2. i <= 3 /\ 3 - i + 1 = 4 - i /\ i \in Int
      OBVIOUS
    <3>. QED BY <3>1, <3>2, SubSeqProperties DEF Rest
  <2>2. /\ Rest(i + 1) \in Seq(S) /\ Len(Rest(i + 1)) = 3 - i
        /\ \A k \in 1 .. 3 - i : Rest(i + 1)[k] = Store!File[i + 1 + k - 1]
    <3>1. \A k \in i + 1 .. 3 : Store!File[k] \in S
      BY <1>2
    <3>2. i + 1 \in Int /\ 3 - (i + 1) + 1 = 3 - i
      OBVIOUS
    <3>3. IF i + 1 <= 3 THEN 3 - (i + 1) + 1 = 3 - i ELSE 0 = 3 - i
      OBVIOUS
    <3>4. /\ SubSeq(Store!File, i + 1, 3) \in Seq(S)
          /\ Len(SubSeq(Store!File, i + 1, 3)) = IF i + 1 <= 3 THEN 3 - (i + 1) + 1 ELSE 0
          /\ \A k \in 1 .. 3 - (i + 1) + 1 : SubSeq(Store!File, i + 1, 3)[k] = Store!File[i + 1 + k - 1]
      BY <3>1, <3>2, SubSeqProperties
    <3>. QED BY <3>2, <3>3, <3>4 DEF Rest
  <2>3. Rest(i) # <<>>
    BY <2>1
  <2>4. /\ Tail(Rest(i)) \in Seq(S) /\ Len(Tail(Rest(i))) = 3 - i
        /\ \A k \in 1 .. 3 - i : Tail(Rest(i))[k] = Rest(i)[k + 1]
    BY <2>1, <2>3, HeadTailProperties
  <2>5. \A k \in 1 .. 3 - i : Rest(i)[k + 1] = Store!File[i + k]
    BY <2>1
  <2>6. \A k \in 1 .. 3 - i : i + 1 + k - 1 = i + k
    OBVIOUS
  <2>7. Tail(Rest(i)) = Rest(i + 1)
    BY <2>2, <2>4, <2>5, <2>6, SeqEqual
  <2>. QED BY <2>3, <2>7
<1>. QED BY <1>3, <1>4, <1>5

LEMMA RestLeft ==
  ASSUME Store!TypeOK
  PROVE  /\ \E i \in 1 .. 4 : unwritten = Rest(i)
         /\ unwritten # <<>> => \E i \in 1 .. 4 : Tail(unwritten) = Rest(i)
<1>1. PICK i \in 1 .. 4 : unwritten = Rest(i)
  BY DEF Store!TypeOK, Rest
<1>2. ASSUME unwritten # <<>> PROVE \E j \in 1 .. 4 : Tail(unwritten) = Rest(j)
  <2>1. i \in 1 .. 3
    BY <1>1, <1>2, RestIs
  <2>. QED BY <1>1, <2>1, RestIs
<1>. QED BY <1>1, <1>2

CallOK(k) == k.kind \in Store!Kind /\ k.no \in 1 .. MaxCalls /\ k.snapshots \subseteq 1 .. MaxCalls

CallsOK == \A t \in Caller : call[t] # None => CallOK(call[t])

LEMMA StoreTypeIs ==
  Store!TypeOK <=>
    /\ disk \in Store!Content /\ ctx \in Store!Content /\ content \in Store!Content /\ before \in Store!Content
    /\ CallsOK /\ lock \in Caller \cup {None}
    /\ \E i \in 1 .. 4 : unwritten = Rest(i)
    /\ restart \in BOOLEAN
    /\ saved \in [nodes : 0 .. MaxCalls, settings : 0 .. MaxCalls]
    /\ calls \in 0 .. MaxCalls /\ fails \in 0 .. MaxFails
<1>1. unwritten \in {SubSeq(Store!File, i, 3) : i \in 1 .. 4} <=> \E i \in 1 .. 4 : unwritten = Rest(i)
  BY DEF Rest
<1>2. CallsOK <=> \A t \in Caller :
       call[t] # None => /\ call[t].kind \in Store!Kind /\ call[t].no \in 1 .. MaxCalls
                         /\ call[t].snapshots \subseteq 1 .. MaxCalls
  BY DEF CallsOK, CallOK
<1>. QED BY <1>1, <1>2, Zenon DEF Store!TypeOK

LEMMA BeginTypes ==
  ASSUME StoreInv, Store!TypeOK, NEW t \in Caller, NEW kind \in Calls[t], Store!Begin(t, kind)
  PROVE  Store!TypeOK'
<1>1. calls' \in 1 .. MaxCalls
  BY BoundsAreNumbers DEF Store!Begin, Store!TypeOK
<1>2. kind \in Store!Kind
  BY CallersAreThreads
<1>3. ctx \in Store!Content
  BY DEF Store!TypeOK
<1>4. ctx' \in Store!Content
  BY <1>1, <1>3 DEF Store!Begin, Store!Content
<1>5. DOMAIN call = Caller
  BY DEF StoreInv, StoreTypes
<1>. DEFINE snaps == IF kind = "inventory" THEN ctx.inventory \cup {calls'} ELSE {}
<1>6. snaps \subseteq 1 .. MaxCalls
  BY <1>1, <1>3 DEF Store!Content
<1>7. call' = [call EXCEPT ![t] = [kind |-> kind, no |-> calls', snapshots |-> snaps]]
  BY DEF Store!Begin
<1>. HIDE DEF snaps
<1>8. \A u \in Caller \ {t} : call'[u] = call[u]
  BY <1>5, <1>7
<1>9. CallOK(call'[t])
  BY <1>1, <1>2, <1>5, <1>6, <1>7 DEF CallOK
<1>10. CallsOK'
  BY <1>8, <1>9, StoreTypeIs DEF CallsOK
<1>. QED BY <1>1, <1>4, <1>10 DEF Store!Begin, Store!TypeOK, CallsOK, CallOK

LEMMA EnterTypes ==
  ASSUME StoreInv, Store!TypeOK, NEW t \in Caller, Store!Enter(t)
  PROVE  Store!TypeOK'
<1>. DEFINE k == call[t]
<1>1. CallOK(k)
  BY StoreTypeIs DEF CallsOK, Store!Enter
<1>2. Store!Changed(k) \in Store!Content
  <2>1. k.no \in 0 .. MaxCalls /\ k.snapshots \subseteq 1 .. MaxCalls
    BY <1>1 DEF CallOK
  <2>2. disk \in Store!Content /\ ctx \in Store!Content
    BY DEF Store!TypeOK
  <2>. HIDE DEF k
  <2>3. /\ Store!WithLayout(k) \in Store!Content /\ Store!WithInventory(k) \in Store!Content
        /\ Store!WithNote(k) \in Store!Content /\ Store!WithSettings(k) \in Store!Content
    BY <2>1, <2>2 DEF Store!WithLayout, Store!WithInventory, Store!WithNote, Store!WithSettings, Store!Content
  <2>4. Store!WithNodes(k) \in Store!Content /\ Store!WithBoth(k) \in Store!Content
    BY <2>1, <2>2 DEF Store!WithNodes, Store!WithBoth, Store!Content
  <2>. QED BY <2>2, <2>3, <2>4 DEF Store!Changed
<1>3. \E i \in 1 .. 4 : unwritten' = Rest(i)
  BY RestIs DEF Store!Enter
<1>4. CallsOK'
  BY StoreTypeIs DEF Store!Enter, CallsOK
<1>5. /\ disk' \in Store!Content /\ ctx' \in Store!Content /\ content' \in Store!Content /\ before' \in Store!Content
      /\ lock' \in Caller \cup {None} /\ restart' \in BOOLEAN
      /\ saved' \in [nodes : 0 .. MaxCalls, settings : 0 .. MaxCalls]
      /\ calls' \in 0 .. MaxCalls /\ fails' \in 0 .. MaxFails
  BY <1>2, StoreTypeIs DEF Store!Enter
<1>. QED BY <1>3, <1>4, <1>5 DEF Store!TypeOK, CallsOK, CallOK, Rest

LEMMA WriteFileTypes ==
  ASSUME StoreInv, Store!TypeOK, NEW t \in Caller, Store!WriteFile(t)
  PROVE  Store!TypeOK'
<1>1. DOMAIN disk = {"nodes", "settings", "layout", "inventory"}
  BY DEF Store!TypeOK, Store!Content
<1>2. disk' = [nodes     |-> IF "nodes" \in Head(unwritten) THEN content.nodes ELSE disk.nodes,
               settings  |-> IF "settings" \in Head(unwritten) THEN content.settings ELSE disk.settings,
               layout    |-> IF "layout" \in Head(unwritten) THEN content.layout ELSE disk.layout,
               inventory |-> IF "inventory" \in Head(unwritten) THEN content.inventory ELSE disk.inventory]
  BY <1>1 DEF Store!WriteFile
<1>3. disk' \in Store!Content
  BY <1>2 DEF Store!TypeOK, Store!Content
<1>4. \E i \in 1 .. 4 : unwritten' = Rest(i)
  BY RestLeft DEF Store!WriteFile
<1>. QED BY <1>3, <1>4 DEF Store!WriteFile, Store!TypeOK, Rest

LEMMA LeaveTypes ==
  ASSUME StoreInv, Store!TypeOK, NEW t \in Caller, Store!Leave(t)
  PROVE  CallsOK' /\ lock' \in Caller \cup {None} /\ \E i \in 1 .. 4 : unwritten' = Rest(i)
<1>1. \A u \in Caller : call'[u] = None \/ call'[u] = call[u]
  BY DEF Store!Leave, StoreInv, StoreTypes
<1>2. CallsOK'
  BY <1>1, StoreTypeIs DEF CallsOK
<1>. QED BY <1>2, RestIs DEF Store!Leave

LEMMA WriteFailsTypes ==
  ASSUME StoreInv, Store!TypeOK, NEW t \in Caller, Store!WriteFails(t)
  PROVE  Store!TypeOK'
<1>1. fails' \in 0 .. MaxFails
  BY BoundsAreNumbers DEF Store!WriteFails, Store!TypeOK
<1>. QED BY <1>1, LeaveTypes DEF Store!WriteFails, Store!TypeOK, CallsOK, CallOK, Rest

LEMMA ApplyTypes ==
  ASSUME StoreInv, Store!TypeOK, NEW t \in Caller, Store!Apply(t)
  PROVE  Store!TypeOK'
<1>1. lock = t /\ t # None
  BY CallersAreThreads DEF Store!Apply
<1>2. CallOK(call[t])
  BY <1>1, StoreTypeIs DEF CallsOK, StoreInv, HeldInOrder
<1>3. ctx' \in Store!Content
  BY DEF Store!Apply, Store!TypeOK, Store!Content
<1>4. saved' \in [nodes : 0 .. MaxCalls, settings : 0 .. MaxCalls]
  <2>1. call[t].no \in 0 .. MaxCalls
    BY <1>2 DEF CallOK
  <2>. QED BY <2>1 DEF Store!Apply, Store!TypeOK
<1>5. restart' \in BOOLEAN
  BY Zenon DEF Store!Apply, Store!TypeOK
<1>. QED BY <1>3, <1>4, <1>5, LeaveTypes DEF Store!Apply, Store!TypeOK, CallsOK, CallOK, Rest

LEMMA StoreTypesHold == DeskSpec => []Store!TypeOK
<1>. DEFINE Inv == StoreInv /\ Store!TypeOK
<1>1. DeskInit => Inv
  <2>1. Store!Init => Store!TypeOK
    <3>. SUFFICES ASSUME Store!Init PROVE Store!TypeOK
      OBVIOUS
    <3>1. Store!Empty \in Store!Content
      BY BoundsAreNumbers DEF Store!Empty, Store!Content
    <3>2. CallsOK
      BY DEF Store!Init, CallsOK
    <3>3. \E i \in 1 .. 4 : unwritten = Rest(i)
      BY RestIs DEF Store!Init
    <3>4. disk \in Store!Content /\ ctx \in Store!Content /\ content \in Store!Content /\ before \in Store!Content
      BY <3>1 DEF Store!Init
    <3>5. 0 \in 0 .. MaxCalls /\ 0 \in 0 .. MaxFails
      BY BoundsAreNumbers
    <3>6. /\ lock \in Caller \cup {None} /\ restart \in BOOLEAN
          /\ saved \in [nodes : 0 .. MaxCalls, settings : 0 .. MaxCalls]
          /\ calls \in 0 .. MaxCalls /\ fails \in 0 .. MaxFails
      BY <3>5 DEF Store!Init
    <3>. QED BY <3>2, <3>3, <3>4, <3>6, StoreTypeIs
  <2>. QED BY <2>1, StoreInitInv DEF DeskInit
<1>2. Inv /\ [DeskNext]_deskVars => Inv'
  <2>. SUFFICES ASSUME Inv, [DeskNext]_deskVars PROVE Inv'
    OBVIOUS
  <2>1. [Store!Next]_storeVars /\ StoreInv'
    BY OnlyOnePartMoves, StoreNextInv
  <2>2. CASE UNCHANGED storeVars
    BY <2>1, <2>2 DEF storeVars, Store!TypeOK
  <2>3. CASE Store!Restart
    BY <2>1, <2>3 DEF Store!Restart, Store!TypeOK
  <2>4. ASSUME NEW t \in Caller, \E kind \in Calls[t] : Store!Begin(t, kind) PROVE Store!TypeOK'
    BY <2>4, BeginTypes
  <2>5. ASSUME NEW t \in Caller,
               Store!Enter(t) \/ Store!WriteFile(t) \/ Store!WriteFails(t) \/ Store!Apply(t)
        PROVE  Store!TypeOK'
    BY <2>5, EnterTypes, WriteFileTypes, WriteFailsTypes, ApplyTypes
  <2>. QED BY <2>1, <2>2, <2>3, <2>4, <2>5 DEF Store!Next
<1>3. Inv => Store!TypeOK
  OBVIOUS
<1>. QED BY <1>1, <1>2, <1>3, PTL DEF DeskSpec

-----------------------------------------------------------------------------
(***************************************************************************)
(* The node list.  A revision stands for an edit: every request that is on *)
(* its way, or in a handler that may still count, is owed to an edit that  *)
(* no revision has been counted for.                                       *)
(***************************************************************************)
Tasks     == {"request", "check", "apply", "count"}
AtWork    == {th \in Worker : Does(th, Tasks)}
InTransit == {x \in Others \X Nat : x[2] \in 1 .. Len(up[x[1]])}

Budget ==
  /\ IsFiniteSet(AtWork) /\ IsFiniteSet(InTransit)
  /\ rev + Cardinality(AtWork) + Cardinality(InTransit) <= edits

LEMMA Fewer ==
  ASSUME NEW A, IsFiniteSet(A), NEW B, NEW x
  PROVE  /\ Cardinality(A) \in Nat
         /\ B \subseteq A => IsFiniteSet(B) /\ Cardinality(B) \in Nat /\ Cardinality(B) <= Cardinality(A)
         /\ B \subseteq A \cup {x} =>
              IsFiniteSet(B) /\ Cardinality(B) \in Nat /\ Cardinality(B) <= Cardinality(A) + 1
         /\ x \in A /\ B \subseteq A \ {x} =>
              IsFiniteSet(B) /\ Cardinality(B) \in Nat /\ Cardinality(B) + 1 <= Cardinality(A)
<1>1. Cardinality(A) \in Nat
  BY FS_CardinalityType
<1>2. ASSUME B \subseteq A
      PROVE  IsFiniteSet(B) /\ Cardinality(B) \in Nat /\ Cardinality(B) <= Cardinality(A)
  BY <1>2, FS_Subset, FS_CardinalityType
<1>3. ASSUME B \subseteq A \cup {x}
      PROVE  IsFiniteSet(B) /\ Cardinality(B) \in Nat /\ Cardinality(B) <= Cardinality(A) + 1
  <2>1. IsFiniteSet(A \cup {x}) /\ Cardinality(A \cup {x}) <= Cardinality(A) + 1 /\ Cardinality(A \cup {x}) \in Nat
    BY <1>1, FS_AddElement
  <2>2. IsFiniteSet(B) /\ Cardinality(B) <= Cardinality(A \cup {x})
    BY <1>3, <2>1, FS_Subset
  <2>3. Cardinality(B) \in Nat
    BY <2>2, FS_CardinalityType
  <2>. QED BY <1>1, <2>1, <2>2, <2>3
<1>4. ASSUME x \in A, B \subseteq A \ {x}
      PROVE  IsFiniteSet(B) /\ Cardinality(B) \in Nat /\ Cardinality(B) + 1 <= Cardinality(A)
  <2>1. IsFiniteSet(A \ {x}) /\ Cardinality(A \ {x}) = Cardinality(A) - 1
    BY <1>4, FS_RemoveElement
  <2>2. IsFiniteSet(B) /\ Cardinality(B) <= Cardinality(A \ {x})
    BY <1>4, <2>1, FS_Subset
  <2>3. Cardinality(B) \in Nat
    BY <2>2, FS_CardinalityType
  <2>. QED BY <1>1, <2>1, <2>2, <2>3
<1>. QED BY <1>1, <1>2, <1>3, <1>4

(***************************************************************************)
(* How a step may change what is owed.                                     *)
(***************************************************************************)
LEMMA NothingOwed ==
  ASSUME ListTypes, Budget, AtWork' \subseteq AtWork, InTransit' \subseteq InTransit,
         rev' = rev, edits' = edits
  PROVE  Budget'
<1>. DEFINE a == AtWork
            b == InTransit
            c == AtWork'
            d == InTransit'
<1>1. IsFiniteSet(a) /\ IsFiniteSet(b) /\ c \subseteq a /\ d \subseteq b
  BY DEF Budget
<1>2. rev + Cardinality(a) + Cardinality(b) <= edits /\ rev \in Nat /\ edits \in Nat
  BY DEF Budget, ListTypes
<1>3. IsFiniteSet(c) /\ IsFiniteSet(d) /\ rev' + Cardinality(c) + Cardinality(d) <= edits'
  <2>. HIDE DEF a, b, c, d
  <2>1. /\ Cardinality(a) \in Nat /\ Cardinality(b) \in Nat /\ Cardinality(c) \in Nat /\ Cardinality(d) \in Nat
        /\ Cardinality(c) <= Cardinality(a) /\ Cardinality(d) <= Cardinality(b)
        /\ IsFiniteSet(c) /\ IsFiniteSet(d)
    BY <1>1, Fewer
  <2>. QED BY <1>2, <2>1
<1>. QED BY <1>3 DEF Budget

LEMMA EditOwed ==
  ASSUME ListTypes, Budget, NEW x, AtWork' \subseteq AtWork \cup {x}, InTransit' \subseteq InTransit,
         rev' = rev, edits' = edits + 1
  PROVE  Budget'
<1>. DEFINE a == AtWork
            b == InTransit
            c == AtWork'
            d == InTransit'
<1>1. IsFiniteSet(a) /\ IsFiniteSet(b) /\ c \subseteq a \cup {x} /\ d \subseteq b
  BY DEF Budget
<1>2. rev + Cardinality(a) + Cardinality(b) <= edits /\ rev \in Nat /\ edits \in Nat
  BY DEF Budget, ListTypes
<1>3. IsFiniteSet(c) /\ IsFiniteSet(d) /\ rev' + Cardinality(c) + Cardinality(d) <= edits'
  <2>. HIDE DEF a, b, c, d
  <2>1. /\ Cardinality(a) \in Nat /\ Cardinality(b) \in Nat /\ Cardinality(c) \in Nat /\ Cardinality(d) \in Nat
        /\ Cardinality(c) <= Cardinality(a) + 1 /\ Cardinality(d) <= Cardinality(b)
        /\ IsFiniteSet(c) /\ IsFiniteSet(d)
    BY <1>1, Fewer
  <2>. QED BY <1>2, <2>1
<1>. QED BY <1>3 DEF Budget

LEMMA FrameOwed ==
  ASSUME ListTypes, Budget, NEW x, NEW y, rev' = rev, edits' = edits,
         \/ x \in AtWork /\ AtWork' \subseteq AtWork \ {x} /\ InTransit' \subseteq InTransit \cup {y}
         \/ y \in InTransit /\ InTransit' \subseteq InTransit \ {y} /\ AtWork' \subseteq AtWork \cup {x}
  PROVE  Budget'
<1>. DEFINE a == AtWork
            b == InTransit
            c == AtWork'
            d == InTransit'
<1>1. /\ IsFiniteSet(a) /\ IsFiniteSet(b)
      /\ \/ x \in a /\ c \subseteq a \ {x} /\ d \subseteq b \cup {y}
         \/ y \in b /\ d \subseteq b \ {y} /\ c \subseteq a \cup {x}
  BY DEF Budget
<1>2. rev + Cardinality(a) + Cardinality(b) <= edits /\ rev \in Nat /\ edits \in Nat
  BY DEF Budget, ListTypes
<1>3. IsFiniteSet(c) /\ IsFiniteSet(d) /\ rev' + Cardinality(c) + Cardinality(d) <= edits'
  <2>. HIDE DEF a, b, c, d
  <2>1. CASE x \in a /\ c \subseteq a \ {x} /\ d \subseteq b \cup {y}
    <3>1. /\ Cardinality(a) \in Nat /\ Cardinality(b) \in Nat /\ Cardinality(c) \in Nat /\ Cardinality(d) \in Nat
          /\ Cardinality(c) + 1 <= Cardinality(a) /\ Cardinality(d) <= Cardinality(b) + 1
          /\ IsFiniteSet(c) /\ IsFiniteSet(d)
      BY <1>1, <2>1, Fewer
    <3>. QED BY <1>2, <3>1
  <2>2. CASE y \in b /\ d \subseteq b \ {y} /\ c \subseteq a \cup {x}
    <3>1. /\ Cardinality(a) \in Nat /\ Cardinality(b) \in Nat /\ Cardinality(c) \in Nat /\ Cardinality(d) \in Nat
          /\ Cardinality(c) <= Cardinality(a) + 1 /\ Cardinality(d) + 1 <= Cardinality(b)
          /\ IsFiniteSet(c) /\ IsFiniteSet(d)
      BY <1>1, <2>2, Fewer
    <3>. QED BY <1>2, <3>1
  <2>. QED BY <1>1, <2>1, <2>2
<1>. QED BY <1>3 DEF Budget

LEMMA CountOwed ==
  ASSUME ListTypes, Budget, NEW x \in AtWork, AtWork' \subseteq AtWork \ {x}, InTransit' \subseteq InTransit,
         rev' = rev + 1, edits' = edits
  PROVE  Budget' /\ rev + 1 <= edits
<1>. DEFINE a == AtWork
            b == InTransit
            c == AtWork'
            d == InTransit'
<1>1. IsFiniteSet(a) /\ IsFiniteSet(b) /\ x \in a /\ c \subseteq a \ {x} /\ d \subseteq b
  BY DEF Budget
<1>2. rev + Cardinality(a) + Cardinality(b) <= edits /\ rev \in Nat /\ edits \in Nat
  BY DEF Budget, ListTypes
<1>3. /\ IsFiniteSet(c) /\ IsFiniteSet(d) /\ rev' + Cardinality(c) + Cardinality(d) <= edits'
      /\ rev + 1 <= edits
  <2>. HIDE DEF a, b, c, d
  <2>1. /\ Cardinality(a) \in Nat /\ Cardinality(b) \in Nat /\ Cardinality(c) \in Nat /\ Cardinality(d) \in Nat
        /\ Cardinality(c) + 1 <= Cardinality(a) /\ Cardinality(d) <= Cardinality(b)
        /\ IsFiniteSet(c) /\ IsFiniteSet(d)
    BY <1>1, Fewer
  <2>. QED BY <1>2, <2>1
<1>. QED BY <1>3 DEF Budget

(***************************************************************************)
(* Only the thread that takes a step gets another task, or none: what is   *)
(* left behind its first step are sends.                                   *)
(***************************************************************************)
LEMMA TaskOver ==
  ASSUME NEW th, \A o \in List!Thread \ {th} : steps'[o] = steps[o],
         steps'[th] # <<>> => Head(steps'[th]).do \notin Tasks
  PROVE  AtWork' \subseteq AtWork \ {th}
BY Threads DEF AtWork, Does

LEMMA TaskGoesOn ==
  ASSUME NEW th, \A o \in List!Thread \ {th} : steps'[o] = steps[o]
  PROVE  AtWork' \subseteq AtWork \cup {th}
BY Threads DEF AtWork, Does

LEMMA SendsNoTask ==
  ASSUME ListInv, NEW th \in List!Thread, steps[th] # <<>>, steps'[th] = Tail(steps[th])
  PROVE  steps'[th] # <<>> => Head(steps'[th]).do \notin Tasks
<1>. DEFINE q == steps[th]
<1>1. q \in Seq(Work)
  BY DEF ListInv, ListTypes
<1>2. /\ Len(Tail(q)) = Len(q) - 1 /\ Len(q) \in Nat
      /\ Tail(q) # <<>> => Head(Tail(q)) = q[2] /\ Len(q) >= 2
  BY <1>1, FirstDropped
<1>. SUFFICES ASSUME Tail(q) # <<>> PROVE Head(Tail(q)).do \notin Tasks
  OBVIOUS
<1>3. CASE th \in Worker
  <2>1. SendsFresh(q)
    BY <1>3 DEF ListInv, Working, WorkerOK
  <2>. QED BY <1>2, <2>1 DEF SendsFresh, Tasks
<1>4. ASSUME NEW p \in Others, th = List!Recv(p) PROVE FALSE
  <2>1. Len(q) = 1
    BY <1>4 DEF ListInv, Receiving, ReceiverOK
  <2>. QED BY <1>2, <2>1
<1>. QED BY <1>3, <1>4, Threads

(***************************************************************************)
(* The types of steps and frames.                                          *)
(***************************************************************************)
LEMMA StepIs ==
  ASSUME NEW k \in List!Kind, NEW n \in List!Member, NEW l \in List!List, NEW r \in 0 .. MaxEdits
  PROVE  List!Do(k, n, l, r) \in List!Step
BY DEF List!Do, List!Step

LEMMA ListBasics ==
  /\ 0 \in 0 .. MaxEdits /\ {} \in List!List
  /\ List!Kind = {"request", "check", "apply", "count", "build", "accept", "take", "note", "send"}
  /\ List!Member = Others \cup {Coord}
<1>1. 0 \in 0 .. MaxEdits
  BY BoundsAreNumbers
<1>. QED BY <1>1 DEF List!List, List!Kind, List!Member, Others

LEMMA TypedHead ==
  ASSUME List!TypeOK, NEW th \in List!Thread, steps[th] # <<>>
  PROVE  /\ Head(steps[th]) \in List!Step /\ steps[th][1] = Head(steps[th])
         /\ Tail(steps[th]) \in Seq(List!Step)
         /\ Head(steps[th]).node \in List!Member /\ Head(steps[th]).nodes \in List!List
         /\ Head(steps[th]).revision \in 0 .. MaxEdits
<1>1. steps[th] \in Seq(List!Step)
  BY DEF List!TypeOK
<1>2. Head(steps[th]) \in List!Step /\ Tail(steps[th]) \in Seq(List!Step) /\ steps[th][1] = Head(steps[th])
  BY <1>1
<1>. QED BY <1>2 DEF List!Step

LEMMA TypedSteps ==
  ASSUME List!TypeOK, NEW th \in List!Thread, steps[th] # <<>>,
         NEW q \in Seq(List!Step), List!Continues(th, q)
  PROVE  steps' \in [List!Thread -> Seq(List!Step)]
<1>1. Tail(steps[th]) \in Seq(List!Step)
  BY TypedHead
<1>2. q \o Tail(steps[th]) \in Seq(List!Step)
  BY <1>1, ConcatProperties
<1>. QED BY <1>2 DEF List!Continues, List!TypeOK

LEMMA OneStep == ASSUME NEW x \in List!Step PROVE <<x>> \in Seq(List!Step)
OBVIOUS

LEMMA NoStep == <<>> \in Seq(List!Step)
OBVIOUS

LEMMA TypedReplaced ==
  ASSUME ListInv, List!TypeOK, NEW th \in List!Thread, steps[th] # <<>>,
         NEW x \in List!Step, List!Continues(th, <<x>>)
  PROVE  /\ steps' \in [List!Thread -> Seq(List!Step)]
         /\ \A o \in List!Thread \ {th} : steps'[o] = steps[o]
         /\ steps'[th] # <<>> /\ Head(steps'[th]) = x
<1>1. x \in Work
  BY ListBasics, BoundsAreNumbers DEF List!Step, Work, List!List, List!Edit
<1>2. steps' \in [List!Thread -> Seq(List!Step)]
  BY OneStep, TypedSteps
<1>. QED BY <1>1, <1>2, GoesOn DEF ListInv

LEMMA TypedDropped ==
  ASSUME ListInv, List!TypeOK, NEW th \in List!Thread, steps[th] # <<>>, List!Continues(th, <<>>)
  PROVE  /\ steps' \in [List!Thread -> Seq(List!Step)]
         /\ \A o \in List!Thread \ {th} : steps'[o] = steps[o]
         /\ steps'[th] = Tail(steps[th])
         /\ steps'[th] # <<>> => Head(steps'[th]).do \notin Tasks
<1>1. steps' \in [List!Thread -> Seq(List!Step)]
  BY NoStep, TypedSteps
<1>2. /\ \A o \in List!Thread \ {th} : steps'[o] = steps[o]
      /\ steps'[th] = Tail(steps[th])
  BY GoesOnWithout DEF ListInv
<1>. QED BY <1>1, <1>2, SendsNoTask

LEMMA TypedStart ==
  ASSUME List!TypeOK, NEW th \in List!Thread, NEW x \in List!Step, List!Starts(th, <<x>>)
  PROVE  /\ steps' \in [List!Thread -> Seq(List!Step)]
         /\ \A o \in List!Thread \ {th} : steps'[o] = steps[o]
         /\ steps'[th] = <<x>> /\ Head(steps'[th]) = x
<1>1. <<x>> \in Seq(List!Step)
  BY OneStep
<1>. QED BY <1>1 DEF List!Starts, List!TypeOK

(***************************************************************************)
(* The steps.                                                              *)
(***************************************************************************)
ListBound == ListInv /\ List!TypeOK /\ Budget

LEMMA SaveBound ==
  ASSUME ListBound, ListInv', NEW n \in List!Member, List!Save(n)
  PROVE  ListBound'
<1>. DEFINE new == lst[n] \cup {edits + 1}
            th == List!Window(n)
<1>1. edits \in 0 .. MaxEdits /\ edits < MaxEdits /\ lst[n] \in List!List
  BY DEF ListBound, List!TypeOK, List!Save
<1>2. edits + 1 \in 1 .. MaxEdits
  BY <1>1, BoundsAreNumbers
<1>3. new \in List!List
  BY <1>1, <1>2 DEF List!List, List!Edit
<1>4. List!Do("request", n, new, 0) \in List!Step
  BY <1>3, StepIs, ListBasics
<1>5. lst' = [lst EXCEPT ![n] = new] /\ List!Starts(th, <<List!Do("request", n, new, 0)>>)
  BY DEF List!Save
<1>6. th \in List!Thread
  BY Threads
<1>. HIDE DEF new, th
<1>7. /\ steps' \in [List!Thread -> Seq(List!Step)]
      /\ \A o \in List!Thread \ {th} : steps'[o] = steps[o]
  BY <1>4, <1>5, <1>6, TypedStart DEF ListBound
<1>8. calm' \in BOOLEAN
  BY DEF ListInv, ListTypes
<1>9. List!TypeOK'
  <2>1. edits' = edits + 1 /\ UNCHANGED <<crev, rev, up, down>>
    BY DEF List!Save
  <2>2. lst' \in [List!Member -> List!List]
    BY <1>3, <1>5 DEF ListBound, List!TypeOK
  <2>. QED BY <1>2, <1>7, <1>8, <2>1, <2>2 DEF ListBound, List!TypeOK
<1>10. Budget'
  <2>1. AtWork' \subseteq AtWork \cup {th}
    BY <1>7, TaskGoesOn
  <2>2. InTransit' = InTransit /\ rev' = rev /\ edits' = edits + 1
    BY DEF List!Save, InTransit
  <2>. QED BY <2>1, <2>2, EditOwed DEF ListBound, ListInv
<1>. QED BY <1>9, <1>10 DEF ListBound

LEMMA RequestBound ==
  ASSUME ListBound, ListInv', NEW th \in List!Thread, List!Request(th)
  PROVE  ListBound'
<1>. DEFINE s == Head(steps[th])
<1>1. List!Runs(th, "request") /\ ListInv /\ List!TypeOK
  BY DEF List!Request, ListBound
<1>2. /\ steps[th] # <<>> /\ s.do = "request" /\ steps[th][1] = s /\ th \in Worker
      /\ s.node \in List!Member /\ s.nodes \in List!List
  BY <1>1, Running, TypedHead
<1>3. th \in AtWork
  BY <1>2 DEF AtWork, Does, Tasks
<1>4. crev[s.node] \in 0 .. MaxEdits
  BY <1>1, <1>2 DEF List!TypeOK
<1>5. CASE s.node = Coord /\ List!Continues(th, <<List!Do("check", s.node, s.nodes, crev[s.node])>>) /\ up' = up
  <2>1. List!Do("check", s.node, s.nodes, crev[s.node]) \in List!Step
    BY <1>2, <1>4, StepIs, ListBasics
  <2>2. /\ steps' \in [List!Thread -> Seq(List!Step)]
        /\ \A o \in List!Thread \ {th} : steps'[o] = steps[o]
    BY <1>1, <1>2, <1>5, <2>1, TypedReplaced
  <2>3. List!TypeOK'
    BY <1>1, <1>5, <2>2 DEF List!TypeOK, List!Request
  <2>4. AtWork' \subseteq AtWork
    BY <1>3, <2>2, TaskGoesOn
  <2>5. InTransit' = InTransit /\ rev' = rev /\ edits' = edits
    BY <1>5 DEF List!Request, InTransit
  <2>. QED BY <2>3, <2>4, <2>5, NothingOwed DEF ListBound, ListInv
<1>6. CASE /\ s.node # Coord /\ List!Continues(th, <<>>)
           /\ up' = [up EXCEPT ![s.node] = Append(@, [nodes |-> s.nodes, revision |-> crev[s.node]])]
  <2>. DEFINE n == s.node
              x == [nodes |-> s.nodes, revision |-> crev[n]]
  <2>1. n \in Others /\ up[n] \in Seq(List!Frame) /\ x \in List!Frame
    BY <1>1, <1>2, <1>4, <1>6, ListBasics DEF List!TypeOK, List!Frame, Others
  <2>2. /\ up' = [up EXCEPT ![n] = Append(up[n], x)]
        /\ Append(up[n], x) \in Seq(List!Frame) /\ Len(Append(up[n], x)) = Len(up[n]) + 1
        /\ Len(up[n]) \in Nat
    BY <1>6, <2>1, AppendProperties
  <2>3. /\ steps' \in [List!Thread -> Seq(List!Step)]
        /\ \A o \in List!Thread \ {th} : steps'[o] = steps[o]
        /\ steps'[th] # <<>> => Head(steps'[th]).do \notin Tasks
    BY <1>1, <1>2, <1>6, TypedDropped
  <2>. HIDE DEF n, x
  <2>4. up' \in [Others -> Seq(List!Frame)]
    BY <1>1, <2>1, <2>2 DEF List!TypeOK, Others
  <2>5. List!TypeOK'
    BY <1>1, <2>3, <2>4 DEF List!TypeOK, List!Request, Others
  <2>6. AtWork' \subseteq AtWork \ {th}
    BY <2>3, TaskOver
  <2>7. InTransit' \subseteq InTransit \cup {<<n, Len(up[n]) + 1>>}
    <3>1. \A p \in Others : up'[p] = IF p = n THEN Append(up[n], x) ELSE up[p]
      BY <1>1, <2>2 DEF List!TypeOK, Others
    <3>2. ASSUME NEW p \in Others, NEW i \in Nat, i \in 1 .. Len(up'[p])
          PROVE  i \in 1 .. Len(up[p]) \/ (p = n /\ i = Len(up[n]) + 1)
      BY <2>2, <3>1, <3>2
    <3>. QED BY <3>2 DEF InTransit
  <2>8. rev' = rev /\ edits' = edits
    BY DEF List!Request
  <2>9. Budget'
    BY <1>3, <2>6, <2>7, <2>8, FrameOwed DEF ListBound, ListInv
  <2>. QED BY <2>5, <2>9 DEF ListBound
<1>. QED BY <1>2, <1>5, <1>6 DEF List!Request

LEMMA ReceiveRequestBound ==
  ASSUME ListBound, ListInv', NEW p \in Others, List!ReceiveRequest(p)
  PROVE  ListBound'
<1>. DEFINE x == Head(up[p])
            th == List!Serve(p)
<1>1. ListInv /\ List!TypeOK /\ th \in List!Thread /\ p \in List!Member
  BY Threads DEF ListBound
<1>2. up[p] \in Seq(List!Frame) /\ up[p] # <<>>
  BY <1>1 DEF List!TypeOK, List!ReceiveRequest, Others
<1>3. x \in List!Frame /\ Tail(up[p]) \in Seq(List!Frame) /\ Len(Tail(up[p])) = Len(up[p]) - 1
      /\ Len(up[p]) \in Nat \ {0}
  BY <1>2, HeadTailProperties, EmptySeq
<1>4. List!Do("check", p, x.nodes, x.revision) \in List!Step
  BY <1>1, <1>3, StepIs, ListBasics DEF List!Frame
<1>5. /\ up' = [up EXCEPT ![p] = Tail(up[p])]
      /\ List!Starts(th, <<List!Do("check", p, x.nodes, x.revision)>>)
  BY DEF List!ReceiveRequest
<1>. HIDE DEF x, th
<1>6. /\ steps' \in [List!Thread -> Seq(List!Step)]
      /\ \A o \in List!Thread \ {th} : steps'[o] = steps[o]
  BY <1>1, <1>4, <1>5, TypedStart
<1>7. up' \in [Others -> Seq(List!Frame)] /\ \A q \in Others : up'[q] = IF q = p THEN Tail(up[p]) ELSE up[q]
  BY <1>1, <1>3, <1>5 DEF List!TypeOK, Others
<1>8. List!TypeOK'
  BY <1>1, <1>6, <1>7 DEF List!TypeOK, List!ReceiveRequest, Others
<1>9. AtWork' \subseteq AtWork \cup {th}
  BY <1>6, TaskGoesOn
<1>10. <<p, Len(up[p])>> \in InTransit
  BY <1>3 DEF InTransit
<1>11. InTransit' \subseteq InTransit \ {<<p, Len(up[p])>>}
  <2>1. ASSUME NEW q \in Others, NEW i \in Nat, i \in 1 .. Len(up'[q])
        PROVE  i \in 1 .. Len(up[q]) /\ ~(q = p /\ i = Len(up[p]))
    BY <1>3, <1>7, <2>1
  <2>. QED BY <2>1 DEF InTransit
<1>12. rev' = rev /\ edits' = edits
  BY DEF List!ReceiveRequest
<1>13. Budget'
  BY <1>9, <1>10, <1>11, <1>12, FrameOwed DEF ListBound, ListInv
<1>. QED BY <1>8, <1>13 DEF ListBound

(***************************************************************************)
(* A thread goes on to another step, or ends one that is owed nothing.     *)
(***************************************************************************)
LEMMA RunsTyped ==
  ASSUME ListBound, NEW th \in List!Thread, NEW k, List!Runs(th, k)
  PROVE  /\ ListInv /\ List!TypeOK /\ ListTypes
         /\ steps[th] # <<>> /\ steps[th][1] = Head(steps[th]) /\ Head(steps[th]).do = k
         /\ Head(steps[th]).node \in List!Member /\ Head(steps[th]).nodes \in List!List
         /\ Head(steps[th]).revision \in 0 .. MaxEdits
         /\ k \notin {"accept", "take", "note"} => th \in Worker
         /\ k \in Tasks => th \in AtWork
<1>1. ListInv /\ List!TypeOK
  BY DEF ListBound
<1>2. k \notin {"accept", "take", "note"} => th \in Worker
  BY <1>1, Running
<1>3. steps[th] # <<>> /\ steps[th][1] = Head(steps[th]) /\ Head(steps[th]).do = k
  BY <1>1, Running
<1>4. k \in Tasks => th \in AtWork
  BY <1>2, <1>3 DEF AtWork, Does, Tasks
<1>. QED BY <1>1, <1>2, <1>3, <1>4, TypedHead DEF ListInv

LEMMA StepBudget ==
  ASSUME ListBound, NEW th \in List!Thread, UNCHANGED <<edits, rev, up>>,
         \A o \in List!Thread \ {th} : steps'[o] = steps[o],
         th \in AtWork \/ (steps'[th] # <<>> => Head(steps'[th]).do \notin Tasks)
  PROVE  Budget'
<1>1. AtWork' \subseteq AtWork
  BY TaskGoesOn, TaskOver
<1>2. InTransit' = InTransit
  BY DEF InTransit
<1>. QED BY <1>1, <1>2, NothingOwed DEF ListBound, ListInv

LEMMA ReplyTyped ==
  ASSUME List!TypeOK, NEW n \in List!Member
  PROVE  List!Reply(n, lst[Coord], rev) \in List!Step
<1>1. lst[Coord] \in List!List /\ rev \in 0 .. MaxEdits
  BY Threads DEF List!TypeOK
<1>. QED BY <1>1, StepIs, ListBasics DEF List!Reply

LEMMA CheckBound ==
  ASSUME ListBound, ListInv', NEW th \in List!Thread, List!Check(th)
  PROVE  ListBound'
<1>. DEFINE s == Head(steps[th])
<1>1. List!Runs(th, "check")
  BY DEF List!Check
<1>2. /\ ListInv /\ List!TypeOK /\ steps[th] # <<>> /\ steps[th][1] = s /\ th \in AtWork
      /\ s.node \in List!Member /\ s.nodes \in List!List
  BY <1>1, RunsTyped DEF Tasks
<1>3. /\ List!Do("apply", s.node, s.nodes, 0) \in List!Step
      /\ List!Reply(s.node, lst[Coord], rev) \in List!Step
  BY <1>2, StepIs, ReplyTyped, ListBasics
<1>4. PICK x \in List!Step : List!Continues(th, <<x>>)
  BY <1>2, <1>3 DEF List!Check
<1>5. /\ steps' \in [List!Thread -> Seq(List!Step)]
      /\ \A o \in List!Thread \ {th} : steps'[o] = steps[o]
  BY <1>2, <1>4, TypedReplaced
<1>6. UNCHANGED <<edits, lst, crev, rev, up, down, calm>>
  BY DEF List!Check
<1>7. List!TypeOK'
  BY <1>2, <1>5, <1>6 DEF List!TypeOK
<1>. QED BY <1>2, <1>5, <1>6, <1>7, StepBudget DEF ListBound

LEMMA ApplyBound ==
  ASSUME ListBound, ListInv', NEW th \in List!Thread, List!Apply(th)
  PROVE  ListBound'
<1>. DEFINE s == Head(steps[th])
<1>1. List!Runs(th, "apply")
  BY DEF List!Apply
<1>2. /\ ListInv /\ List!TypeOK /\ steps[th] # <<>> /\ steps[th][1] = s /\ th \in AtWork
      /\ s.node \in List!Member /\ s.nodes \in List!List
  BY <1>1, RunsTyped DEF Tasks
<1>3. /\ List!Do("count", Coord, {}, 0) \in List!Step
      /\ List!Reply(s.node, lst[Coord], rev) \in List!Step
  BY <1>2, StepIs, ReplyTyped, ListBasics
<1>4. PICK x \in List!Step : List!Continues(th, <<x>>)
  BY <1>2, <1>3 DEF List!Apply
<1>5. /\ steps' \in [List!Thread -> Seq(List!Step)]
      /\ \A o \in List!Thread \ {th} : steps'[o] = steps[o]
  BY <1>2, <1>4, TypedReplaced
<1>6. UNCHANGED <<edits, crev, rev, up, down, calm>>
  BY DEF List!Apply
<1>7. lst' \in [List!Member -> List!List]
  <2>1. lst' = [lst EXCEPT ![Coord] = s.nodes] \/ lst' = lst
    BY <1>2 DEF List!Apply
  <2>. QED BY <1>2, <2>1 DEF List!TypeOK
<1>8. List!TypeOK'
  BY <1>2, <1>5, <1>6, <1>7 DEF List!TypeOK
<1>. QED BY <1>2, <1>5, <1>6, <1>8, StepBudget DEF ListBound

LEMMA CountBound ==
  ASSUME ListBound, ListInv', NEW th \in List!Thread, List!Count(th)
  PROVE  ListBound'
<1>1. List!Runs(th, "count") /\ List!Continues(th, <<List!Do("build", Coord, {}, rev')>>)
  BY DEF List!Count
<1>2. ListInv /\ List!TypeOK /\ steps[th] # <<>> /\ th \in AtWork /\ ListTypes
  BY <1>1, RunsTyped DEF Tasks
<1>3. rev' = rev + 1 /\ UNCHANGED <<edits, lst, crev, up, down, calm>>
  BY DEF List!Count
<1>. DEFINE x == List!Do("build", Coord, {}, rev')
<1>4. x \in Work
  BY <1>2, <1>3, ListBasics DEF List!Do, Work, ListTypes
<1>5. /\ \A o \in List!Thread \ {th} : steps'[o] = steps[o]
      /\ steps'[th] # <<>> /\ Head(steps'[th]) = x
  BY <1>1, <1>2, <1>4, GoesOn
<1>6. x.do \notin Tasks
  BY DEF List!Do, Tasks
<1>. HIDE DEF x
<1>7. AtWork' \subseteq AtWork \ {th}
  BY <1>5, <1>6, TaskOver
<1>8. InTransit' = InTransit
  BY <1>3 DEF InTransit
<1>9. Budget' /\ rev + 1 <= edits
  BY <1>2, <1>3, <1>7, <1>8, CountOwed DEF ListBound
<1>10. rev' \in 0 .. MaxEdits
  BY <1>2, <1>3, <1>9, BoundsAreNumbers DEF List!TypeOK
<1>11. x \in List!Step
  BY <1>10, StepIs, ListBasics DEF x
<1>12. steps' \in [List!Thread -> Seq(List!Step)]
  BY <1>1, <1>2, <1>11, TypedReplaced DEF x
<1>13. List!TypeOK'
  BY <1>2, <1>3, <1>10, <1>12 DEF List!TypeOK
<1>. QED BY <1>9, <1>13 DEF ListBound

LEMMA BuildBound ==
  ASSUME ListBound, ListInv', NEW th \in List!Thread, List!Build(th)
  PROVE  ListBound'
<1>. DEFINE s == Head(steps[th])
            r == s.revision
            order == List!SetToSeq(Others)
            sends == [i \in DOMAIN order |-> List!Do("send", order[i], lst[Coord], r)]
            first == List!Do("accept", Coord, lst[Coord], r)
<1>1. List!Runs(th, "build") /\ List!Continues(th, <<List!Do("accept", Coord, lst[Coord], steps[th][1].revision)>> \o
        [i \in DOMAIN order |-> List!Do("send", order[i], lst[Coord], steps[th][1].revision)])
  BY DEF List!Build, Others
<1>2. /\ ListInv /\ List!TypeOK /\ steps[th] # <<>> /\ steps[th][1] = s /\ th \in Worker
      /\ r \in 0 .. MaxEdits
  BY <1>1, RunsTyped DEF Tasks
<1>3. lst[Coord] \in List!List
  BY <1>2, Threads DEF List!TypeOK
<1>4. first \in List!Step /\ \A n \in Others : List!Do("send", n, lst[Coord], r) \in List!Step
  BY <1>2, <1>3, StepIs, ListBasics
<1>5. sends \in Seq(List!Step)
  <2>1. order \in Seq(Others)
    BY InOrder
  <2>. HIDE DEF order, r
  <2>2. Len(order) \in Nat /\ DOMAIN order = 1 .. Len(order) /\ \A i \in 1 .. Len(order) : order[i] \in Others
    BY <2>1
  <2>3. sends \in [1 .. Len(order) -> List!Step]
    BY <1>4, <2>2
  <2>. QED BY <2>2, <2>3
<1>6. List!Continues(th, <<first>> \o sends)
  BY <1>1, <1>2
<1>. HIDE DEF sends, s
<1>7. <<first>> \in Seq(List!Step) /\ Len(<<first>>) = 1 /\ <<first>>[1] = first
  BY <1>4, OneStep
<1>. DEFINE new == <<first>> \o sends
<1>8. new \in Seq(List!Step) /\ Len(new) = 1 + Len(sends) /\ new[1] = first /\ Len(sends) \in Nat
  BY <1>5, <1>7, ConcatProperties
<1>9. steps' \in [List!Thread -> Seq(List!Step)]
  BY <1>2, <1>6, <1>8, TypedSteps
<1>10. steps' = [steps EXCEPT ![th] = new \o Tail(steps[th])]
  BY <1>6 DEF List!Continues
<1>11. Tail(steps[th]) \in Seq(List!Step)
  BY <1>2, TypedHead
<1>. HIDE DEF new
<1>12. (new \o Tail(steps[th]))[1] = first /\ new \o Tail(steps[th]) \in Seq(List!Step) /\ new \o Tail(steps[th]) # <<>>
  BY <1>8, <1>11, ConcatProperties
<1>13. /\ \A o \in List!Thread \ {th} : steps'[o] = steps[o]
       /\ steps'[th] = new \o Tail(steps[th])
  BY <1>2, <1>10 DEF List!TypeOK
<1>14. Head(steps'[th]).do \notin Tasks
  BY <1>12, <1>13 DEF List!Do, Tasks
<1>15. UNCHANGED <<edits, lst, crev, rev, up, down, calm>>
  BY DEF List!Build
<1>16. List!TypeOK'
  BY <1>2, <1>9, <1>15 DEF List!TypeOK
<1>. QED BY <1>13, <1>14, <1>15, <1>16, StepBudget DEF ListBound

LEMMA SendBound ==
  ASSUME ListBound, ListInv', NEW th \in List!Thread, List!Send(th)
  PROVE  ListBound'
<1>. DEFINE s == Head(steps[th])
            x == [nodes |-> s.nodes, revision |-> s.revision]
<1>1. List!Runs(th, "send") /\ List!Continues(th, <<>>)
  BY DEF List!Send
<1>2. /\ ListInv /\ List!TypeOK /\ steps[th] # <<>> /\ steps[th][1] = s /\ th \in Worker
      /\ s.nodes \in List!List /\ s.revision \in 0 .. MaxEdits
  BY <1>1, RunsTyped
<1>3. s.node \in Others
  BY <1>1, <1>2, Running, WorkerRuns DEF HeadOK
<1>4. down[s.node] \in Seq(List!Frame) /\ x \in List!Frame
  BY <1>2, <1>3 DEF List!TypeOK, List!Frame, Others
<1>5. Append(down[s.node], x) \in Seq(List!Frame) /\ down' = [down EXCEPT ![s.node] = Append(down[s.node], x)]
  BY <1>2, <1>4 DEF List!Send
<1>6. /\ steps' \in [List!Thread -> Seq(List!Step)]
      /\ \A o \in List!Thread \ {th} : steps'[o] = steps[o]
      /\ steps'[th] # <<>> => Head(steps'[th]).do \notin Tasks
  BY <1>1, <1>2, TypedDropped
<1>. HIDE DEF x, s
<1>7. down' \in [Others -> Seq(List!Frame)]
  BY <1>2, <1>5 DEF List!TypeOK, Others
<1>8. UNCHANGED <<edits, lst, crev, rev, up, calm>>
  BY DEF List!Send
<1>9. List!TypeOK'
  BY <1>2, <1>6, <1>7, <1>8 DEF List!TypeOK, Others
<1>. QED BY <1>6, <1>8, <1>9, StepBudget DEF ListBound

LEMMA ReceiveListBound ==
  ASSUME ListBound, ListInv', NEW p \in Others, List!ReceiveList(p)
  PROVE  ListBound'
<1>. DEFINE x == Head(down[p])
            th == List!Recv(p)
<1>1. ListInv /\ List!TypeOK /\ th \in List!Thread /\ p \in List!Member
  BY Threads DEF ListBound
<1>2. down[p] \in Seq(List!Frame) /\ down[p] # <<>>
  BY <1>1 DEF List!TypeOK, List!ReceiveList, Others
<1>3. x \in List!Frame /\ Tail(down[p]) \in Seq(List!Frame)
  BY <1>2, HeadTailProperties
<1>4. List!Do("accept", p, x.nodes, x.revision) \in List!Step
  BY <1>1, <1>3, StepIs, ListBasics DEF List!Frame
<1>5. /\ down' = [down EXCEPT ![p] = Tail(down[p])]
      /\ List!Starts(th, <<List!Do("accept", p, x.nodes, x.revision)>>)
  BY DEF List!ReceiveList
<1>6. List!Do("accept", p, x.nodes, x.revision).do \notin Tasks
  BY DEF List!Do, Tasks
<1>. HIDE DEF x, th
<1>7. /\ steps' \in [List!Thread -> Seq(List!Step)]
      /\ \A o \in List!Thread \ {th} : steps'[o] = steps[o]
      /\ Head(steps'[th]).do \notin Tasks
  BY <1>1, <1>4, <1>5, <1>6, TypedStart
<1>8. down' \in [Others -> Seq(List!Frame)]
  BY <1>1, <1>3, <1>5 DEF List!TypeOK, Others
<1>9. UNCHANGED <<edits, lst, crev, rev, up>>
  BY DEF List!ReceiveList
<1>10. calm' \in BOOLEAN
  BY DEF ListInv, ListTypes
<1>11. List!TypeOK'
  BY <1>1, <1>7, <1>8, <1>9, <1>10 DEF List!TypeOK, Others
<1>. QED BY <1>1, <1>7, <1>9, <1>11, StepBudget DEF ListBound

LEMMA ClientBound ==
  ASSUME ListBound, ListInv', NEW th \in List!Thread, List!Accept(th) \/ List!Take(th) \/ List!Note(th)
  PROVE  ListBound'
<1>. DEFINE s == Head(steps[th])
<1>1. PICK k \in {"accept", "take", "note"} : List!Runs(th, k)
  BY DEF List!Accept, List!Take, List!Note
<1>2. /\ ListInv /\ List!TypeOK /\ steps[th] # <<>> /\ steps[th][1] = s /\ s.node \in List!Member
      /\ s.nodes \in List!List /\ s.revision \in 0 .. MaxEdits
  BY <1>1, RunsTyped
<1>. DEFINE take == List!Do("take", s.node, s.nodes, s.revision)
            note == List!Do("note", s.node, {}, s.revision)
<1>3. take \in List!Step /\ note \in List!Step
  BY <1>2, StepIs, ListBasics
<1>4. take.do \notin Tasks /\ note.do \notin Tasks
  BY DEF List!Do, Tasks
<1>5. List!Continues(th, <<>>) \/ List!Continues(th, <<take>>) \/ List!Continues(th, <<note>>)
  BY <1>2 DEF List!Accept, List!Take, List!Note
<1>. HIDE DEF take, note
<1>6. /\ steps' \in [List!Thread -> Seq(List!Step)]
      /\ \A o \in List!Thread \ {th} : steps'[o] = steps[o]
      /\ steps'[th] # <<>> => Head(steps'[th]).do \notin Tasks
  BY <1>2, <1>3, <1>4, <1>5, TypedDropped, TypedReplaced
<1>7. UNCHANGED <<edits, rev, up, down>> /\ calm' \in BOOLEAN
  <2>1. calm' \in BOOLEAN
    BY DEF ListInv, ListTypes
  <2>. QED BY <2>1 DEF List!Accept, List!Take, List!Note
<1>8. lst' \in [List!Member -> List!List]
  <2>1. lst' = lst \/ lst' = [lst EXCEPT ![s.node] = s.nodes]
    BY <1>2 DEF List!Accept, List!Take, List!Note
  <2>. QED BY <1>2, <2>1 DEF List!TypeOK
<1>9. crev' \in [List!Member -> 0 .. MaxEdits]
  <2>1. crev' = crev \/ crev' = [crev EXCEPT ![s.node] = s.revision]
    BY <1>2 DEF List!Accept, List!Take, List!Note
  <2>. QED BY <1>2, <2>1 DEF List!TypeOK
<1>10. List!TypeOK'
  BY <1>2, <1>6, <1>7, <1>8, <1>9 DEF List!TypeOK
<1>. QED BY <1>6, <1>7, <1>10, StepBudget DEF ListBound

LEMMA ListBoundHolds == DeskSpec => []ListBound
<1>1. DeskInit => ListBound
  <2>. SUFFICES ASSUME DeskInit PROVE ListBound
    OBVIOUS
  <2>1. List!Init /\ ListInv
    BY ListInit DEF DeskInit
  <2>2. List!TypeOK
    <3>1. up \in [Node \ {Coord} -> Seq(List!Frame)] /\ down \in [Node \ {Coord} -> Seq(List!Frame)]
      BY <2>1 DEF List!Init
    <3>2. steps \in [List!Thread -> Seq(List!Step)]
      BY <2>1 DEF List!Init
    <3>. QED BY <2>1, <3>1, <3>2, ListBasics DEF List!Init, List!TypeOK
  <2>3. AtWork = {} /\ InTransit = {}
    <3>1. \A th \in Worker : steps[th] = <<>>
      BY <2>1, Threads DEF List!Init
    <3>2. \A p \in Others : Len(up[p]) = 0
      BY <2>1 DEF List!Init, Others
    <3>3. \A x \in Others \X Nat : x[2] \notin 1 .. Len(up[x[1]])
      BY <3>2
    <3>. QED BY <3>1, <3>3 DEF AtWork, InTransit, Does
  <2>4. Budget
    BY <2>1, <2>3, FS_EmptySet DEF List!Init, Budget
  <2>. QED BY <2>1, <2>2, <2>4 DEF ListBound
<1>2. ListBound /\ [DeskNext]_deskVars => ListBound'
  <2>. SUFFICES ASSUME ListBound, [DeskNext]_deskVars PROVE ListBound'
    OBVIOUS
  <2>1. [List!Next]_listVars /\ ListInv'
    BY OnlyOnePartMoves, ListNextInv DEF ListBound
  <2>2. CASE UNCHANGED listVars
    <3>1. AtWork' = AtWork /\ InTransit' = InTransit
      BY <2>2 DEF listVars, AtWork, InTransit, Does
    <3>2. List!TypeOK'
      BY <2>2 DEF listVars, List!TypeOK, ListBound
    <3>3. Budget'
      BY <2>2, <3>1 DEF listVars, Budget, ListBound
    <3>. QED BY <2>1, <3>2, <3>3 DEF ListBound
  <2>3. ASSUME NEW n \in List!Member, List!Save(n) PROVE ListBound'
    BY <2>1, <2>3, SaveBound
  <2>4. ASSUME NEW p \in Others, List!ReceiveRequest(p) \/ List!ReceiveList(p) PROVE ListBound'
    BY <2>1, <2>4, ReceiveRequestBound, ReceiveListBound
  <2>5. ASSUME NEW th \in List!Thread, List!ThreadStep(th) PROVE ListBound'
    BY <2>1, <2>5, RequestBound, CheckBound, ApplyBound, CountBound, BuildBound, SendBound, ClientBound
    DEF List!ThreadStep
  <2>. QED BY <2>1, <2>2, <2>3, <2>4, <2>5 DEF List!Next, Others
<1>. QED BY <1>1, <1>2, PTL DEF DeskSpec

-----------------------------------------------------------------------------
(***************************************************************************)
(* The screens: every display has a cell of its own, and a node's size     *)
(* holds its displays.                                                     *)
(***************************************************************************)
LEMMA BelowMore ==
  ASSUME NEW D, IsFiniteSet(D), NEW g \in [D -> Int], NEW d \in D, NEW e \in D, g[d] < g[e]
  PROVE  /\ Cardinality(Below(D, g, d)) \in Nat /\ Cardinality(Below(D, g, e)) \in Nat
         /\ Cardinality(Below(D, g, d)) < Cardinality(Below(D, g, e))
<1>. DEFINE R == {g[x] : x \in D}
            A == Below(D, g, d)
            B == Below(D, g, e)
<1>1. IsFiniteSet(R)
  <2>1. g \in Surjection(D, R)
    BY DEF Surjection
  <2>. QED BY <2>1, FS_Surjection DEF ExistsSurjection
<1>2. A \in SUBSET R /\ B \in SUBSET R /\ A \subseteq B /\ g[d] \in B /\ g[d] \notin A
  BY DEF Below
<1>. HIDE DEF A, B, R
<1>3. IsFiniteSet(A) /\ IsFiniteSet(B)
  BY <1>1, <1>2, FS_Subset
<1>4. Cardinality(A) \in Nat /\ Cardinality(B) \in Nat
  BY <1>3, FS_CardinalityType
<1>5. Cardinality(A) <= Cardinality(B) /\ Cardinality(A) # Cardinality(B)
  BY <1>2, <1>3, FS_Subset
<1>6. Cardinality(A) < Cardinality(B)
  BY <1>4, <1>5
<1>. QED BY <1>4, <1>6 DEF A, B

LEMMA MaxIs ==
  ASSUME NEW T, T \subseteq Nat, T # {}, IsFiniteSet(T)
  PROVE  Screens!Max(T) \in T /\ \A y \in T : Screens!Max(T) >= y
<1>. DEFINE g == [x \in T |-> x]
            c == Cardinality(T)
            k(x) == c - Cardinality(Below(T, g, x))
            C == {k(x) : x \in T}
<1>1. g \in [T -> Int] /\ \A x \in T : g[x] = x
  OBVIOUS
<1>2. \A x \in T : Below(T, g, x) \in SUBSET T
  BY <1>1 DEF Below
<1>3. c \in Nat
  BY FS_CardinalityType
<1>4. \A x \in T : k(x) \in Nat
  <2>. TAKE x \in T
  <2>1. /\ IsFiniteSet(Below(T, g, x)) /\ Cardinality(Below(T, g, x)) <= c
    BY <1>2, FS_Subset
  <2>2. Cardinality(Below(T, g, x)) \in Nat
    BY <2>1, FS_CardinalityType
  <2>. QED BY <1>3, <2>1, <2>2
<1>5. PICK n \in C : \A y \in C : n <= y
  <2>1. C \subseteq Nat /\ C # {}
    BY <1>4
  <2>. HIDE DEF C
  <2>. QED BY <2>1, LeastOf
<1>6. PICK x \in T : n = k(x)
  OBVIOUS
<1>7. \A y \in T : k(x) <= k(y)
  BY <1>5, <1>6
<1>8. ASSUME NEW y \in T, ~(x >= y) PROVE FALSE
  <2>1. g[x] < g[y]
    BY <1>1, <1>8
  <2>2. /\ Cardinality(Below(T, g, x)) \in Nat /\ Cardinality(Below(T, g, y)) \in Nat
        /\ Cardinality(Below(T, g, x)) < Cardinality(Below(T, g, y))
    BY <1>1, <2>1, BelowMore
  <2>3. k(x) <= k(y)
    BY <1>7
  <2>. QED BY <1>3, <2>2, <2>3
<1>9. \E z \in T : \A y \in T : z >= y
  BY <1>8
<1>. QED BY <1>9 DEF Screens!Max

Apart(f) == \A d, e \in DOMAIN f : d # e => f[d] # f[e]

LEMMA RowsApart ==
  ASSUME NEW s, s \in [DOMAIN s -> Int \X Int], IsFiniteSet(DOMAIN s), DOMAIN s # {}, Apart(s)
  PROVE  Apart(Screens!LogicalRows(s))
<1>. DEFINE D == DOMAIN s
            a == [d \in D |-> s[d][1]]
            b == [d \in D |-> s[d][2]]
            t == Screens!LogicalRows(s)
<1>1. a \in [D -> Int] /\ b \in [D -> Int]
  OBVIOUS
<1>2. \A d \in D : s[d] = <<a[d], b[d]>>
  OBVIOUS
<1>3. ASSUME NEW d \in D
      PROVE  /\ {x \in {s[e][1] : e \in D} : x < s[d][1]} = Below(D, a, d)
             /\ {x \in {s[e][2] : e \in D} : x < s[d][2]} = Below(D, b, d)
  BY DEF Below
<1>4. \A d \in D : t[d] = <<Screens!Cardinality({x \in {s[e][1] : e \in D} : x < s[d][1]}),
                            Screens!Cardinality({x \in {s[e][2] : e \in D} : x < s[d][2]})>>
  BY DEF Screens!LogicalRows
<1>5. DOMAIN t = D
  BY DEF Screens!LogicalRows
<1>. HIDE DEF a, b, t
<1>6. \A d \in D : t[d] = <<Cardinality(Below(D, a, d)), Cardinality(Below(D, b, d))>>
  BY <1>3, <1>4, CountIs
<1>7. ASSUME NEW d \in D, NEW e \in D, d # e PROVE t[d] # t[e]
  <2>1. a[d] # a[e] \/ b[d] # b[e]
    BY <1>2, <1>7 DEF Apart
  <2>2. CASE a[d] # a[e]
    <3>1. a[d] \in Int /\ a[e] \in Int
      BY <1>1
    <3>2. a[d] < a[e] \/ a[e] < a[d]
      BY <2>2, <3>1
    <3>3. Cardinality(Below(D, a, d)) # Cardinality(Below(D, a, e))
      BY <1>1, <3>2, BelowMore
    <3>. QED BY <1>6, <3>3
  <2>3. CASE b[d] # b[e]
    <3>1. b[d] \in Int /\ b[e] \in Int
      BY <1>1
    <3>2. b[d] < b[e] \/ b[e] < b[d]
      BY <2>3, <3>1
    <3>3. Cardinality(Below(D, b, d)) # Cardinality(Below(D, b, e))
      BY <1>1, <3>2, BelowMore
    <3>. QED BY <1>6, <3>3
  <2>. QED BY <2>1, <2>2, <2>3
<1>8. Apart(t)
  BY <1>5, <1>7 DEF Apart
<1>. QED BY <1>8 DEF t

LEMMA SizeIs ==
  ASSUME NEW D, IsFiniteSet(D), D # {}, NEW f \in Grid(D)
  PROVE  /\ Screens!Left(f) \in Nat /\ Screens!Right(f) \in Nat /\ Screens!Left(f) < Screens!Right(f)
         /\ Screens!Top(f) \in Nat /\ Screens!Bottom(f) \in Nat /\ Screens!Top(f) < Screens!Bottom(f)
<1>. DEFINE a == [d \in D |-> f[d][1]]
            b == [d \in D |-> f[d][2]]
            A == {f[d][1] : d \in DOMAIN f}
            B == {f[d][2] : d \in DOMAIN f}
<1>1. DOMAIN f = D /\ A \subseteq Nat /\ B \subseteq Nat /\ A # {} /\ B # {}
  BY DEF Grid
<1>2. a \in Surjection(D, A) /\ b \in Surjection(D, B)
  BY <1>1 DEF Surjection
<1>3. IsFiniteSet(A) /\ IsFiniteSet(B)
  BY <1>2, FS_Surjection
<1>4. /\ Screens!Left(f) = Screens!Min(A) /\ Screens!Right(f) = Screens!Max(A) + 1
      /\ Screens!Top(f) = Screens!Min(B) /\ Screens!Bottom(f) = Screens!Max(B) + 1
  BY DEF Screens!Left, Screens!Right, Screens!Top, Screens!Bottom
<1>. HIDE DEF A, B
<1>5. Screens!Min(A) \in A /\ Screens!Max(A) \in A /\ Screens!Min(A) <= Screens!Max(A)
  BY <1>1, <1>3, MinIs, MaxIs
<1>6. Screens!Min(B) \in B /\ Screens!Max(B) \in B /\ Screens!Min(B) <= Screens!Max(B)
  BY <1>1, <1>3, MinIs, MaxIs
<1>7. /\ Screens!Min(A) \in Nat /\ Screens!Max(A) \in Nat
      /\ Screens!Min(B) \in Nat /\ Screens!Max(B) \in Nat
  BY <1>1, <1>5, <1>6
<1>. QED BY <1>4, <1>5, <1>6, <1>7

LEMMA TrimApart ==
  ASSUME NEW D, D # {}, IsFiniteSet(D), NEW f \in Grid(D), Apart(f)
  PROVE  Apart(Screens!Trim(f))
<1>1. Screens!Left(f) \in Nat /\ Screens!Top(f) \in Nat
  BY SizeIs
<1>2. DOMAIN f = D /\ \A d \in D : f[d] = <<f[d][1], f[d][2]>> /\ f[d][1] \in Nat /\ f[d][2] \in Nat
  BY DEF Grid
<1>3. DOMAIN Screens!Trim(f) = D
  BY <1>2 DEF Screens!Trim
<1>4. \A d \in D : Screens!Trim(f)[d] = <<f[d][1] - Screens!Left(f), f[d][2] - Screens!Top(f)>>
  BY <1>2 DEF Screens!Trim
<1>5. ASSUME NEW d \in D, NEW e \in D, d # e PROVE Screens!Trim(f)[d] # Screens!Trim(f)[e]
  <2>1. f[d][1] # f[e][1] \/ f[d][2] # f[e][2]
    BY <1>2, <1>5 DEF Apart
  <2>2. f[d][1] - Screens!Left(f) # f[e][1] - Screens!Left(f) \/ f[d][2] - Screens!Top(f) # f[e][2] - Screens!Top(f)
    BY <1>1, <1>2, <2>1
  <2>. QED BY <1>4, <2>2
<1>. QED BY <1>3, <1>5 DEF Apart

\* the displays of a node, detected or not
LEMMA RowsFinite ==
  ASSUME NEW n \in Node, NEW s \in Snapshots[n] \cup {None}
  PROVE  /\ IsFiniteSet(DOMAIN Rows(s)) /\ DOMAIN Rows(s) # {} /\ Apart(Rows(s)) /\ Trimmed(Rows(s))
         /\ DOMAIN Rows(s) = IF s = None THEN {Solo} ELSE DOMAIN s
<1>1. CASE s = None
  <2>1. Rows(s) = Screens!Default /\ DOMAIN Rows(s) = {Solo}
    BY <1>1, DefaultIs DEF Rows
  <2>2. IsFiniteSet(DOMAIN Rows(s))
    BY <2>1, FS_Singleton
  <2>3. Apart(Rows(s))
    BY <2>1 DEF Apart
  <2>. QED BY <1>1, <2>1, <2>2, <2>3, RowsTrimmed
<1>2. CASE s # None
  <2>1. s \in Snapshots[n]
    BY <1>2
  <2>2. s \in [DOMAIN s -> Int \X Int] /\ IsFiniteSet(DOMAIN s) /\ DOMAIN s # {} /\ Apart(s)
    BY <2>1, MonitorsAreKnown DEF Apart
  <2>3. Rows(s) = Screens!LogicalRows(s) /\ DOMAIN Rows(s) = DOMAIN s
    BY <1>2, RowsTrimmed DEF Rows
  <2>4. Apart(Rows(s))
    BY <2>2, <2>3, RowsApart
  <2>. QED BY <1>2, <2>2, <2>3, <2>4, RowsTrimmed
<1>. QED BY <1>1, <1>2

Spots(n) == Place \cup {Home[n]}

Sits(r, n) ==
  /\ r.at \in Spots(n) /\ Apart(r.phys)
  /\ r.width \in 1 .. Screens!Right(r.phys) /\ r.height \in 1 .. Screens!Bottom(r.phys)

AllSit(l) == \A n \in Node : Sits(l[n], n)

KeepsApart(over) == over = None \/ Apart(over)

FileSits(f) == \A n \in Node : f.at[n] \in Spots(n) /\ KeepsApart(f.over[n])

LEMMA BuiltSits ==
  ASSUME NEW n \in Node, NEW D, IsFiniteSet(D), D # {}, NEW p \in Grid(D), Apart(p),
         NEW at \in Spots(n), NEW log
  PROVE  /\ Sits(Screens!LayoutNode(at, log, p), n)
         /\ Sits([at |-> at, log |-> log, phys |-> p,
                  width |-> Screens!Right(p), height |-> Screens!Bottom(p)], n)
<1>1. /\ Screens!Left(p) \in Nat /\ Screens!Right(p) \in Nat /\ Screens!Left(p) < Screens!Right(p)
      /\ Screens!Top(p) \in Nat /\ Screens!Bottom(p) \in Nat /\ Screens!Top(p) < Screens!Bottom(p)
  BY SizeIs
<1>2. /\ Screens!Right(p) - Screens!Left(p) \in 1 .. Screens!Right(p)
      /\ Screens!Bottom(p) - Screens!Top(p) \in 1 .. Screens!Bottom(p)
      /\ Screens!Right(p) \in 1 .. Screens!Right(p) /\ Screens!Bottom(p) \in 1 .. Screens!Bottom(p)
  BY <1>1
<1>. QED BY <1>2 DEF Sits, Screens!LayoutNode

LEMMA LoadedSits ==
  ASSUME NEW f, FileOK(f), FileSits(f), NEW fd, Known(fd)
  PROVE  AllSit(Screens!Loaded(f, fd))
<1>. SUFFICES ASSUME NEW n \in Node PROVE Sits(Screens!Loaded(f, fd)[n], n)
  BY DEF AllSit
<1>. DEFINE s == fd[n]
            at == f.at[n]
            over == f.over[n]
<1>1. Screens!Loaded(f, fd)[n] = Screens!ResolveTopology(at, over, s)
  BY DEF Screens!Loaded
<1>2. s \in Snapshots[n] \cup {None} /\ Map(over) /\ at \in Spots(n) /\ KeepsApart(over)
  BY DEF Known, FileOK, FileSits
<1>. HIDE DEF s, at, over
<1>3. /\ IsFiniteSet(DOMAIN Rows(s)) /\ DOMAIN Rows(s) # {} /\ Apart(Rows(s)) /\ Trimmed(Rows(s))
  BY <1>2, RowsFinite
<1>4. \E p : /\ Screens!ResolveTopology(at, over, s) = Screens!LayoutNode(at, Rows(s), p)
             /\ Trimmed(p) /\ DOMAIN p = DOMAIN Rows(s) /\ Apart(p)
  <2>1. CASE s = None
    BY <1>3, <2>1 DEF Rows, Screens!ResolveTopology
  <2>2. CASE s # None
    <3>. DEFINE p == Screens!OverrideRows(over, Screens!LogicalRows(s))
    <3>1. Rows(s) = Screens!LogicalRows(s)
      BY <2>2 DEF Rows
    <3>2. Trimmed(p) /\ DOMAIN p = DOMAIN Rows(s) /\ Apart(p)
      BY <1>2, <1>3, <3>1 DEF Map, KeepsApart, Screens!OverrideRows
    <3>3. Screens!ResolveTopology(at, over, s) = Screens!LayoutNode(at, Rows(s), p)
      BY <2>2, <3>1 DEF Screens!ResolveTopology
    <3>. QED BY <3>2, <3>3
  <2>. QED BY <2>1, <2>2
<1>5. PICK p : /\ Screens!ResolveTopology(at, over, s) = Screens!LayoutNode(at, Rows(s), p)
               /\ Trimmed(p) /\ DOMAIN p = DOMAIN Rows(s) /\ Apart(p)
  BY <1>4
<1>6. p \in Grid(DOMAIN Rows(s))
  BY <1>5 DEF Trimmed
<1>. QED BY <1>1, <1>2, <1>3, <1>5, <1>6, BuiltSits

LEMMA GridOf ==
  ASSUME NEW fd, Known(fd), NEW l, Shows(l, fd), NEW n \in Node
  PROVE  /\ l[n].phys \in Grid(DOMAIN Rows(fd[n])) /\ l[n].log = Rows(fd[n])
         /\ IsFiniteSet(DOMAIN Rows(fd[n])) /\ DOMAIN Rows(fd[n]) # {}
<1>1. fd[n] \in Snapshots[n] \cup {None} /\ ShowsOne(l[n], fd[n])
  BY DEF Known, Shows
<1>. QED BY <1>1, RowsFinite DEF ShowsOne

LEMMA RebuiltSits ==
  ASSUME NEW fd, Known(fd), NEW l, Shows(l, fd), AllSit(l)
  PROVE  AllSit(Screens!Rebuilt(l))
<1>. SUFFICES ASSUME NEW n \in Node PROVE Sits(Screens!Rebuilt(l)[n], n)
  BY DEF AllSit
<1>. DEFINE D == DOMAIN Rows(fd[n])
            p == Screens!Trim(l[n].phys)
            at == l[n].at
            log == Screens!Trim(l[n].log)
<1>1. Screens!Rebuilt(l)[n] = Screens!LayoutNode(at, log, p)
  BY DEF Screens!Rebuilt
<1>2. l[n].phys \in Grid(D) /\ IsFiniteSet(D) /\ D # {}
  BY GridOf
<1>3. at \in Spots(n) /\ Apart(l[n].phys)
  BY DEF AllSit, Sits
<1>4. Apart(p) /\ Trimmed(p) /\ DOMAIN p = D
  BY <1>2, <1>3, TrimApart, TrimDoes
<1>5. p \in Grid(D)
  BY <1>4 DEF Trimmed
<1>. HIDE DEF D, p, at, log
<1>. QED BY <1>1, <1>2, <1>3, <1>4, <1>5, BuiltSits

LEMMA OverridesApart ==
  ASSUME NEW fd, Known(fd), NEW l, Shows(l, fd), AllSit(l), NEW fe, NEW n \in Node
  PROVE  KeepsApart(Screens!Overrides(l, fe)[n])
<1>1. l[n].phys \in Grid(DOMAIN Rows(fd[n])) /\ IsFiniteSet(DOMAIN Rows(fd[n])) /\ DOMAIN Rows(fd[n]) # {}
  BY GridOf
<1>2. Apart(Screens!Trim(l[n].phys))
  BY <1>1, TrimApart DEF AllSit, Sits
<1>3. Screens!Overrides(l, fe)[n] \in {None, Screens!Trim(l[n].phys)}
  BY DEF Screens!Overrides
<1>. QED BY <1>2, <1>3 DEF KeepsApart

LEMMA SavedSits ==
  ASSUME NEW fd, Known(fd), NEW l, Shows(l, fd), AllSit(l), NEW fe
  PROVE  FileSits(Screens!Saved(l, fe))
<1>. DEFINE f == Screens!Saved(l, fe)
<1>1. f = [at |-> Screens!Positions(l), over |-> Screens!Overrides(l, fe)]
  BY DEF Screens!Saved
<1>2. f.at = Screens!Positions(l) /\ f.over = Screens!Overrides(l, fe)
  BY <1>1
<1>. HIDE DEF f
<1>3. ASSUME NEW n \in Node PROVE f.at[n] \in Spots(n) /\ KeepsApart(f.over[n])
  <2>1. f.at[n] = l[n].at
    BY <1>2 DEF Screens!Positions
  <2>. QED BY <1>2, <2>1, OverridesApart DEF AllSit, Sits
<1>4. FileSits(f)
  BY <1>3 DEF FileSits
<1>. QED BY <1>4 DEF f

(***************************************************************************)
(* The steps.                                                              *)
(***************************************************************************)
Seated ==
  /\ ahead \subseteq Node
  /\ \A m \in Node : AllSit(layout[m]) /\ FileSits(file[m])

LEMMA PublishSeated ==
  ASSUME ScreensInv, Seated, NEW m \in Node, NEW l, Shows(l, found), AllSit(l), Screens!Publish(m, l)
  PROVE  Seated'
<1>. DEFINE r == Screens!Rebuilt(l)
            f == Screens!Saved(r, found)
<1>1. Known(found)
  BY DEF ScreensInv
<1>2. Shows(r, found) /\ AllSit(r)
  BY <1>1, GivenInv, RebuiltSits
<1>3. FileSits(f)
  BY <1>1, <1>2, SavedSits
<1>4. CASE Screens!Overlapping(r)
  <2>1. layout' = [layout EXCEPT ![m] = l] /\ ahead' = ahead \cup {m} /\ file' = file
    BY <1>4 DEF Screens!Publish
  <2>2. \A k \in Node : layout'[k] = l \/ layout'[k] = layout[k]
    BY <2>1 DEF ScreensInv
  <2>. QED BY <2>1, <2>2 DEF Seated
<1>5. CASE ~Screens!Overlapping(r)
  <2>1. file' = [k \in Node |-> f]
    BY <1>5 DEF Screens!Publish
  <2>2. PICK mine \in {l, r} : /\ layout' = [[k \in Node |-> r] EXCEPT ![m] = mine]
                               /\ ahead' = IF mine = r THEN {} ELSE {m}
    BY <1>5 DEF Screens!Publish
  <2>. HIDE DEF r, f
  <2>3. \A k \in Node : layout'[k] = l \/ layout'[k] = r
    BY <2>2
  <2>. QED BY <1>2, <1>3, <2>1, <2>2, <2>3 DEF Seated
<1>. QED BY <1>4, <1>5

LEMMA DragSeated ==
  ASSUME ScreensInv, Seated, NEW m \in Node, NEW n \in Node, NEW at \in Place, Screens!Drag(m, n, at)
  PROVE  Seated'
<1>. DEFINE l == Screens!Moved(layout[m], n, at)
<1>1. Shows(l, found) /\ Screens!Publish(m, l)
  BY MovedShows DEF ScreensInv, Screens!Drag
<1>2. Shows(layout[m], found) /\ AllSit(layout[m])
  BY DEF ScreensInv, Seated
<1>3. l[n] = [layout[m][n] EXCEPT !.at = at] /\ \A k \in Node \ {n} : l[k] = layout[m][k]
  BY <1>2 DEF Screens!Moved, Shows
<1>4. ShowsOne(layout[m][n], found[n])
  BY <1>2 DEF Shows
<1>5a. layout[m][n] = [at |-> layout[m][n].at, log |-> Rows(found[n]), phys |-> layout[m][n].phys,
                       width |-> layout[m][n].width, height |-> layout[m][n].height]
  BY <1>4 DEF ShowsOne
<1>5. l[n] = [at |-> at, log |-> Rows(found[n]), phys |-> layout[m][n].phys,
              width |-> layout[m][n].width, height |-> layout[m][n].height]
  BY <1>3, <1>5a
<1>. HIDE DEF l
<1>6. l[n].at = at /\ l[n].phys = layout[m][n].phys /\ l[n].width = layout[m][n].width
      /\ l[n].height = layout[m][n].height
  BY <1>5
<1>7. Sits(l[n], n)
  BY <1>2, <1>6 DEF AllSit, Sits, Spots
<1>8. AllSit(l)
  BY <1>2, <1>3, <1>7 DEF AllSit
<1>. QED BY <1>1, <1>8, PublishSeated

LEMMA MapEditSeated ==
  ASSUME ScreensInv, Seated, NEW m \in Node, NEW n \in Node, NEW phys \in Screens!Maps(n),
         Screens!MapEdit(m, n, phys)
  PROVE  Seated'
<1>. DEFINE log == Screens!LogicalRows(found[n])
            l == Screens!MonitorsReplaced(layout[m], n, log, phys)
<1>1. found[n] # None /\ Screens!Publish(m, l)
  BY DEF Screens!MapEdit
<1>2. phys \in [DOMAIN found[n] -> Cell] /\ Apart(phys)
  BY <1>1 DEF Screens!Maps, Apart
<1>3. found[n] \in Snapshots[n] \cup {None} /\ Shows(layout[m], found) /\ AllSit(layout[m])
  BY DEF ScreensInv, Known, Seated
<1>4. DOMAIN Rows(found[n]) = DOMAIN found[n] /\ IsFiniteSet(DOMAIN found[n]) /\ DOMAIN found[n] # {}
  BY <1>1, <1>3, RowsFinite
<1>5. phys \in Grid(DOMAIN found[n])
  BY <1>2, MonitorsAreKnown DEF Grid
<1>6. Shows(l, found)
  BY <1>1, <1>3, <1>4, <1>5, ReplacedShows
<1>. HIDE DEF log
<1>7. /\ \A k \in Node \ {n} : l[k] = layout[m][k]
      /\ l[n] = [Screens!LayoutNode(layout[m][n].at, log, phys)
                   EXCEPT !.width = Screens!Right(phys), !.height = Screens!Bottom(phys)]
  BY <1>3 DEF Screens!MonitorsReplaced, Shows
<1>8. l[n] = [at |-> layout[m][n].at, log |-> log, phys |-> phys,
              width |-> Screens!Right(phys), height |-> Screens!Bottom(phys)]
  BY <1>7 DEF Screens!LayoutNode
<1>. HIDE DEF l
<1>9. layout[m][n].at \in Spots(n)
  BY <1>3 DEF AllSit, Sits
<1>10. Sits(l[n], n)
  BY <1>2, <1>4, <1>5, <1>8, <1>9, BuiltSits
<1>11. AllSit(l)
  BY <1>3, <1>7, <1>10 DEF AllSit
<1>. QED BY <1>1, <1>6, <1>11, PublishSeated

LEMMA DetectSeated ==
  ASSUME ScreensInv, Seated, NEW n \in Node, NEW s \in Snapshots[n], Screens!Detect(n, s)
  PROVE  Seated'
<1>1. ScreensInv' /\ UNCHANGED ahead
  BY DetectInv DEF Screens!Detect
<1>2. \A m \in Node : file'[m] = [file[m] EXCEPT !.over = Screens!Overrides(layout[m], found')]
  BY DEF Screens!Detect
<1>3. ASSUME NEW m \in Node PROVE FileSits(file'[m])
  <2>1. file[m] = [at |-> file[m].at, over |-> file[m].over]
    BY DEF ScreensInv, FileOK
  <2>2. file'[m] = [at |-> file[m].at, over |-> Screens!Overrides(layout[m], found')]
    BY <1>2, <2>1
  <2>3. file'[m].at = file[m].at /\ file'[m].over = Screens!Overrides(layout[m], found')
    BY <2>2
  <2>4. \A k \in Node : KeepsApart(Screens!Overrides(layout[m], found')[k])
    BY OverridesApart DEF ScreensInv, Seated
  <2>. QED BY <2>3, <2>4 DEF FileSits, Seated
<1>4. ASSUME NEW m \in Node PROVE AllSit(layout'[m])
  <2>1. layout'[m] = Screens!Loaded(file'[m], found')
    BY DEF Screens!Detect
  <2>2. FileOK(file'[m]) /\ Known(found')
    BY <1>1 DEF ScreensInv
  <2>. QED BY <1>3, <2>1, <2>2, LoadedSits
<1>. QED BY <1>1, <1>3, <1>4 DEF Seated

LEMMA GivenSits ==
  ASSUME ScreensInv, Seated
  PROVE  LET r == Screens!Rebuilt(layout[Coord])
         IN  AllSit(r) /\ FileSits(Screens!Saved(r, found))
<1>1. Shows(layout[Coord], found) /\ AllSit(layout[Coord]) /\ Known(found)
  BY GroupIsFinite DEF ScreensInv, Seated
<1>. DEFINE r == Screens!Rebuilt(layout[Coord])
<1>2. AllSit(r) /\ Shows(r, found)
  BY <1>1, RebuiltSits, GivenInv
<1>3. FileSits(Screens!Saved(r, found))
  BY <1>1, <1>2, SavedSits
<1>. QED BY <1>2, <1>3

LEMMA ToggleSeated ==
  ASSUME ScreensInv, Seated, Screens!ToggleAutoSwitch
  PROVE  Seated'
<1>. DEFINE r == Screens!Rebuilt(layout[Coord])
            f == Screens!Saved(r, found)
<1>1. AllSit(r) /\ FileSits(f)
  BY GivenSits
<1>2. layout' = [m \in Node |-> r] /\ file' = [m \in Node |-> f] /\ ahead' = {}
  BY DEF Screens!ToggleAutoSwitch, Screens!ApplyLayout
<1>. HIDE DEF r, f
<1>. QED BY <1>1, <1>2 DEF Seated

LEMMA LoadSeated ==
  ASSUME ScreensInv, Seated, NEW m \in Node, Screens!Bound(m) \/ Screens!Reload(m)
  PROVE  Seated'
<1>. DEFINE f == Screens!Saved(Screens!Rebuilt(layout[Coord]), found)
<1>1. FileSits(f)
  BY GivenSits
<1>2. file' = [file EXCEPT ![m] = f] \/ file' = file
  BY DEF Screens!Bound, Screens!Reload
<1>. HIDE DEF f
<1>3. /\ layout' = [layout EXCEPT ![m] = Screens!Loaded(file'[m], found)]
      /\ found' = found /\ ahead' \subseteq Node
  BY DEF Screens!Bound, Screens!Reload, Seated
<1>4. ScreensInv'
  BY SentAgainInv, ReloadInv
<1>5. \A k \in Node : FileSits(file'[k])
  BY <1>1, <1>2 DEF Seated, ScreensInv
<1>6. AllSit(Screens!Loaded(file'[m], found))
  BY <1>3, <1>4, <1>5, LoadedSits DEF ScreensInv
<1>7. \A k \in Node : AllSit(layout'[k])
  BY <1>3, <1>6 DEF Seated, ScreensInv
<1>. QED BY <1>3, <1>5, <1>7 DEF Seated

LEMMA ScreensTyped ==
  ASSUME ScreensInv, Seated PROVE Screens!ScreenTypeOK
<1>1. \A n \in Node : found[n] \in Snapshots[n] \cup {None}
  BY DEF ScreensInv, Known
<1>2. ASSUME NEW m \in Node, NEW n \in Node
      PROVE  LET l == layout[m][n] IN
             /\ l.at \in Place \cup {Home[n]}
             /\ DOMAIN l.phys = DOMAIN l.log
             /\ DOMAIN l.phys = IF found[n] = None THEN {Solo} ELSE DOMAIN found[n]
             /\ \A d, e \in DOMAIN l.phys : d # e => l.phys[d] # l.phys[e] /\ l.log[d] # l.log[e]
             /\ l.width \in 1 .. Screens!Right(l.phys) /\ l.height \in 1 .. Screens!Bottom(l.phys)
             /\ file[m].at[n] \in Place \cup {Home[n]}
  <2>. DEFINE l == layout[m][n]
  <2>1. l.phys \in Grid(DOMAIN Rows(found[n])) /\ l.log = Rows(found[n])
    BY GridOf DEF ScreensInv
  <2>2. DOMAIN l.phys = DOMAIN Rows(found[n])
    BY <2>1 DEF Grid
  <2>3. Apart(Rows(found[n])) /\ DOMAIN Rows(found[n]) = IF found[n] = None THEN {Solo} ELSE DOMAIN found[n]
    BY <1>1, RowsFinite
  <2>4. Sits(l, n) /\ file[m].at[n] \in Spots(n)
    BY DEF Seated, AllSit, FileSits
  <2>. HIDE DEF l
  <2>5. \A d, e \in DOMAIN l.phys : d # e => l.phys[d] # l.phys[e] /\ l.log[d] # l.log[e]
    BY <2>1, <2>2, <2>3, <2>4 DEF Sits, Apart
  <2>6. /\ l.at \in Place \cup {Home[n]} /\ file[m].at[n] \in Place \cup {Home[n]}
        /\ DOMAIN l.phys = DOMAIN l.log
        /\ l.width \in 1 .. Screens!Right(l.phys) /\ l.height \in 1 .. Screens!Bottom(l.phys)
    BY <2>1, <2>2, <2>4 DEF Sits, Spots
  <2>. QED BY <2>2, <2>3, <2>5, <2>6 DEF l
<1>. QED BY <1>1, <1>2 DEF Screens!ScreenTypeOK, Seated

LEMMA ScreenTypes == DeskSpec => []Screens!ScreenTypeOK
<1>. DEFINE Inv == ScreensInv /\ Seated
<1>1. DeskInit => Inv
  <2>. SUFFICES ASSUME Screens!ScreenInit PROVE Inv
    BY DEF DeskInit
  <2>1. ScreensInv
    BY ScreensInitInv
  <2>2. ASSUME NEW m \in Node PROVE FileSits(file[m])
    <3>1. file[m] = [at |-> Home, over |-> [n \in Node |-> None]]
      BY DEF Screens!ScreenInit
    <3>2. file[m].at = Home /\ file[m].over = [n \in Node |-> None]
      BY <3>1
    <3>. QED BY <3>2 DEF FileSits, Spots, KeepsApart
  <2>3. ASSUME NEW m \in Node PROVE AllSit(layout[m])
    <3>1. layout[m] = Screens!Loaded(file[m], found)
      BY DEF Screens!ScreenInit
    <3>. QED BY <2>1, <2>2, <3>1, LoadedSits DEF ScreensInv
  <2>. QED BY <2>1, <2>2, <2>3 DEF Seated, Screens!ScreenInit
<1>2. Inv /\ [DeskNext]_deskVars => Inv'
  <2>. SUFFICES ASSUME Inv, [DeskNext]_deskVars PROVE Inv'
    OBVIOUS
  <2>1. ScreensInv'
    BY ScreensStepInv
  <2>2. CASE UNCHANGED screenVars
    BY <2>1, <2>2 DEF Seated, screenVars
  <2>3. CASE Screens!ScreenNext
    <3>1. ASSUME NEW m \in Drawer, NEW n \in Node, NEW at \in Place, Screens!Drag(m, n, at) PROVE Seated'
      BY <3>1, DragSeated, MonitorsAreKnown
    <3>2. ASSUME NEW m \in Drawer, NEW n \in Node, NEW phys \in Screens!Maps(n), Screens!MapEdit(m, n, phys)
          PROVE  Seated'
      BY <3>2, MapEditSeated, MonitorsAreKnown
    <3>. QED BY <2>1, <2>3, <3>1, <3>2, DetectSeated, ToggleSeated, LoadSeated DEF Screens!ScreenNext
  <2>. QED BY <2>2, <2>3 DEF DeskNext, deskVars, ElectionStep, ListStep, UpdateStep, StoreStep, ScreenStep
<1>3. Inv => Screens!ScreenTypeOK
  BY ScreensTyped
<1>. QED BY <1>1, <1>2, <1>3, PTL DEF DeskSpec

\* Desk's type invariant, for any group, monitors and threads: every part holds
\* values of its types after any steps of any of them.  In it are the bounds that
\* the code never states: a revision of the node list has an edit behind it,
\* and displays that are dragged, detected or loaded never share a cell.
THEOREM DeskTypes == DeskSpec => []DeskTypeOK
<1>1. ListBound => List!TypeOK
  BY DEF ListBound
<1>2. TypeOK /\ List!TypeOK /\ Update!TypeOK /\ Store!TypeOK /\ Screens!ScreenTypeOK => DeskTypeOK
  BY DEF DeskTypeOK
<1>. QED
  BY <1>1, <1>2, ElectionTypes, ListBoundHolds, UpdateTypes, StoreTypesHold, ScreenTypes, PTL
=============================================================================

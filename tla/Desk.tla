-------------------------------- MODULE Desk --------------------------------
(***************************************************************************)
(* The components that a node runs by itself, or with few frames.  As in   *)
(* Network they have no variable in common: in the first state one of them *)
(* is chosen, and only that one runs.  Election is the module this one     *)
(* extends; its variables have no prefix here.                             *)
(***************************************************************************)
EXTENDS Election, Integers, Sequences, FiniteSets

CONSTANTS
  Coord, MaxEdits,                                \* NodeList
  Button, MaxClicks, MaxBreaks,                   \* SelfUpdate
  Caller, Calls, MaxCalls, MaxFails,              \* ConfigStore
  Drawer, Place, Cell, Home, Snapshots, Solo      \* ScreenLayout

VARIABLES
  part,                                                            \* the one that runs
  edits, lst, crev, rev, up, down, steps, calm,                    \* NodeList
  app, check, install, latest, pending, asked, helpers, ran,       \* SelfUpdate
  ended, files, retry, sent, linked, clicks, breaks,
  disk, ctx, call, lock, content, before, unwritten, restart,      \* ConfigStore
  saved, calls, fails,
  layout, file, found, ahead                                       \* ScreenLayout

electVars  == vars
listVars   == <<edits, lst, crev, rev, up, down, steps, calm>>
updateVars == <<app, check, install, latest, pending, asked, helpers, ran,
                ended, files, retry, sent, linked, clicks, breaks>>
storeVars  == <<disk, ctx, call, lock, content, before, unwritten, restart, saved, calls, fails>>
screenVars == <<layout, file, found, ahead>>

List    == INSTANCE NodeList WITH Peers <- Node \ {Coord}, Editor <- Node, Failing <- Node,
             todo <- steps
Update  == INSTANCE SelfUpdate WITH Command <- Button
Store   == INSTANCE ConfigStore WITH todo <- unwritten
Screens == INSTANCE ScreenLayout WITH Editor <- Drawer

ASSUME BoundsAreNumbers == {MaxEdits, MaxClicks, MaxBreaks, MaxCalls, MaxFails} \subseteq Nat
ASSUME GroupIsFinite == IsFiniteSet(Node) /\ Coord \in Node
\* a desktop has finitely many monitors, which do not overlap; a map has rows
\* and columns; and None is neither
ASSUME MonitorsAreKnown ==
  /\ Drawer \subseteq Node /\ Cell \subseteq Nat \X Nat
  /\ \A n \in Node : \A s \in Snapshots[n] :
       /\ s \in [DOMAIN s -> Int \X Int] /\ IsFiniteSet(DOMAIN s) /\ DOMAIN s # {}
       /\ \A d, e \in DOMAIN s : d # e => s[d] # s[e]
       /\ None # s /\ None \notin [DOMAIN s -> Nat \X Nat]
ASSUME CallersAreThreads == None \notin Caller /\ \A t \in Caller : Calls[t] \subseteq Store!Kind

\* where the election is, and stays, while another part runs
Settled ==
  /\ conn = [n \in Node |-> IF n = Self THEN "up" ELSE "down"]
  /\ age = [n \in Node |-> IF n = Self THEN 0 ELSE None]
  /\ current = Self /\ challenger = None /\ chAge = 0
  /\ late = {} /\ seen = [p \in Picker |-> {}]

DeskInit ==
  /\ part \in {"election", "list", "update", "store", "screens"}
  /\ IF part = "election" THEN Init ELSE Settled
  /\ List!Init /\ Update!Init /\ Store!Init
  /\ Screens!ScreenInit
  /\ part # "update" => linked

ElectionStep == /\ part = "election" /\ Next
                /\ UNCHANGED <<part, listVars, updateVars, storeVars, screenVars>>
ListStep     == /\ part = "list" /\ List!Next
                /\ UNCHANGED <<part, electVars, updateVars, storeVars, screenVars>>
UpdateStep   == /\ part = "update" /\ Update!Next
                /\ UNCHANGED <<part, electVars, listVars, storeVars, screenVars>>
StoreStep    == /\ part = "store" /\ Store!Next
                /\ UNCHANGED <<part, electVars, listVars, updateVars, screenVars>>
ScreenStep   == /\ part = "screens" /\ Screens!ScreenNext
                /\ UNCHANGED <<part, electVars, listVars, updateVars, storeVars>>

DeskNext == \/ ElectionStep \/ ListStep \/ UpdateStep \/ StoreStep \/ ScreenStep

deskVars == <<part, electVars, listVars, updateVars, storeVars, screenVars>>

-----------------------------------------------------------------------------
(***************************************************************************)
(* Fairness, as in the modules, of the part that runs.                     *)
(***************************************************************************)
ElectionFairness ==
  /\ WF_electVars(part = "election" /\ \E p \in Picker : Read(p))
  /\ \A p \in Picker : WF_electVars(part = "election" /\ Decide(p))
  /\ []<>AllIdle
  /\ SF_electVars(part = "election" /\ Tick)
  /\ \A n \in Peers : /\ WF_electVars(part = "election" /\ Unbind(n))
                      /\ WF_electVars(part = "election" /\ Bound(n))
                      /\ WF_electVars(part = "election" /\ Unbound(n))

ListFairness ==
  /\ \A th \in List!Thread : WF_listVars(part = "list" /\ List!ThreadStep(th))
  /\ \A n \in Node \ {Coord} : /\ WF_listVars(part = "list" /\ List!ReceiveRequest(n))
                         /\ WF_listVars(part = "list" /\ List!ReceiveList(n))

UpdateFairness ==
  /\ WF_updateVars(part = "update" /\ Update!FinishCheck /\ check.by = "thread")
  /\ WF_updateVars(part = "update" /\ Update!CheckTimesOut)
  /\ WF_updateVars(part = "update" /\ Update!FinishInstall)
  /\ WF_updateVars(part = "update" /\ Update!DownloadFails /\ install.tracked)
  /\ WF_updateVars(part = "update" /\ Update!DeliverFiles)
  /\ WF_updateVars(part = "update" /\ Update!FlushRetries)
  /\ WF_updateVars(part = "update" /\ Update!Rebind)
  /\ WF_updateVars(part = "update" /\ Update!End /\ app = "quitting")
  /\ \A c \in Button \cup {None} : WF_updateVars(part = "update" /\ Update!RunHandoff(c))

DeskSpec == /\ DeskInit /\ [][DeskNext]_deskVars
            /\ ElectionFairness /\ ListFairness /\ UpdateFairness

-----------------------------------------------------------------------------
(***************************************************************************)
(* The properties of the parts, which are explained there.  Those of       *)
(* Election (ChallengerTracked, NoHastyHandoff, SettlesOnBest) are its own *)
(***************************************************************************)
\* every variable has a value of its type
DeskTypeOK == /\ TypeOK /\ List!TypeOK /\ Update!TypeOK /\ Store!TypeOK
              /\ Screens!ScreenTypeOK

\* NodeList: no edit is lost to another while edits take turns, and no node goes
\* back to an earlier revision; an edit ends in every list or in none.
ListsMoveOn == List!NoLostUpdate /\ List!PeersMoveOn
EditSettled == List!EditSettled

\* SelfUpdate: no outcome is forgotten, and who asked for an installation is
\* told; the page does not stay busy.
UpdateReported == [][Update!OutcomeKept']_updateVars /\ Update!InstalledReported
PageGetsFree   == Update!PageGetsFree

\* ConfigStore: what was saved last is in the files and in force.
SavesInForce == Store!SavesInForce

\* ScreenLayout: the edges lead to the same place whoever looks.
SameEdges == Screens!SameEdges
=============================================================================

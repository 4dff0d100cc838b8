---------------------------- MODULE ScreenLayout ----------------------------
(***************************************************************************)
(* Where the screens of a group are and where their edges lead, on every   *)
(* node: the layout in force (model/display/layouts.py), the files it is   *)
(* saved in (config_reloader.py), the detected monitors                    *)
(* (monitor_inventory.py), the two edits of the window (ui/layout_editor), *)
(* and how the coordinator makes the layout of one that of all             *)
(* (coordination/service.py, client.py).                                   *)
(*                                                                         *)
(* A display takes one cell of a grid, and a node the rectangle of its     *)
(* physical displays.  A frame is handled by everyone before the next one  *)
(* is sent (LayoutEdit is about frames that cross), and whoever edits has  *)
(* the edit lock.                                                          *)
(***************************************************************************)
EXTENDS Integers, FiniteSets, FiniteSetsExt

CONSTANTS
  Node,       \* the nodes, each with its own copy of the layout
  Coord,      \* the coordinator
  Editor,     \* the nodes whose user edits
  Place,      \* cells a node may be dragged to
  Cell,       \* cells of the monitor map
  Home,       \* Home[n]: where n is at first
  Snapshots,  \* Snapshots[n]: the desktops n may detect: display |-> <<left, top>>
  Solo,       \* the display of a node whose monitors are not known
  None

VARIABLES
  layout,  \* layout[m]: the LayoutConfig in force on m
  file,    \* file[m]: the layout and the overrides m has saved
  found,   \* found[n]: the detected monitors of n, known to all, or None
  ahead    \* the nodes that keep a layout the others were not given

vars == <<layout, file, found, ahead>>

-----------------------------------------------------------------------------
(***************************************************************************)
(* Topologies.  Rows of displays are a function from displays to cells.    *)
(***************************************************************************)
Direction == {"left", "right", "up", "down"}

Step(cell, dir) ==
  CASE dir = "left"  -> <<cell[1] - 1, cell[2]>>
    [] dir = "right" -> <<cell[1] + 1, cell[2]>>
    [] dir = "up"    -> <<cell[1], cell[2] - 1>>
    [] dir = "down"  -> <<cell[1], cell[2] + 1>>

Left(f)   == Min({f[d][1] : d \in DOMAIN f})
Top(f)    == Min({f[d][2] : d \in DOMAIN f})
Right(f)  == Max({f[d][1] : d \in DOMAIN f}) + 1
Bottom(f) == Max({f[d][2] : d \in DOMAIN f}) + 1

\* Rendered as rows: no empty row or column before the first display.
Trim(f) == [d \in DOMAIN f |-> <<f[d][1] - Left(f), f[d][2] - Top(f)>>]

\* The rows of a detected desktop: one for each different top, one column
\* for each different left.
LogicalRows(s) ==
  [d \in DOMAIN s |-> <<Cardinality({x \in {s[e][1] : e \in DOMAIN s} : x < s[d][1]}),
                        Cardinality({y \in {s[e][2] : e \in DOMAIN s} : y < s[d][2]})>>]

\* No display is cut off from the others.
Contiguous(f) ==
  LET Touch(S) == S \cup {d \in DOMAIN f : \E e \in S, dir \in Direction : f[d] = Step(f[e], dir)}
  IN  \A d \in DOMAIN f : \A S \in SUBSET (DOMAIN f) : d \in S /\ Touch(S) = S => S = DOMAIN f

LayoutNode(at, log, phys) ==
  [at |-> at, log |-> log, phys |-> phys,
   width |-> Right(phys) - Left(phys), height |-> Bottom(phys) - Top(phys)]

\* Rows from the file, which count only for the displays there are.
OverrideRows(over, log) == IF over # None /\ DOMAIN over = DOMAIN log THEN over ELSE log

Default == [d \in {Solo} |-> <<0, 0>>]

ResolveTopology(at, over, s) ==
  IF s = None THEN LayoutNode(at, Default, Default)
              ELSE LayoutNode(at, LogicalRows(s), OverrideRows(over, LogicalRows(s)))

Moved(l, n, at) == [l EXCEPT ![n].at = at]

\* An edited map is taken as it is drawn, with the empty columns before it.
MonitorsReplaced(l, n, log, phys) ==
  [l EXCEPT ![n] = [LayoutNode(l[n].at, log, phys) EXCEPT !.width = Right(phys), !.height = Bottom(phys)]]

Overlapping(l) ==
  \E m, n \in Node :
    /\ m # n
    /\ l[m].at[1] < l[n].at[1] + l[n].width  /\ l[n].at[1] < l[m].at[1] + l[m].width
    /\ l[m].at[2] < l[n].at[2] + l[n].height /\ l[n].at[2] < l[m].at[2] + l[m].height

\* What a layout is once it has been sent: rendered as rows and built again.
Rebuilt(l) == [n \in Node |-> LayoutNode(l[n].at, Trim(l[n].log), Trim(l[n].phys))]

-----------------------------------------------------------------------------
(***************************************************************************)
(* Files.                                                                  *)
(***************************************************************************)
\* Mutant of Overrides: a map as large as the detected desktop is not kept.
OverridesOfSize(l, s) ==
  [n \in Node |->
     IF /\ s[n] # None
        /\ DOMAIN l[n].phys = DOMAIN s[n]
        /\ l[n].width # Right(LogicalRows(s[n]))
     THEN Trim(l[n].phys) ELSE None]

\* The physical rows of nodes with known monitors, where they differ from
\* the detected ones.
Overrides(l, s) ==
  [n \in Node |->
     IF /\ s[n] # None
        /\ DOMAIN l[n].phys = DOMAIN s[n]
        /\ Trim(l[n].phys) # LogicalRows(s[n])
     THEN Trim(l[n].phys) ELSE None]

Positions(l) == [n \in Node |-> l[n].at]

Saved(l, s) == [at |-> Positions(l), over |-> Overrides(l, s)]

Loaded(f, s) == [n \in Node |-> ResolveTopology(f.at[n], f.over[n], s[n])]

-----------------------------------------------------------------------------
(***************************************************************************)
(* Edges.                                                                  *)
(***************************************************************************)
\* The displays behind an edge, on the shared map and on the node's desktop.
Slot(l, n, d, dir) ==
  LET On(m, e) == <<l[m].at[1] + l[m].phys[e][1], l[m].at[2] + l[m].phys[e][2]>>
  IN  [physical |-> {at \in UNION {{m} \X DOMAIN l[m].phys : m \in Node} :
                       at # <<n, d>> /\ On(at[1], at[2]) = Step(On(n, d), dir)},
       logical  |-> {e \in DOMAIN l[n].log \ {d} : l[n].log[e] = Step(l[n].log[d], dir)}]

Slots(l) == [n \in Node |-> [d \in DOMAIN l[n].phys |-> [dir \in Direction |-> Slot(l, n, d, dir)]]]

-----------------------------------------------------------------------------
ScreenInit ==
  /\ found = [n \in Node |-> None]
  /\ file = [m \in Node |-> [at |-> Home, over |-> [n \in Node |-> None]]]
  /\ layout = [m \in Node |-> Loaded(file[m], found)]
  /\ ahead = {}

\* A layout that all are given is built from its frame and saved.
ApplyLayout(l) ==
  /\ layout' = [m \in Node |-> Rebuilt(l)]
  /\ file' = [m \in Node |-> Saved(Rebuilt(l), found)]

\* Editor m publishes a layout, which the coordinator drops if nodes overlap.
\* m keeps what it has drawn: the coordinator in the end, the others unless
\* the frame arrives after that.
Publish(m, l) ==
  /\ IF Overlapping(Rebuilt(l))
     THEN /\ layout' = [layout EXCEPT ![m] = l]
          /\ ahead' = ahead \cup {m}
          /\ file' = file
     ELSE /\ file' = [k \in Node |-> Saved(Rebuilt(l), found)]
          /\ \E mine \in {l, Rebuilt(l)} :
               /\ m = Coord => mine = l
               /\ layout' = [[k \in Node |-> Rebuilt(l)] EXCEPT ![m] = mine]
               /\ ahead' = IF mine = Rebuilt(l) THEN {} ELSE {m}
  /\ UNCHANGED found

\* A node is dragged to another cell and dropped.
Drag(m, n, at) ==
  /\ at # layout[m][n].at
  /\ ~Overlapping(Moved(layout[m], n, at))
  /\ Publish(m, Moved(layout[m], n, at))

\* The monitor map of n is edited and applied.
MapEdit(m, n, phys) ==
  /\ found[n] # None
  /\ DOMAIN phys = DOMAIN found[n]
  /\ Contiguous(LogicalRows(found[n])) /\ Contiguous(phys)
  /\ Publish(m, MonitorsReplaced(layout[m], n, LogicalRows(found[n]), phys))

\* n's monitors are detected and made known: everyone saves them, with the
\* overrides of its layout, and loads its files again.
Detect(n, s) ==
  /\ s # found[n]
  /\ found' = [found EXCEPT ![n] = s]
  /\ file' = [m \in Node |-> [file[m] EXCEPT !.over = Overrides(layout[m], found')]]
  /\ layout' = [m \in Node |-> Loaded(file'[m], found')]
  /\ UNCHANGED ahead

\* The setting is toggled: the coordinator's layout goes to everyone as it is.
ToggleAutoSwitch ==
  /\ ApplyLayout(layout[Coord])
  /\ ahead' = {}
  /\ UNCHANGED found

\* m is connected to the coordinator again and sent its layout, then what is
\* known of the monitors.
Bound(m) ==
  /\ m # Coord
  /\ file' = [file EXCEPT ![m] = Saved(Rebuilt(layout[Coord]), found)]
  /\ layout' = [layout EXCEPT ![m] = Loaded(file'[m], found)]
  /\ ahead' = IF Coord \in ahead THEN ahead \cup {m} ELSE ahead \ {m}
  /\ UNCHANGED found

\* m is started again, or its files are read again.
Reload(m) ==
  /\ layout' = [layout EXCEPT ![m] = Loaded(file[m], found)]
  /\ UNCHANGED <<file, found, ahead>>

Maps(n) == IF found[n] = None THEN {} ELSE
             {f \in [DOMAIN found[n] -> Cell] : \A d, e \in DOMAIN f : d # e => f[d] # f[e]}

ScreenNext ==
  \/ \E m \in Editor, n \in Node : \/ \E at \in Place : Drag(m, n, at)
                                   \/ \E phys \in Maps(n) : MapEdit(m, n, phys)
  \/ \E n \in Node : \E s \in Snapshots[n] : Detect(n, s)
  \/ ToggleAutoSwitch
  \/ \E m \in Node : Bound(m) \/ Reload(m)

ScreenSpec == ScreenInit /\ [][ScreenNext]_vars

-----------------------------------------------------------------------------
\* Every variable has a value of its type: every node shows the displays
\* that are known, each on a cell of its own, and a size that holds them.
ScreenTypeOK ==
  /\ ahead \subseteq Node
  /\ \A n \in Node : found[n] \in Snapshots[n] \cup {None}
  /\ \A m, n \in Node :
       LET l == layout[m][n] IN
       /\ l.at \in Place \cup {Home[n]}
       /\ DOMAIN l.phys = DOMAIN l.log
       /\ DOMAIN l.phys = IF found[n] = None THEN {Solo} ELSE DOMAIN found[n]
       /\ \A d, e \in DOMAIN l.phys : d # e => l.phys[d] # l.phys[e] /\ l.log[d] # l.log[e]
       /\ l.width \in 1 .. Right(l.phys) /\ l.height \in 1 .. Bottom(l.phys)
       /\ file[m].at[n] \in Place \cup {Home[n]}

\* The edges of a screen lead to the same place whoever looks: whether a node
\* got the layout in a frame, read it from its files after a start, or built
\* it again when monitors were detected.  (Not for a node that has kept what
\* it has drawn while the others were given something else.)
SameEdges == \A l, r \in {layout[m] : m \in Node \ ahead} : l # r => Slots(l) = Slots(r)

\* Claim of README.md:128: the result of editing a monitor map is in the
\* overrides that are saved.
MapEditSaved ==
  [][\A m \in Editor, n \in Node : \A phys \in Maps(n) :
       MapEdit(m, n, phys) => Loaded(file'[m], found)[n].phys = Trim(phys)]_vars
=============================================================================

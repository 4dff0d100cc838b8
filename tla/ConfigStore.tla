----------------------------- MODULE ConfigStore -----------------------------
(***************************************************************************)
(* The configuration of a node: in files and, as its RuntimeContext, in    *)
(* memory.  RuntimeConfigReloader (app/config/config_reloader.py) loads    *)
(* the files, replaces a section, writes them all (config_loader.py), and  *)
(* brings the context in line with them, each time under _persist_lock.    *)
(* What it changes in the context before it has the lock is modelled too.  *)
(*                                                                         *)
(* A section has the number of the call that has brought its content; the  *)
(* inventory is the set of the snapshots in it.  The delayed saving of     *)
(* layouts is left out: no caller in the program asks for it.              *)
(***************************************************************************)
EXTENDS Naturals, Sequences

CONSTANTS
  Caller,    \* the threads that save
  Calls,     \* Calls[t]: the kinds of calls that thread t makes
  None,
  MaxCalls,  \* bound: calls
  MaxFails   \* bound: files that cannot be written

VARIABLES
  disk,     \* the content of the files
  ctx,      \* the content of the RuntimeContext
  call,     \* call[t]: the call under way, or None
  lock,     \* who holds _persist_lock, or None
  content,  \* what its holder is writing
  before,   \* what it found in the files
  todo,     \* the files it has still to write
  restart,  \* the file says another port for this node than it runs with
  saved,    \* the nodes and settings of the last call of each kind that has succeeded
  calls, fails

vars == <<disk, ctx, call, lock, content, before, todo, restart, saved, calls, fails>>

Kind == {"layout", "inventory", "nodes", "port", "note", "settings", "both", "reload"}
Content == [nodes : 0 .. MaxCalls, settings : 0 .. MaxCalls, layout : 0 .. MaxCalls,
            inventory : SUBSET (1 .. MaxCalls)]
Empty == [nodes |-> 0, settings |-> 0, layout |-> 0, inventory |-> {}]

\* the sections of each file, in the order they are written
File == <<{"nodes", "settings"}, {"layout"}, {"inventory"}>>

TypeOK ==
  /\ disk \in Content /\ ctx \in Content /\ content \in Content /\ before \in Content
  /\ \A t \in Caller :
       call[t] # None => /\ call[t].kind \in Kind /\ call[t].no \in 1 .. MaxCalls
                         /\ call[t].snapshots \subseteq 1 .. MaxCalls
  /\ lock \in Caller \cup {None}
  /\ todo \in {SubSeq(File, i, 3) : i \in 1 .. 4}
  /\ restart \in BOOLEAN
  /\ saved \in [nodes : 0 .. MaxCalls, settings : 0 .. MaxCalls]
  /\ calls \in 0 .. MaxCalls /\ fails \in 0 .. MaxFails

Init ==
  /\ disk = Empty /\ ctx = Empty /\ content = Empty /\ before = Empty
  /\ call = [t \in Caller |-> None] /\ lock = None /\ todo = <<>>
  /\ restart = FALSE
  /\ saved = [nodes |-> 0, settings |-> 0]
  /\ calls = 0 /\ fails = 0

-----------------------------------------------------------------------------
(***************************************************************************)
(* What a call does before it waits for the lock: apply_layout has         *)
(* replaced the context's layout, apply_monitor_inventory its inventory,   *)
(* and the inventory to be written is the one of then.                     *)
(***************************************************************************)
Begin(t, kind) ==
  /\ call[t] = None /\ calls < MaxCalls /\ calls' = calls + 1
  /\ call' = [call EXCEPT ![t] = [kind |-> kind, no |-> calls',
                                  snapshots |-> IF kind = "inventory"
                                                THEN ctx.inventory \cup {calls'} ELSE {}]]
  /\ CASE kind = "layout"    -> ctx' = [ctx EXCEPT !.layout = calls']
       [] kind = "inventory" -> ctx' = [ctx EXCEPT !.inventory = @ \cup {calls'}]
       [] OTHER              -> UNCHANGED ctx
  /\ UNCHANGED <<disk, lock, content, before, todo, restart, saved, fails>>

\* What a call replaces in the files it has loaded.  A new node list takes
\* the layout and the inventory of the context with it.
WithLayout(k)    == [disk EXCEPT !.layout = k.no]
WithInventory(k) == [disk EXCEPT !.inventory = k.snapshots]
WithNodes(k)     == [ctx EXCEPT !.nodes = k.no, !.settings = disk.settings]
WithNote(k)      == [disk EXCEPT !.nodes = k.no]
WithSettings(k)  == [disk EXCEPT !.settings = k.no]
WithBoth(k)      == [disk EXCEPT !.settings = k.no, !.layout = k.no]

Changed(k) ==
  CASE k.kind = "layout"            -> WithLayout(k)
    [] k.kind = "inventory"         -> WithInventory(k)
    [] k.kind \in {"nodes", "port"} -> WithNodes(k)
    [] k.kind = "note"              -> WithNote(k)
    [] k.kind = "settings"          -> WithSettings(k)
    [] k.kind = "both"              -> WithBoth(k)
    [] OTHER                        -> disk

\* it has the lock, and loads the files
Enter(t) ==
  /\ call[t] # None /\ lock = None /\ lock' = t
  /\ content' = Changed(call[t]) /\ before' = disk
  /\ todo' = IF call[t].kind = "reload" THEN <<>> ELSE File
  /\ UNCHANGED <<disk, ctx, call, restart, saved, calls, fails>>

\* save_config writes the next file
WriteFile(t) ==
  /\ lock = t /\ todo # <<>> /\ todo' = Tail(todo)
  /\ disk' = [s \in DOMAIN disk |-> IF s \in Head(todo) THEN content[s] ELSE disk[s]]
  /\ UNCHANGED <<ctx, call, lock, content, before, restart, saved, calls, fails>>

Leave(t) == lock' = None /\ call' = [call EXCEPT ![t] = None] /\ todo' = <<>>

\* Mutant of WriteFails: files that have been written stay.
WriteFailsHalf(t) ==
  /\ lock = t /\ todo # <<>> /\ fails < MaxFails /\ fails' = fails + 1
  /\ Leave(t)
  /\ UNCHANGED <<disk, ctx, content, before, restart, saved, calls>>

\* save_config cannot write a file: _restore_file_snapshots
WriteFails(t) ==
  /\ lock = t /\ todo # <<>> /\ fails < MaxFails /\ fails' = fails + 1
  /\ disk' = before
  /\ Leave(t)
  /\ UNCHANGED <<ctx, content, before, restart, saved, calls>>

\* _apply_config_snapshot, and what the call does itself, before it leaves
\* the lock.  A context cannot change the port of its own node:
\* validate_reloadable_self raises until the program is started again.
Apply(t) ==
  /\ lock = t /\ todo = <<>>
  /\ restart' = (restart \/ call[t].kind = "port")
  /\ ctx' = CASE call[t].kind = "layout"   -> ctx
              [] call[t].kind = "settings" -> [ctx EXCEPT !.settings = content.settings]
              [] OTHER                     -> IF restart' THEN ctx ELSE content
  /\ saved' = CASE call[t].kind \in {"nodes", "port", "note"} -> [saved EXCEPT !.nodes = call[t].no]
                [] call[t].kind \in {"settings", "both"} -> [saved EXCEPT !.settings = call[t].no]
                [] OTHER -> saved
  /\ Leave(t)
  /\ UNCHANGED <<disk, content, before, calls, fails>>

\* the program is started again
Restart ==
  /\ restart /\ lock = None /\ \A t \in Caller : call[t] = None
  /\ ctx' = disk /\ restart' = FALSE
  /\ UNCHANGED <<disk, call, lock, content, before, todo, saved, calls, fails>>

Next ==
  \/ \E t \in Caller : \/ \E kind \in Calls[t] : Begin(t, kind)
                       \/ Enter(t) \/ WriteFile(t) \/ WriteFails(t) \/ Apply(t)
  \/ Restart

Spec == Init /\ [][Next]_vars

Fairness == \A t \in Caller : WF_vars(Enter(t) \/ WriteFile(t) \/ Apply(t))

-----------------------------------------------------------------------------
(***************************************************************************)
(* Whatever is saved at the same time, and whatever cannot be written, the *)
(* files and the running program have the nodes and the settings of the    *)
(* last call that has succeeded (but for a new port of its own: the        *)
(* program has the nodes it had until it is started again).                *)
(***************************************************************************)
SavesInForce ==
  lock = None =>
    /\ disk.nodes = saved.nodes /\ disk.settings = saved.settings
    /\ ~restart => ctx.nodes = saved.nodes /\ ctx.settings = saved.settings

(***************************************************************************)
(* config_reloader.py:86: a layout is saved in the files and comes into    *)
(* force in the running program.  Here: once no call is under way, both    *)
(* have the same one.  It does not hold: a call that brings the context in *)
(* line with the files takes back the layout of one that waits.            *)
(***************************************************************************)
LayoutInForce ==
  ~restart /\ fails = 0 /\ (\A t \in Caller : call[t] = None) => ctx.layout = disk.layout
=============================================================================

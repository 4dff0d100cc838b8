----------------------------- MODULE Membership -----------------------------
(***************************************************************************)
(* What keeps a node in its place in the group: peers that contend for     *)
(* leases (LeaseService, the module this one extends), and a node that     *)
(* follows its own address (OwnAddress).  They have no variable in common: *)
(* in the first state one of the two is chosen, and only that one runs.    *)
(***************************************************************************)
EXTENDS LeaseService

CONSTANTS
  Ip4, Home, Locals, MaxRetries, MaxMoves, MaxEdits, MaxBreaks, MaxFails   \* OwnAddress

VARIABLES
  part,                                                            \* the one that runs
  local, seen, last, told, own, rev, pending, step, tracked,       \* OwnAddress
  known, crev, up, down, linked, warned, crossed, refused,
  ids, moves, edits, breaks

addressVars == <<local, seen, last, told, own, rev, pending, step, tracked, known, crev, up,
                 down, linked, warned, crossed, refused, ids, moves, edits, breaks>>

Address == INSTANCE OwnAddress WITH Address <- Ip4

\* None is neither an address nor a number nor a change that is pending
ASSUME AddressesAreKnown ==
  /\ Home \in Ip4 /\ Locals \subseteq SUBSET Ip4 /\ MaxRetries \in Nat
  /\ None \notin Address!Ip \cup Nat \cup Address!Change

MemberInit == part \in {"leases", "address"} /\ Init /\ Address!AddressInit

LeaseStep   == part = "leases" /\ Next /\ UNCHANGED <<part, addressVars>>
AddressStep == part = "address" /\ Address!AddressNext /\ UNCHANGED <<part, lsVars>>

MemberNext == LeaseStep \/ AddressStep

MemberSpec == MemberInit /\ [][MemberNext]_<<part, lsVars, addressVars>>

\* OwnAddress: every variable has a value of its type, and a change of the node's address
\* reaches the coordinator or its user is warned.
AddressFollows == part = "address" => Address!AddressTypeOK /\ Address!AddressFollows
=============================================================================

------------------------------ MODULE PeerLink ------------------------------
(***************************************************************************)
(* The connection of two nodes (transport/peer).  Each of them dials the   *)
(* other (PeerDialer) and accepts what the other dials (PeerServer); the   *)
(* registry of a node (PeerRegistry) takes the first connection that is    *)
(* bound and refuses others as long as that one is not closed.  A          *)
(* connection has two ends that are bound, refused and closed one by one.  *)
(*                                                                         *)
(* A node that does not have the other one in its list does not dial it,   *)
(* and answers its hello with a reject, after which the other one waits    *)
(* before it dials again.                                                  *)
(***************************************************************************)
EXTENDS Naturals

CONSTANTS
  A, B,        \* the two nodes
  None,        \* no connection
  Slot,        \* a dialer's connections that have not been closed at both ends
  MaxEvents    \* bound: broken connections, handshakes that time out, and
               \* changes of the node lists

Node == {A, B}
Other(n) == IF n = A THEN B ELSE A

Conn == Node \X Slot                 \* <<who dials, number>>
End  == Conn \X {"dials", "serves"}

Owner(e)  == IF e[2] = "dials" THEN e[1][1] ELSE Other(e[1][1])
FarEnd(e) == <<e[1], IF e[2] = "dials" THEN "serves" ELSE "dials">>

VARIABLES
  known,     \* the nodes that have the other one in their list
  wait,      \* the nodes that have been rejected and wait
  dial,      \* what the dial loop of a node does: look, hello, alive
  sock,      \* an end: none, hello (handshake), open, closed (to be unbound)
  reg,       \* the end that is bound in a node's registry
  rejected,  \* connections with a reject on its way to the dialer
  events

vars == <<known, wait, dial, sock, reg, rejected, events>>

TypeOK ==
  /\ known \subseteq Node /\ wait \subseteq Node
  /\ dial \in [Node -> {"look", "hello", "alive"}]
  /\ sock \in [End -> {"none", "hello", "open", "closed"}]
  /\ reg \in [Node -> End \cup {None}]
  /\ rejected \subseteq Conn
  /\ events \in 0 .. MaxEvents

Init ==
  /\ known \in SUBSET Node
  /\ wait = {}
  /\ dial = [n \in Node |-> "look"]
  /\ sock = [e \in End |-> "none"]
  /\ reg = [n \in Node |-> None]
  /\ rejected = {}
  /\ events = 0

\* PeerRegistry.has: a connection that is bound and not closed
Has(n) == reg[n] # None /\ sock[reg[n]] = "open"

\* Mutant of Bind: a connection that is bound is replaced by the next one.
BindAnyway(e) ==
  /\ reg' = [reg EXCEPT ![Owner(e)] = e]
  /\ sock' = [sock EXCEPT ![e] = "open"]

\* PeerRegistry.bind, and PeerConnection.start or close
Bind(e) ==
  LET n == Owner(e)
  IN  \/ /\ ~Has(n)
         /\ reg' = [reg EXCEPT ![n] = e]
         /\ sock' = [sock EXCEPT ![e] = "open"]
      \/ /\ Has(n)
         /\ sock' = [sock EXCEPT ![e] = "none"]
         /\ UNCHANGED reg

-----------------------------------------------------------------------------
(***************************************************************************)
(* PeerDialer: _dial_loop looks whether there is something to do,          *)
(* _dial_once connects, shakes hands and binds.                            *)
(***************************************************************************)
DialConnect(n) ==
  /\ dial[n] = "look"
  /\ n \in known /\ n \notin wait /\ ~Has(n)
  /\ \E s \in Slot :
       LET d == <<<<n, s>>, "dials">>
       IN  /\ sock[d] = "none" /\ sock[FarEnd(d)] = "none"
           /\ sock' = [sock EXCEPT ![d] = "hello", ![FarEnd(d)] = "hello"]
           /\ rejected' = rejected \ {<<n, s>>}
  /\ dial' = [dial EXCEPT ![n] = "hello"]
  /\ UNCHANGED <<known, wait, reg, events>>

DialBind(n) ==
  /\ dial[n] = "hello"
  /\ \E s \in Slot :
       /\ sock[<<<<n, s>>, "dials">>] = "hello"
       /\ Bind(<<<<n, s>>, "dials">>)
  /\ dial' = [dial EXCEPT ![n] = "alive"]
  /\ UNCHANGED <<known, wait, rejected, events>>

\* Mutant of DialAgain: a dial loop that has succeeded ends.
DialOnce(n) ==
  /\ dial[n] = "alive" /\ ~Has(n)
  /\ UNCHANGED vars

DialAgain(n) ==
  /\ dial[n] = "alive" /\ ~Has(n)
  /\ dial' = [dial EXCEPT ![n] = "look"]
  /\ UNCHANGED <<known, wait, sock, reg, rejected, events>>

(***************************************************************************)
(* PeerServer._handshake_inbound, run by the node that is dialled.         *)
(***************************************************************************)
ServeBind(c) ==
  /\ Other(c[1]) \in known
  /\ sock[<<c, "serves">>] = "hello"
  /\ Bind(<<c, "serves">>)
  /\ UNCHANGED <<known, wait, dial, rejected, events>>

ServeReject(c) ==
  /\ Other(c[1]) \notin known
  /\ sock[<<c, "serves">>] = "hello"
  /\ sock' = [sock EXCEPT ![<<c, "serves">>] = "none"]
  /\ rejected' = rejected \cup {c}
  /\ UNCHANGED <<known, wait, dial, reg, events>>

\* A handshake ends without success: it times out, or the other end has
\* closed and its hello is lost.
HandshakeFails(e) ==
  /\ sock[e] = "hello"
  /\ \/ sock[FarEnd(e)] = "none" /\ UNCHANGED events
     \/ events < MaxEvents /\ events' = events + 1
  /\ sock' = [sock EXCEPT ![e] = "none"]
  /\ dial' = IF e[2] = "dials" THEN [dial EXCEPT ![Owner(e)] = "look"] ELSE dial
  /\ UNCHANGED <<known, wait, reg, rejected>>

(***************************************************************************)
(* PeerDialer._handle_peer_reject: whatever connection is bound is closed. *)
(***************************************************************************)
HandleReject(c) ==
  /\ c \in rejected /\ sock[<<c, "dials">>] = "open"
  /\ rejected' = rejected \ {c}
  /\ wait' = wait \cup {c[1]}
  /\ IF Has(c[1])
     THEN sock' = [sock EXCEPT ![reg[c[1]]] = "closed"]
     ELSE UNCHANGED sock
  /\ UNCHANGED <<known, dial, reg, events>>

WaitOver(n) ==
  /\ n \in wait
  /\ wait' = wait \ {n}
  /\ UNCHANGED <<known, dial, sock, reg, rejected, events>>

-----------------------------------------------------------------------------
(***************************************************************************)
(* PeerConnection: the receive loop sees the end of the stream when what   *)
(* came before has been handled, or a send fails; the connection is closed *)
(* and then unbound.                                                       *)
(***************************************************************************)
Close(e) ==
  /\ sock[e] = "open"
  /\ \/ /\ sock[FarEnd(e)] \in {"none", "closed"}
        /\ ~(e[2] = "dials" /\ e[1] \in rejected)
        /\ UNCHANGED events
     \/ events < MaxEvents /\ events' = events + 1
  /\ sock' = [sock EXCEPT ![e] = "closed"]
  /\ UNCHANGED <<known, wait, dial, reg, rejected>>

\* Mutant of Unbind: whatever is bound is unbound (no "is conn").
UnbindAny(e) ==
  /\ sock[e] = "closed"
  /\ sock' = [sock EXCEPT ![e] = "none"]
  /\ reg' = [reg EXCEPT ![Owner(e)] = None]
  /\ UNCHANGED <<known, wait, dial, rejected, events>>

Unbind(e) ==
  /\ sock[e] = "closed"
  /\ sock' = [sock EXCEPT ![e] = "none"]
  /\ reg' = [reg EXCEPT ![Owner(e)] = IF @ = e THEN None ELSE @]
  /\ UNCHANGED <<known, wait, dial, rejected, events>>

(***************************************************************************)
(* The node list of n changes and PeerDialer.refresh_peers follows: for a  *)
(* new peer there is a dial loop, that of a removed one ends, and its      *)
(* connection is closed.                                                   *)
(***************************************************************************)
AddPeer(n) ==
  /\ events < MaxEvents /\ events' = events + 1
  /\ n \notin known
  /\ known' = known \cup {n}
  /\ UNCHANGED <<wait, dial, sock, reg, rejected>>

RemovePeer(n) ==
  /\ events < MaxEvents /\ events' = events + 1
  /\ n \in known
  /\ known' = known \ {n} /\ wait' = wait \ {n}
  /\ sock' = IF Has(n) THEN [sock EXCEPT ![reg[n]] = "closed"] ELSE sock
  /\ UNCHANGED <<dial, reg, rejected>>

-----------------------------------------------------------------------------
Next ==
  \/ \E n \in Node :
       \/ DialConnect(n) \/ DialBind(n) \/ DialAgain(n)
       \/ WaitOver(n) \/ AddPeer(n) \/ RemovePeer(n)
  \/ \E e \in End : HandshakeFails(e) \/ Close(e) \/ Unbind(e)
  \/ \E c \in Conn : ServeBind(c) \/ ServeReject(c) \/ HandleReject(c)

Spec == Init /\ [][Next]_vars

-----------------------------------------------------------------------------
(***************************************************************************)
(* However the two dial, shake hands and close, a node never has two       *)
(* connections that handle frames: an open end is the one that is bound.   *)
(***************************************************************************)
OneConnection == \A e \in End : sock[e] = "open" => reg[Owner(e)] = e

\* nothing is being set up or taken down
Settled ==
  /\ \A e \in End : sock[e] \in {"none", "open"}
  /\ \A e \in End : sock[e] = "open" => sock[FarEnd(e)] = "open"

(***************************************************************************)
(* When nothing is being set up or taken down, both nodes have bound the   *)
(* two ends of one connection, or neither has bound any: neither sends its *)
(* frames into a connection that the other one has given up.               *)
(***************************************************************************)
EndsAgree ==
  Settled => \/ reg[A] = None /\ reg[B] = None
             \/ reg[A] \in End /\ reg[B] = FarEnd(reg[A])

Linked == Has(A) /\ Has(B) /\ reg[B] = FarEnd(reg[A])

\* there are connections that A has dialled and others that B has dialled
Crossing == \A n \in Node : \E e \in End : e[1][1] = n /\ sock[e] # "none"

(***************************************************************************)
(* Two nodes that know each other get connected, even after one of them    *)
(* has rejected the other, unless both keep dialling at the same time.     *)
(* (Two that do may refuse each other's connection for ever: each binds    *)
(* the one it has dialled, and closes the other one's.)  Faults and changes *)
(* of the lists are bounded: it is so in the end.                          *)
(***************************************************************************)
GetConnected == []<>(known = Node => Linked \/ Crossing)
=============================================================================

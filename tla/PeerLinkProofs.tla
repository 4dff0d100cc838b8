--------------------------- MODULE PeerLinkProofs ---------------------------
(***************************************************************************)
(* For any two nodes, any number of connections that each of them dials    *)
(* and any number of faults: a node has one connection that handles frames *)
(* at most, and when nothing is being set up or taken down, both nodes     *)
(* have bound the two ends of the same one.                                *)
(***************************************************************************)
EXTENDS PeerLink, TLAPS

\* the two nodes differ, and "no connection" is none
Distinct == A # B /\ None \notin End /\ MaxEvents \in Nat

(***************************************************************************)
(* What a node has bound is an end of its own, and is open, or closed and  *)
(* about to be unbound: Unbind frees an end only after it has looked       *)
(* whether it is the one that is bound.                                    *)
(***************************************************************************)
BoundInUse ==
  \A n \in Node : reg[n] # None => /\ Owner(reg[n]) = n
                                   /\ sock[reg[n]] \in {"open", "closed"}

IInv == TypeOK /\ BoundInUse /\ OneConnection

(***************************************************************************)
(* The ends of a connection belong to different nodes.                     *)
(***************************************************************************)
LEMMA Ends ==
  ASSUME Distinct, NEW e \in End
  PROVE  /\ FarEnd(e) \in End /\ FarEnd(e) # e
         /\ Owner(e) \in Node /\ Owner(FarEnd(e)) = Other(Owner(e))
         /\ FarEnd(FarEnd(e)) = e
BY DEF Distinct, End, Conn, Node, Other, Owner, FarEnd

LEMMA EndOf ==
  ASSUME Distinct, NEW c \in Conn
  PROVE  /\ <<c, "dials">> \in End /\ <<c, "serves">> \in End
         /\ Owner(<<c, "dials">>) = c[1] /\ Owner(<<c, "serves">>) = Other(c[1])
         /\ c[1] \in Node /\ Other(c[1]) \in Node
BY DEF Distinct, End, Conn, Node, Other, Owner

LEMMA InitInv == Distinct /\ Init => IInv
BY DEF Distinct, Init, IInv, TypeOK, BoundInUse, OneConnection, Node

(***************************************************************************)
(* A step that binds nothing and frees no end that is bound.               *)
(***************************************************************************)
LEMMA NothingBound ==
  ASSUME Distinct, IInv, TypeOK', UNCHANGED reg,
         \A e \in End : sock'[e] = "open" => sock[e] = "open",
         \A n \in Node : reg[n] # None => sock'[reg[n]] \in {"open", "closed"}
  PROVE  IInv'
BY Ends DEF IInv, TypeOK, BoundInUse, OneConnection

(***************************************************************************)
(* Binding an end that is shaking hands.                                   *)
(***************************************************************************)
LEMMA BindInv ==
  ASSUME Distinct, IInv, NEW e \in End, sock[e] = "hello", Bind(e), TypeOK'
  PROVE  IInv'
<1>. DEFINE n == Owner(e)
<1>1. n \in Node /\ reg[n] # e
  BY Ends DEF Distinct, IInv, TypeOK, BoundInUse
<1>2. CASE ~Has(n) /\ reg' = [reg EXCEPT ![n] = e] /\ sock' = [sock EXCEPT ![e] = "open"]
  <2>1. BoundInUse'
    BY <1>1, <1>2 DEF IInv, TypeOK, BoundInUse
  <2>2. ASSUME NEW d \in End, sock'[d] = "open" PROVE reg'[Owner(d)] = d
    <3>1. CASE d = e
      BY <3>1, <1>1, <1>2 DEF IInv, TypeOK
    <3>2. CASE d # e
      <4>1. sock[d] = "open" /\ reg[Owner(d)] = d /\ Owner(d) \in Node
        BY <3>2, <2>2, <1>2, Ends DEF IInv, TypeOK, OneConnection
      <4>2. Owner(d) # n
        BY <4>1, <1>2, Ends DEF Has, Distinct
      <4>. QED BY <4>1, <4>2, <1>1, <1>2 DEF IInv, TypeOK
    <3>. QED BY <3>1, <3>2
  <2>. QED BY <2>1, <2>2 DEF IInv, OneConnection
<1>3. CASE sock' = [sock EXCEPT ![e] = "none"] /\ UNCHANGED reg
  BY <1>1, <1>3, NothingBound DEF IInv, TypeOK, BoundInUse
<1>. QED BY <1>2, <1>3 DEF Bind

LEMMA BindType ==
  ASSUME Distinct, TypeOK, NEW e \in End, Bind(e)
  PROVE  sock' \in [End -> {"none", "hello", "open", "closed"}] /\ reg' \in [Node -> End \cup {None}]
BY Ends DEF Bind, TypeOK

-----------------------------------------------------------------------------
(***************************************************************************)
(* The dialer.                                                             *)
(***************************************************************************)
LEMMA DialConnectInv ==
  ASSUME Distinct, IInv, NEW n \in Node, DialConnect(n)
  PROVE  IInv'
<1>1. PICK s \in Slot :
        LET d == <<<<n, s>>, "dials">>
        IN  /\ sock[d] = "none" /\ sock[FarEnd(d)] = "none"
            /\ sock' = [sock EXCEPT ![d] = "hello", ![FarEnd(d)] = "hello"]
            /\ rejected' = rejected \ {<<n, s>>}
  BY DEF DialConnect
<1>. DEFINE d == <<<<n, s>>, "dials">>
<1>2. <<n, s>> \in Conn /\ d \in End /\ FarEnd(d) \in End /\ FarEnd(d) # d
  BY Ends DEF Conn, End
<1>3. TypeOK'
  BY <1>1, <1>2 DEF DialConnect, IInv, TypeOK
<1>4. /\ \A e \in End : sock'[e] = "open" => sock[e] = "open"
      /\ \A m \in Node : reg[m] # None => sock'[reg[m]] \in {"open", "closed"}
  BY <1>1, <1>2 DEF IInv, TypeOK, BoundInUse
<1>. QED BY <1>3, <1>4, NothingBound DEF DialConnect

LEMMA DialBindInv ==
  ASSUME Distinct, IInv, NEW n \in Node, DialBind(n)
  PROVE  IInv'
<1>1. PICK s \in Slot : sock[<<<<n, s>>, "dials">>] = "hello" /\ Bind(<<<<n, s>>, "dials">>)
  BY DEF DialBind
<1>2. <<<<n, s>>, "dials">> \in End
  BY DEF Conn, End
<1>3. TypeOK'
  BY <1>1, <1>2, BindType DEF DialBind, IInv, TypeOK
<1>. QED BY <1>1, <1>2, <1>3, BindInv

(***************************************************************************)
(* The server.                                                             *)
(***************************************************************************)
LEMMA ServeBindInv ==
  ASSUME Distinct, IInv, NEW c \in Conn, ServeBind(c)
  PROVE  IInv'
<1>1. <<c, "serves">> \in End
  BY EndOf
<1>2. TypeOK'
  BY <1>1, BindType DEF ServeBind, IInv, TypeOK
<1>. QED BY <1>1, <1>2, BindInv DEF ServeBind

LEMMA ServeRejectInv ==
  ASSUME Distinct, IInv, NEW c \in Conn, ServeReject(c)
  PROVE  IInv'
<1>1. <<c, "serves">> \in End
  BY EndOf
<1>2. TypeOK'
  BY <1>1 DEF ServeReject, IInv, TypeOK
<1>3. /\ \A e \in End : sock'[e] = "open" => sock[e] = "open"
      /\ \A m \in Node : reg[m] # None => sock'[reg[m]] \in {"open", "closed"}
  BY <1>1 DEF ServeReject, IInv, TypeOK, BoundInUse
<1>. QED BY <1>2, <1>3, NothingBound DEF ServeReject

LEMMA HandshakeFailsInv ==
  ASSUME Distinct, IInv, NEW e \in End, HandshakeFails(e)
  PROVE  IInv'
<1>1. TypeOK'
  BY Ends DEF HandshakeFails, IInv, TypeOK, Distinct
<1>2. /\ \A d \in End : sock'[d] = "open" => sock[d] = "open"
      /\ \A m \in Node : reg[m] # None => sock'[reg[m]] \in {"open", "closed"}
  BY DEF HandshakeFails, IInv, TypeOK, BoundInUse
<1>. QED BY <1>1, <1>2, NothingBound DEF HandshakeFails

-----------------------------------------------------------------------------
(***************************************************************************)
(* Ends that are closed, and unbound.                                      *)
(***************************************************************************)
LEMMA HasOpen ==
  ASSUME Distinct, IInv, NEW n \in Node, Has(n)
  PROVE  reg[n] \in End /\ sock[reg[n]] = "open"
BY DEF Has, IInv, TypeOK

LEMMA ClosesInv ==
  ASSUME Distinct, IInv, TypeOK', UNCHANGED reg,
         NEW e \in End, sock' = sock \/ sock' = [sock EXCEPT ![e] = "closed"]
  PROVE  IInv'
<1>1. /\ \A d \in End : sock'[d] = "open" => sock[d] = "open"
      /\ \A m \in Node : reg[m] # None => sock'[reg[m]] \in {"open", "closed"}
  BY DEF IInv, TypeOK, BoundInUse
<1>. QED BY <1>1, NothingBound

LEMMA CloseInv ==
  ASSUME Distinct, IInv, NEW e \in End, Close(e)
  PROVE  IInv'
<1>1. TypeOK'
  BY DEF Close, IInv, TypeOK, Distinct
<1>. QED BY <1>1, ClosesInv DEF Close

LEMMA HandleRejectInv ==
  ASSUME Distinct, IInv, NEW c \in Conn, HandleReject(c)
  PROVE  IInv'
<1>1. c[1] \in Node /\ <<c, "dials">> \in End
  BY EndOf
<1>2. TypeOK'
  BY <1>1, HasOpen DEF HandleReject, IInv, TypeOK
<1>3. CASE Has(c[1])
  BY <1>1, <1>2, <1>3, HasOpen, ClosesInv DEF HandleReject
<1>4. CASE ~Has(c[1])
  BY <1>1, <1>2, <1>4, ClosesInv DEF HandleReject
<1>. QED BY <1>3, <1>4

LEMMA RemovePeerInv ==
  ASSUME Distinct, IInv, NEW n \in Node, RemovePeer(n)
  PROVE  IInv'
<1>1. TypeOK'
  BY HasOpen DEF RemovePeer, IInv, TypeOK, Distinct
<1>2. CASE Has(n)
  BY <1>1, <1>2, HasOpen, ClosesInv DEF RemovePeer
<1>3. CASE ~Has(n)
  <2>1. /\ \A d \in End : sock'[d] = "open" => sock[d] = "open"
        /\ \A m \in Node : reg[m] # None => sock'[reg[m]] \in {"open", "closed"}
    BY <1>3 DEF RemovePeer, IInv, BoundInUse
  <2>. QED BY <1>1, <2>1, NothingBound DEF RemovePeer
<1>. QED BY <1>2, <1>3

LEMMA UnbindInv ==
  ASSUME Distinct, IInv, NEW e \in End, Unbind(e)
  PROVE  IInv'
<1>1. TypeOK'
  BY Ends DEF Unbind, IInv, TypeOK
<1>2. BoundInUse'
  BY Ends DEF Unbind, IInv, TypeOK, BoundInUse
<1>3. ASSUME NEW d \in End, sock'[d] = "open" PROVE reg'[Owner(d)] = d
  <2>1. d # e /\ sock[d] = "open" /\ reg[Owner(d)] = d /\ Owner(d) \in Node
    BY <1>3, Ends DEF Unbind, IInv, TypeOK, OneConnection
  <2>. QED BY <2>1 DEF Unbind, IInv, TypeOK
<1>. QED BY <1>1, <1>2, <1>3 DEF IInv, OneConnection

(***************************************************************************)
(* Steps that leave all ends and both registries alone.                    *)
(***************************************************************************)
LEMMA AloneInv ==
  ASSUME Distinct, IInv, NEW n \in Node, DialAgain(n) \/ WaitOver(n) \/ AddPeer(n)
  PROVE  IInv'
<1>1. TypeOK'
  BY DEF DialAgain, WaitOver, AddPeer, IInv, TypeOK, Distinct
<1>2. /\ \A d \in End : sock'[d] = "open" => sock[d] = "open"
      /\ \A m \in Node : reg[m] # None => sock'[reg[m]] \in {"open", "closed"}
  BY DEF DialAgain, WaitOver, AddPeer, IInv, BoundInUse
<1>. QED BY <1>1, <1>2, NothingBound DEF DialAgain, WaitOver, AddPeer

LEMMA NextInv == Distinct /\ IInv /\ [Next]_vars => IInv'
<1>. SUFFICES ASSUME Distinct, IInv, [Next]_vars PROVE IInv'
  OBVIOUS
<1>1. CASE UNCHANGED vars
  BY <1>1 DEF vars, IInv, TypeOK, BoundInUse, OneConnection
<1>2. ASSUME NEW n \in Node,
             DialConnect(n) \/ DialBind(n) \/ DialAgain(n)
               \/ WaitOver(n) \/ AddPeer(n) \/ RemovePeer(n)
      PROVE  IInv'
  BY <1>2, DialConnectInv, DialBindInv, AloneInv, RemovePeerInv
<1>3. ASSUME NEW e \in End, HandshakeFails(e) \/ Close(e) \/ Unbind(e)
      PROVE  IInv'
  BY <1>3, HandshakeFailsInv, CloseInv, UnbindInv
<1>4. ASSUME NEW c \in Conn, ServeBind(c) \/ ServeReject(c) \/ HandleReject(c)
      PROVE  IInv'
  BY <1>4, ServeBindInv, ServeRejectInv, HandleRejectInv
<1>. QED BY <1>1, <1>2, <1>3, <1>4 DEF Next

(***************************************************************************)
(* Every state of the two nodes' connections is well-typed.                *)
(***************************************************************************)
THEOREM TypeCorrect ==
  ASSUME Distinct PROVE Spec => []TypeOK
<1>1. Init => IInv BY InitInv
<1>2. IInv /\ [Next]_vars => IInv' BY NextInv
<1>3. IInv => TypeOK BY DEF IInv
<1>. QED BY <1>1, <1>2, <1>3, PTL DEF Spec

(***************************************************************************)
(* PeerRegistry.bind and unbind: of all the connections of a node, the one *)
(* that handles frames is the one that is bound.                           *)
(***************************************************************************)
THEOREM OneBound ==
  ASSUME Distinct PROVE Spec => []OneConnection
<1>1. Init => IInv BY InitInv
<1>2. IInv /\ [Next]_vars => IInv' BY NextInv
<1>3. IInv => OneConnection BY DEF IInv
<1>. QED BY <1>1, <1>2, <1>3, PTL DEF Spec

(***************************************************************************)
(* When nothing is being set up or taken down, an end that is bound is     *)
(* open, so the far end is open, so that is the one the other node has     *)
(* bound.                                                                  *)
(***************************************************************************)
LEMMA SettledAgree == Distinct /\ IInv => EndsAgree
<1>. SUFFICES ASSUME Distinct, IInv, Settled
              PROVE  \/ reg[A] = None /\ reg[B] = None
                     \/ reg[A] \in End /\ reg[B] = FarEnd(reg[A])
  BY DEF EndsAgree
<1>1. ASSUME NEW n \in Node, reg[n] # None
      PROVE  /\ reg[n] \in End /\ FarEnd(reg[n]) \in End
             /\ reg[Other(n)] = FarEnd(reg[n])
  <2>1. reg[n] \in End /\ sock[reg[n]] = "open" /\ Owner(reg[n]) = n
    BY <1>1 DEF IInv, TypeOK, BoundInUse, Settled
  <2>2. FarEnd(reg[n]) \in End /\ sock[FarEnd(reg[n])] = "open"
    BY <2>1, Ends DEF Settled
  <2>. QED BY <2>1, <2>2, Ends DEF IInv, OneConnection
<1>2. A \in Node /\ B \in Node /\ Other(A) = B /\ Other(B) = A
  BY DEF Node, Other, Distinct
<1>3. CASE reg[A] # None
  BY <1>1, <1>2, <1>3
<1>4. CASE reg[A] = None /\ reg[B] # None
  BY <1>1, <1>2, <1>4 DEF Distinct
<1>. QED BY <1>3, <1>4

THEOREM EndsMatch ==
  ASSUME Distinct PROVE Spec => []EndsAgree
<1>1. Init => IInv BY InitInv
<1>2. IInv /\ [Next]_vars => IInv' BY NextInv
<1>3. IInv => EndsAgree BY SettledAgree
<1>. QED BY <1>1, <1>2, <1>3, PTL DEF Spec
=============================================================================

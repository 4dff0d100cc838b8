--------------------------- MODULE ElectionProofs ---------------------------
(***************************************************************************)
(* For every group, every set of picking threads and every grace and       *)
(* hold-down of at least one tick: the election's types, the agreement of  *)
(* the challenger's two clocks, and that no coordinator is replaced in     *)
(* haste.                                                                  *)
(***************************************************************************)
EXTENDS Election, TLAPS

(***************************************************************************)
(* The inductive invariant.  Self is always online and always tracked, and *)
(* so it is in every snapshot: Self is never the challenger whose tracking *)
(* was dropped.                                                            *)
(***************************************************************************)
SelfTracked ==
  /\ conn[Self] = "up"
  /\ age[Self] \in Age
  /\ \A p \in Picker : seen[p] # {} => Self \in seen[p]

IInv == TypeOK /\ SelfTracked /\ ChallengerTracked

(***************************************************************************)
(* What the arithmetic needs of the ages.                                  *)
(***************************************************************************)
LEMMA AgeFacts ==
  /\ 0 \in Age
  /\ MaxAge \in Nat
  /\ Grace <= MaxAge /\ HoldDown <= MaxAge
  /\ None \notin Age
  /\ \A a \in Age : Older(a) \in Age
BY ElectionAssumption DEF Age, MaxAge, Older

(***************************************************************************)
(* The initial states satisfy the invariant.                               *)
(***************************************************************************)
LEMMA InitInv == Init => IInv
BY ElectionAssumption, AgeFacts DEF Init, IInv, TypeOK, SelfTracked, ChallengerTracked, Peers

(***************************************************************************)
(* The registry's own steps change neither the tracking nor the election.  *)
(***************************************************************************)
LEMMA RegistryInv ==
  ASSUME IInv, NEW n \in Peers, Bind(n) \/ Close(n) \/ Unbind(n)
  PROVE  IInv'
<1>1. TypeOK'
  BY ElectionAssumption DEF IInv, TypeOK, Bind, Close, Unbind, Peers
<1>2. SelfTracked'
  BY ElectionAssumption DEF IInv, TypeOK, SelfTracked, Bind, Close, Unbind, Peers
<1>3. ChallengerTracked'
  BY DEF IInv, ChallengerTracked, Bind, Close, Unbind
<1>. QED BY <1>1, <1>2, <1>3 DEF IInv

(***************************************************************************)
(* "bound" starts the clock of a node that is not tracked, which the       *)
(* challenger only is when its tracking was dropped.                       *)
(***************************************************************************)
LEMMA BoundInv ==
  ASSUME IInv, NEW n \in Peers, Bound(n)
  PROVE  IInv'
<1>1. TypeOK'
  BY ElectionAssumption, AgeFacts DEF IInv, TypeOK, Bound, Track, Peers
<1>2. SelfTracked'
  BY ElectionAssumption DEF IInv, TypeOK, SelfTracked, Bound, Track, Peers
<1>3. ChallengerTracked'
  <2>1. CASE Track(n)
    BY <2>1, ElectionAssumption, AgeFacts DEF IInv, TypeOK, ChallengerTracked, Bound, Track, Peers
  <2>2. CASE UNCHANGED age
    BY <2>2 DEF IInv, ChallengerTracked, Bound
  <2>. QED BY <2>1, <2>2 DEF Bound
<1>. QED BY <1>1, <1>2, <1>3 DEF IInv

(***************************************************************************)
(* "unbound" drops the tracking of a node and, with it, its challenge.     *)
(***************************************************************************)
LEMMA UnboundInv ==
  ASSUME IInv, NEW n \in Peers, Unbound(n)
  PROVE  IInv'
<1>1. TypeOK'
  BY ElectionAssumption, AgeFacts DEF IInv, TypeOK, Unbound, ClearChallenger, Peers
<1>2. SelfTracked'
  BY ElectionAssumption DEF IInv, TypeOK, SelfTracked, Unbound, Peers
<1>3. ChallengerTracked'
  <2>1. CASE challenger = n
    BY <2>1 DEF Unbound, ChallengerTracked, ClearChallenger
  <2>2. CASE challenger # n
    BY <2>2 DEF IInv, TypeOK, ChallengerTracked, Unbound
  <2>. QED BY <2>1, <2>2
<1>. QED BY <1>1, <1>2, <1>3 DEF IInv

(***************************************************************************)
(* A pick that drops the tracking of the challenger is itself the witness  *)
(* that the challenger was not seen online.                                *)
(***************************************************************************)
LEMMA ReadInv ==
  ASSUME IInv, NEW p \in Picker, Read(p)
  PROVE  IInv'
<1>1. TypeOK'
  BY ElectionAssumption, AgeFacts DEF IInv, TypeOK, Read, Online
<1>2. SelfTracked'
  BY ElectionAssumption, AgeFacts DEF IInv, TypeOK, SelfTracked, Read, Online
<1>3. ChallengerTracked'
  <2>. SUFFICES ASSUME challenger # None
                PROVE  \/ chAge = age'[challenger]
                       \/ /\ \E q \in Picker : seen'[q] # {} /\ challenger \notin seen'[q]
                          /\ age'[challenger] \in {None, 0}
    BY DEF Read, ChallengerTracked
  <2>1. challenger \in Node /\ Self \in Online /\ Online # {}
    BY ElectionAssumption DEF IInv, TypeOK, SelfTracked, Online
  <2>2. seen'[p] = Online /\ \A q \in Picker \ {p} : seen'[q] = seen[q]
    BY DEF IInv, TypeOK, Read
  <2>3. CASE challenger \notin Online
    <3>1. age'[challenger] = None
      BY <2>1, <2>3 DEF Read
    <3>. QED BY <3>1, <2>1, <2>2, <2>3
  <2>4. CASE challenger \in Online /\ chAge = age[challenger]
    BY <2>1, <2>4, ElectionAssumption, AgeFacts DEF IInv, TypeOK, Read
  <2>5. CASE challenger \in Online /\ chAge # age[challenger]
    <3>1. PICK q \in Picker : seen[q] # {} /\ challenger \notin seen[q]
      BY <2>5 DEF IInv, ChallengerTracked
    <3>2. age[challenger] \in {None, 0}
      BY <2>5 DEF IInv, ChallengerTracked
    <3>3. q # p
      BY <3>1 DEF Read
    <3>4. age'[challenger] \in {None, 0}
      BY <2>1, <2>5, <3>2 DEF Read
    <3>. QED BY <3>1, <3>3, <3>4, <2>2
  <2>. QED BY <2>3, <2>4, <2>5
<1>. QED BY <1>1, <1>2, <1>3 DEF IInv

(***************************************************************************)
(* The nodes a pick may choose have an age, and it is at least the grace.  *)
(***************************************************************************)
LEMMA HealthyAge ==
  ASSUME IInv, NEW p \in Picker, NEW best \in Healthy(seen[p])
  PROVE  /\ best \in Node
         /\ best \in seen[p]
         /\ age[best] \in Age
         /\ best = Self \/ age[best] >= Grace
BY ElectionAssumption DEF IInv, TypeOK, SelfTracked, Healthy

(***************************************************************************)
(* A decision leaves no challenger, one whose clocks were just set to      *)
(* agree, or the one it saw online and so is not the witness against.      *)
(***************************************************************************)
LEMMA DecideInv ==
  ASSUME IInv, NEW p \in Picker, Decide(p)
  PROVE  IInv'
<1>1. PICK best \in Healthy(seen[p]) :
        \/ Elect(seen[p], best)
        \/ Keep(seen[p], best)
        \/ Challenge(seen[p], best)
        \/ Wait(seen[p], best)
        \/ HandOver(seen[p], best)
  BY DEF Decide
<1>2. best \in Node /\ best \in seen[p] /\ age[best] \in Age
  BY HealthyAge
<1>3. UNCHANGED <<conn, late, age>> /\ seen' = [seen EXCEPT ![p] = {}]
  BY DEF Decide
<1>4. TypeOK'
  BY <1>1, <1>2, <1>3, ElectionAssumption, AgeFacts
  DEF IInv, TypeOK, Elect, Keep, Challenge, Wait, HandOver, Choose, ClearChallenger
<1>5. SelfTracked'
  BY <1>3 DEF IInv, TypeOK, SelfTracked
<1>6. ChallengerTracked'
  <2>1. CASE Elect(seen[p], best) \/ Keep(seen[p], best) \/ HandOver(seen[p], best)
    BY <2>1 DEF ChallengerTracked, Elect, Keep, HandOver, Choose, ClearChallenger
  <2>2. CASE Challenge(seen[p], best)
    BY <2>2, <1>3 DEF ChallengerTracked, Challenge
  <2>3. CASE Wait(seen[p], best)
    <3>1. challenger = best /\ challenger' = challenger /\ chAge' = chAge
      BY <2>3 DEF Wait
    <3>2. \A q \in Picker : seen[q] # {} /\ challenger \notin seen[q] => q # p /\ seen'[q] = seen[q]
      BY <3>1, <1>2, <1>3 DEF IInv, TypeOK
    <3>. QED BY <3>1, <3>2, <1>3 DEF IInv, ChallengerTracked
  <2>. QED BY <1>1, <2>1, <2>2, <2>3
<1>. QED BY <1>4, <1>5, <1>6 DEF IInv

(***************************************************************************)
(* A tick falls on a moment at which nobody picks: both clocks agree then, *)
(* and go on together.                                                     *)
(***************************************************************************)
LEMMA TickInv ==
  ASSUME IInv, Tick
  PROVE  IInv'
<1>1. TypeOK'
  BY ElectionAssumption, AgeFacts DEF IInv, TypeOK, Tick
<1>2. SelfTracked'
  BY ElectionAssumption, AgeFacts DEF IInv, TypeOK, SelfTracked, Tick
<1>3. ChallengerTracked'
  <2>. SUFFICES ASSUME challenger # None
                PROVE  chAge' = age'[challenger]
    BY DEF Tick, ChallengerTracked
  <2>1. chAge = age[challenger]
    BY DEF IInv, ChallengerTracked, Tick, AllIdle
  <2>2. challenger \in Node /\ chAge \in Age /\ chAge # None
    BY AgeFacts DEF IInv, TypeOK
  <2>. QED BY <2>1, <2>2 DEF Tick, IInv, TypeOK
<1>. QED BY <1>1, <1>2, <1>3 DEF IInv

(***************************************************************************)
(* Every step preserves the invariant.                                     *)
(***************************************************************************)
LEMMA NextInv == IInv /\ [Next]_vars => IInv'
<1>. SUFFICES ASSUME IInv, [Next]_vars
              PROVE  IInv'
  OBVIOUS
<1>1. ASSUME NEW n \in Peers, Bind(n) \/ Close(n) \/ Unbind(n)
      PROVE  IInv'
  BY <1>1, RegistryInv
<1>2. ASSUME NEW n \in Peers, Bound(n)
      PROVE  IInv'
  BY <1>2, BoundInv
<1>3. ASSUME NEW n \in Peers, Unbound(n)
      PROVE  IInv'
  BY <1>3, UnboundInv
<1>4. ASSUME NEW p \in Picker, Read(p)
      PROVE  IInv'
  BY <1>4, ReadInv
<1>5. ASSUME NEW p \in Picker, Decide(p)
      PROVE  IInv'
  BY <1>5, DecideInv
<1>6. CASE Tick
  BY <1>6, TickInv
<1>7. CASE UNCHANGED vars
  BY <1>7 DEF vars, IInv, TypeOK, SelfTracked, ChallengerTracked
<1>. QED BY <1>1, <1>2, <1>3, <1>4, <1>5, <1>6, <1>7 DEF Next

(***************************************************************************)
(* The invariant holds of every behaviour.                                 *)
(***************************************************************************)
LEMMA Invariance == Spec => []IInv
BY InitInv, NextInv, PTL DEF Spec

(***************************************************************************)
(* The election's state is always of its type.                             *)
(***************************************************************************)
THEOREM TypeCorrect == Spec => []TypeOK
<1>1. IInv => TypeOK
  BY DEF IInv
<1>. QED BY <1>1, Invariance, PTL

(***************************************************************************)
(* _challenger_since and _online_since agree, but for the moment between   *)
(* the two steps of a pick that did not see the challenger.                *)
(***************************************************************************)
THEOREM ClocksAgree == Spec => []ChallengerTracked
<1>1. IInv => ChallengerTracked
  BY DEF IInv
<1>. QED BY <1>1, Invariance, PTL

(***************************************************************************)
(* The age of the challenger that a decision hands over to is the age it   *)
(* was found to have, unless its tracking was just dropped: but then it is *)
(* younger than the grace, and not Self.                                   *)
(***************************************************************************)
LEMMA HandOverEarned ==
  ASSUME IInv, NEW p \in Picker, Decide(p), current \in seen[p], current' # current
  PROVE  Earned(current', seen[p])
<1>1. PICK best \in Healthy(seen[p]) : HandOver(seen[p], best)
  BY DEF Decide, Elect, Keep, Challenge, Wait
<1>2. /\ best \in Node /\ best \in seen[p] /\ age[best] \in Age
      /\ best = Self \/ age[best] >= Grace
  BY HealthyAge
<1>3. current' = best /\ challenger = best /\ chAge >= HoldDown /\ Rank[best] < Rank[current]
  BY <1>1 DEF HandOver, Choose
<1>4. chAge = age[best]
  <2>. SUFFICES ASSUME chAge # age[best]
                PROVE  FALSE
    OBVIOUS
  <2>1. PICK q \in Picker : seen[q] # {} /\ best \notin seen[q]
    BY <1>2, <1>3, ElectionAssumption DEF IInv, ChallengerTracked
  <2>2. age[best] \in {None, 0}
    BY <1>2, <1>3, ElectionAssumption DEF IInv, ChallengerTracked
  <2>3. best # Self
    BY <2>1 DEF IInv, SelfTracked
  <2>. QED BY <1>2, <2>2, <2>3, AgeFacts, ElectionAssumption DEF Age
<1>. QED BY <1>2, <1>3, <1>4 DEF Earned

(***************************************************************************)
(* An online coordinator is replaced only by a better node that has been   *)
(* online for the hold-down and the health grace.                          *)
(***************************************************************************)
THEOREM Patience == Spec => NoHastyHandoff
<1>1. ASSUME IInv, [Next]_vars
      PROVE  [\A p \in Picker :
                (seen'[p] # seen[p] /\ current \in seen[p] /\ current' # current)
                  => Earned(current', seen[p])]_vars
  <2>. SUFFICES ASSUME NEW p \in Picker,
                       seen'[p] # seen[p], current \in seen[p], current' # current, Next
                PROVE  Earned(current', seen[p])
    BY <1>1 DEF vars
  <2>1. PICK q \in Picker : Decide(q)
    BY DEF Next, Bind, Close, Unbind, Bound, Unbound, Read, Tick
  <2>2. q = p
    BY <2>1, <1>1 DEF Decide, IInv, TypeOK
  <2>. QED BY <1>1, <2>1, <2>2, HandOverEarned
<1>. QED BY <1>1, Invariance, PTL DEF Spec, NoHastyHandoff
=============================================================================

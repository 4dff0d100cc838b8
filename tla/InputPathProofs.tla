--------------------------- MODULE InputPathProofs --------------------------
(***************************************************************************)
(* Proofs about InputPath, for any targets, keys and bounds: the types of  *)
(* its state, that the sink's safety net holds, and that, unless somebody  *)
(* is overtaken, no key is left down.  About PointerPath, for any screens: *)
(* where the pointer is, and that it comes back.  About SyntheticInput,    *)
(* for any times: that only its user takes a target from its controller.   *)
(***************************************************************************)
EXTENDS Devices, SequenceTheorems, WellFoundedInduction, TLAPS

USE InputPathAssumption

(***************************************************************************)
(* The threads are different from each other.                              *)
(***************************************************************************)
LEMMA ThreadNames ==
  /\ Router \in Thread /\ Window \in Thread /\ Client \in Thread
  /\ \A t \in Target : /\ Input(t) \in Thread /\ Lease(t) \in Thread
                       /\ Gone(t) \in Thread /\ Lost(t) \in Thread
  /\ Steering \subseteq Thread
BY DEF Thread, Steering, Router, Window, Client, Input, Lease, Gone, Lost

LEMMA ThreadsDiffer ==
  \A t \in Target :
    /\ Input(t) \notin Steering \cup {Router}
    /\ Lease(t) \notin Steering \cup {Router}
    /\ Gone(t) \notin Steering \cup {Router}
    /\ \A u \in Target : /\ Input(t) \notin {Lease(u), Gone(u)}
                         /\ Lease(t) # Gone(u)
                         /\ (t # u => Input(t) # Input(u) /\ Lease(t) # Lease(u) /\ Gone(t) # Gone(u))
BY DEF Steering, Router, Window, Client, Input, Lease, Gone, Lost

(***************************************************************************)
(* The steps that the actions leave behind are well-typed.                 *)
(***************************************************************************)
LEMMA StepTypes ==
  ASSUME NEW t \in Target
  PROVE  /\ \A e \in Event, what \in {"send", "track", "note", "inject"} : Do(what, e, t) \in Step
         /\ \A what \in {"pending", "active", "claim", "let go", "unbind", "forget", "give up"} :
              Go(what, t) \in Step
         /\ Go("inactive", None) \in Step
BY DEF Do, Go, Step, Steps

LEMMA SeqStepTypes ==
  ASSUME NEW t \in Target
  PROVE  /\ <<>> \in Seq(Step)
         /\ <<Go("inactive", None)>> \in Seq(Step)
         /\ <<Go("active", t)>> \in Seq(Step)
         /\ <<Go("let go", t)>> \in Seq(Step)
         /\ <<Go("pending", t), Go("claim", t)>> \in Seq(Step)
         /\ <<Go("unbind", t), Go("forget", t)>> \in Seq(Step)
         /\ <<Go("unbind", t), Go("give up", t)>> \in Seq(Step)
         /\ \A e \in Event : /\ <<Do("send", e, t)>> \in Seq(Step)
                             /\ <<Do("track", e, t)>> \in Seq(Step)
                             /\ <<Do("note", e, t), Do("inject", e, t)>> \in Seq(Step)
<1>1. /\ <<>> \in Seq(Step)
      /\ \A s \in Step : <<s>> \in Seq(Step)
      /\ \A r, s \in Step : <<r, s>> \in Seq(Step)
  OBVIOUS
<1>2. QED
  BY <1>1, StepTypes

LEMMA LiftType ==
  ASSUME NEW t \in Target, NEW S \in SUBSET Key, NEW what \in {"release", "lift"}
  PROVE  Lift(what, S, t) \in Seq(Step)
<1>1. [do |-> what, event |-> None, keys |-> S, target |-> t] \in Step
  BY DEF Step, Steps
<1>2. QED
  BY <1>1 DEF Lift

(***************************************************************************)
(* A thread that is not idle has a step to take, whose kind says what it   *)
(* carries.                                                                *)
(***************************************************************************)
LEMMA NextStep ==
  ASSUME TypeOK, NEW th \in Thread, ~Idle(th)
  PROVE  /\ Tail(todo[th]) \in Seq(Step)
         /\ Next1(th).do \in {"send", "track", "note", "inject"} =>
              Next1(th).event \in Event /\ Next1(th).target \in Target
         /\ Next1(th).do \in {"release", "lift"} =>
              Next1(th).keys \in SUBSET Key /\ Next1(th).target \in Target
         /\ Next1(th).do \in {"pending", "active", "claim", "let go"} => Next1(th).target \in Target
         /\ Next1(th).do = "inactive" => Next1(th).target = None
<1>1. todo[th] \in Seq(Step) /\ todo[th] # <<>>
  BY DEF TypeOK, Idle
<1>2. Next1(th) \in Step /\ Tail(todo[th]) \in Seq(Step)
  BY <1>1 DEF Next1
<1>3. CASE Next1(th) \in Steps({"send", "track", "note", "inject"}, Event, {{}}, Target)
  BY <1>2, <1>3 DEF Steps
<1>4. CASE Next1(th) \in Steps({"release", "lift"}, {None}, SUBSET Key, Target)
  BY <1>2, <1>4 DEF Steps
<1>5. CASE Next1(th) \in Steps({"pending", "active", "claim", "let go", "unbind", "forget", "give up"},
                               {None}, {{}}, Target)
  BY <1>2, <1>5 DEF Steps
<1>6. CASE Next1(th) \in Steps({"inactive"}, {None}, {{}}, {None})
  BY <1>2, <1>6 DEF Steps
<1>7. QED
  BY <1>2, <1>3, <1>4, <1>5, <1>6 DEF Step

LEMMA ContinuesType ==
  ASSUME TypeOK, NEW th \in Thread, ~Idle(th), NEW steps \in Seq(Step), Continues(th, steps)
  PROVE  todo' \in [Thread -> Seq(Step)]
<1>1. Tail(todo[th]) \in Seq(Step)
  BY NextStep
<1>2. steps \o Tail(todo[th]) \in Seq(Step)
  BY <1>1
<1>3. QED
  BY <1>2 DEF Continues, TypeOK

LEMMA StartsType ==
  ASSUME TypeOK, NEW th \in Thread, NEW steps \in Seq(Step), Starts(th, steps)
  PROVE  todo' \in [Thread -> Seq(Step)]
BY DEF Starts, TypeOK

LEMMA NothingType ==
  ASSUME TypeOK, NEW th \in Thread, \/ ~Idle(th) /\ Continues(th, <<>>)
                                    \/ Starts(th, <<>>)
  PROVE  todo' \in [Thread -> Seq(Step)]
<1>1. <<>> \in Seq(Step)
  OBVIOUS
<1>2. CASE ~Idle(th) /\ Continues(th, <<>>)
  BY <1>1, <1>2, ContinuesType
<1>3. CASE Starts(th, <<>>)
  BY <1>1, <1>3, StartsType
<1>4. QED
  BY <1>2, <1>3

LEMMA DropsType ==
  ASSUME TypeOK, NEW th \in Thread, todo' = [todo EXCEPT ![th] = <<>>]
  PROVE  todo' \in [Thread -> Seq(Step)]
<1>1. <<>> \in Seq(Step)
  OBVIOUS
<1>2. QED
  BY <1>1 DEF TypeOK

LEMMA AppendType ==
  ASSUME TypeOK, NEW t \in Target, NEW e \in Event,
         \/ link' = [link EXCEPT ![t] = Append(@, e)]
         \/ UNCHANGED link
  PROVE  link' \in [Target -> Seq(Event)]
<1>1. Append(link[t], e) \in Seq(Event)
  BY DEF TypeOK
<1>2. QED
  BY <1>1 DEF TypeOK

LEMMA UsesType ==
  ASSUME TypeOK, NEW what \in {"presses", "requests", "meddling"}, NEW bound, Uses(what, bound)
  PROVE  used' \in [{"presses", "requests", "meddling"} -> Nat]
BY DEF TypeOK, Uses

LEMMA ChangeType ==
  ASSUME NEW S \in SUBSET Key, NEW e \in Event
  PROVE  Change(S, e) \in SUBSET Key
BY DEF Change, Event

-----------------------------------------------------------------------------
LEMMA InitType == Init => TypeOK
BY DEF Init, TypeOK

(***************************************************************************)
(* The user's keyboard and the router's thread keep the state well-typed.  *)
(***************************************************************************)
LEMMA KeyboardType ==
  ASSUME TypeOK, NEW k \in Key, Press(k) \/ LetGo(k)
  PROVE  TypeOK'
<1>1. Down(k) \in Event /\ Up(k) \in Event
  BY DEF Down, Up, Event
<1>2. CASE Press(k)
  <2>1. used' \in [{"presses", "requests", "meddling"} -> Nat]
    BY <1>2, UsesType DEF Press
  <2>2. QED
    BY <1>1, <1>2, <2>1 DEF Press, TypeOK, routeVars, coordVars, sinkVars
<1>3. CASE LetGo(k)
  BY <1>1, <1>3 DEF LetGo, TypeOK, routeVars, coordVars, sinkVars
<1>4. QED
  BY <1>2, <1>3

LEMMA RouterType ==
  ASSUME TypeOK, Route \/ SendEvent \/ TrackRemotePressed
  PROVE  TypeOK'
<1>1. CASE Route
  <2>1. Head(queue) \in Event /\ Tail(queue) \in Seq(Event)
    BY <1>1 DEF Route, TypeOK
  <2>2. todo' \in [Thread -> Seq(Step)]
    <3>1. CASE state = "active"
      <4>1. target \in Target
        BY <3>1 DEF TypeOK
      <4>2. <<Do("send", Head(queue), target)>> \in Seq(Step)
        BY <2>1, <4>1, SeqStepTypes
      <4>3. QED
        BY <1>1, <3>1, <4>2, StartsType, ThreadNames DEF Route
    <3>2. CASE state # "active"
      BY <1>1, <3>2, NothingType, ThreadNames DEF Route
    <3>3. QED
      BY <3>1, <3>2
  <2>3. QED
    BY <1>1, <2>1, <2>2 DEF Route, TypeOK, routeVars, coordVars, sinkVars
<1>2. CASE SendEvent
  <2> DEFINE s == Next1(Router)
  <2>1. ~Idle(Router) /\ s.event \in Event /\ s.target \in Target
    BY <1>2, NextStep, ThreadNames DEF SendEvent, Runs
  <2>2. todo' \in [Thread -> Seq(Step)]
    <3>1. <<Do("track", s.event, s.target)>> \in Seq(Step)
      BY <2>1, SeqStepTypes
    <3>2. Continues(Router, <<Do("track", s.event, s.target)>>) \/ Continues(Router, <<>>)
      BY <1>2 DEF SendEvent
    <3> HIDE DEF s
    <3>3. QED
      BY <2>1, <3>1, <3>2, ContinuesType, NothingType, ThreadNames
  <2>3. link' \in [Target -> Seq(Event)]
    <3>1. \/ link' = [link EXCEPT ![s.target] = Append(@, s.event)]
          \/ UNCHANGED link
      BY <1>2 DEF SendEvent
    <3> HIDE DEF s
    <3>2. QED
      BY <2>1, <3>1, AppendType
  <2>4. QED
    BY <1>2, <2>2, <2>3 DEF SendEvent, TypeOK, userVars, routeVars, coordVars, sinkVars
<1>3. CASE TrackRemotePressed
  <2>1. ~Idle(Router) /\ Next1(Router).event \in Event
    BY <1>3, NextStep, ThreadNames DEF TrackRemotePressed, Runs
  <2>2. todo' \in [Thread -> Seq(Step)]
    BY <1>3, <2>1, NothingType, ThreadNames DEF TrackRemotePressed
  <2>3. sent' \subseteq Key
    BY <1>3, <2>1, ChangeType DEF TrackRemotePressed, TypeOK
  <2>4. QED
    BY <1>3, <2>2, <2>3 DEF TrackRemotePressed, TypeOK, userVars, coordVars, sinkVars
<1>4. QED
  BY <1>1, <1>2, <1>3

(***************************************************************************)
(* A change of the router's target keeps the state well-typed.             *)
(***************************************************************************)
LEMMA SwapType ==
  ASSUME TypeOK, NEW th \in Steering, Swap(th)
  PROVE  TypeOK'
<1> DEFINE s == Next1(th)
<1>1. th \in Thread /\ ~Idle(th)
  BY ThreadNames DEF Swap, Runs
<1>2. /\ s.do \in {"inactive", "pending", "active"}
      /\ s.target \in Target \cup {None}
      /\ (s.do = "inactive") <=> (s.target = None)
  BY <1>1, NextStep DEF Swap, Runs
<1>3. CASE state = s.do /\ target = s.target
  <2>1. todo' \in [Thread -> Seq(Step)]
    BY <1>1, <1>3, NothingType DEF Swap
  <2>2. QED
    BY <1>3, <2>1 DEF Swap, TypeOK, userVars, routeVars, coordVars, sinkVars
<1>4. CASE ~(state = s.do /\ target = s.target)
  <2> DEFINE steps == IF state = "active" /\ ~(s.do = "active" /\ s.target = target)
                      THEN Lift("release", sent, target) ELSE <<>>
  <2>1. steps \in Seq(Step)
    <3>1. CASE state = "active"
      BY <3>1, LiftType DEF TypeOK
    <3>2. CASE state # "active"
      BY <3>2
    <3>3. QED
      BY <3>1, <3>2
  <2>2. Continues(th, steps)
    BY <1>4 DEF Swap
  <2>3. todo' \in [Thread -> Seq(Step)]
    <3> HIDE DEF steps
    <3>1. QED
      BY <1>1, <2>1, <2>2, ContinuesType
  <2>4. state' = s.do /\ target' = s.target /\ sent' = {} /\ races' \subseteq races \cup {"router"}
    BY <1>4 DEF Swap
  <2>5. QED
    BY <1>2, <2>3, <2>4 DEF Swap, TypeOK, userVars, coordVars, sinkVars
<1>5. QED
  BY <1>3, <1>4

(***************************************************************************)
(* The other steps of these threads keep it well-typed.                    *)
(***************************************************************************)
LEMMA AskType ==
  ASSUME TypeOK, NEW th \in Steering, ReleaseKey(th) \/ SendAsk(th)
  PROVE  TypeOK'
<1> DEFINE s == Next1(th)
<1>1. th \in Thread /\ ~Idle(th)
  BY ThreadNames DEF ReleaseKey, SendAsk, Runs
<1>2. CASE ReleaseKey(th)
  <2>1. s.keys \subseteq Key /\ s.target \in Target
    BY <1>1, <1>2, NextStep DEF ReleaseKey, Runs
  <2>2. PICK k \in s.keys : /\ IF conn[s.target] = "up"
                               THEN link' = [link EXCEPT ![s.target] = Append(@, Up(k))]
                               ELSE UNCHANGED link
                            /\ Continues(th, Lift("release", s.keys \ {k}, s.target))
    BY <1>2 DEF ReleaseKey
  <2>3. todo' \in [Thread -> Seq(Step)]
    <3>1. Lift("release", s.keys \ {k}, s.target) \in Seq(Step)
      BY <2>1, LiftType
    <3>2. QED
      BY <1>1, <2>2, <3>1, ContinuesType
  <2>4. link' \in [Target -> Seq(Event)]
    <3>1. Up(k) \in Event
      BY <2>1 DEF Up, Event
    <3>2. \/ link' = [link EXCEPT ![s.target] = Append(@, Up(k))]
          \/ UNCHANGED link
      BY <2>2
    <3> HIDE DEF s
    <3>3. QED
      BY <2>1, <3>1, <3>2, AppendType
  <2>5. QED
    BY <1>2, <2>3, <2>4 DEF ReleaseKey, TypeOK, userVars, routeVars, coordVars, sinkVars
<1>3. CASE SendAsk(th)
  <2>1. s.target \in Target /\ s.do \in {"claim", "let go"}
    BY <1>1, <1>3, NextStep DEF SendAsk, Runs
  <2>2. todo' \in [Thread -> Seq(Step)]
    BY <1>1, <1>3, NothingType DEF SendAsk
  <2>3. [do |-> s.do, target |-> s.target] \in Frame
    BY <2>1 DEF Frame
  <2>4. asks' \in Seq(Frame)
    <3>1. asks \in Seq(Frame) /\ asks' = Append(asks, [do |-> s.do, target |-> s.target])
      BY <1>3 DEF SendAsk, TypeOK
    <3>2. QED
      BY <2>3, <3>1
  <2>5. QED
    BY <1>3, <2>2, <2>4 DEF SendAsk, TypeOK, userVars, routeVars, coordVars, sinkVars
<1>4. QED
  BY <1>2, <1>3

LEMMA RequestType ==
  ASSUME TypeOK, (\E t \in Target : RequestTarget(t)) \/ ClearTarget
  PROVE  TypeOK'
<1>1. LetGoOf(want) \in Seq(Step)
  <2>1. CASE want = None
    BY <2>1 DEF LetGoOf
  <2>2. CASE want # None
    <3>1. want \in Target
      BY <2>2 DEF TypeOK
    <3>2. QED
      BY <2>2, <3>1, SeqStepTypes DEF LetGoOf
  <2>3. QED
    BY <2>1, <2>2
<1>2. PICK steps \in Seq(Step) : Starts(Window, steps)
  <2>1. CASE ClearTarget
    <3>1. <<Go("inactive", None)>> \in Seq(Step)
      BY DEF Go, Do, Step, Steps
    <3>2. LetGoOf(want) \o <<Go("inactive", None)>> \in Seq(Step)
      BY <1>1, <3>1
    <3>3. QED
      BY <2>1, <3>2 DEF ClearTarget
  <2>2. ASSUME NEW t \in Target, RequestTarget(t)
        PROVE  \E steps \in Seq(Step) : Starts(Window, steps)
    <3>1. <<Go("pending", t), Go("claim", t)>> \in Seq(Step)
      BY SeqStepTypes
    <3>2. LetGoOf(want) \o <<Go("pending", t), Go("claim", t)>> \in Seq(Step)
      BY <1>1, <3>1
    <3>3. QED
      BY <2>2, <3>2 DEF RequestTarget
  <2>3. QED
    BY <2>1, <2>2
<1>3. todo' \in [Thread -> Seq(Step)]
  BY <1>2, StartsType, ThreadNames
<1>4. used' \in [{"presses", "requests", "meddling"} -> Nat]
  BY UsesType DEF RequestTarget, ClearTarget
<1>5. want' \in Target \cup {None}
  BY DEF RequestTarget, ClearTarget
<1>6. QED
  BY <1>3, <1>4, <1>5 DEF RequestTarget, ClearTarget, TypeOK, userVars, routeVars, coordVars, sinkVars

LEMMA AnswerType ==
  ASSUME TypeOK, OnAnswer
  PROVE  TypeOK'
<1> DEFINE f == Head(answers)
<1>1. f \in Frame /\ Tail(answers) \in Seq(Frame)
  <2>1. answers \in Seq(Frame) /\ answers # <<>>
    BY DEF OnAnswer, TypeOK
  <2>2. QED
    BY <2>1
<1>2. f.target \in Target
  BY <1>1 DEF Frame
<1>3. PICK steps \in Seq(Step) : Starts(Client, steps)
  <2>1. /\ <<Go("active", f.target)>> \in Seq(Step)
        /\ <<Go("let go", f.target)>> \in Seq(Step)
        /\ <<Go("inactive", None)>> \in Seq(Step)
        /\ <<>> \in Seq(Step)
    BY <1>2, SeqStepTypes
  <2>2. \/ Starts(Client, <<Go("active", f.target)>>)
        \/ Starts(Client, <<Go("let go", f.target)>>)
        \/ Starts(Client, <<Go("inactive", None)>>)
        \/ Starts(Client, <<>>)
    BY DEF OnAnswer
  <2>3. QED
    BY <2>1, <2>2
<1>4. todo' \in [Thread -> Seq(Step)]
  BY <1>3, StartsType, ThreadNames
<1>5. want' \in Target \cup {None}
  BY <1>2 DEF OnAnswer, TypeOK
<1>6. QED
  BY <1>1, <1>4, <1>5 DEF OnAnswer, TypeOK, userVars, routeVars, sinkVars

(***************************************************************************)
(* The coordinator keeps the state well-typed.                             *)
(***************************************************************************)
LEMMA HoldsType ==
  ASSUME TypeOK, NEW t \in Target, NEW c \in {Me, Other, None}, Holds(t, c)
  PROVE  lease' \in [Target -> {Me, Other, None}] /\ told' \in [Target -> Seq({Me, Other, None})]
<1>1. /\ lease \in [Target -> {Me, Other, None}]
      /\ told \in [Target -> Seq({Me, Other, None})]
  BY DEF TypeOK
<1>2. lease' \in [Target -> {Me, Other, None}]
  BY <1>1 DEF Holds
<1>3. Append(told[t], c) \in Seq({Me, Other, None})
  BY <1>1
<1>4. told' \in [Target -> Seq({Me, Other, None})]
  BY <1>1, <1>3 DEF Holds
<1>5. QED
  BY <1>2, <1>4

LEMMA AnswersType ==
  ASSUME TypeOK, NEW t \in Target, NEW what \in {"grant", "deny"}, Answers(what, t)
  PROVE  answers' \in Seq(Frame)
<1>1. [do |-> what, target |-> t] \in Frame
  BY DEF Frame
<1>2. answers \in Seq(Frame) /\ answers' = Append(answers, [do |-> what, target |-> t])
  BY DEF Answers, TypeOK
<1>3. QED
  BY <1>1, <1>2

LEMMA CoordinatorType ==
  ASSUME TypeOK, Serve \/ \E t \in Target : Meddle(t)
  PROVE  TypeOK'
<1>1. CASE Serve
  <2> DEFINE t == Head(asks).target
  <2>1. t \in Target /\ Tail(asks) \in Seq(Frame)
    <3>1. asks \in Seq(Frame) /\ asks # <<>>
      BY <1>1 DEF Serve, TypeOK
    <3>2. Head(asks) \in Frame /\ Tail(asks) \in Seq(Frame)
      BY <3>1
    <3>3. QED
      BY <3>2 DEF Frame
  <2>2. /\ lease' \in [Target -> {Me, Other, None}]
        /\ told' \in [Target -> Seq({Me, Other, None})]
        /\ answers' \in Seq(Frame)
    <3>1. \/ Holds(t, Me) /\ Answers("grant", t)
          \/ Answers("deny", t) /\ UNCHANGED <<lease, told>>
          \/ Holds(t, None) /\ UNCHANGED answers
          \/ UNCHANGED <<answers, lease, told>>
      BY <1>1 DEF Serve
    <3> HIDE DEF t
    <3>2. QED
      BY <2>1, <3>1, HoldsType, AnswersType DEF TypeOK
  <2>3. QED
    BY <1>1, <2>1, <2>2 DEF Serve, TypeOK, userVars, routeVars, sinkVars
<1>2. ASSUME NEW t \in Target, Meddle(t)
      PROVE  TypeOK'
  <2>1. /\ lease' \in [Target -> {Me, Other, None}]
        /\ told' \in [Target -> Seq({Me, Other, None})]
        /\ answers' \in Seq(Frame)
    BY <1>2, HoldsType, AnswersType DEF Meddle, TypeOK
  <2>2. used' \in [{"presses", "requests", "meddling"} -> Nat]
    BY <1>2, UsesType DEF Meddle
  <2>3. QED
    BY <1>2, <2>1, <2>2 DEF Meddle, TypeOK, userVars, routeVars, sinkVars
<1>3. QED
  BY <1>1, <1>2

(***************************************************************************)
(* The sink keeps the state well-typed.                                    *)
(***************************************************************************)
LEMMA HandleType ==
  ASSUME TypeOK, NEW t \in Target, Handle(t) \/ TrackPressed(t) \/ Inject(t)
  PROVE  TypeOK'
<1>1. Input(t) \in Thread
  BY ThreadNames
<1>2. CASE Handle(t)
  <2> DEFINE e == Head(link[t])
  <2>1. e \in Event /\ Tail(link[t]) \in Seq(Event)
    BY <1>2 DEF Handle, TypeOK
  <2>2. todo' \in [Thread -> Seq(Step)]
    <3>1. <<Do("note", e, t), Do("inject", e, t)>> \in Seq(Step) /\ <<>> \in Seq(Step)
      BY <2>1, SeqStepTypes
    <3>2. \/ Starts(Input(t), <<Do("note", e, t), Do("inject", e, t)>>)
          \/ Starts(Input(t), <<>>)
      BY <1>2 DEF Handle
    <3>3. QED
      BY <1>1, <3>1, <3>2, StartsType
  <2>3. link' \in [Target -> Seq(Event)]
    BY <1>2, <2>1 DEF Handle, TypeOK
  <2>4. QED
    BY <1>2, <2>2, <2>3 DEF Handle, TypeOK, userVars, routeVars, coordVars, sinkVars
<1>3. CASE TrackPressed(t) \/ Inject(t)
  <2>1. ~Idle(Input(t)) /\ Next1(Input(t)).event \in Event
    BY <1>1, <1>3, NextStep DEF TrackPressed, Inject, Runs
  <2>2. todo' \in [Thread -> Seq(Step)]
    BY <1>1, <1>3, <2>1, NothingType DEF TrackPressed, Inject
  <2>3. /\ Change(pressed[t], Next1(Input(t)).event) \in SUBSET Key
        /\ Change(os[t], Next1(Input(t)).event) \in SUBSET Key
    BY <2>1, ChangeType DEF TypeOK
  <2>4. pressed' \in [Target -> SUBSET Key] /\ os' \in [Target -> SUBSET Key]
    <3>1. CASE TrackPressed(t)
      BY <2>3, <3>1 DEF TrackPressed, TypeOK
    <3>2. CASE Inject(t)
      BY <2>3, <3>2 DEF Inject, TypeOK
    <3>3. QED
      BY <1>3, <3>1, <3>2
  <2>5. QED
    BY <1>3, <2>2, <2>4 DEF TrackPressed, Inject, TypeOK, userVars, routeVars, coordVars
<1>4. QED
  BY <1>2, <1>3

LEMMA ReleaseType ==
  ASSUME TypeOK, NEW t \in Target,
         SetAuthorizedController(t) \/ ReleasePeer(t) \/ \E th \in {Lease(t), Gone(t)} : ReleaseEntry(t, th)
  PROVE  TypeOK'
<1>1. Lease(t) \in Thread /\ Gone(t) \in Thread
  BY ThreadNames
<1>2. Lift("lift", pressed[t], t) \in Seq(Step)
  BY LiftType DEF TypeOK
<1>3. CASE SetAuthorizedController(t)
  <2>1. Head(told[t]) \in {Me, Other, None} /\ Tail(told[t]) \in Seq({Me, Other, None})
    BY <1>3 DEF SetAuthorizedController, TypeOK
  <2>2. todo' \in [Thread -> Seq(Step)]
    <3>1. \/ Starts(Lease(t), Lift("lift", pressed[t], t))
          \/ Starts(Lease(t), <<>>)
      BY <1>3 DEF SetAuthorizedController
    <3>2. QED
      BY <1>1, <1>2, <3>1, StartsType, NothingType
  <2>3. pressed' \in [Target -> SUBSET Key] /\ races' \subseteq races \cup {"sink"}
    BY <1>3 DEF SetAuthorizedController, Overtakes, TypeOK
  <2>4. told' \in [Target -> Seq({Me, Other, None})] /\ auth' \in [Target -> {Me, Other, None}]
    BY <1>3, <2>1 DEF SetAuthorizedController, TypeOK
  <2>5. QED
    BY <1>3, <2>2, <2>3, <2>4 DEF SetAuthorizedController, TypeOK, userVars, routeVars
<1>4. CASE ReleasePeer(t)
  <2>1. todo' \in [Thread -> Seq(Step)]
    BY <1>1, <1>2, <1>4, ContinuesType DEF ReleasePeer, Runs
  <2>2. pressed' \in [Target -> SUBSET Key] /\ races' \subseteq races \cup {"sink"}
    BY <1>4 DEF ReleasePeer, Overtakes, TypeOK
  <2>3. QED
    BY <1>4, <2>1, <2>2 DEF ReleasePeer, TypeOK, userVars, routeVars, coordVars
<1>5. ASSUME NEW th \in {Lease(t), Gone(t)}, ReleaseEntry(t, th)
      PROVE  TypeOK'
  <2>1. th \in Thread /\ ~Idle(th) /\ Next1(th).keys \subseteq Key
    BY <1>1, <1>5, NextStep DEF ReleaseEntry, Runs
  <2>2. PICK k \in Next1(th).keys : /\ os' = [os EXCEPT ![t] = @ \ {k}]
                                    /\ Continues(th, Lift("lift", Next1(th).keys \ {k}, t))
    BY <1>5 DEF ReleaseEntry
  <2>3. Lift("lift", Next1(th).keys \ {k}, t) \in Seq(Step)
    BY <2>1, LiftType
  <2>4. todo' \in [Thread -> Seq(Step)]
    BY <2>1, <2>2, <2>3, ContinuesType
  <2>5. os' \in [Target -> SUBSET Key]
    BY <2>2 DEF TypeOK
  <2>6. QED
    BY <1>5, <2>4, <2>5 DEF ReleaseEntry, TypeOK, userVars, routeVars, coordVars
<1>6. QED
  BY <1>3, <1>4, <1>5

(***************************************************************************)
(* A connection that breaks and comes back keeps the state well-typed.     *)
(***************************************************************************)
LEMMA ConnectionType ==
  ASSUME TypeOK, NEW t \in Target,
         Break(t) \/ UnbindTarget(t) \/ OnPeerUnbound(t) \/ Close(t) \/ Unbind(t) \/ Rebind(t)
  PROVE  TypeOK'
<1>1. Gone(t) \in Thread /\ Lost(t) \in Thread
  BY ThreadNames
<1>2. CASE Break(t)
  <2>1. link' \in [Target -> Seq(Event)]
    <3>1. PICK n \in 0 .. Len(link[t]) : link' = [link EXCEPT ![t] = SubSeq(@, 1, n)]
      BY <1>2 DEF Break
    <3>2. link[t] \in Seq(Event) /\ SubSeq(link[t], 1, n) \in Seq(Event)
      BY DEF TypeOK
    <3>3. QED
      BY <3>1, <3>2 DEF TypeOK
  <2>2. used' \in [{"presses", "requests", "meddling"} -> Nat]
    BY <1>2, UsesType DEF Break
  <2>3. todo' \in [Thread -> Seq(Step)]
    BY <1>1, <1>2, StartsType, SeqStepTypes DEF Break
  <2>4. QED
    BY <1>2, <2>1, <2>2, <2>3 DEF Break, TypeOK, userVars, routeVars, coordVars, sinkVars
<1>3. CASE Close(t)
  <2>1. <<Go("unbind", t), Go("forget", t)>> \in Seq(Step)
    BY SeqStepTypes
  <2>2. todo' \in [Thread -> Seq(Step)]
    BY <1>1, <1>3, <2>1, StartsType DEF Close
  <2>3. QED
    BY <1>3, <2>2 DEF Close, TypeOK, userVars, routeVars, coordVars, sinkVars
<1>4. CASE Unbind(t)
  <2>1. todo' \in [Thread -> Seq(Step)]
    BY <1>1, <1>4, NothingType, DropsType DEF Unbind, Runs
  <2>2. QED
    BY <1>4, <2>1 DEF Unbind, TypeOK, userVars, routeVars, coordVars, sinkVars
<1>5. CASE Rebind(t)
  BY <1>5 DEF Rebind, TypeOK, userVars, routeVars, coordVars, sinkVars
<1>6. CASE UnbindTarget(t)
  <2>1. todo' \in [Thread -> Seq(Step)]
    BY <1>1, <1>6, NothingType, DropsType DEF UnbindTarget, Runs
  <2>2. QED
    BY <1>6, <2>1 DEF UnbindTarget, TypeOK, userVars, routeVars, coordVars, sinkVars
<1>7. CASE OnPeerUnbound(t)
  <2>1. ~Idle(Lost(t))
    BY <1>7 DEF OnPeerUnbound, Runs
  <2>2. todo' \in [Thread -> Seq(Step)]
    <3>1. \/ Continues(Lost(t), <<Go("inactive", None)>>)
          \/ Continues(Lost(t), <<>>)
      BY <1>7 DEF OnPeerUnbound
    <3>2. QED
      BY <1>1, <2>1, <3>1, ContinuesType, NothingType, SeqStepTypes
  <2>3. QED
    BY <1>7, <2>2 DEF OnPeerUnbound, TypeOK, userVars, routeVars, coordVars, sinkVars
<1>8. QED
  BY <1>2, <1>3, <1>4, <1>5, <1>6, <1>7

(***************************************************************************)
(* Every state is well-typed: in particular, the router has a target just  *)
(* when it is not inactive, and keys are sent to targets only.             *)
(***************************************************************************)
THEOREM TypeCorrect == Spec => []TypeOK
<1>1. TypeOK /\ [Next]_vars => TypeOK'
  <2> SUFFICES ASSUME TypeOK, [Next]_vars PROVE TypeOK'
    OBVIOUS
  <2>1. CASE UNCHANGED vars
    BY <2>1 DEF TypeOK, vars, userVars, routeVars, coordVars, sinkVars
  <2>2. CASE Next
    BY <2>2, KeyboardType, RouterType, SwapType, AskType, RequestType, AnswerType,
       CoordinatorType, HandleType, ReleaseType, ConnectionType DEF Next, Steering
  <2>3. QED
    BY <2>1, <2>2
<1>2. QED
  BY <1>1, InitType, PTL DEF Spec

-----------------------------------------------------------------------------
(***************************************************************************)
(* What the sink keeps to while no release has overtaken the handling of   *)
(* an event: it handles events of an authorized controller only, one after *)
(* the other; a target that does not let the controller in tracks none of  *)
(* its keys; and a key that is down is tracked, or a thread is about to    *)
(* release it, or to handle its release.                                   *)
(***************************************************************************)
Lifting(th) == IF Runs(th, "lift") THEN Next1(th).keys ELSE {}
Rising(t)   == {k \in Key : todo[Input(t)] = <<Do("inject", Up(k), t)>>}

SinkOK(t) ==
  /\ \/ todo[Input(t)] = <<>>
     \/ \E e \in Event : \/ todo[Input(t)] = <<Do("note", e, t), Do("inject", e, t)>>
                         \/ todo[Input(t)] = <<Do("inject", e, t)>>
  /\ ~Idle(Input(t)) => auth[t] = Me
  /\ auth[t] # Me => pressed[t] = {}
  /\ \A k \in Key : todo[Input(t)] = <<Do("inject", Down(k), t)>> => k \in pressed[t]
  /\ os[t] \subseteq pressed[t] \cup Lifting(Lease(t)) \cup Lifting(Gone(t)) \cup Rising(t)

SinkInv == "sink" \notin races => \A t \in Target : SinkOK(t)

(***************************************************************************)
(* A step of one thread leaves the others alone.                           *)
(***************************************************************************)
LEMMA OneThread ==
  ASSUME TypeOK, NEW th \in Thread, NEW steps,
         \/ Starts(th, steps) \/ Continues(th, steps)
         \/ todo' = [todo EXCEPT ![th] = steps]
  PROVE  \A other \in Thread : other # th => todo'[other] = todo[other]
BY DEF TypeOK, Starts, Continues

LEMMA Untouched ==
  ASSUME NEW t \in Target, SinkOK(t),
         auth'[t] = auth[t], pressed'[t] = pressed[t], os'[t] = os[t],
         todo'[Input(t)] = todo[Input(t)],
         Lifting(Lease(t)) \subseteq Lifting(Lease(t))',
         Lifting(Gone(t)) \subseteq Lifting(Gone(t))'
  PROVE  SinkOK(t)'
BY DEF SinkOK, Rising, Idle

LEMMA SameLifting ==
  ASSUME NEW th, todo'[th] = todo[th]
  PROVE  Lifting(th)' = Lifting(th)
BY DEF Lifting, Runs, Idle, Next1

LEMMA OtherSide ==
  ASSUME TypeOK, NEW th \in Steering \cup {Router}, NEW steps,
         \/ Starts(th, steps) \/ Continues(th, steps)
         \/ todo' = [todo EXCEPT ![th] = steps],
         UNCHANGED sinkVars,
         NEW t \in Target, SinkOK(t)
  PROVE  SinkOK(t)'
<1>1. th \in Thread /\ Input(t) \in Thread /\ Lease(t) \in Thread /\ Gone(t) \in Thread
  BY ThreadNames
<1>2. th \notin {Input(t), Lease(t), Gone(t)}
  BY ThreadsDiffer
<1>3. /\ todo'[Input(t)] = todo[Input(t)]
      /\ todo'[Lease(t)] = todo[Lease(t)]
      /\ todo'[Gone(t)] = todo[Gone(t)]
  BY <1>1, <1>2, OneThread
<1>4. Lifting(Lease(t))' = Lifting(Lease(t)) /\ Lifting(Gone(t))' = Lifting(Gone(t))
  BY <1>3, SameLifting
<1>5. QED
  BY <1>3, <1>4, Untouched DEF sinkVars

(***************************************************************************)
(* A step at one target leaves the others alone.                           *)
(***************************************************************************)
LEMMA OtherTarget ==
  ASSUME TypeOK, NEW t \in Target, NEW u \in Target, u # t, SinkOK(u),
         NEW th \in {Input(t), Lease(t), Gone(t)}, NEW steps,
         \/ Starts(th, steps) \/ Continues(th, steps)
         \/ todo' = [todo EXCEPT ![th] = steps],
         auth'[u] = auth[u], pressed'[u] = pressed[u], os'[u] = os[u]
  PROVE  SinkOK(u)'
<1>1. th \in Thread /\ Input(u) \in Thread /\ Lease(u) \in Thread /\ Gone(u) \in Thread
  BY ThreadNames
<1>2. th \notin {Input(u), Lease(u), Gone(u)}
  BY ThreadsDiffer
<1>3. /\ todo'[Input(u)] = todo[Input(u)]
      /\ todo'[Lease(u)] = todo[Lease(u)]
      /\ todo'[Gone(u)] = todo[Gone(u)]
  BY <1>1, <1>2, OneThread
<1>4. Lifting(Lease(u))' = Lifting(Lease(u)) /\ Lifting(Gone(u))' = Lifting(Gone(u))
  BY <1>3, SameLifting
<1>5. QED
  BY <1>3, <1>4, Untouched

LEMMA LiftingOfLift ==
  ASSUME NEW S \in SUBSET Key, NEW t \in Target, NEW th, NEW rest \in Seq(Step),
         todo'[th] = Lift("lift", S, t) \o rest
  PROVE  S \subseteq Lifting(th)'
<1>1. CASE S = {}
  BY <1>1
<1>2. CASE S # {}
  <2> DEFINE s == [do |-> "lift", event |-> None, keys |-> S, target |-> t]
  <2>1. s \in Step
    BY DEF Step, Steps
  <2>2. todo'[th] = <<s>> \o rest
    BY <1>2 DEF Lift
  <2> HIDE DEF s
  <2>3. Head(todo'[th]) = s /\ todo'[th] # <<>>
    BY <2>1, <2>2
  <2>4. s.do = "lift" /\ s.keys = S
    BY DEF s
  <2>5. QED
    BY <2>3, <2>4 DEF Lifting, Runs, Idle, Next1
<1>3. QED
  BY <1>1, <1>2

(***************************************************************************)
(* What the sink is doing with an event: nothing, tracking it and then     *)
(* injecting it, or injecting it.                                          *)
(***************************************************************************)
LEMMA EventKinds ==
  ASSUME NEW e \in Event
  PROVE  \E k \in Key : e = Down(k) \/ e = Up(k)
BY DEF Event, Down, Up

LEMMA HandlerSteps ==
  ASSUME NEW t \in Target, NEW e \in Event
  PROVE  /\ <<Do("note", e, t), Do("inject", e, t)>> # <<>>
         /\ Head(<<Do("note", e, t), Do("inject", e, t)>>).do = "note"
         /\ Head(<<Do("note", e, t), Do("inject", e, t)>>).event = e
         /\ <<>> \o Tail(<<Do("note", e, t), Do("inject", e, t)>>) = <<Do("inject", e, t)>>
         /\ <<Do("inject", e, t)>> # <<>>
         /\ Head(<<Do("inject", e, t)>>).do = "inject"
         /\ Head(<<Do("inject", e, t)>>).event = e
         /\ <<>> \o Tail(<<Do("inject", e, t)>>) = <<>>
BY DEF Do

LEMMA SameEvent ==
  ASSUME NEW t \in Target, NEW e \in Event, NEW f \in Event
  PROVE  /\ <<Do("inject", e, t)>> = <<Do("inject", f, t)>> => e = f
         /\ <<Do("note", e, t), Do("inject", e, t)>> # <<Do("inject", f, t)>>
<1>1. Do("inject", e, t).event = e /\ Do("inject", f, t).event = f
  BY DEF Do
<1>2. <<Do("inject", e, t)>>[1] = Do("inject", e, t) /\ <<Do("inject", f, t)>>[1] = Do("inject", f, t)
  OBVIOUS
<1>3. Len(<<Do("note", e, t), Do("inject", e, t)>>) = 2 /\ Len(<<Do("inject", f, t)>>) = 1
  OBVIOUS
<1>4. QED
  BY <1>1, <1>2, <1>3

LEMMA OtherLifting ==
  ASSUME TypeOK, NEW t \in Target, NEW steps,
         Starts(Input(t), steps) \/ Continues(Input(t), steps)
  PROVE  Lifting(Lease(t))' = Lifting(Lease(t)) /\ Lifting(Gone(t))' = Lifting(Gone(t))
<1>1. Input(t) \in Thread /\ Lease(t) \in Thread /\ Gone(t) \in Thread
  BY ThreadNames
<1>2. Input(t) # Lease(t) /\ Input(t) # Gone(t)
  BY ThreadsDiffer
<1>3. todo'[Lease(t)] = todo[Lease(t)] /\ todo'[Gone(t)] = todo[Gone(t)]
  BY <1>1, <1>2, OneThread
<1>4. QED
  BY <1>3, SameLifting

LEMMA TracksEvent ==
  ASSUME TypeOK, NEW t \in Target, SinkOK(t), TrackPressed(t)
  PROVE  SinkOK(t)'
<1>1. PICK e \in Event : todo[Input(t)] = <<Do("note", e, t), Do("inject", e, t)>>
  <2>1. todo[Input(t)] # <<>> /\ Head(todo[Input(t)]).do = "note"
    BY DEF TrackPressed, Runs, Idle, Next1
  <2>2. \A e \in Event : todo[Input(t)] # <<Do("inject", e, t)>>
    BY <2>1, HandlerSteps
  <2>3. QED
    BY <2>1, <2>2 DEF SinkOK
<1>2. todo'[Input(t)] = <<Do("inject", e, t)>>
  <2>1. todo'[Input(t)] = <<>> \o Tail(todo[Input(t)])
    BY ThreadNames DEF TrackPressed, Continues, TypeOK
  <2>2. QED
    BY <1>1, <2>1, HandlerSteps
<1>3. pressed'[t] = Change(pressed[t], e)
  <2>1. Next1(Input(t)).event = e
    <3>1. Head(<<Do("note", e, t), Do("inject", e, t)>>).event = e
      BY HandlerSteps
    <3>2. QED
      BY <1>1, <3>1 DEF Next1
  <2>2. QED
    BY <2>1 DEF TrackPressed, TypeOK
<1>4. auth'[t] = Me
  BY <1>1, HandlerSteps DEF SinkOK, TrackPressed, Idle
<1>5. \A k \in Key : todo'[Input(t)] = <<Do("inject", Down(k), t)>> => k \in pressed'[t]
  <2>1. SUFFICES ASSUME NEW k \in Key, todo'[Input(t)] = <<Do("inject", Down(k), t)>>
                 PROVE  k \in pressed'[t]
    OBVIOUS
  <2>2. Down(k) \in Event
    BY DEF Down, Event
  <2>3. e = Down(k)
    BY <1>2, <2>1, <2>2, SameEvent
  <2>4. QED
    BY <1>3, <2>3 DEF Change, Down
<1>6. Rising(t) = {}
  <2>1. \A k \in Key : Up(k) \in Event
    BY DEF Up, Event
  <2>2. QED
    BY <1>1, <2>1, SameEvent DEF Rising
<1>7. pressed[t] \subseteq pressed'[t] \cup Rising(t)'
  <2>1. PICK k \in Key : e = Down(k) \/ e = Up(k)
    BY EventKinds
  <2>2. CASE e = Down(k)
    BY <1>3, <2>2 DEF Change, Down
  <2>3. CASE e = Up(k)
    <3>1. k \in Rising(t)'
      BY <1>2, <2>3 DEF Rising
    <3>2. pressed'[t] = pressed[t] \ {k}
      BY <1>3, <2>3 DEF Change, Up
    <3>3. QED
      BY <3>1, <3>2
  <2>4. QED
    BY <2>1, <2>2, <2>3
<1>8. os'[t] \subseteq pressed'[t] \cup Lifting(Lease(t))' \cup Lifting(Gone(t))' \cup Rising(t)'
  <2>1. os'[t] = os[t]
    BY DEF TrackPressed
  <2>2. os[t] \subseteq pressed[t] \cup Lifting(Lease(t)) \cup Lifting(Gone(t))
    BY <1>6 DEF SinkOK
  <2>3. Lifting(Lease(t))' = Lifting(Lease(t)) /\ Lifting(Gone(t))' = Lifting(Gone(t))
    BY OtherLifting DEF TrackPressed
  <2>4. QED
    BY <1>7, <2>1, <2>2, <2>3
<1>9. QED
  BY <1>2, <1>4, <1>5, <1>8 DEF SinkOK

LEMMA InjectsEvent ==
  ASSUME TypeOK, NEW t \in Target, SinkOK(t), Inject(t)
  PROVE  SinkOK(t)'
<1>1. PICK e \in Event : todo[Input(t)] = <<Do("inject", e, t)>>
  <2>1. todo[Input(t)] # <<>> /\ Head(todo[Input(t)]).do = "inject"
    BY DEF Inject, Runs, Idle, Next1
  <2>2. \A e \in Event : todo[Input(t)] # <<Do("note", e, t), Do("inject", e, t)>>
    BY <2>1, HandlerSteps
  <2>3. QED
    BY <2>1, <2>2 DEF SinkOK
<1>2. todo'[Input(t)] = <<>>
  <2>1. todo'[Input(t)] = <<>> \o Tail(todo[Input(t)])
    BY ThreadNames DEF Inject, Continues, TypeOK
  <2>2. QED
    BY <1>1, <2>1, HandlerSteps
<1>3. os'[t] = Change(os[t], e)
  <2>1. Next1(Input(t)).event = e
    <3>1. Head(<<Do("inject", e, t)>>).event = e
      BY HandlerSteps
    <3>2. QED
      BY <1>1, <3>1 DEF Next1
  <2>2. QED
    BY <2>1 DEF Inject, TypeOK
<1>4. auth'[t] = auth[t] /\ pressed'[t] = pressed[t]
  BY DEF Inject
<1>5. \A k \in Key : Rising(t) \subseteq {k} \/ e # Up(k)
  <2>1. \A k, j \in Key : Up(j) \in Event /\ (Up(k) = Up(j) => k = j)
    BY DEF Up, Event
  <2>2. QED
    BY <1>1, <2>1, SameEvent DEF Rising
<1>6. \A k \in Key : e = Down(k) => Rising(t) = {}
  <2>1. \A k, j \in Key : Up(j) \in Event /\ Down(k) # Up(j)
    BY DEF Up, Down, Event
  <2>2. QED
    BY <1>1, <2>1, SameEvent DEF Rising
<1>7. os'[t] \subseteq pressed'[t] \cup Lifting(Lease(t)) \cup Lifting(Gone(t))
  <2>1. PICK k \in Key : e = Down(k) \/ e = Up(k)
    BY EventKinds
  <2>2. os[t] \subseteq pressed[t] \cup Lifting(Lease(t)) \cup Lifting(Gone(t)) \cup Rising(t)
    BY DEF SinkOK
  <2>3. CASE e = Down(k)
    <3>1. k \in pressed[t]
      BY <1>1, <2>3 DEF SinkOK
    <3>2. os'[t] = os[t] \cup {k}
      BY <1>3, <2>3 DEF Change, Down
    <3>3. QED
      BY <1>4, <1>6, <2>2, <2>3, <3>1, <3>2
  <2>4. CASE e = Up(k)
    <3>1. os'[t] = os[t] \ {k}
      BY <1>3, <2>4 DEF Change, Up
    <3>2. QED
      BY <1>4, <1>5, <2>2, <2>4, <3>1
  <2>5. QED
    BY <2>1, <2>3, <2>4
<1>8. Lifting(Lease(t))' = Lifting(Lease(t)) /\ Lifting(Gone(t))' = Lifting(Gone(t))
  BY OtherLifting DEF Inject
<1>9. \A k \in Key : todo'[Input(t)] # <<Do("inject", Down(k), t)>>
  BY <1>2, HandlerSteps DEF Down, Event
<1>10. QED
  BY <1>2, <1>4, <1>7, <1>8, <1>9 DEF SinkOK, Idle

(***************************************************************************)
(* The releases: what they take out of pressed, a thread is to lift, and   *)
(* while they do not overtake the handling of an event, none is handled.   *)
(***************************************************************************)
LEMMA ReleasesController ==
  ASSUME TypeOK, NEW t \in Target, SinkOK(t), SetAuthorizedController(t), "sink" \notin races'
  PROVE  SinkOK(t)'
<1>1. Lease(t) \in Thread /\ Input(t) \in Thread /\ Gone(t) \in Thread
  BY ThreadNames
<1>2. Lease(t) # Input(t) /\ Lease(t) # Gone(t)
  BY ThreadsDiffer
<1>3. PICK steps \in Seq(Step) : Starts(Lease(t), steps)
  <2>1. Lift("lift", pressed[t], t) \in Seq(Step) /\ <<>> \in Seq(Step)
    BY LiftType, SeqStepTypes DEF TypeOK
  <2>2. QED
    BY <2>1 DEF SetAuthorizedController
<1>4. todo'[Input(t)] = todo[Input(t)] /\ todo'[Gone(t)] = todo[Gone(t)]
  BY <1>1, <1>2, <1>3, OneThread
<1>5. Lifting(Gone(t))' = Lifting(Gone(t))
  BY <1>4, SameLifting
<1>6. Lifting(Lease(t)) = {}
  BY DEF SetAuthorizedController, Starts, Lifting, Runs
<1>7. auth'[t] = Head(told[t]) /\ os'[t] = os[t]
  BY DEF SetAuthorizedController, TypeOK
<1>8. CASE Head(told[t]) \notin {Me, auth[t]}
  <2>1. pressed'[t] = {} /\ Starts(Lease(t), Lift("lift", pressed[t], t)) /\ Overtakes(t)
    BY <1>8 DEF SetAuthorizedController, TypeOK
  <2>2. todo[Input(t)] = <<>>
    BY <2>1 DEF Overtakes, Idle
  <2>3. pressed[t] \subseteq Lifting(Lease(t))'
    <3>1. todo'[Lease(t)] = Lift("lift", pressed[t], t)
      BY <1>1, <2>1 DEF Starts, TypeOK
    <3>2. Lift("lift", pressed[t], t) \in Seq(Step) /\ pressed[t] \in SUBSET Key
      BY LiftType DEF TypeOK
    <3>3. Lift("lift", pressed[t], t) = Lift("lift", pressed[t], t) \o <<>>
      BY <3>2
    <3>4. QED
      BY <3>1, <3>2, <3>3, LiftingOfLift, SeqStepTypes
  <2>4. Rising(t) = {}
    BY <2>2, HandlerSteps DEF Rising, Up, Event
  <2>5. os'[t] \subseteq Lifting(Lease(t))' \cup Lifting(Gone(t))'
    BY <1>5, <1>6, <1>7, <2>3, <2>4 DEF SinkOK
  <2>6. \A k \in Key : todo'[Input(t)] # <<Do("inject", Down(k), t)>>
    BY <1>4, <2>2, HandlerSteps DEF Down, Event
  <2>7. QED
    BY <1>4, <2>1, <2>2, <2>5, <2>6 DEF SinkOK, Idle
<1>9. CASE Head(told[t]) \in {Me, auth[t]}
  <2>1. pressed'[t] = pressed[t]
    BY <1>9 DEF SetAuthorizedController
  <2>2. Rising(t)' = Rising(t)
    BY <1>4 DEF Rising
  <2>3. os'[t] \subseteq pressed'[t] \cup Lifting(Gone(t))' \cup Rising(t)'
    BY <1>5, <1>6, <1>7, <2>1, <2>2 DEF SinkOK
  <2>4. /\ ~Idle(Input(t))' => auth'[t] = Me
        /\ auth'[t] # Me => pressed'[t] = {}
    BY <1>4, <1>7, <1>9, <2>1 DEF SinkOK, Idle
  <2>5. QED
    BY <1>4, <2>1, <2>3, <2>4 DEF SinkOK
<1>10. QED
  BY <1>8, <1>9

LEMMA ReleasesPeer ==
  ASSUME TypeOK, NEW t \in Target, SinkOK(t), ReleasePeer(t), "sink" \notin races'
  PROVE  SinkOK(t)'
<1>1. Lease(t) \in Thread /\ Input(t) \in Thread /\ Gone(t) \in Thread
  BY ThreadNames
<1>2. Gone(t) # Input(t) /\ Lease(t) # Gone(t)
  BY ThreadsDiffer
<1>3. Continues(Gone(t), Lift("lift", pressed[t], t)) /\ ~Idle(Gone(t)) /\ Overtakes(t)
  BY DEF ReleasePeer, Runs
<1>4. todo'[Input(t)] = todo[Input(t)] /\ todo'[Lease(t)] = todo[Lease(t)]
  BY <1>1, <1>2, <1>3, OneThread
<1>5. Lifting(Lease(t))' = Lifting(Lease(t))
  BY <1>4, SameLifting
<1>6. Lifting(Gone(t)) = {}
  BY DEF ReleasePeer, Lifting, Runs
<1>7. auth'[t] = auth[t] /\ os'[t] = os[t] /\ pressed'[t] = {}
  BY DEF ReleasePeer, TypeOK
<1>8. todo[Input(t)] = <<>>
  BY <1>3 DEF Overtakes, Idle
<1>9. pressed[t] \subseteq Lifting(Gone(t))'
  <2>1. todo'[Gone(t)] = Lift("lift", pressed[t], t) \o Tail(todo[Gone(t)])
    BY <1>1, <1>3 DEF Continues, TypeOK
  <2>2. Tail(todo[Gone(t)]) \in Seq(Step) /\ pressed[t] \in SUBSET Key
    BY <1>1, <1>3, NextStep DEF TypeOK
  <2>3. QED
    BY <2>1, <2>2, LiftingOfLift
<1>10. Rising(t) = {}
  BY <1>8, HandlerSteps DEF Rising, Up, Event
<1>11. os'[t] \subseteq Lifting(Lease(t))' \cup Lifting(Gone(t))'
  BY <1>5, <1>6, <1>7, <1>9, <1>10 DEF SinkOK
<1>12. \A k \in Key : todo'[Input(t)] # <<Do("inject", Down(k), t)>>
  BY <1>4, <1>8, HandlerSteps DEF Down, Event
<1>13. QED
  BY <1>4, <1>7, <1>8, <1>11, <1>12 DEF SinkOK, Idle

LEMMA ReleasesEntry ==
  ASSUME TypeOK, NEW t \in Target, SinkOK(t), NEW th \in {Lease(t), Gone(t)}, ReleaseEntry(t, th)
  PROVE  SinkOK(t)'
<1>1. th \in Thread /\ Lease(t) \in Thread /\ Input(t) \in Thread /\ Gone(t) \in Thread
  BY ThreadNames
<1>2. th # Input(t) /\ Lease(t) # Gone(t)
  BY ThreadsDiffer
<1>3. ~Idle(th) /\ Next1(th).do = "lift" /\ Next1(th).keys \in SUBSET Key
      /\ Tail(todo[th]) \in Seq(Step)
  BY <1>1, NextStep DEF ReleaseEntry, Runs
<1>4. PICK k \in Next1(th).keys : /\ os' = [os EXCEPT ![t] = @ \ {k}]
                                  /\ Continues(th, Lift("lift", Next1(th).keys \ {k}, t))
  BY DEF ReleaseEntry
<1>5. todo'[Input(t)] = todo[Input(t)]
      /\ \A other \in {Lease(t), Gone(t)} : other # th => todo'[other] = todo[other]
  BY <1>1, <1>2, <1>4, OneThread
<1>6. \A other \in {Lease(t), Gone(t)} : other # th => Lifting(other)' = Lifting(other)
  BY <1>5, SameLifting
<1>7. Lifting(th) \ {k} \subseteq Lifting(th)'
  <2>1. todo'[th] = Lift("lift", Next1(th).keys \ {k}, t) \o Tail(todo[th])
    BY <1>1, <1>4 DEF Continues, TypeOK
  <2>2. Next1(th).keys \ {k} \in SUBSET Key
    BY <1>3
  <2>3. Next1(th).keys \ {k} \subseteq Lifting(th)'
    BY <1>3, <2>1, <2>2, LiftingOfLift
  <2>4. QED
    BY <1>3, <2>3 DEF Lifting
<1>8. os'[t] = os[t] \ {k} /\ auth'[t] = auth[t] /\ pressed'[t] = pressed[t]
  BY <1>4 DEF ReleaseEntry, TypeOK
<1>9. Rising(t)' = Rising(t)
  BY <1>5 DEF Rising
<1>10. os'[t] \subseteq pressed'[t] \cup Lifting(Lease(t))' \cup Lifting(Gone(t))' \cup Rising(t)'
  BY <1>6, <1>7, <1>8, <1>9 DEF SinkOK
<1>11. QED
  BY <1>5, <1>8, <1>10 DEF SinkOK, Idle

(***************************************************************************)
(* The remaining steps do not touch the sink, or only the thread of a      *)
(* connection that is not releasing anything yet.                          *)
(***************************************************************************)
LEMMA RacesRemain ==
  ASSUME Next
  PROVE  races \subseteq races'
BY DEF Next, Press, LetGo, Route, SendEvent, TrackRemotePressed, Swap, ReleaseKey, SendAsk,
       ClearTarget, OnAnswer, Serve, RequestTarget, Meddle, Handle, TrackPressed, Inject,
       SetAuthorizedController, Overtakes, Break, Close, Unbind, ReleasePeer, Rebind, ReleaseEntry,
       UnbindTarget, OnPeerUnbound, routeVars, sinkVars

LEMMA ControllerSteps ==
  ASSUME TypeOK, NEW t \in Target, SinkOK(t),
         \/ Route \/ SendEvent \/ TrackRemotePressed \/ ClearTarget \/ OnAnswer
         \/ \E th \in Steering : Swap(th) \/ ReleaseKey(th) \/ SendAsk(th)
         \/ \E u \in Target : RequestTarget(u) \/ Break(u) \/ UnbindTarget(u) \/ OnPeerUnbound(u)
  PROVE  SinkOK(t)'
<1>1. UNCHANGED sinkVars
  BY DEF Route, SendEvent, TrackRemotePressed, ClearTarget, OnAnswer, Swap, ReleaseKey, SendAsk,
         RequestTarget, Break, UnbindTarget, OnPeerUnbound
<1>2. PICK th \in Steering \cup {Router} :
        \E steps : \/ Starts(th, steps) \/ Continues(th, steps)
                   \/ todo' = [todo EXCEPT ![th] = steps]
  <2>1. CASE Route \/ SendEvent \/ TrackRemotePressed
    BY <2>1 DEF Route, SendEvent, TrackRemotePressed
  <2>2. CASE ClearTarget \/ OnAnswer \/ \E u \in Target : RequestTarget(u)
    BY <2>2 DEF ClearTarget, OnAnswer, RequestTarget, Steering
  <2>3. CASE \E th \in Steering : Swap(th) \/ ReleaseKey(th) \/ SendAsk(th)
    BY <2>3 DEF Swap, ReleaseKey, SendAsk
  <2>4. CASE \E u \in Target : Break(u) \/ UnbindTarget(u) \/ OnPeerUnbound(u)
    BY <2>4 DEF Break, UnbindTarget, OnPeerUnbound, Steering
  <2>5. QED
    BY <2>1, <2>2, <2>3, <2>4
<1>3. QED
  BY <1>1, <1>2, OtherSide

LEMMA OutsideSteps ==
  ASSUME TypeOK, NEW t \in Target, SinkOK(t),
         \/ \E k \in Key : Press(k) \/ LetGo(k)
         \/ Serve
         \/ \E u \in Target : Meddle(u) \/ Rebind(u)
  PROVE  SinkOK(t)'
<1>1. UNCHANGED sinkVars /\ UNCHANGED todo
  BY DEF Press, LetGo, Serve, Meddle, Rebind
<1>2. QED
  BY <1>1 DEF sinkVars, SinkOK, Lifting, Rising, Runs, Idle, Next1

LEMMA TargetSteps ==
  ASSUME TypeOK, NEW t \in Target, SinkOK(t), NEW u \in Target, u # t,
         \/ Handle(u) \/ TrackPressed(u) \/ Inject(u) \/ SetAuthorizedController(u)
         \/ ReleasePeer(u) \/ Close(u) \/ Unbind(u)
         \/ \E th \in {Lease(u), Gone(u)} : ReleaseEntry(u, th)
  PROVE  SinkOK(t)'
<1>1. auth'[t] = auth[t] /\ pressed'[t] = pressed[t] /\ os'[t] = os[t]
  BY DEF Handle, TrackPressed, Inject, SetAuthorizedController, ReleasePeer, Close, Unbind,
         ReleaseEntry, sinkVars, TypeOK
<1>2. PICK th \in {Input(u), Lease(u), Gone(u)} :
        \E steps : \/ Starts(th, steps) \/ Continues(th, steps)
                   \/ todo' = [todo EXCEPT ![th] = steps]
  BY DEF Handle, TrackPressed, Inject, SetAuthorizedController, ReleasePeer, Close, Unbind,
         ReleaseEntry
<1>3. QED
  BY <1>1, <1>2, OtherTarget

LEMMA HandlesEvent ==
  ASSUME TypeOK, NEW t \in Target, SinkOK(t), Handle(t)
  PROVE  SinkOK(t)'
<1> DEFINE e == Head(link[t])
<1>1. e \in Event
  BY DEF Handle, TypeOK
<1>2. Input(t) \in Thread
  BY ThreadNames
<1>3. PICK steps : Starts(Input(t), steps)
  BY DEF Handle
<1>4. /\ Lifting(Lease(t))' = Lifting(Lease(t)) /\ Lifting(Gone(t))' = Lifting(Gone(t))
      /\ todo[Input(t)] = <<>>
  BY <1>3, OtherLifting DEF Starts, Idle
<1>5. \/ auth[t] = Me /\ todo'[Input(t)] = <<Do("note", e, t), Do("inject", e, t)>>
      \/ todo'[Input(t)] = <<>>
  BY <1>2 DEF Handle, Starts, TypeOK
<1>6. auth'[t] = auth[t] /\ pressed'[t] = pressed[t] /\ os'[t] = os[t]
  BY DEF Handle, sinkVars
<1>7. Rising(t) = {}
  BY <1>4, HandlerSteps DEF Rising, Up, Event
<1>8. \A k \in Key : todo'[Input(t)] # <<Do("inject", Down(k), t)>>
  <2>1. \A k \in Key : Down(k) \in Event
    BY DEF Down, Event
  <2> HIDE DEF e
  <2>2. CASE todo'[Input(t)] = <<Do("note", e, t), Do("inject", e, t)>>
    BY <1>1, <2>1, <2>2, SameEvent
  <2>3. CASE todo'[Input(t)] = <<>>
    BY <2>1, <2>3, HandlerSteps
  <2>4. QED
    BY <1>5, <2>2, <2>3
<1>9. os'[t] \subseteq pressed'[t] \cup Lifting(Lease(t))' \cup Lifting(Gone(t))'
  BY <1>4, <1>6, <1>7 DEF SinkOK
<1> HIDE DEF e
<1>10. QED
  BY <1>1, <1>5, <1>6, <1>8, <1>9 DEF SinkOK, Idle

LEMMA ClosesConnection ==
  ASSUME TypeOK, NEW t \in Target, SinkOK(t), Close(t) \/ Unbind(t)
  PROVE  SinkOK(t)'
<1>1. Lease(t) \in Thread /\ Input(t) \in Thread /\ Gone(t) \in Thread
  BY ThreadNames
<1>2. Gone(t) # Input(t) /\ Lease(t) # Gone(t)
  BY ThreadsDiffer
<1>3. PICK steps : \/ Starts(Gone(t), steps) \/ Continues(Gone(t), steps)
                   \/ todo' = [todo EXCEPT ![Gone(t)] = steps]
  BY DEF Close, Unbind
<1>4. todo'[Input(t)] = todo[Input(t)] /\ todo'[Lease(t)] = todo[Lease(t)]
  BY <1>1, <1>2, <1>3, OneThread
<1>5. Lifting(Lease(t))' = Lifting(Lease(t))
  BY <1>4, SameLifting
<1>6. Lifting(Gone(t)) = {}
  BY DEF Close, Unbind, Starts, Lifting, Runs
<1>7. auth'[t] = auth[t] /\ pressed'[t] = pressed[t] /\ os'[t] = os[t]
  BY DEF Close, Unbind, sinkVars
<1>8. QED
  BY <1>4, <1>5, <1>6, <1>7, Untouched

LEMMA SinkStep ==
  ASSUME TypeOK, SinkInv, Next
  PROVE  SinkInv'
<1> SUFFICES ASSUME "sink" \notin races', NEW t \in Target
             PROVE  SinkOK(t)'
  BY DEF SinkInv
<1>1. SinkOK(t)
  BY RacesRemain DEF SinkInv
<1>2. CASE \/ Route \/ SendEvent \/ TrackRemotePressed \/ ClearTarget \/ OnAnswer
           \/ \E th \in Steering : Swap(th) \/ ReleaseKey(th) \/ SendAsk(th)
           \/ \E u \in Target : RequestTarget(u) \/ Break(u) \/ UnbindTarget(u) \/ OnPeerUnbound(u)
  BY <1>1, <1>2, ControllerSteps
<1>3. CASE \/ \E k \in Key : Press(k) \/ LetGo(k)
           \/ Serve
           \/ \E u \in Target : Meddle(u) \/ Rebind(u)
  BY <1>1, <1>3, OutsideSteps
<1>4. ASSUME NEW u \in Target,
             \/ Handle(u) \/ TrackPressed(u) \/ Inject(u) \/ SetAuthorizedController(u)
             \/ ReleasePeer(u) \/ Close(u) \/ Unbind(u)
             \/ \E th \in {Lease(u), Gone(u)} : ReleaseEntry(u, th)
      PROVE  SinkOK(t)'
  <2>1. CASE u # t
    BY <1>1, <1>4, <2>1, TargetSteps
  <2>2. CASE u = t
    BY <1>1, <1>4, <2>2, HandlesEvent, TracksEvent, InjectsEvent, ReleasesController,
       ReleasesPeer, ClosesConnection, ReleasesEntry
  <2>3. QED
    BY <2>1, <2>2
<1>5. QED
  BY <1>2, <1>3, <1>4 DEF Next, Steering

(***************************************************************************)
(* SinkInv is inductive.                                                   *)
(***************************************************************************)
LEMMA SinkKept == Spec => []SinkInv
<1>1. Init => SinkInv
  <2> SUFFICES ASSUME Init, NEW t \in Target
               PROVE  SinkOK(t)
    BY DEF SinkInv
  <2>1. todo[Input(t)] = <<>> /\ todo[Lease(t)] = <<>> /\ todo[Gone(t)] = <<>>
    BY ThreadNames DEF Init
  <2>2. \A k \in Key : todo[Input(t)] # <<Do("inject", Down(k), t)>>
    BY <2>1, HandlerSteps DEF Down, Event
  <2>3. QED
    BY <2>1, <2>2, InputPathAssumption DEF Init, SinkOK, Idle
<1>2. TypeOK /\ SinkInv /\ [Next]_vars => SinkInv'
  <2> SUFFICES ASSUME TypeOK, SinkInv, [Next]_vars
               PROVE  SinkInv'
    OBVIOUS
  <2>1. CASE UNCHANGED vars
    BY <2>1 DEF vars, sinkVars, SinkInv, SinkOK, Lifting, Rising, Runs, Idle, Next1
  <2>2. QED
    BY <2>1, SinkStep
<1>. QED BY <1>1, <1>2, TypeCorrect, PTL DEF Spec

(***************************************************************************)
(* The sink's safety net, for any targets, keys and bounds: when every     *)
(* thread is idle no release is pending.                                   *)
(***************************************************************************)
THEOREM SinkAlwaysReleases == Spec => []SinkReleases
<1>1. SinkInv => SinkReleases
  <2> SUFFICES ASSUME SinkInv, Quiet, "sink" \notin races, NEW t \in Target
               PROVE  os[t] \subseteq pressed[t] /\ (auth[t] # Me => os[t] = {})
    BY DEF SinkReleases
  <2>1. todo[Input(t)] = <<>> /\ todo[Lease(t)] = <<>> /\ todo[Gone(t)] = <<>>
    BY ThreadNames DEF Quiet, Idle
  <2>2. Lifting(Lease(t)) = {} /\ Lifting(Gone(t)) = {}
    BY <2>1 DEF Lifting, Runs, Idle
  <2>3. Rising(t) = {}
    BY <2>1, HandlerSteps DEF Rising, Up, Event
  <2>4. QED
    BY <2>2, <2>3 DEF SinkInv, SinkOK
<1>. QED BY <1>1, SinkKept, PTL

-----------------------------------------------------------------------------
(***************************************************************************)
(* Which keys stay down at a target, once it has handled what is on its    *)
(* way: those whose last event says so, and those it tracks that no event  *)
(* concerns.                                                               *)
(***************************************************************************)
NoUp(q, k)     == \A j \in 1 .. Len(q) : q[j] # Up(k)
LastDown(q, k) ==
  \E i \in 1 .. Len(q) : q[i] = Down(k) /\ \A j \in 1 .. Len(q) : j > i => q[j] # Up(k)

Notes(t, e)     == todo[Input(t)] = <<Do("note", e, t), Do("inject", e, t)>>
Tracked(t, k)   == Notes(t, Down(k)) \/ (k \in pressed[t] /\ ~Notes(t, Up(k)))
StaysDown(t, k) == LastDown(link[t], k) \/ (NoUp(link[t], k) /\ Tracked(t, k))

(***************************************************************************)
(* As long as nobody has been overtaken, the router's thread works on an   *)
(* event for the target the router is active on, and the user holds a key  *)
(* whose last event in the queue is a press.                               *)
(***************************************************************************)
Sends(e)  == todo[Router] = <<Do("send", e, target)>>
Tracks(e) == todo[Router] = <<Do("track", e, target)>>
HeldOrLetGo(k) == k \in phys \/ ~NoUp(queue, k)

RouterOK == Idle(Router) \/ (state = "active" /\ \E e \in Event : Sends(e) \/ Tracks(e))
QueueOK  == \A k \in Key : LastDown(queue, k) => k \in phys
SendOK   == \A k \in Key : Sends(Down(k)) => HeldOrLetGo(k)
TrackOK  ==
  \A t \in Target, k \in Key :
    target = t /\ Tracks(Up(k)) /\ conn[t] = "up" => ~StaysDown(t, k)

(***************************************************************************)
(* A connection that is closed has nothing on its way, and before another  *)
(* one is bound in its place the keys that came by it are forgotten.       *)
(***************************************************************************)
ConnOK(t) ==
  /\ conn[t] \in {"up", "broken"} => todo[Gone(t)] = <<>>
  /\ conn[t] = "closed" => todo[Gone(t)] = <<Go("unbind", t), Go("forget", t)>>
  /\ conn[t] = "down" =>
       \/ todo[Gone(t)] = <<Go("forget", t)>>
       \/ pressed[t] = {} /\ \E S \in SUBSET Key : todo[Gone(t)] = Lift("lift", S, t)
  /\ conn[t] \in {"closed", "down"} => link[t] = <<>> /\ todo[Input(t)] = <<>>

(***************************************************************************)
(* A key that stays down is about to be released by a thread that has      *)
(* changed the target, or the router is active on the target, has tracked  *)
(* the key or is about to, and the user holds it, or its release waits.    *)
(***************************************************************************)
Releasing(t, k) ==
  \E th \in Steering : Runs(th, "release") /\ Next1(th).target = t /\ k \in Next1(th).keys

Reaches(t, k) ==
  /\ state = "active" /\ target = t
  /\ k \in sent \/ Tracks(Down(k))
  /\ HeldOrLetGo(k) \/ Sends(Up(k))

DownOK(t) == conn[t] = "up" => \A k \in Key : StaysDown(t, k) => Releasing(t, k) \/ Reaches(t, k)

HeldOK  == RouterOK /\ QueueOK /\ SendOK /\ TrackOK /\ \A t \in Target : ConnOK(t) /\ DownOK(t)
HeldInv == races = {} => HeldOK

LEMMA EventsDiffer ==
  \A k, m : /\ Down(k) # Up(m)
            /\ (Down(k) = Down(m) => k = m) /\ (Up(k) = Up(m) => k = m)
            /\ Down(k)[1] = "down" /\ Down(k)[2] = k /\ Up(k)[1] = "up" /\ Up(k)[2] = k
BY DEF Down, Up

LEMMA KeyEvents == \A k \in Key : Down(k) \in Event /\ Up(k) \in Event
BY DEF Event, Down, Up

(***************************************************************************)
(* Taking the first event of a queue, and adding one.                      *)
(***************************************************************************)
LEMMA AfterTail ==
  ASSUME NEW q \in Seq(Event), q # <<>>, NEW k
  PROVE  /\ LastDown(Tail(q), k) => LastDown(q, k)
         /\ NoUp(Tail(q), k) => NoUp(q, k) \/ Head(q) = Up(k)
         /\ NoUp(Tail(q), k) /\ Head(q) = Down(k) => LastDown(q, k)
<1>1. /\ Len(q) \in Nat \ {0} /\ Len(Tail(q)) = Len(q) - 1 /\ Head(q) = q[1]
      /\ \A i \in 1 .. Len(Tail(q)) : Tail(q)[i] = q[i + 1]
  BY EmptySeq
<1>2. ASSUME LastDown(Tail(q), k)
      PROVE  LastDown(q, k)
  <2>1. PICK i \in 1 .. Len(Tail(q)) :
               Tail(q)[i] = Down(k) /\ \A j \in 1 .. Len(Tail(q)) : j > i => Tail(q)[j] # Up(k)
    BY <1>2 DEF LastDown
  <2>2. i + 1 \in 1 .. Len(q) /\ q[i + 1] = Down(k)
    BY <1>1, <2>1
  <2>3. ASSUME NEW j \in 1 .. Len(q), j > i + 1
        PROVE  q[j] # Up(k)
    <3>1. j - 1 \in 1 .. Len(Tail(q)) /\ j - 1 > i /\ (j - 1) + 1 = j
      BY <1>1, <2>1, <2>3
    <3>. QED BY <1>1, <2>1, <3>1
  <2>. QED BY <2>2, <2>3 DEF LastDown
<1>3. ASSUME NoUp(Tail(q), k), NEW j \in 1 .. Len(q), j > 1
      PROVE  q[j] # Up(k)
  <2>1. j - 1 \in 1 .. Len(Tail(q)) /\ (j - 1) + 1 = j
    BY <1>1, <1>3
  <2>. QED BY <1>1, <1>3, <2>1 DEF NoUp
<1>4. NoUp(Tail(q), k) => NoUp(q, k) \/ Head(q) = Up(k)
  <2>. SUFFICES ASSUME NoUp(Tail(q), k), Head(q) # Up(k), NEW j \in 1 .. Len(q)
                PROVE  q[j] # Up(k)
    BY DEF NoUp
  <2>. QED BY <1>1, <1>3
<1>5. NoUp(Tail(q), k) /\ Head(q) = Down(k) => LastDown(q, k)
  <2>. SUFFICES ASSUME NoUp(Tail(q), k), Head(q) = Down(k)
                PROVE  LastDown(q, k)
    OBVIOUS
  <2>1. 1 \in 1 .. Len(q) /\ q[1] = Down(k)
    BY <1>1
  <2>. QED BY <1>3, <2>1 DEF LastDown
<1>. QED BY <1>2, <1>4, <1>5

LEMMA AfterAppend ==
  ASSUME NEW q \in Seq(Event), NEW e \in Event, NEW k
  PROVE  /\ NoUp(Append(q, e), k) => NoUp(q, k) /\ e # Up(k)
         /\ LastDown(Append(q, e), k) => e # Up(k) /\ (LastDown(q, k) \/ e = Down(k))
<1>1. /\ Len(q) \in Nat /\ Len(Append(q, e)) = Len(q) + 1 /\ Append(q, e)[Len(q) + 1] = e
      /\ \A i \in 1 .. Len(q) : Append(q, e)[i] = q[i]
  OBVIOUS
<1>2. NoUp(Append(q, e), k) => NoUp(q, k) /\ e # Up(k)
  BY <1>1 DEF NoUp
<1>3. ASSUME LastDown(Append(q, e), k)
      PROVE  e # Up(k) /\ (LastDown(q, k) \/ e = Down(k))
  <2>1. PICK i \in 1 .. Len(q) + 1 :
               /\ Append(q, e)[i] = Down(k)
               /\ \A j \in 1 .. Len(q) + 1 : j > i => Append(q, e)[j] # Up(k)
    BY <1>1, <1>3 DEF LastDown
  <2>2. CASE i = Len(q) + 1
    BY <1>1, <2>1, <2>2, EventsDiffer
  <2>3. CASE i # Len(q) + 1
    <3>1. i \in 1 .. Len(q) /\ Len(q) + 1 > i /\ Len(q) + 1 \in 1 .. Len(q) + 1
      BY <1>1, <2>1, <2>3
    <3>2. e # Up(k)
      BY <1>1, <2>1, <3>1
    <3>3. q[i] = Down(k) /\ \A j \in 1 .. Len(q) : j > i => q[j] # Up(k)
      BY <1>1, <2>1, <3>1
    <3>. QED BY <3>1, <3>2, <3>3 DEF LastDown
  <2>. QED BY <2>2, <2>3
<1>. QED BY <1>2, <1>3

(***************************************************************************)
(* What a thread has to do after a step of its own.                        *)
(***************************************************************************)
LEMMA ThisThread ==
  ASSUME TypeOK, NEW th \in Thread, NEW steps
  PROVE  /\ Starts(th, steps) => todo[th] = <<>> /\ todo'[th] = steps
         /\ Continues(th, steps) => todo'[th] = steps \o Tail(todo[th])
         /\ todo' = [todo EXCEPT ![th] = steps] => todo'[th] = steps
BY DEF TypeOK, Starts, Continues, Idle

LEMMA TargetSame ==
  ASSUME NEW t \in Target,
         link'[t] = link[t], pressed'[t] = pressed[t], conn'[t] = conn[t],
         todo'[Input(t)] = todo[Input(t)], todo'[Gone(t)] = todo[Gone(t)]
  PROVE  /\ ConnOK(t) => ConnOK(t)'
         /\ \A k \in Key : StaysDown(t, k)' <=> StaysDown(t, k)
<1>1. ConnOK(t) => ConnOK(t)'
  BY DEF ConnOK
<1>2. ASSUME NEW k \in Key
      PROVE  StaysDown(t, k)' <=> StaysDown(t, k)
  BY DEF StaysDown, Tracked, Notes
<1>. QED BY <1>1, <1>2

(***************************************************************************)
(* Steps that leave the user, the queue and the router alone, and after    *)
(* which no key stays down that did not.                                   *)
(***************************************************************************)
LEMMA Preserved ==
  ASSUME HeldOK, UNCHANGED <<phys, queue, state, target, sent>>, todo'[Router] = todo[Router],
         \A t \in Target : ConnOK(t)',
         \A t \in Target, k \in Key :
           conn'[t] = "up" /\ StaysDown(t, k)' =>
             conn[t] = "up" /\ StaysDown(t, k) /\ (Releasing(t, k) => Releasing(t, k)')
  PROVE  HeldOK'
<1>1. RouterOK' /\ QueueOK' /\ SendOK'
  BY DEF HeldOK, RouterOK, QueueOK, SendOK, HeldOrLetGo, Sends, Tracks, Idle
<1>2. TrackOK'
  BY DEF HeldOK, TrackOK, Tracks
<1>3. ASSUME NEW t \in Target
      PROVE  DownOK(t)'
  <2>. SUFFICES ASSUME conn'[t] = "up", NEW k \in Key, StaysDown(t, k)'
                PROVE  Releasing(t, k)' \/ Reaches(t, k)'
    BY DEF DownOK
  <2>1. Releasing(t, k)' \/ Reaches(t, k)
    BY DEF HeldOK, DownOK
  <2>2. Reaches(t, k) => Reaches(t, k)'
    BY DEF Reaches, HeldOrLetGo, Sends, Tracks
  <2>. QED BY <2>1, <2>2
<1>. QED BY <1>1, <1>2, <1>3 DEF HeldOK

(***************************************************************************)
(* A step of a thread that changes the router's target, while it does not  *)
(* release keys.                                                           *)
(***************************************************************************)
LEMMA SteeringNames ==
  /\ Router \notin Steering
  /\ \A th \in Steering, t \in Target : th \notin {Input(t), Gone(t)}
BY ThreadsDiffer DEF Steering, Router, Window, Client, Lost

LEMMA StillReleasing ==
  ASSUME NEW t, NEW k, NEW th, ~Runs(th, "release"),
         \A o \in Steering : o # th => todo'[o] = todo[o],
         Releasing(t, k)
  PROVE  Releasing(t, k)'
<1>1. PICK o \in Steering : Runs(o, "release") /\ Next1(o).target = t /\ k \in Next1(o).keys
  BY DEF Releasing
<1>2. todo'[o] = todo[o]
  BY <1>1
<1>3. Runs(o, "release")' /\ Next1(o)' = Next1(o)
  BY <1>1, <1>2 DEF Runs, Idle, Next1
<1>. QED BY <1>1, <1>3 DEF Releasing

LEMMA SteersOn ==
  ASSUME TypeOK, HeldOK, NEW th \in Steering, NEW steps, ~Runs(th, "release"),
         \/ Starts(th, steps) \/ Continues(th, steps)
         \/ todo' = [todo EXCEPT ![th] = steps],
         UNCHANGED <<phys, queue, state, target, sent, link, pressed, conn>>
  PROVE  HeldOK'
<1>1. th \in Thread /\ Router \in Thread
  BY ThreadNames
<1>2. \A o \in Thread : o # th => todo'[o] = todo[o]
  BY <1>1, OneThread
<1>3. todo'[Router] = todo[Router]
  BY <1>1, <1>2, SteeringNames
<1>4. ASSUME NEW t \in Target
      PROVE  ConnOK(t)' /\ \A k \in Key : StaysDown(t, k)' <=> StaysDown(t, k)
  <2>1. todo'[Input(t)] = todo[Input(t)] /\ todo'[Gone(t)] = todo[Gone(t)]
    BY <1>2, SteeringNames, ThreadNames
  <2>2. ConnOK(t)
    BY DEF HeldOK
  <2>. QED BY <2>1, <2>2, TargetSame
<1>5. ASSUME NEW t \in Target, NEW k \in Key, Releasing(t, k)
      PROVE  Releasing(t, k)'
  BY <1>2, <1>5, StillReleasing, ThreadNames
<1>. QED BY <1>3, <1>4, <1>5, Preserved

(***************************************************************************)
(* A step that concerns one target.                                        *)
(***************************************************************************)
LEMMA OnlyAt ==
  ASSUME TypeOK, HeldOK, NEW t \in Target, NEW th \in Thread, th # Router,
         th \notin Steering \/ ~Runs(th, "release"),
         \A o \in Thread : o # th => todo'[o] = todo[o],
         \A u \in Target : u # t => /\ th \notin {Input(u), Gone(u)}
                                    /\ link'[u] = link[u] /\ pressed'[u] = pressed[u]
                                    /\ conn'[u] = conn[u],
         UNCHANGED <<phys, queue, state, target, sent>>,
         ConnOK(t)',
         \A k \in Key : conn'[t] = "up" /\ StaysDown(t, k)' => conn[t] = "up" /\ StaysDown(t, k)
  PROVE  HeldOK'
<1>1. todo'[Router] = todo[Router]
  BY ThreadNames
<1>2. ASSUME NEW u \in Target, u # t
      PROVE  ConnOK(u)' /\ \A k \in Key : StaysDown(u, k)' <=> StaysDown(u, k)
  <2>1. todo'[Input(u)] = todo[Input(u)] /\ todo'[Gone(u)] = todo[Gone(u)]
    BY <1>2, ThreadNames
  <2>2. ConnOK(u)
    BY DEF HeldOK
  <2>. QED BY <1>2, <2>1, <2>2, TargetSame
<1>3. ASSUME NEW u \in Target, NEW k \in Key, Releasing(u, k)
      PROVE  Releasing(u, k)'
  <2>1. CASE th \in Steering
    BY <1>3, <2>1, StillReleasing, ThreadNames
  <2>2. CASE th \notin Steering
    <3>1. \A o \in Steering : todo'[o] = todo[o]
      BY <2>2, ThreadNames
    <3>. QED BY <1>3, <3>1 DEF Releasing, Runs, Idle, Next1
  <2>. QED BY <2>1, <2>2
<1>4. ASSUME NEW u \in Target, NEW k \in Key, conn'[u] = "up", StaysDown(u, k)'
      PROVE  conn[u] = "up" /\ StaysDown(u, k)
  BY <1>2, <1>4
<1>5. \A u \in Target : ConnOK(u)'
  BY <1>2
<1>. QED BY <1>1, <1>3, <1>4, <1>5, Preserved

LEMMA RouterWorks ==
  ASSUME TypeOK, NEW steps,
         Starts(Router, steps) \/ Continues(Router, steps) \/ UNCHANGED todo
  PROVE  /\ \A t \in Target : todo'[Input(t)] = todo[Input(t)] /\ todo'[Gone(t)] = todo[Gone(t)]
         /\ \A t, k : Releasing(t, k) => Releasing(t, k)'
<1>1. \A o \in Thread : o # Router => todo'[o] = todo[o]
  BY OneThread, ThreadNames
<1>2. \A t \in Target : Input(t) \in Thread \ {Router} /\ Gone(t) \in Thread \ {Router}
  BY ThreadNames, ThreadsDiffer
<1>3. \A o \in Steering : todo'[o] = todo[o]
  BY <1>1, ThreadNames, SteeringNames
<1>4. ASSUME NEW t, NEW k, Releasing(t, k)
      PROVE  Releasing(t, k)'
  BY <1>3, <1>4 DEF Releasing, Runs, Idle, Next1
<1>. QED BY <1>1, <1>2, <1>4

(***************************************************************************)
(* The user's keyboard: a release waits until it has been routed.          *)
(***************************************************************************)
LEMMA KeyboardHeld ==
  ASSUME TypeOK, HeldOK, NEW k \in Key, Press(k) \/ LetGo(k)
  PROVE  HeldOK'
<1>1. UNCHANGED <<state, target, sent, link, pressed, conn, todo>>
  BY DEF Press, LetGo, routeVars, sinkVars
<1>2. queue \in Seq(Event) /\ Down(k) \in Event /\ Up(k) \in Event
  BY KeyEvents DEF TypeOK
<1>3. \/ phys' = phys \cup {k} /\ queue' = Append(queue, Down(k))
      \/ phys' = phys \ {k} /\ queue' = Append(queue, Up(k))
  BY DEF Press, LetGo
<1>4. ASSUME NEW m \in Key, LastDown(queue', m)
      PROVE  m \in phys'
  <2>1. LastDown(queue, m) => m \in phys
    BY DEF HeldOK, QueueOK
  <2>2. CASE phys' = phys \cup {k} /\ queue' = Append(queue, Down(k))
    <3>1. LastDown(queue, m) \/ Down(k) = Down(m)
      BY <1>2, <1>4, <2>2, AfterAppend
    <3>. QED BY <2>1, <2>2, <3>1, EventsDiffer
  <2>3. CASE phys' = phys \ {k} /\ queue' = Append(queue, Up(k))
    <3>1. Up(k) # Up(m) /\ (LastDown(queue, m) \/ Up(k) = Down(m))
      BY <1>2, <1>4, <2>3, AfterAppend
    <3>. QED BY <2>1, <2>3, <3>1, EventsDiffer
  <2>. QED BY <1>3, <2>2, <2>3
<1>5. ASSUME NEW m \in Key, HeldOrLetGo(m)
      PROVE  m \in phys' \/ ~NoUp(queue', m)
  <2>1. CASE phys' = phys \cup {k} /\ queue' = Append(queue, Down(k))
    BY <1>2, <1>5, <2>1, AfterAppend DEF HeldOrLetGo
  <2>2. CASE phys' = phys \ {k} /\ queue' = Append(queue, Up(k))
    BY <1>2, <1>5, <2>2, AfterAppend DEF HeldOrLetGo
  <2>. QED BY <1>3, <2>1, <2>2
<1>6. RouterOK' /\ QueueOK' /\ SendOK'
  <2>1. RouterOK'
    BY <1>1 DEF HeldOK, RouterOK, Idle, Sends, Tracks
  <2>2. QueueOK'
    BY <1>4 DEF QueueOK
  <2>3. SendOK'
    BY <1>1, <1>5 DEF HeldOK, SendOK, Sends, HeldOrLetGo
  <2>. QED BY <2>1, <2>2, <2>3
<1>7. ASSUME NEW t \in Target
      PROVE  ConnOK(t)' /\ DownOK(t)' /\ \A m \in Key : StaysDown(t, m)' <=> StaysDown(t, m)
  <2>1. ConnOK(t)' /\ \A m \in Key : StaysDown(t, m)' <=> StaysDown(t, m)
    BY <1>1, TargetSame DEF HeldOK
  <2>2. ASSUME NEW m \in Key, conn'[t] = "up", StaysDown(t, m)'
        PROVE  Releasing(t, m)' \/ Reaches(t, m)'
    <3>1. Releasing(t, m) \/ Reaches(t, m)
      BY <1>1, <2>1, <2>2 DEF HeldOK, DownOK
    <3>2. Releasing(t, m) => Releasing(t, m)'
      BY <1>1 DEF Releasing, Runs, Idle, Next1
    <3>3. Reaches(t, m) => Reaches(t, m)'
      BY <1>1, <1>5 DEF Reaches, Tracks, Sends, HeldOrLetGo
    <3>. QED BY <3>1, <3>2, <3>3
  <2>. QED BY <2>1, <2>2 DEF DownOK
<1>8. TrackOK'
  BY <1>1, <1>7 DEF HeldOK, TrackOK, Tracks
<1>. QED BY <1>6, <1>7, <1>8 DEF HeldOK

(***************************************************************************)
(* The router takes an event from the queue: if it is the release of a key *)
(* that reaches the target, it is the event that is sent next.             *)
(***************************************************************************)
LEMMA RouteHeld ==
  ASSUME TypeOK, HeldOK, Route
  PROVE  HeldOK'
<1>1. UNCHANGED <<phys, state, target, sent, link, pressed, conn>>
  BY DEF Route, routeVars, sinkVars
<1>2. queue \in Seq(Event) /\ queue # <<>> /\ queue' = Tail(queue) /\ Head(queue) \in Event
  BY DEF Route, TypeOK
<1>0. PICK e \in Event : e = Head(queue)
  BY <1>2
<1>3. /\ todo[Router] = <<>>
      /\ state = "active" => todo'[Router] = <<Do("send", e, target)>>
      /\ state # "active" => todo'[Router] = <<>>
  BY <1>0, ThisThread, ThreadNames DEF Route
<1>4. \A d : ~Sends(d) /\ ~Tracks(d)
  BY <1>3 DEF Sends, Tracks
<1>5. /\ \A d : ~Tracks(d)' /\ (Sends(d)' => d = e)
      /\ state = "active" => Sends(e)'
  BY <1>1, <1>3 DEF Sends, Tracks, Do
<1>6. \A t \in Target : /\ ConnOK(t)' /\ \A k \in Key : StaysDown(t, k)' <=> StaysDown(t, k)
                        /\ \A k : Releasing(t, k) => Releasing(t, k)'
  <2>1. PICK steps : Starts(Router, steps)
    BY DEF Route
  <2>. QED BY <1>1, <2>1, RouterWorks, TargetSame DEF HeldOK
<1>7. ASSUME NEW k \in Key
      PROVE  /\ LastDown(queue', k) => LastDown(queue, k)
             /\ HeldOrLetGo(k) => k \in phys' \/ ~NoUp(queue', k) \/ e = Up(k)
             /\ e = Down(k) => k \in phys' \/ ~NoUp(queue', k)
  BY <1>0, <1>1, <1>2, AfterTail DEF HeldOrLetGo, HeldOK, QueueOK
<1>8. RouterOK'
  BY <1>1, <1>3, <1>5 DEF RouterOK, Idle
<1>9. QueueOK'
  BY <1>1, <1>7 DEF HeldOK, QueueOK
<1>10. SendOK'
  <2>. SUFFICES ASSUME NEW k \in Key, Sends(Down(k))'
                PROVE  HeldOrLetGo(k)'
    BY DEF SendOK
  <2>1. e = Down(k)
    BY <1>5
  <2>. QED BY <1>7, <2>1 DEF HeldOrLetGo
<1>11. TrackOK'
  BY <1>5 DEF TrackOK
<1>12. ASSUME NEW t \in Target, conn'[t] = "up", NEW k \in Key, StaysDown(t, k)'
       PROVE  Releasing(t, k)' \/ Reaches(t, k)'
  <2>1. Releasing(t, k) \/ Reaches(t, k)
    BY <1>1, <1>6, <1>12 DEF HeldOK, DownOK
  <2>2. ASSUME Reaches(t, k)
        PROVE  Reaches(t, k)'
    <3>1. state = "active" /\ target = t /\ k \in sent /\ HeldOrLetGo(k)
      BY <1>4, <2>2 DEF Reaches
    <3>2. HeldOrLetGo(k)' \/ Sends(Up(k))'
      BY <1>5, <1>7, <3>1 DEF HeldOrLetGo
    <3>. QED BY <1>1, <3>1, <3>2 DEF Reaches
  <2>. QED BY <1>6, <2>1, <2>2
<1>. QED BY <1>6, <1>8, <1>9, <1>10, <1>11, <1>12 DEF HeldOK, DownOK

(***************************************************************************)
(* An event that is sent is the last one on its way: a press is tracked    *)
(* next, and after a release the key does not stay down.                   *)
(***************************************************************************)
LEMMA SendHeld ==
  ASSUME TypeOK, HeldOK, SendEvent
  PROVE  HeldOK'
<1>1. UNCHANGED <<phys, queue, state, target, sent, pressed, conn>> /\ Runs(Router, "send")
  BY DEF SendEvent, userVars, routeVars, sinkVars
<1>2. PICK e \in Event : Sends(e) /\ state = "active"
  <2>1. todo[Router] # <<>> /\ Next1(Router).do = "send"
    BY <1>1 DEF Runs, Idle
  <2>2. PICK e \in Event : Sends(e) \/ Tracks(e)
    BY <2>1 DEF HeldOK, RouterOK, Idle
  <2>3. ~Tracks(e)
    BY <2>1 DEF Tracks, Next1, Do
  <2>. QED BY <2>1, <2>2, <2>3 DEF HeldOK, RouterOK, Idle
<1>3. target \in Target /\ link[target] \in Seq(Event) /\ todo[Router] # <<>>
  BY <1>2 DEF TypeOK, Sends
<1>4. PICK t \in Target : t = target
  BY <1>3
<1>5. /\ Next1(Router) = Do("send", e, t) /\ Tail(todo[Router]) = <<>>
      /\ Next1(Router).event = e /\ Next1(Router).target = t
  BY <1>2, <1>4 DEF Sends, Next1, Do
<1>6. \/ conn[t] = "up" /\ link' = [link EXCEPT ![t] = Append(@, e)] /\ Tracks(e)'
      \/ conn[t] # "up" /\ link' = link /\ todo'[Router] = <<>>
  <2>1. \/ /\ conn[t] = "up" /\ link' = [link EXCEPT ![t] = Append(@, e)]
           /\ Continues(Router, <<Do("track", e, t)>>)
        \/ conn[t] # "up" /\ link' = link /\ Continues(Router, <<>>)
    BY <1>5 DEF SendEvent
  <2>2. CASE Continues(Router, <<Do("track", e, t)>>)
    <3>1. todo'[Router] = <<Do("track", e, t)>> \o <<>>
      BY <1>5, <2>2, ThisThread, ThreadNames
    <3>2. PICK x : x = Do("track", e, t)
      OBVIOUS
    <3>3. x \in Step
      BY <3>2, StepTypes
    <3>4. todo'[Router] = <<x>>
      BY <3>1, <3>2, <3>3
    <3>5. conn[t] = "up" /\ link' = [link EXCEPT ![t] = Append(@, e)]
      <4>1. <<x>> # <<>>
        OBVIOUS
      <4>2. ~(Continues(Router, <<>>))
        <5>1. Continues(Router, <<>>) => todo'[Router] = <<>> \o <<>>
          BY <1>5, ThisThread, ThreadNames
        <5>. QED BY <3>4, <4>1, <5>1
      <4>. QED BY <2>1, <4>2
    <3>. QED BY <1>1, <1>4, <3>2, <3>4, <3>5 DEF Tracks
  <2>3. CASE conn[t] # "up" /\ link' = link /\ Continues(Router, <<>>)
    <3>1. todo'[Router] = <<>> \o <<>>
      BY <1>5, <2>3, ThisThread, ThreadNames
    <3>. QED BY <2>3, <3>1
  <2>. QED BY <2>1, <2>2, <2>3
<1>7. /\ \A u \in Target : todo'[Input(u)] = todo[Input(u)] /\ todo'[Gone(u)] = todo[Gone(u)]
      /\ \A u, k : Releasing(u, k) => Releasing(u, k)'
  <2>1. PICK steps : Continues(Router, steps)
    BY DEF SendEvent
  <2>. QED BY <2>1, RouterWorks
<1>8. /\ \A d : ~Sends(d)'
      /\ \A d : Tracks(d)' => d = e /\ conn[t] = "up" /\ link' = [link EXCEPT ![t] = Append(@, e)]
      /\ \A d : Sends(d) => d = e
      /\ \A d : ~Tracks(d)
  <2>1. Sends(e) /\ \A d : (Sends(d) => d = e) /\ ~Tracks(d)
    BY <1>2 DEF Sends, Tracks, Do
  <2>2. CASE conn[t] = "up" /\ link' = [link EXCEPT ![t] = Append(@, e)] /\ Tracks(e)'
    <3>1. \A d : ~Sends(d)' /\ (Tracks(d)' => d = e)
      BY <2>2 DEF Sends, Tracks, Do
    <3>. QED BY <2>1, <2>2, <3>1
  <2>3. CASE todo'[Router] = <<>>
    <3>1. \A d : ~Sends(d)' /\ ~Tracks(d)'
      BY <2>3 DEF Sends, Tracks
    <3>. QED BY <2>1, <3>1
  <2>. QED BY <1>6, <2>2, <2>3
<1>9. RouterOK'
  BY <1>1, <1>2, <1>6 DEF RouterOK, Idle
<1>10. QueueOK' /\ SendOK'
  BY <1>1, <1>8 DEF HeldOK, QueueOK, SendOK
<1>11. ASSUME NEW u \in Target
       PROVE  ConnOK(u)'
  <2>1. CASE link'[u] = link[u]
    BY <1>1, <1>7, <2>1, TargetSame DEF HeldOK
  <2>2. CASE link'[u] # link[u]
    <3>1. u = t /\ conn[u] = "up"
      BY <1>6, <2>2 DEF TypeOK
    <3>. QED BY <1>1, <1>7, <3>1 DEF HeldOK, ConnOK
  <2>. QED BY <2>1, <2>2
<1>12. ASSUME NEW u \in Target, NEW k \in Key, conn[u] = "up", StaysDown(u, k)'
       PROVE  \/ u = t /\ e = Down(k)
              \/ StaysDown(u, k) /\ (u = t => e # Up(k))
  <2>1. CASE u # t
    <3>1. link'[u] = link[u]
      BY <1>6, <2>1 DEF TypeOK
    <3>. QED BY <1>1, <1>7, <1>12, <2>1, <3>1, TargetSame
  <2>2. CASE u = t
    <3>1. link'[u] = Append(link[u], e) /\ link[u] \in Seq(Event)
      BY <1>6, <1>12, <2>2 DEF TypeOK
    <3>2. LastDown(link'[u], k) \/ (NoUp(link'[u], k) /\ Tracked(u, k))
      BY <1>1, <1>7, <1>12 DEF StaysDown, Tracked, Notes
    <3>. QED BY <2>2, <3>1, <3>2, AfterAppend DEF StaysDown
  <2>. QED BY <2>1, <2>2
<1>13. TrackOK'
  <2>. SUFFICES ASSUME NEW u \in Target, NEW k \in Key, target' = u, Tracks(Up(k))', conn'[u] = "up",
                       StaysDown(u, k)'
                PROVE  FALSE
    BY DEF TrackOK
  <2>1. u = t /\ e = Up(k) /\ conn[u] = "up"
    BY <1>1, <1>4, <1>8
  <2>. QED BY <1>12, <2>1, EventsDiffer
<1>14. ASSUME NEW u \in Target, conn'[u] = "up", NEW k \in Key, StaysDown(u, k)'
       PROVE  Releasing(u, k)' \/ Reaches(u, k)'
  <2>1. CASE u = t /\ e = Down(k)
    <3>1. Tracks(Down(k))'
      BY <1>1, <1>6, <1>14, <2>1
    <3>2. HeldOrLetGo(k)
      BY <1>2, <2>1 DEF HeldOK, SendOK
    <3>. QED BY <1>1, <1>2, <1>4, <2>1, <3>1, <3>2 DEF Reaches, HeldOrLetGo
  <2>2. CASE StaysDown(u, k) /\ (u = t => e # Up(k))
    <3>1. Releasing(u, k) \/ Reaches(u, k)
      BY <1>1, <1>14, <2>2 DEF HeldOK, DownOK
    <3>2. ASSUME Reaches(u, k)
          PROVE  Reaches(u, k)'
      <4>1. u = t /\ k \in sent /\ HeldOrLetGo(k)
        BY <1>4, <1>8, <2>2, <3>2 DEF Reaches
      <4>. QED BY <1>1, <3>2, <4>1 DEF Reaches, HeldOrLetGo
    <3>. QED BY <1>7, <3>1, <3>2
  <2>. QED BY <1>1, <1>12, <1>14, <2>1, <2>2
<1>. QED BY <1>9, <1>10, <1>11, <1>13, <1>14 DEF HeldOK, DownOK

(***************************************************************************)
(* A key that is no longer tracked was released, and is not down.          *)
(***************************************************************************)
LEMMA TrackHeld ==
  ASSUME TypeOK, HeldOK, TrackRemotePressed
  PROVE  HeldOK'
<1>1. /\ UNCHANGED <<phys, queue, state, target, link, pressed, conn>>
      /\ Runs(Router, "track")
  BY DEF TrackRemotePressed, userVars, sinkVars
<1>2. PICK e \in Event : Tracks(e)
  <2>1. todo[Router] # <<>> /\ Next1(Router).do = "track"
    BY <1>1 DEF Runs, Idle
  <2>2. PICK e \in Event : Sends(e) \/ Tracks(e)
    BY <2>1 DEF HeldOK, RouterOK, Idle
  <2>3. ~Sends(e)
    BY <2>1 DEF Sends, Next1, Do
  <2>. QED BY <2>2, <2>3
<1>3. Next1(Router).event = e /\ Tail(todo[Router]) = <<>>
  BY <1>2 DEF Tracks, Next1, Do
<1>4. sent' = Change(sent, e) /\ todo'[Router] = <<>>
  <2>1. todo'[Router] = <<>> \o <<>>
    BY <1>3, ThisThread, ThreadNames DEF TrackRemotePressed
  <2>. QED BY <1>3, <2>1 DEF TrackRemotePressed
<1>5. /\ \A d : ~Sends(d)' /\ ~Tracks(d)'
      /\ \A d : ~Sends(d) /\ (Tracks(d) => d = e)
  BY <1>2, <1>4 DEF Sends, Tracks, Do
<1>6. \A t \in Target : /\ ConnOK(t)' /\ \A k \in Key : StaysDown(t, k)' <=> StaysDown(t, k)
                        /\ \A k : Releasing(t, k) => Releasing(t, k)'
  BY <1>1, RouterWorks, TargetSame DEF HeldOK, TrackRemotePressed
<1>7. RouterOK' /\ QueueOK' /\ SendOK' /\ TrackOK'
  BY <1>1, <1>4, <1>5 DEF HeldOK, RouterOK, QueueOK, SendOK, TrackOK, Idle
<1>8. ASSUME NEW t \in Target, conn'[t] = "up", NEW k \in Key, StaysDown(t, k)'
      PROVE  Releasing(t, k)' \/ Reaches(t, k)'
  <2>1. Releasing(t, k) \/ Reaches(t, k)
    BY <1>1, <1>6, <1>8 DEF HeldOK, DownOK
  <2>2. ASSUME Reaches(t, k)
        PROVE  Reaches(t, k)'
    <3>1. state = "active" /\ target = t /\ (k \in sent \/ e = Down(k)) /\ HeldOrLetGo(k)
      BY <1>5, <2>2 DEF Reaches
    <3>2. e # Up(k)
      BY <1>1, <1>2, <1>6, <1>8, <3>1 DEF HeldOK, TrackOK
    <3>3. k \in sent'
      <4>1. PICK m \in Key : e = Down(m) \/ e = Up(m)
        BY EventKinds
      <4>. QED BY <1>4, <3>1, <3>2, <4>1, EventsDiffer DEF Change
    <3>. QED BY <1>1, <3>1, <3>3 DEF Reaches, HeldOrLetGo
  <2>. QED BY <1>6, <2>1, <2>2
<1>. QED BY <1>6, <1>7, <1>8 DEF HeldOK, DownOK

(***************************************************************************)
(* A router that leaves the target it is active on releases there what it  *)
(* has tracked.                                                            *)
(***************************************************************************)
LEMMA SwapHeld ==
  ASSUME TypeOK, HeldOK, NEW th \in Steering, Swap(th), races' = {}
  PROVE  HeldOK'
<1>1. /\ th \in Thread /\ ~Runs(th, "release")
      /\ UNCHANGED <<phys, queue, link, pressed, conn>>
  BY ThreadNames DEF Swap, Runs, userVars, sinkVars
<1>2. CASE Continues(th, <<>>) /\ UNCHANGED routeVars
  BY <1>1, <1>2, SteersOn DEF routeVars
<1>3. ASSUME NEW steps, Continues(th, steps), sent' = {}, Idle(Router),
             state = "active" => steps = Lift("release", sent, target)
      PROVE  HeldOK'
  <2>1. \A o \in Thread : o # th => todo'[o] = todo[o]
    BY <1>1, <1>3, OneThread
  <2>2. todo'[Router] = <<>> /\ todo[Router] = <<>>
    BY <1>3, <2>1, SteeringNames, ThreadNames DEF Idle
  <2>3. \A e : ~Sends(e) /\ ~Tracks(e) /\ ~Sends(e)' /\ ~Tracks(e)'
    BY <2>2 DEF Sends, Tracks
  <2>4. RouterOK' /\ QueueOK' /\ SendOK' /\ TrackOK'
    BY <1>1, <2>2, <2>3 DEF HeldOK, RouterOK, QueueOK, SendOK, TrackOK, Idle
  <2>5. ASSUME NEW t \in Target
        PROVE  ConnOK(t)' /\ \A k \in Key : StaysDown(t, k)' <=> StaysDown(t, k)
    <3>1. todo'[Input(t)] = todo[Input(t)] /\ todo'[Gone(t)] = todo[Gone(t)]
      BY <2>1, SteeringNames, ThreadNames
    <3>. QED BY <1>1, <3>1, TargetSame DEF HeldOK
  <2>6. ASSUME NEW t \in Target, conn'[t] = "up", NEW k \in Key, StaysDown(t, k)'
        PROVE  Releasing(t, k)'
    <3>1. Releasing(t, k) \/ Reaches(t, k)
      BY <1>1, <2>5, <2>6 DEF HeldOK, DownOK
    <3>2. CASE Releasing(t, k)
      BY <1>1, <2>1, <3>2, StillReleasing, ThreadNames
    <3>3. CASE Reaches(t, k)
      <4> DEFINE s == [do |-> "release", event |-> None, keys |-> sent, target |-> target]
      <4>1. state = "active" /\ target = t /\ k \in sent
        BY <2>3, <3>3 DEF Reaches
      <4>2. steps = <<s>>
        BY <1>3, <4>1 DEF Lift
      <4>3. PICK x : x = s
        OBVIOUS
      <4>4. s \in Step /\ Tail(todo[th]) \in Seq(Step)
        <5>1. ~Idle(th)
          BY DEF Swap, Runs
        <5>2. sent \in SUBSET Key
          BY DEF TypeOK
        <5>. QED BY <1>1, <4>1, <5>1, <5>2, NextStep DEF Step, Steps
      <4>5. todo'[th] = <<x>> \o Tail(todo[th])
        BY <1>1, <1>3, <4>2, <4>3, ThisThread
      <4>6. x \in Step
        BY <4>3, <4>4
      <4>7. todo'[th] # <<>> /\ Head(todo'[th]) = x
        BY <4>4, <4>5, <4>6
      <4>8. x.do = "release" /\ x.target = t /\ k \in x.keys
        BY <4>1, <4>3
      <4>. QED BY <4>7, <4>8 DEF Releasing, Runs, Idle, Next1
    <3>. QED BY <3>1, <3>2, <3>3
  <2>. QED BY <2>4, <2>5, <2>6 DEF HeldOK, DownOK
<1>4. CASE ~(state = Next1(th).do /\ target = Next1(th).target)
  <2> DEFINE s == Next1(th).do
             t == Next1(th).target
             steps == IF state = "active" /\ ~(s = "active" /\ t = target)
                      THEN Lift("release", sent, target) ELSE <<>>
  <2>1. sent' = {} /\ Continues(th, steps) /\ races' = IF Idle(Router) THEN races ELSE races \cup {"router"}
    BY <1>4 DEF Swap
  <2>2. Idle(Router)
    BY <2>1
  <2>3. state = "active" => steps = Lift("release", sent, target)
    BY <1>4
  <2> HIDE DEF steps
  <2>. QED BY <1>3, <2>1, <2>2, <2>3
<1>. QED BY <1>2, <1>4 DEF Swap

(***************************************************************************)
(* A release that is sent is the last event of its key at a connected      *)
(* target.                                                                 *)
(***************************************************************************)
LEMMA ReleaseHeld ==
  ASSUME TypeOK, HeldOK, NEW th \in Steering, ReleaseKey(th)
  PROVE  HeldOK'
<1>1. /\ th \in Thread /\ ~Idle(th) /\ Runs(th, "release")
      /\ UNCHANGED <<phys, queue, state, target, sent, pressed, conn>>
  BY ThreadNames DEF ReleaseKey, Runs, userVars, routeVars, sinkVars
<1>2. PICK S \in SUBSET Key, t \in Target : S = Next1(th).keys /\ t = Next1(th).target
  BY <1>1, NextStep DEF Runs
<1>3. PICK k \in S : /\ IF conn[t] = "up" THEN link' = [link EXCEPT ![t] = Append(@, Up(k))]
                        ELSE UNCHANGED link
                     /\ Continues(th, Lift("release", S \ {k}, t))
  BY <1>2 DEF ReleaseKey
<1>4. \A o \in Thread : o # th => todo'[o] = todo[o]
  BY <1>1, <1>3, OneThread
<1>5. todo'[Router] = todo[Router]
  BY <1>4, SteeringNames, ThreadNames
<1>6. \A u \in Target : todo'[Input(u)] = todo[Input(u)] /\ todo'[Gone(u)] = todo[Gone(u)]
  BY <1>4, SteeringNames, ThreadNames
<1>7. ASSUME NEW u \in Target
      PROVE  ConnOK(u)'
  <2>1. CASE link'[u] = link[u]
    BY <1>1, <1>6, <2>1, TargetSame DEF HeldOK
  <2>2. CASE link'[u] # link[u]
    <3>1. u = t /\ conn[u] = "up"
      BY <1>3, <2>2 DEF TypeOK
    <3>. QED BY <1>1, <1>6, <3>1 DEF HeldOK, ConnOK
  <2>. QED BY <2>1, <2>2
<1>8. ASSUME NEW u \in Target, NEW m \in Key, conn'[u] = "up", StaysDown(u, m)'
      PROVE  StaysDown(u, m) /\ ~(u = t /\ m = k)
  <2>1. CASE u # t
    <3>1. link'[u] = link[u]
      BY <1>3, <2>1 DEF TypeOK
    <3>. QED BY <1>1, <1>6, <1>8, <2>1, <3>1, TargetSame
  <2>2. CASE u = t
    <3>1. link'[u] = Append(link[u], Up(k)) /\ link[u] \in Seq(Event) /\ Up(k) \in Event
      <4>1. k \in Key
        BY <1>2, <1>3
      <4>. QED BY <1>1, <1>3, <1>8, <2>2, <4>1, KeyEvents DEF TypeOK
    <3>2. LastDown(link'[u], m) \/ (NoUp(link'[u], m) /\ Tracked(u, m))
      BY <1>1, <1>6, <1>8 DEF StaysDown, Tracked, Notes
    <3>. QED BY <2>2, <3>1, <3>2, AfterAppend, EventsDiffer DEF StaysDown
  <2>. QED BY <2>1, <2>2
<1>9. ASSUME NEW u \in Target, NEW m \in Key, ~(u = t /\ m = k), Releasing(u, m)
      PROVE  Releasing(u, m)'
  <2>1. PICK o \in Steering : Runs(o, "release") /\ Next1(o).target = u /\ m \in Next1(o).keys
    BY <1>9 DEF Releasing
  <2>2. CASE o # th
    <3>1. todo'[o] = todo[o]
      BY <1>4, <2>2, ThreadNames
    <3>. QED BY <2>1, <3>1 DEF Releasing, Runs, Idle, Next1
  <2>3. CASE o = th
    <3> DEFINE s == [do |-> "release", event |-> None, keys |-> S \ {k}, target |-> t]
    <3>1. u = t /\ m \in S \ {k}
      BY <1>2, <1>9, <2>1, <2>3
    <3>2. Lift("release", S \ {k}, t) = <<s>>
      BY <3>1 DEF Lift
    <3>3. PICK x : x = s
      OBVIOUS
    <3>4. x \in Step /\ Tail(todo[th]) \in Seq(Step)
      BY <1>1, <3>3, NextStep DEF Step, Steps
    <3>5. todo'[th] = <<x>> \o Tail(todo[th])
      BY <1>1, <1>3, <3>2, <3>3, ThisThread
    <3>6. todo'[th] # <<>> /\ Head(todo'[th]) = x
      BY <3>4, <3>5
    <3>7. x.do = "release" /\ x.target = u /\ m \in x.keys
      BY <3>1, <3>3
    <3>. QED BY <3>6, <3>7 DEF Releasing, Runs, Idle, Next1
  <2>. QED BY <2>2, <2>3
<1>10. \A u \in Target, m \in Key :
         conn'[u] = "up" /\ StaysDown(u, m)' =>
           conn[u] = "up" /\ StaysDown(u, m) /\ (Releasing(u, m) => Releasing(u, m)')
  BY <1>1, <1>8, <1>9
<1>. QED BY <1>1, <1>5, <1>7, <1>10, Preserved

(***************************************************************************)
(* The other steps of the controller's threads.                            *)
(***************************************************************************)
LEMMA ClientHeld ==
  ASSUME TypeOK, HeldOK,
         \/ ClearTarget \/ OnAnswer
         \/ \E th \in Steering : SendAsk(th)
         \/ \E t \in Target : RequestTarget(t) \/ UnbindTarget(t) \/ OnPeerUnbound(t)
  PROVE  HeldOK'
<1>1. UNCHANGED <<phys, queue, state, target, sent, link, pressed, conn>>
  BY DEF ClearTarget, OnAnswer, SendAsk, RequestTarget, UnbindTarget, OnPeerUnbound, userVars, routeVars,
     sinkVars
<1>2. \E th \in Steering : /\ ~Runs(th, "release")
                          /\ \E steps : \/ Starts(th, steps) \/ Continues(th, steps)
                                       \/ todo' = [todo EXCEPT ![th] = steps]
  <2>1. CASE ClearTarget \/ \E t \in Target : RequestTarget(t)
    <3>1. \E steps : Starts(Window, steps)
      BY <2>1 DEF ClearTarget, RequestTarget
    <3>. QED BY <3>1 DEF Starts, Runs, Steering
  <2>2. CASE OnAnswer
    <3>1. \E steps : Starts(Client, steps)
      BY <2>2 DEF OnAnswer
    <3>. QED BY <3>1 DEF Starts, Runs, Steering
  <2>3. CASE \E th \in Steering : SendAsk(th)
    BY <2>3 DEF SendAsk, Runs
  <2>4. CASE \E t \in Target : UnbindTarget(t) \/ OnPeerUnbound(t)
    <3>1. PICK t \in Target : UnbindTarget(t) \/ OnPeerUnbound(t)
      BY <2>4
    <3>2. Lost(t) \in Steering /\ ~Runs(Lost(t), "release")
      BY <3>1 DEF UnbindTarget, OnPeerUnbound, Runs, Steering
    <3>3. \E steps : \/ Continues(Lost(t), steps)
                     \/ todo' = [todo EXCEPT ![Lost(t)] = steps]
      BY <3>1 DEF UnbindTarget, OnPeerUnbound
    <3>. QED BY <3>2, <3>3
  <2>. QED BY <2>1, <2>2, <2>3, <2>4
<1>. QED BY <1>1, <1>2, SteersOn

-----------------------------------------------------------------------------
(***************************************************************************)
(* A target handles the first event on its way, tracks it and injects it.  *)
(***************************************************************************)
LEMMA TargetNames ==
  ASSUME NEW t \in Target, NEW th \in {Input(t), Lease(t), Gone(t)}
  PROVE  /\ th \in Thread /\ th # Router /\ th \notin Steering
         /\ \A u \in Target : u # t => th \notin {Input(u), Gone(u)}
         /\ Input(t) # Gone(t) /\ Lease(t) \notin {Input(t), Gone(t)}
BY ThreadNames, ThreadsDiffer

LEMMA InputHeld ==
  ASSUME TypeOK, HeldOK, NEW t \in Target, SinkOK(t), Handle(t) \/ TrackPressed(t) \/ Inject(t)
  PROVE  HeldOK'
<1>1. /\ UNCHANGED <<phys, queue, state, target, sent, conn>>
      /\ \A u \in Target : u # t => link'[u] = link[u] /\ pressed'[u] = pressed[u]
  BY DEF Handle, TrackPressed, Inject, userVars, routeVars, sinkVars, TypeOK
<1>2. PICK steps : Starts(Input(t), steps) \/ Continues(Input(t), steps)
  BY DEF Handle, TrackPressed, Inject
<1>3. \A o \in Thread : o # Input(t) => todo'[o] = todo[o]
  BY <1>2, OneThread, TargetNames
<1>4. ConnOK(t)' /\ \A k \in Key : StaysDown(t, k)' => StaysDown(t, k)
  <2>0. todo'[Gone(t)] = todo[Gone(t)]
    BY <1>3, TargetNames, ThreadNames
  <2>1. CASE Handle(t)
    <3>0. /\ link[t] # <<>> /\ link[t] \in Seq(Event) /\ link'[t] = Tail(link[t]) /\ pressed' = pressed
      BY <2>1 DEF Handle, TypeOK, sinkVars
    <3>. PICK e : e = Head(link[t])
      OBVIOUS
    <3>1. /\ todo[Input(t)] = <<>>
          /\ auth[t] = Me => todo'[Input(t)] = <<Do("note", e, t), Do("inject", e, t)>>
          /\ auth[t] # Me => todo'[Input(t)] = <<>> /\ pressed[t] = {}
      BY <2>1, ThisThread, ThreadNames DEF Handle, SinkOK
    <3>2. conn[t] \notin {"closed", "down"}
      BY <3>0 DEF HeldOK, ConnOK
    <3>3. ConnOK(t)'
      BY <1>1, <2>0, <3>2 DEF HeldOK, ConnOK
    <3>4. ASSUME NEW k \in Key, StaysDown(t, k)'
          PROVE  StaysDown(t, k)
      <4>1. LastDown(link'[t], k) \/ (NoUp(link'[t], k) /\ Tracked(t, k)')
        BY <3>4 DEF StaysDown
      <4>2. CASE LastDown(link'[t], k)
        BY <3>0, <4>2, AfterTail DEF StaysDown
      <4>3. CASE NoUp(link'[t], k) /\ Tracked(t, k)'
        <5>1. auth[t] = Me
          <6>. SUFFICES ASSUME auth[t] # Me PROVE FALSE
            OBVIOUS
          <6>1. todo'[Input(t)] = <<>> /\ pressed'[t] = {}
            BY <3>0, <3>1
          <6>. QED BY <4>3, <6>1 DEF Tracked, Notes
        <5>2. \A d : Notes(t, d)' <=> d = e
          <6>1. todo'[Input(t)] = <<Do("note", e, t), Do("inject", e, t)>>
            BY <3>1, <5>1
          <6>. QED BY <6>1 DEF Notes, Do
        <5>3. CASE e = Down(k)
          BY <3>0, <4>3, <5>3, AfterTail DEF StaysDown
        <5>4. CASE e # Down(k)
          <6>1. k \in pressed[t] /\ e # Up(k)
            BY <3>0, <4>3, <5>2, <5>4 DEF Tracked
          <6>2. Tracked(t, k)
            BY <3>1, <6>1 DEF Tracked, Notes
          <6>. QED BY <3>0, <4>3, <6>1, <6>2, AfterTail DEF StaysDown
        <5>. QED BY <5>3, <5>4
      <4>. QED BY <4>1, <4>2, <4>3
    <3>. QED BY <3>3, <3>4
  <2>2. CASE TrackPressed(t)
    <3>1. PICK e \in Event : todo[Input(t)] = <<Do("note", e, t), Do("inject", e, t)>>
      <4>1. todo[Input(t)] # <<>> /\ Next1(Input(t)).do = "note"
        BY <2>2 DEF TrackPressed, Runs, Idle
      <4>2. PICK e \in Event : \/ todo[Input(t)] = <<Do("note", e, t), Do("inject", e, t)>>
                               \/ todo[Input(t)] = <<Do("inject", e, t)>>
        BY <4>1 DEF SinkOK
      <4>3. todo[Input(t)] # <<Do("inject", e, t)>>
        BY <4>1 DEF Next1, Do
      <4>. QED BY <4>2, <4>3
    <3>2. Next1(Input(t)).event = e /\ Tail(todo[Input(t)]) = <<Do("inject", e, t)>>
      BY <3>1 DEF Next1, Do
    <3>3. todo'[Input(t)] = <<>> \o Tail(todo[Input(t)])
      BY <2>2, ThisThread, ThreadNames DEF TrackPressed
    <3>4. todo'[Input(t)] = <<Do("inject", e, t)>>
      BY <3>2, <3>3
    <3>5. pressed'[t] = Change(pressed[t], e) /\ link' = link
      BY <2>2, <3>2 DEF TrackPressed, TypeOK
    <3>6. ConnOK(t)'
      <4>1. todo[Input(t)] # <<>>
        BY <2>2 DEF TrackPressed, Runs, Idle
      <4>2. conn[t] \notin {"closed", "down"}
        BY <4>1 DEF HeldOK, ConnOK
      <4>. QED BY <1>1, <2>0, <4>2 DEF HeldOK, ConnOK
    <3>7. \A d : ~Notes(t, d)'
      BY <3>4 DEF Notes
    <3>8. ASSUME NEW k \in Key, Tracked(t, k)'
          PROVE  Tracked(t, k)
      <4>1. k \in Change(pressed[t], e)
        BY <3>5, <3>7, <3>8 DEF Tracked
      <4>2. PICK m \in Key : e = Down(m) \/ e = Up(m)
        BY EventKinds
      <4>3. \A d : Notes(t, d) <=> d = e
        BY <3>1 DEF Notes, Do
      <4>. QED BY <4>1, <4>2, <4>3, EventsDiffer DEF Change, Tracked
    <3>. QED BY <3>5, <3>6, <3>8 DEF StaysDown
  <2>3. CASE Inject(t)
    <3>1. PICK e \in Event : todo[Input(t)] = <<Do("inject", e, t)>>
      <4>1. todo[Input(t)] # <<>> /\ Next1(Input(t)).do = "inject"
        BY <2>3 DEF Inject, Runs, Idle
      <4>2. PICK e \in Event : \/ todo[Input(t)] = <<Do("note", e, t), Do("inject", e, t)>>
                               \/ todo[Input(t)] = <<Do("inject", e, t)>>
        BY <4>1 DEF SinkOK
      <4>3. todo[Input(t)] # <<Do("note", e, t), Do("inject", e, t)>>
        BY <4>1 DEF Next1, Do
      <4>. QED BY <4>2, <4>3
    <3>2. todo'[Input(t)] = <<>> \o Tail(todo[Input(t)])
      BY <2>3, ThisThread, ThreadNames DEF Inject
    <3>3. todo'[Input(t)] = <<>>
      BY <3>1, <3>2
    <3>4. pressed' = pressed /\ link' = link
      BY <2>3 DEF Inject
    <3>5. ConnOK(t)'
      <4>1. todo[Input(t)] # <<>>
        BY <2>3 DEF Inject, Runs, Idle
      <4>2. conn[t] \notin {"closed", "down"}
        BY <4>1 DEF HeldOK, ConnOK
      <4>. QED BY <1>1, <2>0, <4>2 DEF HeldOK, ConnOK
    <3>6. \A d : ~Notes(t, d)' /\ ~Notes(t, d)
      BY <3>1, <3>3 DEF Notes
    <3>. QED BY <3>4, <3>5, <3>6 DEF StaysDown, Tracked
  <2>. QED BY <2>1, <2>2, <2>3
<1>5. Input(t) \in {Input(t), Lease(t), Gone(t)}
  OBVIOUS
<1>. QED BY <1>1, <1>3, <1>4, <1>5, TargetNames, OnlyAt

LEMMA NothingMore ==
  ASSUME NEW s \in Seq(Step)
  PROVE  s \o <<>> = s
OBVIOUS

(***************************************************************************)
(* Steps that release what a target has tracked.                           *)
(***************************************************************************)
LEMMA SinkHeld ==
  ASSUME TypeOK, HeldOK, NEW t \in Target,
         \/ SetAuthorizedController(t) \/ ReleasePeer(t)
         \/ \E th \in {Lease(t), Gone(t)} : ReleaseEntry(t, th)
  PROVE  HeldOK'
<1>1. /\ UNCHANGED <<phys, queue, state, target, sent, conn, link>>
      /\ \A u \in Target : u # t => pressed'[u] = pressed[u]
      /\ pressed'[t] \in {pressed[t], {}}
  BY DEF SetAuthorizedController, ReleasePeer, ReleaseEntry, userVars, routeVars, sinkVars, TypeOK
<1>2. PICK th \in {Lease(t), Gone(t)} : \E steps : Starts(th, steps) \/ Continues(th, steps)
  BY DEF SetAuthorizedController, ReleasePeer, ReleaseEntry
<1>3. \A o \in Thread : o # th => todo'[o] = todo[o]
  BY <1>2, OneThread, TargetNames
<1>4. todo'[Input(t)] = todo[Input(t)]
  BY <1>3, TargetNames, ThreadNames
<1>5. \A k \in Key : StaysDown(t, k)' => StaysDown(t, k)
  BY <1>1, <1>4 DEF StaysDown, Tracked, Notes
<1>6. ConnOK(t)'
  <2>1. CASE todo'[Gone(t)] = todo[Gone(t)]
    BY <1>1, <1>4, <2>1 DEF HeldOK, ConnOK
  <2>2. CASE ReleasePeer(t)
    <3>1. todo[Gone(t)] # <<>> /\ Next1(Gone(t)).do = "forget"
      BY <2>2 DEF ReleasePeer, Runs, Idle
    <3>2. /\ todo[Gone(t)] # <<Go("unbind", t), Go("forget", t)>>
          /\ \A S : todo[Gone(t)] # Lift("lift", S, t)
      BY <3>1 DEF Next1, Do, Go, Lift
    <3>3. conn[t] = "down" /\ todo[Gone(t)] = <<Go("forget", t)>>
      BY <3>1, <3>2 DEF HeldOK, ConnOK, TypeOK
    <3>4. todo'[Gone(t)] = Lift("lift", pressed[t], t) \o Tail(todo[Gone(t)])
      BY <2>2, ThisThread, ThreadNames DEF ReleasePeer
    <3>5. /\ Tail(todo[Gone(t)]) = <<>> /\ pressed[t] \in SUBSET Key
          /\ Lift("lift", pressed[t], t) \in Seq(Step)
      <4>1. pressed[t] \in SUBSET Key
        BY DEF TypeOK
      <4>2. Tail(todo[Gone(t)]) = <<>>
        BY <3>3
      <4>. QED BY <4>1, <4>2, LiftType
    <3>6. todo'[Gone(t)] = Lift("lift", pressed[t], t)
      BY <3>4, <3>5, NothingMore
    <3>7. pressed'[t] = {}
      BY <2>2 DEF ReleasePeer, TypeOK
    <3>. QED BY <1>1, <1>4, <3>3, <3>5, <3>6, <3>7 DEF HeldOK, ConnOK
  <2>3. CASE ReleaseEntry(t, Gone(t))
    <3>1. todo[Gone(t)] # <<>> /\ Next1(Gone(t)).do = "lift"
      BY <2>3 DEF ReleaseEntry, Runs, Idle
    <3>2. /\ todo[Gone(t)] # <<Go("unbind", t), Go("forget", t)>>
          /\ todo[Gone(t)] # <<Go("forget", t)>>
      BY <3>1 DEF Next1, Do, Go
    <3>3. conn[t] = "down" /\ pressed[t] = {} /\ \E S \in SUBSET Key : todo[Gone(t)] = Lift("lift", S, t)
      BY <3>1, <3>2 DEF HeldOK, ConnOK, TypeOK
    <3>4. PICK S \in SUBSET Key : todo[Gone(t)] = Lift("lift", S, t)
      BY <3>3
    <3>5. todo[Gone(t)] = <<[do |-> "lift", event |-> None, keys |-> S, target |-> t]>>
      BY <3>1, <3>4 DEF Lift
    <3>6. Next1(Gone(t)).keys = S /\ Tail(todo[Gone(t)]) = <<>>
      <4>1. PICK x : x = [do |-> "lift", event |-> None, keys |-> S, target |-> t]
        OBVIOUS
      <4>2. todo[Gone(t)] = <<x>> /\ x.keys = S
        BY <3>5, <4>1
      <4>. QED BY <4>2 DEF Next1
    <3>7. PICK k \in S : Continues(Gone(t), Lift("lift", S \ {k}, t))
      BY <2>3, <3>6 DEF ReleaseEntry
    <3>8. todo'[Gone(t)] = Lift("lift", S \ {k}, t) \o Tail(todo[Gone(t)])
      BY <3>7, ThisThread, ThreadNames
    <3>9. S \ {k} \in SUBSET Key /\ Lift("lift", S \ {k}, t) \in Seq(Step)
      BY LiftType
    <3>10. todo'[Gone(t)] = Lift("lift", S \ {k}, t)
      BY <3>6, <3>8, <3>9, NothingMore
    <3>. QED BY <1>1, <1>4, <3>3, <3>9, <3>10 DEF HeldOK, ConnOK
  <2>4. CASE SetAuthorizedController(t) \/ ReleaseEntry(t, Lease(t))
    <3>1. \E r : Starts(Lease(t), r) \/ Continues(Lease(t), r)
      BY <2>4 DEF SetAuthorizedController, ReleaseEntry
    <3>2. todo'[Gone(t)] = todo[Gone(t)]
      BY <3>1, OneThread, TargetNames, ThreadNames
    <3>. QED BY <2>1, <3>2
  <2>. QED BY <2>2, <2>3, <2>4
<1>. QED BY <1>1, <1>3, <1>5, <1>6, TargetNames, OnlyAt

(***************************************************************************)
(* A connection that breaks takes the keys with it before another one is   *)
(* bound.                                                                  *)
(***************************************************************************)
LEMMA ConnectionHeld ==
  ASSUME TypeOK, HeldOK, races' = {}, NEW t \in Target,
         Break(t) \/ Close(t) \/ Unbind(t) \/ Rebind(t)
  PROVE  HeldOK'
<1>1. /\ UNCHANGED <<phys, queue, state, target, sent, pressed>>
      /\ \A u \in Target : u # t => link'[u] = link[u] /\ conn'[u] = conn[u]
  BY DEF Break, Close, Unbind, Rebind, userVars, routeVars, sinkVars, TypeOK
<1>2. CASE Break(t)
  <2>1. Starts(Lost(t), <<Go("unbind", t), Go("give up", t)>>) /\ conn[t] = "up" /\ conn'[t] = "broken"
    BY <1>2 DEF Break, TypeOK
  <2>2. /\ Lost(t) \in Thread /\ Lost(t) # Router /\ ~Runs(Lost(t), "release")
        /\ \A u \in Target : Lost(t) \notin {Input(u), Gone(u)}
    BY <2>1, SteeringNames, ThreadNames DEF Starts, Runs, Steering
  <2>3. \A o \in Thread : o # Lost(t) => todo'[o] = todo[o]
    BY <2>1, <2>2, OneThread
  <2>4. todo'[Gone(t)] = todo[Gone(t)]
    BY <2>2, <2>3, ThreadNames
  <2>5. ConnOK(t)'
    BY <2>1, <2>4 DEF HeldOK, ConnOK
  <2>. QED BY <1>1, <2>1, <2>2, <2>3, <2>5, OnlyAt
<1>3. CASE Close(t)
  <2>1. /\ Starts(Gone(t), <<Go("unbind", t), Go("forget", t)>>) /\ link[t] = <<>>
        /\ todo[Input(t)] = <<>> /\ conn'[t] = "closed" /\ UNCHANGED link
    BY <1>3 DEF Close, TypeOK, Idle
  <2>2. \A o \in Thread : o # Gone(t) => todo'[o] = todo[o]
    BY <2>1, OneThread, TargetNames
  <2>3. todo'[Gone(t)] = <<Go("unbind", t), Go("forget", t)>> /\ todo'[Input(t)] = <<>>
    BY <2>1, <2>2, ThisThread, TargetNames, ThreadNames
  <2>4. ConnOK(t)'
    BY <2>1, <2>3 DEF ConnOK
  <2>. QED BY <1>1, <2>1, <2>2, <2>4, TargetNames, OnlyAt
<1>4. CASE Unbind(t)
  <2>1. todo[Gone(t)] # <<>> /\ Next1(Gone(t)).do = "unbind" /\ UNCHANGED link
    BY <1>4 DEF Unbind, Runs, Idle
  <2>2. /\ todo[Gone(t)] # <<Go("forget", t)>>
        /\ \A S : todo[Gone(t)] # Lift("lift", S, t)
    BY <2>1 DEF Next1, Do, Go, Lift
  <2>3. /\ conn[t] = "closed" /\ todo[Gone(t)] = <<Go("unbind", t), Go("forget", t)>>
        /\ link[t] = <<>> /\ todo[Input(t)] = <<>>
    BY <2>1, <2>2 DEF HeldOK, ConnOK, TypeOK
  <2>4. conn'[t] = "down" /\ Continues(Gone(t), <<>>)
    BY <1>4, <2>3 DEF Unbind, TypeOK
  <2>5. \A o \in Thread : o # Gone(t) => todo'[o] = todo[o]
    BY <2>4, OneThread, TargetNames
  <2>6. todo'[Gone(t)] = <<>> \o Tail(todo[Gone(t)]) /\ todo'[Input(t)] = <<>>
    BY <2>3, <2>4, <2>5, ThisThread, TargetNames, ThreadNames
  <2>7. todo'[Gone(t)] = <<Go("forget", t)>>
    BY <2>3, <2>6
  <2>8. ConnOK(t)'
    BY <2>1, <2>3, <2>4, <2>6, <2>7 DEF ConnOK
  <2>. QED BY <1>1, <2>1, <2>4, <2>5, <2>8, TargetNames, OnlyAt
<1>5. CASE Rebind(t)
  <2>1. todo[Gone(t)] = <<>> /\ conn[t] \in {"closed", "down"} /\ conn'[t] = "up" /\ UNCHANGED <<link, todo>>
    BY <1>5 DEF Rebind, TypeOK, Idle
  <2>2. /\ link[t] = <<>> /\ todo[Input(t)] = <<>> /\ pressed[t] = {}
    <3>1. todo[Gone(t)] # <<Go("unbind", t), Go("forget", t)>> /\ todo[Gone(t)] # <<Go("forget", t)>>
      BY <2>1
    <3>. QED BY <2>1, <3>1 DEF HeldOK, ConnOK
  <2>3. ConnOK(t)'
    BY <2>1 DEF ConnOK
  <2>4. ASSUME NEW k \in Key
        PROVE  ~StaysDown(t, k)'
    <3>1. link'[t] = <<>> /\ todo'[Input(t)] = <<>> /\ pressed'[t] = {}
      BY <1>1, <2>1, <2>2
    <3>2. ~LastDown(link'[t], k)
      BY <3>1 DEF LastDown
    <3>3. ~Tracked(t, k)'
      BY <3>1 DEF Tracked, Notes
    <3>. QED BY <3>2, <3>3 DEF StaysDown
  <2>. QED BY <1>1, <2>1, <2>3, <2>4, TargetNames, OnlyAt
<1>. QED BY <1>2, <1>3, <1>4, <1>5

LEMMA HeldStep ==
  ASSUME TypeOK, SinkInv, HeldInv, Next
  PROVE  HeldInv'
<1>. SUFFICES ASSUME races' = {}
              PROVE  HeldOK'
  BY DEF HeldInv
<1>1. HeldOK /\ \A t \in Target : SinkOK(t)
  <2>1. races \subseteq races'
    BY DEF Next, Press, LetGo, Route, SendEvent, TrackRemotePressed, Swap, ReleaseKey, SendAsk, ClearTarget,
       OnAnswer, Serve, RequestTarget, Meddle, Handle, TrackPressed, SetAuthorizedController, Overtakes, Break,
       UnbindTarget, OnPeerUnbound, Close, Unbind, ReleasePeer, Rebind, Inject, ReleaseEntry
  <2>. QED BY <2>1 DEF HeldInv, SinkInv
<1>2. CASE \E k \in Key : Press(k) \/ LetGo(k)
  BY <1>1, <1>2, KeyboardHeld
<1>3. CASE Route \/ SendEvent \/ TrackRemotePressed
  BY <1>1, <1>3, RouteHeld, SendHeld, TrackHeld
<1>4. CASE \E th \in Steering : Swap(th) \/ ReleaseKey(th)
  BY <1>1, <1>4, SwapHeld, ReleaseHeld
<1>5. CASE \/ ClearTarget \/ OnAnswer \/ \E th \in Steering : SendAsk(th)
           \/ \E t \in Target : RequestTarget(t) \/ UnbindTarget(t) \/ OnPeerUnbound(t)
  BY <1>1, <1>5, ClientHeld
<1>6. CASE Serve \/ \E t \in Target : Meddle(t)
  <2>1. UNCHANGED <<phys, queue, state, target, sent, link, pressed, conn, todo>>
    BY <1>6 DEF Serve, Meddle, userVars, routeVars, sinkVars
  <2>2. \A t \in Target : ConnOK(t)' /\ \A k \in Key : StaysDown(t, k)' <=> StaysDown(t, k)
    BY <1>1, <2>1, TargetSame DEF HeldOK
  <2>3. \A t, k : Releasing(t, k) => Releasing(t, k)'
    BY <2>1 DEF Releasing, Runs, Idle, Next1
  <2>. QED BY <1>1, <2>1, <2>2, <2>3, Preserved
<1>7. ASSUME NEW t \in Target,
             \/ Handle(t) \/ TrackPressed(t) \/ Inject(t) \/ SetAuthorizedController(t) \/ ReleasePeer(t)
             \/ \E th \in {Lease(t), Gone(t)} : ReleaseEntry(t, th)
      PROVE  HeldOK'
  BY <1>1, <1>7, InputHeld, SinkHeld
<1>8. ASSUME NEW t \in Target, Break(t) \/ Close(t) \/ Unbind(t) \/ Rebind(t)
      PROVE  HeldOK'
  BY <1>1, <1>8, ConnectionHeld
<1>. QED BY <1>2, <1>3, <1>4, <1>5, <1>6, <1>7, <1>8 DEF Next, Steering

(***************************************************************************)
(* InputRouter and InputSink together: as long as nobody has been          *)
(* overtaken in the middle of an event, no target but the one the router   *)
(* is active on has keys down when all is quiet, and that one none but     *)
(* those the user holds, however often targets change, leases come and go, *)
(* and connections break.                                                  *)
(***************************************************************************)
THEOREM NoKeyLeftDown == Spec => []OnlyHeldKeysDown
<1>1. Init => HeldInv
  <2>. SUFFICES ASSUME Init
                PROVE  HeldOK
    BY DEF HeldInv
  <2>1. /\ \A th \in Thread : todo[th] = <<>>
        /\ queue = <<>>
        /\ \A t \in Target : link[t] = <<>> /\ pressed[t] = {} /\ conn[t] = "up"
    BY DEF Init
  <2>2. \A e : ~Sends(e) /\ ~Tracks(e)
    <3>1. todo[Router] = <<>>
      BY <2>1, ThreadNames
    <3>. QED BY <3>1 DEF Sends, Tracks
  <2>3. \A k : ~LastDown(<<>>, k)
    BY DEF LastDown
  <2>4. RouterOK /\ QueueOK /\ SendOK /\ TrackOK
    BY <2>1, <2>2, <2>3, ThreadNames DEF RouterOK, QueueOK, SendOK, TrackOK, Idle
  <2>5. ASSUME NEW t \in Target
        PROVE  ConnOK(t) /\ DownOK(t)
    <3>1. \A k \in Key : ~StaysDown(t, k)
      BY <2>1, <2>3, ThreadNames DEF StaysDown, Tracked, Notes
    <3>. QED BY <2>1, <3>1, ThreadNames DEF ConnOK, DownOK
  <2>. QED BY <2>4, <2>5 DEF HeldOK
<1>2. TypeOK /\ SinkInv /\ HeldInv /\ [Next]_vars => HeldInv'
  <2>. SUFFICES ASSUME TypeOK, SinkInv, HeldInv, [Next]_vars
                PROVE  HeldInv'
    OBVIOUS
  <2>1. CASE UNCHANGED vars
    <3>. SUFFICES ASSUME races = {} PROVE HeldOK'
      BY <2>1 DEF HeldInv, vars
    <3>1. HeldOK
      BY DEF HeldInv
    <3>2. UNCHANGED <<phys, queue, state, target, sent, link, pressed, conn, todo>>
      BY <2>1 DEF vars, userVars, routeVars, sinkVars
    <3>3. \A t \in Target : ConnOK(t)' /\ \A k \in Key : StaysDown(t, k)' <=> StaysDown(t, k)
      BY <3>1, <3>2, TargetSame DEF HeldOK
    <3>4. \A t, k : Releasing(t, k) => Releasing(t, k)'
      BY <3>2 DEF Releasing, Runs, Idle, Next1
    <3>. QED BY <3>1, <3>2, <3>3, <3>4, Preserved
  <2>. QED BY <2>1, HeldStep
<1>3. TypeOK /\ SinkReleases /\ HeldInv => OnlyHeldKeysDown
  <2>. SUFFICES ASSUME TypeOK, SinkReleases, HeldInv, Quiet, races = {}, NEW t \in Target, NEW k \in os[t]
                PROVE  state = "active" /\ target = t /\ k \in phys
    BY DEF OnlyHeldKeysDown
  <2>1. /\ k \in pressed[t] /\ k \in Key
    BY DEF SinkReleases, TypeOK
  <2>2. HeldOK
    BY DEF HeldInv
  <2>3. /\ \A th \in Thread : todo[th] = <<>>
        /\ queue = <<>> /\ link[t] = <<>> /\ conn[t] # "broken"
    BY DEF Quiet, Idle
  <2>4. todo[Gone(t)] = <<>> /\ todo[Input(t)] = <<>> /\ todo[Router] = <<>>
    BY <2>3, ThreadNames
  <2>5. conn[t] = "up"
    <3>1. todo[Gone(t)] # <<Go("unbind", t), Go("forget", t)>> /\ todo[Gone(t)] # <<Go("forget", t)>>
      BY <2>4
    <3>2. conn[t] # "closed" /\ conn[t] # "down"
      BY <2>1, <2>2, <3>1 DEF HeldOK, ConnOK
    <3>. QED BY <2>3, <3>2 DEF TypeOK
  <2>6. StaysDown(t, k)
    BY <2>1, <2>3, <2>4 DEF StaysDown, NoUp, Tracked, Notes
  <2>7. ~Releasing(t, k)
    BY <2>3, ThreadNames DEF Releasing, Runs, Idle
  <2>8. Reaches(t, k)
    BY <2>1, <2>2, <2>5, <2>6, <2>7 DEF HeldOK, DownOK
  <2>9. ~Sends(Up(k)) /\ NoUp(queue, k)
    BY <2>3, <2>4 DEF Sends, NoUp
  <2>. QED BY <2>8, <2>9 DEF Reaches, HeldOrLetGo
<1>. QED BY <1>1, <1>2, <1>3, SinkKept, SinkAlwaysReleases, TypeCorrect, PTL DEF Spec

-----------------------------------------------------------------------------
(***************************************************************************)
(* Rounding: what is rounded is at most half away, and a ratio of a length *)
(* that is rounded does not leave the length.                              *)
(***************************************************************************)
LEMMA DivMod ==
  ASSUME NEW n \in Int, NEW d \in Int, d > 0
  PROVE  /\ n \div d \in Int /\ (n % d) \in Int
         /\ n = d * (n \div d) + (n % d)
         /\ 0 <= (n % d) /\ (n % d) < d
OBVIOUS

LEMMA HalfAway ==
  ASSUME NEW n \in Int, NEW d \in Int, d > 0
  PROVE  /\ Pointer!Rounded(n, d) \in Int
         /\ 2 * n - d <= 2 * (d * Pointer!Rounded(n, d))
         /\ 2 * (d * Pointer!Rounded(n, d)) <= 2 * n + d
<1>. DEFINE q == n \div d
            r == n % d
<1>1. q \in Int /\ r \in Int /\ n = d * q + r /\ 0 <= r /\ r < d
  BY DivMod
<1>2. \/ Pointer!Rounded(n, d) = q /\ 2 * r <= d
      \/ Pointer!Rounded(n, d) = q + 1 /\ 2 * r >= d
  BY <1>1 DEF Pointer!Rounded
<1>3. d * (q + 1) = d * q + d
  BY <1>1
<1>. HIDE DEF q, r
<1>. QED BY <1>1, <1>2, <1>3

LEMMA Nearby ==
  ASSUME NEW d \in Int, NEW a \in Int, NEW b \in Int,
         d > 0, d * a - d < d * b, d * b < d * a + d
  PROVE  a = b
<1>1. CASE b >= a + 1
  BY <1>1, d * b >= d * (a + 1), d * (a + 1) = d * a + d
<1>2. CASE b + 1 <= a
  BY <1>2, d * (b + 1) <= d * a, d * (b + 1) = d * b + d
<1>. QED BY <1>1, <1>2

LEMMA NotOver ==
  ASSUME NEW n \in Int, NEW d \in Int, NEW w \in Int, d > 0, 0 <= n, n <= d * w
  PROVE  Pointer!Rounded(n, d) \in 0 .. w
<1>. DEFINE z == Pointer!Rounded(n, d)
<1>1. z \in Int /\ 2 * n - d <= 2 * (d * z) /\ 2 * (d * z) <= 2 * n + d
  BY HalfAway
<1>. HIDE DEF z
<1>2. CASE z <= -1
  BY <1>1, <1>2, d * z <= d * (-1)
<1>3. CASE z >= w + 1
  BY <1>1, <1>3, d * z >= d * (w + 1), d * (w + 1) = d * w + d
<1>4. 0 <= z /\ z <= w
  BY <1>1, <1>2, <1>3
<1>. QED BY <1>1, <1>4 DEF z

LEMMA RatioOf ==
  ASSUME NEW v \in Int, NEW den \in Int, NEW lo \in Int, NEW hi \in Int, den > 0
  PROVE  LET ratio == Pointer!Ratio(v, den, lo, hi)
         IN /\ ratio[1] \in Int /\ ratio[2] \in Int
            /\ 0 <= ratio[1] /\ ratio[1] <= ratio[2] /\ ratio[2] > 0
<1>. DEFINE span == IF hi > lo THEN hi - lo ELSE 1
<1>1. span \in Int /\ span > 0
  OBVIOUS
<1>. HIDE DEF span
<1>2. span * den \in Int /\ span * den > 0 /\ v - lo * den \in Int
  BY <1>1
<1>3. Pointer!Ratio(v, den, lo, hi) = <<Pointer!Between(v - lo * den, 0, span * den), span * den>>
  BY DEF Pointer!Ratio, span
<1>. QED BY <1>2, <1>3 DEF Pointer!Between

-----------------------------------------------------------------------------
(***************************************************************************)
(* Points and screens.                                                     *)
(***************************************************************************)
LEMMA Axes ==
  \A d : /\ Pointer!Across(d) \in {1, 2}
         /\ Pointer!Along(d) = 3 - Pointer!Across(d)
BY DEF Pointer!Across, Pointer!Along

LEMMA WithOne ==
  ASSUME NEW p \in Pointer!Point, NEW v \in Int
  PROVE  /\ Pointer!With(p, 1, v) = <<v, p[2]>>
         /\ Pointer!With(p, 2, v) = <<p[1], v>>
         /\ Pointer!With(p, 1, v) \in Pointer!Point /\ Pointer!With(p, 2, v) \in Pointer!Point
BY DEF Pointer!With, Pointer!Point

LEMMA InFrame ==
  ASSUME NEW r \in Pointer!Frame, NEW p
  PROVE  p \in Pointer!Within(r) <=>
           /\ p \in Pointer!Point
           /\ \A axis \in {1, 2} : Pointer!Low(r, axis) <= p[axis] /\ p[axis] <= Pointer!High(r, axis)
BY DEF Pointer!Within, Pointer!Frame, Pointer!Point, Pointer!Low, Pointer!High

LEMMA Clamped ==
  ASSUME NEW r \in Pointer!Frame, r.left <= r.right, r.top <= r.bottom, NEW p \in Pointer!Point
  PROVE  Pointer!Clamp(p, r) \in Pointer!Within(r)
BY DEF Pointer!Clamp, Pointer!Within, Pointer!Between, Pointer!Frame, Pointer!Point

LEMMA Screens ==
  ASSUME NEW s \in Screen
  PROVE  /\ Rect[s] \in Pointer!Frame
         /\ Rect[s].left <= Rect[s].right /\ Rect[s].top <= Rect[s].bottom
         /\ Pointer!Pixels(s) = Pointer!Within(Rect[s])
         /\ \A axis : /\ Pointer!Low(Rect[s], axis) \in Int /\ Pointer!High(Rect[s], axis) \in Int
                      /\ Pointer!Low(Rect[s], axis) <= Pointer!High(Rect[s], axis)
         /\ \A p \in Pointer!Point : Pointer!Clamp(p, Rect[s]) \in Pointer!Pixels(s)
<1>1. /\ Rect[s] \in Pointer!Frame
      /\ Rect[s].left <= Rect[s].right /\ Rect[s].top <= Rect[s].bottom
  BY ScreensAreKnown
<1>2. Pointer!Pixels(s) = Pointer!Within(Rect[s])
  BY DEF Pointer!Pixels
<1>3. \A axis : /\ Pointer!Low(Rect[s], axis) \in Int /\ Pointer!High(Rect[s], axis) \in Int
                /\ Pointer!Low(Rect[s], axis) <= Pointer!High(Rect[s], axis)
  BY <1>1 DEF Pointer!Low, Pointer!High, Pointer!Frame
<1>. QED BY <1>1, <1>2, <1>3, Clamped

LEMMA PixelsAre ==
  /\ \A s \in Own : Pointer!Pixels(s) \subseteq Pointer!OwnPixel
  /\ \A s \in Screen \ Own : Pointer!Pixels(s) \subseteq Pointer!FarPixel
  /\ Pointer!OwnPixel \subseteq Pointer!Point /\ Pointer!FarPixel \subseteq Pointer!Point
<1>1. \A s \in Screen : Pointer!Pixels(s) \subseteq Pointer!Point
  BY Screens, InFrame
<1>. QED BY <1>1, ScreensAreKnown DEF Pointer!OwnPixel, Pointer!FarPixel

LEMMA Desktop ==
  /\ Parking \in Pointer!OwnPixel
  /\ \A p \in Pointer!Point : Pointer!ToDesk(p) \in Pointer!OwnPixel
<1>1. Desk \in Pointer!Frame /\ Pointer!OwnPixel = Pointer!Within(Desk) /\ Parking \in Pointer!OwnPixel
  BY ScreensAreKnown
<1>2. Desk.left <= Desk.right /\ Desk.top <= Desk.bottom
  BY <1>1 DEF Pointer!Within, Pointer!Frame
<1>. QED BY <1>1, <1>2, Clamped DEF Pointer!ToDesk

\* the screen of a point of the controller's
LEMMA OnAScreen ==
  ASSUME NEW p \in Pointer!OwnPixel
  PROVE  /\ Pointer!ScreenAt(p, Own) \in Own
         /\ p \in Pointer!Pixels(Pointer!ScreenAt(p, Own))
         /\ \A s \in Own : p \in Pointer!Pixels(s) => s = Pointer!ScreenAt(p, Own)
<1>1. \E s \in Own : p \in Pointer!Pixels(s)
  BY DEF Pointer!OwnPixel
<1>2. Pointer!ScreenAt(p, Own) \in Own /\ p \in Pointer!Pixels(Pointer!ScreenAt(p, Own))
  BY <1>1 DEF Pointer!ScreenAt
<1>. QED BY <1>2, ScreensAreKnown

LEMMA Edges ==
  ASSUME NEW s \in Screen, NEW d
  PROVE  /\ Pointer!EdgeOf(Rect[s], d) \in Int
         /\ Pointer!Low(Rect[s], Pointer!Along(d)) <= Pointer!EdgeOf(Rect[s], d)
         /\ Pointer!EdgeOf(Rect[s], d) <= Pointer!High(Rect[s], Pointer!Along(d))
BY Screens DEF Pointer!EdgeOf

\* a point that is moved to where the screen is along one axis, and is within it on the other
LEMMA PutOnScreen ==
  ASSUME NEW s \in Screen, NEW d, NEW p \in Pointer!Point, NEW v \in Int,
         Pointer!Low(Rect[s], Pointer!Across(d)) <= p[Pointer!Across(d)],
         p[Pointer!Across(d)] <= Pointer!High(Rect[s], Pointer!Across(d)),
         Pointer!Low(Rect[s], Pointer!Along(d)) <= v,
         v <= Pointer!High(Rect[s], Pointer!Along(d))
  PROVE  Pointer!With(p, Pointer!Along(d), v) \in Pointer!Pixels(s)
<1>1. Rect[s] \in Pointer!Frame /\ Pointer!Pixels(s) = Pointer!Within(Rect[s])
  BY Screens
<1>2. ASSUME NEW q \in Pointer!Point,
             \A axis \in {1, 2} : Pointer!Low(Rect[s], axis) <= q[axis] /\ q[axis] <= Pointer!High(Rect[s], axis)
      PROVE  q \in Pointer!Pixels(s)
  BY <1>1, <1>2, InFrame
<1>3. CASE Pointer!Across(d) = 1 /\ Pointer!Along(d) = 2
  <2>1. Pointer!With(p, 2, v) = <<p[1], v>> /\ Pointer!With(p, 2, v) \in Pointer!Point
    BY WithOne
  <2>. QED BY <1>2, <1>3, <2>1
<1>4. CASE Pointer!Across(d) = 2 /\ Pointer!Along(d) = 1
  <2>1. Pointer!With(p, 1, v) = <<v, p[2]>> /\ Pointer!With(p, 1, v) \in Pointer!Point
    BY WithOne
  <2>. QED BY <1>2, <1>4, <2>1
<1>. QED BY <1>3, <1>4, Axes

LEMMA OppositeEdges ==
  \A d \in Pointer!Direction :
    /\ Pointer!Opposite[d] \in Pointer!Direction
    /\ Pointer!Opposite[Pointer!Opposite[d]] = d
    /\ Pointer!Along(Pointer!Opposite[d]) = Pointer!Along(d)
    /\ Pointer!Across(Pointer!Opposite[d]) = Pointer!Across(d)
BY DEF Pointer!Direction, Pointer!Opposite, Pointer!Along, Pointer!Across

LEMMA BlockedOnScreen ==
  ASSUME NEW s \in Screen, NEW d, NEW p \in Pointer!Point
  PROVE  Pointer!Blocked(s, d, p) \in Pointer!Pixels(s)
<1>1. Pointer!Clamp(p, Rect[s]) \in Pointer!Within(Rect[s]) /\ Rect[s] \in Pointer!Frame
  BY Screens
<1>2. Pointer!Clamp(p, Rect[s]) \in Pointer!Point
  BY <1>1, InFrame
<1>3. /\ Pointer!Low(Rect[s], Pointer!Across(d)) <= Pointer!Clamp(p, Rect[s])[Pointer!Across(d)]
      /\ Pointer!Clamp(p, Rect[s])[Pointer!Across(d)] <= Pointer!High(Rect[s], Pointer!Across(d))
  BY <1>1, InFrame, Axes
<1>. QED BY <1>2, <1>3, Edges, PutOnScreen DEF Pointer!Blocked

\* a ratio is a length that fits into another
GoodRatio(ratio) ==
  /\ ratio[1] \in Int /\ ratio[2] \in Int
  /\ 0 <= ratio[1] /\ ratio[1] <= ratio[2] /\ ratio[2] > 0

LEMMA AnchorOnScreen ==
  ASSUME NEW s \in Screen, NEW d \in Pointer!Direction, NEW ratio, GoodRatio(ratio)
  PROVE  Pointer!Anchor(s, d, ratio) \in Pointer!Pixels(s)
<1>. DEFINE a == Pointer!Across(d)
            w == Pointer!High(Rect[s], a) - Pointer!Low(Rect[s], a)
            c == Pointer!Low(Rect[s], a) + Pointer!Rounded(ratio[1] * w, ratio[2])
<1>1. /\ Pointer!Low(Rect[s], a) \in Int /\ Pointer!High(Rect[s], a) \in Int
      /\ Pointer!Low(Rect[s], a) <= Pointer!High(Rect[s], a)
  BY Screens
<1>2. ratio[1] * w \in Int /\ 0 <= ratio[1] * w /\ ratio[1] * w <= ratio[2] * w
  BY <1>1 DEF GoodRatio
<1>3. Pointer!Rounded(ratio[1] * w, ratio[2]) \in 0 .. w
  <2>1. w \in Int /\ ratio[2] \in Int /\ ratio[2] > 0
    BY <1>1 DEF GoodRatio
  <2>. HIDE DEF w
  <2>. QED BY <1>2, <2>1, NotOver
<1>4. c \in Int /\ Pointer!Low(Rect[s], a) <= c /\ c <= Pointer!High(Rect[s], a)
  BY <1>1, <1>3
<1>5. Pointer!Anchor(s, d, ratio) = Pointer!With(<<c, c>>, Pointer!Along(d), Pointer!EdgeOf(Rect[s], Pointer!Opposite[d]))
  BY DEF Pointer!Anchor
<1>6. /\ Pointer!EdgeOf(Rect[s], Pointer!Opposite[d]) \in Int
      /\ Pointer!Low(Rect[s], Pointer!Along(d)) <= Pointer!EdgeOf(Rect[s], Pointer!Opposite[d])
      /\ Pointer!EdgeOf(Rect[s], Pointer!Opposite[d]) <= Pointer!High(Rect[s], Pointer!Along(d))
  BY Edges, OppositeEdges
<1>. HIDE DEF c
<1>7. <<c, c>> \in Pointer!Point /\ <<c, c>>[a] = c
  BY <1>4, Axes DEF Pointer!Point
<1>. QED BY <1>4, <1>5, <1>6, <1>7, PutOnScreen

LEMMA CenterOnScreen ==
  ASSUME NEW s \in Screen
  PROVE  Pointer!Center(s) \in Pointer!Pixels(s)
<1>. DEFINE r == Rect[s]
<1>1. r \in Pointer!Frame /\ r.left <= r.right /\ r.top <= r.bottom
  BY Screens
<1>2. /\ r.left \in Int /\ r.right \in Int /\ r.top \in Int /\ r.bottom \in Int
  BY <1>1 DEF Pointer!Frame
<1>3. Pointer!Rounded(r.right - r.left, 2) \in 0 .. (r.right - r.left)
  BY <1>1, <1>2, NotOver
<1>4. Pointer!Rounded(r.bottom - r.top, 2) \in 0 .. (r.bottom - r.top)
  BY <1>1, <1>2, NotOver
<1>. QED BY <1>2, <1>3, <1>4 DEF Pointer!Center, Pointer!Pixels, Pointer!Within

LEMMA AdjustedOnScreen ==
  ASSUME NEW s \in Screen, NEW p \in Pointer!Point
  PROVE  Pointer!Adjusted(p, s) \in Pointer!Pixels(s)
<1>1. /\ Rect[s] \in Pointer!Frame
      /\ Rect[s].left <= Rect[s].right /\ Rect[s].top <= Rect[s].bottom
  BY Screens
<1>. QED BY <1>1 DEF Pointer!Adjusted, Pointer!Pixels, Pointer!Within, Pointer!Between, Pointer!Frame, Pointer!Point

-----------------------------------------------------------------------------
(***************************************************************************)
(* Where a move leaves a screen.                                           *)
(***************************************************************************)
LEMMA NearestIsOne ==
  ASSUME NEW D \in SUBSET Pointer!Direction, D # {}, NEW distance, \A d \in D : distance[d] \in Int
  PROVE  Pointer!Nearest(D, distance, Pointer!Listed) \in D
<1>. DEFINE Before(d, e) == \E i, j \in 1 .. 4 : i < j /\ Pointer!Listed[i] = d /\ Pointer!Listed[j] = e
            Beats(d, e) == distance[d] < distance[e] \/ (distance[d] = distance[e] /\ Before(d, e))
            Best(S) == D \cap S = {} \/ \E d \in D \cap S : \A e \in (D \cap S) \ {d} : Beats(d, e)
<1>1. /\ Before("left", "right") /\ Before("left", "up") /\ Before("left", "down")
      /\ Before("right", "up") /\ Before("right", "down") /\ Before("up", "down")
  BY DEF Pointer!Listed
<1>2. /\ ~Before("right", "left") /\ ~Before("up", "left") /\ ~Before("down", "left")
      /\ ~Before("up", "right") /\ ~Before("down", "right") /\ ~Before("down", "up")
      /\ \A d : ~Before(d, d)
  BY DEF Pointer!Listed
<1>. HIDE DEF Before
<1>3. \A d, e \in Pointer!Direction : d = e \/ Before(d, e) \/ Before(e, d)
  BY <1>1 DEF Pointer!Direction
<1>4. \A d, e, f \in Pointer!Direction : Before(d, e) /\ Before(e, f) => Before(d, f)
  BY <1>1, <1>2 DEF Pointer!Direction
<1>5. \A d, e \in D : d = e \/ Beats(d, e) \/ Beats(e, d)
  BY <1>3
<1>6. \A d, e, f \in D : Beats(d, e) /\ Beats(e, f) => Beats(d, f)
  BY <1>4
<1>. HIDE DEF Beats
<1>7. ASSUME NEW S, NEW x, Best(S)
      PROVE  Best(S \cup {x})
  <2>1. CASE x \notin D \/ D \cap S = {}
    BY <1>7, <2>1
  <2>2. CASE x \in D /\ D \cap S # {}
    <3>1. PICK d \in D \cap S : \A e \in (D \cap S) \ {d} : Beats(d, e)
      BY <1>7, <2>2
    <3>2. CASE x = d \/ Beats(d, x)
      BY <3>1, <3>2
    <3>3. CASE Beats(x, d)
      <4>1. \A e \in (D \cap (S \cup {x})) \ {x} : Beats(x, e)
        BY <1>6, <2>2, <3>1, <3>3
      <4>. QED BY <2>2, <4>1
    <3>. QED BY <1>5, <2>2, <3>1, <3>2, <3>3
  <2>. QED BY <2>1, <2>2
<1>8. Best({"left", "right", "up", "down"})
  <2>1. Best({})
    OBVIOUS
  <2>. HIDE DEF Best
  <2>2. Best({} \cup {"left"})
    BY <1>7, <2>1
  <2>3. Best(({} \cup {"left"}) \cup {"right"})
    BY <1>7, <2>2
  <2>4. Best((({} \cup {"left"}) \cup {"right"}) \cup {"up"})
    BY <1>7, <2>3
  <2>5. Best(((({} \cup {"left"}) \cup {"right"}) \cup {"up"}) \cup {"down"})
    BY <1>7, <2>4
  <2>6. ((({} \cup {"left"}) \cup {"right"}) \cup {"up"}) \cup {"down"} = {"left", "right", "up", "down"}
    OBVIOUS
  <2>. QED BY <2>5, <2>6
<1>9. \E d \in D : \A e \in D \ {d} : Beats(d, e)
  BY <1>8 DEF Pointer!Direction
<1>. QED BY <1>9 DEF Pointer!Nearest, Before, Beats

LEMMA OverIsInt ==
  ASSUME NEW s \in Screen, NEW p \in Pointer!Point, NEW d
  PROVE  Pointer!Over(p, Rect[s], d) \in Int /\ p[Pointer!Across(d)] \in Int
<1>1. Pointer!EdgeOf(Rect[s], d) \in Int /\ p[1] \in Int /\ p[2] \in Int
  BY Edges DEF Pointer!Point
<1>2. p[Pointer!Along(d)] \in Int /\ p[Pointer!Across(d)] \in Int
  BY <1>1, Axes
<1>. QED BY <1>1, <1>2 DEF Pointer!Over

LEMMA PressDoes ==
  ASSUME NEW s \in Screen, NEW p \in Pointer!Point, Pointer!Press(Rect[s], p) # None
  PROVE  LET press == Pointer!Press(Rect[s], p)
             a     == Pointer!Across(press.dir)
         IN /\ press.dir \in Pointer!Direction
            /\ press.ratio = Pointer!Ratio(p[a], 1, Pointer!Low(Rect[s], a), Pointer!High(Rect[s], a))
            /\ GoodRatio(press.ratio)
<1>. DEFINE over == [d \in Pointer!Direction |-> Pointer!Over(p, Rect[s], d)]
            D    == {d \in Pointer!Direction : over[d] >= 0}
            d    == Pointer!Nearest(D, over, Pointer!Listed)
            a    == Pointer!Across(d)
            ratio == Pointer!Ratio(p[a], 1, Pointer!Low(Rect[s], a), Pointer!High(Rect[s], a))
<1>1. D # {} /\ Pointer!Press(Rect[s], p) = [dir |-> d, ratio |-> ratio]
  BY DEF Pointer!Press
<1>2. D \in SUBSET Pointer!Direction /\ \A e \in D : over[e] \in Int
  BY OverIsInt
<1>. HIDE DEF over
<1>3. d \in Pointer!Direction
  BY <1>1, <1>2, NearestIsOne
<1>. HIDE DEF D, d
<1>4. p[a] \in Int /\ Pointer!Low(Rect[s], a) \in Int /\ Pointer!High(Rect[s], a) \in Int
  BY OverIsInt, Screens
<1>5. GoodRatio(ratio)
  <2>1. \A v, lo, hi \in Int : GoodRatio(Pointer!Ratio(v, 1, lo, hi))
    BY RatioOf DEF GoodRatio
  <2>. QED BY <1>4, <2>1
<1>. HIDE DEF ratio
<1>6. Pointer!Press(Rect[s], p).dir = d /\ Pointer!Press(Rect[s], p).ratio = ratio
  BY <1>1
<1>. QED BY <1>3, <1>5, <1>6 DEF ratio

LEMMA CrossingDoes ==
  ASSUME NEW s \in Screen, NEW p \in Pointer!Point, NEW q \in Pointer!Point,
         Pointer!Crossing(Rect[s], p, q) # None
  PROVE  /\ Pointer!Crossing(Rect[s], p, q).dir \in Pointer!Direction
         /\ GoodRatio(Pointer!Crossing(Rect[s], p, q).ratio)
<1>. DEFINE r == Rect[s]
            steps  == [d \in Pointer!Direction |-> -Pointer!Over(p, r, d)]
            length == [d \in Pointer!Direction |-> Pointer!Over(q, r, d) - Pointer!Over(p, r, d)]
            meets  == [d \in Pointer!Direction |->
                         p[Pointer!Across(d)] * length[d]
                           + (q[Pointer!Across(d)] - p[Pointer!Across(d)]) * steps[d]]
            D == {d \in Pointer!Direction :
                    /\ steps[d] >= 0 /\ Pointer!Over(q, r, d) > 0
                    /\ meets[d] >= Pointer!Low(r, Pointer!Across(d)) * length[d]
                    /\ meets[d] <= Pointer!High(r, Pointer!Across(d)) * length[d]}
            Size(n) == IF n < 0 THEN -n ELSE n
            distance == [e \in Pointer!Direction |->
                           steps[e] * Size(q[Pointer!Across(e)] - p[Pointer!Across(e)])]
            d == Pointer!Nearest(D, distance, Pointer!Listed)
            a == Pointer!Across(d)
            ratio == Pointer!Ratio(meets[d], length[d], Pointer!Low(r, a), Pointer!High(r, a))
<1>1. D # {} /\ Pointer!Crossing(r, p, q) = [dir |-> d, ratio |-> ratio]
  BY DEF Pointer!Crossing
<1>2. \A e \in Pointer!Direction :
        /\ steps[e] \in Int /\ length[e] \in Int /\ meets[e] \in Int /\ distance[e] \in Int
        /\ steps[e] = -Pointer!Over(p, r, e)
        /\ length[e] = Pointer!Over(q, r, e) - Pointer!Over(p, r, e)
  <2>1. TAKE e \in Pointer!Direction
  <2>2. /\ Pointer!Over(p, r, e) \in Int /\ Pointer!Over(q, r, e) \in Int
        /\ p[Pointer!Across(e)] \in Int /\ q[Pointer!Across(e)] \in Int
    BY OverIsInt
  <2>3. steps[e] \in Int /\ length[e] \in Int
    BY <2>2
  <2>4. meets[e] \in Int
    BY <2>2, <2>3
  <2>5. Size(q[Pointer!Across(e)] - p[Pointer!Across(e)]) \in Int
    BY <2>2
  <2>. HIDE DEF Size
  <2>6. distance[e] \in Int
    BY <2>3, <2>5
  <2>. QED BY <2>3, <2>4, <2>6
<1>. HIDE DEF steps, length, meets, distance
<1>3. D \in SUBSET Pointer!Direction
  OBVIOUS
<1>4. d \in D
  BY <1>1, <1>2, <1>3, NearestIsOne
<1>5. steps[d] >= 0 /\ Pointer!Over(q, r, d) > 0 /\ d \in Pointer!Direction
  BY <1>4
<1>. HIDE DEF D, d
<1>6. /\ Pointer!Over(p, r, d) \in Int /\ Pointer!Over(q, r, d) \in Int
      /\ Pointer!Low(r, a) \in Int /\ Pointer!High(r, a) \in Int
  BY OverIsInt, Screens
<1>7. length[d] \in Int /\ meets[d] \in Int /\ length[d] > 0
  BY <1>2, <1>5, <1>6
<1>8. GoodRatio(ratio)
  BY <1>6, <1>7, RatioOf DEF GoodRatio
<1>. HIDE DEF ratio
<1>9. Pointer!Crossing(r, p, q).dir = d /\ Pointer!Crossing(r, p, q).ratio = ratio
  BY <1>1
<1>. QED BY <1>5, <1>8, <1>9

-----------------------------------------------------------------------------
(***************************************************************************)
(* There and back: a length S that is mapped to a longer one T and back.   *)
(***************************************************************************)
LEMMA RoundTrip ==
  ASSUME NEW S \in Int, NEW T \in Int, S > 0, S <= T, NEW x \in Int
  PROVE  Pointer!Rounded(Pointer!Rounded(x * T, S) * S, T) = x
<1>. DEFINE y == Pointer!Rounded(x * T, S)
            z == Pointer!Rounded(y * S, T)
<1>1. y \in Int /\ 2 * (x * T) - S <= 2 * (S * y) /\ 2 * (S * y) <= 2 * (x * T) + S
  BY HalfAway
<1>. HIDE DEF y
<1>2. z \in Int /\ 2 * (y * S) - T <= 2 * (T * z) /\ 2 * (T * z) <= 2 * (y * S) + T
  BY <1>1, HalfAway
<1>. HIDE DEF z
<1>3. y * S = S * y /\ x * T = T * x /\ S * y \in Int /\ T * z \in Int /\ T * x \in Int
  BY <1>1, <1>2
<1>4. ASSUME S < T PROVE z = x
  <2>1. T * x - T < T * z /\ T * z < T * x + T
    BY <1>1, <1>2, <1>3, <1>4
  <2>. QED BY <1>2, <2>1, Nearby
<1>5. ASSUME S = T PROVE z = x
  <2>1. S * x - S < S * y /\ S * y < S * x + S
    BY <1>1, <1>3, <1>5
  <2>2. y = x
    BY <1>1, <2>1, Nearby
  <2>3. T * x - T < T * z /\ T * z < T * x + T
    BY <1>2, <1>3, <1>5, <2>2
  <2>. QED BY <1>2, <2>3, Nearby
<1>6. z = x
  BY <1>4, <1>5
<1>. QED BY <1>6 DEF y, z

\* along one axis: from lo .. lo + S, over low .. low + T, back
LEMMA AxisTrip ==
  ASSUME NEW v \in Int, NEW lo \in Int, NEW hi \in Int, NEW low \in Int, NEW high \in Int,
         lo <= hi, low <= high, hi - lo <= high - low
  PROVE  LET there == Pointer!Ratio(v, 1, lo, hi)
             line  == low + Pointer!Rounded(there[1] * (high - low), there[2])
             back  == Pointer!Ratio(line, 1, low, high)
         IN lo + Pointer!Rounded(back[1] * (hi - lo), back[2]) = Pointer!Between(v, lo, hi)
<1>. DEFINE S == hi - lo
            T == high - low
            there == Pointer!Ratio(v, 1, lo, hi)
            y == Pointer!Rounded(there[1] * T, there[2])
            back == Pointer!Ratio(low + y, 1, low, high)
<1>1. S \in Int /\ T \in Int /\ 0 <= S /\ S <= T
  OBVIOUS
<1>2. /\ there[1] \in Int /\ there[2] \in Int
      /\ 0 <= there[1] /\ there[1] <= there[2] /\ there[2] > 0
  BY RatioOf
<1>3. there[1] * T \in Int /\ 0 <= there[1] * T /\ there[1] * T <= there[2] * T
  BY <1>1, <1>2
<1>4. y \in 0 .. T
  <2>. HIDE DEF there, T
  <2>. QED BY <1>1, <1>2, <1>3, NotOver
<1>5. back = <<y, IF T > 0 THEN T ELSE 1>>
  <2>. HIDE DEF y
  <2>. QED BY <1>4 DEF Pointer!Ratio, Pointer!Between
<1>6. CASE S = 0
  <2>1. back[1] * S = 0 /\ back[2] \in Int /\ back[2] > 0
    BY <1>1, <1>4, <1>5, <1>6
  <2>2. Pointer!Rounded(back[1] * S, back[2]) \in 0 .. 0
    <3>1. \A n \in Int : n > 0 => Pointer!Rounded(0, n) \in 0 .. 0
      BY NotOver
    <3>. HIDE DEF back, S
    <3>. QED BY <2>1, <3>1
  <2>3. Pointer!Between(v, lo, hi) = lo
    BY <1>6 DEF Pointer!Between
  <2>. QED BY <2>2, <2>3
<1>7. CASE S > 0
  <2>1. there = <<Pointer!Between(v - lo, 0, S), S>>
    BY <1>7 DEF Pointer!Ratio
  <2>2. back = <<y, T>>
    BY <1>1, <1>5, <1>7
  <2>3. Pointer!Rounded(y * S, T) = there[1]
    <3>1. y = Pointer!Rounded(there[1] * T, S)
      BY <2>1
    <3>. HIDE DEF y, there, S, T
    <3>. QED BY <1>1, <1>2, <1>7, <3>1, RoundTrip
  <2>4. lo + there[1] = Pointer!Between(v, lo, hi)
    BY <1>7, <2>1 DEF Pointer!Between
  <2>. QED BY <2>2, <2>3, <2>4
<1>. QED BY <1>1, <1>6, <1>7

LEMMA TripBack ==
  ASSUME NEW s \in Screen, NEW k \in Screen, NEW d \in Pointer!Direction, NEW p \in Pointer!Point,
         Pointer!Span(s, d) <= Pointer!Span(k, d)
  PROVE  LET a     == Pointer!Across(d)
             there == Pointer!Ratio(p[a], 1, Pointer!Low(Rect[s], a), Pointer!High(Rect[s], a))
             line  == Pointer!Anchor(k, d, there)[a]
             back  == Pointer!Ratio(line, 1, Pointer!Low(Rect[k], a), Pointer!High(Rect[k], a))
         IN Pointer!Anchor(s, Pointer!Opposite[d], back) = Pointer!Blocked(s, d, p)
<1>. DEFINE a     == Pointer!Across(d)
            lo    == Pointer!Low(Rect[s], a)
            hi    == Pointer!High(Rect[s], a)
            low   == Pointer!Low(Rect[k], a)
            high  == Pointer!High(Rect[k], a)
            there == Pointer!Ratio(p[a], 1, lo, hi)
            y     == low + Pointer!Rounded(there[1] * (high - low), there[2])
            line  == Pointer!Anchor(k, d, there)[a]
            back  == Pointer!Ratio(line, 1, low, high)
            x     == lo + Pointer!Rounded(back[1] * (hi - lo), back[2])
            e     == Pointer!EdgeOf(Rect[s], d)
<1>1. /\ lo \in Int /\ hi \in Int /\ low \in Int /\ high \in Int
      /\ lo <= hi /\ low <= high
      /\ p[a] \in Int
  BY Screens, OverIsInt
<1>2. hi - lo <= high - low
  BY DEF Pointer!Span
<1>3. GoodRatio(there) /\ Pointer!Anchor(k, d, there) \in Pointer!Pixels(k)
  <2>1. \A v, b, c \in Int : GoodRatio(Pointer!Ratio(v, 1, b, c))
    BY RatioOf DEF GoodRatio
  <2>2. GoodRatio(there)
    BY <1>1, <2>1
  <2>. HIDE DEF there
  <2>. QED BY <2>2, AnchorOnScreen
<1>4. line = y /\ y \in Int
  <2>1. Pointer!Anchor(k, d, there) = Pointer!With(<<y, y>>, Pointer!Along(d), Pointer!EdgeOf(Rect[k], Pointer!Opposite[d]))
    BY DEF Pointer!Anchor
  <2>2. there[1] * (high - low) \in Int /\ there[2] \in Int /\ there[2] > 0
    BY <1>1, <1>3 DEF GoodRatio
  <2>3. Pointer!Rounded(there[1] * (high - low), there[2]) \in Int
    <3>. HIDE DEF there, high, low
    <3>. QED BY <2>2, HalfAway
  <2>4. y \in Int
    <3>. HIDE DEF there
    <3>. QED BY <1>1, <2>3
  <2>5. Pointer!EdgeOf(Rect[k], Pointer!Opposite[d]) \in Int
    BY Edges
  <2>. HIDE DEF y
  <2>6. <<y, y>> \in Pointer!Point
    BY <2>4 DEF Pointer!Point
  <2>7. ASSUME NEW v \in Int
        PROVE  Pointer!With(<<y, y>>, Pointer!Along(d), v)[a] = y
    <3>1. CASE a = 1 /\ Pointer!Along(d) = 2
      BY <2>6, <3>1, WithOne
    <3>2. CASE a = 2 /\ Pointer!Along(d) = 1
      BY <2>6, <3>2, WithOne
    <3>. QED BY <3>1, <3>2, Axes
  <2>. QED BY <2>1, <2>4, <2>5, <2>7
<1>5. x = Pointer!Between(p[a], lo, hi)
  <2>1. back = Pointer!Ratio(y, 1, low, high)
    BY <1>4
  <2>. HIDE DEF lo, hi, low, high, a, line
  <2>. QED BY <1>1, <1>2, <2>1, AxisTrip
<1>6. /\ Pointer!Across(Pointer!Opposite[d]) = a /\ Pointer!Along(Pointer!Opposite[d]) = Pointer!Along(d)
      /\ Pointer!Opposite[Pointer!Opposite[d]] = d
  BY OppositeEdges
<1>7. Pointer!Anchor(s, Pointer!Opposite[d], back) = Pointer!With(<<x, x>>, Pointer!Along(d), e)
  BY <1>6 DEF Pointer!Anchor
<1>8. Pointer!Clamp(p, Rect[s])[a] = x /\ Pointer!Clamp(p, Rect[s]) \in Pointer!Point
  <2>1. Pointer!Clamp(p, Rect[s]) \in Pointer!Point
    BY Screens, PixelsAre, InFrame
  <2>2. Pointer!Clamp(p, Rect[s])[a] = Pointer!Between(p[a], lo, hi)
    BY Axes DEF Pointer!Clamp, Pointer!Low, Pointer!High
  <2>. QED BY <1>5, <2>1, <2>2
<1>9. x \in Int /\ e \in Int
  BY <1>1, <1>5, Edges DEF Pointer!Between
<1>10. Pointer!With(<<x, x>>, Pointer!Along(d), e) = Pointer!With(Pointer!Clamp(p, Rect[s]), Pointer!Along(d), e)
  <2>. HIDE DEF x, e
  <2>1. <<x, x>> \in Pointer!Point
    BY <1>9 DEF Pointer!Point
  <2>2. ASSUME NEW q \in Pointer!Point, NEW r \in Pointer!Point, NEW v \in Int, q[a] = r[a]
        PROVE  Pointer!With(q, Pointer!Along(d), v) = Pointer!With(r, Pointer!Along(d), v)
    <3>1. CASE a = 1 /\ Pointer!Along(d) = 2
      <4>1. Pointer!With(q, 2, v) = <<q[1], v>> /\ Pointer!With(r, 2, v) = <<r[1], v>>
        BY WithOne
      <4>. QED BY <2>2, <3>1, <4>1
    <3>2. CASE a = 2 /\ Pointer!Along(d) = 1
      <4>1. Pointer!With(q, 1, v) = <<v, q[2]>> /\ Pointer!With(r, 1, v) = <<v, r[2]>>
        BY WithOne
      <4>. QED BY <2>2, <3>2, <4>1
    <3>. QED BY <3>1, <3>2, Axes
  <2>3. <<x, x>>[a] = x
    BY Axes
  <2>. QED BY <1>8, <1>9, <2>1, <2>2, <2>3
<1>. QED BY <1>7, <1>10 DEF Pointer!Blocked

-----------------------------------------------------------------------------
(***************************************************************************)
(* PointerPath: the types, in three parts.                                 *)
(***************************************************************************)
SelfOK ==
  /\ local \in Pointer!OwnPixel /\ sample \in Pointer!Sample \cup {None}
  /\ guard \in Pointer!OwnPixel \cup {None}

FarOK ==
  /\ handoff \in Pointer!FarPixel \cup {None}
  /\ start \in Pointer!OwnPixel \cup Pointer!FarPixel \cup {None}
  /\ remote \in Pointer!OwnPixel \cup Pointer!FarPixel \cup {None}
  /\ shown \in (Screen \ Own) \cup {None} /\ known \in (Screen \ Own) \cup {None}
  /\ trip \in Pointer!Trip \cup {None}

FlagsOK ==
  /\ mode \in {"self", "pending", "target"}
  /\ held \in BOOLEAN /\ due \in BOOLEAN /\ stray \in BOOLEAN

LEMMA TypesAre == Pointer!PointerTypeOK <=> SelfOK /\ FarOK /\ FlagsOK
BY DEF Pointer!PointerTypeOK, SelfOK, FarOK, FlagsOK

(***************************************************************************)
(* On a target, the remote pointer is on the screen that is shown, which   *)
(* is the one the target's edges are looked up for, until a move of no     *)
(* length has put it elsewhere; and where a trip began is where the way    *)
(* back along its line leads.                                              *)
(***************************************************************************)
OnTarget ==
  /\ mode # "target" => remote = None
  /\ mode = "target" => shown = Pointer!FarHere /\ (stray \/ remote # None)

LeadsBack ==
  trip # None =>
    /\ known # None
    /\ LET back == Pointer!Opposite[trip.dir]
           a    == Pointer!Across(trip.dir)
       IN /\ Beside[known][back] \in Own
          /\ trip.at = Pointer!Anchor(Beside[known][back], back,
                         Pointer!Ratio(trip.line, 1, Pointer!Low(Rect[known], a),
                                                     Pointer!High(Rect[known], a)))

PointerInv == SelfOK /\ FarOK /\ FlagsOK /\ OnTarget /\ Pointer!OnItsScreen /\ LeadsBack

LEMMA NoneIsNoPlace ==
  /\ None \notin Screen /\ None \notin Pointer!Point /\ None \notin Pointer!Sample
  /\ None \notin Pointer!Trip
  /\ First \in Screen \ Own /\ Primary \in Screen \ Own /\ Own \subseteq Screen
BY ScreensAreKnown

LEMMA Routes ==
  ASSUME NEW s \in Screen, NEW d \in Pointer!Direction
  PROVE  /\ Pointer!Resolve(s, d) = "self-warp" =>
              Beside[s][d] \in Screen /\ (Beside[s][d] \in Own <=> s \in Own)
         /\ Pointer!Resolve(s, d) = "target-switch" =>
              Beside[s][d] \in Screen /\ (Beside[s][d] \in Own <=> s \notin Own)
<1>1. Beside[s][d] \in Screen \cup {None}
  BY ScreensAreKnown
<1>. DEFINE next == Beside[s][d]
<1>2. CASE next = None
  <2>1. Pointer!Resolve(s, d) = IF s \in Own THEN "block" ELSE "allow"
    BY <1>2 DEF Pointer!Resolve
  <2>. QED BY <2>1
<1>3. CASE next # None /\ (next \in Own <=> s \in Own)
  <2>1. Pointer!Resolve(s, d) = "self-warp"
    BY <1>3 DEF Pointer!Resolve
  <2>. QED BY <1>1, <1>3, <2>1
<1>4. CASE next # None /\ ~(next \in Own <=> s \in Own)
  <2>1. Pointer!Resolve(s, d) = "target-switch"
    BY <1>4 DEF Pointer!Resolve
  <2>. QED BY <1>1, <1>4, <2>1
<1>. QED BY <1>2, <1>3, <1>4

LEMMA SelfFacts ==
  ASSUME SelfOK, NEW m \in Moves
  PROVE  /\ Pointer!At(m) \in Pointer!Point /\ Pointer!Seen(m) \in Pointer!Point
         /\ Pointer!Here \in Own /\ local \in Pointer!Pixels(Pointer!Here)
         /\ sample # None => sample.screen \in Own /\ sample.at \in Pointer!Point
<1>1. local \in Pointer!Point /\ m \in Pointer!Point
  BY PixelsAre, ScreensAreKnown DEF SelfOK
<1>2. Pointer!At(m) \in Pointer!Point
  BY <1>1 DEF Pointer!At, Pointer!Plus, Pointer!Point
<1>3. Pointer!Here \in Own /\ local \in Pointer!Pixels(Pointer!Here)
  BY OnAScreen DEF SelfOK, Pointer!Here
<1>. QED BY <1>1, <1>2, <1>3 DEF SelfOK, Pointer!Seen, Pointer!Sample

LEMMA ContactDoes ==
  ASSUME SelfOK, NEW m \in Moves, Pointer!Contact(m) # None
  PROVE  LET c == Pointer!Contact(m)
             a == Pointer!Across(c.edge.dir)
         IN /\ c.screen \in Own /\ c.edge.dir \in Pointer!Direction /\ GoodRatio(c.edge.ratio)
            /\ c.screen = Pointer!Here =>
                 c.edge.ratio = Pointer!Ratio(Pointer!Seen(m)[a], 1, Pointer!Low(Rect[c.screen], a),
                                                                     Pointer!High(Rect[c.screen], a))
<1>. DEFINE cross == IF sample # None /\ sample.screen # Pointer!Here
                     THEN Pointer!Crossing(Rect[sample.screen], sample.at, Pointer!Seen(m)) ELSE None
            press == Pointer!Press(Rect[Pointer!Here], Pointer!Seen(m))
<1>1. Own \subseteq Screen
  BY NoneIsNoPlace
<1>2. CASE cross # None
  <2>1. sample # None /\ sample.screen # Pointer!Here /\ sample.screen \in Own
    BY <1>2, SelfFacts
  <2>2. cross.dir \in Pointer!Direction /\ GoodRatio(cross.ratio)
    BY <1>1, <1>2, <2>1, SelfFacts, CrossingDoes
  <2>. HIDE DEF cross
  <2>3. Pointer!Contact(m) = [screen |-> sample.screen, edge |-> cross]
    BY <1>2 DEF Pointer!Contact, cross
  <2>4. Pointer!Contact(m).screen = sample.screen /\ Pointer!Contact(m).edge = cross
    BY <2>3
  <2>. QED BY <2>1, <2>2, <2>4
<1>3. CASE cross = None
  <2>. HIDE DEF cross
  <2>1. press # None /\ Pointer!Contact(m) = [screen |-> Pointer!Here, edge |-> press]
    BY <1>3 DEF Pointer!Contact, cross
  <2>2. Pointer!Contact(m).screen = Pointer!Here /\ Pointer!Contact(m).edge = press
    BY <2>1
  <2>3. LET a == Pointer!Across(press.dir)
        IN /\ press.dir \in Pointer!Direction /\ GoodRatio(press.ratio)
           /\ press.ratio = Pointer!Ratio(Pointer!Seen(m)[a], 1, Pointer!Low(Rect[Pointer!Here], a),
                                                                 Pointer!High(Rect[Pointer!Here], a))
    BY <1>1, <2>1, SelfFacts, PressDoes
  <2>. HIDE DEF press
  <2>. QED BY <2>2, <2>3, SelfFacts
<1>. QED BY <1>2, <1>3

(***************************************************************************)
(* Moves on the controller's own screens.                                  *)
(***************************************************************************)
LEMMA OwnKept ==
  ASSUME PointerInv, SelfOK', held' \in BOOLEAN,
         UNCHANGED <<mode, handoff, due, start, remote, shown, known, stray, trip>>
  PROVE  PointerInv'
<1>1. FarOK'
  BY DEF PointerInv, FarOK
<1>2. FlagsOK'
  BY DEF PointerInv, FlagsOK
<1>3. OnTarget' /\ Pointer!OnItsScreen'
  BY DEF PointerInv, OnTarget, Pointer!OnItsScreen, Pointer!FarHere
<1>4. LeadsBack'
  BY DEF PointerInv, LeadsBack
<1>. QED BY <1>1, <1>2, <1>3, <1>4 DEF PointerInv

LEMMA OwnMoves ==
  ASSUME PointerInv, NEW m \in Moves,
         \/ Pointer!MoveAtAnchor(m) \/ Pointer!MoveHeld(m) \/ Pointer!MoveWithin(m)
         \/ Pointer!MoveBlocked(m) \/ Pointer!MoveWarped(m) \/ Pointer!MoveRefused(m)
  PROVE  PointerInv'
<1>. USE DEF PointerInv
<1>1. /\ Pointer!At(m) \in Pointer!Point /\ Pointer!Seen(m) \in Pointer!Point
      /\ Pointer!Here \in Own /\ Own \subseteq Screen /\ local \in Pointer!Point
  BY SelfFacts, NoneIsNoPlace, PixelsAre DEF SelfOK
<1>2. \A s \in Own, p \in Pointer!Point :
        Pointer!Clamp(p, Rect[s]) \in Pointer!OwnPixel
  BY <1>1, Screens, PixelsAre
<1>3. \A d : \A s \in Own, p \in Pointer!Point : Pointer!Blocked(s, d, p) \in Pointer!OwnPixel
  BY <1>1, BlockedOnScreen, PixelsAre
<1>4. held' \in BOOLEAN /\ UNCHANGED <<mode, handoff, due, start, remote, shown, known, stray, trip>>
  BY DEF FlagsOK, Pointer!MoveAtAnchor, Pointer!MoveHeld, Pointer!MoveWithin, Pointer!MoveBlocked,
         Pointer!MoveWarped, Pointer!MoveRefused, Pointer!farVars, Pointer!Block
<1>. SUFFICES SelfOK'
  BY <1>4, OwnKept
<1>5. CASE Pointer!MoveAtAnchor(m)
  BY <1>1, <1>5, Desktop DEF SelfOK, Pointer!MoveAtAnchor, Pointer!Moved
<1>6. CASE Pointer!MoveHeld(m)
  BY <1>1, <1>2, <1>6 DEF SelfOK, Pointer!MoveHeld
<1>7. CASE Pointer!MoveWithin(m)
  <2>1. [screen |-> Pointer!Here, at |-> Pointer!Seen(m)] \in Pointer!Sample
    BY <1>1 DEF Pointer!Sample
  <2>. QED BY <1>1, <1>7, <2>1, Desktop DEF SelfOK, Pointer!MoveWithin, Pointer!Moved
<1>8. CASE Pointer!MoveBlocked(m)
  <2>1. ASSUME NEW s \in Own, NEW p \in Pointer!OwnPixel, Pointer!Block(s, p)
        PROVE  local' \in Pointer!OwnPixel
    BY <1>1, <1>2, <2>1 DEF Pointer!Block
  <2>2. ASSUME Pointer!Preblocked(m) PROVE local' \in Pointer!OwnPixel
    <3>1. sample.screen \in Own
      BY <2>2, SelfFacts DEF Pointer!Preblocked
    <3>2. PICK d : Pointer!Block(sample.screen, Pointer!Blocked(sample.screen, d, Pointer!At(m)))
      BY <1>8, <2>2 DEF Pointer!MoveBlocked
    <3>3. Pointer!Blocked(sample.screen, d, Pointer!At(m)) \in Pointer!OwnPixel
      BY <1>1, <1>3, <3>1
    <3>. QED BY <2>1, <3>1, <3>2, <3>3
  <2>3. ASSUME ~Pointer!Preblocked(m) PROVE local' \in Pointer!OwnPixel
    <3>1. Pointer!Contact(m).screen \in Own
      BY <1>8, <2>3, ContactDoes DEF Pointer!MoveBlocked
    <3>2. PICK d : Pointer!Block(Pointer!Contact(m).screen, Pointer!Blocked(Pointer!Contact(m).screen, d, local))
      BY <1>8, <2>3 DEF Pointer!MoveBlocked
    <3>3. Pointer!Blocked(Pointer!Contact(m).screen, d, local) \in Pointer!OwnPixel
      BY <1>1, <1>3, <3>1
    <3>. QED BY <2>1, <3>1, <3>2, <3>3
  <2>4. local' \in Pointer!OwnPixel
    BY <2>2, <2>3
  <2>. QED BY <1>8, <2>4 DEF SelfOK, Pointer!MoveBlocked
<1>9. CASE Pointer!MoveWarped(m)
  <2>. DEFINE c == Pointer!Contact(m)
              s == Beside[c.screen][c.edge.dir]
  <2>1. c.screen \in Own /\ c.edge.dir \in Pointer!Direction /\ GoodRatio(c.edge.ratio)
    BY <1>9, ContactDoes DEF Pointer!MoveWarped
  <2>2. /\ Pointer!Resolve(c.screen, c.edge.dir) = "self-warp"
        /\ local' = Pointer!Adjusted(Pointer!Anchor(s, c.edge.dir, c.edge.ratio), s)
    BY <1>9 DEF Pointer!MoveWarped
  <2>. HIDE DEF c
  <2>3. s \in Own
    BY <1>1, <2>1, <2>2, Routes
  <2>. HIDE DEF s
  <2>4. Pointer!Anchor(s, c.edge.dir, c.edge.ratio) \in Pointer!Point
    BY <1>1, <2>1, <2>3, AnchorOnScreen, PixelsAre
  <2>5. local' \in Pointer!OwnPixel
    BY <1>1, <2>2, <2>3, <2>4, AdjustedOnScreen, PixelsAre
  <2>. QED BY <1>9, <2>5 DEF SelfOK, Pointer!MoveWarped
<1>10. CASE Pointer!MoveRefused(m)
  BY <1>1, <1>10, Desktop DEF SelfOK, Pointer!MoveRefused, Pointer!Moved
<1>. QED BY <1>5, <1>6, <1>7, <1>8, <1>9, <1>10

(***************************************************************************)
(* The router's states.                                                    *)
(***************************************************************************)
LEMMA LeaveKept ==
  ASSUME PointerInv, NEW m \in Moves, Pointer!Leave(m)
  PROVE  PointerInv'
<1>. USE DEF PointerInv
<1>. DEFINE c == Pointer!Contact(m)
            d == c.edge.dir
            s == Beside[c.screen][d]
            a == Pointer!Across(d)
            there == c.edge.ratio
<1>1. /\ c # None /\ Pointer!Resolve(c.screen, d) = "target-switch"
      /\ handoff' = Pointer!Anchor(s, d, there) /\ known' = s
      /\ trip' = IF c.screen # Pointer!Here \/ Pointer!Span(Pointer!Here, d) > Pointer!Span(s, d) THEN None
                 ELSE [dir |-> d, at |-> Pointer!Blocked(Pointer!Here, d, Pointer!Seen(m)),
                       line |-> handoff'[a]]
      /\ mode # "target" /\ mode' = "pending" /\ guard' = None
      /\ UNCHANGED <<held, due, start, remote, shown, stray>>
      /\ \/ local' = Parking /\ sample' = None
         \/ UNCHANGED <<local, sample>>
  BY DEF Pointer!Leave, Pointer!FreeMove, Pointer!SelfMove, Pointer!Restore
<1>2. /\ c.screen \in Own /\ d \in Pointer!Direction /\ GoodRatio(there)
      /\ c.screen = Pointer!Here =>
           there = Pointer!Ratio(Pointer!Seen(m)[a], 1, Pointer!Low(Rect[c.screen], a),
                                                        Pointer!High(Rect[c.screen], a))
  BY <1>1, ContactDoes
<1>3. /\ Pointer!Seen(m) \in Pointer!Point /\ Pointer!Here \in Own /\ Own \subseteq Screen
  BY SelfFacts, NoneIsNoPlace
<1>. HIDE DEF c, there
<1>4. s \in Screen \ Own
  BY <1>1, <1>2, <1>3, Routes
<1>5. handoff' \in Pointer!Pixels(s)
  BY <1>1, <1>2, <1>4, AnchorOnScreen
<1>6. handoff' \in Pointer!FarPixel /\ handoff' \in Pointer!Point
  BY <1>4, <1>5, PixelsAre
<1>7. ASSUME trip' # None
      PROVE  /\ c.screen = Pointer!Here /\ trip'.dir = d
             /\ trip'.at = Pointer!Blocked(Pointer!Here, d, Pointer!Seen(m))
             /\ trip'.line = handoff'[a]
             /\ ~(Pointer!Span(Pointer!Here, d) > Pointer!Span(s, d))
             /\ trip' \in Pointer!Trip
  <2>1. /\ c.screen = Pointer!Here /\ ~(Pointer!Span(Pointer!Here, d) > Pointer!Span(s, d))
        /\ trip' = [dir |-> d, at |-> Pointer!Blocked(Pointer!Here, d, Pointer!Seen(m)), line |-> handoff'[a]]
    BY <1>1, <1>7
  <2>2. Pointer!Blocked(Pointer!Here, d, Pointer!Seen(m)) \in Pointer!OwnPixel
    BY <1>3, BlockedOnScreen, PixelsAre
  <2>3. handoff'[a] \in Int
    BY <1>6, Axes DEF Pointer!Point
  <2>. QED BY <1>2, <2>1, <2>2, <2>3 DEF Pointer!Trip
<1>8. SelfOK'
  BY <1>1, Desktop DEF SelfOK
<1>9. FarOK'
  BY <1>1, <1>4, <1>6, <1>7 DEF FarOK
<1>10. FlagsOK'
  BY <1>1 DEF FlagsOK
<1>11. OnTarget' /\ Pointer!OnItsScreen'
  BY <1>1 DEF OnTarget, Pointer!OnItsScreen
<1>12. ASSUME trip' # None
       PROVE  LET back == Pointer!Opposite[trip'.dir]
                  e    == Pointer!Across(trip'.dir)
              IN /\ Beside[s][back] \in Own
                 /\ trip'.at = Pointer!Anchor(Beside[s][back], back,
                                 Pointer!Ratio(trip'.line, 1, Pointer!Low(Rect[s], e), Pointer!High(Rect[s], e)))
  <2>1. Beside[Pointer!Here][d] = s /\ Beside[s][Pointer!Opposite[d]] = Pointer!Here
    BY <1>2, <1>3, <1>4, <1>7, <1>12, ScreensAreKnown
  <2>2. Pointer!Span(Pointer!Here, d) <= Pointer!Span(s, d)
    <3>1. Pointer!Span(Pointer!Here, d) \in Int /\ Pointer!Span(s, d) \in Int
      <4>1. \A q \in Screen : \A e : Pointer!Span(q, e) \in Int
        BY Screens DEF Pointer!Span
      <4>. HIDE DEF s, d
      <4>. QED BY <1>3, <1>4, <4>1
    <3>. QED BY <1>7, <1>12, <3>1
  <2>3. there = Pointer!Ratio(Pointer!Seen(m)[a], 1, Pointer!Low(Rect[Pointer!Here], a),
                                                     Pointer!High(Rect[Pointer!Here], a))
    BY <1>2, <1>7, <1>12
  <2>4. trip'.line = Pointer!Anchor(s, d, there)[a]
    BY <1>1, <1>7, <1>12
  <2>5. Pointer!Anchor(Pointer!Here, Pointer!Opposite[d],
          Pointer!Ratio(trip'.line, 1, Pointer!Low(Rect[s], a), Pointer!High(Rect[s], a)))
        = Pointer!Blocked(Pointer!Here, d, Pointer!Seen(m))
    <3>. HIDE DEF s, d
    <3>. QED BY <1>2, <1>3, <1>4, <2>2, <2>3, <2>4, TripBack
  <2>. QED BY <1>3, <1>7, <1>12, <2>1, <2>5
<1>13. LeadsBack'
  <2>1. known' # None
    BY <1>1, <1>4, NoneIsNoPlace
  <2>. HIDE DEF s
  <2>. QED BY <1>1, <1>12, <2>1 DEF LeadsBack
<1>. QED BY <1>8, <1>9, <1>10, <1>11, <1>13

LEMMA RouterKept ==
  ASSUME PointerInv,
         \/ \E p \in {Pointer!Center(Primary), None} : Pointer!Choose(p)
         \/ Pointer!Grant \/ Pointer!Lose \/ Pointer!GuardEnds
         \/ \E p \in Pointer!OwnPixel \cup Pointer!FarPixel \cup {None} : Pointer!HandOff(p)
  PROVE  PointerInv'
<1>. USE DEF PointerInv, Pointer!farVars, Pointer!localVars
<1>1. ASSUME NEW p \in {Pointer!Center(Primary), None}, Pointer!Choose(p)
      PROVE  PointerInv'
  <2>1. p \in Pointer!FarPixel \cup {None}
    BY CenterOnScreen, PixelsAre, NoneIsNoPlace
  <2>2. SelfOK' /\ FarOK'
    BY <1>1, <2>1, Desktop DEF SelfOK, FarOK, Pointer!Choose, Pointer!Restore
  <2>3. FlagsOK' /\ OnTarget' /\ Pointer!OnItsScreen' /\ LeadsBack'
    BY <1>1 DEF FlagsOK, OnTarget, Pointer!OnItsScreen, LeadsBack, Pointer!Choose
  <2>. QED BY <2>2, <2>3
<1>2. CASE Pointer!Grant
  <2>1. SelfOK' /\ FarOK'
    BY <1>2, Desktop, NoneIsNoPlace DEF SelfOK, FarOK, Pointer!Grant, Pointer!Restore
  <2>2. FlagsOK'
    BY <1>2 DEF FlagsOK, Pointer!Grant
  <2>3. OnTarget' /\ Pointer!OnItsScreen' /\ LeadsBack'
    BY <1>2 DEF OnTarget, Pointer!OnItsScreen, LeadsBack, Pointer!Grant, Pointer!FarHere
  <2>. QED BY <2>1, <2>2, <2>3
<1>3. CASE Pointer!Lose
  <2>1. SelfOK' /\ FarOK'
    BY <1>3, Desktop DEF SelfOK, FarOK, Pointer!Lose, Pointer!Return, Pointer!Restore
  <2>2. FlagsOK'
    BY <1>3 DEF FlagsOK, Pointer!Lose, Pointer!Return
  <2>3. OnTarget' /\ Pointer!OnItsScreen' /\ LeadsBack'
    BY <1>3 DEF OnTarget, Pointer!OnItsScreen, LeadsBack, Pointer!Lose, Pointer!Return
  <2>. QED BY <2>1, <2>2, <2>3
<1>4. CASE Pointer!GuardEnds
  BY <1>4 DEF Pointer!GuardEnds, SelfOK, FarOK, FlagsOK, OnTarget, Pointer!OnItsScreen, LeadsBack, Pointer!FarHere
<1>5. ASSUME NEW p \in Pointer!OwnPixel \cup Pointer!FarPixel \cup {None}, Pointer!HandOff(p)
      PROVE  PointerInv'
  <2>1. SelfOK' /\ FarOK'
    BY <1>5 DEF SelfOK, FarOK, Pointer!HandOff
  <2>2. FlagsOK'
    BY <1>5 DEF FlagsOK, Pointer!HandOff
  <2>3. OnTarget' /\ Pointer!OnItsScreen' /\ LeadsBack'
    BY <1>5 DEF OnTarget, Pointer!OnItsScreen, LeadsBack, Pointer!HandOff, Pointer!FarHere
  <2>. QED BY <2>1, <2>2, <2>3
<1>. QED BY <1>1, <1>2, <1>3, <1>4, <1>5

(***************************************************************************)
(* Moves on the target.                                                    *)
(***************************************************************************)
LEMMA FarFacts ==
  ASSUME PointerInv, mode = "target", NEW m \in Moves
  PROVE  /\ Pointer!FarHere \in Screen \ Own /\ shown = Pointer!FarHere
         /\ Pointer!Origin \in Pointer!OwnPixel \cup Pointer!FarPixel
         /\ Pointer!By(m) # <<0, 0>> => Pointer!Onward(m) \in Pointer!Pixels(Pointer!FarHere)
         /\ Pointer!Onward(m) \in Pointer!OwnPixel \cup Pointer!FarPixel
         /\ Pointer!Onward(m) \in Pointer!Point
<1>. USE DEF PointerInv
<1>1. Pointer!FarHere \in Screen \ Own /\ shown = Pointer!FarHere
  BY NoneIsNoPlace DEF FarOK, OnTarget, Pointer!FarHere
<1>2. Pointer!Origin \in Pointer!OwnPixel \cup Pointer!FarPixel
  BY <1>1, CenterOnScreen, PixelsAre DEF FarOK, Pointer!Origin
<1>3. Parking \in Pointer!Point /\ Pointer!Origin \in Pointer!Point /\ Pointer!At(m) \in Pointer!Point
  BY <1>2, Desktop, PixelsAre, SelfFacts
<1>4. CASE Pointer!By(m) # <<0, 0>>
  <2>1. Pointer!By(m) \in Pointer!Point
    BY <1>3 DEF Pointer!By, Pointer!Minus, Pointer!Point
  <2>2. Pointer!Plus(Pointer!Origin, Pointer!By(m)) \in Pointer!Point
    BY <1>3, <2>1 DEF Pointer!Plus, Pointer!Point
  <2>3. Pointer!Onward(m) \in Pointer!Pixels(Pointer!FarHere)
    BY <1>1, <1>4, <2>2, Screens DEF Pointer!Onward
  <2>. QED BY <1>1, <1>2, <2>3, PixelsAre
<1>5. CASE Pointer!By(m) = <<0, 0>>
  <2>1. Pointer!At(m) = Parking
    <3>1. \A p, q \in Pointer!Point : p[1] - q[1] = 0 /\ p[2] - q[2] = 0 => p = q
      <4>1. \A i, j \in Int : i - j = 0 => i = j
        OBVIOUS
      <4>2. \A p \in Pointer!Point : p[1] \in Int /\ p[2] \in Int /\ p = <<p[1], p[2]>>
        BY DEF Pointer!Point
      <4>. QED BY <4>1, <4>2
    <3>2. Pointer!At(m)[1] - Parking[1] = 0 /\ Pointer!At(m)[2] - Parking[2] = 0
      BY <1>5 DEF Pointer!By, Pointer!Minus
    <3>. QED BY <1>3, <3>1, <3>2
  <2>2. Pointer!Onward(m) = Parking
    BY <1>5, <2>1 DEF Pointer!Onward
  <2>. QED BY <1>1, <1>2, <1>3, <1>5, <2>2, Desktop
<1>. QED BY <1>4, <1>5

\* what lies across an edge of the target's screen
LEMMA FarRoutes ==
  ASSUME PointerInv, mode = "target", NEW m \in Moves,
         Pointer!FarRoute(m) \in {"self-warp", "target-switch"}
  PROVE  /\ Pointer!FarContact(m).dir \in Pointer!Direction
         /\ LET a == Pointer!Across(Pointer!FarContact(m).dir)
            IN Pointer!FarContact(m).ratio = Pointer!Ratio(Pointer!Onward(m)[a], 1,
                 Pointer!Low(Rect[Pointer!FarHere], a), Pointer!High(Rect[Pointer!FarHere], a))
         /\ Pointer!FarRoute(m) = "self-warp" => Pointer!FarBeside(m) \in Screen \ Own
         /\ Pointer!FarRoute(m) = "target-switch" => Pointer!FarBeside(m) \in Own
         /\ Pointer!FarAnchor(m) \in Pointer!Pixels(Pointer!FarBeside(m))
<1>1. /\ Pointer!FarContact(m) # None
      /\ Pointer!FarRoute(m) = Pointer!Resolve(Pointer!FarHere, Pointer!FarContact(m).dir)
  BY DEF Pointer!FarRoute
<1>2. Pointer!FarHere \in Screen \ Own /\ Pointer!Onward(m) \in Pointer!Point
  BY FarFacts
<1>3. /\ Pointer!FarContact(m).dir \in Pointer!Direction /\ GoodRatio(Pointer!FarContact(m).ratio)
      /\ LET a == Pointer!Across(Pointer!FarContact(m).dir)
         IN Pointer!FarContact(m).ratio = Pointer!Ratio(Pointer!Onward(m)[a], 1,
              Pointer!Low(Rect[Pointer!FarHere], a), Pointer!High(Rect[Pointer!FarHere], a))
  <2>. DEFINE press == Pointer!Press(Rect[Pointer!FarHere], Pointer!Onward(m))
  <2>1. LET a == Pointer!Across(press.dir)
        IN /\ press.dir \in Pointer!Direction
           /\ press.ratio = Pointer!Ratio(Pointer!Onward(m)[a], 1,
                Pointer!Low(Rect[Pointer!FarHere], a), Pointer!High(Rect[Pointer!FarHere], a))
           /\ GoodRatio(press.ratio)
    BY <1>1, <1>2, PressDoes DEF Pointer!FarContact
  <2>2. Pointer!FarContact(m) = press
    BY DEF Pointer!FarContact
  <2>. HIDE DEF press
  <2>. QED BY <2>1, <2>2
<1>4. /\ Pointer!FarRoute(m) = "self-warp" => Pointer!FarBeside(m) \in Screen \ Own
      /\ Pointer!FarRoute(m) = "target-switch" => Pointer!FarBeside(m) \in Own
  BY <1>1, <1>2, <1>3, Routes DEF Pointer!FarBeside
<1>5. Pointer!FarAnchor(m) \in Pointer!Pixels(Pointer!FarBeside(m))
  BY <1>3, <1>4, NoneIsNoPlace, AnchorOnScreen DEF Pointer!FarAnchor
<1>. QED BY <1>3, <1>4, <1>5

LEMMA FarKept ==
  ASSUME PointerInv, NEW m \in Moves,
         \/ Pointer!FarMoveDropped(m) \/ Pointer!FarMoveAtAnchor(m)
         \/ Pointer!FarMoveWithin(m) \/ Pointer!FarMoveWarped(m)
  PROVE  PointerInv'
<1>. USE DEF PointerInv
<1>1. mode = "target" /\ mode' = mode /\ held' = FALSE /\ UNCHANGED <<handoff, due, start, sample>>
  BY DEF Pointer!FarMoveDropped, Pointer!FarMoveAtAnchor, Pointer!FarMoveWithin, Pointer!FarMoveWarped,
         Pointer!FarMoveSent, Pointer!FarMove
<1>2. /\ Pointer!FarHere \in Screen \ Own /\ shown = Pointer!FarHere
      /\ Pointer!Origin \in Pointer!OwnPixel \cup Pointer!FarPixel
      /\ Pointer!By(m) # <<0, 0>> => Pointer!Onward(m) \in Pointer!Pixels(Pointer!FarHere)
      /\ Pointer!Onward(m) \in Pointer!OwnPixel \cup Pointer!FarPixel
  BY <1>1, FarFacts
<1>3. None \notin Screen /\ None \notin Pointer!OwnPixel \cup Pointer!FarPixel
  BY NoneIsNoPlace, PixelsAre
<1>4. CASE Pointer!FarMoveDropped(m)
  <2>. USE <1>4 DEF Pointer!FarMoveDropped
  <2>1. remote' = Pointer!Origin /\ start # None /\ UNCHANGED <<shown, known, stray, trip, guard>>
    OBVIOUS
  <2>2. SelfOK' /\ FarOK'
    BY <1>1, <1>2, <2>1, Desktop DEF SelfOK, FarOK, Pointer!Recentered
  <2>3. FlagsOK'
    BY <1>1, <2>1 DEF FlagsOK
  <2>4. OnTarget'
    BY <1>1, <1>2, <1>3, <2>1 DEF OnTarget, Pointer!FarHere
  <2>5. Pointer!OnItsScreen'
    BY <1>1, <1>2, <1>3, <2>1 DEF OnTarget, Pointer!OnItsScreen, Pointer!FarHere, Pointer!Origin
  <2>6. LeadsBack'
    BY <2>1 DEF LeadsBack
  <2>. QED BY <2>2, <2>3, <2>4, <2>5, <2>6
<1>5. ASSUME Pointer!FarMoveSent(m), remote' = Pointer!Onward(m), guard' \in {guard, None},
             shown' = Pointer!FarHere, known' \in {known, Pointer!FarHere}
      PROVE  PointerInv'
  <2>1. /\ stray' = (Pointer!By(m) = <<0, 0>>) /\ trip' \in {trip, None}
        /\ local' = Parking
    BY <1>5 DEF Pointer!FarMoveSent, Pointer!Recentered
  <2>2. SelfOK' /\ FarOK'
    BY <1>1, <1>2, <1>5, <2>1, Desktop DEF SelfOK, FarOK
  <2>3. stray' \in BOOLEAN
    BY <2>1
  <2>4. FlagsOK'
    BY <1>1, <2>3 DEF FlagsOK
  <2>5. Pointer!FarHere' = Pointer!FarHere
    BY <1>3, <1>5, <1>2 DEF Pointer!FarHere
  <2>6. OnTarget'
    BY <1>1, <1>2, <1>3, <1>5, <2>5 DEF OnTarget
  <2>7. Pointer!OnItsScreen'
    <3>1. ~stray' => remote' \in Pointer!Pixels(shown')
      BY <1>2, <1>5, <2>1
    <3>2. shown' = Pointer!FarHere'
      BY <1>5, <2>5
    <3>. QED BY <3>1, <3>2 DEF Pointer!OnItsScreen
  <2>8. LeadsBack'
    <3>1. trip' # None => trip' = trip /\ known # None /\ known' = known
      BY <1>5, <2>1 DEF LeadsBack, Pointer!FarHere
    <3>. QED BY <3>1 DEF LeadsBack
  <2>. QED BY <2>2, <2>4, <2>6, <2>7, <2>8
<1>6. CASE Pointer!FarMoveAtAnchor(m)
  <2>1. /\ Pointer!FarMoveSent(m) /\ remote' = Pointer!Onward(m) /\ guard' = guard
        /\ shown' = shown /\ known' = known
    BY <1>6 DEF Pointer!FarMoveAtAnchor
  <2>. QED BY <1>2, <1>5, <2>1
<1>7. CASE Pointer!FarMoveWithin(m)
  <2>1. /\ Pointer!FarMoveSent(m) /\ remote' = Pointer!Onward(m) /\ guard' = None
        /\ shown' = Pointer!FarHere /\ known' = Pointer!FarHere
    BY <1>7 DEF Pointer!FarMoveWithin, Pointer!Follow
  <2>. QED BY <1>5, <2>1
<1>8. CASE Pointer!FarMoveWarped(m)
  <2>1. /\ guard' = None /\ Pointer!FarRoute(m) = "self-warp"
        /\ remote' = Pointer!FarAnchor(m) /\ shown' = Pointer!FarBeside(m)
        /\ known' = Pointer!FarBeside(m) /\ local' = Pointer!ToDesk(Pointer!FarAnchor(m))
        /\ stray' = FALSE /\ trip' = None
    BY <1>8 DEF Pointer!FarMoveWarped, Pointer!Follow
  <2>2. /\ Pointer!FarBeside(m) \in Screen \ Own
        /\ Pointer!FarAnchor(m) \in Pointer!Pixels(Pointer!FarBeside(m))
    BY <1>1, <2>1, FarRoutes
  <2>3. Pointer!FarAnchor(m) \in Pointer!FarPixel /\ Pointer!FarAnchor(m) \in Pointer!Point
    BY <2>2, PixelsAre
  <2>4. SelfOK' /\ FarOK'
    BY <1>1, <2>1, <2>2, <2>3, Desktop DEF SelfOK, FarOK
  <2>5. FlagsOK'
    BY <1>1, <2>1 DEF FlagsOK
  <2>6. Pointer!FarHere' = shown'
    BY <1>3, <2>1, <2>2 DEF Pointer!FarHere
  <2>7. OnTarget' /\ Pointer!OnItsScreen'
    BY <1>1, <1>3, <2>1, <2>2, <2>3, <2>6 DEF OnTarget, Pointer!OnItsScreen
  <2>8. LeadsBack'
    BY <2>1 DEF LeadsBack
  <2>. QED BY <2>4, <2>5, <2>7, <2>8
<1>. QED BY <1>4, <1>6, <1>7, <1>8

LEMMA BackKept ==
  ASSUME PointerInv, NEW m \in Moves, Pointer!Back(m)
  PROVE  PointerInv'
<1>. USE DEF PointerInv
<1>1. /\ mode = "target" /\ Pointer!FarRoute(m) = "target-switch" /\ held' = FALSE
      /\ mode' = "self" /\ local' = Pointer!FarAnchor(m) /\ sample' = None /\ guard' = local'
      /\ handoff' = None /\ start' = None /\ remote' = None /\ shown' = None
      /\ stray' = FALSE /\ trip' = None /\ due' = due /\ known' = Pointer!FarHere
  BY DEF Pointer!Back, Pointer!FarMove, Pointer!Return, Pointer!Restore
<1>2. local' \in Pointer!OwnPixel
  BY <1>1, FarRoutes, PixelsAre
<1>3. Pointer!FarHere \in Screen \ Own
  BY <1>1, FarFacts
<1>4. SelfOK' /\ FarOK'
  BY <1>1, <1>2, <1>3 DEF SelfOK, FarOK
<1>5. FlagsOK'
  BY <1>1 DEF FlagsOK
<1>6. OnTarget' /\ Pointer!OnItsScreen' /\ LeadsBack'
  BY <1>1 DEF OnTarget, Pointer!OnItsScreen, LeadsBack
<1>. QED BY <1>4, <1>5, <1>6

LEMMA PointerKept ==
  ASSUME PointerInv, Pointer!PointerNext
  PROVE  PointerInv'
BY OwnMoves, LeaveKept, RouterKept, FarKept, BackKept DEF Pointer!PointerNext

\* a pointer that comes back along its line arrives where it has left from
LEMMA ComesBack ==
  ASSUME PointerInv, NEW m \in Moves, Pointer!Back(m), Pointer!OnTrip(Pointer!Onward(m)),
         Pointer!FarContact(m).dir = Pointer!Opposite[trip.dir]
  PROVE  local' = trip.at
<1>. USE DEF PointerInv
<1>1. /\ mode = "target" /\ Pointer!FarRoute(m) = "target-switch" /\ local' = Pointer!FarAnchor(m)
  BY DEF Pointer!Back, Pointer!FarMove, Pointer!Return, Pointer!Restore
<1>2. trip # None /\ trip.dir \in Pointer!Direction /\ Pointer!Onward(m)[Pointer!Across(trip.dir)] = trip.line
  BY DEF Pointer!OnTrip, FarOK, Pointer!Trip
<1>3. known # None /\ Pointer!FarHere = known
  BY <1>2 DEF LeadsBack, Pointer!FarHere
<1>. DEFINE back == Pointer!Opposite[trip.dir]
            a    == Pointer!Across(trip.dir)
            ratio == Pointer!Ratio(trip.line, 1, Pointer!Low(Rect[known], a), Pointer!High(Rect[known], a))
<1>4. trip.at = Pointer!Anchor(Beside[known][back], back, ratio)
  BY <1>2 DEF LeadsBack
<1>5. Pointer!Across(back) = a
  BY <1>2, OppositeEdges
<1>6. Pointer!FarContact(m).dir = back /\ Pointer!FarContact(m).ratio = ratio
  BY <1>1, <1>2, <1>3, <1>5, FarRoutes
<1>. HIDE DEF ratio, back
<1>. QED BY <1>1, <1>3, <1>4, <1>6 DEF Pointer!FarAnchor, Pointer!FarBeside

-----------------------------------------------------------------------------

PartInv == part \in {"keys", "pointer", "guard"} /\ (part = "pointer" => PointerInv)

LEMMA PointerStart ==
  ASSUME InputInit
  PROVE  PartInv
<1>1. Pointer!PointerInit /\ part \in {"keys", "pointer", "guard"}
  BY DEF InputInit
<1>2. SelfOK /\ FarOK /\ FlagsOK
  BY <1>1, Desktop DEF Pointer!PointerInit, SelfOK, FarOK, FlagsOK
<1>3. OnTarget /\ Pointer!OnItsScreen /\ LeadsBack
  BY <1>1 DEF Pointer!PointerInit, OnTarget, Pointer!OnItsScreen, LeadsBack
<1>. QED BY <1>1, <1>2, <1>3 DEF PartInv, PointerInv

LEMMA PartKept ==
  ASSUME PartInv, [InputNext]_<<part, keyVars, pointerVars, guardVars>>
  PROVE  PartInv'
<1>1. CASE PointerStep
  BY <1>1, PointerKept DEF PartInv, PointerStep
<1>2. CASE UNCHANGED <<part, pointerVars>>
  <2>1. PointerInv => PointerInv'
    BY <1>2 DEF PointerInv, SelfOK, FarOK, FlagsOK, OnTarget, Pointer!OnItsScreen, Pointer!FarHere,
                LeadsBack, pointerVars
  <2>. QED BY <1>2, <2>1 DEF PartInv
<1>3. CASE KeyStep \/ GuardStep
  <2>1. part \in {"keys", "guard"} /\ part' = part
    BY <1>3 DEF KeyStep, GuardStep
  <2>. QED BY <2>1 DEF PartInv
<1>. QED BY <1>1, <1>2, <1>3 DEF InputNext

(***************************************************************************)
(* For any screens that are rectangles and any moves: the remote pointer   *)
(* is on the screen whose edges it is checked against.                     *)
(***************************************************************************)
THEOREM PointerStays == InputSpec => []PointerOnItsScreen
<1>1. PartInv => PointerOnItsScreen
  BY TypesAre DEF PartInv, PointerInv, PointerOnItsScreen
<1>. QED BY <1>1, PointerStart, PartKept, PTL DEF InputSpec

(***************************************************************************)
(* For any screens: straight there and straight back leads to the pixel    *)
(* one has left from, whatever the two lengths are that positions are      *)
(* scaled by and rounded to.                                               *)
(***************************************************************************)
THEOREM RoundTripExact == InputSpec => ThereAndBack
<1>1. ASSUME PartInv, [InputNext]_<<part, keyVars, pointerVars, guardVars>>
      PROVE  [mode = "target" /\ mode' = "self" =>
               \A m \in Moves :
                 Pointer!Back(m) /\ Pointer!OnTrip(Pointer!Onward(m))
                 /\ Pointer!FarContact(m).dir = Pointer!Opposite[trip.dir]
                   => local' = trip.at]_Pointer!vars
  <2>1. CASE PointerStep
    <3>1. PointerInv
      BY <1>1, <2>1 DEF PartInv, PointerStep
    <3>. QED BY <3>1, ComesBack
  <2>2. CASE UNCHANGED pointerVars
    BY <2>2 DEF pointerVars, Pointer!vars, Pointer!localVars, Pointer!farVars
  <2>. QED BY <1>1, <2>1, <2>2 DEF InputNext, KeyStep, GuardStep
<1>. QED BY <1>1, PointerStart, PartKept, PTL DEF InputSpec, ThereAndBack, Pointer!ThereAndBack

-----------------------------------------------------------------------------
(***************************************************************************)
(* A target tells what it injects from its user's input.  What carries     *)
(* OverrideIsWanted is that the keys on their way to the hooks are         *)
(* remembered, each by a mark of its own that is no older (KeysMarked);    *)
(* everything else that is on its way has come with remote input that is   *)
(* recent (InTime).                                                        *)
(***************************************************************************)
InOrderOf(s, ttl) ==
  /\ s \in Seq(Nat)
  /\ \A i \in 1 .. Len(s) : s[i] < ttl
  /\ \A i, j \in 1 .. Len(s) : i < j => s[j] <= s[i]

AreMarks(m) ==
  /\ m = [k \in Guarded!Kind |-> m[k]]
  /\ \A k \in Guarded!Kind : InOrderOf(m[k], Ttl[k])
  /\ Len(m["move"]) <= MaxMoves

EventsOK ==
  /\ events \in Seq(Guarded!Aged)
  /\ recent \in 0 .. Grace + 1
  /\ authorized \in BOOLEAN /\ unmarked \in BOOLEAN /\ override \in BOOLEAN
  /\ touched \in BOOLEAN /\ letGo \in BOOLEAN

\* the keys among the events q, each with a mark of m
KeysIn(q) == {i \in 1 .. Len(q) : q[i].kind = "key"}

Matched(q, m) ==
  \E f \in [KeysIn(q) -> 1 .. Len(m)] :
    /\ \A i, j \in KeysIn(q) : i < j => f[i] < f[j]
    /\ \A i \in KeysIn(q) : m[f[i]] <= q[i].age

KeysMarked == ~touched => Matched(events, marks["key"])

InTime ==
  authorized /\ ~touched /\ ~letGo =>
    \A i \in 1 .. Len(events) : events[i].kind = "key" \/ recent <= events[i].age

GuardInv == AreMarks(marks) /\ EventsOK /\ KeysMarked /\ InTime /\ Guarded!OverrideIsWanted
LEMMA LeastOf ==
  ASSUME NEW T, T \subseteq Nat, T # {}
  PROVE  \E x \in T : \A y \in T : x <= y
<1>1. \E x \in T : \A y \in T : ~(<<y, x>> \in OpToRel(<, Nat))
  BY WFMin, NatLessThanWellFounded, Zenon
<1>2. PICK x \in T : \A y \in T : ~(<<y, x>> \in OpToRel(<, Nat))
  BY <1>1
<1>3. \A y \in T : ~(y < x)
  BY <1>2 DEF OpToRel
<1>4. \A y \in T : y \in Nat
  OBVIOUS
<1>5. \A y \in T : x <= y
  BY <1>3, <1>4, x \in Nat
<1>. QED BY <1>5

LEMMA PurgedDoes ==
  ASSUME NEW s \in Seq(Nat), NEW ttl \in Nat
  PROVE  \E n \in 0 .. Len(s) :
           /\ Guarded!Purged(s, ttl) \in Seq(Nat)
           /\ Len(Guarded!Purged(s, ttl)) = Len(s) - n
           /\ \A i \in 1 .. Len(s) - n : Guarded!Purged(s, ttl)[i] = s[i + n]
           /\ \A i \in 1 .. n : ttl <= s[i]
           /\ n < Len(s) => s[n + 1] < ttl
<1>. DEFINE Q(i) == /\ i <= Len(s) => s[i] < ttl
                    /\ \A j \in 1 .. i - 1 : s[j] >= ttl
            T == {i \in 1 .. Len(s) + 1 : i <= Len(s) => s[i] < ttl}
<1>1. Len(s) \in Nat /\ \A i \in 1 .. Len(s) : s[i] \in Nat
  OBVIOUS
<1>2. Len(s) + 1 \in T /\ T \subseteq Nat
  BY <1>1
<1>3. PICK x \in T : \A y \in T : x <= y
  BY <1>2, LeastOf
<1>4. x \in 1 .. Len(s) + 1 /\ Q(x)
  BY <1>1, <1>3
<1>. DEFINE c == CHOOSE i \in 1 .. Len(s) + 1 : Q(i)
<1>5. c \in 1 .. Len(s) + 1 /\ Q(c)
  <2>. HIDE DEF Q
  <2>. QED BY <1>4
<1>6. Guarded!Purged(s, ttl) = SubSeq(s, c, Len(s))
  BY DEF Guarded!Purged, Guarded!InForce
<1>. HIDE DEF c
<1>7. SubSeq(s, c, Len(s)) \in Seq(Nat) /\ Len(SubSeq(s, c, Len(s))) = Len(s) - (c - 1)
  BY <1>1, <1>5
<1>8. \A i \in 1 .. Len(s) - (c - 1) : SubSeq(s, c, Len(s))[i] = s[i + (c - 1)]
  BY <1>1, <1>5
<1>9. c - 1 \in 0 .. Len(s) /\ (\A i \in 1 .. c - 1 : ttl <= s[i]) /\ (c - 1 < Len(s) => s[(c - 1) + 1] < ttl)
  BY <1>1, <1>5
<1>. QED BY <1>6, <1>7, <1>8, <1>9

LEMMA InOrderIs ==
  ASSUME NEW s, NEW ttl, InOrderOf(s, ttl)
  PROVE  /\ s \in Seq(Nat) /\ Len(s) \in Nat /\ DOMAIN s = 1 .. Len(s)
         /\ \A i \in 1 .. Len(s) : s[i] \in Nat /\ s[i] < ttl
         /\ \A i, j \in 1 .. Len(s) : i < j => s[j] <= s[i]
BY DEF InOrderOf

LEMMA ShiftInOrder ==
  ASSUME NEW s, NEW ttl \in Nat, InOrderOf(s, ttl), NEW t \in Seq(Nat), NEW n \in Nat, NEW d \in Nat,
         Len(t) + n <= Len(s),
         \A i \in 1 .. Len(t) : t[i] = s[i + n] + d /\ t[i] < ttl
  PROVE  InOrderOf(t, ttl)
<1>1. Len(s) \in Nat /\ Len(t) \in Nat
  BY InOrderIs
<1>2. ASSUME NEW i \in 1 .. Len(t), NEW j \in 1 .. Len(t), i < j
      PROVE  t[j] <= t[i]
  <2>1. i + n \in 1 .. Len(s) /\ j + n \in 1 .. Len(s) /\ i + n < j + n
    BY <1>1, <1>2
  <2>2. s[j + n] <= s[i + n] /\ s[j + n] \in Nat /\ s[i + n] \in Nat
    BY <2>1, InOrderIs
  <2>3. t[i] = s[i + n] + d /\ t[j] = s[j + n] + d
    OBVIOUS
  <2>4. \A x, y \in Nat : y <= x => y + d <= x + d
    OBVIOUS
  <2>. QED BY <2>2, <2>3, <2>4, Zenon
<1>. QED BY <1>2 DEF InOrderOf

LEMMA AppendInOrder ==
  ASSUME NEW s, NEW ttl \in Nat \ {0}, InOrderOf(s, ttl)
  PROVE  InOrderOf(Append(s, 0), ttl)
<1>. DEFINE t == Append(s, 0)
<1>1. s \in Seq(Nat) /\ Len(s) \in Nat
      /\ \A i \in 1 .. Len(s) : s[i] \in Nat /\ s[i] < ttl
  BY InOrderIs
<1>2. t \in Seq(Nat) /\ Len(t) = Len(s) + 1 /\ t[Len(s) + 1] = 0
      /\ \A i \in 1 .. Len(s) : t[i] = s[i]
  BY <1>1
<1>. HIDE DEF t
<1>3. ASSUME NEW i \in 1 .. Len(s) + 1
      PROVE  t[i] \in Nat /\ t[i] < ttl /\ (i = Len(s) + 1 => t[i] = 0)
  <2>1. i \in 1 .. Len(s) \/ i = Len(s) + 1
    BY <1>1
  <2>2. CASE i \in 1 .. Len(s)
    <3>1. t[i] = s[i] /\ s[i] \in Nat /\ s[i] < ttl /\ i # Len(s) + 1
      BY <1>1, <1>2, <2>2
    <3>. QED BY <3>1
  <2>3. CASE i = Len(s) + 1
    BY <1>2, <2>3
  <2>. QED BY <2>1, <2>2, <2>3
<1>4. ASSUME NEW i \in 1 .. Len(s) + 1, NEW j \in 1 .. Len(s) + 1, i < j
      PROVE  t[j] <= t[i]
  <2>1. CASE j = Len(s) + 1
    BY <1>3, <2>1
  <2>2. CASE j # Len(s) + 1
    <3>1. i \in 1 .. Len(s) /\ j \in 1 .. Len(s)
      BY <1>1, <1>4, <2>2
    <3>2. s[j] <= s[i]
      BY <1>4, <3>1, InOrderIs
    <3>. QED BY <1>2, <3>1, <3>2
  <2>. QED BY <2>1, <2>2
<1>5. InOrderOf(t, ttl)
  BY <1>2, <1>3, <1>4 DEF InOrderOf
<1>. QED BY <1>5 DEF t

LEMMA TailInOrder ==
  ASSUME NEW s, NEW ttl \in Nat \ {0}, InOrderOf(s, ttl), s # <<>>
  PROVE  /\ InOrderOf(Tail(s), ttl) /\ Len(Tail(s)) = Len(s) - 1
         /\ \A i \in 1 .. Len(s) - 1 : Tail(s)[i] = s[i + 1]
<1>. DEFINE t == Tail(s)
<1>1. s \in Seq(Nat) /\ Len(s) \in Nat /\ \A i \in 1 .. Len(s) : s[i] \in Nat /\ s[i] < ttl
  BY InOrderIs
<1>2. t \in Seq(Nat) /\ Len(t) = Len(s) - 1 /\ \A i \in 1 .. Len(s) - 1 : t[i] = s[i + 1]
  BY <1>1
<1>. HIDE DEF t
<1>3. \A i \in 1 .. Len(t) : t[i] = s[i + 1] + 0 /\ t[i] < ttl
  BY <1>1, <1>2
<1>4. ttl \in Nat /\ Len(t) + 1 <= Len(s) /\ Len(s) \in Nat
  BY <1>1, <1>2
<1>5. InOrderOf(t, ttl)
  BY <1>2, <1>3, <1>4, 0 \in Nat, 1 \in Nat, ShiftInOrder
<1>. QED BY <1>2, <1>5 DEF t

LEMMA FrontInOrder ==
  ASSUME NEW s, NEW ttl \in Nat \ {0}, InOrderOf(s, ttl), s # <<>>
  PROVE  /\ InOrderOf(SubSeq(s, 1, Len(s) - 1), ttl)
         /\ Len(SubSeq(s, 1, Len(s) - 1)) = Len(s) - 1
<1>. DEFINE t == SubSeq(s, 1, Len(s) - 1)
<1>1. s \in Seq(Nat) /\ Len(s) \in Nat /\ \A i \in 1 .. Len(s) : s[i] \in Nat /\ s[i] < ttl
  BY InOrderIs
<1>2. Len(s) - 1 \in Nat
  BY <1>1
<1>3. t \in Seq(Nat) /\ Len(t) = Len(s) - 1 /\ \A i \in 1 .. Len(s) - 1 : t[i] = s[i]
  <2>. DEFINE m == Len(s) - 1
  <2>1. m \in Int /\ 1 \in Int /\ \A i \in 1 .. m : s[i] \in Nat
    BY <1>1, <1>2
  <2>. HIDE DEF m
  <2>2. /\ SubSeq(s, 1, m) \in Seq(Nat) /\ Len(SubSeq(s, 1, m)) = IF 1 <= m THEN m - 1 + 1 ELSE 0
        /\ \A i \in 1 .. m - 1 + 1 : SubSeq(s, 1, m)[i] = s[1 + i - 1]
    BY <2>1, SubSeqProperties
  <2>3. m \in Nat /\ m - 1 + 1 = m /\ \A i \in 1 .. m : 1 + i - 1 = i
    BY <1>2 DEF m
  <2>4. Len(SubSeq(s, 1, m)) = m /\ \A i \in 1 .. m : SubSeq(s, 1, m)[i] = s[i]
    BY <2>2, <2>3
  <2>. QED BY <2>2, <2>4 DEF m
<1>. HIDE DEF t
<1>4. \A i \in 1 .. Len(t) : t[i] = s[i + 0] + 0 /\ t[i] < ttl
  BY <1>1, <1>3
<1>5. ttl \in Nat /\ Len(t) + 0 <= Len(s) /\ Len(s) \in Nat
  BY <1>1, <1>3
<1>6. InOrderOf(t, ttl)
  BY <1>3, <1>4, <1>5, 0 \in Nat, ShiftInOrder
<1>. QED BY <1>3, <1>6 DEF t

LEMMA AgedInOrder ==
  ASSUME NEW s, NEW ttl \in Nat \ {0}, InOrderOf(s, ttl)
  PROVE  \E n \in 0 .. Len(s) :
           LET t == Guarded!Purged(Guarded!Older(s), ttl) IN
           /\ InOrderOf(t, ttl)
           /\ Len(t) = Len(s) - n
           /\ \A i \in 1 .. Len(s) - n : t[i] = s[i + n] + 1
           /\ \A i \in 1 .. n : ttl <= s[i] + 1
<1>. DEFINE o == Guarded!Older(s)
            t == Guarded!Purged(o, ttl)
<1>1. Len(s) \in Nat /\ DOMAIN s = 1 .. Len(s) /\ \A i \in 1 .. Len(s) : s[i] \in Nat
  BY InOrderIs
<1>2. o = [i \in 1 .. Len(s) |-> s[i] + 1]
  BY <1>1 DEF Guarded!Older
<1>3. o \in Seq(Nat) /\ Len(o) = Len(s) /\ \A i \in 1 .. Len(s) : o[i] = s[i] + 1
  BY <1>1, <1>2
<1>. HIDE DEF o
<1>4. PICK n \in 0 .. Len(s) :
        /\ t \in Seq(Nat)
        /\ Len(t) = Len(s) - n
        /\ \A i \in 1 .. Len(s) - n : t[i] = o[i + n]
        /\ \A i \in 1 .. n : ttl <= o[i]
        /\ n < Len(s) => o[n + 1] < ttl
  BY <1>3, PurgedDoes
<1>. HIDE DEF t
<1>5. \A i \in 1 .. Len(s) - n : t[i] = s[i + n] + 1
  BY <1>1, <1>3, <1>4
<1>7. ASSUME NEW i \in 1 .. Len(t) PROVE t[i] < ttl
  <2>1. i + n \in 1 .. Len(s) /\ n + 1 \in 1 .. Len(s) /\ n < Len(s) /\ i \in 1 .. Len(s) - n
    BY <1>1, <1>4
  <2>2. s[i + n] <= s[n + 1]
    <3>1. CASE n + 1 < i + n
      BY <2>1, <3>1, InOrderIs
    <3>2. CASE i = 1
      BY <3>2, <2>1, <1>1
    <3>. QED BY <3>1, <3>2, <2>1, <1>1
  <2>3. s[n + 1] + 1 < ttl
    BY <1>3, <1>4, <2>1
  <2>. QED BY <1>1, <1>5, <2>1, <2>2, <2>3
<1>8. ASSUME NEW i \in 1 .. n PROVE ttl <= s[i] + 1
  <2>1. i \in 1 .. Len(s)
    BY <1>1
  <2>2. o[i] = s[i] + 1 /\ ttl <= o[i]
    BY <1>3, <1>4, <2>1
  <2>. QED BY <2>2
<1>9. InOrderOf(t, ttl)
  <2>1. \A i \in 1 .. Len(t) : t[i] = s[i + n] + 1 /\ t[i] < ttl
    BY <1>4, <1>5, <1>7
  <2>2. ttl \in Nat /\ n \in Nat /\ Len(t) + n <= Len(s) /\ t \in Seq(Nat)
    BY <1>1, <1>4
  <2>. QED BY <2>1, <2>2, 1 \in Nat, ShiftInOrder
<1>. QED BY <1>4, <1>5, <1>8, <1>9 DEF t, o

LEMMA Config ==
  /\ Guarded!Kind = {"key", "button", "wheel", "move"}
  /\ \A k \in Guarded!Kind : Ttl[k] \in Nat \ {0}
  /\ Grace \in Nat /\ Delay \in Nat /\ Delay <= Grace /\ Delay < Ttl["key"]
  /\ MaxMoves \in Nat \ {0}
BY HooksAreQuick DEF Guarded!Kind

LEMMA RememberedOK ==
  ASSUME AreMarks(marks), NEW k \in Guarded!Kind
  PROVE  /\ AreMarks(Guarded!Remembered(k))
         /\ Guarded!Remembered(k)["key"] = IF k = "key" THEN Append(marks["key"], 0) ELSE marks["key"]
<1>. DEFINE kept == IF k = "move" /\ Len(marks[k]) = MaxMoves THEN Tail(marks[k]) ELSE marks[k]
            m == [marks EXCEPT ![k] = Append(kept, 0)]
<1>1. InOrderOf(marks[k], Ttl[k]) /\ Ttl[k] \in Nat \ {0} /\ MaxMoves \in Nat \ {0}
      /\ InOrderOf(marks["move"], Ttl["move"])
  BY Config DEF AreMarks
<1>2. InOrderOf(kept, Ttl[k]) /\ (k = "move" => Len(kept) <= MaxMoves - 1)
  <2>1. CASE k = "move" /\ Len(marks[k]) = MaxMoves
    <3>1. marks[k] # <<>>
      BY <1>1, <2>1
    <3>. QED BY <1>1, <2>1, <3>1, TailInOrder
  <2>2. CASE ~(k = "move" /\ Len(marks[k]) = MaxMoves)
    <3>1. Len(marks["move"]) <= MaxMoves /\ Len(marks["move"]) \in Nat
      BY <1>1, InOrderIs DEF AreMarks
    <3>. QED BY <1>1, <2>2, <3>1
  <2>. QED BY <2>1, <2>2
<1>3. kept = IF k = "move" THEN kept ELSE marks[k]
  OBVIOUS
<1>. HIDE DEF kept
<1>4. InOrderOf(Append(kept, 0), Ttl[k]) /\ Len(Append(kept, 0)) = Len(kept) + 1
      /\ Len(kept) \in Nat
  BY <1>1, <1>2, AppendInOrder, InOrderIs
<1>5. m = [kind \in Guarded!Kind |-> IF kind = k THEN Append(kept, 0) ELSE marks[kind]]
  BY DEF AreMarks
<1>. HIDE DEF m
<1>6. \A kind \in Guarded!Kind : m[kind] = IF kind = k THEN Append(kept, 0) ELSE marks[kind]
  BY <1>5
<1>7. m = [kind \in Guarded!Kind |-> m[kind]]
  BY <1>5
<1>8. \A kind \in Guarded!Kind : InOrderOf(m[kind], Ttl[kind])
  BY <1>4, <1>6 DEF AreMarks
<1>9. Len(m["move"]) <= MaxMoves
  <2>1. "move" \in Guarded!Kind
    BY Config
  <2>2. CASE k = "move"
    <3>1. m["move"] = Append(kept, 0)
      BY <1>6, <2>1, <2>2
    <3>2. Len(kept) <= MaxMoves - 1 /\ Len(kept) \in Nat /\ Len(Append(kept, 0)) = Len(kept) + 1
      BY <1>2, <1>4, <2>2
    <3>. QED BY <1>1, <3>1, <3>2
  <2>3. CASE k # "move"
    BY <1>6, <2>1, <2>3 DEF AreMarks
  <2>. QED BY <2>2, <2>3
<1>10. AreMarks(m)
  BY <1>7, <1>8, <1>9 DEF AreMarks
<1>11. m["key"] = IF k = "key" THEN Append(marks["key"], 0) ELSE marks["key"]
  BY <1>3, <1>6, Config
<1>. QED BY <1>10, <1>11 DEF m, kept, Guarded!Remembered

LEMMA ConsumedOK ==
  ASSUME AreMarks(marks), NEW k \in Guarded!Kind, marks[k] # <<>>
  PROVE  /\ AreMarks(Guarded!Consumed(k))
         /\ Guarded!Consumed(k)["key"] = IF k = "key" THEN Tail(marks["key"]) ELSE marks["key"]
<1>. DEFINE s == IF k = "move" THEN SubSeq(marks[k], 1, Len(marks[k]) - 1) ELSE Tail(marks[k])
            m == [marks EXCEPT ![k] = s]
<1>1. InOrderOf(marks[k], Ttl[k]) /\ Ttl[k] \in Nat \ {0} /\ MaxMoves \in Nat \ {0}
  BY Config DEF AreMarks
<1>2. InOrderOf(s, Ttl[k]) /\ Len(s) = Len(marks[k]) - 1 /\ Len(marks[k]) \in Nat
  BY <1>1, TailInOrder, FrontInOrder, InOrderIs
<1>3. k = "key" => s = Tail(marks["key"])
  OBVIOUS
<1>. HIDE DEF s
<1>4. m = [kind \in Guarded!Kind |-> IF kind = k THEN s ELSE marks[kind]]
  BY DEF AreMarks
<1>5. m = Guarded!Consumed(k)
  BY DEF Guarded!Consumed, s
<1>. HIDE DEF m
<1>6. \A kind \in Guarded!Kind : m[kind] = IF kind = k THEN s ELSE marks[kind]
  BY <1>4
<1>7. m = [kind \in Guarded!Kind |-> m[kind]]
  BY <1>4
<1>8. \A kind \in Guarded!Kind : InOrderOf(m[kind], Ttl[kind])
  BY <1>2, <1>6 DEF AreMarks
<1>9. Len(m["move"]) <= MaxMoves
  BY <1>1, <1>2, <1>6, Config DEF AreMarks
<1>10. AreMarks(m)
  BY <1>7, <1>8, <1>9 DEF AreMarks
<1>11. m["key"] = IF k = "key" THEN Tail(marks["key"]) ELSE marks["key"]
  BY <1>3, <1>6, Config
<1>. QED BY <1>5, <1>10, <1>11

LEMMA AgedOK ==
  ASSUME AreMarks(marks),
         NEW m, m = [k \in Guarded!Kind |-> Guarded!Purged(Guarded!Older(marks[k]), Ttl[k])]
  PROVE  AreMarks(m)
<1>1. ASSUME NEW k \in Guarded!Kind
      PROVE  InOrderOf(m[k], Ttl[k]) /\ Len(m[k]) <= Len(marks[k])
  <2>1. InOrderOf(marks[k], Ttl[k]) /\ Ttl[k] \in Nat \ {0}
    BY Config DEF AreMarks
  <2>2. PICK n \in 0 .. Len(marks[k]) : InOrderOf(m[k], Ttl[k]) /\ Len(m[k]) = Len(marks[k]) - n
    BY <2>1, AgedInOrder
  <2>3. Len(marks[k]) \in Nat
    BY <2>1, InOrderIs
  <2>. QED BY <2>2, <2>3
<1>2. "move" \in Guarded!Kind /\ MaxMoves \in Nat
  BY Config
<1>3. Len(m["move"]) \in Nat /\ Len(marks["move"]) \in Nat
  BY <1>1, <1>2, InOrderIs DEF AreMarks
<1>4. Len(m["move"]) <= MaxMoves
  BY <1>1, <1>2, <1>3 DEF AreMarks
<1>5. m = [k \in Guarded!Kind |-> m[k]]
  OBVIOUS
<1>. QED BY <1>1, <1>4, <1>5 DEF AreMarks

-----------------------------------------------------------------------------
LEMMA NoneQueued ==
  ASSUME NEW m PROVE Matched(<<>>, m)
<1>1. KeysIn(<<>>) = {}
  BY DEF KeysIn
<1>. DEFINE f == [i \in KeysIn(<<>>) |-> 0]
<1>2. f \in [KeysIn(<<>>) -> 1 .. Len(m)]
  BY <1>1
<1>. QED BY <1>1, <1>2 DEF Matched

LEMMA EventsAre ==
  ASSUME NEW q \in Seq(Guarded!Aged)
  PROVE  /\ Len(q) \in Nat
         /\ \A i \in 1 .. Len(q) : q[i] \in Guarded!Aged /\ q[i].age \in 0 .. Delay
         /\ KeysIn(q) \subseteq 1 .. Len(q)
<1>1. \A e \in Guarded!Aged : e.age \in 0 .. Delay
  BY DEF Guarded!Aged
<1>. QED BY <1>1 DEF KeysIn

\* what is added is no key
LEMMA OthersArrive ==
  ASSUME NEW q \in Seq(Guarded!Aged), NEW s \in Seq(Guarded!Aged), NEW m,
         \A i \in 1 .. Len(s) : s[i].kind # "key", Matched(q, m)
  PROVE  Matched(q \o s, m)
<1>. DEFINE r == q \o s
<1>1. Len(q) \in Nat /\ Len(s) \in Nat /\ Len(r) = Len(q) + Len(s)
      /\ (\A i \in 1 .. Len(q) : r[i] = q[i])
      /\ (\A i \in 1 .. Len(s) : r[Len(q) + i] = s[i])
  OBVIOUS
<1>2. \A i \in 1 .. Len(r) : i \in 1 .. Len(q) \/ (i - Len(q) \in 1 .. Len(s) /\ r[i] = s[i - Len(q)])
  <2>1. SUFFICES ASSUME NEW i \in 1 .. Len(r), i \notin 1 .. Len(q)
                 PROVE  i - Len(q) \in 1 .. Len(s) /\ r[i] = s[i - Len(q)]
    OBVIOUS
  <2>2. i - Len(q) \in 1 .. Len(s) /\ Len(q) + (i - Len(q)) = i
    BY <1>1, <2>1
  <2>. QED BY <1>1, <2>2
<1>. HIDE DEF r
<1>3. KeysIn(r) = KeysIn(q)
  BY <1>1, <1>2 DEF KeysIn
<1>4. \A i \in KeysIn(q) : r[i] = q[i]
  BY <1>1 DEF KeysIn
<1>5. Matched(r, m)
  BY <1>3, <1>4 DEF Matched
<1>. QED BY <1>5 DEF r

LEMMA MarkAdded ==
  ASSUME NEW q \in Seq(Guarded!Aged), NEW m \in Seq(Nat), Matched(q, m)
  PROVE  Matched(q, Append(m, 0))
<1>1. PICK f \in [KeysIn(q) -> 1 .. Len(m)] :
        /\ \A i, j \in KeysIn(q) : i < j => f[i] < f[j]
        /\ \A i \in KeysIn(q) : m[f[i]] <= q[i].age
  BY DEF Matched
<1>. DEFINE n == Append(m, 0)
<1>2. Len(n) = Len(m) + 1 /\ Len(m) \in Nat /\ \A i \in 1 .. Len(m) : n[i] = m[i]
  OBVIOUS
<1>. HIDE DEF n
<1>3. f \in [KeysIn(q) -> 1 .. Len(n)]
  BY <1>1, <1>2
<1>4. \A i \in KeysIn(q) : n[f[i]] <= q[i].age
  BY <1>1, <1>2
<1>5. Matched(q, n)
  BY <1>1, <1>3, <1>4 DEF Matched
<1>. QED BY <1>5 DEF n

\* a key is added, and its mark with it
LEMMA KeyArrives ==
  ASSUME NEW q \in Seq(Guarded!Aged), NEW m \in Seq(Nat), Matched(q, m)
  PROVE  Matched(q \o <<Guarded!Fresh("key")>>, Append(m, 0))
<1>1. PICK f \in [KeysIn(q) -> 1 .. Len(m)] :
        /\ \A i, j \in KeysIn(q) : i < j => f[i] < f[j]
        /\ \A i \in KeysIn(q) : m[f[i]] <= q[i].age
  BY DEF Matched
<1>. DEFINE n == Append(m, 0)
            e == Guarded!Fresh("key")
            r == q \o <<e>>
<1>2. Len(n) = Len(m) + 1 /\ Len(m) \in Nat /\ n[Len(m) + 1] = 0 /\ \A i \in 1 .. Len(m) : n[i] = m[i]
  OBVIOUS
<1>3. e.kind = "key" /\ e.age = 0
  BY DEF Guarded!Fresh
<1>. HIDE DEF e, n
<1>4. Len(q) \in Nat /\ Len(r) = Len(q) + 1 /\ r[Len(q) + 1] = e /\ \A i \in 1 .. Len(q) : r[i] = q[i]
  OBVIOUS
<1>. HIDE DEF r
<1>5. KeysIn(r) = KeysIn(q) \cup {Len(q) + 1} /\ KeysIn(q) \subseteq 1 .. Len(q)
  BY <1>3, <1>4 DEF KeysIn
<1>. DEFINE g == [i \in KeysIn(r) |-> IF i = Len(q) + 1 THEN Len(m) + 1 ELSE f[i]]
<1>6. /\ g[Len(q) + 1] = Len(m) + 1
      /\ \A i \in KeysIn(q) : g[i] = f[i] /\ f[i] \in 1 .. Len(m) /\ i \in 1 .. Len(q)
  BY <1>1, <1>4, <1>5
<1>7. g \in [KeysIn(r) -> 1 .. Len(n)]
  BY <1>1, <1>2, <1>4, <1>5
<1>. HIDE DEF g
<1>8. ASSUME NEW i \in KeysIn(r), NEW j \in KeysIn(r), i < j PROVE g[i] < g[j]
  <2>1. i \in KeysIn(q) /\ (j \in KeysIn(q) \/ j = Len(q) + 1)
    BY <1>4, <1>5, <1>8
  <2>2. CASE j \in KeysIn(q)
    BY <1>1, <1>6, <1>8, <2>1, <2>2
  <2>3. CASE j = Len(q) + 1
    BY <1>2, <1>6, <2>1, <2>3
  <2>. QED BY <2>1, <2>2, <2>3
<1>9. ASSUME NEW i \in KeysIn(r) PROVE n[g[i]] <= r[i].age
  <2>1. CASE i = Len(q) + 1
    BY <1>2, <1>3, <1>4, <1>6, <2>1
  <2>2. CASE i \in KeysIn(q)
    BY <1>1, <1>2, <1>4, <1>6, <2>2
  <2>. QED BY <1>5, <2>1, <2>2
<1>10. Matched(r, n)
  BY <1>7, <1>8, <1>9 DEF Matched
<1>. QED BY <1>10 DEF r, n, e

LEMMA TailIs ==
  ASSUME NEW q \in Seq(Guarded!Aged), q # <<>>
  PROVE  /\ Tail(q) \in Seq(Guarded!Aged) /\ Len(Tail(q)) = Len(q) - 1 /\ Len(q) \in Nat /\ 1 <= Len(q)
         /\ \A i \in 1 .. Len(q) - 1 : Tail(q)[i] = q[i + 1] /\ i + 1 \in 1 .. Len(q)
         /\ \A i \in KeysIn(Tail(q)) : i + 1 \in KeysIn(q) /\ i \in 1 .. Len(q) - 1
<1>1. /\ Tail(q) \in Seq(Guarded!Aged) /\ Len(Tail(q)) = Len(q) - 1 /\ Len(q) \in Nat /\ 1 <= Len(q)
      /\ \A i \in 1 .. Len(q) - 1 : Tail(q)[i] = q[i + 1] /\ i + 1 \in 1 .. Len(q)
  OBVIOUS
<1>. QED BY <1>1 DEF KeysIn

\* the first event goes and is no key
LEMMA OtherLeaves ==
  ASSUME NEW q \in Seq(Guarded!Aged), NEW m, q # <<>>, Matched(q, m)
  PROVE  Matched(Tail(q), m)
<1>1. PICK f \in [KeysIn(q) -> 1 .. Len(m)] :
        /\ \A i, j \in KeysIn(q) : i < j => f[i] < f[j]
        /\ \A i \in KeysIn(q) : m[f[i]] <= q[i].age
  BY DEF Matched
<1>. DEFINE r == Tail(q)
            g == [i \in KeysIn(r) |-> f[i + 1]]
<1>2. /\ \A i \in 1 .. Len(q) - 1 : r[i] = q[i + 1]
      /\ \A i \in KeysIn(r) : i + 1 \in KeysIn(q) /\ i \in 1 .. Len(q) - 1
  BY TailIs
<1>. HIDE DEF r
<1>3. g \in [KeysIn(r) -> 1 .. Len(m)] /\ \A i \in KeysIn(r) : g[i] = f[i + 1]
  BY <1>1, <1>2
<1>. HIDE DEF g
<1>4. ASSUME NEW i \in KeysIn(r), NEW j \in KeysIn(r), i < j PROVE g[i] < g[j]
  <2>1. i + 1 < j + 1 /\ i + 1 \in KeysIn(q) /\ j + 1 \in KeysIn(q)
    BY <1>2, <1>4
  <2>. QED BY <1>1, <1>3, <2>1
<1>5. \A i \in KeysIn(r) : m[g[i]] <= r[i].age
  BY <1>1, <1>2, <1>3
<1>6. Matched(r, m)
  BY <1>3, <1>4, <1>5 DEF Matched
<1>. QED BY <1>6 DEF r

\* the first event goes, a key, and the oldest mark with it
LEMMA KeyLeaves ==
  ASSUME NEW q \in Seq(Guarded!Aged), NEW m \in Seq(Nat), q # <<>>, Head(q).kind = "key", Matched(q, m)
  PROVE  m # <<>> /\ Matched(Tail(q), Tail(m))
<1>1. PICK f \in [KeysIn(q) -> 1 .. Len(m)] :
        /\ \A i, j \in KeysIn(q) : i < j => f[i] < f[j]
        /\ \A i \in KeysIn(q) : m[f[i]] <= q[i].age
  BY DEF Matched
<1>. DEFINE r == Tail(q)
            n == Tail(m)
            g == [i \in KeysIn(r) |-> f[i + 1] - 1]
<1>2. /\ \A i \in 1 .. Len(q) - 1 : r[i] = q[i + 1]
      /\ \A i \in KeysIn(r) : i + 1 \in KeysIn(q) /\ i \in 1 .. Len(q) - 1
      /\ Len(q) \in Nat /\ 1 <= Len(q)
  BY TailIs
<1>3. 1 \in KeysIn(q)
  BY <1>2 DEF KeysIn
<1>4. Len(m) \in Nat /\ f[1] \in 1 .. Len(m) /\ 1 <= Len(m) /\ m # <<>>
  BY <1>1, <1>3
<1>5. Len(n) = Len(m) - 1 /\ \A i \in 1 .. Len(m) - 1 : n[i] = m[i + 1]
  BY <1>4
<1>. HIDE DEF r, n
<1>6. ASSUME NEW i \in KeysIn(r) PROVE f[i + 1] \in 2 .. Len(m)
  <2>1. i + 1 \in KeysIn(q) /\ 1 < i + 1
    BY <1>2
  <2>2. f[1] < f[i + 1] /\ f[i + 1] \in 1 .. Len(m)
    BY <1>1, <1>3, <2>1
  <2>. QED BY <1>4, <2>2
<1>7. g \in [KeysIn(r) -> 1 .. Len(n)] /\ \A i \in KeysIn(r) : g[i] = f[i + 1] - 1
  <2>1. \A i \in KeysIn(r) : f[i + 1] - 1 \in 1 .. Len(n)
    BY <1>4, <1>5, <1>6
  <2>. QED BY <2>1
<1>. HIDE DEF g
<1>8. ASSUME NEW i \in KeysIn(r), NEW j \in KeysIn(r), i < j PROVE g[i] < g[j]
  <2>1. i + 1 < j + 1 /\ i + 1 \in KeysIn(q) /\ j + 1 \in KeysIn(q)
    BY <1>2, <1>8
  <2>2. f[i + 1] < f[j + 1]
    BY <1>1, <2>1
  <2>. QED BY <1>6, <1>7, <2>2
<1>9. ASSUME NEW i \in KeysIn(r) PROVE n[g[i]] <= r[i].age
  <2>1. g[i] \in 1 .. Len(m) - 1 /\ g[i] + 1 = f[i + 1]
    BY <1>4, <1>6, <1>7
  <2>2. n[g[i]] = m[f[i + 1]]
    BY <1>5, <2>1
  <2>. QED BY <1>1, <1>2, <2>2
<1>10. Matched(r, n)
  BY <1>7, <1>8, <1>9 DEF Matched
<1>. QED BY <1>4, <1>10 DEF r, n

LEMMA Shifted ==
  ASSUME NEW a \in Int, NEW b \in Int, NEW x \in a + 1 .. b
  PROVE  x - a \in 1 .. b - a /\ (x - a) + a = x
OBVIOUS

LEMMA InSeq ==
  ASSUME NEW S, NEW n \in Nat, NEW q, DOMAIN q = 1 .. n, q = [i \in 1 .. n |-> q[i]],
         \A i \in 1 .. n : q[i] \in S
  PROVE  q \in Seq(S) /\ Len(q) = n
<1>1. q \in [1 .. n -> S]
  OBVIOUS
<1>. QED BY <1>1, SeqDef

\* time passes: the marks that are forgotten are none of those of a key
LEMMA KeysAge ==
  ASSUME NEW q \in Seq(Guarded!Aged), NEW m, InOrderOf(m, Ttl["key"]), Matched(q, m),
         \A i \in 1 .. Len(q) : q[i].age < Delay,
         NEW r, r = [i \in 1 .. Len(q) |-> [q[i] EXCEPT !.age = @ + 1]],
         NEW n, n = Guarded!Purged(Guarded!Older(m), Ttl["key"])
  PROVE  Matched(r, n)
<1>1. PICK f \in [KeysIn(q) -> 1 .. Len(m)] :
        /\ \A i, j \in KeysIn(q) : i < j => f[i] < f[j]
        /\ \A i \in KeysIn(q) : m[f[i]] <= q[i].age
  BY DEF Matched
<1>2. Ttl["key"] \in Nat \ {0}
  BY Config
<1>3. PICK d \in 0 .. Len(m) :
           /\ Len(n) = Len(m) - d
           /\ \A i \in 1 .. Len(m) - d : n[i] = m[i + d] + 1
           /\ \A i \in 1 .. d : Ttl["key"] <= m[i] + 1
  BY <1>2, AgedInOrder
<1>4. Len(m) \in Nat /\ \A i \in 1 .. Len(m) : m[i] \in Nat
  BY InOrderIs
<1>5. Len(r) = Len(q) /\ \A i \in 1 .. Len(q) : r[i].kind = q[i].kind /\ r[i].age = q[i].age + 1
  <2>1. Len(q) \in Nat /\ \A i \in 1 .. Len(q) : q[i] \in Guarded!Aged
    BY EventsAre
  <2>2. \A e \in Guarded!Aged : /\ [e EXCEPT !.age = @ + 1].kind = e.kind
                              /\ [e EXCEPT !.age = @ + 1].age = e.age + 1
    BY DEF Guarded!Aged
  <2>3. Len(r) = Len(q) /\ \A i \in 1 .. Len(q) : r[i] = [q[i] EXCEPT !.age = @ + 1]
    BY <2>1
  <2>. QED BY <2>1, <2>2, <2>3
<1>6. KeysIn(r) = KeysIn(q) /\ KeysIn(q) \subseteq 1 .. Len(q)
  BY <1>5 DEF KeysIn
<1>. DEFINE g == [i \in KeysIn(r) |-> f[i] - d]
<1>7. ASSUME NEW i \in KeysIn(r) PROVE f[i] \in d + 1 .. Len(m)
  <2>1. i \in KeysIn(q) /\ i \in 1 .. Len(q) /\ f[i] \in 1 .. Len(m)
    BY <1>1, <1>6
  <2>2. m[f[i]] <= q[i].age /\ q[i].age < Delay /\ m[f[i]] \in Nat /\ q[i].age \in Nat
    BY <1>1, <1>4, <2>1, EventsAre
  <2>3. m[f[i]] + 1 < Ttl["key"]
    <3>1. Delay \in Nat /\ Delay < Ttl["key"]
      BY Config
    <3>. QED BY <1>2, <2>2, <3>1
  <2>4. f[i] \notin 1 .. d
    BY <1>2, <1>3, <2>2, <2>3
  <2>. QED BY <2>1, <2>4, <1>4
<1>8. g \in [KeysIn(r) -> 1 .. Len(n)] /\ \A i \in KeysIn(r) : g[i] = f[i] - d
  <2>1. \A i \in KeysIn(r) : f[i] - d \in 1 .. Len(n)
    BY <1>3, <1>4, <1>7
  <2>. QED BY <2>1
<1>. HIDE DEF g
<1>9. ASSUME NEW i \in KeysIn(r), NEW j \in KeysIn(r), i < j PROVE g[i] < g[j]
  <2>1. f[i] < f[j]
    BY <1>1, <1>6, <1>9
  <2>. QED BY <1>7, <1>8, <2>1
<1>10. ASSUME NEW i \in KeysIn(r) PROVE n[g[i]] <= r[i].age
  <2>1. g[i] \in 1 .. Len(m) - d /\ g[i] + d = f[i]
    <3>1. f[i] \in d + 1 .. Len(m) /\ g[i] = f[i] - d
      BY <1>7, <1>8
    <3>2. d \in Nat /\ Len(m) \in Nat
      BY <1>4
    <3>3. f[i] - d \in 1 .. Len(m) - d /\ (f[i] - d) + d = f[i]
      BY <3>1, <3>2, Shifted
    <3>. QED BY <3>1, <3>3
  <2>2. n[g[i]] = m[f[i]] + 1
    BY <1>3, <2>1
  <2>3. m[f[i]] <= q[i].age /\ m[f[i]] \in Nat /\ q[i].age \in Nat /\ r[i].age = q[i].age + 1
    BY <1>1, <1>4, <1>5, <1>6, <1>7, EventsAre
  <2>. QED BY <2>2, <2>3
<1>. QED BY <1>8, <1>9, <1>10 DEF Matched

-----------------------------------------------------------------------------
LEMMA ShownIs ==
  ASSUME NEW k \in Guarded!Kind, NEW s \in Guarded!Shown(k) \cup {<<>>}
  PROVE  /\ s \in Seq(Guarded!Aged) /\ \A i \in 1 .. Len(s) : s[i].age = 0
         /\ k = "key" => s = <<>> \/ s = <<Guarded!Fresh("key")>>
         /\ k # "key" => \A i \in 1 .. Len(s) : s[i].kind # "key"
<1>. DEFINE F(kind) == Guarded!Fresh(kind)
<1>1. \A kind \in Guarded!Kind \cup {"other", "vertical", "horizontal"} :
        F(kind) \in Guarded!Aged /\ F(kind).age = 0 /\ F(kind).kind = kind
  BY Config DEF Guarded!Fresh, Guarded!Aged
<1>2. \/ s = <<>>
      \/ s = <<F(k)>>
      \/ s = <<F("move"), F("button")>> /\ k = "button"
      \/ s = <<F("vertical"), F("horizontal")>> /\ k = "wheel"
  BY Config DEF Guarded!Shown
<1>3. Guarded!Kind = {"key", "button", "wheel", "move"}
  BY Config
<1>. HIDE DEF F
<1>4. CASE s = <<>>
  BY <1>4
<1>5. CASE s = <<F(k)>>
  <2>1. F(k) \in Guarded!Aged /\ F(k).age = 0 /\ F(k).kind = k
    BY <1>1
  <2>2. s \in Seq(Guarded!Aged) /\ Len(s) = 1 /\ s[1] = F(k)
    BY <1>5, <2>1
  <2>. QED BY <1>5, <2>1, <2>2 DEF F
<1>6. CASE s = <<F("move"), F("button")>> /\ k = "button"
  <2>1. /\ F("move") \in Guarded!Aged /\ F("move").age = 0 /\ F("move").kind = "move"
        /\ F("button") \in Guarded!Aged /\ F("button").age = 0 /\ F("button").kind = "button"
    BY <1>1, <1>3
  <2>2. s \in Seq(Guarded!Aged) /\ Len(s) = 2 /\ s[1] = F("move") /\ s[2] = F("button")
    BY <1>6, <2>1
  <2>3. \A i \in 1 .. Len(s) : s[i].age = 0 /\ s[i].kind # "key"
    BY <2>1, <2>2
  <2>. QED BY <1>6, <2>2, <2>3
<1>7. CASE s = <<F("vertical"), F("horizontal")>> /\ k = "wheel"
  <2>1. /\ F("vertical") \in Guarded!Aged /\ F("vertical").age = 0 /\ F("vertical").kind = "vertical"
        /\ F("horizontal") \in Guarded!Aged /\ F("horizontal").age = 0
        /\ F("horizontal").kind = "horizontal"
    BY <1>1
  <2>2. s \in Seq(Guarded!Aged) /\ Len(s) = 2 /\ s[1] = F("vertical") /\ s[2] = F("horizontal")
    BY <1>7, <2>1
  <2>3. \A i \in 1 .. Len(s) : s[i].age = 0 /\ s[i].kind # "key"
    BY <2>1, <2>2
  <2>. QED BY <1>7, <2>2, <2>3
<1>. QED BY <1>2, <1>4, <1>5, <1>6, <1>7

\* what is injected is remembered, if it is a key, before it is on its way
LEMMA InjectDoes ==
  ASSUME AreMarks(marks), events \in Seq(Guarded!Aged), unmarked \in BOOLEAN,
         NEW k \in Guarded!Kind, Guarded!Inject(k)
  PROVE  /\ AreMarks(marks') /\ unmarked' \in BOOLEAN
         /\ Matched(events, marks["key"]) => Matched(events', marks'["key"])
         /\ \E s \in Seq(Guarded!Aged) :
              /\ events' = events \o s /\ \A i \in 1 .. Len(s) : s[i].age = 0
              /\ k = "key" => \A i \in 1 .. Len(s) : s[i].kind = "key"
<1>1. PICK s \in Guarded!Shown(k) \cup {<<>>} : events' = events \o s
  BY DEF Guarded!Inject, Guarded!Queued
<1>2. /\ s \in Seq(Guarded!Aged) /\ \A i \in 1 .. Len(s) : s[i].age = 0
      /\ k = "key" => s = <<>> \/ s = <<Guarded!Fresh("key")>>
      /\ k # "key" => \A i \in 1 .. Len(s) : s[i].kind # "key"
  BY ShownIs
<1>3. "key" \in Guarded!Kind
  BY Config
<1>4. marks["key"] \in Seq(Nat)
  BY <1>3, InOrderIs DEF AreMarks
<1>5. AreMarks(marks') /\ marks'["key"] = IF k = "key" THEN Append(marks["key"], 0) ELSE marks["key"]
  BY RememberedOK DEF Guarded!Inject
<1>6. unmarked' \in BOOLEAN
  BY DEF Guarded!Inject
<1>7. ASSUME Matched(events, marks["key"]) PROVE Matched(events', marks'["key"])
  <2>1. CASE k # "key"
    BY <1>1, <1>2, <1>5, <1>7, <2>1, OthersArrive
  <2>2. CASE k = "key" /\ s = <<>>
    <3>1. events' = events
      BY <1>1, <2>2
    <3>. QED BY <1>4, <1>5, <1>7, <2>2, <3>1, MarkAdded
  <2>3. CASE k = "key" /\ s = <<Guarded!Fresh("key")>>
    BY <1>1, <1>4, <1>5, <1>7, <2>3, KeyArrives
  <2>. QED BY <1>2, <2>1, <2>2, <2>3
<1>8. k = "key" => \A i \in 1 .. Len(s) : s[i].kind = "key"
  <2>1. CASE s = <<>>
    BY <2>1
  <2>2. CASE s = <<Guarded!Fresh("key")>>
    BY <2>2 DEF Guarded!Fresh
  <2>. QED BY <1>2, <2>1, <2>2
<1>. QED BY <1>1, <1>2, <1>5, <1>6, <1>7, <1>8

LEMMA LongerIs ==
  ASSUME NEW q \in Seq(Guarded!Aged), NEW s \in Seq(Guarded!Aged), NEW i \in 1 .. Len(q \o s)
  PROVE  \/ i \in 1 .. Len(q) /\ (q \o s)[i] = q[i]
         \/ \E j \in 1 .. Len(s) : (q \o s)[i] = s[j]
<1>1. Len(q) \in Nat /\ Len(s) \in Nat /\ Len(q \o s) = Len(q) + Len(s)
  OBVIOUS
<1>2. CASE i \in 1 .. Len(q)
  BY <1>2
<1>3. CASE i \notin 1 .. Len(q)
  <2>. DEFINE j == i - Len(q)
  <2>1. j \in 1 .. Len(s) /\ i = Len(q) + j
    BY <1>1, <1>3
  <2>2. (q \o s)[Len(q) + j] = s[j]
    BY <2>1
  <2>. QED BY <2>1, <2>2
<1>. QED BY <1>2, <1>3

\* one step for each action; the last part of GuardInv is the property
LEMMA HandleKept ==
  ASSUME GuardInv, NEW k \in Guarded!Kind, Guarded!Handle(k)
  PROVE  GuardInv'
<1>1. /\ recent' = 0 /\ Guarded!Inject(k)
      /\ UNCHANGED <<authorized, override, touched, letGo>>
  BY DEF Guarded!Handle
<1>2. AreMarks(marks) /\ EventsOK /\ events \in Seq(Guarded!Aged) /\ unmarked \in BOOLEAN
  BY DEF GuardInv, EventsOK
<1>3. /\ AreMarks(marks') /\ unmarked' \in BOOLEAN
      /\ Matched(events, marks["key"]) => Matched(events', marks'["key"])
  BY <1>1, <1>2, InjectDoes
<1>4. PICK s \in Seq(Guarded!Aged) : events' = events \o s
  BY <1>1, <1>2, InjectDoes
<1>5. events' \in Seq(Guarded!Aged)
  BY <1>2, <1>4
<1>6. EventsOK'
  BY <1>1, <1>2, <1>3, <1>5, Config DEF EventsOK
<1>7. InTime'
  <2>1. \A i \in 1 .. Len(events') : recent' <= events'[i].age
    BY <1>1, <1>5, EventsAre
  <2>. QED BY <2>1 DEF InTime
<1>8. KeysMarked'
  BY <1>1, <1>3 DEF GuardInv, KeysMarked
<1>9. Guarded!OverrideIsWanted'
  BY <1>1 DEF GuardInv, Guarded!OverrideIsWanted
<1>. QED BY <1>3, <1>6, <1>7, <1>8, <1>9 DEF GuardInv

LEMMA ReleaseKept ==
  ASSUME GuardInv, NEW k \in Guarded!Kind, Guarded!ReleasePeer(k)
  PROVE  GuardInv'
<1>1. /\ k \in {"key", "button"} /\ Guarded!Inject(k) /\ letGo' = (letGo \/ k = "button")
      /\ UNCHANGED <<authorized, recent, override, touched>>
  BY DEF Guarded!ReleasePeer
<1>2. AreMarks(marks) /\ EventsOK /\ events \in Seq(Guarded!Aged) /\ unmarked \in BOOLEAN
  BY DEF GuardInv, EventsOK
<1>3. /\ AreMarks(marks') /\ unmarked' \in BOOLEAN
      /\ Matched(events, marks["key"]) => Matched(events', marks'["key"])
  BY <1>1, <1>2, InjectDoes
<1>4. PICK s \in Seq(Guarded!Aged) :
        /\ events' = events \o s
        /\ k = "key" => \A i \in 1 .. Len(s) : s[i].kind = "key"
  BY <1>1, <1>2, InjectDoes
<1>5. events' \in Seq(Guarded!Aged)
  BY <1>2, <1>4
<1>6. letGo' \in BOOLEAN
  BY <1>1, <1>2 DEF EventsOK
<1>7. EventsOK'
  BY <1>1, <1>2, <1>3, <1>5, <1>6 DEF EventsOK
<1>8. InTime'
  <2>1. SUFFICES ASSUME authorized', ~touched', ~letGo', NEW i \in 1 .. Len(events')
                 PROVE  events'[i].kind = "key" \/ recent' <= events'[i].age
    BY DEF InTime
  <2>2. k = "key" /\ authorized /\ ~touched /\ ~letGo
    BY <1>1, <2>1
  <2>3. CASE i \in 1 .. Len(events) /\ events'[i] = events[i]
    BY <1>1, <2>2, <2>3 DEF GuardInv, InTime
  <2>4. CASE \E j \in 1 .. Len(s) : events'[i] = s[j]
    BY <1>4, <2>2, <2>4
  <2>. QED BY <1>2, <1>4, <2>3, <2>4, LongerIs
<1>9. KeysMarked'
  BY <1>1, <1>3 DEF GuardInv, KeysMarked
<1>10. Guarded!OverrideIsWanted'
  BY <1>1 DEF GuardInv, Guarded!OverrideIsWanted
<1>. QED BY <1>3, <1>7, <1>8, <1>9, <1>10 DEF GuardInv

LEMMA RecordKept ==
  ASSUME GuardInv, Guarded!RecordMove
  PROVE  GuardInv'
<1>1. /\ marks' = Guarded!Remembered("move") /\ unmarked' = FALSE
      /\ UNCHANGED <<authorized, recent, events, override, touched, letGo>>
  BY DEF Guarded!RecordMove
<1>2. AreMarks(marks') /\ marks'["key"] = marks["key"]
  BY <1>1, RememberedOK, Config DEF GuardInv
<1>3. EventsOK'
  BY <1>1 DEF GuardInv, EventsOK
<1>4. KeysMarked' /\ InTime' /\ Guarded!OverrideIsWanted'
  BY <1>1, <1>2 DEF GuardInv, KeysMarked, InTime, Guarded!OverrideIsWanted
<1>. QED BY <1>2, <1>3, <1>4 DEF GuardInv

LEMMA AuthorizeKept ==
  ASSUME GuardInv, Guarded!Authorize
  PROVE  GuardInv'
<1>1. /\ authorized' = ~authorized /\ recent' = (IF authorized' THEN 0 ELSE Grace + 1)
      /\ override' = FALSE /\ letGo' = FALSE /\ touched' = (touched /\ events # <<>>)
      /\ UNCHANGED <<marks, unmarked, events>>
  BY DEF Guarded!Authorize
<1>2. EventsOK
  BY DEF GuardInv
<1>3. recent' \in 0 .. Grace + 1
  BY <1>1, Config
<1>4. authorized' \in BOOLEAN /\ touched' \in BOOLEAN
  BY <1>1, <1>2 DEF EventsOK
<1>5. EventsOK'
  BY <1>1, <1>2, <1>3, <1>4 DEF EventsOK
<1>6. InTime'
  <2>1. SUFFICES ASSUME authorized' PROVE \A i \in 1 .. Len(events') : recent' <= events'[i].age
    BY DEF InTime
  <2>2. recent' = 0
    BY <1>1, <2>1
  <2>. QED BY <1>5, <2>2, EventsAre DEF EventsOK
<1>7. KeysMarked'
  <2>1. SUFFICES ASSUME ~touched' PROVE Matched(events', marks'["key"])
    BY DEF KeysMarked
  <2>2. CASE events = <<>>
    BY <1>1, <2>2, NoneQueued
  <2>3. CASE events # <<>>
    BY <1>1, <2>1, <2>3 DEF GuardInv, KeysMarked
  <2>. QED BY <2>2, <2>3
<1>8. AreMarks(marks') /\ Guarded!OverrideIsWanted'
  BY <1>1 DEF GuardInv, Guarded!OverrideIsWanted
<1>. QED BY <1>5, <1>6, <1>7, <1>8 DEF GuardInv

LEMMA UserKept ==
  ASSUME GuardInv, NEW k \in Guarded!Kind \cup {"other"}, Guarded!User(k)
  PROVE  GuardInv'
<1>1. /\ events' = events \o <<Guarded!Fresh(k)>> /\ touched' = TRUE
      /\ UNCHANGED <<authorized, recent, marks, unmarked, override, letGo>>
  BY DEF Guarded!User, Guarded!Queued
<1>2. Guarded!Fresh(k) \in Guarded!Aged
  BY Config DEF Guarded!Fresh, Guarded!Aged
<1>3. events' \in Seq(Guarded!Aged)
  BY <1>1, <1>2 DEF GuardInv, EventsOK
<1>4. EventsOK'
  BY <1>1, <1>3 DEF GuardInv, EventsOK
<1>. QED BY <1>1, <1>4 DEF GuardInv, KeysMarked, InTime, Guarded!OverrideIsWanted

\* the rest of the events is in time if all of them are
LEMMA InTimeLater ==
  ASSUME GuardInv, events # <<>>, events' = Tail(events), UNCHANGED <<authorized, recent, touched, letGo>>
  PROVE  InTime' /\ events' \in Seq(Guarded!Aged)
<1>1. /\ events' \in Seq(Guarded!Aged) /\ Len(events') = Len(events) - 1
      /\ \A i \in 1 .. Len(events) - 1 : events'[i] = events[i + 1] /\ i + 1 \in 1 .. Len(events)
  BY TailIs DEF GuardInv, EventsOK
<1>. QED BY <1>1 DEF GuardInv, InTime

LEMMA SuppressedKept ==
  ASSUME GuardInv, Guarded!Suppressed
  PROVE  GuardInv'
<1>. DEFINE k == Head(events).kind
<1>1. /\ events # <<>> /\ events' = Tail(events)
      /\ k \in Guarded!Kind /\ marks[k] # <<>> /\ marks' = Guarded!Consumed(k)
      /\ UNCHANGED <<authorized, recent, unmarked, override, touched, letGo>>
  BY DEF Guarded!Suppressed
<1>2. AreMarks(marks) /\ events \in Seq(Guarded!Aged) /\ marks["key"] \in Seq(Nat)
  BY Config, InOrderIs DEF GuardInv, EventsOK, AreMarks
<1>3. AreMarks(marks') /\ marks'["key"] = IF k = "key" THEN Tail(marks["key"]) ELSE marks["key"]
  <2>. HIDE DEF k
  <2>. QED BY <1>1, <1>2, ConsumedOK
<1>4. InTime' /\ events' \in Seq(Guarded!Aged)
  BY <1>1, InTimeLater
<1>5. EventsOK'
  BY <1>1, <1>4 DEF GuardInv, EventsOK
<1>6. KeysMarked'
  <2>1. SUFFICES ASSUME ~touched' PROVE Matched(events', marks'["key"])
    BY DEF KeysMarked
  <2>2. Matched(events, marks["key"])
    BY <1>1, <2>1 DEF GuardInv, KeysMarked
  <2>3. CASE k = "key"
    BY <1>1, <1>2, <1>3, <2>2, <2>3, KeyLeaves
  <2>4. CASE k # "key"
    BY <1>1, <1>2, <1>3, <2>2, <2>4, OtherLeaves
  <2>. QED BY <2>3, <2>4
<1>7. Guarded!OverrideIsWanted'
  BY <1>1 DEF GuardInv, Guarded!OverrideIsWanted
<1>. QED BY <1>3, <1>4, <1>5, <1>6, <1>7 DEF GuardInv

\* what seems to be the user's and has no mark is no key; and what is none is in time
LEMMA ActivityKept ==
  ASSUME GuardInv, Guarded!LocalActivity
  PROVE  GuardInv'
<1>. DEFINE k == Head(events).kind
<1>1. /\ events # <<>> /\ events' = Tail(events)
      /\ k \in Guarded!Kind => marks[k] = <<>>
      /\ override' = (override \/ (authorized /\ recent > Grace))
      /\ UNCHANGED <<authorized, recent, marks, unmarked, touched, letGo>>
  BY DEF Guarded!LocalActivity, Guarded!LocalInputOverride
<1>2. events \in Seq(Guarded!Aged) /\ marks["key"] \in Seq(Nat) /\ EventsOK
  BY Config, InOrderIs DEF GuardInv, EventsOK, AreMarks
<1>3. InTime' /\ events' \in Seq(Guarded!Aged)
  BY <1>1, InTimeLater
<1>4. override' \in BOOLEAN
  BY <1>1, <1>2 DEF EventsOK
<1>5. EventsOK'
  BY <1>1, <1>2, <1>3, <1>4 DEF EventsOK
<1>6. ASSUME ~touched PROVE k # "key" /\ Matched(events', marks'["key"])
  <2>1. Matched(events, marks["key"])
    BY <1>6 DEF GuardInv, KeysMarked
  <2>2. k # "key"
    BY <1>1, <1>2, <2>1, KeyLeaves, Config
  <2>. QED BY <1>1, <1>2, <2>1, <2>2, OtherLeaves
<1>7. ASSUME ~touched, ~letGo PROVE ~override'
  <2>1. ~override
    BY <1>7 DEF GuardInv, Guarded!OverrideIsWanted
  <2>2. ASSUME authorized PROVE ~(recent > Grace)
    <3>1. 1 \in 1 .. Len(events) /\ Head(events) = events[1]
      BY <1>1, <1>2
    <3>2. recent <= events[1].age
      BY <1>6, <1>7, <2>2, <3>1 DEF GuardInv, InTime
    <3>3. events[1].age \in 0 .. Delay
      BY <1>2, <3>1, EventsAre
    <3>4. recent \in Int /\ Grace \in Nat /\ Delay \in Nat /\ Delay <= Grace
      BY <1>2, Config DEF EventsOK
    <3>. QED BY <3>2, <3>3, <3>4
  <2>. QED BY <1>1, <2>1, <2>2
<1>8. Guarded!OverrideIsWanted'
  BY <1>1, <1>7 DEF Guarded!OverrideIsWanted
<1>9. KeysMarked' /\ AreMarks(marks')
  BY <1>1, <1>6 DEF GuardInv, KeysMarked
<1>. QED BY <1>3, <1>5, <1>8, <1>9 DEF GuardInv

LEMMA TickKept ==
  ASSUME GuardInv, Guarded!Tick
  PROVE  GuardInv'
<1>1. /\ \A i \in DOMAIN events : events[i].age < Delay
      /\ marks' = [k \in Guarded!Kind |-> Guarded!Purged(Guarded!Older(marks[k]), Ttl[k])]
      /\ events' = [i \in DOMAIN events |-> [events[i] EXCEPT !.age = @ + 1]]
      /\ recent' = (IF recent > Grace THEN recent ELSE recent + 1)
      /\ UNCHANGED <<authorized, unmarked, override, touched, letGo>>
  BY DEF Guarded!Tick
<1>2. /\ AreMarks(marks) /\ EventsOK /\ events \in Seq(Guarded!Aged)
      /\ DOMAIN events = 1 .. Len(events) /\ Len(events) \in Nat
  BY DEF GuardInv, EventsOK
<1>3. AreMarks(marks')
  BY <1>1, <1>2, AgedOK
<1>4. "key" \in Guarded!Kind /\ InOrderOf(marks["key"], Ttl["key"])
      /\ marks'["key"] = Guarded!Purged(Guarded!Older(marks["key"]), Ttl["key"])
  BY <1>1, <1>2, Config DEF AreMarks
<1>5. ASSUME NEW e \in Guarded!Aged, e.age < Delay
      PROVE  /\ [e EXCEPT !.age = @ + 1] \in Guarded!Aged
             /\ [e EXCEPT !.age = @ + 1].age = e.age + 1 /\ [e EXCEPT !.age = @ + 1].kind = e.kind
  BY <1>5, Config DEF Guarded!Aged
<1>6. \A i \in 1 .. Len(events) :
        /\ events'[i] \in Guarded!Aged
        /\ events'[i].age = events[i].age + 1 /\ events'[i].kind = events[i].kind
  <2>1. SUFFICES ASSUME NEW i \in 1 .. Len(events)
                 PROVE  /\ events'[i] \in Guarded!Aged /\ events'[i].age = events[i].age + 1
                        /\ events'[i].kind = events[i].kind
    OBVIOUS
  <2>2. events'[i] = [events[i] EXCEPT !.age = @ + 1] /\ events[i].age < Delay
    BY <1>1, <1>2
  <2>3. events[i] \in Guarded!Aged
    BY <1>2, EventsAre
  <2>. QED BY <1>5, <2>2, <2>3
<1>7. events' \in Seq(Guarded!Aged) /\ Len(events') = Len(events)
  <2>1. DOMAIN events' = 1 .. Len(events) /\ events' = [i \in 1 .. Len(events) |-> events'[i]]
    BY <1>1, <1>2
  <2>. QED BY <1>2, <1>6, <2>1, InSeq
<1>8. recent' \in 0 .. Grace + 1 /\ recent' <= recent + 1
  BY <1>1, <1>2, Config DEF EventsOK
<1>9. EventsOK'
  BY <1>1, <1>2, <1>7, <1>8 DEF EventsOK
<1>10. KeysMarked'
  <2>1. SUFFICES ASSUME ~touched' PROVE Matched(events', marks'["key"])
    BY DEF KeysMarked
  <2>2. Matched(events, marks["key"])
    BY <1>1, <2>1 DEF GuardInv, KeysMarked
  <2>3. /\ \A i \in 1 .. Len(events) : events[i].age < Delay
        /\ events' = [i \in 1 .. Len(events) |-> [events[i] EXCEPT !.age = @ + 1]]
    BY <1>1, <1>2
  <2>. QED BY <1>2, <1>4, <2>2, <2>3, KeysAge
<1>11. InTime'
  <2>1. SUFFICES ASSUME authorized', ~touched', ~letGo', NEW i \in 1 .. Len(events')
                 PROVE  events'[i].kind = "key" \/ recent' <= events'[i].age
    BY DEF InTime
  <2>2. i \in 1 .. Len(events) /\ (events[i].kind = "key" \/ recent <= events[i].age)
    BY <1>1, <1>7, <2>1 DEF GuardInv, InTime
  <2>3. events[i].age \in 0 .. Delay /\ recent \in Int /\ recent' \in Int /\ Delay \in Nat
    BY <1>2, <1>8, <2>2, EventsAre, Config DEF EventsOK
  <2>. QED BY <1>6, <1>8, <2>2, <2>3
<1>12. Guarded!OverrideIsWanted'
  BY <1>1 DEF GuardInv, Guarded!OverrideIsWanted
<1>. QED BY <1>3, <1>9, <1>10, <1>11, <1>12 DEF GuardInv

GuardPart == part = "guard" => GuardInv

LEMMA GuardStart ==
  ASSUME InputInit
  PROVE  GuardPart
<1>1. Guarded!SyntheticInit
  BY DEF InputInit
<1>2. ASSUME NEW ttl PROVE InOrderOf(<<>>, ttl)
  BY DEF InOrderOf
<1>3. AreMarks(marks)
  <2>1. marks = [k \in Guarded!Kind |-> <<>>]
    BY <1>1 DEF Guarded!SyntheticInit
  <2>2. Len(marks["move"]) = 0 /\ \A k \in Guarded!Kind : marks[k] = <<>>
    BY <2>1, Config
  <2>. QED BY <1>2, <2>1, <2>2, Config DEF AreMarks
<1>4. EventsOK
  <2>1. <<>> \in Seq(Guarded!Aged) /\ Grace + 1 \in 0 .. Grace + 1
    BY Config
  <2>. QED BY <1>1, <2>1 DEF Guarded!SyntheticInit, EventsOK
<1>5. KeysMarked /\ InTime /\ Guarded!OverrideIsWanted
  BY <1>1, NoneQueued DEF Guarded!SyntheticInit, KeysMarked, InTime, Guarded!OverrideIsWanted
<1>. QED BY <1>3, <1>4, <1>5 DEF GuardPart, GuardInv

LEMMA GuardKept ==
  ASSUME GuardPart, [InputNext]_<<part, keyVars, pointerVars, guardVars>>
  PROVE  GuardPart'
<1>1. CASE GuardStep
  <2>1. GuardInv /\ Guarded!SyntheticNext
    BY <1>1 DEF GuardPart, GuardStep
  <2>2. \/ \E k \in Guarded!Kind : Guarded!Handle(k) \/ Guarded!ReleasePeer(k)
        \/ \E k \in Guarded!Kind \cup {"other"} : Guarded!User(k)
        \/ Guarded!RecordMove \/ Guarded!Authorize \/ Guarded!Suppressed
        \/ Guarded!LocalActivity \/ Guarded!Tick
    BY <2>1 DEF Guarded!SyntheticNext
  <2>3. GuardInv'
    BY <2>1, <2>2, HandleKept, ReleaseKept, UserKept, RecordKept, AuthorizeKept, SuppressedKept,
       ActivityKept, TickKept
  <2>. QED BY <2>3 DEF GuardPart
<1>2. CASE UNCHANGED <<part, guardVars>>
  <2>1. GuardInv => GuardInv'
    BY <1>2 DEF GuardInv, AreMarks, EventsOK, KeysMarked, InTime, Guarded!OverrideIsWanted, guardVars
  <2>. QED BY <1>2, <2>1 DEF GuardPart
<1>3. CASE KeyStep \/ PointerStep
  <2>1. part \in {"keys", "pointer"} /\ part' = part
    BY <1>3 DEF KeyStep, PointerStep
  <2>. QED BY <2>1 DEF GuardPart
<1>. QED BY <1>1, <1>2, <1>3 DEF InputNext

LEMMA GuardTypes ==
  ASSUME GuardInv
  PROVE  Guarded!SyntheticTypeOK
<1>1. ASSUME NEW k \in Guarded!Kind
      PROVE  marks[k] \in Seq(0 .. Ttl[k] - 1)
  <2>1. InOrderOf(marks[k], Ttl[k]) /\ Ttl[k] \in Nat
    BY Config DEF GuardInv, AreMarks
  <2>2. marks[k] \in Seq(Nat) /\ \A i \in 1 .. Len(marks[k]) : marks[k][i] \in 0 .. Ttl[k] - 1
    BY <2>1, InOrderIs
  <2>. DEFINE s == marks[k]
  <2>. HIDE DEF s
  <2>3. DOMAIN s = 1 .. Len(s) /\ Len(s) \in Nat /\ s = [i \in 1 .. Len(s) |-> s[i]]
    <3>1. s \in Seq(Nat)
      BY <2>2 DEF s
    <3>. QED BY <3>1
  <2>4. \A i \in 1 .. Len(s) : s[i] \in 0 .. Ttl[k] - 1
    BY <2>2 DEF s
  <2>5. s \in Seq(0 .. Ttl[k] - 1)
    BY <2>3, <2>4, InSeq
  <2>. QED BY <2>5 DEF s
<1>2. DOMAIN marks = Guarded!Kind /\ Len(marks["move"]) <= MaxMoves
  BY DEF GuardInv, AreMarks
<1>. QED BY <1>1, <1>2 DEF GuardInv, EventsOK, Guarded!SyntheticTypeOK

(***************************************************************************)
(* For any times, and any order of injections, hooks and ticks: as long as *)
(* the hooks are called in time, no controller loses the node to input it  *)
(* has injected itself.                                                    *)
(***************************************************************************)
THEOREM UserAlone == InputSpec => []OverrideIsWanted
<1>1. GuardPart => OverrideIsWanted
  BY GuardTypes DEF GuardPart, GuardInv, OverrideIsWanted
<1>. QED BY <1>1, GuardStart, GuardKept, PTL DEF InputSpec
=============================================================================

--------------------------- MODULE LevelDeliver_proof ---------------------------
(***************************************************************************)
(* Proofs about LevelDeliver, for any services, nodes, deliver_configs and *)
(* answers.                                                                *)
(***************************************************************************)
EXTENDS LevelDeliver, TLAPS, SequenceTheorems

-----------------------------------------------------------------------------
(* The inductive invariant of type correctness.                            *)

Live == {"recall", "join", "after"}

\* The request is at a node there is, with a configuration that start-up accepts.
PlaceHeld ==
  /\ cascade \in Cascades(setup)
  /\ pc \in Live => curr \in FlowMap
  /\ pc # "refused" => Accepts(setup)

\* A call has an id and a frame, a closure that delivers has a node to deliver to, and
\* contexts hold results of what has been called.
CallsHeld ==
  /\ caller \in [Services -> Frames \cup {NoName}]
  /\ next = [s \in Services |-> next[s]] /\ answer \in [Services -> Answers]
  /\ \A s \in Services : caller[s] \in Frames => s \in reg
  /\ \A s \in Services : st[s] \in {"deliver", "join"} => next[s] \in FlowMap
  /\ \A s \in Services : ctx[s] \subseteq reg


Held == TypeOK /\ PlaceHeld /\ CallsHeld

LEMMA InSeq ==
  ASSUME NEW S, NEW q \in Seq(S), NEW i \in DOMAIN q
  PROVE  q[i] \in S
  BY ElementOfSeq

\* The targets of a deliver_config.
Target == [service : Services, threshold : Values]
LEMMA TargetFacts ==
  ASSUME NEW r \in Rules
  PROVE  /\ r.targets \in Seq(Target) /\ r.classifier \in Services /\ r.classNum \in Nat \ {0}
         /\ \A i \in DOMAIN r.targets :
              /\ r.targets[i].service \in Services /\ r.targets[i].threshold \in Values
<1>1. r.targets \in Seq(Target) /\ r.classifier \in Services /\ r.classNum \in Nat \ {0}
  BY DEF Rules, Target
<1>2. \A i \in DOMAIN r.targets : r.targets[i] \in Target
  BY <1>1, InSeq
<1>3. QED
  BY <1>1, <1>2 DEF Target

LEMMA NameFacts == Top \notin Services /\ NoName \notin Frames /\ Services \subseteq Frames /\ Top \in Frames
  BY DeliverAssumption DEF Frames

\* What the assumptions say of the configuration of the request.
LEMMA ConfigFacts ==
  ASSUME setup \in Setups
  PROVE  /\ setup.start \in UserNodes
         /\ \A n \in UserNodes :
              /\ setup.flow[n].leads \in Seq([service : Services, next : STRING])
              /\ setup.flow[n].delivers \in Seq(Rules)
         /\ \A s \in Services : setup.answers[s] \subseteq Answers
         /\ \A r \in RulesOf(setup) : Generated(r) # NoName
<1>1. /\ setup.start \in UserNodes
      /\ \A n \in UserNodes : NodeAssumption(setup.flow[n])
      /\ \A s \in Services : setup.answers[s] \subseteq Answers
  BY DeliverAssumption DEF UserNodes
<1>2. \A r \in RulesOf(setup) : Generated(r) # NoName
  BY GeneratedAssumption
<1>3. QED
  BY <1>1, <1>2 DEF NodeAssumption

LEMMA RuleFacts ==
  ASSUME setup \in Setups, NEW n \in UserNodes, NEW i \in DOMAIN setup.flow[n].delivers
  PROVE  /\ setup.flow[n].delivers[i] \in RulesOf(setup) /\ setup.flow[n].delivers[i] \in Rules
<1>1. setup.flow[n].delivers[i] \in ToSet(setup.flow[n].delivers)
  BY DEF ToSet
<1>2. setup.flow[n].delivers[i] \in RulesOf(setup)
  BY <1>1 DEF RulesOf, UserNodes
<1>3. setup.flow[n].delivers[i] \in Rules
  BY ConfigFacts, InSeq
<1>4. QED
  BY <1>2, <1>3

LEMMA RulesAreRules ==
  ASSUME setup \in Setups
  PROVE  RulesOf(setup) \subseteq Rules
<1> SUFFICES ASSUME NEW r \in RulesOf(setup) PROVE r \in Rules
  OBVIOUS
<1>1. PICK n \in UserNodes : r \in ToSet(setup.flow[n].delivers)
  BY DEF RulesOf, UserNodes
<1>2. PICK i \in DOMAIN setup.flow[n].delivers : r = setup.flow[n].delivers[i]
  BY <1>1 DEF ToSet
<1>3. QED
  BY <1>2, RuleFacts

\* A generated node has the name that its deliver_config gives it.
LEMMA CascadeFacts ==
  ASSUME setup \in Setups, PlaceHeld
  PROVE  /\ DOMAIN cascade = {Generated(r) : r \in RulesOf(setup)}
         /\ \A g \in DOMAIN cascade :
              cascade[g] \in RulesOf(setup) /\ cascade[g] \in Rules /\ Generated(cascade[g]) = g
         /\ NoName \notin DOMAIN cascade
<1> DEFINE names == {Generated(r) : r \in RulesOf(setup)}
<1>1. cascade \in [names -> RulesOf(setup)] /\ \A g \in names : cascade[g] \in RulesFor(setup, g)
  BY DEF PlaceHeld, Cascades
<1>2. \A g \in names : Generated(cascade[g]) = g
  BY <1>1 DEF RulesFor
<1>3. QED
  BY <1>1, <1>2, RulesAreRules, ConfigFacts

\* The services of a node.
LEMMA LeadsType ==
  ASSUME setup \in Setups, PlaceHeld, NEW n \in FlowMap
  PROVE  /\ \A i \in DOMAIN Leads(n) : Leads(n)[i].service \in Services
         /\ ServiceList(n) \subseteq Services
<1>1. ASSUME NEW i \in DOMAIN Leads(n)
      PROVE  Leads(n)[i].service \in Services
  <2>1. CASE n \in DOMAIN cascade
    <3>1. cascade[n] \in Rules
      BY <2>1, CascadeFacts
    <3>2. i \in DOMAIN cascade[n].targets /\ cascade[n].targets[i].service \in Services
      BY <2>1, <3>1, TargetFacts DEF Leads
    <3>3. Leads(n)[i] = [service |-> cascade[n].targets[i].service, next |-> NoName]
      BY <2>1, <3>2 DEF Leads
    <3>4. QED
      BY <3>2, <3>3
  <2>2. CASE n \notin DOMAIN cascade /\ setup.flow[n].leads # <<>>
    <3>1. setup.flow[n].leads \in Seq([service : Services, next : STRING])
      BY <2>2, ConfigFacts DEF FlowMap
    <3>2. Leads(n) = setup.flow[n].leads
      BY <2>2 DEF Leads
    <3>3. Leads(n)[i] \in [service : Services, next : STRING]
      BY <3>1, <3>2, InSeq
    <3>4. QED
      BY <3>3
  <2>3. CASE n \notin DOMAIN cascade /\ setup.flow[n].leads = <<>>
    <3>1. n \in UserNodes
      BY <2>3 DEF FlowMap
    <3>2. \A j \in DOMAIN setup.flow[n].delivers :
            setup.flow[n].delivers[j].classifier \in Services
      BY <3>1, RuleFacts, ConfigFacts DEF Rules
    <3>3. i \in DOMAIN setup.flow[n].delivers
      BY <2>3 DEF Leads
    <3>4. Leads(n)[i] = [service |-> setup.flow[n].delivers[i].classifier,
                         next |-> Generated(setup.flow[n].delivers[i])]
      BY <2>3, <3>3 DEF Leads
    <3>5. QED
      BY <3>2, <3>3, <3>4
  <2>4. QED
    BY <2>1, <2>2, <2>3
<1>2. QED
  BY <1>1 DEF ServiceList

LEMMA FilteroutType ==
  ASSUME NEW r \in Rules, NEW a
  PROVE  Filterout(r, a) \subseteq Services
  BY TargetFacts DEF Filterout

\* A frame that registers or issues is the serving thread's or a delivering closure's,
\* and its node is there.
LEMMA FrameFacts ==
  ASSUME Held, NEW f \in Frames, Recalling(f)
  PROVE  /\ NodeOf(f) \in FlowMap
         /\ f # Top => f \in Services /\ st[f] = "deliver" /\ pc = "join"
         /\ f = Top => pc = "recall"
         /\ Looping(f) => Lead(f).service \in Services
<1>1. /\ f # Top => f \in Services /\ st[f] = "deliver" /\ pc = "join"
      /\ f = Top => pc = "recall"
  BY DEF Recalling, Frames
<1>2. NodeOf(f) \in FlowMap
  BY <1>1 DEF Held, CallsHeld, PlaceHeld, Live, NodeOf
<1>3. QED
  BY <1>1, <1>2, LeadsType DEF Held, TypeOK, Looping, Lead

-----------------------------------------------------------------------------
(* Every step keeps the types.                                             *)

LEMMA HeldInit == Init => Held
<1> SUFFICES ASSUME Init PROVE Held
  OBVIOUS
<1>1. setup \in Setups /\ cascade \in Cascades(setup) /\ pc \in {"find", "refused"}
      /\ (pc # "refused" => Accepts(setup))
  BY DEF Init
<1>2. Silence \in Answers
  BY DEF Silence, Answers
<1>3. TypeOK
  BY <1>1 DEF Init, TypeOK
<1>4. PlaceHeld
  BY <1>1 DEF PlaceHeld, Live
<1>5. CallsHeld
  BY <1>2, NameFacts DEF Init, CallsHeld
<1>6. QED
  BY <1>3, <1>4, <1>5 DEF Held

LEMMA HeldRegister ==
  ASSUME Held, NEW f \in Frames, Register(f)
  PROVE  TypeOK' /\ CallsHeld'
<1>1. /\ Recalling(f) /\ Lead(f).service \in Services
      /\ (f # Top => f \in Services /\ st[f] = "deliver" /\ f \in reg)
      /\ pos[f] + 1 \in Nat \ {0}
      /\ UNCHANGED <<setup, cascade, curr, answer, skip, ctx, backend>>
  <2>1. Recalling(f) /\ Looping(f) /\ UNCHANGED <<setup, cascade, curr, answer, skip, ctx, backend>>
    BY DEF Register
  <2>2. Lead(f).service \in Services
        /\ (f # Top => f \in Services /\ st[f] = "deliver")
    BY <2>1, FrameFacts
  <2>3. pos[f] \in Nat \ {0} /\ (f # Top => f \in reg)
    BY <2>2 DEF Held, TypeOK
  <2>4. QED
    BY <2>1, <2>2, <2>3
<1> DEFINE s == Lead(f).service
<1>2. CASE pos' = [pos EXCEPT ![f] = @ + 1] /\ UNCHANGED <<pc, reg, st, caller, next>>
  BY <1>1, <1>2 DEF Held, TypeOK, CallsHeld, FlowMap, UserNodes
<1>3. CASE s \notin reg /\ Admit(f, Lead(f)) /\ UNCHANGED pc
  <2>1. /\ reg' = reg \cup {s} /\ st' = [st EXCEPT ![s] = "made"]
        /\ caller' = [caller EXCEPT ![s] = f] /\ next' = [next EXCEPT ![s] = Lead(f).next]
        /\ pos' = [pos EXCEPT ![f] = @ + 1]
    BY <1>3 DEF Admit
  <2> HIDE DEF s
  <2>2. s \in Services
    BY <1>1 DEF s
  <2>3. TypeOK'
    BY <1>1, <1>3, <2>1, <2>2 DEF Held, TypeOK, CallsHeld
  <2>4. CallsHeld'
    BY <1>1, <2>1, <2>2 DEF Held, TypeOK, CallsHeld, FlowMap, UserNodes
  <2>5. QED
    BY <2>3, <2>4
<1>4. CASE /\ IF f = Top THEN pc' = "failed" /\ UNCHANGED st
              ELSE st' = [st EXCEPT ![f] = "gave_up"] /\ UNCHANGED pc
           /\ UNCHANGED <<reg, caller, next, pos>>
  BY <1>1, <1>4 DEF Held, TypeOK, CallsHeld, FlowMap, UserNodes, Over
<1>5. QED
  BY <1>2, <1>3, <1>4 DEF Register

LEMMA HeldIssue ==
  ASSUME Held, NEW f \in Frames, Issue(f)
  PROVE  TypeOK' /\ CallsHeld'
<1>1. /\ Recalling(f) /\ pc' \in {"join", pc}
      /\ st' = [s \in Services |-> IF caller[s] = f THEN "flight" ELSE IF s = f THEN "join" ELSE st[s]]
      /\ UNCHANGED <<setup, cascade, curr, pos, reg, caller, next, answer, skip, ctx, backend>>
  BY DEF Issue
<1>2. f # Top => f \in Services /\ st[f] = "deliver"
  BY <1>1, FrameFacts
<1>3. /\ st \in [Services -> {"none", "made", "flight", "filter", "deliver", "join"} \cup Over]
      /\ \A s \in Services : caller[s] = f => s \in reg
  BY DEF Held, TypeOK, CallsHeld
<1>4. \A s \in Services :
        /\ st'[s] = st[s] \/ st'[s] = "flight" \/ st'[s] = "join"
        /\ st'[s] # "none" => (st[s] # "none" \/ caller[s] = f)
        /\ st'[s] \in {"deliver", "join"} => st[s] \in {"deliver", "join"}
  <2> TAKE s \in Services
  <2>1. st'[s] = IF caller[s] = f THEN "flight" ELSE IF s = f THEN "join" ELSE st[s]
    BY <1>1
  <2>2. s = f => st[s] = "deliver"
    BY <1>2, NameFacts
  <2>3. QED
    BY <2>1, <2>2
<1>5. st' \in [Services -> {"none", "made", "flight", "filter", "deliver", "join"} \cup Over]
  BY <1>1, <1>3, <1>4
<1>6. TypeOK'
  BY <1>1, <1>3, <1>4, <1>5 DEF Held, TypeOK
<1>7. CallsHeld'
  BY <1>1, <1>4 DEF Held, CallsHeld, FlowMap, UserNodes
<1>8. QED
  BY <1>6, <1>7

\* What is found in the list of a node's services has been called.
LEMMA FoundCalled ==
  ASSUME Held, NEW n \in FlowMap
  PROVE  UNION {ctx[t] : t \in ServiceList(n)} \subseteq reg
  BY LeadsType DEF Held, TypeOK, CallsHeld

LEMMA HeldClosure ==
  ASSUME Held, NEW s \in Services, Answer(s) \/ CallFails(s) \/ Filter(s) \/ Merge(s)
  PROVE  TypeOK' /\ CallsHeld'
<1>1. /\ setup \in Setups /\ PlaceHeld
      /\ UNCHANGED <<setup, cascade, curr, pos, reg, caller, next, backend>>
  BY DEF Held, TypeOK, Answer, CallFails, Filter, Merge
<1>2. CASE Answer(s)
  <2>1. PICK a \in setup.answers[s] : answer' = [answer EXCEPT ![s] = a]
    BY <1>2 DEF Answer
  <2>2. a \in Answers
    BY <1>1, ConfigFacts
  <2>3. st[s] = "flight" /\ UNCHANGED <<pc, skip>> /\ ctx' = [ctx EXCEPT ![s] = @ \cup {s}]
        /\ st' \in [Services -> {st[t] : t \in Services} \cup {"ended", "filter"}]
        /\ st' = [st EXCEPT ![s] = st'[s]] /\ st'[s] \in {"ended", "filter"}
    BY <1>2 DEF Answer, Held, TypeOK
  <2>4. TypeOK'
    BY <1>1, <2>1, <2>3 DEF Held, TypeOK, CallsHeld, Over
  <2>5. CallsHeld'
    BY <1>1, <2>1, <2>2, <2>3 DEF Held, TypeOK, CallsHeld, FlowMap, UserNodes
  <2>6. QED
    BY <2>4, <2>5
<1>3. CASE CallFails(s)
  <2>1. st[s] = "flight" /\ UNCHANGED <<pc, skip, answer, ctx>> /\ st' = [st EXCEPT ![s] = "failed"]
    BY <1>3 DEF CallFails
  <2>2. QED
    BY <1>1, <2>1 DEF Held, TypeOK, CallsHeld, FlowMap, UserNodes, Over
<1>4. CASE Filter(s)
  <2>1. st[s] = "filter" /\ UNCHANGED answer
    BY <1>4 DEF Filter
  <2>2. CASE st' = [st EXCEPT ![s] = "gave_up"] /\ UNCHANGED <<pc, skip, ctx>>
    BY <1>1, <2>1, <2>2 DEF Held, TypeOK, CallsHeld, FlowMap, UserNodes, Over
  <2>3. CASE pc' = "crash" /\ UNCHANGED <<st, skip, ctx>>
    BY <1>1, <2>1, <2>3 DEF Held, TypeOK, CallsHeld, FlowMap, UserNodes
  <2>4. CASE /\ next[s] \in FlowMap /\ st' = [st EXCEPT ![s] = "deliver"]
             /\ skip' = Fill(s, IF next[s] \in UserNodes THEN {} ELSE Filterout(cascade[next[s]], answer[s]))
             /\ ctx' = [t \in Services |-> IF t \in ServiceList(next[s]) THEN ctx[s] ELSE ctx[t]]
             /\ UNCHANGED pc
    <3>1. next[s] \notin UserNodes => Filterout(cascade[next[s]], answer[s]) \subseteq Services
      BY <1>1, <2>4, CascadeFacts, FilteroutType DEF FlowMap
    <3>2. skip' \in [Frames -> SUBSET Services]
      BY <2>4, <3>1 DEF Fill, Held, TypeOK
    <3>3. ctx' \in [Services -> SUBSET Services] /\ \A t \in Services : ctx'[t] \subseteq reg
      BY <2>4 DEF Held, TypeOK, CallsHeld
    <3>4. TypeOK'
      BY <1>1, <2>1, <2>4, <3>2, <3>3 DEF Held, TypeOK
    <3>5. CallsHeld'
      BY <1>1, <2>1, <2>4, <3>3 DEF Held, TypeOK, CallsHeld, FlowMap, UserNodes
    <3>6. QED
      BY <3>4, <3>5
  <2>5. QED
    BY <1>4, <2>2, <2>3, <2>4 DEF Filter
<1>5. CASE Merge(s)
  <2>1. /\ st[s] = "join" /\ st' = [st EXCEPT ![s] = "ended"] /\ UNCHANGED <<pc, answer, skip>>
        /\ ctx' = [ctx EXCEPT ![s] = @ \cup UNION {ctx[t] : t \in ServiceList(next[s])}]
    BY <1>5 DEF Merge
  <2>2. UNION {ctx[t] : t \in ServiceList(next[s])} \subseteq reg
    BY <2>1, FoundCalled DEF Held, CallsHeld
  <2> DEFINE found == UNION {ctx[t] : t \in ServiceList(next[s])}
  <2> HIDE DEF found
  <2>3. found \subseteq reg /\ ctx' = [ctx EXCEPT ![s] = @ \cup found]
    BY <2>1, <2>2 DEF found
  <2>4. TypeOK'
    BY <1>1, <2>1, <2>3 DEF Held, TypeOK, CallsHeld, Over
  <2>5. CallsHeld'
    BY <1>1, <2>1, <2>3 DEF Held, TypeOK, CallsHeld, FlowMap, UserNodes
  <2>6. QED
    BY <2>4, <2>5
<1>6. QED
  BY <1>2, <1>3, <1>4, <1>5

LEMMA HeldServe ==
  ASSUME Held, FindNode \/ MergeNode \/ Leave
  PROVE  TypeOK' /\ CallsHeld'
<1>1. UNCHANGED <<setup, cascade, reg>>
  BY DEF FindNode, MergeNode, Leave
<1>2. CASE FindNode
  <2>1. Silence \in Answers /\ NoName \notin Frames
    BY NameFacts DEF Silence, Answers
  <2>2. TypeOK'
    BY <1>1, <1>2 DEF FindNode, Held, TypeOK
  <2>3. CallsHeld'
    BY <1>1, <1>2, <2>1 DEF FindNode, Held, TypeOK, CallsHeld
  <2>4. QED
    BY <2>2, <2>3
<1>3. CASE MergeNode
  <2>1. /\ pc = "join" /\ pc' = "after" /\ UNCHANGED <<curr, callVars>>
        /\ backend' = backend \cup UNION {ctx[s] : s \in ServiceList(curr)}
    BY <1>3 DEF MergeNode
  <2>2. UNION {ctx[s] : s \in ServiceList(curr)} \subseteq reg
    BY <2>1, FoundCalled DEF Held, PlaceHeld, Live
  <2>3. backend' \subseteq reg
    BY <2>1, <2>2 DEF Held, TypeOK
  <2>4. TypeOK'
    BY <1>1, <2>1, <2>3 DEF Held, TypeOK, callVars
  <2>5. CallsHeld'
    BY <1>1, <2>1 DEF Held, CallsHeld, callVars, FlowMap, UserNodes
  <2>6. QED
    BY <2>4, <2>5
<1>4. CASE Leave
  <2>1. pc' \in {"done", "find"} /\ UNCHANGED <<callVars, backend>>
    BY <1>4 DEF Leave
  <2>2. QED
    BY <1>1, <2>1 DEF Held, TypeOK, CallsHeld, callVars, FlowMap, UserNodes
<1>5. QED
  BY <1>2, <1>3, <1>4

LEMMA HeldStep ==
  ASSUME Held, [Next]_vars
  PROVE  Held'
<1>1. TypeOK' /\ CallsHeld'
  <2>1. CASE UNCHANGED vars
    BY <2>1 DEF vars, Held, TypeOK, CallsHeld, FlowMap, UserNodes
  <2>2. CASE \E f \in Frames : Register(f) \/ Issue(f)
    BY <2>2, HeldRegister, HeldIssue
  <2>3. CASE \E s \in Services : Answer(s) \/ CallFails(s) \/ Filter(s) \/ Merge(s)
    BY <2>3, HeldClosure
  <2>4. CASE FindNode \/ MergeNode \/ Leave
    BY <2>4, HeldServe
  <2>5. QED
    BY <2>1, <2>2, <2>3, <2>4, NameFacts DEF Next, Serve, Closure, Frame, Stop
<1>2. PlaceHeld'
  <2>1. UNCHANGED <<setup, cascade>> /\ (pc' # "refused" => pc # "refused")
        /\ (pc' \in Live => (pc \in Live /\ UNCHANGED curr) \/ (curr \in FlowMap /\ UNCHANGED curr))
    <3>1. CASE UNCHANGED vars \/ FindNode \/ MergeNode \/ Leave
      BY <3>1 DEF vars, FindNode, MergeNode, Leave, Live
    <3>2. CASE \E f \in Frames : Register(f) \/ Issue(f)
      BY <3>2, FrameFacts DEF Register, Issue, Admit, Recalling, Live
    <3>3. CASE \E s \in Services : Answer(s) \/ CallFails(s) \/ Filter(s) \/ Merge(s)
      BY <3>3 DEF Answer, CallFails, Filter, Merge, Live
    <3>4. QED
      BY <3>1, <3>2, <3>3, NameFacts DEF Next, Serve, Closure, Frame, Stop
  <2>2. QED
    BY <2>1 DEF Held, PlaceHeld, FlowMap, UserNodes
<1>3. QED
  BY <1>1, <1>2 DEF Held

\* Every variable keeps its type: in particular every call in flight has its id and
\* the frame that registered it, and no context holds a result nobody asked for.
THEOREM TypeCorrect == Spec => []TypeOK
<1>1. Held /\ [Next]_vars => Held'
  BY HeldStep
<1>2. Held => TypeOK
  BY DEF Held
<1>3. QED
  BY <1>1, <1>2, HeldInit, PTL DEF Spec

LEMMA AlwaysHeld == Spec => []Held
<1>1. Held /\ [Next]_vars => Held'
  BY HeldStep
<1>2. QED
  BY <1>1, HeldInit, PTL DEF Spec

-----------------------------------------------------------------------------
(* What a classifying node's calls are, by the node's deliver_configs.     *)

\* The generated nodes are where the classifiers lead, and nowhere else.
CurrIsUsers == pc # "refused" => curr \notin DOMAIN cascade

\* Calls wait for the end of the loop that registers them.
MadeFirst ==
  /\ \A f \in Frames : Recalling(f) => \A t \in Services : caller[t] = f => st[t] = "made"
  /\ \A s \in Services : st[s] \in {"none", "made", "flight", "filter"} => pos[s] = 1
  /\ \A s \in Services : st[s] = "filter" => next[s] # NoName

\* The serving thread calls the classifiers, each of which leads to its own node, ...
TopCalls ==
  /\ skip[Top] = {}
  /\ \A s \in Services :
       caller[s] = Top => \E r \in OwnRules : s = r.classifier /\ next[s] = Generated(r)
TopLoop ==
  \A i \in DOMAIN setup.flow[curr].delivers :
    pc \in {"join", "after"} \/ i < pos[Top] => caller[setup.flow[curr].delivers[i].classifier] = Top

\* ... and a closure calls targets of its node that its own answer has not filtered out, ...
Delivered(s) == \/ st[s] = "join"
                \/ st[s] = "ended" /\ next[s] # NoName
Delivers(s) == st[s] = "deliver" \/ Delivered(s) \/ (\E t \in Services : caller[t] = s)
SubSkips ==
  \A s \in Services : Delivers(s) =>
    /\ caller[s] = Top
    /\ next[s] \in DOMAIN cascade
    /\ skip[s] = Filterout(cascade[next[s]], answer[s])
SubCalls ==
  \A t \in Services : caller[t] \in Services =>
    /\ next[t] = NoName /\ st[t] \in {"made", "flight", "ended", "failed"}
    /\ st[caller[t]] \in {"deliver", "join", "ended", "gave_up"}
    /\ \E i \in DOMAIN cascade[next[caller[t]]].targets : t = cascade[next[caller[t]]].targets[i].service
    /\ t \notin skip[caller[t]]

\* ... and all of them, which have ended when it has.
Passed(s, t) == t \in skip[s] \/ caller[t] = s
SubLoop ==
  \A s \in Services :
    st[s] = "deliver" \/ Delivered(s) =>
      \A i \in DOMAIN cascade[next[s]].targets :
        Delivered(s) \/ i < pos[s] => Passed(s, cascade[next[s]].targets[i].service)
SubsOver == \A s \in Services : st[s] = "ended" /\ next[s] # NoName => Joined(s)

AsksHeld == MadeFirst /\ TopCalls /\ TopLoop /\ SubSkips /\ SubCalls /\ SubLoop /\ SubsOver
AsksInv == pc \in Live /\ Classifying => AsksHeld

-----------------------------------------------------------------------------
(* A step of a classifying node keeps what its calls are.                  *)

Asking == Held /\ CurrIsUsers /\ pc \in Live /\ Classifying /\ AsksHeld

\* The classifiers of the node, and where they lead.
LEMMA OwnFacts ==
  ASSUME Held, CurrIsUsers, pc \in Live, Classifying
  PROVE  /\ curr \in UserNodes /\ curr \notin DOMAIN cascade
         /\ OwnRules \subseteq RulesOf(setup)
         /\ setup.flow[curr].delivers \in Seq(Rules) /\ Len(setup.flow[curr].delivers) \in Nat
         /\ \A i \in DOMAIN setup.flow[curr].delivers :
              /\ setup.flow[curr].delivers[i] \in OwnRules
              /\ Leads(curr)[i] = [service |-> setup.flow[curr].delivers[i].classifier,
                                   next |-> Generated(setup.flow[curr].delivers[i])]
         /\ DOMAIN Leads(curr) = DOMAIN setup.flow[curr].delivers
<1>1. curr \in UserNodes /\ curr \notin DOMAIN cascade /\ setup \in Setups
  BY DEF Held, TypeOK, PlaceHeld, CurrIsUsers, FlowMap, Live
<1>2. setup.flow[curr].delivers \in Seq(Rules)
  BY <1>1, ConfigFacts
<1>3. OwnRules \subseteq RulesOf(setup)
  BY <1>1 DEF OwnRules, RulesOf, UserNodes
<1>4. Leads(curr) = [i \in DOMAIN setup.flow[curr].delivers |->
                       [service |-> setup.flow[curr].delivers[i].classifier,
                        next |-> Generated(setup.flow[curr].delivers[i])]]
  BY <1>1 DEF Leads, Classifying
<1>5. \A i \in DOMAIN setup.flow[curr].delivers : setup.flow[curr].delivers[i] \in OwnRules
  BY DEF OwnRules, ToSet
<1>6. QED
  BY <1>1, <1>2, <1>3, <1>4, <1>5, LenProperties

\* A generated node's services are its deliver_config's targets, and lead nowhere.
LEMMA CascadeLeads ==
  ASSUME Held, NEW g \in DOMAIN cascade
  PROVE  /\ DOMAIN Leads(g) = DOMAIN cascade[g].targets
         /\ \A i \in DOMAIN cascade[g].targets :
              /\ Leads(g)[i].service = cascade[g].targets[i].service
              /\ Leads(g)[i].next = NoName
         /\ DOMAIN cascade[g].targets = 1..Len(cascade[g].targets) /\ Len(cascade[g].targets) \in Nat
<1>1. cascade[g].targets \in Seq(Target)
  BY CascadeFacts, TargetFacts DEF Held, TypeOK
<1>2. QED
  BY <1>1, LenProperties DEF Leads

\* What has no id has not been called.
LEMMA Uncalled ==
  ASSUME Held, NEW s \in Services, s \notin reg
  PROVE  st[s] = "none" /\ caller[s] = NoName
  BY DEF Held, TypeOK, CallsHeld

\* Before the node's calls are issued, and after, nothing is delivered.
Above == \A t \in Services : caller[t] \notin Services /\ st[t] \in {"none", "made", "flight"}

LEMMA AboveAll == Above => SubSkips /\ SubCalls /\ SubLoop /\ SubsOver
  BY DEF Above, SubSkips, SubCalls, SubLoop, SubsOver, Delivers, Delivered

LEMMA RecallIsAbove ==
  ASSUME Asking, pc = "recall"
  PROVE  \A t \in Services : caller[t] \notin Services /\ st[t] \in {"none", "made"}
<1>1. \A t \in Services : caller[t] = Top => st[t] = "made"
  BY NameFacts DEF Asking, AsksHeld, MadeFirst, Recalling
<1>2. \A t \in Services : caller[t] \notin Services
  <2> SUFFICES ASSUME NEW t \in Services, caller[t] \in Services PROVE FALSE
    OBVIOUS
  <2>1. st[caller[t]] \in {"deliver", "join", "ended", "gave_up"} /\ Delivers(caller[t])
    BY DEF Asking, AsksHeld, SubCalls, Delivers
  <2>2. st[caller[t]] = "made"
    BY <1>1, <2>1 DEF Asking, AsksHeld, SubSkips
  <2>3. QED
    BY <2>1, <2>2
<1>3. \A t \in Services : st[t] # "none" => caller[t] \in Frames
  BY DEF Asking, Held, TypeOK
<1>4. QED
  BY <1>1, <1>2, <1>3 DEF Frames

LEMMA AsksRegisterTop ==
  ASSUME Asking, Register(Top), pc' \in Live
  PROVE  AsksHeld'
<1>1. /\ pc = "recall" /\ Recalling(Top) /\ Looping(Top) /\ Lead(Top).service \in Services
      /\ UNCHANGED <<setup, cascade, curr, answer, skip, ctx, backend>>
  BY FrameFacts, NameFacts DEF Asking, Register, Recalling
<1> DEFINE s == Lead(Top).service
           i == pos[Top]
           rules == setup.flow[curr].delivers
<1>2. /\ i \in DOMAIN rules /\ rules[i] \in OwnRules
      /\ s = rules[i].classifier /\ Lead(Top).next = Generated(rules[i])
  <2>1. i \in DOMAIN Leads(curr) /\ Lead(Top) = Leads(curr)[i]
    BY <1>1 DEF Looping, Lead, NodeOf
  <2>2. /\ i \in DOMAIN rules /\ rules[i] \in OwnRules
        /\ Leads(curr)[i] = [service |-> rules[i].classifier, next |-> Generated(rules[i])]
    BY <2>1, OwnFacts DEF Asking
  <2>3. QED
    BY <2>1, <2>2
<1>3. s \notin reg /\ Admit(Top, Lead(Top)) /\ pc' = pc
  BY <1>1 DEF Register, Asking, AsksHeld, TopCalls, Live
<1>4. /\ s \in Services
      /\ st' = [st EXCEPT ![s] = "made"] /\ caller' = [caller EXCEPT ![s] = Top]
      /\ next' = [next EXCEPT ![s] = Generated(rules[i])] /\ pos' = [pos EXCEPT ![Top] = @ + 1]
  BY <1>1, <1>2, <1>3 DEF Admit
<1> HIDE DEF s
<1>5. caller[s] = NoName /\ NoName # Top
  BY <1>3, <1>4, Uncalled, NameFacts DEF Asking
<1>6. /\ \A t \in Services : t # Top /\ pos'[t] = pos[t] /\ skip[t] = skip'[t]
      /\ caller'[s] = Top /\ st'[s] = "made" /\ next'[s] = Generated(rules[i])
      /\ \A t \in Services : t # s => caller'[t] = caller[t] /\ st'[t] = st[t] /\ next'[t] = next[t]
      /\ pos'[Top] = i + 1 /\ i \in Nat \ {0}
      /\ pos[s] = 1
  <2>1. st[s] = "none"
    BY <1>3, <1>4, Uncalled DEF Asking
  <2>2. pos[s] = 1
    BY <1>4, <2>1 DEF Asking, AsksHeld, MadeFirst
  <2>3. QED
    BY <1>1, <1>4, <2>2, NameFacts DEF Asking, Held, TypeOK, CallsHeld
<1>7. Above'
  BY <1>1, <1>6, RecallIsAbove, NameFacts DEF Above
<1>8. MadeFirst'
  BY <1>1, <1>3, <1>6, <1>7, RecallIsAbove DEF Asking, AsksHeld, MadeFirst, Recalling, Above, Frames
<1>9. TopCalls'
  <2>1. OwnRules' = OwnRules
    BY <1>1 DEF OwnRules
  <2>2. /\ skip[Top] = {}
        /\ \A t \in Services :
             caller[t] = Top => \E r \in OwnRules : t = r.classifier /\ next[t] = Generated(r)
    BY DEF Asking, AsksHeld, TopCalls
  <2>3. \A t \in Services :
          caller'[t] = Top => \E r \in OwnRules : t = r.classifier /\ next'[t] = Generated(r)
    <3> TAKE t \in Services
    <3>1. CASE t = s
      BY <1>2, <1>6, <3>1 DEF s
    <3>2. CASE t # s
      BY <1>6, <2>2, <3>2
    <3>3. QED
      BY <3>1, <3>2
  <2>4. QED
    BY <1>1, <2>1, <2>2, <2>3 DEF TopCalls
<1>10. TopLoop'
  <2>1. setup'.flow[curr'].delivers = rules /\ pc' = "recall"
    BY <1>1, <1>3
  <2>2. rules \in Seq(Rules) /\ Len(rules) \in Nat
    BY OwnFacts DEF Asking
  <2>3. ASSUME NEW j \in DOMAIN rules, j < i + 1
        PROVE  caller'[rules[j].classifier] = Top
    <3>1. j < i \/ j = i
      BY <1>6, <2>2, <2>3
    <3>2. CASE j < i
      <4>1. caller[rules[j].classifier] = Top
        BY <3>2 DEF Asking, AsksHeld, TopLoop
      <4>2. rules[j].classifier \in Services
        BY <2>2, InSeq, TargetFacts
      <4>3. QED
        BY <1>6, <4>1, <4>2
    <3>3. QED
      BY <1>2, <1>6, <3>1, <3>2
  <2>4. QED
    BY <1>6, <2>1, <2>3 DEF TopLoop
<1>11. QED
  BY <1>7, <1>8, <1>9, <1>10, AboveAll, PTL DEF AsksHeld

LEMMA AsksIssueTop ==
  ASSUME Asking, Issue(Top)
  PROVE  AsksHeld'
<1>1. /\ pc = "recall" /\ ~Looping(Top) /\ pc' = "join"
      /\ st' = [s \in Services |-> IF caller[s] = Top THEN "flight" ELSE IF s = Top THEN "join" ELSE st[s]]
      /\ UNCHANGED <<setup, cascade, curr, pos, reg, caller, next, answer, skip, ctx, backend>>
  BY DEF Issue, Recalling
<1>2. \A t \in Services : caller[t] \notin Services /\ st[t] \in {"none", "made"} /\ pos[t] = 1 /\ t # Top
  BY <1>1, RecallIsAbove, NameFacts DEF Asking, AsksHeld, MadeFirst
<1>3. \A t \in Services : st'[t] \in {"none", "made", "flight"}
  BY <1>1, <1>2
<1>4. Above'
  BY <1>1, <1>2, <1>3 DEF Above
<1>5. MadeFirst'
  BY <1>1, <1>2, <1>3 DEF MadeFirst, Recalling, Frames
<1>6. TopCalls'
  BY <1>1 DEF Asking, AsksHeld, TopCalls, OwnRules
<1>7. TopLoop'
  <2> DEFINE rules == setup.flow[curr].delivers
  <2>1. /\ DOMAIN rules = 1..Len(rules) /\ Len(rules) \in Nat
        /\ pos[Top] \notin DOMAIN rules /\ pos[Top] \in Nat \ {0}
    BY <1>1, OwnFacts, NameFacts DEF Asking, Looping, NodeOf, Held, TypeOK
  <2>2. \A j \in DOMAIN rules : j < pos[Top]
    BY <2>1
  <2>3. QED
    BY <1>1, <2>2 DEF Asking, AsksHeld, TopLoop
<1>8. QED
  BY <1>4, <1>5, <1>6, <1>7, AboveAll, PTL DEF AsksHeld

LEMMA AsksFind ==
  ASSUME Held, CurrIsUsers, FindNode, pc' \in Live
  PROVE  AsksHeld'
<1>1. /\ pc' \in {"recall", "failed"} /\ NoName \notin Frames
      /\ \A f \in Frames : pos'[f] = 1 /\ skip'[f] = {}
      /\ \A s \in Services : st'[s] = "none" /\ caller'[s] = NoName
  BY NameFacts DEF FindNode
<1>2. Above'
  BY <1>1, NameFacts DEF Above
<1>3. MadeFirst' /\ TopCalls'
  BY <1>1, NameFacts DEF MadeFirst, TopCalls
<1>4. TopLoop'
  <2>1. /\ setup' = setup /\ curr' = curr /\ pc' = "recall" /\ pc = "find"
        /\ curr \in FlowMap
    BY DEF FindNode, Live
  <2>2. curr \in UserNodes
    BY <2>1 DEF CurrIsUsers, FlowMap
  <2>3. setup.flow[curr].delivers \in Seq(Rules)
    BY <2>2, ConfigFacts DEF Held, TypeOK
  <2>4. \A i \in DOMAIN setup.flow[curr].delivers : ~(i < 1)
    BY <2>3
  <2>5. QED
    BY <1>1, <2>1, <2>4, NameFacts DEF TopLoop
<1>5. QED
  BY <1>2, <1>3, <1>4, AboveAll, PTL DEF AsksHeld

\* What a delivering closure is like, and what calls it has made.
LEMMA DeliveringFacts ==
  ASSUME Asking, NEW f \in Services, st[f] \in {"deliver", "join"}
  PROVE  /\ caller[f] = Top /\ f # Top /\ next[f] \in DOMAIN cascade
         /\ skip[f] = Filterout(cascade[next[f]], answer[f])
         /\ f \in reg /\ next[f] # NoName
         /\ \A i \in DOMAIN cascade[next[f]].targets : cascade[next[f]].targets[i].service \in Services
         /\ pos[f] \in Nat \ {0}
<1>1. caller[f] = Top /\ next[f] \in DOMAIN cascade /\ skip[f] = Filterout(cascade[next[f]], answer[f])
  BY DEF Asking, AsksHeld, SubSkips, Delivers, Delivered
<1>2. f \in reg /\ pos[f] \in Nat \ {0}
  BY NameFacts DEF Asking, Held, TypeOK
<1>3. next[f] # NoName /\ cascade[next[f]] \in Rules
  BY <1>1, CascadeFacts DEF Asking, Held, TypeOK
<1>4. QED
  BY <1>1, <1>2, <1>3, TargetFacts, NameFacts

LEMMA AsksRegister ==
  ASSUME Asking, NEW f \in Services, Register(f)
  PROVE  AsksHeld'
<1>1. /\ pc = "join" /\ st[f] = "deliver" /\ Looping(f) /\ Recalling(f) /\ f # Top
      /\ UNCHANGED <<setup, cascade, pc, curr, answer, skip, ctx, backend>>
  BY NameFacts DEF Register, Recalling
<1> DEFINE s == Lead(f).service
           i == pos[f]
           targets == cascade[next[f]].targets
<1>2. /\ i \in DOMAIN targets /\ s = targets[i].service /\ Lead(f).next = NoName /\ s \in Services
      /\ caller[f] = Top /\ f \in reg /\ next[f] # NoName /\ i \in Nat \ {0}
      /\ DOMAIN targets = 1..Len(targets) /\ Len(targets) \in Nat
  BY <1>1, DeliveringFacts, CascadeLeads DEF Asking, Looping, Lead, NodeOf
<1> HIDE DEF s, targets
<1>3. OwnRules' = OwnRules
  BY <1>1 DEF OwnRules
<1>4. CASE s \in skip[f] /\ pos' = [pos EXCEPT ![f] = @ + 1] /\ UNCHANGED <<pc, reg, st, caller, next>>
  <2>1. /\ pos'[f] = i + 1 /\ pos'[Top] = pos[Top]
        /\ \A t \in Services : t # f => pos'[t] = pos[t]
    BY <1>1, <1>4, NameFacts DEF Asking, Held, TypeOK
  <2>2. \A t \in Services : (Delivered(t)' <=> Delivered(t)) /\ (Delivers(t)' <=> Delivers(t))
    BY <1>4 DEF Delivers, Delivered
  <2>3. MadeFirst'
    BY <1>1, <1>4, <2>1 DEF Asking, AsksHeld, MadeFirst, Recalling
  <2>4. TopCalls' /\ TopLoop'
    BY <1>1, <1>3, <1>4, <2>1 DEF Asking, AsksHeld, TopCalls, TopLoop
  <2>5. SubSkips' /\ SubCalls' /\ SubsOver'
    BY <1>1, <1>4, <2>2 DEF Asking, AsksHeld, SubSkips, SubCalls, SubsOver, Joined
  <2>6. SubLoop'
    <3> SUFFICES ASSUME NEW t \in Services, (st[t] = "deliver" \/ Delivered(t))',
                        NEW j \in DOMAIN cascade[next[t]].targets, Delivered(t)' \/ j < pos'[t]
                 PROVE  Passed(t, cascade[next[t]].targets[j].service)'
      BY <1>1, <1>4 DEF SubLoop
    <3>1. CASE Delivered(t) \/ j < pos[t]
      BY <1>1, <1>4, <2>2, <3>1 DEF Asking, AsksHeld, SubLoop, Passed
    <3>2. CASE t = f /\ j = i
      BY <1>1, <1>2, <1>4, <3>2 DEF Passed, targets
    <3>3. t # f \/ j \in Nat
      BY <1>2 DEF targets
    <3>4. QED
      BY <1>2, <2>1, <2>2, <3>1, <3>2, <3>3
  <2>7. QED
    BY <2>3, <2>4, <2>5, <2>6 DEF AsksHeld
<1>5. CASE s \notin skip[f] \cup reg /\ Admit(f, Lead(f))
  <2>1. /\ s \notin skip[f] /\ s \notin reg /\ s # f
        /\ st' = [st EXCEPT ![s] = "made"] /\ caller' = [caller EXCEPT ![s] = f]
        /\ next' = [next EXCEPT ![s] = NoName] /\ pos' = [pos EXCEPT ![f] = @ + 1]
    BY <1>2, <1>5 DEF Admit, s
  <2>2. st[s] = "none" /\ caller[s] = NoName /\ NoName \notin Frames
    BY <1>2, <2>1, Uncalled, NameFacts DEF Asking
  <2>3. \A t \in Services : caller[t] # s
    BY <1>2, <2>2 DEF Asking, AsksHeld, SubCalls
  <2>4. /\ pos'[f] = i + 1 /\ pos'[Top] = pos[Top]
        /\ \A t \in Services : t # f => pos'[t] = pos[t]
        /\ caller'[s] = f /\ st'[s] = "made" /\ next'[s] = NoName
        /\ \A t \in Services : t # s => caller'[t] = caller[t] /\ st'[t] = st[t] /\ next'[t] = next[t]
    BY <1>1, <1>2, <2>1, NameFacts DEF Asking, Held, TypeOK, CallsHeld
  <2>5. \A t \in Services : /\ Delivered(t)' <=> Delivered(t)
                            /\ Delivers(t)' => t # s /\ Delivers(t)
                            /\ Delivered(t) => t # s
    BY <1>1, <1>2, <2>2, <2>3, <2>4 DEF Delivers, Delivered
  <2>6. MadeFirst'
    <3>1. \A t \in Services : st'[t] \in {"none", "made", "flight", "filter"} => pos'[t] = 1
      BY <1>1, <2>1, <2>2, <2>4 DEF Asking, AsksHeld, MadeFirst
    <3>2. \A t \in Services : st'[t] = "filter" => next'[t] # NoName
      BY <2>4 DEF Asking, AsksHeld, MadeFirst
    <3>3. ASSUME NEW g \in Frames, Recalling(g)', NEW t \in Services, caller'[t] = g
          PROVE  st'[t] = "made"
      <4>1. g # s /\ Recalling(g)
        BY <1>1, <2>2, <2>4, <3>3, NameFacts DEF Recalling, Frames
      <4>2. t # s => st[t] = "made"
        BY <2>4, <3>3, <4>1 DEF Asking, AsksHeld, MadeFirst
      <4>3. QED
        BY <2>4, <4>2
    <3>4. QED
      BY <3>1, <3>2, <3>3 DEF MadeFirst
  <2>7. TopCalls'
    BY <1>1, <1>3, <2>4 DEF Asking, AsksHeld, TopCalls
  <2>8. TopLoop'
    <3>1. \A j \in DOMAIN setup.flow[curr].delivers :
            LET c == setup.flow[curr].delivers[j].classifier IN caller[c] = Top /\ c \in Services
      <4>1. setup.flow[curr].delivers \in Seq(Rules)
        BY OwnFacts DEF Asking
      <4>2. QED
        BY <1>1, <4>1, InSeq, TargetFacts DEF Asking, AsksHeld, TopLoop
    <3>2. QED
      BY <1>1, <2>2, <2>4, <3>1, NameFacts DEF TopLoop
  <2>9. SubSkips'
    BY <1>1, <2>4, <2>5 DEF Asking, AsksHeld, SubSkips
  <2>10. SubCalls'
    <3> SUFFICES ASSUME NEW t \in Services, caller'[t] \in Services
                 PROVE  /\ next'[t] = NoName /\ st'[t] \in {"made", "flight", "ended", "failed"}
                        /\ st'[caller'[t]] \in {"deliver", "join", "ended", "gave_up"}
                        /\ \E j \in DOMAIN cascade[next'[caller'[t]]].targets :
                             t = cascade[next'[caller'[t]]].targets[j].service
                        /\ t \notin skip[caller'[t]]
      BY <1>1 DEF SubCalls
    <3>1. CASE t = s
      <4>1. caller'[t] = f /\ next'[f] = next[f] /\ st'[f] = "deliver"
        BY <1>1, <2>1, <2>4, <3>1
      <4>2. \E j \in DOMAIN cascade[next[f]].targets : t = cascade[next[f]].targets[j].service
        BY <1>2, <3>1 DEF targets
      <4>3. next'[t] = NoName /\ st'[t] = "made" /\ t \notin skip[f]
        BY <2>1, <2>4, <3>1
      <4>4. next'[caller'[t]] = next[f]
        BY <4>1
      <4>5. QED
        BY <4>1, <4>2, <4>3, <4>4
    <3>2. CASE t # s
      BY <2>3, <2>4, <3>2 DEF Asking, AsksHeld, SubCalls
    <3>3. QED
      BY <3>1, <3>2
  <2>11. SubLoop'
    <3> SUFFICES ASSUME NEW t \in Services, (st[t] = "deliver" \/ Delivered(t))',
                        NEW j \in DOMAIN cascade[next'[t]].targets, Delivered(t)' \/ j < pos'[t]
                 PROVE  cascade[next'[t]].targets[j].service \in skip[t]
                        \/ caller'[cascade[next'[t]].targets[j].service] = t
      BY <1>1 DEF SubLoop, Passed
    <3>1. t # s /\ next'[t] = next[t] /\ (st[t] = "deliver" \/ Delivered(t))
      BY <2>4, <2>5
    <3>2. cascade[next[t]].targets[j].service \in Services
      <4>1. next[t] \in DOMAIN cascade
        BY <3>1 DEF Asking, AsksHeld, SubSkips, Delivers
      <4>2. cascade[next[t]] \in Rules
        BY <4>1, CascadeFacts DEF Asking, Held, TypeOK
      <4>3. QED
        BY <3>1, <4>2, TargetFacts
    <3>3. CASE Delivered(t) \/ j < pos[t]
      <4>1. \/ cascade[next[t]].targets[j].service \in skip[t]
            \/ caller[cascade[next[t]].targets[j].service] = t
        BY <3>1, <3>3 DEF Asking, AsksHeld, SubLoop, Passed
      <4>2. QED
        BY <2>2, <2>4, <3>1, <3>2, <4>1, NameFacts
    <3>4. CASE t = f /\ j = i
      BY <1>2, <2>4, <3>1, <3>4 DEF targets
    <3>5. t # f \/ j \in Nat
      BY <1>2, <3>1 DEF targets
    <3>6. QED
      BY <1>2, <2>4, <2>5, <3>3, <3>4, <3>5
  <2>12. SubsOver'
    BY <1>1, <2>4 DEF Asking, AsksHeld, SubsOver, Joined
  <2>13. QED
    BY <2>6, <2>7, <2>8, <2>9, <2>10, <2>11, <2>12 DEF AsksHeld
<1>6. CASE st' = [st EXCEPT ![f] = "gave_up"] /\ UNCHANGED <<reg, caller, next, pos>>
  <2>1. st'[f] = "gave_up" /\ \A t \in Services : t # f => st'[t] = st[t]
    BY <1>6 DEF Asking, Held, TypeOK
  <2>2. \A t \in Services : /\ Delivered(t)' <=> Delivered(t)
                            /\ Delivers(t)' => Delivers(t)
    BY <1>1, <1>6, <2>1 DEF Delivers, Delivered
  <2>3. MadeFirst'
    BY <1>1, <1>2, <1>6, <2>1 DEF Asking, AsksHeld, MadeFirst, Recalling
  <2>4. TopCalls' /\ TopLoop'
    BY <1>1, <1>3, <1>6 DEF Asking, AsksHeld, TopCalls, TopLoop
  <2>5. SubSkips'
    BY <1>1, <1>6, <2>2 DEF Asking, AsksHeld, SubSkips
  <2>6. SubCalls'
    BY <1>1, <1>2, <1>6, <2>1, NameFacts DEF Asking, AsksHeld, SubCalls
  <2>7. SubLoop'
    BY <1>1, <1>6, <2>1, <2>2 DEF Asking, AsksHeld, SubLoop, Passed
  <2>8. SubsOver'
    BY <1>1, <1>6, <2>1 DEF Asking, AsksHeld, SubsOver, Joined, Over
  <2>9. QED
    BY <2>3, <2>4, <2>5, <2>6, <2>7, <2>8 DEF AsksHeld
<1>7. QED
  BY <1>1, <1>4, <1>5, <1>6 DEF Register, s

LEMMA AsksIssue ==
  ASSUME Asking, NEW f \in Services, Issue(f)
  PROVE  AsksHeld'
<1>1. /\ pc = "join" /\ st[f] = "deliver" /\ ~Looping(f) /\ f # Top /\ pc' = pc
      /\ st' = [s \in Services |-> IF caller[s] = f THEN "flight" ELSE IF s = f THEN "join" ELSE st[s]]
      /\ UNCHANGED <<setup, cascade, curr, pos, reg, caller, next, answer, skip, ctx, backend>>
  BY NameFacts DEF Issue, Recalling
<1>2. /\ caller[f] = Top /\ next[f] \in DOMAIN cascade /\ next[f] # NoName
      /\ \A j \in DOMAIN cascade[next[f]].targets : j < pos[f]
  <2>1. /\ caller[f] = Top /\ next[f] \in DOMAIN cascade /\ next[f] # NoName /\ pos[f] \in Nat \ {0}
    BY <1>1, DeliveringFacts
  <2>2. /\ pos[f] \notin DOMAIN cascade[next[f]].targets
        /\ DOMAIN cascade[next[f]].targets = 1..Len(cascade[next[f]].targets)
        /\ Len(cascade[next[f]].targets) \in Nat
    BY <1>1, <2>1, CascadeLeads DEF Asking, Looping, NodeOf
  <2>3. QED
    BY <2>1, <2>2
<1>3. \A s \in Services : caller[s] = f => st[s] = "made"
  BY <1>1, NameFacts DEF Asking, AsksHeld, MadeFirst, Recalling
<1>4. /\ st'[f] = "join"
      /\ \A s \in Services : caller[s] = f => st'[s] = "flight"
      /\ \A s \in Services : s # f /\ caller[s] # f => st'[s] = st[s]
  BY <1>1, <1>2
<1>5. \A t \in Services : /\ Delivered(t)' => t = f \/ Delivered(t)
                          /\ Delivers(t)' => Delivers(t)
  BY <1>1, <1>4 DEF Delivers, Delivered
<1>6. MadeFirst'
  <2>1. \A s \in Services : st'[s] \in {"none", "made", "flight", "filter"} => pos[s] = 1
    BY <1>3, <1>4 DEF Asking, AsksHeld, MadeFirst
  <2>2. \A s \in Services : st'[s] = "filter" => next[s] # NoName
    BY <1>4 DEF Asking, AsksHeld, MadeFirst
  <2>3. ASSUME NEW g \in Frames, Recalling(g)', NEW t \in Services, caller[t] = g
        PROVE  st'[t] = "made"
    <3>1. g # f /\ g \in Services /\ st[g] = "deliver" /\ Recalling(g)
      BY <1>1, <1>4, <2>3, NameFacts DEF Recalling, Frames
    <3>2. st[t] = "made"
      BY <2>3, <3>1 DEF Asking, AsksHeld, MadeFirst
    <3>3. QED
      BY <1>1, <1>4, <2>3, <3>1, <3>2
  <2>4. QED
    BY <1>1, <2>1, <2>2, <2>3 DEF MadeFirst
<1>7. TopCalls' /\ TopLoop'
  BY <1>1 DEF Asking, AsksHeld, TopCalls, TopLoop, OwnRules
<1>8. SubSkips'
  BY <1>1, <1>5 DEF Asking, AsksHeld, SubSkips
<1>9. SubCalls'
  <2> SUFFICES ASSUME NEW t \in Services, caller[t] \in Services
               PROVE  /\ st'[t] \in {"made", "flight", "ended", "failed"}
                      /\ st'[caller[t]] \in {"deliver", "join", "ended", "gave_up"}
    BY <1>1 DEF Asking, AsksHeld, SubCalls
  <2>1. /\ st[t] \in {"made", "flight", "ended", "failed"}
        /\ st[caller[t]] \in {"deliver", "join", "ended", "gave_up"}
    BY DEF Asking, AsksHeld, SubCalls
  <2>2. QED
    BY <1>1, <1>3, <1>4, <2>1
<1>10. SubLoop'
  BY <1>1, <1>2, <1>4, <1>5 DEF Asking, AsksHeld, SubLoop, Passed
<1>11. SubsOver'
  <2> SUFFICES ASSUME NEW t \in Services, st'[t] = "ended", next[t] # NoName,
                      NEW u \in Services, caller[u] = t
               PROVE  st'[u] \in Over
    BY <1>1 DEF SubsOver, Joined
  <2>1. t # f /\ st[t] = "ended"
    BY <1>4
  <2>2. st[u] \in Over
    BY <2>1 DEF Asking, AsksHeld, SubsOver, Joined
  <2>3. QED
    BY <1>1, <1>4, <2>1, <2>2 DEF Over
<1>12. QED
  BY <1>6, <1>7, <1>8, <1>9, <1>10, <1>11 DEF AsksHeld

\* A closure's own steps.
LEMMA AsksClosure ==
  ASSUME Asking, NEW s \in Services, Answer(s) \/ CallFails(s) \/ Filter(s) \/ Merge(s), pc' \in Live
  PROVE  AsksHeld'
<1>1. /\ pc = "join" /\ st[s] \in {"flight", "filter", "join"}
      /\ UNCHANGED <<setup, cascade, curr, pos, reg, caller, next, backend>>
  BY DEF Answer, CallFails, Filter, Merge
<1>2. /\ st[s] \in {"flight", "filter"} => \A t \in Services : caller[t] # s
      /\ pos[s] = 1 \/ st[s] = "join"
      /\ OwnRules' = OwnRules
  BY <1>1 DEF Asking, AsksHeld, SubCalls, MadeFirst, OwnRules
<1>3. CASE /\ st[s] = "flight" /\ UNCHANGED <<pc, skip>>
           /\ \/ st' = [st EXCEPT ![s] = "failed"]
              \/ next[s] = NoName /\ st' = [st EXCEPT ![s] = "ended"]
              \/ next[s] # NoName /\ st' = [st EXCEPT ![s] = "filter"]
           /\ \A t \in Services : t # s => answer'[t] = answer[t]
  <2>1. /\ st'[s] \in {"failed", "ended", "filter"} /\ (st'[s] = "ended" => next[s] = NoName)
        /\ (st'[s] = "filter" => next[s] # NoName)
        /\ \A t \in Services : t # s => st'[t] = st[t]
    BY <1>3 DEF Asking, Held, TypeOK
  <2>2. \A t \in Services : /\ (st[t] = "deliver" \/ Delivered(t))' <=> (st[t] = "deliver" \/ Delivered(t))
                            /\ Delivered(t)' <=> Delivered(t)
                            /\ Delivers(t)' => Delivers(t) /\ t # s
    BY <1>1, <1>2, <1>3, <2>1 DEF Delivers, Delivered
  <2>3. MadeFirst'
    <3>1. \A t \in Services : st'[t] \in {"none", "made", "flight", "filter"} => pos[t] = 1
      BY <1>2, <1>3, <2>1 DEF Asking, AsksHeld, MadeFirst
    <3>2. \A t \in Services : st'[t] = "filter" => next[t] # NoName
      BY <2>1 DEF Asking, AsksHeld, MadeFirst
    <3>3. ASSUME NEW g \in Frames, Recalling(g)', NEW t \in Services, caller[t] = g
          PROVE  st'[t] = "made"
      <4>1. Recalling(g)
        BY <1>1, <1>3, <2>1, <3>3 DEF Recalling, Frames
      <4>2. st[t] = "made"
        BY <3>3, <4>1 DEF Asking, AsksHeld, MadeFirst
      <4>3. QED
        BY <1>3, <2>1, <4>2
    <3>4. QED
      BY <1>1, <3>1, <3>2, <3>3 DEF MadeFirst
  <2>4. TopCalls' /\ TopLoop'
    BY <1>1, <1>2, <1>3 DEF Asking, AsksHeld, TopCalls, TopLoop
  <2>5. SubSkips'
    BY <1>1, <1>3, <2>2 DEF Asking, AsksHeld, SubSkips
  <2>6. SubCalls'
    <3> SUFFICES ASSUME NEW t \in Services, caller[t] \in Services
                 PROVE  /\ st'[t] \in {"made", "flight", "ended", "failed"}
                        /\ st'[caller[t]] \in {"deliver", "join", "ended", "gave_up"}
      BY <1>1, <1>3 DEF Asking, AsksHeld, SubCalls
    <3>1. /\ next[t] = NoName /\ st[t] \in {"made", "flight", "ended", "failed"}
          /\ st[caller[t]] \in {"deliver", "join", "ended", "gave_up"}
      BY DEF Asking, AsksHeld, SubCalls
    <3>2. QED
      BY <1>2, <1>3, <2>1, <3>1
  <2>7. SubLoop'
    BY <1>1, <1>3, <2>2 DEF Asking, AsksHeld, SubLoop, Passed
  <2>8. SubsOver'
    BY <1>1, <1>3, <2>1 DEF Asking, AsksHeld, SubsOver, Joined, Over
  <2>9. QED
    BY <2>3, <2>4, <2>5, <2>6, <2>7, <2>8 DEF AsksHeld
<1>4. CASE Filter(s)
  <2>1. st[s] = "filter" /\ UNCHANGED answer
    BY <1>4 DEF Filter
  <2>2. caller[s] = Top /\ next[s] # NoName /\ s # Top
    <3>1. next[s] # NoName /\ caller[s] \in Frames
      BY <2>1 DEF Asking, AsksHeld, MadeFirst, Held, TypeOK
    <3>2. QED
      BY <3>1, NameFacts DEF Asking, AsksHeld, SubCalls, Frames
  <2>3. next[s] \in DOMAIN cascade /\ next[s] \notin UserNodes
    <3>1. PICK r \in OwnRules : next[s] = Generated(r)
      BY <2>2 DEF Asking, AsksHeld, TopCalls
    <3>2. r \in RulesOf(setup) /\ Accepts(setup)
      BY OwnFacts DEF Asking, Held, PlaceHeld, Live
    <3>3. QED
      BY <3>1, <3>2, CascadeFacts DEF Asking, Held, TypeOK, Accepts, UserNodes
  <2>4. /\ st' = [st EXCEPT ![s] = "deliver"] /\ pc' = pc
        /\ skip' = [skip EXCEPT ![s] = Filterout(cascade[next[s]], answer[s])]
    BY <1>4, <2>3 DEF Filter, FlowMap, Fill
  <2>5. /\ st'[s] = "deliver" /\ \A t \in Services : t # s => st'[t] = st[t]
        /\ skip'[s] = Filterout(cascade[next[s]], answer[s])
        /\ \A f \in Frames : f # s => skip'[f] = skip[f]
    BY <2>4, NameFacts DEF Asking, Held, TypeOK
  <2>6. \A t \in Services : Delivered(t)' <=> Delivered(t)
    BY <1>1, <2>1, <2>5 DEF Delivered
  <2>7. \A t \in Services : Delivers(t)' => t = s \/ Delivers(t)
    BY <1>1, <2>5, <2>6 DEF Delivers
  <2>8. MadeFirst'
    BY <1>1, <1>2, <2>1, <2>4, <2>5 DEF Asking, AsksHeld, MadeFirst, Recalling
  <2>9. TopCalls' /\ TopLoop'
    BY <1>1, <1>2, <2>2, <2>4, <2>5, NameFacts DEF Asking, AsksHeld, TopCalls, TopLoop
  <2>10. SubSkips'
    BY <1>1, <2>1, <2>2, <2>3, <2>5, <2>7, NameFacts DEF Asking, AsksHeld, SubSkips
  <2>11. SubCalls'
    <3> SUFFICES ASSUME NEW t \in Services, caller[t] \in Services
                 PROVE  /\ st'[t] \in {"made", "flight", "ended", "failed"}
                        /\ st'[caller[t]] \in {"deliver", "join", "ended", "gave_up"}
                        /\ t \notin skip'[caller[t]]
      BY <1>1 DEF Asking, AsksHeld, SubCalls
    <3>1. t # s /\ caller[t] # s /\ caller[t] \in Frames
      BY <1>2, <2>1, <2>2, NameFacts
    <3>2. QED
      BY <2>5, <3>1 DEF Asking, AsksHeld, SubCalls
  <2>12. SubLoop'
    <3> SUFFICES ASSUME NEW t \in Services, (st[t] = "deliver" \/ Delivered(t))',
                        NEW j \in DOMAIN cascade[next[t]].targets, Delivered(t)' \/ j < pos[t]
                 PROVE  Passed(t, cascade[next[t]].targets[j].service)'
      BY <1>1 DEF SubLoop
    <3>1. CASE t = s
      <4>1. DOMAIN cascade[next[s]].targets = 1..Len(cascade[next[s]].targets)
            /\ Len(cascade[next[s]].targets) \in Nat
        BY <2>3, CascadeLeads DEF Asking
      <4>2. ~Delivered(s) /\ pos[s] = 1
        BY <1>2, <2>1 DEF Delivered
      <4>3. QED
        BY <2>6, <3>1, <4>1, <4>2
    <3>2. CASE t # s
      BY <1>1, <2>5, <2>6, <3>2, NameFacts DEF Asking, AsksHeld, SubLoop, Passed
    <3>3. QED
      BY <3>1, <3>2
  <2>13. SubsOver'
    BY <1>1, <1>2, <2>1, <2>5 DEF Asking, AsksHeld, SubsOver, Joined, Over
  <2>14. QED
    BY <2>8, <2>9, <2>10, <2>11, <2>12, <2>13 DEF AsksHeld
<1>5. CASE Merge(s)
  <2>1. /\ st[s] = "join" /\ Joined(s) /\ st' = [st EXCEPT ![s] = "ended"]
        /\ UNCHANGED <<pc, answer, skip>>
    BY <1>5 DEF Merge
  <2>2. st'[s] = "ended" /\ \A t \in Services : t # s => st'[t] = st[t]
    BY <2>1 DEF Asking, Held, TypeOK
  <2>3. caller[s] = Top /\ next[s] # NoName
    BY <2>1, DeliveringFacts
  <2>4. \A t \in Services : /\ Delivered(t)' <=> Delivered(t)
                            /\ Delivers(t)' => Delivers(t)
    BY <1>1, <2>1, <2>2, <2>3 DEF Delivers, Delivered
  <2>5. MadeFirst'
    BY <1>1, <2>1, <2>2 DEF Asking, AsksHeld, MadeFirst, Recalling
  <2>6. TopCalls' /\ TopLoop'
    BY <1>1, <1>2, <2>1 DEF Asking, AsksHeld, TopCalls, TopLoop
  <2>7. SubSkips'
    BY <1>1, <2>1, <2>4 DEF Asking, AsksHeld, SubSkips
  <2>8. SubCalls'
    BY <1>1, <2>1, <2>2 DEF Asking, AsksHeld, SubCalls
  <2>9. SubLoop'
    BY <1>1, <2>1, <2>2, <2>4 DEF Asking, AsksHeld, SubLoop, Passed
  <2>10. SubsOver'
    BY <1>1, <2>1, <2>2 DEF Asking, AsksHeld, SubsOver, Joined, Over
  <2>11. QED
    BY <2>5, <2>6, <2>7, <2>8, <2>9, <2>10 DEF AsksHeld
<1>6. Answer(s) => /\ st[s] = "flight" /\ UNCHANGED <<pc, skip>>
                   /\ \/ next[s] = NoName /\ st' = [st EXCEPT ![s] = "ended"]
                      \/ next[s] # NoName /\ st' = [st EXCEPT ![s] = "filter"]
                   /\ \A t \in Services : t # s => answer'[t] = answer[t]
  BY DEF Answer, Asking, Held, CallsHeld
<1>7. CallFails(s) => /\ st[s] = "flight" /\ UNCHANGED <<pc, skip>>
                      /\ st' = [st EXCEPT ![s] = "failed"]
                      /\ \A t \in Services : t # s => answer'[t] = answer[t]
  BY DEF CallFails
<1>8. QED
  BY <1>3, <1>4, <1>5, <1>6, <1>7

LEMMA AsksMergeNode ==
  ASSUME Asking, MergeNode
  PROVE  AsksHeld'
<1>1. pc = "join" /\ pc' = "after" /\ UNCHANGED <<setup, cascade, curr, callVars>>
  BY DEF MergeNode
<1>2. MadeFirst'
  BY <1>1 DEF Asking, AsksHeld, MadeFirst, Recalling, callVars
<1>3. TopCalls' /\ TopLoop'
  BY <1>1 DEF Asking, AsksHeld, TopCalls, TopLoop, OwnRules, callVars
<1>4. SubSkips' /\ SubCalls' /\ SubLoop' /\ SubsOver'
  BY <1>1 DEF Asking, AsksHeld, SubSkips, SubCalls, SubLoop, SubsOver, Delivers, Delivered, Passed, Joined, callVars
<1>5. QED
  BY <1>2, <1>3, <1>4 DEF AsksHeld

-----------------------------------------------------------------------------
(* The deliveries are what the answers ask for.                            *)

\* Classifiers, targets and node names are told apart: a classifier has one
\* deliver_config, whose targets differ, and no node is followed by a generated one.
NamesApart ==
  \A p \in Setups :
    /\ \A r1, r2 \in RulesOf(p) : Generated(r1) = Generated(r2) => r1 = r2
    /\ \A r \in RulesOf(p) : \A i, j \in DOMAIN r.targets :
         r.targets[i].service = r.targets[j].service => i = j
    /\ \A n \in DOMAIN p.flow : \A r \in RulesOf(p) : Generated(r) \notin p.flow[n].after

AskedInv == Held /\ CurrIsUsers /\ AsksInv

LEMMA AskedInit == Init => AskedInv
<1> SUFFICES ASSUME Init PROVE AskedInv
  OBVIOUS
<1>1. Held
  BY HeldInit
<1>2. pc \notin Live
  BY DEF Init, Live
<1>3. CurrIsUsers
  <2>1. curr = setup.start /\ setup.start \in UserNodes
    BY <1>1, ConfigFacts DEF Init, Held, TypeOK
  <2>2. pc # "refused" => Accepts(setup)
    BY <1>1 DEF Held, PlaceHeld
  <2>3. QED
    BY <1>1, <2>1, <2>2, CascadeFacts DEF CurrIsUsers, Held, TypeOK, Accepts, UserNodes
<1>4. QED
  BY <1>1, <1>2, <1>3 DEF AskedInv, AsksInv

LEMMA AskedStep ==
  ASSUME NamesApart, AskedInv, [Next]_vars
  PROVE  AskedInv'
<1>1. Held'
  BY HeldStep DEF AskedInv
<1>2. UNCHANGED <<setup, cascade>> /\ (pc' # "refused" => pc # "refused") /\ (UNCHANGED curr \/ Leave)
  <2>1. CASE UNCHANGED vars
    BY <2>1 DEF vars
  <2>2. CASE \E f \in Frames : Register(f) \/ Issue(f)
    BY <2>2 DEF Register, Issue, Recalling
  <2>3. CASE \E s \in Services : Answer(s) \/ CallFails(s) \/ Filter(s) \/ Merge(s)
    BY <2>3 DEF Answer, CallFails, Filter, Merge
  <2>4. CASE FindNode \/ MergeNode \/ Leave
    BY <2>4 DEF FindNode, MergeNode, Leave
  <2>5. QED
    BY <2>1, <2>2, <2>3, <2>4, NameFacts DEF Next, Serve, Closure, Frame, Stop
<1>3. CurrIsUsers'
  <2>1. CASE UNCHANGED curr
    BY <1>2, <2>1 DEF AskedInv, CurrIsUsers
  <2>2. CASE Leave /\ ~UNCHANGED curr
    <3>1. pc = "after" /\ curr' \in setup.flow[curr].after
      BY <2>2 DEF Leave
    <3>2. curr \in UserNodes /\ setup \in Setups
      BY <3>1 DEF AskedInv, Held, TypeOK, PlaceHeld, CurrIsUsers, FlowMap, Live
    <3>3. curr' \notin DOMAIN cascade
      BY <3>1, <3>2, CascadeFacts DEF NamesApart, UserNodes, AskedInv, Held
    <3>4. QED
      BY <1>2, <3>3 DEF CurrIsUsers
  <2>3. QED
    BY <1>2, <2>1, <2>2
<1>4. AsksInv'
  <2> SUFFICES ASSUME pc' \in Live, Classifying' PROVE AsksHeld'
    BY DEF AsksInv
  <2>1. CASE FindNode
    BY <2>1, AsksFind DEF AskedInv
  <2>2. CASE Leave
    BY <2>2 DEF Leave, Live
  <2>3. CASE ~FindNode /\ ~Leave
    <3>1. pc \in Live /\ Classifying
      <4>1. pc \in Live
        BY <2>3 DEF Next, Serve, Closure, Frame, Stop, vars, Register, Issue, Recalling, Answer, CallFails,
                    Filter, Merge, MergeNode, Live
      <4>2. QED
        BY <1>2, <2>3, <4>1 DEF Classifying
    <3>2. Asking
      BY <3>1 DEF Asking, AskedInv, AsksInv
    <3>3. CASE Frame(Top)
      BY <3>2, <3>3, AsksRegisterTop, AsksIssueTop DEF Frame
    <3>4. CASE \E s \in Services : Closure(s)
      BY <3>2, <3>4, AsksRegister, AsksIssue, AsksClosure DEF Closure, Frame
    <3>5. CASE MergeNode
      BY <3>2, <3>5, AsksMergeNode
    <3>6. CASE UNCHANGED vars
      BY <3>2, <3>6 DEF vars, Asking, AsksHeld, MadeFirst, Recalling, TopCalls, TopLoop, OwnRules,
                        SubSkips, SubCalls, SubLoop, SubsOver, Delivers, Delivered, Passed, Joined
    <3>7. QED
      BY <2>3, <3>3, <3>4, <3>5, <3>6 DEF Next, Serve, Stop
  <2>4. QED
    BY <2>1, <2>2, <2>3
<1>5. QED
  BY <1>1, <1>3, <1>4 DEF AskedInv

\* A value that reaches a threshold does not conflict with it, and the other way round.
LEMMA ReachesOrConflicts ==
  ASSUME NEW v \in Values, NEW threshold \in Values
  PROVE  Reaches(v, threshold) <=> ~Conflicts(v, threshold)
<1>1. v.n \in Int /\ threshold.n \in Int
  BY DEF Values
<1>2. QED
  BY <1>1 DEF Reaches, Conflicts

\* What is filtered out is what is not due.
LEMMA FilteroutIsNotDue ==
  ASSUME NEW r \in Rules, Len(r.targets) = r.classNum - 1, NEW a \in Answers,
         \A i, j \in DOMAIN r.targets : r.targets[i].service = r.targets[j].service => i = j,
         NEW i \in DOMAIN r.targets
  PROVE  r.targets[i].service \in Filterout(r, a) <=> r.targets[i].service \notin Due(r, a)
<1> DEFINE v == a.items[IF Len(a.items) = 1 THEN 1 ELSE i + 1]
           t == r.targets[i]
           filters == Readable(a) /\ Len(a.items) \in {1, r.classNum}
<1>1. /\ a.items \in Seq(Values) /\ Len(a.items) \in Nat /\ (Len(a.items) = 0 <=> a.items = <<>>)
      /\ r.classNum \in Nat \ {0} /\ i \in 1..r.classNum - 1 /\ t.threshold \in Values
  <2>1. a.items \in Seq(Values)
    BY DEF Answers
  <2>2. r.targets \in Seq(Target) /\ r.classNum \in Nat \ {0} /\ t.threshold \in Values
    BY TargetFacts
  <2>3. QED
    BY <2>1, <2>2, LenProperties, EmptySeq
<1>2. filters <=> Classifies(r, a)
  <2> DEFINE n == Len(a.items)
  <2>1. n \in Nat /\ (n = 0 <=> a.items = <<>>) /\ r.classNum \in Nat /\ r.classNum > 1
    BY <1>1
  <2> HIDE DEF n
  <2>2. Readable(a) <=> a.array /\ n # 0 /\ (n = 1 => a.items[1].type = "string")
    BY <2>1 DEF Readable, n
  <2>3. Classifies(r, a) <=> /\ a.array
                             /\ n = r.classNum \/ (n = 1 /\ a.items[1].type = "string")
    BY <2>1 DEF Classifies, n
  <2>4. filters <=> Readable(a) /\ n \in {1, r.classNum}
    BY DEF n
  <2>5. QED
    BY <2>1, <2>2, <2>3, <2>4
<1>3. filters => v \in Values
  <2> SUFFICES ASSUME filters PROVE v \in Values
    OBVIOUS
  <2>1. (IF Len(a.items) = 1 THEN 1 ELSE i + 1) \in DOMAIN a.items
    BY <1>1 DEF Readable
  <2>2. QED
    BY <1>1, <2>1, InSeq
<1>4. t.service \in Filterout(r, a) <=> filters /\ Conflicts(v, t.threshold)
  BY DEF Filterout
<1>5. t.service \in Due(r, a) <=> (Classifies(r, a) => Reaches(v, t.threshold))
  BY DEF Due
<1> HIDE DEF v, filters
<1>6. QED
  BY <1>1, <1>2, <1>3, <1>4, <1>5, ReachesOrConflicts

\* A classifier that has been called leads to the node of its one deliver_config.
LEMMA OwnCascade ==
  ASSUME NamesApart, Asking, NEW r \in OwnRules, caller[r.classifier] = Top, r.classifier \in Services
  PROVE  /\ next[r.classifier] = Generated(r) /\ Generated(r) \in DOMAIN cascade
         /\ cascade[Generated(r)] = r /\ next[r.classifier] # NoName
<1>1. r \in RulesOf(setup) /\ setup \in Setups
  BY OwnFacts DEF Asking, Held, TypeOK
<1>2. PICK q \in OwnRules : r.classifier = q.classifier /\ next[r.classifier] = Generated(q)
  BY DEF Asking, AsksHeld, TopCalls
<1>3. Generated(q) = Generated(r)
  BY <1>2 DEF Generated
<1>4. /\ Generated(r) \in DOMAIN cascade /\ Generated(r) # NoName
      /\ cascade[Generated(r)] \in RulesOf(setup) /\ Generated(cascade[Generated(r)]) = Generated(r)
  BY <1>1, CascadeFacts, ConfigFacts DEF Asking, Held
<1>5. cascade[Generated(r)] = r
  BY <1>1, <1>4 DEF NamesApart
<1>6. QED
  BY <1>2, <1>3, <1>4, <1>5

LEMMA AskedIsDue ==
  ASSUME NamesApart, AskedInv
  PROVE  DueAreCalled
<1> SUFFICES ASSUME pc \in {"join", "after"}, Classifying, NEW r \in OwnRules, NEW t \in Services
             PROVE  /\ caller[t] = r.classifier => t \in Due(r, answer[r.classifier])
                    /\ pc = "after" /\ st[r.classifier] = "ended" /\ t \in Due(r, answer[r.classifier]) =>
                         caller[t] = r.classifier /\ st[t] \in {"ended", "failed"}
  BY DEF DueAreCalled
<1>1. Asking
  BY DEF AskedInv, AsksInv, Asking, Live
<1> DEFINE c == r.classifier
           a == answer[r.classifier]
<1>2. /\ r \in RulesOf(setup) /\ r \in Rules /\ c \in Services /\ setup \in Setups
      /\ caller[c] = Top /\ a \in Answers /\ Len(r.targets) = r.classNum - 1
  <2>1. r \in RulesOf(setup) /\ setup \in Setups /\ Accepts(setup)
    BY <1>1, OwnFacts DEF Asking, Held, TypeOK, PlaceHeld, Live
  <2>2. r \in Rules /\ c \in Services
    BY <2>1, RulesAreRules, TargetFacts
  <2>3. caller[c] = Top
    <3>1. PICK i \in DOMAIN setup.flow[curr].delivers : r = setup.flow[curr].delivers[i]
      BY DEF OwnRules, ToSet
    <3>2. QED
      BY <1>1, <3>1 DEF Asking, AsksHeld, TopLoop
  <2>4. QED
    BY <1>1, <2>1, <2>2, <2>3 DEF Asking, Held, CallsHeld, Accepts
<1>3. next[c] = Generated(r) /\ Generated(r) \in DOMAIN cascade /\ cascade[next[c]] = r /\ next[c] # NoName
  BY <1>1, <1>2, OwnCascade
<1>4. \A i \in DOMAIN r.targets : r.targets[i].service \in Filterout(r, a) <=> r.targets[i].service \notin Due(r, a)
  <2>1. \A i, j \in DOMAIN r.targets : r.targets[i].service = r.targets[j].service => i = j
    BY <1>2 DEF NamesApart
  <2>2. QED
    BY <1>2, <2>1, FilteroutIsNotDue
<1>5. ASSUME caller[t] = c PROVE t \in Due(r, a)
  <2>1. Delivers(c)
    BY <1>5 DEF Delivers
  <2>2. skip[c] = Filterout(r, a)
    BY <1>1, <1>2, <1>3, <2>1 DEF Asking, AsksHeld, SubSkips
  <2>3. t \notin skip[c] /\ \E i \in DOMAIN r.targets : t = r.targets[i].service
    BY <1>1, <1>2, <1>3, <1>5 DEF Asking, AsksHeld, SubCalls
  <2>4. QED
    BY <1>4, <2>2, <2>3
<1>6. ASSUME pc = "after", st[c] = "ended", t \in Due(r, a)
      PROVE  caller[t] = c /\ st[t] \in {"ended", "failed"}
  <2>1. PICK i \in DOMAIN r.targets : t = r.targets[i].service
    BY <1>6 DEF Due
  <2>2. Delivered(c) /\ Delivers(c)
    BY <1>3, <1>6 DEF Delivered, Delivers
  <2>3. t \notin skip[c]
    BY <1>1, <1>2, <1>3, <1>4, <1>6, <2>1, <2>2 DEF Asking, AsksHeld, SubSkips
  <2>4. caller[t] = c
    BY <1>1, <1>2, <1>3, <2>1, <2>2, <2>3 DEF Asking, AsksHeld, SubLoop, Passed
  <2>5. st[t] \in Over /\ st[t] \in {"made", "flight", "ended", "failed"}
    BY <1>1, <1>2, <1>3, <1>6, <2>4 DEF Asking, AsksHeld, SubsOver, SubCalls, Joined
  <2>6. QED
    BY <2>4, <2>5 DEF Over
<1>7. QED
  BY <1>5, <1>6

\* A classifier's closure calls exactly what its own answer asks for, whatever the other
\* closures do meanwhile: the node's calls are its deliver_configs', each closure's are
\* targets that its own helper does not filter out, and with the end of its loop all of
\* them.  Where names are not told apart this is not so: of two deliver_configs for one
\* classifier only one is kept.
THEOREM DeliversAsAsked ==
  ASSUME NamesApart
  PROVE  Spec => []DueAreCalled
<1>1. AskedInv /\ [Next]_vars => AskedInv'
  BY AskedStep
<1>2. AskedInv => DueAreCalled
  BY AskedIsDue
<1>3. QED
  BY <1>1, <1>2, AskedInit, PTL DEF Spec

-----------------------------------------------------------------------------
(* Where the results of a node's recall go.                                *)

\* From a node that none of them leads to, `ns' are the nodes its recall may come to: no
\* two recall a service in common, and none is led to twice.
Tree(root, ns) ==
  /\ root \in ns
  /\ \A n \in ns : \A i \in DOMAIN Leads(n) :
       Leads(n)[i].next \in FlowMap => Leads(n)[i].next \in ns \ {root}
  /\ \A m, n \in ns : \A i \in DOMAIN Leads(m), j \in DOMAIN Leads(n) :
       /\ Leads(m)[i].service = Leads(n)[j].service => m = n
       /\ Leads(m)[i].next = Leads(n)[j].next /\ Leads(m)[i].next \in FlowMap => m = n /\ i = j

\* That is so of every node of a configuration that start-up accepts; other nodes, which
\* follow when the recall has returned, may share services with it.
NodesApart == Accepts(setup) => \A n \in FlowMap : \E ns \in SUBSET FlowMap : Tree(n, ns)

\* A frame's calls are its node's services, each with the node that it leads to.
CalledByNode(ns) ==
  \A s \in Services : caller[s] \in Frames =>
    /\ NodeOf(caller[s]) \in ns
    /\ \E i \in DOMAIN Leads(NodeOf(caller[s])) :
         /\ Leads(NodeOf(caller[s]))[i].service = s
         /\ Leads(NodeOf(caller[s]))[i].next = next[s]

\* A frame registers its calls before one is issued, and its closure ends after theirs,
\* with their results.
CallersHeld ==
  \A s \in Services :
    /\ caller[s] = Top /\ pc = "recall" => st[s] = "made"
    /\ caller[s] \in Services =>
         /\ st[caller[s]] \in {"deliver", "join", "ended", "gave_up"}
         /\ st[caller[s]] \in {"deliver", "gave_up"} => st[s] = "made"
         /\ st[caller[s]] = "ended" => st[s] \in Over /\ ctx[s] \subseteq ctx[caller[s]]

\* No call is, by way of the closures, its own caller.
NotCircular == \A X \in SUBSET Services : (\A s \in X : caller[s] \in X) => X = {}

AnswersIn == \A s \in Services : answer[s] # Silence => caller[s] \in Frames /\ s \in ctx[s]

KeptIn(ns) == Tree(curr, ns) /\ CalledByNode(ns) /\ CallersHeld /\ NotCircular /\ AnswersIn
KeptInv ==
  /\ NodesApart /\ ResultsKept
  /\ pc \in {"recall", "join"} => \E ns \in SUBSET FlowMap : KeptIn(ns)

Recalls == pc \in {"recall", "join"} /\ pc' \in {"recall", "join"}

\* The nodes of a request, and what they recall, stay.
LEMMA NodesStay ==
  ASSUME UNCHANGED <<setup, cascade, curr>>
  PROVE  /\ FlowMap' = FlowMap /\ \A n : Leads(n)' = Leads(n)
         /\ \A ns : Tree(curr, ns)' <=> Tree(curr, ns)
         /\ NodesApart' <=> NodesApart
<1>1. FlowMap' = FlowMap /\ \A n : Leads(n)' = Leads(n)
  BY DEF FlowMap, UserNodes, Leads
<1>2. \A r, ns : Tree(r, ns)' <=> Tree(r, ns)
  BY <1>1 DEF Tree
<1>3. Accepts(setup)' <=> Accepts(setup)
  BY DEF Accepts
<1>4. QED
  BY <1>1, <1>2, <1>3 DEF NodesApart

\* A closure that copies its context copies it over nothing that has been called.
LEMMA CopiesAreFresh ==
  ASSUME Held, NEW ns \in SUBSET FlowMap, KeptIn(ns), NEW s \in Services, st[s] = "filter",
         next[s] \in FlowMap, NEW t \in ServiceList(next[s])
  PROVE  t \in Services /\ caller[t] \notin Frames
<1>0. t \in Services
  BY LeadsType DEF Held, TypeOK
<1>1. ASSUME caller[t] \in Frames PROVE FALSE
  <2> DEFINE m == NodeOf(caller[s])
             n == NodeOf(caller[t])
  <2>1. caller[s] \in Frames
    BY DEF Held, TypeOK
  <2>2. m \in ns /\ n \in ns
    BY <1>0, <1>1, <2>1 DEF KeptIn, CalledByNode
  <2>3. PICK i \in DOMAIN Leads(m) : Leads(m)[i].service = s /\ Leads(m)[i].next = next[s]
    BY <2>1 DEF KeptIn, CalledByNode
  <2>4. PICK j \in DOMAIN Leads(n) : Leads(n)[j].service = t
    BY <1>0, <1>1 DEF KeptIn, CalledByNode
  <2>5. PICK k \in DOMAIN Leads(next[s]) : Leads(next[s])[k].service = t
    BY DEF ServiceList
  <2>6. next[s] \in ns \ {curr}
    BY <2>2, <2>3 DEF KeptIn, Tree
  <2>7. n = next[s]
    BY <2>2, <2>4, <2>5, <2>6 DEF KeptIn, Tree
  <2>8. caller[t] \in Services /\ next[caller[t]] = next[s]
    BY <1>1, <2>6, <2>7 DEF NodeOf, Frames
  <2>9. caller[caller[t]] \in Frames /\ st[caller[t]] \in {"deliver", "join", "ended", "gave_up"}
    BY <1>0, <2>8 DEF KeptIn, CallersHeld, Held, TypeOK
  <2>10. caller[t] = s
    <3>1. PICK h \in DOMAIN Leads(NodeOf(caller[caller[t]])) :
            /\ Leads(NodeOf(caller[caller[t]]))[h].service = caller[t]
            /\ Leads(NodeOf(caller[caller[t]]))[h].next = next[s]
      BY <2>8, <2>9 DEF KeptIn, CalledByNode
    <3>2. NodeOf(caller[caller[t]]) \in ns
      BY <2>8, <2>9 DEF KeptIn, CalledByNode
    <3>3. QED
      BY <2>2, <2>3, <3>1, <3>2 DEF KeptIn, Tree
  <2>11. QED
    BY <2>9, <2>10
<1>2. QED
  BY <1>0, <1>1

LEMMA KeptRegister ==
  ASSUME Held, Recalls, NEW ns \in SUBSET FlowMap, KeptIn(ns), NEW f \in Frames, Register(f)
  PROVE  KeptIn(ns)'
<1>0. /\ Top \notin Services /\ NoName \notin Frames /\ Services \subseteq Frames
      /\ UNCHANGED <<setup, cascade, curr, answer, ctx>>
      /\ caller \in [Services -> Frames \cup {NoName}]
      /\ next = [s \in Services |-> next[s]]
  BY NameFacts DEF Register, Held, CallsHeld
<1>1. Tree(curr, ns)'
  BY <1>0, NodesStay DEF KeptIn
<1>2. CASE Lead(f).service \in skip[f] /\ UNCHANGED <<pc, reg, st, caller, next>>
  BY <1>0, <1>1, <1>2, NodesStay DEF KeptIn, CalledByNode, CallersHeld, NotCircular, AnswersIn, NodeOf
<1>3. CASE Lead(f).service \notin skip[f] \cup reg /\ Admit(f, Lead(f)) /\ UNCHANGED pc
  <2> DEFINE l == Lead(f)
             t == l.service
  <2>0. /\ t \in Services /\ t \notin reg /\ NodeOf(f) \in FlowMap /\ pos[f] \in DOMAIN Leads(NodeOf(f))
        /\ (f # Top => f \in Services /\ st[f] = "deliver") /\ (f = Top => pc = "recall")
        /\ Recalling(f)
        /\ st \in [Services -> {"none", "made", "flight", "filter", "deliver", "join"} \cup Over]
    BY <1>3, FrameFacts DEF Register, Looping, Held, TypeOK
  <2>1. st[t] = "none" /\ caller[t] = NoName
    BY <2>0, Uncalled
  <2>2. \A u \in Services : caller[u] # t
    BY <1>0, <2>0, <2>1 DEF KeptIn, CallersHeld
  <2>3. /\ st' = [st EXCEPT ![t] = "made"] /\ caller' = [caller EXCEPT ![t] = f]
        /\ next' = [next EXCEPT ![t] = l.next]
    BY <1>3 DEF Admit
  <2>4. f # t
    BY <1>0, <2>0, <2>1
  <2>5. NodeOf(f) \in ns
    <3>1. CASE f = Top
      BY <3>1 DEF NodeOf, KeptIn, Tree
    <3>2. CASE f # Top
      <4>1. caller[f] \in Frames
        BY <2>0, <3>2 DEF Held, TypeOK
      <4>2. PICK i \in DOMAIN Leads(NodeOf(caller[f])) : Leads(NodeOf(caller[f]))[i].next = next[f]
        BY <2>0, <3>2, <4>1 DEF KeptIn, CalledByNode
      <4>3. NodeOf(caller[f]) \in ns /\ NodeOf(f) = next[f]
        BY <2>0, <3>2, <4>1 DEF KeptIn, CalledByNode, NodeOf
      <4>4. QED
        BY <2>0, <4>2, <4>3 DEF KeptIn, Tree
    <3>3. QED
      BY <3>1, <3>2
  <2>6. \A g \in Frames : g # t => NodeOf(g)' = NodeOf(g)
    BY <1>0, <2>0, <2>3 DEF NodeOf, Frames
  <2>7. CalledByNode(ns)'
    <3> SUFFICES ASSUME NEW s \in Services, caller'[s] \in Frames
                 PROVE  /\ NodeOf(caller[s])' \in ns
                        /\ \E i \in DOMAIN Leads(NodeOf(caller[s]))' :
                             /\ Leads(NodeOf(caller[s]))'[i].service = s
                             /\ Leads(NodeOf(caller[s]))'[i].next = next'[s]
      BY DEF CalledByNode
    <3>1. CASE s = t
      <4>1. caller'[s] = f /\ next'[s] = l.next
        BY <1>0, <2>0, <2>3, <3>1
      <4>2. NodeOf(caller[s])' = NodeOf(f)
        BY <1>0, <2>0, <2>4, <2>6, <4>1 DEF NodeOf
      <4>3. Leads(NodeOf(caller[s]))' = Leads(NodeOf(f))
        BY <1>0, <4>2, NodesStay DEF Leads
      <4>4. QED
        BY <2>0, <2>5, <3>1, <4>1, <4>2, <4>3 DEF Lead
    <3>2. CASE s # t
      <4>1. caller'[s] = caller[s] /\ next'[s] = next[s] /\ caller[s] # t
        BY <1>0, <2>0, <2>2, <2>3, <3>2
      <4>2. NodeOf(caller[s])' = NodeOf(caller[s])
        BY <2>6, <4>1 DEF NodeOf
      <4>3. Leads(NodeOf(caller[s]))' = Leads(NodeOf(caller[s]))
        BY <1>0, <4>2, NodesStay DEF Leads
      <4>4. QED
        BY <4>1, <4>2, <4>3 DEF KeptIn, CalledByNode
    <3>3. QED
      BY <3>1, <3>2
  <2>8. CallersHeld'
    BY <1>0, <1>3, <2>0, <2>2, <2>3, <2>4 DEF KeptIn, CallersHeld, Over
  <2>9. NotCircular'
    <3> SUFFICES ASSUME NEW X \in SUBSET Services, \A s \in X : caller'[s] \in X
                 PROVE  X = {}
      BY DEF NotCircular
    <3>1. \A s \in X \ {t} : caller[s] \in X \ {t}
      BY <1>0, <2>0, <2>2, <2>3
    <3>2. X \ {t} = {}
      BY <3>1 DEF KeptIn, NotCircular
    <3>3. QED
      BY <1>0, <2>0, <2>3, <2>4, <3>2
  <2>10. AnswersIn'
    BY <1>0, <2>0, <2>3 DEF KeptIn, AnswersIn
  <2>11. QED
    BY <1>1, <2>7, <2>8, <2>9, <2>10 DEF KeptIn
<1>4. CASE f # Top /\ st' = [st EXCEPT ![f] = "gave_up"] /\ UNCHANGED <<pc, reg, caller, next>>
  <2>1. f \in Services /\ st[f] = "deliver"
    BY <1>4, FrameFacts DEF Register
  <2>2. \A s \in Services : caller[s] = f => st[s] = "made"
    BY <2>1 DEF KeptIn, CallersHeld
  <2>3. caller[f] = Top \/ caller[f] \in Services => pc # "recall" \/ caller[f] # Top
    BY <1>4, FrameFacts DEF Register
  <2>4. CallersHeld'
    BY <1>0, <1>4, <2>1, <2>2, <2>3 DEF KeptIn, CallersHeld, Over, Held, TypeOK
  <2>5. QED
    BY <1>0, <1>1, <1>4, <2>4, NodesStay DEF KeptIn, CalledByNode, NotCircular, AnswersIn, NodeOf
<1>5. QED
  BY <1>2, <1>3, <1>4 DEF Register, Recalls

LEMMA KeptIssue ==
  ASSUME Held, Recalls, NEW ns \in SUBSET FlowMap, KeptIn(ns), NEW f \in Frames, Issue(f)
  PROVE  KeptIn(ns)'
<1>0. /\ Top \notin Services /\ UNCHANGED <<setup, cascade, curr, caller, next, answer, ctx>>
      /\ (f # Top => f \in Services /\ st[f] = "deliver" /\ pc = "join")
      /\ (f = Top => pc = "recall" /\ pc' = "join") /\ (f # Top => pc' = pc)
  BY NameFacts, FrameFacts DEF Issue
<1>1. Tree(curr, ns)'
  BY <1>0, NodesStay DEF KeptIn
<1>2. \A s \in Services : st'[s] = IF caller[s] = f THEN "flight" ELSE IF s = f THEN "join" ELSE st[s]
  BY DEF Issue
<1>3. \A s \in Services : caller[s] = f => st[s] = "made"
  BY <1>0 DEF KeptIn, CallersHeld
<1>4. CallersHeld'
  BY <1>0, <1>2, <1>3 DEF KeptIn, CallersHeld, Over
<1>5. QED
  BY <1>0, <1>1, <1>4, NodesStay DEF KeptIn, CalledByNode, NotCircular, AnswersIn, NodeOf

LEMMA KeptClosure ==
  ASSUME Held, Recalls, NEW ns \in SUBSET FlowMap, KeptIn(ns), NEW s \in Services,
         Answer(s) \/ CallFails(s) \/ Filter(s) \/ Merge(s)
  PROVE  KeptIn(ns)'
<1>0. /\ Top \notin Services /\ UNCHANGED <<setup, cascade, curr, caller, next>>
      /\ pc = "join" /\ pc' = "join"
      /\ ctx \in [Services -> SUBSET Services] /\ answer \in [Services -> Answers]
      /\ st \in [Services -> {"none", "made", "flight", "filter", "deliver", "join"} \cup Over]
      /\ st[s] \in {"flight", "filter", "join"} /\ caller[s] \in Frames
  BY NameFacts DEF Answer, CallFails, Filter, Merge, Held, TypeOK, CallsHeld, Recalls
<1>1. Tree(curr, ns)' /\ CalledByNode(ns)' /\ NotCircular'
  BY <1>0, NodesStay DEF KeptIn, CalledByNode, NotCircular, NodeOf
<1>2. CASE Answer(s)
  <2>1. /\ st[s] = "flight" /\ ctx' = [ctx EXCEPT ![s] = @ \cup {s}]
        /\ \E r : st' = [st EXCEPT ![s] = r] /\ r \in {"ended", "filter"}
        /\ \E a : answer' = [answer EXCEPT ![s] = a]
    BY <1>2 DEF Answer
  <2>2. \A t \in Services : caller[t] # s
    BY <2>1 DEF KeptIn, CallersHeld
  <2>3. CallersHeld'
    BY <1>0, <2>1, <2>2 DEF KeptIn, CallersHeld, Over
  <2>4. AnswersIn'
    BY <1>0, <2>1 DEF KeptIn, AnswersIn
  <2>5. QED
    BY <1>1, <2>3, <2>4 DEF KeptIn
<1>3. CASE CallFails(s)
  <2>1. st[s] = "flight" /\ st' = [st EXCEPT ![s] = "failed"] /\ UNCHANGED <<answer, ctx>>
    BY <1>3 DEF CallFails
  <2>2. \A t \in Services : caller[t] # s
    BY <2>1 DEF KeptIn, CallersHeld
  <2>3. CallersHeld' /\ AnswersIn'
    BY <1>0, <2>1, <2>2 DEF KeptIn, CallersHeld, AnswersIn, Over
  <2>4. QED
    BY <1>1, <2>3 DEF KeptIn
<1>4. CASE Filter(s)
  <2>1. /\ st[s] = "filter" /\ UNCHANGED answer
        /\ \E r : st' = [st EXCEPT ![s] = r] /\ r \in {"gave_up", "deliver"}
    BY <1>0, <1>4 DEF Filter
  <2>2. \A t \in Services : caller[t] \in Frames => ctx'[t] = ctx[t]
    BY <1>0, <1>4, <2>1, CopiesAreFresh DEF Filter
  <2>3. \A t \in Services : caller[t] # s
    BY <2>1 DEF KeptIn, CallersHeld
  <2>4. \A t \in Services : caller[t] \in Services => caller[caller[t]] \in Frames
    BY DEF KeptIn, CallersHeld, Held, TypeOK
  <2>5. CallersHeld' /\ AnswersIn'
    BY <1>0, <2>1, <2>2, <2>3, <2>4 DEF KeptIn, CallersHeld, AnswersIn, Over, Frames
  <2>6. QED
    BY <1>1, <2>5 DEF KeptIn
<1>5. CASE Merge(s)
  <2>1. /\ st[s] = "join" /\ UNCHANGED answer /\ st' = [st EXCEPT ![s] = "ended"]
        /\ ctx' = [ctx EXCEPT ![s] = @ \cup UNION {ctx[t] : t \in ServiceList(next[s])}]
        /\ \A t \in Services : caller[t] = s => st[t] \in Over
    BY <1>5 DEF Merge, Joined
  <2>2. \A t \in Services : caller[t] = s => t \in ServiceList(next[s])
    BY <1>0 DEF KeptIn, CalledByNode, NodeOf, ServiceList, Frames
  <2>3. CallersHeld'
    BY <1>0, <2>1, <2>2 DEF KeptIn, CallersHeld, Over
  <2>4. AnswersIn'
    BY <1>0, <2>1 DEF KeptIn, AnswersIn
  <2>5. QED
    BY <1>1, <2>3, <2>4 DEF KeptIn
<1>6. QED
  BY <1>2, <1>3, <1>4, <1>5

LEMMA KeptFind ==
  ASSUME Held, NodesApart, FindNode, pc' \in {"recall", "join"}
  PROVE  \E ns \in SUBSET FlowMap' : KeptIn(ns)'
<1>0. /\ NoName \notin Frames /\ Services \subseteq Frames /\ curr \in FlowMap /\ Accepts(setup)
      /\ UNCHANGED <<setup, cascade, curr>>
      /\ \A s \in Services : caller'[s] = NoName /\ answer'[s] = Silence
  BY NameFacts DEF FindNode, Held, PlaceHeld
<1>1. PICK ns \in SUBSET FlowMap : Tree(curr, ns)
  BY <1>0 DEF NodesApart
<1>2. Tree(curr, ns)' /\ ns \in SUBSET FlowMap'
  BY <1>0, <1>1, NodesStay
<1>3. CalledByNode(ns)' /\ CallersHeld' /\ NotCircular' /\ AnswersIn'
  <2>1. NoName # Top
    BY NameFacts
  <2>2. QED
    BY <1>0, <2>1 DEF CalledByNode, CallersHeld, NotCircular, AnswersIn
<1>4. QED
  BY <1>2, <1>3 DEF KeptIn

\* When the serving thread has joined its calls, every closure that had to wait has ended.
LEMMA AllJoined ==
  ASSUME NEW ns, KeptIn(ns), Joined(Top), NEW s \in Services, st[s] = "join", Held
  PROVE  FALSE
<1> DEFINE X == {d \in Services : st[d] = "join"}
<1>1. ASSUME NEW d \in X PROVE caller[d] \in X
  <2>1. caller[d] \in Services
    BY <1>1 DEF Held, TypeOK, Frames, Joined, Over
  <2>2. QED
    BY <1>1, <2>1 DEF KeptIn, CallersHeld, Over
<1>2. QED
  BY <1>1 DEF KeptIn, NotCircular

LEMMA KeptMerge ==
  ASSUME Held, pc = "join", NEW ns \in SUBSET FlowMap, KeptIn(ns), MergeNode
  PROVE  ResultsKept'
<1> SUFFICES ASSUME NEW s \in Services, answer[s] # Silence,
                    caller[s] = Top \/ st[caller[s]] = "ended"
             PROVE  s \in backend'
  BY DEF ResultsKept, MergeNode, callVars
<1> DEFINE X == {d \in Services : st[d] = "ended" /\ s \in ctx[d]}
<1>0. Joined(Top) /\ backend' = backend \cup UNION {ctx[t] : t \in ServiceList(curr)}
      /\ Top \notin Services
  BY NameFacts DEF MergeNode
<1>1. ASSUME NEW d \in Services, caller[d] = Top, s \in ctx[d]
      PROVE  s \in backend'
  <2>1. d \in ServiceList(curr)
    BY <1>1 DEF KeptIn, CalledByNode, NodeOf, ServiceList, Frames
  <2>2. QED
    BY <1>0, <1>1, <2>1
<1>2. s \in ctx[s] /\ caller[s] \in Frames
  BY DEF KeptIn, AnswersIn
<1>3. CASE caller[s] = Top
  BY <1>1, <1>2, <1>3
<1>4. CASE caller[s] # Top
  <2>1. caller[s] \in X
    BY <1>2, <1>4 DEF KeptIn, CallersHeld, Frames
  <2>2. PICK d \in X : caller[d] \notin X
    BY <2>1 DEF KeptIn, NotCircular
  <2>3. caller[d] = Top
    <3>1. SUFFICES ASSUME caller[d] \in Services PROVE FALSE
      BY DEF Held, TypeOK, Frames
    <3>2. st[caller[d]] = "ended"
      BY <1>0, <3>1, AllJoined DEF KeptIn, CallersHeld
    <3>3. QED
      BY <2>2, <3>1, <3>2 DEF KeptIn, CallersHeld
  <2>4. QED
    BY <1>1, <2>3
<1>5. QED
  BY <1>3, <1>4

LEMMA KeptStep ==
  ASSUME Held, KeptInv, [Next]_vars
  PROVE  KeptInv'
<1>1. CASE FindNode
  BY <1>1, KeptFind, NodesStay DEF KeptInv, FindNode, ResultsKept
<1>2. CASE MergeNode
  BY <1>2, KeptMerge, NodesStay DEF KeptInv, MergeNode
<1>3. CASE Leave
  <2>1. pc' \in {"done", "find"} /\ UNCHANGED <<setup, cascade>>
    BY <1>3 DEF Leave
  <2>2. NodesApart' <=> NodesApart
    BY <2>1 DEF NodesApart, Accepts, FlowMap, UserNodes, Tree, Leads
  <2>3. QED
    BY <2>1, <2>2 DEF KeptInv, ResultsKept
<1>4. CASE UNCHANGED vars
  <2>1. \A ns : KeptIn(ns) => KeptIn(ns)'
    BY <1>4, NodesStay
    DEF vars, KeptIn, CalledByNode, CallersHeld, NotCircular, AnswersIn, NodeOf
  <2>2. QED
    BY <1>4, <2>1, NodesStay DEF vars, KeptInv, ResultsKept
<1>5. ASSUME \/ \E f \in Frames : Frame(f)
             \/ \E s \in Services : Answer(s) \/ CallFails(s) \/ Filter(s) \/ Merge(s)
      PROVE  KeptInv'
  <2>1. /\ pc \in {"recall", "join"} /\ pc' \in {"recall", "join", "failed", "crash"}
        /\ UNCHANGED <<setup, cascade, curr>>
    BY <1>5 DEF Frame, Register, Issue, Recalling, Answer, CallFails, Filter, Merge
  <2>2. NodesApart' /\ ResultsKept'
    BY <2>1, NodesStay DEF KeptInv, ResultsKept
  <2>3. ASSUME pc' \in {"recall", "join"}
        PROVE  \E ns \in SUBSET FlowMap' : KeptIn(ns)'
    <3>1. PICK ns \in SUBSET FlowMap : KeptIn(ns)
      BY <2>1 DEF KeptInv
    <3>2. KeptIn(ns)'
      BY <1>5, <2>1, <2>3, <3>1, KeptRegister, KeptIssue, KeptClosure DEF Frame, Recalls
    <3>3. QED
      BY <2>1, <3>2, NodesStay
  <2>4. QED
    BY <2>2, <2>3 DEF KeptInv
<1>6. QED
  BY <1>1, <1>2, <1>3, <1>4, <1>5, NameFacts DEF Next, Serve, Closure, Stop

\* Every answer of a node's recall reaches the top context, by way of the closures that
\* delivered to the service, unless one was refused: no closure copies a context over one
\* that is in use, and none ends before what it has called (GlobalClosure::Run).  That
\* goes for nodes that are apart; a service that two nodes of one recall name can lose its
\* answer.
THEOREM ResultsReachTop == Spec /\ NodesApart => []ResultsKept
<1>1. Init /\ NodesApart => KeptInv
  BY DEF Init, KeptInv, ResultsKept
<1>2. Held /\ KeptInv /\ [Next]_vars => KeptInv'
  BY KeptStep
<1>3. KeptInv => ResultsKept
  BY DEF KeptInv
<1>4. QED
  BY <1>1, <1>2, <1>3, AlwaysHeld, PTL DEF Spec
=============================================================================

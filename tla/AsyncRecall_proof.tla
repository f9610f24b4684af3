--------------------------- MODULE AsyncRecall_proof ---------------------------
(***************************************************************************)
(* Proofs about AsyncRecall, for any services, static or dynamic, lists of *)
(* calls, flows of any nodes, orders and quit conditions.                  *)
(***************************************************************************)
EXTENDS AsyncRecall, TLAPS, SequenceTheorems

-----------------------------------------------------------------------------
(* The inductive invariant.                                                *)

Begun == {"locked", "ended"}

\* A call belongs to a frame that has started, and that recalls its service; a
\* dynamic service's calls come after its own controller.
CallsPlaced ==
  \A c \in Cntls : call[c] # "none" =>
    /\ fpc[home[c]] # "off"
    /\ \E i \in DOMAIN RecallList(node[home[c]]) : RecallList(node[home[c]])[i] = Owner(c)
    /\ call[Owner(c)] # "none"

\* With ids every service that has a controller has one, and a sub only once it is
\* called; without, nothing has.
IdsOfCalls ==
  /\ HasIds => \A s \in Services : s \in reg <=> call[s] # "none"
  /\ \A x \in reg : call[x] # "none"
  /\ ~HasIds => reg = {}

\* A service that frame f has created and not yet built.
Unbuilt(f, s) ==
  /\ home[s] = f /\ call[s] = "idle"
  /\ \A d \in Subs : SubOwner[d] = s => call[d] = "none"

\* What a frame has created, and what it has yet to build, are different services
\* without a call.
Ahead(f, i) ==
  \/ fpc[f] = "create" /\ i < fat[f]
  \/ fpc[f] = "build" /\ i >= fat[f]
  \/ fpc[f] = "register" /\ i > fat[f]

CreatedAhead ==
  \A f \in Frames : \A i \in DOMAIN RecallList(node[f]) :
    Ahead(f, i) =>
      /\ Unbuilt(f, RecallList(node[f])[i])
      /\ \A j \in DOMAIN RecallList(node[f]) :
           Ahead(f, j) /\ RecallList(node[f])[j] = RecallList(node[f])[i] => i = j

\* A closure runs when its call has ended, and starts a frame once.
ClosuresBegin ==
  \A c \in Cntls :
    /\ cpc[c] \notin {"check", "parse"} => call[c] \in Begun
    /\ cpc[c] \in {"check", "parse", "route", "around", "copy"} => fpc[c] = "off"

\* Where the loops of a closure are.
LoopsInside ==
  \A c \in Cntls :
    /\ cpc[c] \in {"around", "copy", "recall", "merge"} => NextOf(c) \in DOMAIN Flow
    /\ cpc[c] \in {"copy", "merge"} => cat[c] \in 1..Len(NextList(c))
    /\ cpc[c] \in {"recall", "cancel"} => cat[c] = 1
    /\ cpc[c] = "gather" => cat[c] \in 1..N

CallInv == CallsPlaced /\ IdsOfCalls /\ CreatedAhead /\ ClosuresBegin

-----------------------------------------------------------------------------
(* What the types give.                                                    *)

LEMMA ConfigFacts ==
  ASSUME setup \in Setups
  PROVE  /\ Flow \in [DOMAIN Flow -> NodeConfigs]
         /\ Start \in DOMAIN Flow /\ NoName \notin DOMAIN Flow
         /\ HasIds \in BOOLEAN /\ N \in Nat \ {0}
         /\ Dynamic \subseteq Services /\ Subs \cap Services = {}
         /\ SubOwner \in [Subs -> Dynamic] /\ Root \notin Cntls
  BY FlowAssumption DEF SetupAssumption, Flow, HasIds

LEMMA ListFacts ==
  ASSUME setup \in Setups, NEW n \in DOMAIN Flow
  PROVE  /\ Len(RecallList(n)) \in Nat \ {0} /\ DOMAIN RecallList(n) = 1..Len(RecallList(n))
         /\ \A i \in 1..Len(RecallList(n)) : RecallList(n)[i] \in Services
         /\ Len(Flow[n].recall) \in Nat \ {0}
         /\ \A i \in 1..Len(Flow[n].recall) : Flow[n].recall[i] \in Services
<1>1. Flow[n] \in NodeConfigs /\ N \in Nat \ {0}
  BY ConfigFacts
<1>2. Flow[n].recall \in Seq(Services) \ {<<>>} /\ Flow[n].intervene \in 0..N
  BY <1>1 DEF NodeConfigs
<1>3. Flow[n].intervene # 0 => <<Flow[n].intervene>> \in Seq(Services) \ {<<>>}
  BY <1>1, <1>2 DEF Services
<1>4. RecallList(n) \in Seq(Services) \ {<<>>}
  BY <1>2, <1>3 DEF RecallList
<1>5. \A q \in Seq(Services) \ {<<>>} :
        /\ Len(q) \in Nat \ {0} /\ DOMAIN q = 1..Len(q)
        /\ \A i \in 1..Len(q) : q[i] \in Services
  BY LenProperties, ElementOfSeq, EmptySeq
<1>6. QED
  BY <1>2, <1>4, <1>5

LEMMA OwnerFacts ==
  ASSUME setup \in Setups
  PROVE  /\ \A c \in Cntls : Owner(c) \in Services
         /\ \A s \in Services : s \in Cntls /\ s \notin Subs /\ Owner(s) = s
         /\ \A d \in Subs : d \in Cntls /\ d \notin Services /\ Owner(d) = SubOwner[d]
  BY ConfigFacts DEF Owner, Cntls

LEMMA AtFacts ==
  ASSUME TypeOK, NEW f \in Frames
  PROVE  /\ node[f] \in DOMAIN Flow /\ fat[f] \in 1..Len(RecallList(node[f]))
         /\ fat[f] \in DOMAIN RecallList(node[f])
         /\ At(f) \in Services /\ At(f) \in Cntls /\ At(f) \notin Subs /\ Owner(At(f)) = At(f)
<1>1. setup \in Setups /\ node[f] \in DOMAIN Flow /\ fat[f] \in 1..Len(RecallList(node[f]))
  BY DEF TypeOK
<1>2. QED
  BY <1>1, ListFacts, OwnerFacts DEF At


-----------------------------------------------------------------------------
(* The steps, by what they touch.                                          *)

\* What only the closure of c and the contexts see.
Local(c) ==
  \/ Check(c) \/ Parse(c) \/ Route(c) \/ Recalled(c) \/ Merge(c)
  \/ Cancel(c) \/ Gather(c) \/ GoOn(c) \/ Swept(c)

\* What a frame does.
FrameMoves(f) ==
  \/ DefFails(f) \/ Create(f) \/ Build(f) \/ BuildDynamic(f) \/ BuildFails(f)
  \/ Register(f) \/ RegisterNull(f) \/ Join(f)

LEMMA StepCases ==
  ASSUME [Next]_vars
  PROVE  \/ \E f \in Frames : FrameMoves(f)
         \/ \E c \in Cntls : Reply(c) \/ Fail(c) \/ RunReturns(c)
         \/ \E c \in Cntls : Local(c)
         \/ \E c \in Cntls : Copy(c)
         \/ \E c \in Cntls : QuitFlow(c) \/ QuitDone(c)
         \/ \E c \in Cntls, x \in Cntls : Sweep(c, x)
         \/ UNCHANGED vars
  BY DEF Next, Stopped, Around, Local, FrameMoves

LEMMA LocalFacts ==
  ASSUME NEW c \in Cntls, Local(c)
  PROVE  UNCHANGED <<setup, frameVars, built, home, brpcVars, idsVars>>
  BY DEF Local, Check, Parse, Route, Recalled, Merge, Cancel, Gather, GoOn, Swept

LEMMA SetupStays ==
  ASSUME [Next]_vars
  PROVE  UNCHANGED setup
<1>1. ASSUME NEW f \in Frames, FrameMoves(f)
      PROVE  UNCHANGED setup
  BY <1>1 DEF FrameMoves, DefFails, Create, Build, BuildDynamic, BuildFails, Register, RegisterNull, Join
<1>2. ASSUME NEW c \in Cntls, Local(c)
      PROVE  UNCHANGED setup
  BY <1>2, LocalFacts
<1>3. QED
  BY <1>1, <1>2, StepCases DEF Reply, Fail, RunReturns, Copy, QuitFlow, QuitDone, Sweep, vars

-----------------------------------------------------------------------------
(* Type correctness.                                                       *)

FrameTypes ==
  /\ setup \in Setups
  /\ fpc \in [Frames -> FrameStates]
  /\ fat \in [Frames -> Nat]
  /\ \A f \in Frames : fat[f] \in 1..Len(RecallList(node[f]))
  /\ node \in [Frames -> DOMAIN Flow]

CallTypes ==
  /\ built \subseteq Services
  /\ home \in [Cntls -> Frames]
  /\ call \in [Cntls -> {"none", "idle", "flight", "locked", "ended"}]
  /\ failed \in [Cntls -> {"no", "net", "cancel"}]
  /\ full \subseteq Subs
  /\ reg \subseteq Cntls
  /\ ready \in BOOLEAN
  /\ mutex \in Frames

ClosureTypes ==
  /\ cpc \in [Cntls -> ClosureStates]
  /\ cat \in [Cntls -> Nat]
  /\ togo \in [Cntls -> SUBSET Cntls]
  /\ seen \in [Cntls -> SUBSET Services]
  /\ ctx \in [Services -> SUBSET Services]

LEMMA TypeParts == TypeOK <=> FrameTypes /\ CallTypes /\ ClosureTypes
  BY DEF TypeOK, FrameTypes, CallTypes, ClosureTypes

LEMMA SameFrameTypes ==
  ASSUME FrameTypes, UNCHANGED <<setup, frameVars>>
  PROVE  FrameTypes'
  BY DEF FrameTypes, frameVars, RecallList, Flow

LEMMA SameCallTypes ==
  ASSUME CallTypes, UNCHANGED <<built, home, brpcVars, idsVars>>
  PROVE  CallTypes'
  BY DEF CallTypes, brpcVars, idsVars

LEMMA SameClosureTypes ==
  ASSUME ClosureTypes, UNCHANGED <<closureVars, ctx>>
  PROVE  ClosureTypes'
  BY DEF ClosureTypes, closureVars

\* A frame goes to another loop, or to another position, and stays at its node.
LEMMA FrameGoesOn ==
  ASSUME FrameTypes, UNCHANGED <<setup, node>>, NEW f \in Frames, NEW p \in FrameStates,
         NEW i \in 1..Len(RecallList(node[f])),
         fpc' = [fpc EXCEPT ![f] = p], fat' = [fat EXCEPT ![f] = i]
  PROVE  FrameTypes'
<1>1. Len(RecallList(node[f])) \in Nat /\ i \in Nat
  BY ListFacts DEF FrameTypes
<1>2. QED
  BY <1>1 DEF FrameTypes, RecallList, Flow

LEMMA AdvanceTypes ==
  ASSUME FrameTypes, UNCHANGED <<setup, node>>, NEW f \in Frames, NEW p \in FrameStates,
         NEW q \in FrameStates, Advance(f, p, q)
  PROVE  FrameTypes'
<1>1. Len(RecallList(node[f])) \in Nat \ {0} /\ fat[f] \in 1..Len(RecallList(node[f]))
  BY ListFacts DEF FrameTypes
<1>2. CASE fat[f] < Len(RecallList(node[f]))
  <2>1. fat[f] + 1 \in 1..Len(RecallList(node[f]))
    BY <1>1, <1>2
  <2>2. fat' = [fat EXCEPT ![f] = fat[f] + 1] /\ fpc' = [fpc EXCEPT ![f] = p]
    BY <1>2 DEF Advance
  <2>3. QED
    BY <2>1, <2>2, FrameGoesOn
<1>3. CASE ~(fat[f] < Len(RecallList(node[f])))
  <2>1. fat' = [fat EXCEPT ![f] = 1] /\ fpc' = [fpc EXCEPT ![f] = q] /\ 1 \in 1..Len(RecallList(node[f]))
    BY <1>1, <1>3 DEF Advance
  <2>2. QED
    BY <2>1, FrameGoesOn
<1>4. QED
  BY <1>2, <1>3

LEMMA LeaveTypes ==
  ASSUME FrameTypes, CallTypes, UNCHANGED <<setup, node>>, NEW f \in Frames, NEW p \in FrameStates,
         Leave(f, p)
  PROVE  FrameTypes' /\ call' \in [Cntls -> {"none", "idle", "flight", "locked", "ended"}]
<1>1. 1 \in 1..Len(RecallList(node[f]))
  BY ListFacts DEF FrameTypes
<1>2. FrameTypes'
  BY <1>1, FrameGoesOn DEF Leave
<1>3. QED
  BY <1>2 DEF Leave, CallTypes

LEMMA FrameTypeStep ==
  ASSUME TypeOK, NEW f \in Frames, FrameMoves(f)
  PROVE  TypeOK'
<1>0. FrameTypes /\ CallTypes /\ ClosureTypes /\ At(f) \in Services /\ At(f) \in Cntls
      /\ {"create", "build", "register", "join", "ok", "err", "crash"} \subseteq FrameStates
  BY TypeParts, AtFacts DEF FrameStates
<1>1. ClosureTypes'
  BY <1>0, SameClosureTypes
  DEF FrameMoves, DefFails, Create, Build, BuildDynamic, BuildFails, Register, RegisterNull, Join
<1>2. FrameTypes' /\ CallTypes'
  <2>1. CASE DefFails(f) \/ Join(f)
    <3>1. FrameTypes' /\ call' \in [Cntls -> {"none", "idle", "flight", "locked", "ended"}]
      BY <1>0, <2>1, LeaveTypes DEF DefFails, Join
    <3>2. QED
      BY <1>0, <2>1, <3>1 DEF DefFails, Join, CallTypes, idsVars
  <2>2. CASE Create(f)
    <3>1. UNCHANGED <<setup, node, built, failed, full, ready, mutex>>
      BY <2>2 DEF Create
    <3>2. CASE \E p \in {"err", "ok"} : Leave(f, p) /\ UNCHANGED <<home, reg>>
      <4>1. FrameTypes' /\ call' \in [Cntls -> {"none", "idle", "flight", "locked", "ended"}]
        BY <1>0, <3>1, <3>2, LeaveTypes
      <4>2. QED
        BY <1>0, <3>1, <3>2, <4>1 DEF CallTypes
    <3>3. CASE /\ call' = [call EXCEPT ![At(f)] = "idle"] /\ home' = [home EXCEPT ![At(f)] = f]
               /\ reg' = (IF HasIds THEN reg \cup {At(f)} ELSE reg) /\ Advance(f, "create", "build")
      <4>1. FrameTypes'
        BY <1>0, <3>1, <3>3, AdvanceTypes
      <4>2. QED
        BY <1>0, <3>1, <3>3, <4>1 DEF CallTypes
    <3>4. QED
      BY <2>2, <3>2, <3>3 DEF Create
  <2>3. CASE Build(f) \/ BuildFails(f)
    <3>1. UNCHANGED <<setup, node, home, failed, full, idsVars>> /\ Advance(f, "build", "join")
          /\ built' \subseteq built \cup {At(f)} /\ (call' = call \/ call' = Issued({At(f)}))
      BY <2>3 DEF Build, BuildFails, brpcVars
    <3>2. FrameTypes'
      BY <1>0, <3>1, AdvanceTypes
    <3>3. QED
      BY <1>0, <3>1, <3>2 DEF CallTypes, Issued, idsVars
  <2>4. CASE BuildDynamic(f)
    <3>1. PICK cs \in SUBSET CallsOf(At(f)) :
            call' = Issued(cs) /\ home' = [c \in Cntls |-> IF c \in cs THEN f ELSE home[c]]
      BY <2>4 DEF BuildDynamic
    <3>2. /\ UNCHANGED <<setup, fat, node, failed, full, idsVars>>
          /\ fpc' = [fpc EXCEPT ![f] = "register"] /\ built' = built \cup {At(f)}
      BY <2>4 DEF BuildDynamic
    <3>3. FrameTypes'
      BY <1>0, <3>2 DEF FrameTypes, RecallList, Flow
    <3>4. QED
      BY <1>0, <3>1, <3>2, <3>3 DEF CallTypes, Issued, idsVars
  <2>5. CASE Register(f)
    <3>1. UNCHANGED <<setup, node, built, home, failed, full, ready, mutex>>
      BY <2>5 DEF Register
    <3>2. CASE Leave(f, "ok") /\ UNCHANGED reg
      <4>1. FrameTypes' /\ call' \in [Cntls -> {"none", "idle", "flight", "locked", "ended"}]
        BY <1>0, <3>1, <3>2, LeaveTypes
      <4>2. QED
        BY <1>0, <3>1, <3>2, <4>1 DEF CallTypes
    <3>3. CASE reg' = reg \cup Listed(At(f)) /\ Advance(f, "build", "join") /\ UNCHANGED call
      <4>1. FrameTypes'
        BY <1>0, <3>1, <3>3, AdvanceTypes
      <4>2. Listed(At(f)) \subseteq Cntls
        BY <1>0 DEF Listed, CallsOf, Cntls
      <4>3. QED
        BY <1>0, <3>1, <3>3, <4>1, <4>2 DEF CallTypes
    <3>4. QED
      BY <2>5, <3>2, <3>3 DEF Register
  <2>6. CASE RegisterNull(f)
    <3>1. FrameTypes'
      BY <1>0, <2>6 DEF RegisterNull, FrameTypes, RecallList, Flow
    <3>2. QED
      BY <1>0, <2>6, <3>1, SameCallTypes DEF RegisterNull
  <2>7. QED
    BY <2>1, <2>2, <2>3, <2>4, <2>5, <2>6 DEF FrameMoves
<1>3. QED
  BY PTL, <1>1, <1>2, TypeParts

LEMMA LocalTypeStep ==
  ASSUME TypeOK, LoopsInside, NEW c \in Cntls, Local(c)
  PROVE  TypeOK'
<1>0. FrameTypes /\ CallTypes /\ ClosureTypes /\ Owner(c) \in Services /\ cat[c] \in Nat
      /\ ctx[Owner(c)] \subseteq Services /\ seen[c] \subseteq Services
  BY TypeParts, OwnerFacts DEF FrameTypes, ClosureTypes
<1>1. FrameTypes' /\ CallTypes'
  BY <1>0, LocalFacts, SameFrameTypes, SameCallTypes
<1>2. ClosureTypes'
  <2> USE <1>0 DEF Stop, ClosureStates
  <2>1. CASE Check(c) \/ Recalled(c) \/ GoOn(c) \/ Swept(c)
    BY <2>1 DEF Check, Recalled, GoOn, Swept, ClosureTypes
  <2>2. CASE Parse(c)
    <3>1. ctx[Owner(c)] \cup {Owner(c)} \in SUBSET Services
      OBVIOUS
    <3>2. ctx' \in [Services -> SUBSET Services] /\ UNCHANGED <<cat, togo, seen>>
      BY <2>2, <3>1 DEF Parse, ClosureTypes
    <3>3. cpc' \in [Cntls -> ClosureStates]
      BY <2>2 DEF Parse, ClosureTypes
    <3>4. QED
      BY <3>2, <3>3 DEF ClosureTypes
  <2>3. CASE Route(c)
    BY <2>3 DEF Route, ClosureTypes
  <2>4. CASE Merge(c)
    <3>1. /\ cpc[c] = "merge" /\ UNCHANGED <<togo, seen>>
          /\ ctx' = [ctx EXCEPT ![Owner(c)] = ctx[Owner(c)] \cup ctx[NextList(c)[cat[c]]]]
      BY <2>4 DEF Merge
    <3>2. NextList(c)[cat[c]] \in Services
      BY <3>1, ListFacts DEF LoopsInside, NextList, FrameTypes
    <3>3. ctx[Owner(c)] \cup ctx[NextList(c)[cat[c]]] \in SUBSET Services
      BY <3>2 DEF ClosureTypes
    <3>4. /\ cat' = [cat EXCEPT ![c] = cat[c] + 1] \/ cat' = [cat EXCEPT ![c] = 1]
          /\ cpc' = [cpc EXCEPT ![c] = "cancel"] \/ cpc' = cpc
      BY <2>4 DEF Merge
    <3>5. cat' \in [Cntls -> Nat]
      BY <3>4 DEF ClosureTypes
    <3>6. cpc' \in [Cntls -> ClosureStates] /\ ctx' \in [Services -> SUBSET Services]
      BY <3>1, <3>3, <3>4 DEF ClosureTypes
    <3>7. QED
      BY <3>1, <3>5, <3>6 DEF ClosureTypes
  <2>5. CASE Cancel(c)
    <3>1. Permitted(c) \in SUBSET Cntls
      BY DEF Permitted, RpcIds
    <3>2. QED
      BY <2>5, <3>1 DEF Cancel, ClosureTypes
  <2>6. CASE Gather(c)
    <3>1. seen[c] \cup ctx[cat[c]] \in SUBSET Services
      BY <2>6 DEF Gather, LoopsInside, Services, ClosureTypes
    <3>2. UNCHANGED <<togo, ctx>> /\ seen' = [seen EXCEPT ![c] = seen[c] \cup ctx[cat[c]]]
          /\ (cat' = [cat EXCEPT ![c] = cat[c] + 1] \/ cat' = [cat EXCEPT ![c] = 1])
          /\ (cpc' = [cpc EXCEPT ![c] = "decide"] \/ cpc' = cpc)
      BY <2>6 DEF Gather
    <3>3. cat' \in [Cntls -> Nat]
      BY <3>2 DEF ClosureTypes
    <3>4. cpc' \in [Cntls -> ClosureStates] /\ seen' \in [Cntls -> SUBSET Services]
      BY <3>1, <3>2 DEF ClosureTypes
    <3>5. QED
      BY <3>2, <3>3, <3>4 DEF ClosureTypes
  <2>7. QED
    BY <2>1, <2>2, <2>3, <2>4, <2>5, <2>6 DEF Local
<1>3. QED
  BY PTL, <1>1, <1>2, TypeParts

LEMMA CopyTypeStep ==
  ASSUME TypeOK, LoopsInside, NEW c \in Cntls, Copy(c)
  PROVE  TypeOK'
<1>0. FrameTypes /\ CallTypes /\ ClosureTypes /\ Owner(c) \in Services /\ c \in Frames /\ cat[c] \in Nat
      /\ NextOf(c) \in DOMAIN Flow /\ "create" \in FrameStates /\ "recall" \in ClosureStates
  BY TypeParts, OwnerFacts DEF FrameTypes, ClosureTypes, Frames, FrameStates, ClosureStates, Copy, LoopsInside
<1>1. CallTypes'
  BY <1>0, SameCallTypes DEF Copy
<1>2. FrameTypes'
  <2>1. CASE UNCHANGED frameVars
    BY <1>0, <2>1, SameFrameTypes DEF Copy
  <2>2. CASE ~UNCHANGED frameVars
    <3>1. /\ fpc' = [fpc EXCEPT ![c] = "create"] /\ fat' = [fat EXCEPT ![c] = 1]
          /\ node' = [node EXCEPT ![c] = NextOf(c)] /\ UNCHANGED setup
      BY <2>2 DEF Copy
    <3>2. 1 \in 1..Len(RecallList(NextOf(c)))
      BY <1>0, ListFacts DEF FrameTypes
    <3>3. QED
      BY <1>0, <3>1, <3>2 DEF FrameTypes, RecallList, Flow
  <2>3. QED
    BY <2>1, <2>2
<1>3. ClosureTypes'
  <2>1. UNCHANGED <<togo, seen>> /\ ctx' = [ctx EXCEPT ![NextList(c)[cat[c]]] = ctx[Owner(c)]]
        /\ (cat' = [cat EXCEPT ![c] = cat[c] + 1] \/ cat' = [cat EXCEPT ![c] = 1])
        /\ (cpc' = [cpc EXCEPT ![c] = "recall"] \/ cpc' = cpc)
    BY DEF Copy, Stop
  <2>2. ctx[Owner(c)] \in SUBSET Services
    BY <1>0 DEF ClosureTypes
  <2>3. cat' \in [Cntls -> Nat]
    BY <1>0, <2>1 DEF ClosureTypes
  <2>4. cpc' \in [Cntls -> ClosureStates] /\ ctx' \in [Services -> SUBSET Services]
    BY <1>0, <2>1, <2>2 DEF ClosureTypes
  <2>5. QED
    BY <1>0, <2>1, <2>3, <2>4 DEF ClosureTypes
<1>4. QED
  BY PTL, <1>1, <1>2, <1>3, TypeParts

LEMMA TypeStep ==
  ASSUME TypeOK, LoopsInside, [Next]_vars
  PROVE  TypeOK'
<1>0. FrameTypes /\ CallTypes /\ ClosureTypes
  BY TypeParts
<1>1. ASSUME NEW c \in Cntls, Reply(c) \/ Fail(c) \/ RunReturns(c)
      PROVE  TypeOK'
  <2>1. FrameTypes' /\ ClosureTypes'
    BY <1>0, <1>1, SameFrameTypes, SameClosureTypes DEF Reply, Fail, RunReturns
  <2>2. CallTypes'
    BY <1>0, <1>1 DEF Reply, Fail, RunReturns, CallTypes, idsVars
  <2>3. QED
    BY PTL, <2>1, <2>2, TypeParts
<1>2. ASSUME NEW c \in Cntls, QuitFlow(c) \/ QuitDone(c)
      PROVE  TypeOK'
  <2>1. FrameTypes'
    BY <1>0, <1>2, SameFrameTypes DEF QuitFlow, QuitDone
  <2>2. CallTypes'
    BY <1>0, <1>2 DEF QuitFlow, QuitDone, CallTypes, brpcVars, Frames
  <2>3. ClosureTypes'
    BY <1>0, <1>2 DEF QuitFlow, QuitDone, ClosureTypes, CallTypes, Stop, ClosureStates
  <2>4. QED
    BY PTL, <2>1, <2>2, <2>3, TypeParts
<1>3. ASSUME NEW c \in Cntls, NEW x \in Cntls, Sweep(c, x)
      PROVE  TypeOK'
  <2>1. FrameTypes'
    BY <1>0, <1>3, SameFrameTypes DEF Sweep
  <2>2. CallTypes'
    BY <1>0, <1>3 DEF Sweep, StartCancel, CallTypes, idsVars
  <2>3. ClosureTypes'
    BY <1>0, <1>3 DEF Sweep, ClosureTypes
  <2>4. QED
    BY PTL, <2>1, <2>2, <2>3, TypeParts
<1>4. CASE UNCHANGED vars
  <2>1. FrameTypes' /\ CallTypes' /\ ClosureTypes'
    BY <1>0, <1>4, SameFrameTypes, SameCallTypes, SameClosureTypes
    DEF vars, frameVars, brpcVars, closureVars, idsVars
  <2>2. QED
    BY PTL, <2>1, TypeParts
<1>5. QED
  BY <1>1, <1>2, <1>3, <1>4, StepCases, FrameTypeStep, LocalTypeStep, CopyTypeStep

-----------------------------------------------------------------------------
(* How the calls move.                                                     *)

\* The ways a frame's step may go.
Leaves(f) ==
  /\ \E p \in {"ok", "err"} : Leave(f, p)
  /\ UNCHANGED <<home, reg>>
Creates(f) ==
  /\ fpc[f] = "create" /\ call[At(f)] = "none" /\ At(f) \notin reg
  /\ HasIds => ~ready /\ mutex = Root
  /\ call' = [call EXCEPT ![At(f)] = "idle"] /\ home' = [home EXCEPT ![At(f)] = f]
  /\ reg' = IF HasIds THEN reg \cup {At(f)} ELSE reg
  /\ Advance(f, "create", "build")
Builds(f) ==
  /\ fpc[f] = "build" /\ Unbuilt(f, At(f))
  /\ call' = Issued({At(f)})
  /\ Advance(f, "build", "join") /\ UNCHANGED <<home, reg>>
BuildsDynamic(f) ==
  /\ fpc[f] = "build" /\ At(f) \in Dynamic /\ Unbuilt(f, At(f))
  /\ \E cs \in SUBSET {d \in Subs : SubOwner[d] = At(f)} :
       call' = Issued(cs) /\ home' = [c \in Cntls |-> IF c \in cs THEN f ELSE home[c]]
  /\ fpc' = [fpc EXCEPT ![f] = "register"] /\ UNCHANGED <<fat, reg>>
Skips(f) ==
  /\ fpc[f] = "build"
  /\ Advance(f, "build", "join") /\ UNCHANGED <<call, home, reg>>
Registers(f) ==
  /\ fpc[f] = "register" /\ HasIds /\ ~ready /\ mutex = Root
  /\ \E new \in SUBSET {d \in Cntls : Owner(d) = At(f) /\ call[d] # "none"} : reg' = reg \cup new
  /\ Advance(f, "build", "join") /\ UNCHANGED <<call, home>>
Crashes(f) ==
  /\ fpc' = [fpc EXCEPT ![f] = "crash"] /\ UNCHANGED <<fat, call, home, reg>>

\* A service that a frame is about to build has only its controller.
LEMMA NextIsUnbuilt ==
  ASSUME TypeOK, CreatedAhead, NEW f \in Frames, fpc[f] = "build"
  PROVE  Unbuilt(f, At(f))
<1>1. fat[f] \in DOMAIN RecallList(node[f]) /\ fat[f] \in Nat
  BY AtFacts DEF TypeOK
<1>2. Ahead(f, fat[f])
  BY <1>1 DEF Ahead
<1>3. QED
  BY <1>1, <1>2 DEF CreatedAhead, At

LEMMA FrameCases ==
  ASSUME TypeOK, CallInv, NEW f \in Frames, FrameMoves(f)
  PROVE  /\ UNCHANGED <<setup, node, failed, full, closureVars, ctx, ready, mutex>>
         /\ fpc[f] # "off"
         /\ \/ Leaves(f) \/ Creates(f) \/ Builds(f) \/ BuildsDynamic(f)
            \/ Skips(f) \/ Registers(f) \/ Crashes(f)
<1>0. At(f) \in Services /\ At(f) \in Cntls /\ HasIds \in BOOLEAN /\ SubOwner \in [Subs -> Dynamic]
      /\ Owner(At(f)) = At(f)
  BY AtFacts, ConfigFacts DEF TypeOK
<1>1. UNCHANGED <<setup, node, failed, full, closureVars, ctx, ready, mutex>> /\ fpc[f] # "off"
  BY DEF FrameMoves, DefFails, Create, Build, BuildDynamic, BuildFails, Register, RegisterNull, Join,
         brpcVars, idsVars
<1>2. CASE DefFails(f) \/ Join(f)
  BY <1>2 DEF DefFails, Join, Leaves, idsVars
<1>3. CASE Create(f)
  <2>1. HasIds => (At(f) \notin reg => call[At(f)] = "none")
    BY <1>0 DEF CallInv, IdsOfCalls
  <2>2. ~HasIds => At(f) \notin reg
    BY DEF CallInv, IdsOfCalls
  <2>3. Creates(f) \/ Leaves(f)
    BY <1>0, <1>3, <2>1, <2>2 DEF Create, Creates, Leaves, SetCallId
  <2>4. QED
    BY <1>1, <2>3
<1>4. CASE Build(f) \/ BuildDynamic(f) \/ BuildFails(f)
  <2>1. Unbuilt(f, At(f))
    BY <1>4, NextIsUnbuilt DEF Build, BuildDynamic, BuildFails, CallInv
  <2>2. At(f) \in Dynamic => CallsOf(At(f)) = {d \in Subs : SubOwner[d] = At(f)}
    BY DEF CallsOf
  <2>3. Builds(f) \/ BuildsDynamic(f) \/ Skips(f)
    BY <1>4, <2>1, <2>2 DEF Build, BuildDynamic, BuildFails, Builds, BuildsDynamic, Skips, idsVars, brpcVars
  <2>4. QED
    BY <1>1, <2>3
<1>5. CASE Register(f)
  <2>1. \A d \in Listed(At(f)) : d \in Cntls /\ Owner(d) = At(f) /\ call[d] # "none"
    BY <1>0, OwnerFacts DEF Listed, CallsOf, TypeOK
  <2>2. Registers(f) \/ Leaves(f)
    BY <1>5, <2>1 DEF Register, Registers, Leaves, SetCallIds
  <2>3. QED
    BY <1>1, <2>2
<1>6. CASE RegisterNull(f)
  BY <1>1, <1>6 DEF RegisterNull, Crashes, brpcVars, idsVars
<1>7. QED
  BY <1>1, <1>2, <1>3, <1>4, <1>5, <1>6 DEF FrameMoves

\* A frame that has started stays where it recalls.
LEMMA FramesStay ==
  ASSUME TypeOK, CallInv, [Next]_vars, NEW f \in Frames, fpc[f] # "off"
  PROVE  fpc'[f] # "off" /\ node'[f] = node[f] /\ RecallList(node[f])' = RecallList(node[f])
<1>1. fpc'[f] # "off" /\ node'[f] = node[f]
  <2>1. ASSUME NEW g \in Frames, FrameMoves(g)
        PROVE  fpc'[f] # "off" /\ node'[f] = node[f]
    <3>1. \E p \in FrameStates \ {"off"} : fpc' = [fpc EXCEPT ![g] = p]
      BY <2>1, FrameCases
      DEF Leaves, Creates, Builds, BuildsDynamic, Skips, Registers, Crashes, Leave, Advance, FrameStates
    <3>2. QED
      BY <2>1, <3>1, FrameCases DEF TypeOK
  <2>2. ASSUME NEW c \in Cntls, Copy(c)
        PROVE  fpc'[f] # "off" /\ node'[f] = node[f]
    <3>1. f # c
      BY <2>2 DEF CallInv, ClosuresBegin, Copy
    <3>2. QED
      BY <2>2, <3>1 DEF Copy, frameVars, TypeOK
  <2>3. CASE UNCHANGED frameVars
    BY <2>3 DEF frameVars
  <2>4. QED
    BY <2>1, <2>2, <2>3, StepCases, LocalFacts
    DEF Reply, Fail, RunReturns, QuitFlow, QuitDone, Sweep, vars, frameVars
<1>2. QED
  BY <1>1, SetupStays DEF RecallList, Flow

LEMMA CallMoves ==
  ASSUME TypeOK, CallInv, [Next]_vars, NEW c \in Cntls
  PROVE  /\ call[c] # "none" => home'[c] = home[c]
         /\ \/ call'[c] = call[c]
            \/ call[c] = "none" /\ c \in Services /\ call'[c] = "idle"
            \/ call[c] = "none" /\ c \in Subs /\ call'[c] \in {"flight", "locked"}
            \/ call[c] = "idle" /\ call'[c] \in {"flight", "locked", "ended"}
            \/ call[c] = "flight" /\ call'[c] = "locked"
            \/ call[c] = "locked" /\ call'[c] = "ended"
<1>0. home \in [Cntls -> Frames] /\ call \in [Cntls -> {"none", "idle", "flight", "locked", "ended"}]
  BY DEF TypeOK
<1>1. ASSUME NEW f \in Frames, FrameMoves(f)
      PROVE  /\ call[c] # "none" => home'[c] = home[c]
             /\ \/ call'[c] = call[c]
                \/ call[c] = "none" /\ c \in Services /\ call'[c] = "idle"
                \/ call[c] = "none" /\ c \in Subs /\ call'[c] \in {"flight", "locked"}
                \/ call[c] = "idle" /\ call'[c] \in {"flight", "locked", "ended"}
  <2>0. At(f) \in Services /\ At(f) \in Cntls
    BY AtFacts
  <2>1. CASE Leaves(f)
    BY <1>0, <2>1 DEF Leaves, Leave
  <2>2. CASE Creates(f)
    BY <1>0, <2>0, <2>2 DEF Creates
  <2>3. CASE Builds(f)
    BY <1>0, <2>0, <2>3 DEF Builds, Issued, Unbuilt
  <2>4. CASE BuildsDynamic(f)
    BY <1>0, <2>0, <2>4 DEF BuildsDynamic, Issued, Unbuilt
  <2>5. CASE Skips(f) \/ Registers(f) \/ Crashes(f)
    BY <2>5 DEF Skips, Registers, Crashes
  <2>6. QED
    BY <1>1, <2>1, <2>2, <2>3, <2>4, <2>5, FrameCases
<1>2. CASE UNCHANGED <<home, call>>
  BY <1>2
<1>3. ASSUME NEW d \in Cntls, Reply(d) \/ Fail(d) \/ RunReturns(d)
      PROVE  /\ home' = home
             /\ \/ call'[c] = call[c]
                \/ call[c] = "flight" /\ call'[c] = "locked"
                \/ call[c] = "locked" /\ call'[c] = "ended"
  BY <1>0, <1>3 DEF Reply, Fail, RunReturns
<1>4. ASSUME NEW d \in Cntls, NEW x \in Cntls, Sweep(d, x)
      PROVE  /\ home' = home
             /\ \/ call'[c] = call[c]
                \/ call[c] = "flight" /\ call'[c] = "locked"
  <2>1. home' = home
    BY <1>4 DEF Sweep
  <2>2. call' = call \/ (call[x] = "flight" /\ call' = [call EXCEPT ![x] = "locked"])
    BY <1>4 DEF Sweep, StartCancel
  <2>3. QED
    BY <1>0, <2>1, <2>2
<1>5. (\E d \in Cntls : Local(d) \/ Copy(d) \/ QuitFlow(d) \/ QuitDone(d)) \/ UNCHANGED vars
        => UNCHANGED <<home, call>>
  BY LocalFacts DEF Copy, QuitFlow, QuitDone, brpcVars, vars
<1>6. QED
  BY <1>1, <1>2, <1>3, <1>4, <1>5, StepCases

\* A call begins when its frame creates its controller, or issues it for a dynamic
\* service.
LEMMA CallBegins ==
  ASSUME TypeOK, CallInv, [Next]_vars, NEW c \in Cntls, call[c] = "none", call'[c] # "none"
  PROVE  \E f \in Frames :
           /\ FrameMoves(f) /\ home'[c] = f /\ Owner(c) = At(f)
           /\ \/ Creates(f) /\ c = At(f)
              \/ BuildsDynamic(f) /\ c \in Subs
<1>1. PICK f \in Frames : FrameMoves(f)
  <2>1. ASSUME NEW d \in Cntls, NEW x \in Cntls, Sweep(d, x)
        PROVE  call' = call \/ (call[x] = "flight" /\ call' = [call EXCEPT ![x] = "locked"])
    BY <2>1 DEF Sweep, StartCancel
  <2>2. \A d \in Cntls : Local(d) => UNCHANGED call
    BY LocalFacts DEF brpcVars
  <2>3. QED
    BY <2>1, <2>2, StepCases DEF Reply, Fail, RunReturns, Copy, QuitFlow, QuitDone, brpcVars, vars, TypeOK
<1>2. At(f) \in Services /\ At(f) \in Cntls /\ Owner(At(f)) = At(f) /\ SubOwner \in [Subs -> Dynamic]
      /\ \A d \in Subs : Owner(d) = SubOwner[d]
  BY AtFacts, ConfigFacts, OwnerFacts DEF TypeOK
<1>3. call \in [Cntls -> {"none", "idle", "flight", "locked", "ended"}] /\ home \in [Cntls -> Frames]
  BY DEF TypeOK
<1>4. CASE Leaves(f)
  BY <1>3, <1>4 DEF Leaves, Leave
<1>5. CASE Creates(f)
  <2>1. c = At(f) /\ home'[c] = f
    BY <1>2, <1>3, <1>5 DEF Creates
  <2>2. QED
    BY <1>1, <1>2, <1>5, <2>1
<1>6. CASE Builds(f)
  BY <1>2, <1>3, <1>6 DEF Builds, Issued, Unbuilt
<1>7. CASE BuildsDynamic(f)
  <2>1. PICK cs \in SUBSET {d \in Subs : SubOwner[d] = At(f)} :
          call' = Issued(cs) /\ home' = [d \in Cntls |-> IF d \in cs THEN f ELSE home[d]]
    BY <1>7 DEF BuildsDynamic
  <2>2. c \in cs
    BY <1>3, <2>1 DEF Issued
  <2>3. QED
    BY <1>1, <1>2, <1>7, <2>1, <2>2
<1>8. CASE Skips(f) \/ Registers(f) \/ Crashes(f)
  BY <1>8 DEF Skips, Registers, Crashes
<1>9. QED
  BY <1>1, <1>4, <1>5, <1>6, <1>7, <1>8, FrameCases

LEMMA PlacedStep ==
  ASSUME TypeOK, CallInv, [Next]_vars
  PROVE  CallsPlaced'
<1> SUFFICES ASSUME NEW c \in Cntls, call'[c] # "none"
             PROVE  /\ fpc'[home'[c]] # "off"
                    /\ \E i \in DOMAIN RecallList(node[home[c]])' :
                         RecallList(node[home[c]])'[i] = Owner(c)
                    /\ call'[Owner(c)] # "none"
  BY DEF CallsPlaced, Owner
<1>0. Owner(c) \in Services /\ Owner(c) \in Cntls /\ Owner(Owner(c)) = Owner(c)
      /\ home \in [Cntls -> Frames] /\ setup \in Setups
  BY OwnerFacts DEF TypeOK
<1>1. CASE call[c] # "none"
  <2>1. fpc[home[c]] # "off" /\ call[Owner(c)] # "none"
        /\ \E i \in DOMAIN RecallList(node[home[c]]) : RecallList(node[home[c]])[i] = Owner(c)
    BY <1>1 DEF CallInv, CallsPlaced
  <2>2. home'[c] = home[c] /\ call'[Owner(c)] # "none"
    BY <1>0, <1>1, <2>1, CallMoves
  <2>3. fpc'[home[c]] # "off" /\ node'[home[c]] = node[home[c]]
    BY <1>0, <2>1, FramesStay
  <2>4. RecallList(node[home[c]])' = RecallList(node[home[c]])
    BY <2>2, <2>3, SetupStays DEF RecallList, Flow
  <2>5. QED
    BY <2>1, <2>2, <2>3, <2>4
<1>2. CASE call[c] = "none"
  <2>1. PICK f \in Frames :
          /\ FrameMoves(f) /\ home'[c] = f /\ Owner(c) = At(f)
          /\ \/ Creates(f) /\ c = At(f)
             \/ BuildsDynamic(f) /\ c \in Subs
    BY <1>2, CallBegins
  <2>2. fpc[f] # "off"
    BY <2>1, FrameCases
  <2>3. fpc'[f] # "off" /\ node'[f] = node[f]
    BY <2>2, FramesStay
  <2>4. RecallList(node[home[c]])' = RecallList(node[f])
    BY <2>1, <2>3, SetupStays DEF RecallList, Flow
  <2>5. fat[f] \in DOMAIN RecallList(node[f]) /\ RecallList(node[f])[fat[f]] = Owner(c)
    BY <2>1, AtFacts DEF At
  <2>6. call'[Owner(c)] # "none"
    <3>1. CASE c = At(f)
      BY <2>1, <3>1
    <3>2. CASE BuildsDynamic(f)
      <4>1. call[At(f)] = "idle"
        BY <3>2 DEF BuildsDynamic, Unbuilt
      <4>2. QED
        BY <1>0, <2>1, <4>1, CallMoves
    <3>3. QED
      BY <2>1, <3>1, <3>2
  <2>7. QED
    BY <2>1, <2>3, <2>4, <2>5, <2>6
<1>3. QED
  BY <1>1, <1>2

LEMMA IdsStep ==
  ASSUME TypeOK, CallInv, [Next]_vars
  PROVE  IdsOfCalls'
<1>0. HasIds' = HasIds /\ HasIds \in BOOLEAN /\ IdsOfCalls /\ \A s \in Services : s \in Cntls /\ Owner(s) = s
  BY SetupStays, ConfigFacts, OwnerFacts DEF HasIds, TypeOK, CallInv
<1>1. \A c \in Cntls : call[c] # "none" => call'[c] # "none"
  BY CallMoves
<1>2. CASE UNCHANGED reg
  <2>1. ASSUME NEW s \in Services, HasIds, call[s] = "none"
        PROVE  call'[s] = "none"
    <3>1. SUFFICES ASSUME call'[s] # "none" PROVE FALSE
      OBVIOUS
    <3>2. PICK f \in Frames : /\ Owner(s) = At(f)
                              /\ \/ Creates(f) /\ s = At(f)
                                 \/ BuildsDynamic(f) /\ s \in Subs
      BY <1>0, <2>1, <3>1, CallBegins
    <3>3. Creates(f)
      BY <3>2, OwnerFacts DEF TypeOK
    <3>4. QED
      BY <1>2, <2>1, <3>2, <3>3 DEF Creates
  <2>2. reg \subseteq Cntls
    BY DEF TypeOK
  <2>3. QED
    BY <1>0, <1>1, <1>2, <2>1, <2>2 DEF IdsOfCalls
<1>3. ASSUME NEW f \in Frames, Creates(f)
      PROVE  IdsOfCalls'
  <2>1. At(f) \in Cntls /\ reg \subseteq Cntls /\ call' = [call EXCEPT ![At(f)] = "idle"]
        /\ reg' = (IF HasIds THEN reg \cup {At(f)} ELSE reg)
        /\ call \in [Cntls -> {"none", "idle", "flight", "locked", "ended"}]
    BY <1>3, AtFacts DEF Creates, TypeOK
  <2>2. \A c \in Cntls : call'[c] = IF c = At(f) THEN "idle" ELSE call[c]
    BY <2>1
  <2>3. QED
    BY <1>0, <2>1, <2>2 DEF IdsOfCalls
<1>4. ASSUME NEW f \in Frames, Registers(f)
      PROVE  IdsOfCalls'
  <2>1. PICK new \in SUBSET {d \in Cntls : Owner(d) = At(f) /\ call[d] # "none"} : reg' = reg \cup new
    BY <1>4 DEF Registers
  <2>2. UNCHANGED call /\ HasIds
    BY <1>4 DEF Registers
  <2>3. QED
    BY <1>0, <2>1, <2>2 DEF IdsOfCalls
<1>5. \/ UNCHANGED reg
      \/ \E f \in Frames : Creates(f) \/ Registers(f)
  <2>1. \A c \in Cntls : Local(c) => UNCHANGED reg
    BY LocalFacts DEF idsVars
  <2>2. \A f \in Frames : FrameMoves(f) => UNCHANGED reg \/ Creates(f) \/ Registers(f)
    BY FrameCases DEF Leaves, Builds, BuildsDynamic, Skips, Crashes
  <2>3. QED
    BY <2>1, <2>2, StepCases DEF Reply, Fail, RunReturns, Copy, QuitFlow, QuitDone, Sweep, idsVars, vars
<1>6. QED
  BY <1>2, <1>3, <1>4, <1>5

LEMMA BeginStep ==
  ASSUME TypeOK, CallInv, [Next]_vars
  PROVE  ClosuresBegin'
<1> SUFFICES ASSUME NEW c \in Cntls
             PROVE  /\ cpc'[c] \notin {"check", "parse"} => call'[c] \in Begun
                    /\ cpc'[c] \in {"check", "parse", "route", "around", "copy"} => fpc'[c] = "off"
  BY DEF ClosuresBegin, Begun
<1>0. /\ cpc[c] \notin {"check", "parse"} => call[c] \in Begun
      /\ cpc[c] \in {"check", "parse", "route", "around", "copy"} => fpc[c] = "off"
      /\ c \in Frames
  BY DEF CallInv, ClosuresBegin, Frames
<1>1. call[c] \in Begun => call'[c] \in Begun
  BY CallMoves DEF Begun
<1>2. \/ cpc'[c] = cpc[c] /\ fpc'[c] = fpc[c]
      \/ cpc'[c] = cpc[c] /\ fpc[c] # "off"
      \/ call[c] = "locked" /\ cpc[c] \in {"check", "parse", "route", "around", "copy"} /\ fpc'[c] = fpc[c]
      \/ cpc[c] \notin {"check", "parse"} /\ cpc'[c] \notin {"check", "parse", "route", "around", "copy"}
  <2>0. cpc \in [Cntls -> ClosureStates] /\ fpc \in [Frames -> FrameStates]
    BY DEF TypeOK
  <2>1. ASSUME NEW f \in Frames, FrameMoves(f)
        PROVE  cpc' = cpc /\ (fpc'[c] = fpc[c] \/ fpc[c] # "off")
    <3>1. \E p \in FrameStates : fpc' = [fpc EXCEPT ![f] = p]
      BY <2>1, FrameCases
      DEF Leaves, Creates, Builds, BuildsDynamic, Skips, Registers, Crashes, Leave, Advance, FrameStates
    <3>2. cpc' = cpc /\ fpc[f] # "off"
      BY <2>1, FrameCases DEF closureVars
    <3>3. QED
      BY <1>0, <2>0, <3>1, <3>2
  <2>2. ASSUME NEW d \in Cntls, Local(d)
        PROVE  /\ fpc' = fpc
               /\ \/ cpc'[c] = cpc[c]
                  \/ call[c] = "locked" /\ cpc[c] \in {"check", "parse", "route"}
                  \/ cpc[c] \notin {"check", "parse"}
                     /\ cpc'[c] \notin {"check", "parse", "route", "around", "copy"}
    <3>1. fpc' = fpc
      BY <2>2, LocalFacts DEF frameVars
    <3>2. CASE Check(d) \/ Parse(d) \/ Route(d)
      BY <2>0, <3>1, <3>2 DEF Check, Parse, Route, Stop
    <3>3. CASE Recalled(d) \/ Merge(d) \/ Cancel(d)
      BY <2>0, <3>1, <3>3 DEF Recalled, Merge, Cancel, Stop
    <3>4. CASE Gather(d) \/ GoOn(d) \/ Swept(d)
      BY <2>0, <3>1, <3>4 DEF Gather, GoOn, Swept, Stop
    <3>5. QED
      BY <2>2, <3>2, <3>3, <3>4 DEF Local
  <2>3. ASSUME NEW d \in Cntls, Copy(d)
        PROVE  \/ cpc'[c] = cpc[c] /\ fpc'[c] = fpc[c]
               \/ cpc[c] = "copy" /\ cpc'[c] = "recall"
    BY <1>0, <2>0, <2>3 DEF Copy, Stop, frameVars
  <2>4. ASSUME NEW d \in Cntls, QuitFlow(d) \/ QuitDone(d)
        PROVE  fpc' = fpc /\ (cpc'[c] = cpc[c] \/ (cpc[c] \in {"decide", "quit"} /\ cpc'[c] \in {"quit", "done"}))
    BY <2>0, <2>4 DEF QuitFlow, QuitDone, Stop, frameVars
  <2>5. CASE UNCHANGED <<cpc, fpc>>
    BY <2>5
  <2>6. QED
    BY <2>1, <2>2, <2>3, <2>4, <2>5, StepCases DEF Reply, Fail, RunReturns, Sweep, frameVars, closureVars, vars
<1>3. QED
  BY <1>0, <1>1, <1>2 DEF Begun

\* What another frame does leaves a frame's unbuilt services alone.
LEMMA UnbuiltElsewhere ==
  ASSUME TypeOK, CallInv, NEW f \in Frames, NEW g \in Frames, f # g, FrameMoves(g),
         NEW s \in Services, Unbuilt(f, s)
  PROVE  Unbuilt(f, s)'
<1>1. home[s] = f /\ call[s] = "idle" /\ \A d \in Subs : SubOwner[d] = s => call[d] = "none"
  BY DEF Unbuilt
<1>2. call \in [Cntls -> {"none", "idle", "flight", "locked", "ended"}] /\ home \in [Cntls -> Frames]
      /\ s \in Cntls /\ At(g) \in Cntls /\ At(g) \in Services
      /\ \A d \in Subs : d \in Cntls /\ d \notin Services
  BY AtFacts, OwnerFacts DEF TypeOK
<1>3. home'[s] = f /\ call'[s] = "idle" /\ \A d \in Subs : SubOwner[d] = s => call'[d] = "none"
  <2>1. CASE Leaves(g)
    BY <1>1, <1>2, <2>1 DEF Leaves, Leave
  <2>2. CASE Creates(g)
    BY <1>1, <1>2, <2>2 DEF Creates
  <2>3. CASE Builds(g)
    BY <1>1, <1>2, <2>3 DEF Builds, Issued, Unbuilt
  <2>4. CASE BuildsDynamic(g)
    <3>1. At(g) # s
      BY <1>1, <2>4 DEF BuildsDynamic, Unbuilt
    <3>2. QED
      BY <1>1, <1>2, <2>4, <3>1 DEF BuildsDynamic, Issued
  <2>5. CASE Skips(g) \/ Registers(g) \/ Crashes(g)
    BY <1>1, <2>5 DEF Skips, Registers, Crashes
  <2>6. QED
    BY <2>1, <2>2, <2>3, <2>4, <2>5, FrameCases
<1>4. QED
  BY <1>3 DEF Unbuilt

\* What a frame itself does takes its unbuilt services one by one.
LEMMA UnbuiltOwn ==
  ASSUME TypeOK, CallInv, NEW f \in Frames, FrameMoves(f), ~Leaves(f),
         NEW s \in Services, Unbuilt(f, s), s # At(f) \/ Registers(f)
  PROVE  Unbuilt(f, s)'
<1>1. home[s] = f /\ call[s] = "idle" /\ \A d \in Subs : SubOwner[d] = s => call[d] = "none"
  BY DEF Unbuilt
<1>2. call \in [Cntls -> {"none", "idle", "flight", "locked", "ended"}] /\ home \in [Cntls -> Frames]
      /\ s \in Cntls /\ At(f) \in Cntls /\ At(f) \in Services
      /\ \A d \in Subs : d \in Cntls /\ d \notin Services
  BY AtFacts, OwnerFacts DEF TypeOK
<1>3. home'[s] = f /\ call'[s] = "idle" /\ \A d \in Subs : SubOwner[d] = s => call'[d] = "none"
  <2>2. CASE Creates(f)
    BY <1>1, <1>2, <2>2 DEF Creates, Registers
  <2>3. CASE Builds(f)
    BY <1>1, <1>2, <2>3 DEF Builds, Registers, Issued
  <2>4. CASE BuildsDynamic(f)
    BY <1>1, <1>2, <2>4 DEF BuildsDynamic, Registers, Issued
  <2>5. CASE Skips(f) \/ Registers(f) \/ Crashes(f)
    BY <1>1, <2>5 DEF Skips, Registers, Crashes
  <2>6. QED
    BY <2>2, <2>3, <2>4, <2>5, FrameCases
<1>4. QED
  BY <1>3 DEF Unbuilt

\* The positions that are ahead of a frame after a step of its own.
LEMMA AheadAfter ==
  ASSUME TypeOK, CallInv, NEW f \in Frames, FrameMoves(f), NEW i \in DOMAIN RecallList(node[f]),
         Ahead(f, i)'
  PROVE  /\ ~Leaves(f)
         /\ \/ Ahead(f, i) /\ i # fat[f] /\ (Ahead(f, fat[f]) \/ Registers(f))
            \/ Ahead(f, i) /\ Creates(f)
            \/ i = fat[f] /\ Creates(f)
<1>0. /\ fpc \in [Frames -> FrameStates] /\ fat \in [Frames -> Nat]
      /\ Len(RecallList(node[f])) \in Nat /\ fat[f] \in 1..Len(RecallList(node[f]))
      /\ i \in 1..Len(RecallList(node[f]))
  BY ListFacts DEF TypeOK
<1>1. \/ fpc'[f] = "create" /\ i < fat'[f]
      \/ fpc'[f] = "build" /\ i >= fat'[f]
      \/ fpc'[f] = "register" /\ i > fat'[f]
  BY DEF Ahead
<1>2. CASE Leaves(f) \/ Crashes(f)
  BY <1>0, <1>1, <1>2 DEF Leaves, Crashes, Leave
<1>3. CASE Creates(f)
  <2>1. i < fat[f] \/ i = fat[f]
    <3>1. CASE fat[f] < Len(RecallList(node[f]))
      BY <1>0, <1>1, <1>3, <3>1 DEF Creates, Advance
    <3>2. CASE ~(fat[f] < Len(RecallList(node[f])))
      BY <1>0, <3>2
    <3>3. QED
      BY <3>1, <3>2
  <2>2. fpc'[f] \in {"create", "build"} /\ fpc[f] = "create"
    BY <1>0, <1>3 DEF Creates, Advance
  <2>3. ~Leaves(f)
    BY <1>0, <2>2 DEF Leaves, Leave
  <2>4. QED
    BY <1>3, <2>1, <2>2, <2>3 DEF Ahead
<1>4. CASE Builds(f) \/ Skips(f) \/ Registers(f)
  <2>1. Advance(f, "build", "join") /\ fpc[f] \in {"build", "register"}
    BY <1>4 DEF Builds, Skips, Registers
  <2>2. fpc'[f] = "build" /\ fat'[f] = fat[f] + 1 /\ i > fat[f]
    BY <1>0, <1>1, <2>1 DEF Advance
  <2>3. ~Leaves(f) /\ (fpc[f] = "build" \/ Registers(f))
    BY <1>0, <1>4, <2>2 DEF Leaves, Leave, Builds, Skips
  <2>4. QED
    BY <1>0, <2>1, <2>2, <2>3 DEF Ahead
<1>5. CASE BuildsDynamic(f)
  <2>1. fpc[f] = "build" /\ fpc'[f] = "register" /\ fat'[f] = fat[f]
    BY <1>0, <1>5 DEF BuildsDynamic
  <2>2. ~Leaves(f)
    BY <1>0, <2>1 DEF Leaves, Leave
  <2>3. QED
    BY <1>0, <1>1, <2>1, <2>2 DEF Ahead
<1>6. QED
  BY <1>2, <1>3, <1>4, <1>5, FrameCases

LEMMA AheadStep ==
  ASSUME TypeOK, CallInv, LoopsInside, [Next]_vars
  PROVE  CreatedAhead'
<1> SUFFICES ASSUME NEW f \in Frames
             PROVE  \A i \in DOMAIN RecallList(node[f])' :
                      Ahead(f, i)' =>
                        /\ home'[RecallList(node[f])'[i]] = f /\ call'[RecallList(node[f])'[i]] = "idle"
                        /\ \A d \in Subs : SubOwner[d] = RecallList(node[f])'[i] => call'[d] = "none"
                        /\ \A j \in DOMAIN RecallList(node[f])' :
                             Ahead(f, j)' /\ RecallList(node[f])'[j] = RecallList(node[f])'[i] => i = j
  BY DEF CreatedAhead, Unbuilt
<1> DEFINE L == RecallList(node[f])
<1>0. /\ setup \in Setups /\ node[f] \in DOMAIN Flow /\ At(f) = L[fat[f]]
      /\ DOMAIN L = 1..Len(L) /\ \A i \in DOMAIN L : L[i] \in Services
      /\ \A i \in DOMAIN L : Ahead(f, i) =>
           /\ Unbuilt(f, L[i])
           /\ \A j \in DOMAIN L : Ahead(f, j) /\ L[j] = L[i] => i = j
  BY AtFacts, ListFacts DEF CallInv, CreatedAhead, TypeOK, At
<1>1. CASE FrameMoves(f)
  <2>1. L' = L
    BY <1>1, FrameCases, FramesStay, SetupStays DEF RecallList, Flow
  <2>2. ASSUME NEW i \in DOMAIN L, Ahead(f, i)'
        PROVE  /\ ~Leaves(f)
               /\ \/ Ahead(f, i) /\ i # fat[f]
                  \/ Ahead(f, i) /\ Creates(f)
                  \/ i = fat[f] /\ Creates(f)
    BY <1>1, <2>2, AheadAfter
  <2>3. CASE Creates(f)
    <3>1. /\ fat[f] \in DOMAIN L /\ At(f) \in Services /\ At(f) \in Cntls /\ call[At(f)] = "none"
          /\ call \in [Cntls -> {"none", "idle", "flight", "locked", "ended"}] /\ home \in [Cntls -> Frames]
          /\ call' = [call EXCEPT ![At(f)] = "idle"] /\ home' = [home EXCEPT ![At(f)] = f]
      BY <2>3, AtFacts DEF Creates, TypeOK
    <3>2. \A s \in Services : s = At(f) => Unbuilt(f, s)'
      <4>1. ASSUME NEW d \in Subs, SubOwner[d] = At(f)
            PROVE  call'[d] = "none"
        <5>1. d \in Cntls /\ d # At(f) /\ Owner(d) = At(f)
          BY <3>1, <4>1, OwnerFacts DEF TypeOK
        <5>2. call[d] = "none"
          BY <3>1, <5>1 DEF CallInv, CallsPlaced
        <5>3. QED
          BY <3>1, <5>1, <5>2
      <4>2. QED
        BY <3>1, <4>1 DEF Unbuilt
    <3>3. \A i \in DOMAIN L : Ahead(f, i) => Unbuilt(f, L[i]) /\ L[i] # At(f) /\ L[i] \in Services
      BY <1>0, <3>1 DEF Unbuilt
    <3>4. ASSUME NEW i \in DOMAIN L, Ahead(f, i)'
          PROVE  /\ \A s \in Services : s = L[i] => Unbuilt(f, s)'
                 /\ \A j \in DOMAIN L : Ahead(f, j)' /\ L[j] = L[i] => i = j
      <4>1. ~Leaves(f)
        BY <2>2, <3>4
      <4>2. \A j \in DOMAIN L : Ahead(f, j)' => Ahead(f, j) \/ j = fat[f]
        BY <2>2
      <4>3. \A j \in DOMAIN L : Ahead(f, j)' /\ L[j] = L[i] => i = j
        BY <1>0, <3>3, <3>4, <4>2
      <4>4. CASE i = fat[f]
        BY <1>0, <3>2, <4>3, <4>4
      <4>5. CASE Ahead(f, i)
        <5>1. \A s \in Services : s = L[i] => Unbuilt(f, s)'
          BY <1>1, <3>3, <4>1, <4>5, UnbuiltOwn
        <5>2. QED
          BY <4>3, <5>1
      <4>6. QED
        BY <3>4, <4>2, <4>4, <4>5
    <3>5. QED
      BY <1>0, <2>1, <3>4 DEF Unbuilt
  <2>4. CASE ~Creates(f)
    <3>1. ASSUME NEW i \in DOMAIN L, Ahead(f, i)'
          PROVE  /\ \A s \in Services : s = L[i] => Unbuilt(f, s)'
                 /\ \A j \in DOMAIN L : Ahead(f, j)' /\ L[j] = L[i] => i = j
      <4>1. ~Leaves(f) /\ Ahead(f, i) /\ i # fat[f] /\ (Ahead(f, fat[f]) \/ Registers(f))
        BY <1>1, <2>4, <3>1, AheadAfter
      <4>2. \A j \in DOMAIN L : Ahead(f, j)' => Ahead(f, j)
        BY <2>2, <2>4
      <4>3. L[i] # At(f) \/ Registers(f)
        BY <1>0, <4>1, AtFacts
      <4>4. \A s \in Services : s = L[i] => Unbuilt(f, s)'
        BY <1>0, <1>1, <4>1, <4>3, UnbuiltOwn
      <4>5. QED
        BY <1>0, <4>1, <4>2, <4>4
    <3>2. QED
      BY <1>0, <2>1, <3>1 DEF Unbuilt
  <2>5. QED
    BY <2>3, <2>4
<1>2. ASSUME NEW g \in Frames, FrameMoves(g), g # f
      PROVE  /\ L' = L /\ \A i \in DOMAIN L : Ahead(f, i)' => Ahead(f, i)
             /\ \A i \in DOMAIN L : Ahead(f, i) => \A s \in Services : s = L[i] => Unbuilt(f, s)'
  <2>1. L' = L
    BY <1>2, FrameCases DEF RecallList, Flow
  <2>2. fpc'[f] = fpc[f] /\ fat'[f] = fat[f]
    <3>1. \E p \in FrameStates : fpc' = [fpc EXCEPT ![g] = p]
      BY <1>2, FrameCases
      DEF Leaves, Creates, Builds, BuildsDynamic, Skips, Registers, Crashes, Leave, Advance, FrameStates
    <3>2. \/ fat' = fat \/ fat' = [fat EXCEPT ![g] = 1] \/ fat' = [fat EXCEPT ![g] = fat[g] + 1]
      BY <1>2, FrameCases
      DEF Leaves, Creates, Builds, BuildsDynamic, Skips, Registers, Crashes, Leave, Advance
    <3>3. QED
      BY <1>2, <3>1, <3>2 DEF TypeOK
  <2>3. QED
    BY <1>0, <1>2, <2>1, <2>2, UnbuiltElsewhere DEF Ahead
<1>3. ASSUME NEW c \in Cntls, Copy(c)
      PROVE  \/ f = c /\ \A i \in DOMAIN L' : ~Ahead(f, i)'
             \/ /\ L' = L /\ \A i \in DOMAIN L : Ahead(f, i)' => Ahead(f, i)
                /\ \A i \in DOMAIN L : Ahead(f, i) => \A s \in Services : s = L[i] => Unbuilt(f, s)'
  <2>1. UNCHANGED <<setup, home, call>>
    BY <1>3 DEF Copy, brpcVars
  <2>2. CASE fpc'[f] = fpc[f] /\ fat'[f] = fat[f] /\ node'[f] = node[f]
    <3>1. L' = L
      BY <2>1, <2>2 DEF RecallList, Flow
    <3>2. \A i \in DOMAIN L : Ahead(f, i)' = Ahead(f, i)
      BY <2>2 DEF Ahead
    <3>3. \A i \in DOMAIN L : Ahead(f, i) => \A s \in Services : s = L[i] => Unbuilt(f, s)'
      BY <1>0, <2>1 DEF Unbuilt
    <3>4. QED
      BY <3>1, <3>2, <3>3
  <2>3. CASE /\ f = c /\ fpc' = [fpc EXCEPT ![c] = "create"] /\ fat' = [fat EXCEPT ![c] = 1]
             /\ node' = [node EXCEPT ![c] = NextOf(c)]
    <3>1. NextOf(c) \in DOMAIN Flow /\ fpc'[f] = "create" /\ fat'[f] = 1 /\ node'[f] = NextOf(c)
      BY <1>3, <2>3 DEF Copy, LoopsInside, TypeOK
    <3>2. L' = RecallList(NextOf(c))
      BY <2>1, <3>1 DEF RecallList, Flow
    <3>3. \A i \in DOMAIN L' : i \in Nat /\ i >= 1
      BY <1>0, <3>1, <3>2, ListFacts
    <3>4. QED
      BY <2>3, <3>1, <3>3 DEF Ahead
  <2>4. QED
    BY <1>3, <2>2, <2>3 DEF Copy, frameVars, TypeOK
<1>4. CASE UNCHANGED <<setup, frameVars, home>> /\ (\A c \in Cntls : call[c] \in {"idle", "none"} => call'[c] = call[c])
  <2>1. L' = L /\ \A i \in DOMAIN L : Ahead(f, i)' = Ahead(f, i)
    BY <1>4 DEF frameVars, RecallList, Flow, Ahead
  <2>2. \A i \in DOMAIN L : Ahead(f, i) => \A s \in Services : s = L[i] => Unbuilt(f, s)'
    BY <1>0, <1>4, OwnerFacts DEF Unbuilt
  <2>3. QED
    BY <1>0, <2>1, <2>2 DEF Unbuilt
<1>5. \/ \E g \in Frames : FrameMoves(g)
      \/ \E c \in Cntls : Copy(c)
      \/ UNCHANGED <<setup, frameVars, home>> /\ (\A c \in Cntls : call[c] \in {"idle", "none"} => call'[c] = call[c])
  <2>1. ASSUME NEW c \in Cntls, NEW x \in Cntls, Sweep(c, x)
        PROVE  call' = call \/ (call[x] = "flight" /\ call' = [call EXCEPT ![x] = "locked"])
    BY <2>1 DEF Sweep, StartCancel
  <2>2. \A c \in Cntls : Local(c) => UNCHANGED <<setup, frameVars, home, call>>
    BY LocalFacts DEF brpcVars
  <2>3. \A c \in Cntls : QuitFlow(c) \/ QuitDone(c) => UNCHANGED <<setup, frameVars, home, call>>
    BY DEF QuitFlow, QuitDone, brpcVars
  <2>4. \A c \in Cntls : Reply(c) \/ Fail(c) \/ RunReturns(c) =>
          /\ UNCHANGED <<setup, frameVars, home>>
          /\ \A d \in Cntls : call[d] \in {"idle", "none"} => call'[d] = call[d]
    <3>1. ASSUME NEW c \in Cntls, Reply(c) \/ Fail(c) \/ RunReturns(c)
          PROVE  /\ UNCHANGED <<setup, frameVars, home>> /\ call[c] \in {"flight", "locked"}
                 /\ \E v : call' = [call EXCEPT ![c] = v]
      BY <3>1 DEF Reply, Fail, RunReturns
    <3>2. QED
      BY <3>1 DEF TypeOK
  <2>5. \A c, x \in Cntls : Sweep(c, x) =>
          /\ UNCHANGED <<setup, frameVars, home>>
          /\ \A d \in Cntls : call[d] \in {"idle", "none"} => call'[d] = call[d]
    <3>1. ASSUME NEW c \in Cntls, NEW x \in Cntls, Sweep(c, x), NEW d \in Cntls, call[d] \in {"idle", "none"}
          PROVE  call'[d] = call[d]
      BY <2>1, <3>1 DEF TypeOK
    <3>2. \A c, x \in Cntls : Sweep(c, x) => UNCHANGED <<setup, frameVars, home>>
      BY DEF Sweep
    <3>3. QED
      BY <3>1, <3>2
  <2>6. UNCHANGED vars => UNCHANGED <<setup, frameVars, home, call>>
    BY DEF vars, frameVars
  <2>7. QED
    <3>1. CASE \E c \in Cntls : Reply(c) \/ Fail(c) \/ RunReturns(c)
      BY <2>4, <3>1
    <3>2. CASE \E c, x \in Cntls : Sweep(c, x)
      BY <2>5, <3>2
    <3>3. CASE (\E c \in Cntls : Local(c) \/ QuitFlow(c) \/ QuitDone(c)) \/ UNCHANGED vars
      BY <2>2, <2>3, <2>6, <3>3
    <3>4. QED
      BY <3>1, <3>2, <3>3, StepCases
<1>6. QED
  BY <1>0, <1>1, <1>2, <1>3, <1>4, <1>5 DEF Unbuilt

\* The node of a call, and where its service leads, stay.
LEMMA NodeStays ==
  ASSUME TypeOK, CallInv, [Next]_vars, NEW c \in Cntls, call[c] # "none"
  PROVE  /\ home'[c] = home[c] /\ NodeOf(c)' = NodeOf(c) /\ NodeOf(c) \in DOMAIN Flow
         /\ NextOf(c)' = NextOf(c) /\ NextList(c)' = NextList(c) /\ Flow' = Flow
<1>1. home'[c] = home[c] /\ home[c] \in Frames /\ fpc[home[c]] # "off"
  BY CallMoves DEF TypeOK, CallInv, CallsPlaced
<1>2. node'[home[c]] = node[home[c]] /\ node[home[c]] \in DOMAIN Flow /\ Flow' = Flow
  BY <1>1, FramesStay, SetupStays DEF TypeOK, Flow
<1>3. NodeOf(c)' = NodeOf(c) /\ NodeOf(c) \in DOMAIN Flow
  BY <1>1, <1>2 DEF NodeOf
<1>4. NextOf(c)' = NextOf(c)
  BY <1>2, <1>3 DEF NextOf, Owner
<1>5. QED
  BY <1>1, <1>2, <1>3, <1>4 DEF NextList

\* A step of another closure, of a frame or of brpc leaves a closure where it is.
LEMMA ClosureStays ==
  ASSUME TypeOK, [Next]_vars, CallInv, NEW c \in Cntls,
         ~Local(c), ~Copy(c), ~QuitFlow(c), ~QuitDone(c)
  PROVE  cpc'[c] = cpc[c] /\ cat'[c] = cat[c] /\ seen'[c] = seen[c]
<1>0. cpc \in [Cntls -> ClosureStates] /\ cat \in [Cntls -> Nat] /\ seen \in [Cntls -> SUBSET Services]
  BY DEF TypeOK
<1>1. ASSUME NEW f \in Frames, FrameMoves(f)
      PROVE  UNCHANGED <<cpc, cat, seen>>
  BY <1>1, FrameCases DEF closureVars
<1>2. ASSUME NEW d \in Cntls, d # c, Local(d)
      PROVE  cpc'[c] = cpc[c] /\ cat'[c] = cat[c] /\ seen'[c] = seen[c]
  <2>1. CASE Check(d) \/ Parse(d) \/ Route(d)
    BY <1>0, <1>2, <2>1 DEF Check, Parse, Route, Stop
  <2>2. CASE Recalled(d) \/ Merge(d) \/ Cancel(d)
    BY <1>0, <1>2, <2>2 DEF Recalled, Merge, Cancel, Stop
  <2>3. CASE Gather(d) \/ GoOn(d) \/ Swept(d)
    BY <1>0, <1>2, <2>3 DEF Gather, GoOn, Swept, Stop
  <2>4. QED
    BY <1>2, <2>1, <2>2, <2>3 DEF Local
<1>3. ASSUME NEW d \in Cntls, d # c, Copy(d) \/ QuitFlow(d) \/ QuitDone(d)
      PROVE  cpc'[c] = cpc[c] /\ cat'[c] = cat[c] /\ seen'[c] = seen[c]
  BY <1>0, <1>3 DEF Copy, QuitFlow, QuitDone, Stop
<1>4. QED
  BY <1>1, <1>2, <1>3, StepCases DEF Reply, Fail, RunReturns, Sweep, closureVars, vars

LEMMA LoopsStep ==
  ASSUME TypeOK, CallInv, LoopsInside, [Next]_vars
  PROVE  LoopsInside'
<1> SUFFICES ASSUME NEW c \in Cntls
             PROVE  /\ cpc'[c] \in {"around", "copy", "recall", "merge"} => NextOf(c)' \in DOMAIN Flow'
                    /\ cpc'[c] \in {"copy", "merge"} => cat'[c] \in 1..Len(NextList(c)')
                    /\ cpc'[c] \in {"recall", "cancel"} => cat'[c] = 1
                    /\ cpc'[c] = "gather" => cat'[c] \in 1..N
  BY DEF LoopsInside
<1>0. /\ cpc[c] \in {"around", "copy", "recall", "merge"} => NextOf(c) \in DOMAIN Flow
      /\ cpc[c] \in {"copy", "merge"} => cat[c] \in 1..Len(NextList(c))
      /\ cpc[c] \in {"recall", "cancel"} => cat[c] = 1
      /\ cpc[c] = "gather" => cat[c] \in 1..N
      /\ cpc[c] \notin {"check", "parse"} => call[c] \in Begun
      /\ cpc \in [Cntls -> ClosureStates] /\ cat \in [Cntls -> Nat] /\ N \in Nat \ {0}
      /\ call \in [Cntls -> {"none", "idle", "flight", "locked", "ended"}]
  BY ConfigFacts DEF LoopsInside, CallInv, ClosuresBegin, TypeOK
<1>1. call[c] \in Begun => NextOf(c)' = NextOf(c) /\ NextList(c)' = NextList(c) /\ Flow' = Flow
  BY NodeStays DEF Begun
<1>2. NextOf(c) \in DOMAIN Flow => Len(NextList(c)) \in Nat \ {0}
  BY ListFacts DEF NextList, TypeOK
<1>3. CASE cpc'[c] = cpc[c] /\ cat'[c] = cat[c]
  BY <1>0, <1>1, <1>3
<1>4. CASE Local(c)
  <2>1. CASE Check(c) \/ Parse(c) \/ GoOn(c) \/ Swept(c)
    BY <1>0, <2>1 DEF Check, Parse, GoOn, Swept, Stop
  <2>2. CASE Route(c)
    <3>1. call[c] \in Begun /\ cat'[c] = 1 /\ cpc'[c] \in {"cancel", "erred", "copy", "around"}
          /\ (cpc'[c] \in {"copy", "around"} => NextOf(c) \in DOMAIN Flow)
      BY <1>0, <2>2 DEF Route, Stop, Begun
    <3>2. QED
      BY <1>1, <1>2, <3>1
  <2>3. CASE Recalled(c)
    <3>1. cpc[c] = "recall" /\ cat' = cat /\ cpc'[c] \in {"erred", "merge"}
      BY <1>0, <2>3 DEF Recalled, Stop
    <3>2. QED
      BY <1>0, <1>1, <1>2, <3>1
  <2>4. CASE Merge(c)
    <3>1. cpc[c] = "merge" /\ cat[c] \in 1..Len(NextList(c)) /\ Len(NextList(c)) \in Nat
      BY <1>0, <1>2, <2>4 DEF Merge
    <3>2. CASE cat[c] < Len(NextList(c))
      <4>1. cpc' = cpc /\ cat'[c] = cat[c] + 1
        BY <1>0, <2>4, <3>2 DEF Merge
      <4>2. QED
        BY <1>0, <1>1, <3>1, <3>2, <4>1
    <3>3. CASE ~(cat[c] < Len(NextList(c)))
      BY <1>0, <2>4, <3>3 DEF Merge, Stop
    <3>4. QED
      BY <3>2, <3>3
  <2>5. CASE Cancel(c)
    BY <1>0, <2>5 DEF Cancel, Stop
  <2>6. CASE Gather(c)
    <3>1. CASE cat[c] < N
      <4>1. cpc' = cpc /\ cat'[c] = cat[c] + 1 /\ cpc[c] = "gather"
        BY <1>0, <2>6, <3>1 DEF Gather
      <4>2. QED
        BY <1>0, <3>1, <4>1
    <3>2. CASE ~(cat[c] < N)
      BY <1>0, <2>6, <3>2 DEF Gather, Stop
    <3>3. QED
      BY <3>1, <3>2
  <2>7. QED
    BY <1>4, <2>1, <2>2, <2>3, <2>4, <2>5, <2>6 DEF Local
<1>5. CASE Copy(c)
  <2>1. cpc[c] = "copy" /\ cat[c] \in 1..Len(NextList(c)) /\ Len(NextList(c)) \in Nat
    BY <1>0, <1>2, <1>5 DEF Copy
  <2>2. CASE cat[c] < Len(NextList(c))
    <3>1. cpc' = cpc /\ cat'[c] = cat[c] + 1
      BY <1>0, <1>5, <2>2 DEF Copy
    <3>2. QED
      BY <1>0, <1>1, <2>1, <2>2, <3>1
  <2>3. CASE ~(cat[c] < Len(NextList(c)))
    <3>1. cpc'[c] = "recall" /\ cat'[c] = 1
      BY <1>0, <1>5, <2>3 DEF Copy, Stop
    <3>2. QED
      BY <1>0, <1>1, <2>1, <3>1
  <2>4. QED
    BY <2>2, <2>3
<1>6. CASE QuitFlow(c) \/ QuitDone(c)
  BY <1>0, <1>6 DEF QuitFlow, QuitDone, Stop
<1>7. QED
  BY <1>3, <1>4, <1>5, <1>6, ClosureStays

-----------------------------------------------------------------------------
(* The ids implement the latch: see QuitLatch.                             *)

\* While a closure quits the request nothing is registered, and what it has passed is
\* not open; nor is anything when the request has quit.
LatchHeld ==
  /\ \A c \in Cntls : cpc[c] = "quit" => mutex = c /\ \A x \in reg : Open(x) => x \in togo[c]
  /\ ready => \A x \in reg : ~Open(x)

\* What is registered opens no more.
LEMMA NothingReopens ==
  ASSUME TypeOK, CallInv, [Next]_vars, NEW x \in reg, ~Open(x)
  PROVE  ~Open(x)'
<1>0. x \in Cntls /\ call[x] # "none"
      /\ call \in [Cntls -> {"none", "idle", "flight", "locked", "ended"}] /\ failed \in [Cntls -> {"no", "net", "cancel"}]
  BY DEF TypeOK, CallInv, IdsOfCalls
<1>1. \/ call'[x] = call[x]
      \/ call[x] = "idle" /\ call'[x] \in {"flight", "locked", "ended"}
      \/ call[x] = "flight" /\ call'[x] = "locked"
      \/ call[x] = "locked" /\ call'[x] = "ended"
  BY <1>0, CallMoves
<1>2. failed[x] # "no" => failed'[x] # "no"
  <2>1. \A f \in Frames : FrameMoves(f) => UNCHANGED failed
    BY FrameCases
  <2>2. \A c \in Cntls : Local(c) => UNCHANGED failed
    BY LocalFacts DEF brpcVars
  <2>3. ASSUME NEW c \in Cntls, NEW y \in Cntls, Sweep(c, y)
        PROVE  failed' = failed \/ failed' = [failed EXCEPT ![y] = "cancel"]
    BY <2>3 DEF Sweep, StartCancel
  <2>4. QED
    BY <1>0, <2>1, <2>2, <2>3, StepCases DEF Reply, Fail, RunReturns, Copy, QuitFlow, QuitDone, brpcVars, vars
<1>3. call[x] = "idle" /\ failed[x] # "no" => call'[x] # "flight"
  <2>1. SUFFICES ASSUME call[x] = "idle", failed[x] # "no", call'[x] = "flight" PROVE FALSE
    OBVIOUS
  <2>2. \E f \in Frames : FrameMoves(f) /\ (Builds(f) \/ BuildsDynamic(f))
    <3>1. ASSUME NEW f \in Frames, Leaves(f) \/ Creates(f)
          PROVE  call'[x] # "flight"
      BY <1>0, <2>1, <3>1 DEF Leaves, Creates, Leave
    <3>2. ASSUME NEW f \in Frames, Skips(f) \/ Registers(f) \/ Crashes(f)
          PROVE  call' = call
      BY <3>2 DEF Skips, Registers, Crashes
    <3>3. ASSUME NEW c \in Cntls, NEW y \in Cntls, Sweep(c, y)
          PROVE  call' = call \/ call' = [call EXCEPT ![y] = "locked"]
      BY <3>3 DEF Sweep, StartCancel
    <3>4. \A c \in Cntls : Local(c) => UNCHANGED call
      BY LocalFacts DEF brpcVars
    <3>5. QED
      BY <1>0, <2>1, <3>1, <3>2, <3>3, <3>4, StepCases, FrameCases
      DEF Reply, Fail, RunReturns, Copy, QuitFlow, QuitDone, brpcVars, vars
  <2>3. \E cs : call' = Issued(cs)
    BY <2>2 DEF Builds, BuildsDynamic
  <2>4. QED
    BY <1>0, <2>1, <2>3 DEF Issued
<1>4. QED
  BY <1>0, <1>1, <1>2, <1>3 DEF Open

\* Only a step of a frame registers, when nobody quits and the request has not quit.
LEMMA RegGrows ==
  ASSUME TypeOK, CallInv, [Next]_vars
  PROVE  \/ UNCHANGED reg
         \/ /\ ~ready /\ mutex = Root /\ UNCHANGED <<ready, mutex, failed>>
            /\ reg \subseteq reg' /\ \A x \in reg : call'[x] = call[x]
<1>1. \/ UNCHANGED reg
      \/ \E f \in Frames : FrameMoves(f) /\ (Creates(f) \/ Registers(f))
  <2>1. \A c \in Cntls : Local(c) => UNCHANGED reg
    BY LocalFacts DEF idsVars
  <2>2. \A f \in Frames : FrameMoves(f) => UNCHANGED reg \/ Creates(f) \/ Registers(f)
    BY FrameCases DEF Leaves, Builds, BuildsDynamic, Skips, Crashes
  <2>3. QED
    BY <2>1, <2>2, StepCases DEF Reply, Fail, RunReturns, Copy, QuitFlow, QuitDone, Sweep, idsVars, vars
<1>2. ASSUME NEW f \in Frames, FrameMoves(f), Creates(f)
      PROVE  \/ UNCHANGED reg
             \/ /\ ~ready /\ mutex = Root /\ UNCHANGED <<ready, mutex, failed>>
                /\ reg \subseteq reg' /\ \A x \in reg : call'[x] = call[x]
  <2>1. At(f) \notin reg /\ call' = [call EXCEPT ![At(f)] = "idle"]
        /\ (HasIds => ~ready /\ mutex = Root) /\ reg' = (IF HasIds THEN reg \cup {At(f)} ELSE reg)
    BY <1>2 DEF Creates
  <2>2. \A x \in reg : call'[x] = call[x]
    BY <2>1 DEF TypeOK
  <2>3. QED
    BY <1>2, <2>1, <2>2, FrameCases
<1>3. ASSUME NEW f \in Frames, FrameMoves(f), Registers(f)
      PROVE  /\ ~ready /\ mutex = Root /\ UNCHANGED <<ready, mutex, failed>>
             /\ reg \subseteq reg' /\ \A x \in reg : call'[x] = call[x]
  BY <1>3, FrameCases DEF Registers
<1>4. QED
  BY <1>1, <1>2, <1>3

LEMMA LatchStep ==
  ASSUME TypeOK, CallInv, LatchHeld, [Next]_vars
  PROVE  LatchHeld'
<1>0. /\ cpc \in [Cntls -> ClosureStates] /\ togo \in [Cntls -> SUBSET Cntls] /\ reg \subseteq Cntls
      /\ call \in [Cntls -> {"none", "idle", "flight", "locked", "ended"}]
      /\ failed \in [Cntls -> {"no", "net", "cancel"}] /\ Root \notin Cntls
      /\ ready \in BOOLEAN
  BY ConfigFacts DEF TypeOK
<1>1. ASSUME NEW c \in Cntls, cpc'[c] = "quit"
      PROVE  mutex' = c /\ \A x \in reg' : Open(x)' => x \in togo'[c]
  <2>1. CASE QuitFlow(c)
    BY <1>0, <2>1 DEF QuitFlow
  <2>2. CASE ~QuitFlow(c)
    <3>1. cpc[c] = "quit" /\ ~QuitDone(c)
      <4>1. CASE Local(c) \/ Copy(c)
        <5>1. Local(c) => cpc'[c] # "quit"
          <6>1. CASE Check(c) \/ Parse(c) \/ Route(c)
            BY <1>0, <6>1 DEF Check, Parse, Route, Stop
          <6>2. CASE Recalled(c) \/ Merge(c) \/ Cancel(c)
            BY <1>0, <6>2 DEF Recalled, Merge, Cancel, Stop
          <6>3. CASE Gather(c) \/ GoOn(c) \/ Swept(c)
            BY <1>0, <6>3 DEF Gather, GoOn, Swept, Stop
          <6>4. QED
            BY <6>1, <6>2, <6>3 DEF Local
        <5>2. Copy(c) => cpc'[c] # "quit"
          BY <1>0 DEF Copy, Stop
        <5>3. QED
          BY <1>1, <4>1, <5>1, <5>2
      <4>2. ~QuitDone(c)
        BY <1>0, <1>1 DEF QuitDone, Stop
      <4>3. QED
        BY <1>1, <2>2, <4>1, <4>2, ClosureStays
    <3>2. mutex = c /\ mutex # Root /\ \A x \in reg : Open(x) => x \in togo[c]
      BY <1>0, <3>1 DEF LatchHeld
    <3>3. UNCHANGED <<reg, mutex>>
      <4>1. \A d \in Cntls : ~QuitFlow(d) /\ ~QuitDone(d)
        BY <3>1, <3>2 DEF QuitFlow, QuitDone, LatchHeld
      <4>2. \A f \in Frames : FrameMoves(f) => UNCHANGED mutex
        BY FrameCases
      <4>3. \A d \in Cntls : Local(d) => UNCHANGED mutex
        BY LocalFacts DEF idsVars
      <4>4. UNCHANGED mutex
        BY <4>1, <4>2, <4>3, StepCases DEF Reply, Fail, RunReturns, Copy, Sweep, idsVars, vars
      <4>5. QED
        BY <3>2, <4>4, RegGrows
    <3>4. ASSUME NEW x \in reg, Open(x)'
          PROVE  x \in togo'[c]
      <4>1. x \in togo[c] /\ x \in Cntls
        BY <1>0, <3>2, <3>4, NothingReopens
      <4>2. ASSUME NEW d \in Cntls, NEW y \in Cntls, Sweep(d, y)
            PROVE  x \in togo'[c]
        <5>1. togo' = [togo EXCEPT ![d] = togo[d] \ {y}]
          BY <4>2 DEF Sweep
        <5>2. CASE y = x
          <6>1. StartCancel(x)
            BY <4>2, <5>2 DEF Sweep
          <6>2. ~Open(x)'
            BY <1>0, <4>1, <6>1 DEF StartCancel, Open
          <6>3. QED
            BY <3>4, <6>2
        <5>3. CASE y # x
          BY <1>0, <4>1, <5>1, <5>3
        <5>4. QED
          BY <5>2, <5>3
      <4>3. ASSUME NEW d \in Cntls, Local(d)
            PROVE  togo'[c] = togo[c]
        <5>1. CASE Cancel(d)
          BY <1>0, <3>1, <5>1 DEF Cancel
        <5>2. CASE ~Cancel(d)
          BY <4>3, <5>2 DEF Local, Check, Parse, Route, Recalled, Merge, Gather, GoOn, Swept
        <5>3. QED
          BY <5>1, <5>2
      <4>4. ASSUME NEW f \in Frames, FrameMoves(f)
            PROVE  togo' = togo
        BY <4>4, FrameCases DEF closureVars
      <4>5. \A d \in Cntls : QuitFlow(d) => d # c
        BY <3>1 DEF QuitFlow
      <4>6. \A d \in Cntls : QuitFlow(d) \/ QuitDone(d) => togo'[c] = togo[c]
        BY <1>0, <4>5 DEF QuitFlow, QuitDone
      <4>7. QED
        BY <4>1, <4>2, <4>3, <4>4, <4>6, StepCases DEF Reply, Fail, RunReturns, Copy, closureVars, vars
    <3>5. QED
      BY <3>2, <3>3, <3>4
  <2>3. QED
    BY <2>1, <2>2
<1>2. ASSUME ready', NEW x \in reg'
      PROVE  ~Open(x)'
  <2>1. CASE ready
    BY <2>1, RegGrows, NothingReopens DEF LatchHeld
  <2>2. CASE ~ready
    <3>1. PICK c \in Cntls : QuitDone(c)
      <4>1. \A d \in Cntls : Local(d) => UNCHANGED ready
        BY LocalFacts DEF idsVars
      <4>2. \A f \in Frames : FrameMoves(f) => UNCHANGED ready
        BY FrameCases
      <4>3. QED
        BY <1>2, <2>2, <4>1, <4>2, StepCases
        DEF Reply, Fail, RunReturns, Copy, QuitFlow, Sweep, idsVars, vars
    <3>2. cpc[c] = "quit" /\ togo[c] = {} /\ UNCHANGED reg
      BY <3>1 DEF QuitDone
    <3>3. x \in reg /\ ~Open(x)
      BY <1>2, <3>2 DEF LatchHeld
    <3>4. QED
      BY <3>3, NothingReopens
  <2>3. QED
    BY <2>1, <2>2
<1>3. QED
  BY <1>1, <1>2 DEF LatchHeld

\* A step is one of the latch, or none.
LEMMA LatchSimulation ==
  ASSUME TypeOK, CallInv, LatchHeld, [Next]_vars
  PROVE  [Latch!Next]_(Latch!vars)
<1> DEFINE open == {x \in reg : Open(x)}
<1>1. CASE UNCHANGED reg
  <2>1. open' \subseteq open
    BY <1>1, NothingReopens
  <2>2. CASE UNCHANGED ready
    <3>1. open' = open \ (open \ open') /\ open \ open' \in SUBSET open
      BY <2>1
    <3>2. Latch!Settle
      BY <1>1, <2>2, <3>1 DEF Latch!Settle
    <3>3. QED
      BY <3>2 DEF Latch!Next
  <2>3. CASE ~UNCHANGED ready
    <3>1. PICK c \in Cntls : QuitDone(c)
      <4>1. \A d \in Cntls : Local(d) => UNCHANGED ready
        BY LocalFacts DEF idsVars
      <4>2. \A f \in Frames : FrameMoves(f) => UNCHANGED ready
        BY FrameCases
      <4>3. QED
        BY <2>3, <4>1, <4>2, StepCases DEF Reply, Fail, RunReturns, Copy, QuitFlow, Sweep, idsVars, vars
    <3>2. cpc[c] = "quit" /\ togo[c] = {} /\ ready' = TRUE
      BY <3>1 DEF QuitDone
    <3>3. open = {}
      BY <3>2 DEF LatchHeld
    <3>4. open' = {}
      BY <2>1, <3>3
    <3>5. Latch!Shut
      BY <1>1, <3>2, <3>3, <3>4 DEF Latch!Shut
    <3>6. QED
      BY <3>5 DEF Latch!Next
  <2>4. QED
    BY <2>2, <2>3
<1>2. CASE ~UNCHANGED reg
  <2>1. /\ ~ready /\ UNCHANGED <<ready, failed>>
        /\ reg \subseteq reg' /\ \A x \in reg : call'[x] = call[x]
    BY <1>2, RegGrows
  <2>2. \A x \in reg : Open(x)' <=> Open(x)
    BY <2>1 DEF Open
  <2>3. reg' \subseteq Cntls
    <3>1. FrameTypes /\ CallTypes /\ ClosureTypes
      BY TypeParts
    <3>2. \E f \in Frames : FrameMoves(f)
      <4>1. \A d \in Cntls : Local(d) => UNCHANGED reg
        BY LocalFacts DEF idsVars
      <4>2. QED
        BY <1>2, <4>1, StepCases DEF Reply, Fail, RunReturns, Copy, QuitFlow, QuitDone, Sweep, idsVars, vars
    <3>3. TypeOK'
      BY <3>2, FrameTypeStep
    <3>4. QED
      BY <3>3 DEF TypeOK
  <2>4. LET new == reg' \ reg IN
          /\ new \in SUBSET Cntls /\ new # {} /\ new \cap reg = {} /\ reg' = reg \cup new
          /\ {x \in new : Open(x)'} \in SUBSET new
          /\ open' = open \cup {x \in new : Open(x)'}
    BY <1>2, <2>1, <2>2, <2>3
  <2>5. \E new \in SUBSET Cntls : Latch!Admit(new)
    BY <2>1, <2>4 DEF Latch!Admit
  <2>6. QED
    BY <2>5 DEF Latch!Next
<1>3. QED
  BY <1>1, <1>2

-----------------------------------------------------------------------------
(* Theorems.                                                               *)

LatchInv == TypeOK /\ CallInv /\ LoopsInside /\ LatchHeld

LEMMA InitInv == Init => LatchInv
<1> SUFFICES ASSUME Init PROVE LatchInv
  OBVIOUS
<1>0. setup \in Setups /\ Flow \in [DOMAIN Flow -> NodeConfigs] /\ Start \in DOMAIN Flow
  BY ConfigFacts DEF Init
<1>1. 1 \in 1..Len(RecallList(Start)) /\ DOMAIN RecallList(Start) = 1..Len(RecallList(Start))
  BY <1>0, ListFacts
<1>2. TypeOK
  BY <1>0, <1>1 DEF Init, TypeOK, Frames, FrameStates, ClosureStates
<1>3. CallsPlaced /\ IdsOfCalls
  BY <1>0, OwnerFacts DEF Init, CallsPlaced, IdsOfCalls
<1>4. CreatedAhead
  BY <1>0, <1>1 DEF Init, CreatedAhead, Ahead
<1>5. ClosuresBegin /\ LoopsInside
  <2>1. \A c \in Cntls : cpc[c] \in {"check", "parse"} /\ fpc[c] = "off"
    BY ConfigFacts, <1>0 DEF Init, Frames
  <2>2. QED
    BY <2>1 DEF ClosuresBegin, LoopsInside
<1>6. LatchHeld
  BY DEF Init, LatchHeld
<1>7. QED
  BY <1>2, <1>3, <1>4, <1>5, <1>6 DEF LatchInv, CallInv

LEMMA StepInv == LatchInv /\ [Next]_vars => LatchInv'
<1> SUFFICES ASSUME LatchInv, [Next]_vars PROVE LatchInv'
  OBVIOUS
<1>1. TypeOK /\ CallInv /\ LoopsInside /\ LatchHeld
  BY DEF LatchInv
<1>2. TypeOK'
  BY <1>1, TypeStep
<1>3. CallsPlaced' /\ IdsOfCalls' /\ CreatedAhead' /\ ClosuresBegin'
  BY <1>1, PlacedStep, IdsStep, AheadStep, BeginStep
<1>4. CallInv'
  BY PTL, <1>3 DEF CallInv
<1>5. LoopsInside' /\ LatchHeld'
  BY <1>1, LoopsStep, LatchStep
<1>6. QED
  BY PTL, <1>2, <1>4, <1>5 DEF LatchInv

\* Every variable of the asynchronous recall keeps its type: no loop of a frame or a
\* closure leaves its list, and every frame is at a node there is.
THEOREM TypeCorrect == Spec => []TypeOK
<1>1. LatchInv => TypeOK
  BY DEF LatchInv
<1>2. QED
  BY <1>1, InitInv, StepInv, PTL DEF Spec

\* The ids of a request are a latch: calls are admitted until the request has quit, and
\* it quits when none of them can bring an answer any more, however registrations,
\* closures and the quit interleave (CallIdsVecThreadSafe).
THEOREM IdsAreLatch == Spec => LatchSpec
<1>1. Init => Latch!Init
  BY DEF Init, Latch!Init
<1>2. LatchInv /\ [Next]_vars => [Latch!Next]_(Latch!vars)
  BY LatchSimulation DEF LatchInv
<1>3. QED
  BY <1>1, <1>2, InitInv, StepInv, PTL DEF Spec, LatchSpec, Latch!Spec

-----------------------------------------------------------------------------
(* Why a request quits, and why calls are cancelled.  A quit condition that *)
(* cannot be evaluated counts as true: what follows is about the others.    *)

ConditionsEvaluate == \A p \in Setups : p.quitFails = {}

Passed == {"sweep", "quit", "done"}

\* Contexts, and what closures gather from them, hold nothing but answers.
AnswersHeld ==
  /\ \A s \in Services : ctx[s] \subseteq Answered
  /\ \A c \in Cntls : seen[c] \subseteq Answered

\* A closure that quits the request has seen the condition true, and one has that is done
\* when the request has quit.
ReasonHeld ==
  /\ \A c \in Cntls : cpc[c] = "quit" => seen[c] \in setup.quitWhen
  /\ ready => \E c \in Cntls : cpc[c] = "done" /\ seen[c] \in setup.quitWhen

\* Only a call that there is fails; a static service whose answer is parsed has not; and
\* what a closure sweeps are calls of its node that it may stop.
SweepHeld ==
  /\ \A x \in Cntls : failed[x] # "no" => call[x] # "none"
  /\ \A c \in Cntls : Parsed(c) /\ c \in Services => failed[c] = "no"
  /\ \A c \in Cntls : cpc[c] = "sweep" =>
       \A x \in togo[c] :
         call[x] # "none" /\ home[c] = home[x] /\ MayStop(Flow[NodeOf(c)], Owner(c), Owner(x))

\* A call that is ending, or has ended, does not fail any more.
LEMMA FailedStays ==
  ASSUME TypeOK, CallInv, [Next]_vars, NEW x \in Cntls
  PROVE  /\ call[x] \in Begun => failed'[x] = failed[x]
         /\ failed'[x] # failed[x] => call[x] \in {"idle", "flight"}
         /\ \/ failed'[x] = failed[x]
            \/ failed'[x] = "net"
            \/ failed'[x] = "cancel" /\ \E c \in Cntls : Sweep(c, x)
<1>0. failed \in [Cntls -> {"no", "net", "cancel"}]
  BY DEF TypeOK
<1>1. \A f \in Frames : FrameMoves(f) => UNCHANGED failed
  BY FrameCases
<1>2. \A c \in Cntls : Local(c) => UNCHANGED failed
  BY LocalFacts DEF brpcVars
<1>3. \A c \in Cntls : Copy(c) \/ QuitFlow(c) \/ QuitDone(c) \/ RunReturns(c) \/ Reply(c) => UNCHANGED failed
  BY DEF Copy, QuitFlow, QuitDone, RunReturns, Reply, brpcVars
<1>4. ASSUME NEW c \in Cntls, Fail(c)
      PROVE  failed'[x] = failed[x] \/ (failed'[x] = "net" /\ call[x] = "flight")
  BY <1>0, <1>4 DEF Fail
<1>5. ASSUME NEW c \in Cntls, NEW y \in Cntls, Sweep(c, y)
      PROVE  failed'[x] = failed[x] \/ (failed'[x] = "cancel" /\ x = y /\ call[x] \in {"idle", "flight"})
  <2>1. StartCancel(y)
    BY <1>5 DEF Sweep
  <2>2. failed' = failed \/ (call[y] \in {"idle", "flight"} /\ failed' = [failed EXCEPT ![y] = "cancel"])
    BY <2>1 DEF StartCancel
  <2>3. QED
    BY <1>0, <2>2
<1>6. UNCHANGED vars => UNCHANGED failed
  BY DEF vars
<1>7. CASE UNCHANGED failed
  BY <1>7
<1>8. QED
  BY <1>1, <1>2, <1>3, <1>4, <1>5, <1>6, <1>7, StepCases DEF Begun

LEMMA ParsedStays ==
  ASSUME TypeOK, CallInv, [Next]_vars, NEW c \in Cntls
  PROVE  /\ Parsed(c) => Parsed(c)'
         /\ Parsed(c)' /\ ~Parsed(c) => Parse(c) /\ failed[Owner(c)] = "no"
         /\ cpc[c] \in Passed => cpc'[c] \in Passed /\ seen'[c] = seen[c]
         /\ cpc[c] = "done" => cpc'[c] = "done"
<1>0. cpc \in [Cntls -> ClosureStates]
  BY DEF TypeOK
<1>1. CASE Local(c)
  <2>1. CASE Check(c) \/ Route(c)
    BY <1>0, <2>1 DEF Check, Route, Stop, Parsed, Passed
  <2>2. CASE Parse(c)
    BY <1>0, <2>2 DEF Parse, Stop, Parsed, Passed
  <2>3. CASE Recalled(c) \/ Merge(c) \/ Cancel(c)
    BY <1>0, <2>3 DEF Recalled, Merge, Cancel, Stop, Parsed, Passed
  <2>4. CASE Gather(c) \/ GoOn(c) \/ Swept(c)
    BY <1>0, <2>4 DEF Gather, GoOn, Swept, Stop, Parsed, Passed
  <2>5. QED
    BY <1>1, <2>1, <2>2, <2>3, <2>4 DEF Local
<1>2. CASE Copy(c) \/ QuitFlow(c) \/ QuitDone(c)
  BY <1>0, <1>2 DEF Copy, QuitFlow, QuitDone, Stop, Parsed, Passed
<1>3. CASE cpc'[c] = cpc[c] /\ seen'[c] = seen[c]
  BY <1>3 DEF Parsed
<1>4. QED
  BY <1>1, <1>2, <1>3, ClosureStays

\* What has been answered stays so.
LEMMA AnsweredStays ==
  ASSUME TypeOK, CallInv, [Next]_vars
  PROVE  Answered \subseteq Answered'
<1> SUFFICES ASSUME NEW d \in Cntls, Parsed(d), d \in Services => failed[d] = "no"
             PROVE  Owner(d) \in Answered'
  BY DEF Answered
<1>1. call[d] \in Begun
  BY DEF CallInv, ClosuresBegin, Parsed
<1>2. Parsed(d)' /\ failed'[d] = failed[d]
  BY <1>1, ParsedStays, FailedStays
<1>3. QED
  BY <1>2 DEF Answered, Owner

LEMMA AnswersStep ==
  ASSUME TypeOK, CallInv, LoopsInside, AnswersHeld, [Next]_vars
  PROVE  AnswersHeld'
<1>0. /\ Answered \subseteq Answered'
      /\ ctx \in [Services -> SUBSET Services] /\ seen \in [Cntls -> SUBSET Services] /\ setup \in Setups
      /\ \A s \in Services : ctx[s] \subseteq Answered'
      /\ \A c \in Cntls : seen[c] \subseteq Answered'
  BY AnsweredStays DEF TypeOK, AnswersHeld
<1>1. CASE UNCHANGED <<ctx, seen>>
  BY <1>0, <1>1 DEF AnswersHeld
<1>2. ASSUME NEW c \in Cntls, Parse(c)
      PROVE  AnswersHeld'
  <2>1. UNCHANGED seen /\ (UNCHANGED ctx \/ (Parsed(c)' /\ ctx' = [ctx EXCEPT ![Owner(c)] = ctx[Owner(c)] \cup {Owner(c)}]
                                             /\ failed[Owner(c)] = "no" /\ UNCHANGED failed))
    BY <1>2 DEF Parse, Stop, Parsed, TypeOK, brpcVars
  <2>2. CASE UNCHANGED ctx
    BY <1>1, <2>1, <2>2
  <2>3. CASE ~UNCHANGED ctx
    <3>1. Owner(c) \in Services /\ (c \in Services => Owner(c) = c)
      BY <1>0, OwnerFacts
    <3>2. Owner(c) \in Answered'
      BY <2>1, <2>3, <3>1 DEF Answered, Owner
    <3>3. QED
      BY <1>0, <2>1, <2>3, <3>1, <3>2 DEF AnswersHeld
  <2>4. QED
    BY <2>2, <2>3
<1>3. ASSUME NEW c \in Cntls, Merge(c)
      PROVE  AnswersHeld'
  <2>1. NextList(c)[cat[c]] \in Services /\ Owner(c) \in Services
    BY <1>0, <1>3, ListFacts, OwnerFacts DEF Merge, LoopsInside, NextList
  <2>2. UNCHANGED seen /\ ctx' = [ctx EXCEPT ![Owner(c)] = ctx[Owner(c)] \cup ctx[NextList(c)[cat[c]]]]
    BY <1>3 DEF Merge
  <2>3. QED
    BY <1>0, <2>1, <2>2 DEF AnswersHeld
<1>4. ASSUME NEW c \in Cntls, Copy(c)
      PROVE  AnswersHeld'
  <2>1. Owner(c) \in Services
    BY <1>0, OwnerFacts
  <2>2. UNCHANGED seen /\ ctx' = [ctx EXCEPT ![NextList(c)[cat[c]]] = ctx[Owner(c)]]
    BY <1>4 DEF Copy
  <2>3. QED
    BY <1>0, <2>1, <2>2 DEF AnswersHeld
<1>5. ASSUME NEW c \in Cntls, Gather(c)
      PROVE  AnswersHeld'
  <2>1. cat[c] \in Services
    BY <1>5 DEF Gather, LoopsInside, Services
  <2>2. UNCHANGED ctx /\ seen' = [seen EXCEPT ![c] = seen[c] \cup ctx[cat[c]]]
    BY <1>5 DEF Gather
  <2>3. QED
    BY <1>0, <2>1, <2>2 DEF AnswersHeld
<1>6. \/ UNCHANGED <<ctx, seen>>
      \/ \E c \in Cntls : Parse(c) \/ Merge(c) \/ Copy(c) \/ Gather(c)
  <2>1. \A f \in Frames : FrameMoves(f) => UNCHANGED <<ctx, seen>>
    BY FrameCases DEF closureVars
  <2>2. \A c \in Cntls : Local(c) => UNCHANGED <<ctx, seen>> \/ Parse(c) \/ Merge(c) \/ Gather(c)
    BY DEF Local, Check, Route, Recalled, Cancel, GoOn, Swept
  <2>3. QED
    BY <2>1, <2>2, StepCases DEF Reply, Fail, RunReturns, QuitFlow, QuitDone, Sweep, closureVars, vars
<1>7. QED
  BY <1>1, <1>2, <1>3, <1>4, <1>5, <1>6

LEMMA ReasonStep ==
  ASSUME ConditionsEvaluate, TypeOK, CallInv, ReasonHeld, [Next]_vars
  PROVE  ReasonHeld'
<1>0. cpc \in [Cntls -> ClosureStates] /\ setup' = setup /\ setup.quitFails = {}
  BY SetupStays DEF TypeOK, ConditionsEvaluate
<1>1. ASSUME NEW c \in Cntls, cpc'[c] = "quit"
      PROVE  seen'[c] \in setup.quitWhen
  <2>1. CASE QuitFlow(c)
    BY <1>0, <2>1 DEF QuitFlow, QuitCondition
  <2>2. CASE Local(c) \/ Copy(c) \/ QuitDone(c)
    <3>1. CASE Check(c) \/ Parse(c) \/ Route(c)
      BY <1>0, <1>1, <3>1 DEF Check, Parse, Route, Stop
    <3>2. CASE Recalled(c) \/ Merge(c) \/ Cancel(c)
      BY <1>0, <1>1, <3>2 DEF Recalled, Merge, Cancel, Stop
    <3>3. CASE Gather(c) \/ GoOn(c) \/ Swept(c)
      BY <1>0, <1>1, <3>3 DEF Gather, GoOn, Swept, Stop
    <3>4. CASE Copy(c) \/ QuitDone(c)
      BY <1>0, <1>1, <3>4 DEF Copy, QuitDone, Stop
    <3>5. QED
      BY <2>2, <3>1, <3>2, <3>3, <3>4 DEF Local
  <2>3. CASE cpc'[c] = cpc[c] /\ seen'[c] = seen[c]
    BY <1>1, <2>3 DEF ReasonHeld
  <2>4. QED
    BY <2>1, <2>2, <2>3, ClosureStays
<1>2. ASSUME ready'
      PROVE  \E c \in Cntls : cpc'[c] = "done" /\ seen'[c] \in setup.quitWhen
  <2>1. CASE ready
    <3>1. PICK c \in Cntls : cpc[c] = "done" /\ seen[c] \in setup.quitWhen
      BY <2>1 DEF ReasonHeld
    <3>2. cpc'[c] = "done" /\ seen'[c] = seen[c]
      BY <3>1, ParsedStays DEF Passed
    <3>3. QED
      BY <3>1, <3>2
  <2>2. CASE ~ready
    <3>1. PICK c \in Cntls : QuitDone(c)
      <4>1. \A d \in Cntls : Local(d) => UNCHANGED ready
        BY LocalFacts DEF idsVars
      <4>2. \A f \in Frames : FrameMoves(f) => UNCHANGED ready
        BY FrameCases
      <4>3. QED
        BY <1>2, <2>2, <4>1, <4>2, StepCases
        DEF Reply, Fail, RunReturns, Copy, QuitFlow, Sweep, idsVars, vars
    <3>2. cpc[c] = "quit" /\ cpc'[c] = "done" /\ seen' = seen
      BY <1>0, <3>1 DEF QuitDone, Stop
    <3>3. QED
      BY <3>2 DEF ReasonHeld
  <2>3. QED
    BY <2>1, <2>2
<1>3. QED
  BY <1>0, <1>1, <1>2 DEF ReasonHeld

\* What an order permits is what may be stopped: an intervention has one service only.
LEMMA PermittedMayStop ==
  ASSUME TypeOK, CallInv, NEW c \in Cntls, call[c] # "none", NEW x \in Permitted(c)
  PROVE  /\ x \in Cntls /\ call[x] # "none" /\ home[c] = home[x]
         /\ MayStop(Flow[NodeOf(c)], Owner(c), Owner(x))
<1> DEFINE n == Flow[NodeOf(c)]
<1>0. /\ x \in RpcIds(c)
      /\ \/ n.order = "ALL"
         \/ /\ n.order = "PRIORITY"
            /\ (IF n.intervene = 0 THEN n.prio[Owner(x)] ELSE 0) <= (IF n.intervene = 0 THEN n.prio[Owner(c)] ELSE 0)
         \/ /\ n.order = "HIERACHY"
            /\ (IF n.intervene = 0 THEN n.prio[Owner(x)] ELSE 0) = (IF n.intervene = 0 THEN n.prio[Owner(c)] ELSE 0)
  BY DEF Permitted
<1>1. x \in Cntls /\ call[x] # "none" /\ home[c] = home[x]
  BY <1>0 DEF RpcIds
<1>2. n \in NodeConfigs /\ Owner(c) \in Services /\ Owner(x) \in Services
  BY <1>1, ConfigFacts, OwnerFacts DEF NodeOf, TypeOK
<1>3. n.prio[Owner(c)] \in Int
  BY <1>2 DEF NodeConfigs
<1>4. n.intervene # 0 => Owner(c) = Owner(x)
  <2>1. SUFFICES ASSUME n.intervene # 0 PROVE Owner(c) = Owner(x)
    OBVIOUS
  <2>2. RecallList(NodeOf(c)) = <<n.intervene>>
    BY <2>1 DEF RecallList
  <2>3. /\ \E i \in DOMAIN RecallList(NodeOf(c)) : RecallList(NodeOf(c))[i] = Owner(c)
        /\ \E i \in DOMAIN RecallList(NodeOf(c)) : RecallList(NodeOf(c))[i] = Owner(x)
    BY <1>1 DEF CallInv, CallsPlaced, NodeOf
  <2>4. QED
    BY <2>2, <2>3
<1>5. MayStop(n, Owner(c), Owner(x))
  <2>1. CASE n.order = "ALL"
    BY <2>1 DEF MayStop
  <2>2. CASE n.order = "PRIORITY"
    <3>1. n.prio[Owner(x)] <= n.prio[Owner(c)]
      BY <1>0, <1>3, <1>4, <2>2
    <3>2. QED
      BY <2>2, <3>1 DEF MayStop
  <2>3. CASE n.order = "HIERACHY"
    <3>1. n.prio[Owner(x)] = n.prio[Owner(c)]
      BY <1>0, <1>4, <2>3
    <3>2. QED
      BY <2>3, <3>1 DEF MayStop
  <2>4. QED
    BY <1>0, <2>1, <2>2, <2>3
<1>6. QED
  BY <1>1, <1>5

LEMMA SweepStep ==
  ASSUME TypeOK, CallInv, SweepHeld, [Next]_vars
  PROVE  SweepHeld'
<1>0. /\ cpc \in [Cntls -> ClosureStates] /\ togo \in [Cntls -> SUBSET Cntls] /\ setup \in Setups
      /\ failed \in [Cntls -> {"no", "net", "cancel"}]
  BY DEF TypeOK
<1>1. ASSUME NEW x \in Cntls, failed'[x] # "no"
      PROVE  call'[x] # "none"
  <2>1. call[x] # "none"
    BY <1>1, FailedStays DEF SweepHeld
  <2>2. QED
    BY <2>1, CallMoves
<1>2. ASSUME NEW c \in Cntls, Parsed(c)', c \in Services
      PROVE  failed'[c] = "no"
  <2>1. CASE Parsed(c)
    <3>1. call[c] \in Begun
      BY <2>1 DEF CallInv, ClosuresBegin, Parsed
    <3>2. QED
      BY <1>2, <2>1, <3>1, FailedStays DEF SweepHeld
  <2>2. CASE ~Parsed(c)
    <3>1. Parse(c) /\ failed[Owner(c)] = "no"
      BY <1>2, <2>2, ParsedStays
    <3>2. Owner(c) = c /\ UNCHANGED failed
      BY <1>0, <1>2, <3>1, OwnerFacts DEF Parse, brpcVars
    <3>3. QED
      BY <3>1, <3>2
  <2>3. QED
    BY <2>1, <2>2
<1>3. ASSUME NEW c \in Cntls, cpc'[c] = "sweep", NEW x \in togo'[c]
      PROVE  call'[x] # "none" /\ home'[c] = home'[x] /\ MayStop(Flow[NodeOf(c)], Owner(c), Owner(x))'
  <2>1. /\ call[c] # "none" /\ x \in Cntls /\ call[x] # "none" /\ home[c] = home[x]
        /\ MayStop(Flow[NodeOf(c)], Owner(c), Owner(x))
    <3>1. CASE Cancel(c)
      <4>1. x \in Permitted(c)
        BY <1>0, <1>3, <3>1 DEF Cancel, Stop
      <4>2. call[c] # "none"
        BY <3>1 DEF Cancel, CallInv, ClosuresBegin, Begun
      <4>3. QED
        BY <4>1, <4>2, PermittedMayStop
    <3>2. CASE ~Cancel(c)
      <4>1. cpc[c] = "sweep"
        <5>1. CASE Check(c) \/ Parse(c) \/ Route(c)
          BY <1>0, <1>3, <5>1 DEF Check, Parse, Route, Stop
        <5>2. CASE Recalled(c) \/ Merge(c) \/ Gather(c)
          BY <1>0, <1>3, <5>2 DEF Recalled, Merge, Gather, Stop
        <5>3. CASE GoOn(c) \/ Swept(c) \/ Copy(c) \/ QuitFlow(c) \/ QuitDone(c)
          BY <1>0, <1>3, <5>3 DEF GoOn, Swept, Copy, QuitFlow, QuitDone, Stop
        <5>4. QED
          BY <1>3, <3>2, <5>1, <5>2, <5>3, ClosureStays DEF Local
      <4>2. x \in togo[c]
        <5>1. \A d \in Cntls : Local(d) => d = c \/ togo'[c] = togo[c]
          BY <1>0 DEF Local, Check, Parse, Route, Recalled, Merge, Cancel, Gather, GoOn, Swept
        <5>2. Local(c) => togo'[c] = togo[c]
          BY <3>2 DEF Local, Check, Parse, Route, Recalled, Merge, Gather, GoOn, Swept
        <5>3. \A d, y \in Cntls : Sweep(d, y) => togo'[c] \subseteq togo[c]
          BY <1>0 DEF Sweep
        <5>4. \A d \in Cntls : QuitFlow(d) => togo'[c] = togo[c]
          BY <1>0, <4>1 DEF QuitFlow
        <5>5. \A f \in Frames : FrameMoves(f) => UNCHANGED togo
          BY FrameCases DEF closureVars
        <5>6. QED
          BY <1>3, <5>1, <5>2, <5>3, <5>4, <5>5, StepCases
          DEF Reply, Fail, RunReturns, Copy, QuitDone, closureVars, vars
      <4>3. call[c] # "none" /\ x \in Cntls
        BY <1>0, <4>1, <4>2 DEF CallInv, ClosuresBegin, Begun
      <4>4. QED
        BY <4>1, <4>2, <4>3 DEF SweepHeld
    <3>3. QED
      BY <3>1, <3>2
  <2>2. NodeOf(c)' = NodeOf(c) /\ Flow' = Flow /\ home'[c] = home[c] /\ home'[x] = home[x]
    BY <2>1, NodeStays
  <2>3. call'[x] # "none"
    BY <2>1, CallMoves
  <2>4. MayStop(Flow[NodeOf(c)], Owner(c), Owner(x))'
    BY <2>1, <2>2 DEF MayStop, Owner
  <2>5. QED
    BY <2>1, <2>2, <2>3, <2>4
<1>4. QED
  BY <1>1, <1>2, <1>3 DEF SweepHeld, Owner

LEMMA JustifiedStep ==
  ASSUME TypeOK, CallInv, ReasonHeld, SweepHeld, CancelJustified, [Next]_vars
  PROVE  CancelJustified'
<1> DEFINE Wins(c, x) == /\ cpc[c] \in Passed
                         /\ c \in Services => failed[c] = "no" /\ call[c] \in Begun
                         /\ \/ seen[c] \in setup.quitWhen
                            \/ home[c] = home[x] /\ MayStop(Flow[NodeOf(c)], Owner(c), Owner(x))
<1> SUFFICES ASSUME NEW x \in Cntls, failed'[x] = "cancel"
             PROVE  \E c \in Cntls : Wins(c, x)'
  BY DEF CancelJustified, Passed, Begun
<1>1. PICK c \in Cntls : Wins(c, x)
  <2>1. CASE failed[x] = "cancel"
    BY <2>1 DEF CancelJustified, Passed, Begun
  <2>2. CASE failed[x] # "cancel"
    <3>1. PICK c \in Cntls : Sweep(c, x)
      BY <2>2, FailedStays
    <3>2. cpc[c] \in {"sweep", "quit"} /\ x \in togo[c]
      BY <3>1 DEF Sweep
    <3>3. c \in Services => failed[c] = "no" /\ call[c] \in Begun
      BY <3>2 DEF SweepHeld, Parsed, CallInv, ClosuresBegin
    <3>4. \/ seen[c] \in setup.quitWhen
          \/ home[c] = home[x] /\ MayStop(Flow[NodeOf(c)], Owner(c), Owner(x))
      BY <3>2 DEF ReasonHeld, SweepHeld
    <3>5. QED
      BY <3>2, <3>3, <3>4 DEF Passed
  <2>3. QED
    BY <2>1, <2>2
<1>2. call[c] \in Begun /\ call[x] # "none"
  <2>1. call[c] \in Begun
    BY <1>1 DEF CallInv, ClosuresBegin, Passed
  <2>2. failed'[x] # failed[x] => call[x] \in {"idle", "flight"}
    BY FailedStays
  <2>3. failed[x] # "no" => call[x] # "none"
    BY DEF SweepHeld
  <2>4. QED
    BY <2>1, <2>2, <2>3
<1>3. cpc'[c] \in Passed /\ seen'[c] = seen[c]
  BY <1>1, ParsedStays
<1>4. c \in Services => failed'[c] = "no" /\ call'[c] \in Begun
  BY <1>1, <1>2, FailedStays, CallMoves DEF Begun
<1>5. NodeOf(c)' = NodeOf(c) /\ Flow' = Flow /\ home'[c] = home[c] /\ home'[x] = home[x] /\ setup' = setup
  BY <1>2, NodeStays, SetupStays DEF Begun
<1>6. MayStop(Flow[NodeOf(c)], Owner(c), Owner(x)) => MayStop(Flow[NodeOf(c)], Owner(c), Owner(x))'
  BY <1>5 DEF MayStop, Owner
<1>7. Wins(c, x)'
  BY <1>1, <1>3, <1>4, <1>5, <1>6
<1>8. QED
  BY <1>7

CancelInv == LatchInv /\ AnswersHeld /\ ReasonHeld /\ SweepHeld /\ CancelJustified

LEMMA CancelInvariant ==
  ASSUME ConditionsEvaluate
  PROVE  Spec => []CancelInv
<1>1. Init => CancelInv
  <2>1. Init => AnswersHeld /\ ReasonHeld
    BY DEF Init, AnswersHeld, ReasonHeld
  <2>2. Init => SweepHeld /\ CancelJustified
    BY DEF Init, SweepHeld, CancelJustified, Parsed
  <2>3. QED
    BY <2>1, <2>2, InitInv DEF CancelInv
<1>2. CancelInv /\ [Next]_vars => CancelInv'
  <2>1. SUFFICES ASSUME CancelInv, [Next]_vars PROVE CancelInv'
    OBVIOUS
  <2>2. TypeOK /\ CallInv /\ LoopsInside /\ AnswersHeld /\ ReasonHeld /\ SweepHeld /\ CancelJustified
    BY <2>1 DEF CancelInv, LatchInv
  <2>3. LatchInv'
    BY <2>1, StepInv DEF CancelInv
  <2>4. AnswersHeld' /\ ReasonHeld' /\ SweepHeld' /\ CancelJustified'
    BY <2>1, <2>2, AnswersStep, ReasonStep, SweepStep, JustifiedStep
  <2>5. QED
    BY PTL, <2>3, <2>4 DEF CancelInv
<1>3. QED
  BY <1>1, <1>2, PTL DEF Spec

\* The request quits only for results that were received, whatever closures gather while
\* others write (GlobalClosure::GlobalCancel).
THEOREM QuitsHaveReason ==
  ASSUME ConditionsEvaluate
  PROVE  Spec => []QuitHasReason
<1>1. CancelInv => QuitHasReason
  BY DEF CancelInv, ReasonHeld, AnswersHeld, QuitHasReason
<1>2. QED
  BY <1>1, CancelInvariant, PTL

\* A cancelled call was cancelled by a closure that may cancel it and that can itself not
\* be cancelled any more: of calls that race, one is left (GlobalClosure::cancel).
THEOREM CancelsAreJustified ==
  ASSUME ConditionsEvaluate
  PROVE  Spec => []CancelJustified
<1>1. CancelInv => CancelJustified
  BY DEF CancelInv
<1>2. QED
  BY <1>1, CancelInvariant, PTL
-----------------------------------------------------------------------------
(* That the closures of a dynamic service do not all leave the answer to    *)
(* each other.                                                              *)

\* A call whose answer, with content, or failure is there.
Over(d) == call[d] \in Begun /\ (d \in full \/ failed[d] # "no")

\* When that goes for all calls of a dynamic service, one of their closures is still to
\* look, or has gone on.
HeardSoFar ==
  \A s \in Dynamic :
    /\ failed[s] = "no" /\ Listed(s) # {}
    /\ \A d \in Listed(s) : Over(d)
    => \E d \in Listed(s) : cpc[d] # "quiet"

LEMMA FullStays ==
  ASSUME TypeOK, CallInv, [Next]_vars, NEW x \in Cntls, x \notin full, x \in full'
  PROVE  call[x] = "flight"
<1>1. \A f \in Frames : FrameMoves(f) => UNCHANGED full
  BY FrameCases
<1>2. \A c \in Cntls : Local(c) => UNCHANGED full
  BY LocalFacts DEF brpcVars
<1>3. \A c \in Cntls : Copy(c) \/ QuitFlow(c) \/ QuitDone(c) \/ RunReturns(c) \/ Fail(c) => UNCHANGED full
  BY DEF Copy, QuitFlow, QuitDone, RunReturns, Fail, brpcVars
<1>4. \A c, y \in Cntls : Sweep(c, y) => UNCHANGED full
  BY DEF Sweep
<1>5. \A c \in Cntls : Reply(c) => call[c] = "flight" /\ (UNCHANGED full \/ full' = full \cup {c})
  BY DEF Reply
<1>6. QED
  BY <1>1, <1>2, <1>3, <1>4, <1>5, StepCases DEF vars

\* A call that has just come to its end has a closure that has not looked.
LEMMA JustOver ==
  ASSUME TypeOK, CallInv, [Next]_vars, NEW d \in Cntls, ~Over(d), Over(d)'
  PROVE  cpc'[d] # "quiet"
<1>1. call[d] \notin Begun
  <2> SUFFICES ASSUME call[d] \in Begun PROVE FALSE
    OBVIOUS
  <2>1. failed'[d] = failed[d]
    BY FailedStays
  <2>2. d \in full' => d \in full
    BY FullStays DEF Begun
  <2>3. QED
    BY <2>1, <2>2 DEF Over
<1>2. cpc[d] \in {"check", "parse"}
  BY <1>1 DEF CallInv, ClosuresBegin, TypeOK
<1>3. ~Local(d) /\ ~Copy(d) /\ ~QuitFlow(d) /\ ~QuitDone(d)
  BY <1>1, <1>2 DEF Local, Check, Parse, Route, Recalled, Merge, Cancel, Gather, GoOn, Swept, Copy,
                    QuitFlow, QuitDone, Begun
<1>4. QED
  BY <1>2, <1>3, ClosureStays

\* What a closure gives up for.
LEMMA TurnsQuiet ==
  ASSUME TypeOK, CallInv, [Next]_vars, NEW d \in Cntls, cpc[d] # "quiet", cpc'[d] = "quiet"
  PROVE  failed[Owner(d)] # "no" \/ Unfinished(Owner(d))
<1>0. cpc \in [Cntls -> ClosureStates]
  BY DEF TypeOK
<1>1. Local(d) \/ Copy(d) \/ QuitFlow(d) \/ QuitDone(d)
  BY ClosureStays
<1>2. CASE Check(d)
  BY <1>0, <1>2 DEF Check, Stop
<1>3. CASE Parse(d)
  BY <1>0, <1>3 DEF Parse, Stop
<1>4. CASE Route(d) \/ Recalled(d) \/ Merge(d) \/ Cancel(d)
  BY <1>0, <1>4 DEF Route, Recalled, Merge, Cancel, Stop
<1>5. CASE Gather(d) \/ GoOn(d) \/ Swept(d)
  BY <1>0, <1>5 DEF Gather, GoOn, Swept, Stop
<1>6. CASE Copy(d) \/ QuitFlow(d) \/ QuitDone(d)
  BY <1>0, <1>6 DEF Copy, QuitFlow, QuitDone, Stop
<1>7. QED
  BY <1>1, <1>2, <1>3, <1>4, <1>5, <1>6 DEF Local

LEMMA HeardStep ==
  ASSUME TypeOK, CallInv, HeardSoFar, [Next]_vars
  PROVE  HeardSoFar'
<1> SUFFICES ASSUME NEW s \in Dynamic, failed'[s] = "no", Listed(s)' # {},
                    \A d \in Listed(s)' : Over(d)'
             PROVE  \E d \in Listed(s)' : cpc'[d] # "quiet"
  BY DEF HeardSoFar
<1>0. s \in Cntls /\ \A d \in Cntls : d \in Listed(s) <=> d \in CallsOf(s) /\ call[d] # "none"
  BY ConfigFacts DEF TypeOK, Cntls, Listed
<1>1. CallsOf(s)' = CallsOf(s) /\ CallsOf(s) = {d \in Subs : SubOwner[d] = s} /\ CallsOf(s) \subseteq Cntls
  BY DEF CallsOf, Cntls
<1>2. Listed(s) \subseteq Listed(s)'
  <2>1. \A d \in Cntls : call[d] # "none" => call'[d] # "none"
    BY CallMoves
  <2>2. QED
    BY <1>1, <2>1 DEF Listed
<1>3. CASE \E d \in Listed(s)' : ~Over(d)
  <2>1. PICK d \in Listed(s)' : ~Over(d)
    BY <1>3
  <2>2. d \in Cntls /\ Over(d)'
    BY <1>1, <2>1 DEF Listed
  <2>3. QED
    BY <2>1, <2>2, JustOver
<1>4. CASE \A d \in Listed(s)' : Over(d)
  <2>1. Listed(s)' = Listed(s)
    BY <1>1, <1>2, <1>4 DEF Listed, Over, Begun
  <2>2. failed[s] = "no"
    <3>1. failed'[s] = failed[s] \/ failed'[s] \in {"net", "cancel"}
      BY <1>0, FailedStays
    <3>2. QED
      BY <3>1
  <2>3. PICK d \in Listed(s) : cpc[d] # "quiet"
    BY <1>4, <2>1, <2>2 DEF HeardSoFar
  <2>4. d \in Cntls /\ Owner(d) = s
    BY <1>1, <2>3 DEF Listed, Owner
  <2>5. ~Unfinished(s)
    BY <1>4, <2>1 DEF Unfinished, Over
  <2>6. QED
    BY <2>1, <2>2, <2>3, <2>4, <2>5, TurnsQuiet
<1>5. QED
  BY <1>3, <1>4

\* Closures of a dynamic service that end together do not all leave its answer to the
\* others, however their tests fall (the test of GlobalClosure::Run for DYNAMIC_HTTP).
THEOREM DynamicIsHeard == Spec => []DynamicHeard
<1>1. Init => HeardSoFar
  BY DEF Init, HeardSoFar, Listed, CallsOf, Cntls
<1>2. LatchInv /\ HeardSoFar /\ [Next]_vars => HeardSoFar'
  BY HeardStep DEF LatchInv
<1>3. HeardSoFar => DynamicHeard
  BY DEF HeardSoFar, DynamicHeard, Over, Begun
<1>4. QED
  BY <1>1, <1>2, <1>3, InitInv, StepInv, PTL DEF Spec
-----------------------------------------------------------------------------
(* That a frame which returns leaves no call behind, where no dynamic       *)
(* service can come too late for a quit.                                    *)

\* A policy that cannot quit, or recalls no dynamic service.
AllStatic(p) ==
  \A n \in DOMAIN p.flow :
    /\ p.flow[n].intervene \notin Dynamic
    /\ \A i \in DOMAIN p.flow[n].recall : p.flow[n].recall[i] \notin Dynamic
NeverLate(p) == p.quitWhen \cup p.quitFails = {} \/ AllStatic(p)
NoneLate == \A p \in Setups : NeverLate(p)

\* Nothing has come too late for the quit so far.
Timely == ready => AllStatic(setup)

Running == {"flight", "locked"}

\* A running call is of a service that is built; nothing runs before a frame's second
\* loop, or when the frame has returned.
CallsInFrames ==
  /\ \A c \in Cntls : call[c] \in Running => Owner(c) \in built
  /\ \A c \in Cntls : call[c] \in Running => fpc[home[c]] \notin {"create", "ok", "err"}
  /\ \A f \in Frames : fpc[f] = "register" => At(f) \in Dynamic

\* Without a quit condition the request does not quit.
OnlyByCondition ==
  setup.quitWhen \cup setup.quitFails = {} => ~ready /\ \A c \in Cntls : cpc[c] # "quit"

LEMMA QuitStep ==
  ASSUME TypeOK, CallInv, OnlyByCondition, [Next]_vars
  PROVE  OnlyByCondition'
<1> SUFFICES ASSUME setup.quitWhen \cup setup.quitFails = {}
             PROVE  ~ready' /\ \A c \in Cntls : cpc'[c] # "quit"
  BY SetupStays DEF OnlyByCondition
<1>0. ~ready /\ cpc \in [Cntls -> ClosureStates] /\ \A c \in Cntls : cpc[c] # "quit"
  BY DEF OnlyByCondition, TypeOK
<1>1. \A c \in Cntls : ~QuitFlow(c) /\ ~QuitDone(c)
  BY <1>0 DEF QuitFlow, QuitDone, QuitCondition
<1>2. ASSUME NEW c \in Cntls
      PROVE  cpc'[c] # "quit"
  <2>1. CASE Check(c) \/ Parse(c) \/ Route(c)
    BY <1>0, <2>1 DEF Check, Parse, Route, Stop
  <2>2. CASE Recalled(c) \/ Merge(c) \/ Cancel(c)
    BY <1>0, <2>2 DEF Recalled, Merge, Cancel, Stop
  <2>3. CASE Gather(c) \/ GoOn(c) \/ Swept(c) \/ Copy(c)
    BY <1>0, <2>3 DEF Gather, GoOn, Swept, Copy, Stop
  <2>4. QED
    BY <1>0, <1>1, <2>1, <2>2, <2>3, ClosureStays DEF Local
<1>3. ~ready'
  <2>1. \A f \in Frames : FrameMoves(f) => UNCHANGED ready
    BY FrameCases
  <2>2. \A c \in Cntls : Local(c) => UNCHANGED ready
    BY LocalFacts DEF idsVars
  <2>3. QED
    BY <1>0, <1>1, <2>1, <2>2, StepCases DEF Reply, Fail, RunReturns, Copy, Sweep, idsVars, vars
<1>4. QED
  BY <1>2, <1>3

\* At a node of the policy there is no dynamic service, or no quit.
LEMMA AtIsTimely ==
  ASSUME Timely, TypeOK, NEW f \in Frames, At(f) \in Dynamic
  PROVE  ~ready
<1>1. node[f] \in DOMAIN Flow /\ setup \in Setups
  BY AtFacts DEF TypeOK
<1>2. fat[f] \in DOMAIN RecallList(node[f])
  BY AtFacts
<1>3. Flow[node[f]].intervene \notin Dynamic
        /\ (\A i \in DOMAIN Flow[node[f]].recall : Flow[node[f]].recall[i] \notin Dynamic)
      => At(f) \notin Dynamic
  BY <1>1, <1>2 DEF At, RecallList
<1>4. QED
  BY <1>1, <1>3 DEF Timely, AllStatic, Flow

\* A request that has quit has quit for good.
LEMMA ReadyStays ==
  ASSUME TypeOK, CallInv, [Next]_vars
  PROVE  /\ ready => ready'
         /\ Timely' => Timely
<1>1. \A f \in Frames : FrameMoves(f) => UNCHANGED ready
  BY FrameCases
<1>2. \A c \in Cntls : Local(c) => UNCHANGED ready
  BY LocalFacts DEF idsVars
<1>3. ready => ready'
  BY <1>1, <1>2, StepCases
  DEF Reply, Fail, RunReturns, Copy, Sweep, QuitFlow, QuitDone, idsVars, vars
<1>4. QED
  BY <1>3, SetupStays DEF Timely, AllStatic

\* One step of a frame, by what becomes of the calls that run.
LEMMA FrameHolds ==
  ASSUME Timely, TypeOK, CallInv, CallsInFrames,
         NEW f \in Frames, FrameMoves(f)
  PROVE  /\ \A c \in Cntls : call'[c] \in Running =>
              Owner(c) \in built' /\ fpc'[home'[c]] \notin {"create", "ok", "err"}
         /\ fpc'[f] = "register" => UNCHANGED fat /\ At(f) \in Dynamic
<1> USE DEF Running
<1>0. /\ home \in [Cntls -> Frames] /\ fpc \in [Frames -> FrameStates] /\ built \subseteq Services
      /\ call \in [Cntls -> {"none", "idle", "flight", "locked", "ended"}]
      /\ fat \in [Frames -> Nat]
  BY DEF TypeOK
<1>1. At(f) \in Services /\ At(f) \in Cntls /\ Owner(At(f)) = At(f)
  BY AtFacts
<1>2. \A c \in Cntls : call[c] \in Running =>
        Owner(c) \in built /\ fpc[home[c]] \notin {"create", "ok", "err"}
  BY DEF CallsInFrames
<1>3. ASSUME NEW p \in {"ok", "err"}, Leave(f, p), UNCHANGED <<home, built>>,
             \A c \in Cntls : home[c] = f => call[c] \notin Running
      PROVE  /\ \A c \in Cntls : call'[c] \in Running =>
                  Owner(c) \in built' /\ fpc'[home'[c]] \notin {"create", "ok", "err"}
             /\ fpc'[f] # "register"
  <2>1. fpc' = [fpc EXCEPT ![f] = p] /\ \A c \in Cntls : call'[c] \in Running => call[c] \in Running
    BY <1>0, <1>3 DEF Leave
  <2>2. QED
    BY <1>0, <1>2, <1>3, <2>1
<1>4. ASSUME NEW p \in {"build", "join", "crash", "register"}, fpc' = [fpc EXCEPT ![f] = p],
             UNCHANGED <<home, call>>, built \subseteq built'
      PROVE  \A c \in Cntls : call'[c] \in Running =>
               Owner(c) \in built' /\ fpc'[home'[c]] \notin {"create", "ok", "err"}
  BY <1>0, <1>2, <1>4
<1>5. CASE DefFails(f)
  BY <1>2, <1>3, <1>5 DEF DefFails
<1>6. CASE Create(f)
  <2>1. fpc[f] = "create" /\ UNCHANGED built
    BY <1>6 DEF Create
  <2>2. CASE Leave(f, "err") \/ Leave(f, "ok")
    <3>1. UNCHANGED home
      BY <1>0, <1>1, <1>6, <2>2, <2>1 DEF Create, Leave, Advance
    <3>2. QED
      BY <1>2, <1>3, <2>1, <2>2, <3>1
  <2>3. CASE ~(Leave(f, "err") \/ Leave(f, "ok"))
    <3>1. /\ call' = [call EXCEPT ![At(f)] = "idle"] /\ home' = [home EXCEPT ![At(f)] = f]
          /\ Advance(f, "create", "build")
      BY <1>6, <2>3 DEF Create
    <3>2. \E p \in {"create", "build"} : fpc' = [fpc EXCEPT ![f] = p]
      BY <3>1 DEF Advance
    <3>3. QED
      BY <1>0, <1>1, <1>2, <2>1, <3>1, <3>2
  <2>4. QED
    BY <2>2, <2>3
<1>7. CASE Build(f)
  <2>1. home[At(f)] = f
    BY <1>7, NextIsUnbuilt DEF Build, CallInv, Unbuilt
  <2>2. call' = Issued({At(f)}) /\ built' = built \cup {At(f)} /\ UNCHANGED home
    BY <1>7 DEF Build
  <2>3. \E p \in {"build", "join"} : fpc' = [fpc EXCEPT ![f] = p]
    BY <1>7 DEF Build, Advance
  <2>4. QED
    BY <1>0, <1>1, <1>2, <2>1, <2>2, <2>3 DEF Issued
<1>8. CASE BuildDynamic(f)
  <2>1. PICK cs \in SUBSET CallsOf(At(f)) :
          call' = Issued(cs) /\ home' = [c \in Cntls |-> IF c \in cs THEN f ELSE home[c]]
    BY <1>8 DEF BuildDynamic
  <2>2. fpc' = [fpc EXCEPT ![f] = "register"] /\ UNCHANGED fat /\ built' = built \cup {At(f)} /\ At(f) \in Dynamic
    BY <1>8 DEF BuildDynamic
  <2>3. \A c \in cs : Owner(c) = At(f)
    BY <2>1, <2>2 DEF CallsOf, Owner
  <2>4. QED
    BY <1>0, <1>2, <2>1, <2>2, <2>3 DEF Issued
<1>9. CASE BuildFails(f)
  <2>1. \E p \in {"build", "join"} : fpc' = [fpc EXCEPT ![f] = p]
    BY <1>9 DEF BuildFails, Advance
  <2>2. UNCHANGED <<home, call, built>>
    BY <1>9 DEF BuildFails, brpcVars
  <2>3. QED
    BY <1>0, <1>4, <2>1, <2>2
<1>10. CASE Register(f)
  <2>1. ~ready
    BY <1>10, AtIsTimely DEF Register, CallsInFrames
  <2>2. Advance(f, "build", "join") /\ UNCHANGED <<home, call, built>>
    BY <1>10, <2>1 DEF Register, SetCallIds
  <2>3. \E p \in {"build", "join"} : fpc' = [fpc EXCEPT ![f] = p]
    BY <2>2 DEF Advance
  <2>4. QED
    BY <1>0, <1>4, <2>2, <2>3
<1>11. CASE RegisterNull(f)
  BY <1>0, <1>4, <1>11 DEF RegisterNull, brpcVars
<1>12. CASE Join(f)
  <2>1. \A c \in Cntls : home[c] = f => call[c] \notin Running
    BY <1>2, <1>12 DEF Join, Joined
  <2>2. QED
    BY <1>3, <1>12, <2>1 DEF Join
<1>13. QED
  BY <1>5, <1>6, <1>7, <1>8, <1>9, <1>10, <1>11, <1>12 DEF FrameMoves

LEMMA FramesStep ==
  ASSUME Timely, TypeOK, CallInv, CallsInFrames, [Next]_vars
  PROVE  CallsInFrames'
<1>0. /\ home \in [Cntls -> Frames] /\ fpc \in [Frames -> FrameStates]
      /\ call \in [Cntls -> {"none", "idle", "flight", "locked", "ended"}]
      /\ fat \in [Frames -> Nat]
  BY DEF TypeOK
<1>1. ASSUME NEW f \in Frames, FrameMoves(f)
      PROVE  CallsInFrames'
  <2>1. UNCHANGED <<setup, node>>
    BY <1>1, FrameCases
  <2>2. \A g \in Frames \ {f} : fpc'[g] = fpc[g] /\ fat'[g] = fat[g]
    <3>1. CASE Leaves(f)
      BY <1>0, <3>1 DEF Leaves, Leave
    <3>2. CASE Creates(f) \/ Builds(f) \/ Skips(f) \/ Registers(f)
      <4>1. \E loop, next : Advance(f, loop, next)
        BY <3>2 DEF Creates, Builds, Skips, Registers
      <4>2. QED
        BY <1>0, <4>1 DEF Advance
    <3>3. CASE BuildsDynamic(f) \/ Crashes(f)
      <4>1. UNCHANGED fat /\ \E p : fpc' = [fpc EXCEPT ![f] = p]
        BY <3>3 DEF BuildsDynamic, Crashes
      <4>2. QED
        BY <1>0, <4>1
    <3>4. QED
      BY <1>1, <3>1, <3>2, <3>3, FrameCases
  <2>3. ASSUME NEW g \in Frames, fpc'[g] = "register" PROVE At(g)' \in Dynamic
    <3>1. At(g) \in Dynamic /\ fat'[g] = fat[g]
      BY <1>1, <2>2, <2>3, FrameHolds DEF CallsInFrames
    <3>2. QED
      BY <2>1, <3>1 DEF At, RecallList, Flow
  <2>4. QED
    BY <1>1, <2>3, FrameHolds DEF CallsInFrames, Owner
<1>2. ASSUME UNCHANGED <<fpc, fat, node, home, built>>,
             \A c \in Cntls : call'[c] \in Running => call[c] \in Running
      PROVE  CallsInFrames'
  <2>1. \A g \in Frames : At(g)' = At(g)
    BY <1>2, SetupStays DEF At, RecallList, Flow
  <2>2. QED
    BY <1>2, <2>1 DEF CallsInFrames, Owner
<1>3. ASSUME NEW c \in Cntls, Copy(c)
      PROVE  CallsInFrames'
  <2>1. UNCHANGED <<setup, home, built, call>>
    BY <1>3 DEF Copy, brpcVars
  <2>2. fpc[c] = "off" /\ c \in Frames
    BY <1>3 DEF CallInv, ClosuresBegin, Copy, Frames
  <2>3. /\ \A g \in Frames \ {c} : fpc'[g] = fpc[g] /\ fat'[g] = fat[g] /\ node'[g] = node[g]
        /\ fpc'[c] \in {"off", "create"}
    BY <1>0, <1>3, <2>2 DEF Copy, frameVars, TypeOK
  <2>4. ASSUME NEW d \in Cntls, call'[d] \in Running
        PROVE  Owner(d)' \in built' /\ fpc'[home'[d]] \notin {"create", "ok", "err"}
    <3>1. home[d] # c /\ home[d] \in Frames
      BY <1>0, <2>1, <2>2, <2>4 DEF CallInv, CallsPlaced, Running
    <3>2. QED
      BY <2>1, <2>3, <2>4, <3>1 DEF CallsInFrames, Owner
  <2>5. ASSUME NEW g \in Frames, fpc'[g] = "register" PROVE At(g)' \in Dynamic
    <3>1. g # c /\ fpc[g] = "register"
      BY <2>3, <2>5
    <3>2. At(g)' = At(g)
      BY <2>1, <2>3, <3>1 DEF At, RecallList, Flow
    <3>3. QED
      BY <3>1, <3>2 DEF CallsInFrames
  <2>6. QED
    BY <2>4, <2>5 DEF CallsInFrames
<1>4. ASSUME NEW c \in Cntls, Reply(c) \/ Fail(c) \/ RunReturns(c)
      PROVE  CallsInFrames'
  BY <1>0, <1>2, <1>4 DEF Reply, Fail, RunReturns, frameVars, Running
<1>5. ASSUME NEW c \in Cntls, NEW x \in Cntls, Sweep(c, x)
      PROVE  CallsInFrames'
  <2>1. call' = call \/ (call[x] = "flight" /\ call' = [call EXCEPT ![x] = "locked"])
    BY <1>5 DEF Sweep, StartCancel
  <2>2. QED
    BY <1>0, <1>2, <1>5, <2>1 DEF Sweep, frameVars, Running
<1>6. ASSUME NEW c \in Cntls, Local(c) \/ QuitFlow(c) \/ QuitDone(c)
      PROVE  CallsInFrames'
  BY <1>2, <1>6, LocalFacts DEF QuitFlow, QuitDone, frameVars, brpcVars
<1>7. CASE UNCHANGED vars
  BY <1>2, <1>7 DEF vars, frameVars, brpcVars
<1>8. QED
  BY <1>1, <1>3, <1>4, <1>5, <1>6, <1>7, StepCases

\* The frames own what runs for as long as nothing is late.
FramesInv == LatchInv /\ (Timely => CallsInFrames)

LEMMA FramesInvariant ==
  /\ Init => FramesInv
  /\ FramesInv /\ [Next]_vars => FramesInv'
<1>1. Init => CallsInFrames
  BY DEF Init, CallsInFrames, Running
<1>2. ASSUME FramesInv, [Next]_vars PROVE FramesInv'
  <2>1. LatchInv'
    BY <1>2, StepInv DEF FramesInv
  <2>2. Timely' => CallsInFrames'
    BY <1>2, ReadyStays, FramesStep DEF FramesInv, LatchInv
  <2>3. QED
    BY <2>1, <2>2 DEF FramesInv
<1>3. QED
  BY <1>1, <1>2, InitInv DEF FramesInv

\* When a frame returns, no call and no closure of its is left, if no dynamic service can
\* be too late for the quit: the joins and the ids see to it (BackendEngine::run).
THEOREM FramesAreLast ==
  ASSUME NoneLate
  PROVE  Spec => []FramesOutliveCalls
<1> DEFINE Inv == FramesInv /\ OnlyByCondition
<1>1. Init => Inv
  BY FramesInvariant DEF Init, OnlyByCondition
<1>2. Inv /\ [Next]_vars => Inv'
  BY FramesInvariant, QuitStep DEF FramesInv, LatchInv
<1>3. Inv => FramesOutliveCalls
  <2>1. Inv => Timely
    BY DEF FramesInv, LatchInv, TypeOK, NoneLate, NeverLate, OnlyByCondition, Timely
  <2>2. QED
    BY <2>1 DEF FramesInv, CallsInFrames, FramesOutliveCalls, Outlived, Running
<1>4. QED
  BY <1>1, <1>2, <1>3, PTL DEF Spec

-----------------------------------------------------------------------------
(* Where the answers go, and who looks at them for the quit.               *)

-----------------------------------------------------------------------------
(* Steps, by what they do to one closure, one frame, one call.             *)

\* The moves of a closure.
LEMMA ClosureMoves ==
  ASSUME TypeOK, CallInv, [Next]_vars, NEW c \in Cntls, cpc'[c] # cpc[c]
  PROVE  \/ Local(c) /\ call[c] = "locked" /\ cpc[c] = "check" /\ cpc'[c] \in {"quiet", "parse"}
         \/ Parse(c) /\ call[c] = "locked" /\ cpc[c] = "parse" /\ cpc'[c] \in {"quiet", "bad", "route"}
         \/ Route(c) /\ cpc[c] = "route" /\ cpc'[c] \in {"cancel", "erred", "copy", "around"}
         \/ Copy(c) /\ cpc[c] = "copy" /\ cpc'[c] = "recall"
         \/ Recalled(c) /\ cpc[c] = "recall" /\ fpc[c] = "err" /\ cpc'[c] = "erred"
         \/ Recalled(c) /\ cpc[c] = "recall" /\ fpc[c] = "ok" /\ cpc'[c] = "merge"
         \/ Merge(c) /\ cpc[c] = "merge" /\ cpc'[c] = "cancel"
         \/ Cancel(c) /\ cpc[c] = "cancel" /\ cpc'[c] \in {"gather", "sweep", "done"}
         \/ Gather(c) /\ cpc[c] = "gather" /\ cpc'[c] = "decide"
         \/ GoOn(c) /\ cpc[c] = "decide" /\ cpc'[c] = "done"
         \/ QuitFlow(c) /\ cpc[c] = "decide" /\ cpc'[c] = "quit"
         \/ Local(c) /\ cpc[c] = "sweep" /\ cpc'[c] = "done"
         \/ QuitDone(c) /\ cpc[c] = "quit" /\ cpc'[c] = "done"
<1>0. cpc \in [Cntls -> ClosureStates]
  BY DEF TypeOK
<1>1. Local(c) \/ Copy(c) \/ QuitFlow(c) \/ QuitDone(c)
  BY ClosureStays
<1>2. CASE Check(c) \/ Parse(c) \/ Route(c)
  BY <1>0, <1>2 DEF Local, Check, Parse, Route, Stop
<1>3. CASE Copy(c) \/ Recalled(c) \/ Merge(c)
  BY <1>0, <1>3 DEF Copy, Recalled, Merge, Stop
<1>4. CASE Cancel(c) \/ Gather(c) \/ GoOn(c)
  BY <1>0, <1>4 DEF Cancel, Gather, GoOn, Stop
<1>5. CASE Swept(c) \/ QuitFlow(c) \/ QuitDone(c)
  BY <1>0, <1>5 DEF Local, Swept, QuitFlow, QuitDone, Stop
<1>6. QED
  BY <1>1, <1>2, <1>3, <1>4, <1>5 DEF Local

\* The moves of a frame: its own, and its start by a closure.
LEMMA FrameGoes ==
  ASSUME TypeOK, CallInv, [Next]_vars, NEW f \in Frames
  PROVE  \/ fpc'[f] = fpc[f] /\ fat'[f] = fat[f]
         \/ FrameMoves(f) /\ fpc[f] \in {"create", "build", "register", "join"} /\ fpc'[f] # "off"
         \/ f \in Cntls /\ Copy(f) /\ fpc[f] = "off" /\ fpc'[f] = "create" /\ fat'[f] = 1
            /\ node'[f] = NextOf(f) /\ cpc[f] = "copy" /\ cpc'[f] = "recall"
<1>0. fpc \in [Frames -> FrameStates] /\ fat \in [Frames -> Nat] /\ node \in [Frames -> DOMAIN Flow]
      /\ cpc \in [Cntls -> ClosureStates]
  BY DEF TypeOK
<1>1. ASSUME FrameMoves(f)
      PROVE  fpc[f] \in {"create", "build", "register", "join"} /\ fpc'[f] # "off"
  <2>1. fpc[f] \in {"create", "build", "register", "join"}
    BY <1>1 DEF FrameMoves, DefFails, Create, Build, BuildDynamic, BuildFails, Register, RegisterNull, Join
  <2>2. QED
    BY <1>1, <2>1, FramesStay
<1>2. ASSUME NEW g \in Frames, g # f, FrameMoves(g)
      PROVE  fpc'[f] = fpc[f] /\ fat'[f] = fat[f]
  <2>1. CASE Leaves(g)
    BY <1>0, <1>2, <2>1 DEF Leaves, Leave
  <2>2. CASE Creates(g) \/ Builds(g) \/ Skips(g) \/ Registers(g)
    <3>1. \E loop, next : Advance(g, loop, next)
      BY <2>2 DEF Creates, Builds, Skips, Registers
    <3>2. QED
      BY <1>0, <1>2, <3>1 DEF Advance
  <2>3. CASE BuildsDynamic(g) \/ Crashes(g)
    <3>1. UNCHANGED fat /\ \E p : fpc' = [fpc EXCEPT ![g] = p]
      BY <2>3 DEF BuildsDynamic, Crashes
    <3>2. QED
      BY <1>0, <1>2, <3>1
  <2>4. QED
    BY <1>2, <2>1, <2>2, <2>3, FrameCases
<1>3. ASSUME NEW c \in Cntls, Copy(c)
      PROVE  \/ fpc'[f] = fpc[f] /\ fat'[f] = fat[f]
             \/ f = c /\ fpc[f] = "off" /\ fpc'[f] = "create" /\ fat'[f] = 1
                /\ node'[f] = NextOf(f) /\ cpc[f] = "copy" /\ cpc'[f] = "recall"
  <2>1. fpc[c] = "off" /\ cpc[c] = "copy" /\ c \in Frames
    BY <1>3 DEF Copy, CallInv, ClosuresBegin, Frames
  <2>2. CASE cat[c] < Len(NextList(c))
    BY <1>3, <2>2 DEF Copy, frameVars
  <2>3. CASE ~(cat[c] < Len(NextList(c)))
    <3>1. /\ fpc' = [fpc EXCEPT ![c] = "create"] /\ fat' = [fat EXCEPT ![c] = 1]
          /\ node' = [node EXCEPT ![c] = NextOf(c)] /\ cpc' = [cpc EXCEPT ![c] = "recall"]
      BY <1>3, <2>3 DEF Copy, Stop
    <3>2. QED
      BY <1>0, <2>1, <3>1
  <2>4. QED
    BY <2>2, <2>3
<1>4. \A c \in Cntls : Local(c) => UNCHANGED frameVars
  BY LocalFacts
<1>5. QED
  BY <1>1, <1>2, <1>3, <1>4, StepCases
  DEF Reply, Fail, RunReturns, QuitFlow, QuitDone, Sweep, vars, frameVars

\* A call that is ending ends when its closure has returned; a controller goes to
\* another frame only when its call begins.
LEMMA CallEnds ==
  ASSUME TypeOK, CallInv, [Next]_vars, NEW c \in Cntls
  PROVE  /\ call[c] = "locked" => call'[c] = "locked" \/ RunReturns(c)
         /\ call'[c] = "none" => call[c] = "none" /\ home'[c] = home[c]
<1>0. call \in [Cntls -> {"none", "idle", "flight", "locked", "ended"}] /\ home \in [Cntls -> Frames]
  BY DEF TypeOK
<1>1. ASSUME NEW f \in Frames, FrameMoves(f)
      PROVE  /\ call[c] = "locked" => call'[c] = "locked"
             /\ call'[c] = "none" => home'[c] = home[c]
  <2>0. At(f) \in Services /\ At(f) \in Cntls
    BY AtFacts
  <2>1. CASE Leaves(f)
    BY <1>0, <2>1 DEF Leaves, Leave
  <2>2. CASE Creates(f)
    BY <1>0, <2>0, <2>2 DEF Creates
  <2>3. CASE Builds(f)
    BY <1>0, <2>0, <2>3 DEF Builds, Issued, Unbuilt
  <2>4. CASE BuildsDynamic(f)
    BY <1>0, <2>0, <2>4 DEF BuildsDynamic, Issued, Unbuilt
  <2>5. CASE Skips(f) \/ Registers(f) \/ Crashes(f)
    BY <2>5 DEF Skips, Registers, Crashes
  <2>6. QED
    BY <1>1, <2>1, <2>2, <2>3, <2>4, <2>5, FrameCases
<1>2. ASSUME NEW d \in Cntls, Reply(d) \/ Fail(d) \/ RunReturns(d)
      PROVE  (call[c] = "locked" => call'[c] = "locked" \/ RunReturns(c)) /\ home' = home
  BY <1>0, <1>2 DEF Reply, Fail, RunReturns
<1>3. ASSUME NEW d \in Cntls, NEW x \in Cntls, Sweep(d, x)
      PROVE  (call[c] = "locked" => call'[c] = "locked") /\ home' = home
  <2>1. home' = home /\ (call' = call \/ (call[x] = "flight" /\ call' = [call EXCEPT ![x] = "locked"]))
    BY <1>3 DEF Sweep, StartCancel
  <2>2. QED
    BY <1>0, <2>1
<1>4. (\E d \in Cntls : Local(d) \/ Copy(d) \/ QuitFlow(d) \/ QuitDone(d)) \/ UNCHANGED vars
        => UNCHANGED <<home, call>>
  BY LocalFacts DEF Copy, QuitFlow, QuitDone, brpcVars, vars
<1>5. call'[c] = "none" => call[c] = "none"
  BY CallMoves
<1>6. QED
  BY <1>1, <1>2, <1>3, <1>4, <1>5, StepCases

-----------------------------------------------------------------------------
(* Frames and closures call each other as a tree.                          *)

\* No call is, by way of the frames that own the calls, its own caller.
NotCircular ==
  /\ \A c \in Cntls : call[c] = "none" => home[c] = Root
  /\ \A X \in SUBSET Cntls : (\A c \in X : home[c] \in X) => X = {}

\* Where a closure is when its frame is: before it starts, while it recalls, after it
\* has returned.
Final == {"quiet", "bad", "erred", "done"}
AfterRecall == {"merge", "cancel", "gather", "decide", "sweep", "quit", "done"}
FramesOfClosures ==
  /\ fpc[Root] # "off" /\ node[Root] = Start
  /\ \A c \in Cntls :
       /\ fpc[c] # "off" => node[c] = NextOf(c)
       /\ cpc[c] \in {"quiet", "bad"} => fpc[c] = "off"
       /\ cpc[c] \in AfterRecall => fpc[c] \in {"off", "ok"}
       /\ cpc[c] = "erred" => fpc[c] \in {"off", "err"}
       /\ cpc[c] \notin Final \cup {"check", "parse"} => call[c] = "locked"

\* A service's calls are of one frame, which has created the first of its services
\* before.
CalledInOrder ==
  \A c \in Cntls : call[c] # "none" =>
    home[c] = home[Owner(c)] /\ call[RecallList(NodeOf(c))[1]] # "none"

TreeInv == NotCircular /\ FramesOfClosures /\ CalledInOrder

\* Only a closure whose call has ended has a frame.
LEMMA FramesBegun ==
  ASSUME TypeOK, CallInv, NEW c \in Cntls, fpc[c] # "off"
  PROVE  call[c] \in Begun
  BY DEF CallInv, ClosuresBegin

LEMMA CircularStep ==
  ASSUME TypeOK, CallInv, NotCircular, [Next]_vars
  PROVE  NotCircular'
<1>0. Root \notin Cntls /\ home \in [Cntls -> Frames]
  BY ConfigFacts DEF TypeOK
<1>1. ASSUME NEW X \in SUBSET Cntls, \A c \in X : home'[c] \in X
      PROVE  X = {}
  <2> DEFINE Y == {c \in X : ~(call[c] = "none" /\ call'[c] # "none")}
  <2>1. ASSUME NEW c \in Y
        PROVE  home[c] \in Y
    <3>1. home[c] = home'[c] /\ home[c] \in Cntls
      BY <1>1, <2>1, CallMoves, CallEnds
    <3>2. call[c] # "none"
      BY <1>0, <2>1, <3>1 DEF NotCircular
    <3>3. call[home[c]] \in Begun
      BY <2>1, <3>1, <3>2, FramesBegun DEF CallInv, CallsPlaced
    <3>4. QED
      BY <1>1, <2>1, <3>1, <3>3 DEF Begun
  <2>2. Y = {}
    BY <2>1 DEF NotCircular
  <2>3. ASSUME NEW c \in X PROVE FALSE
    <3>1. call[c] = "none" /\ call'[c] # "none"
      BY <2>2, <2>3
    <3>2. home'[c] \in Cntls /\ fpc[home'[c]] # "off" /\ home'[c] \in X
      BY <1>1, <2>3, <3>1, CallBegins, FrameCases
    <3>3. call[home'[c]] \in Begun
      BY <3>2, FramesBegun
    <3>4. QED
      BY <2>2, <3>2, <3>3 DEF Begun
  <2>4. QED
    BY <2>3
<1>2. QED
  BY <1>1, CallEnds DEF NotCircular

LEMMA ClosureFramesStep ==
  ASSUME TypeOK, CallInv, FramesOfClosures, [Next]_vars
  PROVE  FramesOfClosures'
<1>0. Root \in Frames /\ cpc \in [Cntls -> ClosureStates] /\ Cntls \subseteq Frames
  BY DEF TypeOK, Frames
<1>1. fpc'[Root] # "off" /\ node'[Root] = Start
  BY <1>0, FramesStay DEF FramesOfClosures
<1>2. ASSUME NEW c \in Cntls
      PROVE  /\ fpc'[c] # "off" => node'[c] = NextOf(c)'
             /\ cpc'[c] \in {"quiet", "bad"} => fpc'[c] = "off"
             /\ cpc'[c] \in AfterRecall => fpc'[c] \in {"off", "ok"}
             /\ cpc'[c] = "erred" => fpc'[c] \in {"off", "err"}
             /\ cpc'[c] \notin Final \cup {"check", "parse"} => call'[c] = "locked"
  <2>0. /\ fpc[c] # "off" => node[c] = NextOf(c) /\ call[c] # "none"
        /\ cpc[c] \in {"quiet", "bad"} => fpc[c] = "off"
        /\ cpc[c] \in AfterRecall => fpc[c] \in {"off", "ok"}
        /\ cpc[c] = "erred" => fpc[c] \in {"off", "err"}
        /\ cpc[c] \notin Final \cup {"check", "parse"} => call[c] = "locked"
        /\ cpc[c] \in {"check", "parse", "route", "around", "copy"} => fpc[c] = "off"
        /\ cpc[c] \notin {"check", "parse"} => call[c] \in Begun
    BY FramesBegun DEF FramesOfClosures, CallInv, ClosuresBegin, Begun
  <2>1. fpc'[c] # "off" => node'[c] = NextOf(c)'
    <3>1. CASE fpc[c] # "off"
      BY <1>0, <2>0, <3>1, FramesStay, NodeStays
    <3>2. CASE fpc[c] = "off" /\ fpc'[c] # "off"
      <4>1. node'[c] = NextOf(c) /\ cpc[c] = "copy"
        BY <1>0, <3>2, FrameGoes
      <4>2. NextOf(c)' = NextOf(c)
        BY <2>0, <4>1, NodeStays DEF Begun
      <4>3. QED
        BY <4>1, <4>2
    <3>3. QED
      BY <3>1, <3>2
  <2>2. CASE cpc'[c] = cpc[c]
    <3>1. cpc[c] \in Final \cup AfterRecall => fpc'[c] = fpc[c]
      <4>1. cpc[c] \in Final \cup AfterRecall => fpc[c] \in {"off", "ok", "err"}
        BY <2>0 DEF Final, AfterRecall
      <4>2. QED
        BY <1>0, <2>2, <4>1, FrameGoes
    <3>2. cpc[c] \notin Final => ~RunReturns(c)
      BY DEF RunReturns, Final
    <3>3. QED
      BY <2>0, <2>1, <2>2, <3>1, <3>2, CallEnds DEF Final, AfterRecall
  <2>3. CASE cpc'[c] # cpc[c]
    <3>1. cpc'[c] # "recall" => fpc'[c] = fpc[c]
      <4>1. cpc[c] # "recall" => fpc[c] \in {"off", "ok"}
        BY <2>0, <2>3, ClosureMoves DEF AfterRecall
      <4>2. cpc[c] = "recall" => fpc[c] \in {"ok", "err"}
        BY <2>3, ClosureMoves
      <4>3. QED
        BY <1>0, <4>1, <4>2, FrameGoes
    <3>2. cpc[c] \notin Final /\ call[c] = "locked"
      BY <2>0, <2>3, ClosureMoves DEF Final
    <3>3. call'[c] = "locked"
      BY <3>2, CallEnds DEF RunReturns, Final
    <3>4. QED
      BY <2>0, <2>1, <2>3, <3>1, <3>3, ClosureMoves DEF AfterRecall, Final
  <2>4. QED
    BY <2>2, <2>3
<1>3. QED
  BY <1>1, <1>2 DEF FramesOfClosures

LEMMA OrderStep ==
  ASSUME TypeOK, CallInv, CalledInOrder, [Next]_vars
  PROVE  CalledInOrder'
<1> SUFFICES ASSUME NEW c \in Cntls, call'[c] # "none"
             PROVE  home'[c] = home'[Owner(c)] /\ call'[RecallList(NodeOf(c))'[1]] # "none"
  BY DEF CalledInOrder, Owner
<1>0. /\ Owner(c) \in Cntls /\ home \in [Cntls -> Frames] /\ setup \in Setups
      /\ \A n \in DOMAIN Flow : RecallList(n)[1] \in Cntls /\ 1 \in DOMAIN RecallList(n)
  BY OwnerFacts, ListFacts DEF TypeOK
<1>1. CASE call[c] # "none"
  <2>1. call[Owner(c)] # "none" /\ home[c] = home[Owner(c)] /\ call[RecallList(NodeOf(c))[1]] # "none"
    BY <1>1 DEF CalledInOrder, CallInv, CallsPlaced
  <2>2. home'[c] = home'[Owner(c)]
    BY <1>0, <1>1, <2>1, CallMoves
  <2>3. RecallList(NodeOf(c))' = RecallList(NodeOf(c)) /\ NodeOf(c) \in DOMAIN Flow
    BY <1>1, NodeStays DEF RecallList
  <2>4. call'[RecallList(NodeOf(c))[1]] # "none"
    BY <1>0, <2>1, <2>3, CallEnds
  <2>5. QED
    BY <2>2, <2>3, <2>4
<1>2. CASE call[c] = "none"
  <2>1. PICK f \in Frames : /\ FrameMoves(f) /\ home'[c] = f /\ Owner(c) = At(f)
                            /\ \/ Creates(f) /\ c = At(f)
                               \/ BuildsDynamic(f) /\ c \in Subs
    BY <1>2, CallBegins
  <2>2. /\ UNCHANGED <<setup, node>> /\ node[f] \in DOMAIN Flow /\ fat[f] \in 1..Len(RecallList(node[f]))
        /\ At(f) \in Cntls /\ DOMAIN RecallList(node[f]) = 1..Len(RecallList(node[f]))
    BY <2>1, AtFacts, FrameCases, ListFacts DEF TypeOK
  <2>3. RecallList(NodeOf(c))' = RecallList(node[f])
    BY <2>1, <2>2 DEF NodeOf, RecallList, Flow
  <2>4. CASE Creates(f) /\ c = At(f)
    <3>1. home'[c] = home'[Owner(c)]
      BY <2>1, <2>4
    <3>2. CASE fat[f] = 1
      <4>1. c = RecallList(node[f])[1]
        BY <2>4, <3>2 DEF At
      <4>2. QED
        BY <2>3, <3>1, <4>1
    <3>3. CASE fat[f] # 1
      <4>1. Ahead(f, 1) /\ 1 \in DOMAIN RecallList(node[f])
        BY <2>2, <2>4, <3>3, ListFacts DEF Ahead, Creates
      <4>2. call[RecallList(node[f])[1]] = "idle"
        BY <4>1 DEF CallInv, CreatedAhead, Unbuilt
      <4>3. QED
        BY <1>0, <2>2, <2>3, <3>1, <4>2, CallEnds
    <3>4. QED
      BY <3>2, <3>3, <3>1
  <2>5. CASE BuildsDynamic(f) /\ c \in Subs
    <3>1. home[At(f)] = f /\ call[At(f)] = "idle"
      BY <2>5 DEF BuildsDynamic, Unbuilt
    <3>2. home'[At(f)] = f
      BY <2>2, <3>1, CallMoves
    <3>3. call[RecallList(node[f])[1]] # "none"
      BY <2>2, <3>1 DEF CalledInOrder, NodeOf
    <3>4. QED
      BY <1>0, <2>1, <2>2, <2>3, <3>2, <3>3, CallEnds
  <2>6. QED
    BY <2>1, <2>4, <2>5
<1>3. QED
  BY <1>1, <1>2

LEMMA TreeInit == Init => TreeInv
<1> SUFFICES ASSUME Init PROVE TreeInv
  OBVIOUS
<1>0. Root \notin Cntls /\ Root \in Frames /\ Cntls \subseteq Frames
  BY ConfigFacts DEF Init, Frames
<1>1. NotCircular
  BY <1>0 DEF Init, NotCircular
<1>2. FramesOfClosures
  BY <1>0 DEF Init, FramesOfClosures, Final, AfterRecall
<1>3. CalledInOrder
  BY DEF Init, CalledInOrder
<1>4. QED
  BY <1>1, <1>2, <1>3 DEF TreeInv

LEMMA TreeStep ==
  ASSUME TypeOK, CallInv, TreeInv, [Next]_vars
  PROVE  TreeInv'
  BY CircularStep, ClosureFramesStep, OrderStep DEF TreeInv

\* When the serving thread's recall has returned nothing runs any more, if nothing is
\* late: what runs would be of a frame that a running closure waits for.
LEMMA NothingRuns ==
  ASSUME FramesInv, TreeInv, Timely, fpc[Root] \in {"ok", "err"}
  PROVE  \A c \in Cntls : call[c] \notin Running
<1> DEFINE X == {c \in Cntls : call[c] \in Running}
<1>0. TypeOK /\ CallInv /\ CallsInFrames /\ home \in [Cntls -> Frames] /\ cpc \in [Cntls -> ClosureStates]
  BY DEF FramesInv, LatchInv, TypeOK
<1>1. ASSUME NEW c \in X
      PROVE  home[c] \in X
  <2>1. fpc[home[c]] \notin {"create", "ok", "err", "off"} /\ home[c] \in Cntls
    BY <1>0, <1>1 DEF CallsInFrames, CallInv, CallsPlaced, Frames, Running
  <2>2. cpc[home[c]] = "recall"
    BY <1>0, <2>1 DEF TreeInv, FramesOfClosures, CallInv, ClosuresBegin, ClosureStates, AfterRecall
  <2>3. QED
    BY <2>1, <2>2 DEF TreeInv, FramesOfClosures, Final, Running
<1>2. QED
  BY <1>1 DEF TreeInv, NotCircular

-----------------------------------------------------------------------------
(* The policies for which answers are kept.                                *)

\* The services a node may recall.
Served(p, n) ==
  {s \in Services : \/ s = p.flow[n].intervene
                    \/ \E i \in DOMAIN p.flow[n].recall : p.flow[n].recall[i] = s}

\* No service is of two nodes.
ServicesApart(p) ==
  \A m, n \in DOMAIN p.flow : Served(p, m) \cap Served(p, n) # {} => m = n

\* A node that a service leads to recalls what it is configured with.
LedPlain(p) ==
  \A n \in DOMAIN p.flow, s \in Services :
    p.flow[n].next[s] \in DOMAIN p.flow => p.flow[p.flow[n].next[s]].intervene = 0

\* No service leads to a node.
OneNode(p) == \A n \in DOMAIN p.flow, s \in Services : p.flow[n].next[s] \notin DOMAIN p.flow

\* What a frame recalls is served by its node, and so is what a closure copies to.
LEMMA ServedFacts ==
  ASSUME setup \in Setups, NEW n \in DOMAIN Flow
  PROVE  /\ \A i \in DOMAIN RecallList(n) : RecallList(n)[i] \in Served(setup, n)
         /\ \A i \in DOMAIN Flow[n].recall : Flow[n].recall[i] \in Served(setup, n)
<1>1. /\ DOMAIN RecallList(n) = 1..Len(RecallList(n))
      /\ \A i \in 1..Len(RecallList(n)) : RecallList(n)[i] \in Services
  BY ListFacts
<1>2. /\ DOMAIN Flow[n].recall = 1..Len(Flow[n].recall)
      /\ \A i \in 1..Len(Flow[n].recall) : Flow[n].recall[i] \in Services
  BY ConfigFacts, ListFacts DEF NodeConfigs
<1>3. ASSUME NEW i \in DOMAIN RecallList(n)
      PROVE  RecallList(n)[i] \in Served(setup, n)
  <2>1. CASE Flow[n].intervene = 0
    <3>1. RecallList(n) = Flow[n].recall
      BY <2>1 DEF RecallList
    <3>2. QED
      BY <1>2, <1>3, <3>1 DEF Served, Flow
  <2>2. CASE Flow[n].intervene # 0
    <3>1. RecallList(n) = <<Flow[n].intervene>>
      BY <2>2 DEF RecallList
    <3>2. RecallList(n)[i] = Flow[n].intervene
      BY <1>3, <3>1
    <3>3. QED
      BY <1>1, <1>3, <3>2 DEF Served, Flow
  <2>3. QED
    BY <2>1, <2>2
<1>4. QED
  BY <1>2, <1>3 DEF Served, Flow

-----------------------------------------------------------------------------
(* Closures that give up.                                                  *)

\* A closure that has given up, or cannot but: another frame has the first service of the
\* node it is to recall.
Doomed(e) ==
  \/ cpc[e] = "erred"
  \/ /\ cpc[e] \in {"copy", "recall"}
     /\ \/ fpc[e] = "err"
        \/ /\ fpc[e] = "off" \/ (fpc[e] = "create" /\ fat[e] = 1)
           /\ call[RecallList(NextOf(e))[1]] # "none"
           /\ home[RecallList(NextOf(e))[1]] # e
NoneDoomed == \A e \in Cntls : ~Doomed(e)

\* It does give up: the ids, or the one controller of the service, see to it.
LEMMA DoomStays ==
  ASSUME TypeOK, CallInv, LoopsInside, TreeInv, [Next]_vars, NEW e \in Cntls, Doomed(e)
  PROVE  Doomed(e)'
<1>0. /\ e \in Frames /\ fpc \in [Frames -> FrameStates] /\ setup \in Setups
      /\ node[e] \in DOMAIN Flow /\ Root \notin Cntls
  BY ConfigFacts DEF TypeOK, Frames
<1>1. CASE cpc[e] = "erred"
  BY <1>1, ClosureMoves DEF Doomed
<1>2. ASSUME cpc[e] \in {"copy", "recall"}, ~(cpc[e] = "erred")
      PROVE  Doomed(e)'
  <2> DEFINE first == RecallList(NextOf(e))[1]
  <2>1. call[e] # "none" /\ NextOf(e) \in DOMAIN Flow /\ (cpc[e] = "copy" => fpc[e] = "off")
    BY <1>2 DEF CallInv, ClosuresBegin, LoopsInside, Begun
  <2>2. first' = first /\ first \in Services /\ first \in Cntls
    <3>1. NextOf(e)' = NextOf(e) /\ Flow' = Flow
      BY <2>1, NodeStays
    <3>2. first' = first
      BY <3>1 DEF RecallList
    <3>3. QED
      BY <1>0, <2>1, <3>2, ListFacts DEF Cntls
  <2>3. CASE fpc[e] = "err"
    <3>1. cpc[e] = "recall" /\ fpc'[e] = "err"
      BY <1>0, <1>2, <2>1, <2>3, FrameGoes
    <3>2. cpc'[e] \in {"recall", "erred"}
      BY <2>3, <3>1, ClosureMoves
    <3>3. QED
      BY <3>1, <3>2 DEF Doomed
  <2>4. CASE /\ fpc[e] = "off" \/ (fpc[e] = "create" /\ fat[e] = 1)
             /\ call[first] # "none" /\ home[first] # e
    <3>1. call'[first] # "none" /\ home'[first] # e
      BY <2>2, <2>4, CallEnds, CallMoves
    <3>2. cpc'[e] \in {"copy", "recall"}
      BY <1>2, <2>4, ClosureMoves
    <3>3. CASE FrameMoves(e) /\ fpc[e] = "create"
      <4>1. At(e) = first /\ fat[e] = 1
        BY <2>4, <3>3 DEF At, TreeInv, FramesOfClosures
      <4>2. HasIds => first \in reg
        BY <2>2, <2>4 DEF CallInv, IdsOfCalls
      <4>3. Leave(e, "err")
        BY <2>4, <3>3, <4>1, <4>2
        DEF FrameMoves, DefFails, Create, SetCallId, Build, BuildDynamic, BuildFails, Register,
            RegisterNull, Join
      <4>4. fpc'[e] = "err"
        BY <1>0, <4>3 DEF Leave
      <4>5. QED
        BY <3>2, <4>4 DEF Doomed
    <3>4. CASE ~(FrameMoves(e) /\ fpc[e] = "create")
      <4>1. fpc'[e] = "off" \/ (fpc'[e] = "create" /\ fat'[e] = 1)
        BY <1>0, <2>4, <3>4, FrameGoes
      <4>2. QED
        BY <2>2, <3>1, <3>2, <4>1 DEF Doomed
    <3>5. QED
      BY <3>3, <3>4
  <2>5. QED
    BY <1>2, <2>3, <2>4 DEF Doomed
<1>3. QED
  BY <1>1, <1>2 DEF Doomed

\* To copy over the context of a service that has been called is to give up.
LEMMA CopyDooms ==
  ASSUME TypeOK, CallInv, LoopsInside, TreeInv, ServicesApart(setup), NEW e \in Cntls,
         cpc[e] = "copy", NEW i \in DOMAIN NextList(e), call[NextList(e)[i]] # "none"
  PROVE  Doomed(e)
<1> DEFINE t == NextList(e)[i]
           first == RecallList(NextOf(e))[1]
<1>0. setup \in Setups /\ NextOf(e) \in DOMAIN Flow /\ fpc[e] = "off"
  BY DEF TypeOK, LoopsInside, CallInv, ClosuresBegin
<1>1. t \in Served(setup, NextOf(e)) /\ t \in Services
  BY <1>0, ServedFacts DEF NextList, Served
<1>2. t \in Cntls /\ Owner(t) = t
  BY <1>0, <1>1, OwnerFacts
<1>3. NodeOf(t) \in DOMAIN Flow /\ t \in Served(setup, NodeOf(t))
  <2>1. NodeOf(t) \in DOMAIN Flow
    BY <1>2 DEF TypeOK, NodeOf
  <2>2. \E j \in DOMAIN RecallList(NodeOf(t)) : RecallList(NodeOf(t))[j] = t
    BY <1>2 DEF CallInv, CallsPlaced, NodeOf
  <2>3. QED
    BY <1>0, <2>1, <2>2, ServedFacts
<1>4. NodeOf(t) = NextOf(e)
  BY <1>0, <1>1, <1>3 DEF ServicesApart, Flow
<1>5. call[first] # "none"
  BY <1>2, <1>4 DEF TreeInv, CalledInOrder
<1>6. home[first] # e
  <2>1. first \in Cntls
    BY <1>0, ListFacts DEF Cntls
  <2>2. QED
    BY <1>0, <1>5, <2>1 DEF CallInv, CallsPlaced
<1>7. QED
  BY <1>0, <1>5, <1>6 DEF Doomed

-----------------------------------------------------------------------------
(* Where an answer is.                                                     *)

\* Closure d has merged the context of service t.
MergedPast(d, t) ==
  \/ cpc[d] \in AfterRecall \ {"merge"}
  \/ cpc[d] = "merge" /\ \A i \in DOMAIN NextList(d) : i >= cat[d] => NextList(d)[i] # t

\* An answer is in the context of its service, and what is in there is in the context of
\* the closure that has merged it.
InOwnContext == \A c \in Cntls : Parsed(c) => Owner(c) \in ctx[Owner(c)]
MergedIsIn ==
  \A c, d \in Cntls :
    call[c] # "none" /\ home[c] = d /\ MergedPast(d, Owner(c)) => ctx[Owner(c)] \subseteq ctx[Owner(d)]

AnswersKept ==
  NoneDoomed => /\ InOwnContext
                /\ Timely /\ LedPlain(setup) => MergedIsIn

\* A context changes when a closure of its service parses or merges, or when one copies
\* another over it.
LEMMA ContextMoves ==
  ASSUME TypeOK, CallInv, LoopsInside, [Next]_vars, NEW s \in Services
  PROVE  \/ ctx'[s] = ctx[s]
         \/ \E c \in Cntls : /\ Owner(c) = s /\ ctx[s] \subseteq ctx'[s] /\ call[c] # "none"
                             /\ cpc[c] = "merge" \/ call[c] = "locked"
         \/ \E e \in Cntls : cpc[e] = "copy" /\ \E i \in DOMAIN NextList(e) : NextList(e)[i] = s
<1>0. ctx \in [Services -> SUBSET Services] /\ \A c \in Cntls : Owner(c) \in Services
  BY OwnerFacts DEF TypeOK
<1>1. ASSUME NEW c \in Cntls, Local(c), ctx' # ctx
      PROVE  \/ ctx'[s] = ctx[s]
             \/ Owner(c) = s /\ ctx[s] \subseteq ctx'[s] /\ (cpc[c] = "merge" \/ call[c] = "locked")
  <2>1. \/ call[c] = "locked" /\ ctx' = [ctx EXCEPT ![Owner(c)] = @ \cup {Owner(c)}]
        \/ cpc[c] = "merge" /\ ctx' = [ctx EXCEPT ![Owner(c)] = @ \cup ctx[NextList(c)[cat[c]]]]
    BY <1>1 DEF Local, Check, Parse, Route, Recalled, Merge, Cancel, Gather, GoOn, Swept
  <2>2. QED
    BY <1>0, <2>1
<1>2. ASSUME NEW c \in Cntls, Copy(c)
      PROVE  \/ ctx'[s] = ctx[s]
             \/ cpc[c] = "copy" /\ \E i \in DOMAIN NextList(c) : NextList(c)[i] = s
  <2>1. cpc[c] = "copy" /\ ctx' = [ctx EXCEPT ![NextList(c)[cat[c]]] = ctx[Owner(c)]]
    BY <1>2 DEF Copy
  <2>2. cat[c] \in DOMAIN NextList(c)
    <3>1. NextOf(c) \in DOMAIN Flow /\ cat[c] \in 1..Len(NextList(c)) /\ NextList(c) \in Seq(Services)
      BY <2>1, ConfigFacts DEF LoopsInside, NextList, TypeOK, NodeConfigs
    <3>2. QED
      BY <3>1
  <2>3. QED
    BY <1>0, <2>1, <2>2
<1>3. \A c \in Cntls : cpc[c] = "merge" \/ call[c] = "locked" => call[c] # "none"
  BY DEF CallInv, ClosuresBegin, Begun
<1>4. (\E f \in Frames : FrameMoves(f)) => UNCHANGED ctx
  BY FrameCases
<1>5. QED
  BY <1>1, <1>2, <1>3, <1>4, StepCases
  DEF Reply, Fail, RunReturns, QuitFlow, QuitDone, Sweep, vars

\* The context of a service that is called is never copied over, unless a closure gives up.
LEMMA ContextGrows ==
  ASSUME TypeOK, CallInv, LoopsInside, TreeInv, ServicesApart(setup), NoneDoomed, [Next]_vars,
         NEW s \in Services, call[s] # "none"
  PROVE  ctx[s] \subseteq ctx'[s]
BY ContextMoves, CopyDooms DEF NoneDoomed

LEMMA NoneDoomedBefore ==
  ASSUME TypeOK, CallInv, LoopsInside, TreeInv, [Next]_vars, NoneDoomed'
  PROVE  NoneDoomed
BY DoomStays DEF NoneDoomed

LEMMA OwnContextStep ==
  ASSUME TypeOK, CallInv, LoopsInside, TreeInv, ServicesApart(setup), NoneDoomed, InOwnContext,
         [Next]_vars
  PROVE  InOwnContext'
<1> SUFFICES ASSUME NEW c \in Cntls, Parsed(c)'
             PROVE  Owner(c) \in ctx'[Owner(c)]
  BY DEF InOwnContext, Owner
<1>0. Owner(c) \in Services /\ ctx \in [Services -> SUBSET Services] /\ cpc \in [Cntls -> ClosureStates]
  BY OwnerFacts DEF TypeOK
<1>1. CASE Parsed(c)
  <2>1. call[Owner(c)] # "none"
    BY <1>1 DEF Parsed, CallInv, ClosuresBegin, CallsPlaced, Begun
  <2>2. QED
    BY <1>0, <1>1, <2>1, ContextGrows DEF InOwnContext
<1>2. CASE ~Parsed(c)
  <2>1. Parse(c) /\ cpc'[c] \notin {"quiet", "bad"}
    BY <1>2, ParsedStays DEF Parsed
  <2>2. ctx' = [ctx EXCEPT ![Owner(c)] = @ \cup {Owner(c)}]
    BY <1>0, <2>1 DEF Parse, Stop
  <2>3. QED
    BY <1>0, <2>2
<1>3. QED
  BY <1>1, <1>2

\* When a closure has merged, nothing adds to the contexts it has merged.
LEMMA MergedIsStill ==
  ASSUME TypeOK, CallInv, LoopsInside, TreeInv, ServicesApart(setup), NoneDoomed, CallsInFrames,
         [Next]_vars, NEW c \in Cntls, call[c] # "none", home[c] \in Cntls,
         cpc[home[c]] \in AfterRecall
  PROVE  ctx'[Owner(c)] = ctx[Owner(c)]
<1>0. Owner(c) \in Services /\ Owner(c) \in Cntls /\ Owner(Owner(c)) = Owner(c) /\ call[Owner(c)] # "none"
  BY OwnerFacts DEF TypeOK, CallInv, CallsPlaced
<1>1. fpc[home[c]] = "ok"
  BY DEF TreeInv, FramesOfClosures, CallInv, CallsPlaced
<1>2. ASSUME NEW x \in Cntls, Owner(x) = Owner(c), call[x] # "none", cpc[x] = "merge" \/ call[x] = "locked"
      PROVE  FALSE
  <2>1. home[x] = home[c]
    BY <1>2 DEF TreeInv, CalledInOrder
  <2>2. call[x] = "locked"
    BY <1>2 DEF TreeInv, FramesOfClosures, Final
  <2>3. QED
    BY <1>1, <2>1, <2>2 DEF CallsInFrames, Running
<1>3. QED
  BY <1>0, <1>2, ContextMoves, CopyDooms DEF NoneDoomed

\* What a closure has merged after a step and had not before it merges with that step.
LEMMA MergesNow ==
  ASSUME TypeOK, CallInv, LoopsInside, TreeInv, LedPlain(setup), [Next]_vars,
         NEW c \in Cntls, NEW d \in Cntls, call[c] # "none", home[c] = d,
         MergedPast(d, Owner(c))', ~MergedPast(d, Owner(c))
  PROVE  /\ cpc[d] = "merge"
         /\ ctx' = [ctx EXCEPT ![Owner(d)] = @ \cup ctx[Owner(c)]]
<1>0. /\ cpc \in [Cntls -> ClosureStates] /\ cat \in [Cntls -> Nat]
      /\ cpc[d] \notin {"check", "parse", "route", "around", "copy"}
      /\ call[d] # "none" /\ fpc[d] # "off" /\ setup \in Setups
  <2>1. fpc[d] # "off"
    BY DEF CallInv, CallsPlaced
  <2>2. QED
    BY <2>1, FramesBegun DEF TypeOK, CallInv, ClosuresBegin, Begun
<1>1. NextList(d)' = NextList(d)
  BY <1>0, NodeStays
<1>2. CASE cpc[d] = "recall"
  <2>1. NextOf(d) \in DOMAIN Flow /\ cat[d] = 1
    BY <1>2 DEF LoopsInside
  <2>2. NextList(d) = RecallList(node[d]) /\ DOMAIN NextList(d) = 1..Len(NextList(d))
    <3>1. node[d] = NextOf(d)
      BY <1>0 DEF TreeInv, FramesOfClosures
    <3>2. NodeOf(d) \in DOMAIN Flow /\ Owner(d) \in Services
      BY <1>0, OwnerFacts DEF TypeOK, NodeOf
    <3>3. Flow[NextOf(d)].intervene = 0
      BY <2>1, <3>2 DEF LedPlain, NextOf, Flow
    <3>4. QED
      BY <1>0, <2>1, <3>1, <3>3, ListFacts DEF NextList, RecallList
  <2>3. cpc'[d] = "merge" /\ cat'[d] = 1
    <3>1. cpc'[d] # "recall"
      BY <1>2 DEF MergedPast, AfterRecall
    <3>2. Recalled(d) /\ cpc'[d] = "merge"
      BY <1>2, <3>1, ClosureMoves DEF MergedPast, AfterRecall
    <3>3. QED
      BY <2>1, <3>2 DEF Recalled
  <2>4. PICK i \in DOMAIN NextList(d) : NextList(d)[i] = Owner(c)
    BY <2>2 DEF CallInv, CallsPlaced
  <2>5. QED
    BY <1>1, <2>2, <2>3, <2>4 DEF MergedPast, AfterRecall, Owner
<1>3. CASE cpc[d] = "merge"
  <2>1. PICK i \in DOMAIN NextList(d) : i >= cat[d] /\ NextList(d)[i] = Owner(c)
    BY <1>3 DEF MergedPast
  <2>2. /\ NextOf(d) \in DOMAIN Flow /\ cat[d] \in 1..Len(NextList(d))
        /\ DOMAIN NextList(d) = 1..Len(NextList(d)) /\ Len(NextList(d)) \in Nat
    <3>1. NextOf(d) \in DOMAIN Flow /\ NextList(d) \in Seq(Services)
      BY <1>0, <1>3, ConfigFacts DEF LoopsInside, NextList, NodeConfigs
    <3>2. QED
      BY <1>3, <3>1 DEF LoopsInside
  <2>3. Merge(d)
    <3>1. ~(cpc'[d] = cpc[d] /\ cat'[d] = cat[d])
      BY <1>1, <1>3 DEF MergedPast, Owner
    <3>2. Local(d) \/ Copy(d) \/ QuitFlow(d) \/ QuitDone(d)
      BY <3>1, ClosureStays
    <3>3. QED
      BY <1>3, <3>2
      DEF Local, Check, Parse, Route, Copy, Recalled, Cancel, Gather, GoOn, Swept, QuitFlow, QuitDone
  <2>4. i = cat[d]
    <3>1. CASE cat[d] < Len(NextList(d))
      <4>1. cpc'[d] = "merge" /\ cat'[d] = cat[d] + 1
        BY <1>0, <1>3, <2>3, <3>1 DEF Merge
      <4>2. ~(i >= cat'[d])
        BY <1>1, <2>1, <4>1 DEF MergedPast, AfterRecall, Owner
      <4>3. QED
        BY <2>1, <2>2, <4>1, <4>2
    <3>2. CASE ~(cat[d] < Len(NextList(d)))
      BY <2>1, <2>2, <3>2
    <3>3. QED
      BY <3>1, <3>2
  <2>5. QED
    BY <1>3, <2>1, <2>3, <2>4 DEF Merge
<1>4. CASE cpc[d] \notin {"recall", "merge"}
  <2>1. cpc[d] \in Final
    BY <1>0, <1>4 DEF MergedPast, AfterRecall, Final, ClosureStates
  <2>2. cpc'[d] = cpc[d]
    BY <2>1, ClosureMoves DEF Final
  <2>3. QED
    BY <1>4, <2>1, <2>2 DEF MergedPast
<1>5. QED
  BY <1>2, <1>3, <1>4

LEMMA MergedStep ==
  ASSUME TypeOK, CallInv, LoopsInside, TreeInv, ServicesApart(setup), LedPlain(setup), NoneDoomed,
         CallsInFrames, MergedIsIn, [Next]_vars
  PROVE  MergedIsIn'
<1> SUFFICES ASSUME NEW c \in Cntls, NEW d \in Cntls, call'[c] # "none", home'[c] = d,
                    MergedPast(d, Owner(c))'
             PROVE  ctx'[Owner(c)] \subseteq ctx'[Owner(d)]
  BY DEF MergedIsIn, Owner
<1>0. /\ ctx \in [Services -> SUBSET Services] /\ Owner(c) \in Services /\ Owner(d) \in Services
      /\ d \in Frames
  BY OwnerFacts DEF TypeOK, Frames
<1>1. CASE call[c] = "none"
  <2>1. FrameMoves(d)
    BY <1>1, CallBegins
  <2>2. cpc'[d] = cpc[d] /\ fpc[d] \in {"create", "build", "register", "join"}
    BY <1>0, <2>1, FrameCases
    DEF closureVars, FrameMoves, DefFails, Create, Build, BuildDynamic, BuildFails, Register,
        RegisterNull, Join
  <2>3. QED
    BY <2>2 DEF TreeInv, FramesOfClosures, MergedPast, AfterRecall
<1>2. CASE call[c] # "none"
  <2>1. home[c] = d
    BY <1>2, CallMoves
  <2>2. CASE MergedPast(d, Owner(c))
    <3>1. cpc[d] \in AfterRecall
      BY <2>2 DEF MergedPast, AfterRecall
    <3>2. ctx'[Owner(c)] = ctx[Owner(c)]
      BY <1>2, <2>1, <3>1, MergedIsStill
    <3>3. call[Owner(d)] # "none"
      BY <3>1 DEF CallInv, ClosuresBegin, CallsPlaced, Begun, AfterRecall
    <3>4. ctx[Owner(d)] \subseteq ctx'[Owner(d)]
      BY <1>0, <3>3, ContextGrows
    <3>5. QED
      BY <1>2, <2>1, <2>2, <3>2, <3>4 DEF MergedIsIn
  <2>3. CASE ~MergedPast(d, Owner(c))
    <3>1. ctx' = [ctx EXCEPT ![Owner(d)] = @ \cup ctx[Owner(c)]]
      BY <1>2, <2>1, <2>3, MergesNow
    <3>2. QED
      BY <1>0, <3>1
  <2>4. QED
    BY <2>2, <2>3
<1>3. QED
  BY <1>1, <1>2

LEMMA KeptStep ==
  ASSUME FramesInv, TreeInv, ServicesApart(setup), AnswersKept, [Next]_vars
  PROVE  AnswersKept'
<1> SUFFICES ASSUME NoneDoomed'
             PROVE  InOwnContext' /\ (Timely' /\ LedPlain(setup)' => MergedIsIn')
  BY DEF AnswersKept
<1>0. TypeOK /\ CallInv /\ LoopsInside /\ (Timely => CallsInFrames)
  BY DEF FramesInv, LatchInv
<1>1. NoneDoomed
  BY <1>0, NoneDoomedBefore
<1>2. (Timely' => Timely) /\ UNCHANGED setup
  BY <1>0, ReadyStays, SetupStays
<1>3. LedPlain(setup)' <=> LedPlain(setup)
  BY <1>2 DEF LedPlain
<1>4. QED
  BY <1>0, <1>1, <1>2, <1>3, OwnContextStep, MergedStep DEF AnswersKept

\* What is assumed of the policies: no service is of two nodes, and either no service
\* leads to a node, or the nodes led to recall what they are configured with and no
\* dynamic service can be late for a quit.
KeepsAnswers(p) == ServicesApart(p) /\ (OneNode(p) \/ (NeverLate(p) /\ LedPlain(p)))
AnswersAreKept == \A p \in Setups : KeepsAnswers(p)

KeptInv == FramesInv /\ OnlyByCondition /\ TreeInv /\ AnswersKept

LEMMA KeptInvariant ==
  ASSUME AnswersAreKept
  PROVE  Spec => []KeptInv
<1>1. Init => KeptInv
  <2>1. Init => InOwnContext /\ MergedIsIn
    BY DEF Init, InOwnContext, MergedIsIn, Parsed
  <2>2. QED
    BY <2>1, FramesInvariant, TreeInit DEF KeptInv, AnswersKept, Init, OnlyByCondition
<1>2. KeptInv /\ [Next]_vars => KeptInv'
  <2>1. KeptInv => TypeOK /\ CallInv /\ ServicesApart(setup)
    BY DEF KeptInv, FramesInv, LatchInv, TypeOK, AnswersAreKept, KeepsAnswers
  <2>2. QED
    BY <2>1, FramesInvariant, TreeStep, QuitStep, KeptStep DEF KeptInv
<1>3. QED
  BY <1>1, <1>2, PTL DEF Spec

\* Where no service leads to a node no closure has a frame.
LEMMA NoFrameNested ==
  ASSUME TypeOK, CallInv, LoopsInside, TreeInv, OneNode(setup), NEW c \in Cntls
  PROVE  /\ fpc[c] = "off" /\ cpc[c] \notin {"copy", "recall"}
         /\ call[c] # "none" => home[c] = Root
<1>1. ASSUME NEW d \in Cntls
      PROVE  NextOf(d) \notin DOMAIN Flow
  <2>1. NodeOf(d) \in DOMAIN Flow /\ Owner(d) \in Services
    BY OwnerFacts DEF TypeOK, NodeOf
  <2>2. QED
    BY <2>1 DEF OneNode, NextOf, Flow
<1>2. ASSUME NEW d \in Cntls
      PROVE  fpc[d] = "off"
  <2>1. d \in Frames /\ node[d] \in DOMAIN Flow
    BY DEF TypeOK, Frames
  <2>2. QED
    BY <1>1, <2>1 DEF TreeInv, FramesOfClosures
<1>3. call[c] # "none" => home[c] = Root
  BY <1>2 DEF CallInv, CallsPlaced, TypeOK, Frames
<1>4. QED
  BY <1>1, <1>2, <1>3 DEF LoopsInside

\* When the recall has returned and no closure gave up, none was going to.
LEMMA NoneWasDoomed ==
  ASSUME FramesInv, TreeInv, OneNode(setup) \/ Timely, fpc[Root] = "ok", NoneErred
  PROVE  NoneDoomed
<1>0. TypeOK /\ CallInv /\ LoopsInside
  BY DEF FramesInv, LatchInv
<1>1. SUFFICES ASSUME NEW e \in Cntls, cpc[e] \in {"copy", "recall"}
               PROVE  FALSE
  BY DEF NoneDoomed, Doomed, NoneErred
<1>2. CASE OneNode(setup)
  BY <1>0, <1>1, <1>2, NoFrameNested
<1>3. CASE Timely
  BY <1>1, <1>3, NothingRuns DEF TreeInv, FramesOfClosures, Final, Running
<1>4. QED
  BY <1>2, <1>3

\* What one service's context holds of a recall that has returned, some service's that
\* the serving thread recalled holds too.
LEMMA ReachesRoot ==
  ASSUME FramesInv, TreeInv, Timely, LedPlain(setup), AnswersKept, fpc[Root] = "ok", NoneErred,
         NEW c \in Cntls, call[c] # "none", NEW s \in ctx[Owner(c)]
  PROVE  \E d \in Cntls : call[d] # "none" /\ home[d] = Root /\ s \in ctx[Owner(d)]
<1> DEFINE X == {d \in Cntls : call[d] # "none" /\ s \in ctx[Owner(d)]}
<1>0. TypeOK /\ CallInv /\ MergedIsIn
  BY NoneWasDoomed DEF FramesInv, LatchInv, AnswersKept
<1>1. SUFFICES ASSUME \A d \in X : home[d] # Root
               PROVE  FALSE
  OBVIOUS
<1>2. ASSUME NEW d \in X
      PROVE  home[d] \in X
  <2>1. home[d] \in Cntls /\ fpc[home[d]] # "off"
    BY <1>0, <1>1, <1>2 DEF TypeOK, Frames, CallInv, CallsPlaced
  <2>2. call[home[d]] \in Begun /\ call[home[d]] # "locked"
    BY <1>0, <2>1, FramesBegun, NothingRuns DEF Running
  <2>3. cpc[home[d]] \in Final
    BY <1>0, <2>1, <2>2 DEF TreeInv, FramesOfClosures, CallInv, ClosuresBegin
  <2>4. cpc[home[d]] = "done"
    BY <2>1, <2>3 DEF TreeInv, FramesOfClosures, Final, NoneErred
  <2>5. ctx[Owner(d)] \subseteq ctx[Owner(home[d])]
    BY <1>0, <1>2, <2>1, <2>4 DEF MergedIsIn, MergedPast, AfterRecall
  <2>6. QED
    BY <1>2, <2>1, <2>2, <2>5 DEF Begun
<1>3. c \notin X
  BY <1>2 DEF TreeInv, NotCircular
<1>4. QED
  BY <1>3

\* Every answer that is received and parsed reaches the flow's context, from whatever node
\* it was recalled in, unless a closure gave up (GlobalClosure::Run merges the contexts of
\* the next node's services back).
THEOREM AnswersReachFlow ==
  ASSUME AnswersAreKept
  PROVE  Spec => []ResultsKept
<1>1. KeptInv => ResultsKept
  <2> SUFFICES ASSUME KeptInv, fpc[Root] = "ok", NoneErred, NEW s \in Answered
               PROVE  s \in Result
    BY DEF ResultsKept
  <2>0. TypeOK /\ CallInv /\ LoopsInside /\ FramesInv /\ TreeInv /\ AnswersKept
    BY DEF KeptInv, FramesInv, LatchInv
  <2>1. OneNode(setup) \/ (Timely /\ LedPlain(setup))
    BY <2>0 DEF KeptInv, TypeOK, AnswersAreKept, KeepsAnswers, NeverLate, OnlyByCondition, Timely
  <2>2. PICK c \in Cntls : Parsed(c) /\ Owner(c) = s
    BY DEF Answered
  <2>3. s \in ctx[Owner(c)] /\ call[c] # "none"
    BY <2>0, <2>1, <2>2, NoneWasDoomed
    DEF AnswersKept, InOwnContext, Parsed, CallInv, ClosuresBegin, Begun
  <2>4. PICK d \in Cntls : call[d] # "none" /\ home[d] = Root /\ s \in ctx[Owner(d)]
    <3>1. CASE OneNode(setup)
      BY <2>0, <2>3, <3>1, NoFrameNested
    <3>2. CASE Timely /\ LedPlain(setup)
      BY <2>0, <2>3, <3>2, ReachesRoot
    <3>3. QED
      BY <2>1, <3>1, <3>2
  <2>5. PICK i \in DOMAIN RecallList(Start) : RecallList(Start)[i] = Owner(d)
    BY <2>0, <2>4 DEF CallInv, CallsPlaced, TreeInv, FramesOfClosures
  <2>6. QED
    BY <2>4, <2>5 DEF Result
<1>2. QED
  BY <1>1, KeptInvariant, PTL

-----------------------------------------------------------------------------
(* That the quit condition is looked at when everything is there.          *)

\* Every node cancels globally, by ids that there are; and the condition is not true of
\* no answers.
GlobalOnly(p) ==
  p.hasIds /\ {} \notin p.quitWhen /\ \A n \in DOMAIN p.flow : p.flow[n].order = "GLOBAL_CANCEL"

\* Of the closures that have parsed an answer, one is still to gather; or it has gathered
\* every answer, or is about to.
ToGather == {"route", "around", "copy", "recall", "merge", "cancel"}
Gathers(c) ==
  /\ cpc[c] \in {"gather", "decide", "quit", "done"}
  /\ \A s \in Answered : s \in seen[c] \/ (cpc[c] = "gather" /\ cat[c] <= s)
LastLooks ==
  (\E c \in Cntls : Parsed(c)) => \E c \in Cntls : cpc[c] \in ToGather \/ Gathers(c)

\* A closure is done because the condition was not true of what it had gathered, as long
\* as the request has not quit.
NoneQuits ==
  /\ \A c \in Cntls : cpc[c] # "sweep"
  /\ \A c \in Cntls : cpc[c] = "done" /\ ~ready => seen[c] \notin setup.quitWhen

QuitHeld == GlobalOnly(setup) => NoneQuits /\ (NoneDoomed => LastLooks)

\* Under such a policy a closure that cancels looks at the whole request.
LEMMA CancelGathers ==
  ASSUME TypeOK, CallInv, GlobalOnly(setup), NEW c \in Cntls, Cancel(c)
  PROVE  cpc'[c] = "gather" /\ cat'[c] = cat[c]
<1>1. NodeOf(c) \in DOMAIN Flow /\ cpc \in [Cntls -> ClosureStates]
  BY DEF TypeOK, NodeOf
<1>2. Flow[NodeOf(c)].order = "GLOBAL_CANCEL" /\ HasIds
  BY <1>1 DEF GlobalOnly, Flow, HasIds
<1>3. QED
  BY <1>1, <1>2 DEF Cancel, Stop

LEMMA NoneQuitsStep ==
  ASSUME TypeOK, CallInv, GlobalOnly(setup), NoneQuits, [Next]_vars
  PROVE  NoneQuits'
<1>0. UNCHANGED setup /\ cpc \in [Cntls -> ClosureStates]
  BY SetupStays DEF TypeOK
<1>1. ASSUME NEW c \in Cntls
      PROVE  cpc'[c] # "sweep"
  <2>1. cpc'[c] = "sweep" => Cancel(c)
    BY ClosureMoves DEF NoneQuits
  <2>2. QED
    BY <2>1, CancelGathers
<1>2. ASSUME NEW c \in Cntls, cpc'[c] = "done", ~ready'
      PROVE  seen'[c] \notin setup.quitWhen
  <2>1. CASE cpc[c] = "done"
    BY <1>2, <2>1, ParsedStays, ReadyStays DEF Passed, NoneQuits
  <2>2. CASE cpc[c] # "done"
    <3>1. GoOn(c) \/ QuitDone(c) \/ Cancel(c)
      BY <1>2, <2>2, ClosureMoves DEF NoneQuits
    <3>2. ~Cancel(c)
      BY <1>2, CancelGathers
    <3>3. ~QuitDone(c)
      BY <1>2 DEF QuitDone
    <3>4. QED
      BY <3>1, <3>2, <3>3 DEF GoOn, QuitCondition
  <2>3. QED
    BY <2>1, <2>2
<1>3. QED
  BY <1>0, <1>1, <1>2 DEF NoneQuits

\* The answers are of the closures that have parsed them: none is new without a new one
\* of these.
LEMMA AnswersOfParsed ==
  ASSUME TypeOK, CallInv, SweepHeld, [Next]_vars, \A c \in Cntls : Parsed(c)' => Parsed(c)
  PROVE  Answered' \subseteq Answered
BY DEF Answered, SweepHeld, Owner

LEMMA LastLooksStep ==
  ASSUME TypeOK, CallInv, LoopsInside, TreeInv, SweepHeld, InOwnContext, GlobalOnly(setup),
         NoneDoomed', LastLooks, [Next]_vars
  PROVE  LastLooks'
<1>0. /\ cpc \in [Cntls -> ClosureStates] /\ cat \in [Cntls -> Nat] /\ N \in Nat
      /\ seen \in [Cntls -> SUBSET Services] /\ Answered \subseteq Services
  BY ConfigFacts, OwnerFacts DEF TypeOK, Answered
<1>1. CASE \E c \in Cntls : Parsed(c)' /\ ~Parsed(c)
  <2>1. PICK c \in Cntls : Parsed(c)' /\ ~Parsed(c)
    BY <1>1
  <2>2. cpc'[c] = "route"
    BY <1>0, <2>1, ParsedStays DEF Parse, Stop, Parsed
  <2>3. QED
    BY <2>2 DEF LastLooks, ToGather
<1>2. CASE ~(\E c \in Cntls : Parsed(c)' /\ ~Parsed(c)) /\ \E c \in Cntls : Parsed(c)'
  <2>1. Answered' \subseteq Answered
    BY <1>2, AnswersOfParsed
  <2>2. PICK c \in Cntls : cpc[c] \in ToGather \/ Gathers(c)
    BY <1>2 DEF LastLooks
  <2>3. CASE cpc[c] \in ToGather /\ cpc[c] # "cancel"
    <3>1. cpc'[c] \in ToGather \cup {"erred"}
      BY <2>3, ClosureMoves DEF ToGather
    <3>2. cpc'[c] # "erred"
      BY DEF NoneDoomed, Doomed
    <3>3. QED
      BY <3>1, <3>2 DEF LastLooks
  <2>4. CASE cpc[c] = "cancel"
    <3>1. CASE cpc'[c] = cpc[c]
      BY <2>4, <3>1 DEF LastLooks, ToGather
    <3>2. CASE cpc'[c] # cpc[c]
      <4>1. Cancel(c) /\ cat[c] = 1
        BY <2>4, <3>2, ClosureMoves DEF LoopsInside
      <4>2. cpc'[c] = "gather" /\ cat'[c] = 1
        BY <4>1, CancelGathers
      <4>3. \A s \in Answered' : cat'[c] <= s
        BY <1>0, <2>1, <4>2 DEF Services
      <4>4. QED
        BY <4>2, <4>3 DEF LastLooks, Gathers
    <3>3. QED
      BY <3>1, <3>2
  <2>5. CASE Gathers(c)
    <3>1. CASE Gather(c)
      <4>1. /\ cpc[c] = "gather" /\ cat[c] \in 1..N
            /\ seen'[c] = seen[c] \cup ctx[cat[c]]
            /\ \/ cat[c] < N /\ cat'[c] = cat[c] + 1 /\ cpc'[c] = "gather"
               \/ ~(cat[c] < N) /\ cpc'[c] = "decide"
        BY <1>0, <3>1 DEF Gather, Stop, LoopsInside
      <4>2. ASSUME NEW s \in Answered', s \notin seen'[c]
            PROVE  cpc'[c] = "gather" /\ cat'[c] <= s
        <5>1. s \in Answered /\ s \in 1..N /\ cat[c] <= s
          BY <1>0, <2>1, <2>5, <4>1, <4>2 DEF Gathers, Services
        <5>2. s \in ctx[s]
          BY <5>1 DEF Answered, InOwnContext
        <5>3. s # cat[c]
          BY <4>1, <4>2, <5>2
        <5>4. QED
          BY <1>0, <4>1, <5>1, <5>3
      <4>3. QED
        BY <4>1, <4>2 DEF LastLooks, Gathers
    <3>2. CASE ~Gather(c)
      <4>1. /\ seen'[c] = seen[c] /\ (cpc[c] = "gather" => cpc'[c] = "gather" /\ cat'[c] = cat[c])
            /\ cpc'[c] \in {"gather", "decide", "quit", "done"}
        <5>1. CASE Local(c) \/ Copy(c) \/ QuitFlow(c) \/ QuitDone(c)
          BY <1>0, <2>5, <3>2, <5>1
          DEF Gathers, Local, Check, Parse, Route, Copy, Recalled, Merge, Cancel, GoOn, Swept,
              QuitFlow, QuitDone, Stop
        <5>2. CASE ~(Local(c) \/ Copy(c) \/ QuitFlow(c) \/ QuitDone(c))
          BY <2>5, <5>2, ClosureStays DEF Gathers
        <5>3. QED
          BY <5>1, <5>2
      <4>2. QED
        BY <2>1, <2>5, <4>1 DEF LastLooks, Gathers
    <3>3. QED
      BY <3>1, <3>2
  <2>6. QED
    BY <2>2, <2>3, <2>4, <2>5 DEF ToGather
<1>3. QED
  BY <1>1, <1>2 DEF LastLooks

LEMMA QuitHeldStep ==
  ASSUME TypeOK, CallInv, LoopsInside, TreeInv, SweepHeld, AnswersKept, QuitHeld, [Next]_vars
  PROVE  QuitHeld'
<1>1. GlobalOnly(setup)' => GlobalOnly(setup)
  BY SetupStays DEF GlobalOnly
<1>2. ASSUME GlobalOnly(setup) PROVE NoneQuits'
  BY <1>2, NoneQuitsStep DEF QuitHeld
<1>3. ASSUME GlobalOnly(setup), NoneDoomed' PROVE LastLooks'
  BY <1>3, NoneDoomedBefore, LastLooksStep DEF QuitHeld, AnswersKept
<1>4. QED
  BY <1>1, <1>2, <1>3 DEF QuitHeld

\* What is assumed of the policies: one with a quit condition cancels globally, and has
\* no service of two nodes.
LooksAreLast == \A p \in Setups : p.quitWhen # {} => ServicesApart(p) /\ GlobalOnly(p)

LooksInv ==
  /\ FramesInv /\ TreeInv /\ AnswersHeld /\ SweepHeld
  /\ setup.quitWhen # {} => AnswersKept /\ QuitHeld

LEMMA LooksInvariant ==
  ASSUME LooksAreLast
  PROVE  Spec => []LooksInv
<1>1. Init => LooksInv
  <2>1. Init => AnswersHeld /\ SweepHeld /\ InOwnContext /\ MergedIsIn
    BY DEF Init, AnswersHeld, SweepHeld, InOwnContext, MergedIsIn, Parsed
  <2>2. Init => QuitHeld
    BY DEF Init, QuitHeld, NoneQuits, LastLooks, Parsed
  <2>3. QED
    BY <2>1, <2>2, FramesInvariant, TreeInit DEF LooksInv, AnswersKept
<1>2. LooksInv /\ [Next]_vars => LooksInv'
  <2> SUFFICES ASSUME LooksInv, [Next]_vars
               PROVE  LooksInv'
    OBVIOUS
  <2>0. TypeOK /\ CallInv /\ LoopsInside
    BY DEF LooksInv, FramesInv, LatchInv
  <2>1. FramesInv' /\ TreeInv' /\ AnswersHeld' /\ SweepHeld'
    BY <2>0, FramesInvariant, TreeStep, AnswersStep, SweepStep DEF LooksInv
  <2>2. ASSUME setup.quitWhen # {}
        PROVE  AnswersKept' /\ QuitHeld'
    <3>1. ServicesApart(setup)
      BY <2>0, <2>2 DEF TypeOK, LooksAreLast
    <3>2. QED
      BY <2>0, <2>2, <3>1, KeptStep, QuitHeldStep DEF LooksInv
  <2>3. QED
    BY <2>1, <2>2, SetupStays DEF LooksInv
<1>3. QED
  BY <1>1, <1>2, PTL DEF Spec

\* Closures that look at the same time do not all miss what the others have answered: the
\* last to look sees everything, and a request whose answers meet the condition quits
\* (GlobalClosure::GlobalCancel gathers after its own answer is in).
THEOREM QuitIsNotMissed ==
  ASSUME LooksAreLast
  PROVE  Spec => []QuitNotMissed
<1>1. LooksInv => QuitNotMissed
  <2> SUFFICES ASSUME LooksInv, fpc[Root] = "ok", NoneErred, Answered \in setup.quitWhen, ~ready
               PROVE  FALSE
    BY DEF QuitNotMissed
  <2>0. TypeOK /\ CallInv /\ LoopsInside /\ FramesInv /\ TreeInv /\ Timely
    BY DEF LooksInv, FramesInv, LatchInv, Timely
  <2>1. GlobalOnly(setup) /\ QuitHeld /\ NoneDoomed
    BY <2>0, NoneWasDoomed DEF TypeOK, LooksAreLast, LooksInv
  <2>2. PICK c \in Cntls : cpc[c] \in ToGather \/ Gathers(c)
    <3>1. Answered # {}
      BY <2>1 DEF GlobalOnly
    <3>2. QED
      BY <2>1, <3>1 DEF Answered, QuitHeld, LastLooks
  <2>3. cpc[c] \in Final
    BY <2>0, <2>2, NothingRuns
    DEF TreeInv, FramesOfClosures, Running, ToGather, Gathers
  <2>4. cpc[c] = "done" /\ Answered \subseteq seen[c]
    BY <2>2, <2>3 DEF Final, ToGather, Gathers
  <2>5. seen[c] = Answered
    BY <2>4 DEF LooksInv, AnswersHeld
  <2>6. QED
    BY <2>1, <2>4, <2>5 DEF QuitHeld, NoneQuits
<1>2. QED
  BY <1>1, LooksInvariant, PTL
=============================================================================

---------------------------- MODULE FlowRun_proof ----------------------------
(***************************************************************************)
(* Proofs about FlowRun, for any services, flows of any nodes, and any     *)
(* bound on the nodes that a request runs.                                 *)
(***************************************************************************)
EXTENDS FlowRun, TLAPS, SequenceTheorems

-----------------------------------------------------------------------------
(* The inductive invariant of type correctness: inside a node, one has     *)
(* been run at least, and `at' is at its beginning where a loop may start. *)

Inside == {"intervene", "recall", "collect", "rank", "branch", "merge"}

Positions ==
  /\ pc \in Inside => runs >= 1
  /\ pc \in {"intervene", "recall", "rank"} => at = 1
  /\ pc \in {"intervene", "recall"} => called = {} /\ answered = {} /\ recall = {}

LEMMA ConfigFacts ==
  ASSUME TypeOK
  PROVE  /\ MaxRuns \in Nat \ {0} /\ Known \subseteq Services /\ NoName \notin Services
         /\ setup.policy \in {"default", "recurrent", "globalcancel"}
         /\ Flow \in [DOMAIN Flow -> NodeConfigs]
  BY RunAssumption DEF TypeOK, Flow

\* The lists of a node.
LEMMA NodeFacts ==
  ASSUME TypeOK, curr \in DOMAIN Flow
  PROVE  /\ Node.recall \in Seq(Services) /\ Node.toService \in Services \cup {NoName}
         /\ Node.ifs \in Seq(STRING) /\ Len(Node.ifs) \in Nat
         /\ ToRecall \in Seq(Services) /\ Taken \in Seq(Services) /\ Len(Taken) \in Nat
<1>1. Node \in NodeConfigs
  BY ConfigFacts DEF Node
<1>2. /\ Node.recall \in Seq(Services) /\ Node.toService \in Services \cup {NoName}
      /\ Node.ifs \in Seq(STRING)
  BY <1>1 DEF NodeConfigs
<1>3. intervened \in Services \cup {NoName}
  BY DEF TypeOK
<1>4. \A s \in Services : <<s>> \in Seq(Services)
  OBVIOUS
<1>5. ToRecall \in Seq(Services)
  BY <1>2, <1>4 DEF ToRecall
<1>6. Taken \in Seq(Services)
  BY <1>2, <1>3, <1>4 DEF Taken
<1>7. QED
  BY <1>2, <1>5, <1>6, LenProperties

LEMMA FoundType ==
  ASSUME TypeOK, NEW s \in Services
  PROVE  Found(backend, s) \in 0..MaxRuns
<1>1. backend[s] \in Seq(1..MaxRuns) /\ MaxRuns \in Nat
  BY ConfigFacts DEF TypeOK
<1>2. backend[s] # <<>> => Head(backend[s]) \in 1..MaxRuns
  BY <1>1
<1>3. QED
  BY <1>1, <1>2 DEF Found

LEMMA ContextsType ==
  ASSUME TypeOK, NEW A
  PROVE  Contexts(A) \in [Services -> [Services -> 0..MaxRuns]]
<1>1. runs \in 0..MaxRuns /\ \A t \in Services : Found(backend, t) \in 0..MaxRuns
  BY FoundType DEF TypeOK
<1>2. QED
  BY <1>1 DEF Contexts

LEMMA MergedType ==
  ASSUME TypeOK, NEW s \in Services
  PROVE  Merged(s) \in [Services -> Seq(1..MaxRuns)]
<1>1. \A t \in Services : ctx[s][t] \in 0..MaxRuns /\ backend[t] \in Seq(1..MaxRuns)
  BY DEF TypeOK
<1>2. \A t \in Services : ctx[s][t] # 0 => <<ctx[s][t]>> \in Seq(1..MaxRuns)
  <2>1. \A t \in Services : ctx[s][t] # 0 => ctx[s][t] \in 1..MaxRuns
    BY <1>1, ConfigFacts
  <2>2. QED
    BY <2>1
<1>3. QED
  BY <1>1, <1>2 DEF Merged

(* The type invariant in two parts: the values, and where the request is.  *)

ValueTypes ==
  /\ intervened \in Services \cup {NoName}
  /\ reg \subseteq Known /\ ready \in BOOLEAN /\ recall \subseteq Known /\ output \subseteq Keys
  /\ ctx \in [Services -> [Services -> 0..MaxRuns]]
  /\ backend \in [Services -> Seq(1..MaxRuns)]
  /\ result \in [Keys -> 0..MaxRuns] /\ response \in [Keys -> 0..MaxRuns]

PlaceTypes ==
  /\ setup \in Setups /\ pc \in Places
  /\ pc # "find" => curr \in DOMAIN Flow \/ pc = "failed"
  /\ runs \in 0..MaxRuns /\ at \in Nat \ {0}
  /\ answered \subseteq called /\ called \subseteq Known
  /\ pc = "collect" => at <= Len(Taken) + 1
  /\ pc = "branch" => at <= Len(Node.ifs) + 1

LEMMA TypeParts == TypeOK <=> ValueTypes /\ PlaceTypes
  BY DEF TypeOK, ValueTypes, PlaceTypes

valueVars == <<intervened, reg, ready, recall, output, ctx, backend, result, response>>
\* The steps that change no value.
LEMMA SameValues ==
  ASSUME ValueTypes, UNCHANGED valueVars
  PROVE  ValueTypes'
  BY DEF ValueTypes, valueVars

\* A node's loops depend on the node and the intervened service only.
LEMMA SameNode ==
  ASSUME UNCHANGED <<setup, curr>>
  PROVE  Flow' = Flow /\ Node' = Node /\ (UNCHANGED intervened => Taken' = Taken)
  BY DEF Flow, Node, Taken

LEMMA TypeStep ==
  ASSUME TypeOK, Positions, [Next]_vars
  PROVE  TypeOK' /\ Positions'
<1> SUFFICES ValueTypes' /\ PlaceTypes' /\ Positions'
  BY PTL, TypeParts
<1>0. /\ ValueTypes /\ PlaceTypes
      /\ MaxRuns \in Nat \ {0} /\ Known \subseteq Services /\ NoName \notin Services
  BY TypeParts, ConfigFacts
<1> USE DEF Inside, Places
<1>1. CASE FindNode
  <2>1. ValueTypes'
    BY <1>0, <1>1 DEF FindNode, ValueTypes, helperVars
  <2>2. Flow' = Flow
    BY <1>1 DEF FindNode, Flow
  <2>3. PlaceTypes' /\ Positions'
    BY <1>0, <1>1, <2>2 DEF FindNode, Fail, PlaceTypes, Positions
  <2>4. QED
    BY <2>1, <2>3
<1>2. CASE Intervene
  <2>1. ValueTypes'
    BY <1>0, <1>2, SameValues DEF Intervene, valueVars, helperVars, recallVars, outputVars
  <2>2. Flow' = Flow
    BY <1>2 DEF Intervene, Flow
  <2>3. PlaceTypes' /\ Positions'
    BY <1>0, <1>2, <2>2
    DEF Intervene, PlaceTypes, Positions, helperVars, recallVars, outputVars
  <2>4. QED
    BY <2>1, <2>3
<1>3. CASE DefFails \/ IfFails \/ RecallRefused
  <2>1. ValueTypes'
    BY <1>0, <1>3, SameValues
    DEF DefFails, IfFails, RecallRefused, valueVars, helperVars, recallVars, outputVars
  <2>2. PlaceTypes' /\ Positions'
    BY <1>0, <1>3
    DEF DefFails, IfFails, RecallRefused, Fail, PlaceTypes, Positions, helperVars, recallVars, outputVars
  <2>3. QED
    BY <2>1, <2>2
<1>4. CASE RecallSync
  <2>1. runs \in 1..MaxRuns
    BY <1>0, <1>4 DEF RecallSync, PlaceTypes, Positions
  <2>2. called' \subseteq Known /\ answered' \subseteq called' /\ recall' \subseteq Known
    BY <1>4 DEF RecallSync, Calls
  <2>3. \A s \in Services : Append(backend[s], runs) \in Seq(1..MaxRuns)
    BY <1>0, <2>1 DEF ValueTypes
  <2>4. backend' \in [Services -> Seq(1..MaxRuns)]
    BY <1>0, <1>4, <2>3 DEF RecallSync, ValueTypes
  <2>5. ValueTypes'
    BY <1>0, <1>4, <2>2, <2>4 DEF RecallSync, ValueTypes, helperVars, outputVars
  <2>6. UNCHANGED <<setup, curr, runs, at>> /\ pc = "recall" /\ pc' = "rank"
    BY <1>4 DEF RecallSync, outputVars
  <2>7. PlaceTypes' /\ Positions'
    BY <1>0, <2>2, <2>6, SameNode DEF PlaceTypes, Positions
  <2>8. QED
    BY <2>5, <2>7
<1>5. CASE RecallQuit \/ RecallAsync
  <2>1. /\ pc = "recall" /\ pc' = "collect"
        /\ UNCHANGED <<setup, curr, runs, backend, recall, at, output, next, result, response>>
    BY <1>5 DEF RecallQuit, RecallAsync, outputVars
  <2>2. curr \in DOMAIN Flow /\ at = 1
    BY <1>0, <2>1 DEF PlaceTypes, Positions
  <2>3. ctx' \in [Services -> [Services -> 0..MaxRuns]]
    BY <1>5, ContextsType DEF RecallQuit, RecallAsync
  <2>4. intervened' \in Services \cup {NoName}
    BY <1>0, <1>5, <2>2, NodeFacts DEF RecallQuit, RecallAsync, Remember, ValueTypes
  <2>5. called' \subseteq Known /\ answered' \subseteq called' /\ reg' \subseteq Known /\ ready' \in BOOLEAN
    <3>1. CASE RecallQuit
      BY <1>0, <3>1 DEF RecallQuit, ValueTypes, PlaceTypes
    <3>2. CASE RecallAsync
      BY <1>0, <3>2 DEF RecallAsync, Calls, ValueTypes, PlaceTypes
    <3>3. QED
      BY <1>5, <3>1, <3>2
  <2>6. ValueTypes'
    BY <1>0, <2>1, <2>3, <2>4, <2>5 DEF ValueTypes
  <2>7. Len(Taken') \in Nat
    <3>1. Node' = Node /\ Node.recall \in Seq(Services)
      BY <2>1, <2>2, NodeFacts, SameNode
    <3>2. Taken' \in Seq(Services)
      BY <2>4, <3>1 DEF Taken
    <3>3. QED
      BY <3>2, LenProperties
  <2>8. PlaceTypes' /\ Positions'
    BY <1>0, <2>1, <2>2, <2>5, <2>7, SameNode DEF PlaceTypes, Positions
  <2>9. QED
    BY <2>6, <2>8
<1>6. CASE Collect
  <2>1. /\ pc = "collect" /\ at' = at + 1
        /\ UNCHANGED <<setup, pc, curr, runs, intervened, reg, ready, called, answered, ctx, output, result, response>>
    BY <1>6 DEF Collect, helperVars
  <2>2. curr \in DOMAIN Flow /\ Len(Taken) \in Nat /\ at \in 1..Len(Taken)
    BY <1>0, <1>6, <2>1, NodeFacts DEF Collect, PlaceTypes
  <2>3. Taken[at] \in Services
    BY <2>2, NodeFacts, ElementOfSeq
  <2>4. backend' \in [Services -> Seq(1..MaxRuns)] /\ recall' \subseteq Known
    BY <1>0, <1>6, <2>3, MergedType DEF Collect, ValueTypes
  <2>5. ValueTypes'
    BY <1>0, <2>1, <2>4 DEF ValueTypes
  <2>6. PlaceTypes' /\ Positions'
    BY <1>0, <2>1, <2>2, SameNode DEF PlaceTypes, Positions
  <2>7. QED
    BY <2>5, <2>6
<1>7. CASE Collected
  <2>1. ValueTypes'
    BY <1>0, <1>7, SameValues DEF Collected, valueVars, helperVars, recallVars
  <2>2. PlaceTypes' /\ Positions'
    BY <1>0, <1>7, SameNode DEF Collected, PlaceTypes, Positions, recallVars
  <2>3. QED
    BY <2>1, <2>2
<1>8. CASE Rank
  <2>1. ValueTypes'
    BY <1>0, <1>8, SameValues DEF Rank, valueVars, helperVars, recallVars, outputVars
  <2>2. curr \in DOMAIN Flow /\ at = 1 /\ Len(Node.ifs) \in Nat
    BY <1>0, <1>8, NodeFacts DEF Rank, PlaceTypes, Positions
  <2>3. /\ pc = "rank" /\ pc' \in {"branch", "failed"}
        /\ UNCHANGED <<setup, curr, runs, at, called, answered>>
    BY <1>8 DEF Rank, Fail, recallVars, outputVars
  <2>4. PlaceTypes' /\ Positions'
    BY <1>0, <2>2, <2>3, SameNode DEF PlaceTypes, Positions
  <2>5. QED
    BY <2>1, <2>4
<1>9. CASE IfFalse
  <2>1. ValueTypes'
    BY <1>0, <1>9, SameValues DEF IfFalse, valueVars, helperVars, recallVars
  <2>2. curr \in DOMAIN Flow /\ Len(Node.ifs) \in Nat /\ at <= Len(Node.ifs) /\ at' = at + 1
    BY <1>0, <1>9, NodeFacts DEF IfFalse, PlaceTypes
  <2>3. pc = "branch" /\ UNCHANGED <<pc, setup, curr, runs, called, answered>>
    BY <1>9 DEF IfFalse, recallVars
  <2>4. PlaceTypes' /\ Positions'
    BY <1>0, <2>2, <2>3, SameNode DEF PlaceTypes, Positions
  <2>5. QED
    BY <2>1, <2>4
<1>10. CASE IfChosen \/ Default
  <2>1. ValueTypes'
    BY <1>0, <1>10 DEF IfChosen, Default, Fail, ValueTypes, helperVars, recallVars, outputVars
  <2>2. /\ pc = "branch" /\ pc' \in {"merge", "failed"}
        /\ UNCHANGED <<setup, curr, runs, at, called, answered>>
    BY <1>10 DEF IfChosen, Default, Fail, recallVars, outputVars
  <2>3. PlaceTypes' /\ Positions'
    BY <1>0, <2>2, SameNode DEF PlaceTypes, Positions
  <2>4. QED
    BY <2>1, <2>3
<1>11. CASE MergeOutput
  <2>1. \A k \in Keys : (IF k \in output THEN runs ELSE result[k]) \in 0..MaxRuns
    BY <1>0 DEF ValueTypes, PlaceTypes
  <2>2. result' \in [Keys -> 0..MaxRuns] /\ response' \in [Keys -> 0..MaxRuns]
    BY <1>0, <1>11, <2>1 DEF MergeOutput, ValueTypes
  <2>3. ValueTypes'
    BY <1>0, <1>11, <2>2 DEF MergeOutput, ValueTypes, helperVars, recallVars
  <2>4. /\ pc = "merge" /\ UNCHANGED <<setup, runs, at, called, answered>>
        /\ pc' = "find" \/ (pc' = "done" /\ UNCHANGED curr)
    BY <1>11 DEF MergeOutput, recallVars
  <2>5. PlaceTypes' /\ Positions'
    BY <1>0, <2>4, SameNode DEF PlaceTypes, Positions
  <2>6. QED
    BY <2>3, <2>5
<1>12. CASE UNCHANGED vars
  <2>1. ValueTypes'
    BY <1>0, <1>12, SameValues DEF vars, valueVars
  <2>2. PlaceTypes' /\ Positions'
    BY <1>0, <1>12, SameNode DEF vars, PlaceTypes, Positions
  <2>3. QED
    BY <2>1, <2>2
<1>13. QED
  BY <1>1, <1>2, <1>3, <1>4, <1>5, <1>6, <1>7, <1>8, <1>9, <1>10, <1>11, <1>12
  DEF Next, Evaluated, Over

LEMMA TypeInit == Init => TypeOK /\ Positions
<1> SUFFICES ASSUME Init PROVE TypeOK /\ Positions
  OBVIOUS
<1>1. MaxRuns \in Nat \ {0}
  BY RunAssumption
<1>2. ctx \in [Services -> [Services -> 0..MaxRuns]]
  BY <1>1 DEF Init
<1>3. backend \in [Services -> Seq(1..MaxRuns)]
  BY DEF Init
<1>4. Nothing \in [Keys -> 0..MaxRuns]
  BY <1>1 DEF Nothing
<1>5. setup \in Setups /\ runs \in 0..MaxRuns /\ pc = "find" /\ at = 1
  BY <1>1 DEF Init
<1>6. ValueTypes
  BY <1>2, <1>3, <1>4 DEF Init, ValueTypes
<1>7. PlaceTypes /\ Positions
  BY <1>5 DEF Init, PlaceTypes, Positions, Inside, Places
<1>8. QED
  BY <1>6, <1>7, TypeParts

\* Every variable keeps its type; in particular the loops of a node stay within its
\* lists and only a node that exists is run.
THEOREM TypeCorrect == Spec => []TypeOK
<1>1. TypeOK /\ Positions /\ [Next]_vars => (TypeOK /\ Positions)'
  BY TypeStep
<1>2. QED
  BY <1>1, TypeInit, PTL DEF Spec

LEMMA Typed == Spec => [](TypeOK /\ Positions)
<1>1. TypeOK /\ Positions /\ [Next]_vars => (TypeOK /\ Positions)'
  BY TypeStep
<1>2. QED
  BY <1>1, TypeInit, PTL DEF Spec

-----------------------------------------------------------------------------
(* What the client receives, and what is kept.                             *)

\* The response is written where the request reaches the end of its flow, which
\* nothing follows: a request that fails leaves it empty.
THEOREM ResponseWhole == Spec => []ResponseIsWhole
<1>1. Init => ResponseIsWhole
  BY DEF Init, ResponseIsWhole
<1>2. ResponseIsWhole /\ [Next]_vars => ResponseIsWhole'
  <2> SUFFICES ASSUME ResponseIsWhole, [Next]_vars PROVE ResponseIsWhole'
    OBVIOUS
  <2>1. CASE MergeOutput
    BY <2>1 DEF MergeOutput, ResponseIsWhole
  <2>2. CASE pc # "done" /\ UNCHANGED response
    BY <2>2 DEF ResponseIsWhole
  <2>3. CASE UNCHANGED vars
    BY <2>3 DEF vars, ResponseIsWhole, Nothing
  <2>4. CASE FindNode \/ Intervene \/ DefFails \/ IfFails
    BY <2>2, <2>4 DEF FindNode, Intervene, DefFails, IfFails, outputVars
  <2>5. CASE RecallSync \/ RecallRefused \/ RecallQuit \/ RecallAsync \/ Collect \/ Collected
    BY <2>2, <2>5 DEF RecallSync, RecallRefused, RecallQuit, RecallAsync, Collect, Collected, outputVars
  <2>6. CASE Rank \/ IfFalse \/ IfChosen \/ Default
    BY <2>2, <2>6 DEF Rank, IfFalse, IfChosen, Default, outputVars
  <2>7. QED
    BY <2>1, <2>3, <2>4, <2>5, <2>6 DEF Next, Evaluated, Over
<1>3. QED
  BY <1>1, <1>2, PTL DEF Spec

\* An answer that a node has obtained is in `backend' for the rest of the request:
\* neither a second one of the service nor a merged context puts it out.
THEOREM BackendIsKept == Spec => BackendKept
<1>1. TypeOK /\ Positions /\ [Next]_vars =>
        [\A s \in Services : Found(backend, s) # 0 => Found(backend', s) # 0]_vars
  <2> SUFFICES ASSUME TypeOK, Positions, [Next]_vars, ~UNCHANGED vars,
                      NEW s \in Services, Found(backend, s) # 0
               PROVE  Found(backend', s) # 0
    OBVIOUS
  <2>1. MaxRuns \in Nat /\ backend[s] \in Seq(1..MaxRuns) /\ backend[s] # <<>>
    BY ConfigFacts DEF TypeOK, Found
  <2>2. CASE RecallSync
    <3>1. runs \in 1..MaxRuns
      BY <2>1, <2>2 DEF RecallSync, TypeOK, Positions, Inside
    <3>2. backend'[s] \in {backend[s], Append(backend[s], runs)}
      BY <2>2 DEF RecallSync
    <3>3. /\ Append(backend[s], runs) # <<>>
          /\ Head(Append(backend[s], runs)) = Head(backend[s])
      BY <2>1, <3>1
    <3>4. QED
      BY <2>1, <3>2, <3>3 DEF Found
  <2>3. CASE Collect
    <3>1. backend'[s] = backend[s] \/ \E u \in Services : ctx[u][s] # 0 /\ backend'[s] = <<ctx[u][s]>>
      <4>1. curr \in DOMAIN Flow /\ at \in 1..Len(Taken)
        BY <2>3, NodeFacts DEF Collect, TypeOK
      <4>2. Taken[at] \in Services
        BY <4>1, NodeFacts, ElementOfSeq
      <4>3. QED
        BY <2>3, <4>2 DEF Collect, Merged
    <3>2. QED
      BY <3>1 DEF Found
  <2>4. CASE UNCHANGED backend
    BY <2>4
  <2>5. QED
    BY <2>2, <2>3, <2>4
    DEF Next, Evaluated, Over, FindNode, Intervene, DefFails, IfFails, RecallRefused, RecallQuit,
        RecallAsync, Collected, Rank, IfFalse, IfChosen, Default, MergeOutput, recallVars
<1>2. QED
  BY <1>1, Typed, PTL DEF BackendKept, Spec

\* Under globalcancel a service is called by one node of a request at most, and none
\* after a quit: what set_call_id refuses it refuses for the whole request.
THEOREM CallsAreOnce == Spec => CalledOnce
<1>1. TypeOK /\ Positions /\ [Next]_vars =>
        [setup.policy = "globalcancel" /\ called' # called /\ called' # {} =>
           ~ready /\ called' \cap reg = {}]_vars
  <2> SUFFICES ASSUME TypeOK, Positions, [Next]_vars,
                      setup.policy = "globalcancel", called' # called, called' # {}
               PROVE  ~ready /\ called' \cap reg = {}
    OBVIOUS
  <2>1. CASE RecallAsync
    <3>1. called' = Calls /\ Registered = "all"
      BY <2>1 DEF RecallAsync
    <3>2. QED
      BY <3>1 DEF Registered
  <2>2. CASE FindNode \/ RecallSync
    BY <2>2 DEF FindNode, RecallSync
  <2>3. CASE UNCHANGED called
    BY <2>3
  <2>4. QED
    BY <2>1, <2>2, <2>3
    DEF Next, Evaluated, Over, vars, Intervene, DefFails, IfFails, RecallRefused, RecallQuit,
        Collect, Collected, Rank, IfFalse, IfChosen, Default, MergeOutput, recallVars
<1>2. QED
  BY <1>1, Typed, PTL DEF CalledOnce, Spec

-----------------------------------------------------------------------------
(* The candidates of a node, where no stale intervention can be met.       *)

\* The asynchronous policies have no node whose service is intervened.
HelperUnused ==
  \A p \in Setups :
    p.policy = "default" \/ \A n \in DOMAIN p.flow : p.flow[n].toService = NoName

OwnRecall ==
  /\ setup.policy # "default" => intervened = NoName
  /\ pc = "collect" => setup.policy # "default"
  /\ pc \in {"collect", "rank", "branch"} => recall \subseteq ToSet(ToRecall)

LEMMA NotIntervened ==
  ASSUME HelperUnused, TypeOK, setup.policy # "default", curr \in DOMAIN Flow
  PROVE  Node.toService = NoName
  BY DEF HelperUnused, TypeOK, Flow, Node

LEMMA OwnRecallStep ==
  ASSUME HelperUnused, TypeOK, Positions, OwnRecall, [Next]_vars
  PROVE  OwnRecall'
<1>1. CASE RecallSync
  <2>1. Flow' = Flow /\ Node' = Node /\ ToRecall' = ToRecall
    BY <1>1, SameNode DEF RecallSync, ToRecall
  <2>2. recall' \subseteq ToSet(ToRecall)
    BY <1>1 DEF RecallSync, Calls
  <2>3. QED
    BY <1>1, <2>1, <2>2 DEF RecallSync, OwnRecall, helperVars
<1>2. CASE RecallQuit \/ RecallAsync
  <2>1. /\ setup.policy # "default" /\ pc = "recall" /\ pc' = "collect"
        /\ UNCHANGED <<setup, curr, recall>> /\ Remember
    BY <1>2 DEF RecallQuit, RecallAsync
  <2>2. curr \in DOMAIN Flow /\ recall = {}
    BY <2>1 DEF TypeOK, Positions
  <2>3. intervened' = NoName
    BY <2>1, <2>2, NotIntervened DEF Remember, OwnRecall
  <2>4. QED
    BY <2>1, <2>2, <2>3 DEF OwnRecall
<1>3. CASE Collect
  <2>1. /\ pc = "collect" /\ setup.policy # "default" /\ intervened = NoName
        /\ curr \in DOMAIN Flow /\ at \in Nat \ {0} /\ at <= Len(Taken)
    BY <1>3 DEF Collect, TypeOK, OwnRecall
  <2>2. Taken = ToRecall
    BY <2>1, NotIntervened DEF Taken, ToRecall
  <2>3. Taken[at] \in ToSet(ToRecall)
    <3>1. at \in DOMAIN ToRecall
      BY <2>1, <2>2, NodeFacts, LenProperties
    <3>2. QED
      BY <2>2, <3>1 DEF ToSet
  <2>4. recall' \subseteq ToSet(ToRecall)
    BY <1>3, <2>1, <2>3 DEF Collect, OwnRecall
  <2>5. ToRecall' = ToRecall /\ UNCHANGED <<setup, intervened, pc>>
    BY <1>3, SameNode DEF Collect, ToRecall, helperVars
  <2>6. QED
    BY <2>1, <2>4, <2>5 DEF OwnRecall
<1>4. CASE Collected \/ Rank \/ IfFalse
  <2>1. /\ UNCHANGED <<setup, curr, intervened, recall>>
        /\ pc \in {"collect", "rank", "branch"} /\ pc' # "collect"
    BY <1>4 DEF Collected, Rank, IfFalse, Fail, helperVars, recallVars
  <2>2. ToRecall' = ToRecall
    BY <2>1, SameNode DEF ToRecall
  <2>3. QED
    BY <2>1, <2>2 DEF OwnRecall
<1>5. CASE \/ FindNode \/ Intervene \/ DefFails \/ IfFails \/ RecallRefused
           \/ IfChosen \/ Default \/ MergeOutput
  <2>1. UNCHANGED <<setup, intervened>> /\ pc' \notin {"collect", "rank", "branch"}
    BY <1>5
    DEF FindNode, Intervene, DefFails, IfFails, RecallRefused, IfChosen, Default, MergeOutput, Fail,
        helperVars
  <2>2. QED
    BY <2>1 DEF OwnRecall
<1>6. CASE UNCHANGED vars
  BY <1>6 DEF vars, OwnRecall, ToRecall, Node, Flow
<1>7. QED
  BY <1>1, <1>2, <1>3, <1>4, <1>5, <1>6 DEF Next, Evaluated, Over

\* A node ranks services that it was itself to recall, if no earlier node of the
\* request can have left an intervened service in the helper.
THEOREM RecallIsOwn ==
  ASSUME HelperUnused
  PROVE  Spec => []RecallIsTheNodes
<1>1. Init => OwnRecall
  BY DEF Init, OwnRecall
<1>2. TypeOK /\ Positions /\ OwnRecall /\ [Next]_vars => OwnRecall'
  BY OwnRecallStep
<1>3. OwnRecall => RecallIsTheNodes
  BY DEF OwnRecall, RecallIsTheNodes
<1>4. QED
  BY <1>1, <1>2, <1>3, Typed, PTL DEF Spec

-----------------------------------------------------------------------------
(* Fresh answers, where the ids let a service be called once.              *)

OnceOnly ==
  \A p \in Setups :
    p.policy = "globalcancel" /\ \A n \in DOMAIN p.flow : p.flow[n].toService = NoName

\* Of a service that no node has called there is no answer, in `backend' or in a
\* context; one that has just answered is in its own context, which is still to be
\* merged, or in `backend'.
FreshSoFar ==
  /\ intervened = NoName /\ answered \subseteq reg
  /\ \A s \in Services : s \notin reg => backend[s] = <<>>
  /\ pc = "collect" =>
       /\ \A s \in answered, u \in Services : ctx[u][s] = IF u = s THEN runs ELSE 0
       /\ \A s \in Services, u \in Services : s \notin reg => ctx[u][s] = 0
       /\ \A s \in answered : backend[s] = <<runs>> \/ \E i \in at..Len(Taken) : Taken[i] = s
  /\ pc \in {"rank", "branch"} => \A s \in answered : backend[s] = <<runs>>

LEMMA OncePolicy ==
  ASSUME OnceOnly, TypeOK
  PROVE  /\ setup.policy = "globalcancel"
         /\ curr \in DOMAIN Flow => Node.toService = NoName
  BY DEF OnceOnly, TypeOK, Flow, Node

LEMMA FreshStep ==
  ASSUME OnceOnly, TypeOK, Positions, FreshSoFar, [Next]_vars
  PROVE  FreshSoFar'
<1>0. setup.policy = "globalcancel" /\ Known \subseteq Services
  BY OncePolicy, ConfigFacts
<1>1. CASE RecallQuit \/ RecallAsync
  <2>1. /\ pc = "recall" /\ pc' = "collect" /\ at = 1 /\ answered = {} /\ curr \in DOMAIN Flow
        /\ UNCHANGED <<setup, curr, runs, backend, at>>
    BY <1>1 DEF RecallQuit, RecallAsync, TypeOK, Positions, outputVars
  <2>2. intervened' = NoName /\ Node.toService = NoName
    BY <1>1, <2>1, OncePolicy DEF RecallQuit, RecallAsync, Remember, FreshSoFar
  <2>3. Taken' = Node.recall /\ ToRecall = Node.recall
    BY <2>1, <2>2, SameNode DEF Taken, ToRecall
  <2>4. /\ answered' \subseteq Calls /\ ctx' = Contexts(answered')
        /\ answered' \subseteq reg' /\ reg \subseteq reg'
        /\ \A s \in answered' : s \notin reg
    <3>1. CASE RecallQuit
      BY <2>1, <3>1 DEF RecallQuit
    <3>2. CASE RecallAsync
      <4>1. Registered = "all" /\ called' = Calls /\ answered' \subseteq called' /\ reg' = reg \cup called'
        BY <1>0, <3>2 DEF RecallAsync
      <4>2. Calls = {} \/ Calls \cap reg = {}
        BY <1>0, <4>1 DEF Registered
      <4>3. QED
        BY <3>2, <4>1, <4>2 DEF RecallAsync
    <3>3. QED
      BY <1>1, <3>1, <3>2
  <2>5. \A s \in Services : s \notin reg => backend[s] = <<>> /\ Found(backend, s) = 0
    BY DEF FreshSoFar, Found
  <2>6. answered' \subseteq Services
    BY <1>0, <2>4 DEF Calls
  <2>7. \A s \in answered', u \in Services : ctx'[u][s] = IF u = s THEN runs ELSE 0
    BY <2>4, <2>5, <2>6 DEF Contexts
  <2>8. \A s \in Services, u \in Services : s \notin reg' => ctx'[u][s] = 0
    BY <2>4, <2>5 DEF Contexts
  <2>9. \A s \in answered' : \E i \in at'..Len(Taken') : Taken'[i] = s
    <3>1. Node.recall \in Seq(Services) /\ DOMAIN Node.recall = 1..Len(Node.recall)
      BY <2>1, NodeFacts, LenProperties
    <3>2. \A s \in answered' : \E i \in DOMAIN Node.recall : Node.recall[i] = s
      BY <2>3, <2>4 DEF Calls, ToSet
    <3>3. QED
      BY <2>1, <2>3, <3>1, <3>2
  <2>10. QED
    BY <2>1, <2>2, <2>4, <2>5, <2>7, <2>8, <2>9 DEF FreshSoFar
<1>2. CASE Collect
  <2>1. /\ pc = "collect" /\ at' = at + 1
        /\ UNCHANGED <<setup, curr, pc, runs, intervened, reg, answered, ctx>>
    BY <1>2 DEF Collect, helperVars
  <2>2. curr \in DOMAIN Flow /\ Len(Taken) \in Nat /\ at \in 1..Len(Taken) /\ Taken' = Taken
    BY <1>2, <2>1, NodeFacts, SameNode DEF Collect, TypeOK
  <2>3. Taken[at] \in Services
    BY <2>2, NodeFacts, ElementOfSeq
  <2>4. runs # 0 /\ answered \subseteq Known
    BY <2>1 DEF Positions, Inside, TypeOK
  <2>5. \A t \in Services :
          backend'[t] = IF Taken[at] \in Known /\ ctx[Taken[at]][t] # 0
                        THEN <<ctx[Taken[at]][t]>> ELSE backend[t]
    BY <1>2 DEF Collect, Merged
  <2>6. \A s \in Services : s \notin reg => backend'[s] = <<>>
    BY <2>1, <2>3, <2>5 DEF FreshSoFar
  <2>7. ASSUME NEW s \in answered
        PROVE  backend'[s] = <<runs>> \/ \E i \in at'..Len(Taken') : Taken'[i] = s
    <3>1. s \in Services /\ s \in Known
      BY <1>0, <2>4
    <3>2. CASE Taken[at] = s
      <4>1. backend'[s] = IF ctx[s][s] # 0 THEN <<ctx[s][s]>> ELSE backend[s]
        BY <2>5, <3>1, <3>2
      <4>2. ctx[s][s] = runs
        BY <2>1, <3>1 DEF FreshSoFar
      <4>3. QED
        BY <2>4, <4>1, <4>2
    <3>3. CASE Taken[at] # s
      <4>1. backend'[s] = backend[s]
        BY <2>1, <2>3, <2>5, <3>1, <3>3 DEF FreshSoFar
      <4>2. CASE backend[s] = <<runs>>
        BY <4>1, <4>2
      <4>3. CASE \E i \in at..Len(Taken) : Taken[i] = s
        <5>1. PICK i \in at..Len(Taken) : Taken[i] = s
          BY <4>3
        <5>2. i # at /\ i \in (at + 1)..Len(Taken)
          BY <2>2, <3>3, <5>1
        <5>3. QED
          BY <2>1, <2>2, <5>1, <5>2
      <4>4. QED
        BY <2>1, <4>2, <4>3 DEF FreshSoFar
    <3>4. QED
      BY <3>2, <3>3
  <2>8. QED
    BY <2>1, <2>6, <2>7 DEF FreshSoFar
<1>3. CASE Collected
  <2>1. /\ pc = "collect" /\ pc' = "rank" /\ at = Len(Taken) + 1
        /\ UNCHANGED <<runs, intervened, reg, answered, backend>>
    BY <1>3 DEF Collected, helperVars, recallVars
  <2>2. Len(Taken) \in Nat
    BY <2>1, NodeFacts DEF TypeOK
  <2>3. at..Len(Taken) = {}
    BY <2>1, <2>2
  <2>4. \A s \in answered : backend[s] = <<runs>>
    BY <2>1, <2>3 DEF FreshSoFar
  <2>5. QED
    BY <2>1, <2>4 DEF FreshSoFar
<1>4. CASE Rank \/ IfFalse
  BY <1>4 DEF Rank, IfFalse, Fail, FreshSoFar, helperVars, recallVars
<1>5. CASE \/ FindNode \/ Intervene \/ DefFails \/ IfFails \/ RecallRefused
           \/ IfChosen \/ Default \/ MergeOutput
  <2>1. /\ UNCHANGED <<intervened, reg, backend>> /\ answered' \subseteq answered
        /\ pc' \notin {"collect", "rank", "branch"}
    BY <1>5
    DEF FindNode, Intervene, DefFails, IfFails, RecallRefused, IfChosen, Default, MergeOutput, Fail,
        helperVars, recallVars
  <2>2. QED
    BY <2>1 DEF FreshSoFar
<1>6. CASE RecallSync
  BY <1>0, <1>6 DEF RecallSync
<1>7. CASE UNCHANGED vars
  BY <1>7 DEF vars, FreshSoFar, Taken, Node, Flow
<1>8. QED
  BY <1>1, <1>2, <1>3, <1>4, <1>5, <1>6, <1>7 DEF Next, Evaluated, Over

\* Under globalcancel what `backend' has of a service that has just answered is that
\* answer, although each context that is merged brings a copy of an older `backend':
\* the ids, which refuse a second call, are what makes it so.
THEOREM BackendFresh ==
  ASSUME OnceOnly
  PROVE  Spec => []BackendIsFresh
<1>1. Init => FreshSoFar
  BY DEF Init, FreshSoFar
<1>2. TypeOK /\ Positions /\ FreshSoFar /\ [Next]_vars => FreshSoFar'
  BY FreshStep
<1>3. TypeOK /\ FreshSoFar => BackendIsFresh
  <2> SUFFICES ASSUME TypeOK, FreshSoFar, pc \in {"rank", "branch"}, NEW s \in answered
               PROVE  Found(backend, s) = runs
    BY DEF BackendIsFresh
  <2>1. backend[s] = <<runs>>
    BY DEF FreshSoFar
  <2>2. QED
    BY <2>1 DEF Found
<1>4. QED
  BY <1>1, <1>2, <1>3, Typed, PTL DEF Spec

=============================================================================

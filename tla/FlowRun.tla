------------------------------- MODULE FlowRun -------------------------------
(***************************************************************************)
(* One request under the default, recurrent or globalcancel policy:        *)
(* DefaultPolicy::inner_run walks the flow nodes from the first one, and   *)
(* each node (single_node, kernel_process) is intervened, recalls its      *)
(* services, ranks, chooses an if branch or the default, merges its output *)
(* into the result and names the next node.  What lives as long as the     *)
(* request: the `backend' and `result' of the top context, and the helper  *)
(* with the intervened service and, under globalcancel, the call ids.      *)
(*                                                                         *)
(* A recall is the outcome that SyncRecall and AsyncRecall establish: the  *)
(* services that answered.  A result is the number of the node, in the     *)
(* order they are run, that obtained it; an answer is a value that         *)
(* merge_json_objects replaces as a whole.                                 *)
(***************************************************************************)
EXTENDS Integers, Sequences, FiniteSets, SequencesExt

CONSTANTS
  Services,     \* names of services
  Known,        \* those in _service_map
  Keys,         \* members an output block may have
  Setups,       \* the configurations to consider
  MaxRuns       \* bound on the nodes of a request whose configuration has a cycle

\* The empty name, of nothing.
NoName == ""

\* A node: the services it recalls, what an intervention puts in their place and
\* where it leads to (NoName: nowhere), the next of each if block, and its own next.
NodeConfigs == [recall : Seq(Services), toService : Services \cup {NoName}, toFlow : STRING,
                ifs : Seq(STRING), next : STRING]

ASSUME RunAssumption ==
  /\ Known \subseteq Services /\ NoName \notin Services
  /\ MaxRuns \in Nat \ {0}
  /\ \A p \in Setups :
       /\ p.policy \in {"default", "recurrent", "globalcancel"}
       /\ p.flow \in [DOMAIN p.flow -> NodeConfigs]
       /\ p.start \in DOMAIN p.flow /\ NoName \notin DOMAIN p.flow

VARIABLES
  setup,        \* the policy, its nodes and its first node
  pc,           \* where the request is
  curr,         \* curr_flow
  runs,         \* the nodes run so far, this one included
  intervened,   \* helper->_intervene_service
  reg,          \* the services with an id in _call_ids
  ready,        \* _is_ready
  called,       \* the services this node has recalled
  answered,     \* those of them whose answers were parsed
  ctx,          \* flow_context_array: the `backend' of each service's context
  backend,      \* `backend' of the top context: members of a name, in order
  recall,       \* `recall', the services given to rank
  at,           \* the service whose context is merged, or the if block, looked at
  output,       \* the members of the node's output
  next,         \* the next node
  result,       \* `result': the node each member is from, 0 when there is none
  response      \* what the client receives

vars == <<setup, pc, curr, runs, intervened, reg, ready, called, answered, ctx, backend,
          recall, at, output, next, result, response>>
helperVars == <<intervened, reg, ready>>
recallVars == <<called, answered, ctx, backend, recall>>
outputVars == <<at, output, next, result, response>>

Flow == setup.flow
Node == Flow[curr]
Nothing == [k \in Keys |-> 0]

\* get_intervene_service: the one service in place of the configured ones.
ToRecall == IF Node.toService = NoName THEN Node.recall ELSE <<Node.toService>>
Calls == ToSet(ToRecall) \cap Known

\* The services kernel_process takes the node to have recalled.
\* (Mutant: the configured services, whatever was intervened.)
TakenConfigured == Node.recall

Taken == IF intervened # NoName THEN <<intervened>> ELSE Node.recall

Places == {"find", "intervene", "recall", "collect", "rank", "branch", "merge", "done", "failed"}

TypeOK ==
  /\ setup \in Setups
  /\ pc \in Places
  /\ pc # "find" => curr \in DOMAIN Flow \/ pc = "failed"
  /\ runs \in 0..MaxRuns
  /\ intervened \in Services \cup {NoName}
  /\ reg \subseteq Known /\ ready \in BOOLEAN
  /\ answered \subseteq called /\ called \subseteq Known
  /\ ctx \in [Services -> [Services -> 0..MaxRuns]]
  /\ backend \in [Services -> Seq(1..MaxRuns)]
  /\ recall \subseteq Known
  /\ at \in Nat \ {0}
  /\ pc = "collect" => at <= Len(Taken) + 1
  /\ pc = "branch" => at <= Len(Node.ifs) + 1
  /\ output \subseteq Keys
  /\ result \in [Keys -> 0..MaxRuns] /\ response \in [Keys -> 0..MaxRuns]

\* DefaultPolicy::flow_check, at start-up: the next of every node exists.
FlowCheck(p) == \A n \in DOMAIN p.flow : p.flow[n].next = NoName \/ p.flow[n].next \in DOMAIN p.flow

Init ==
  /\ setup \in {p \in Setups : FlowCheck(p)}
  /\ pc = "find" /\ curr = setup.start /\ runs = 0
  /\ intervened = NoName /\ reg = {} /\ ready = FALSE
  /\ called = {} /\ answered = {}
  /\ ctx = [s \in Services |-> [t \in Services |-> 0]]
  /\ backend = [s \in Services |-> <<>>] /\ recall = {}
  /\ at = 1 /\ output = {} /\ next = NoName /\ result = Nothing /\ response = Nothing

-----------------------------------------------------------------------------
(* A node: from its name to the services it recalls.                       *)

\* inner_run returns -1: the response is left as it was.
Fail == pc' = "failed"

\* A new flow context.  (The bound stops a request that goes on for ever.)
FindNode ==
  /\ pc = "find" /\ runs < MaxRuns
  /\ IF curr \in DOMAIN Flow
     THEN pc' = "intervene" /\ runs' = runs + 1 ELSE Fail /\ UNCHANGED runs
  /\ at' = 1 /\ output' = {} /\ next' = NoName
  /\ called' = {} /\ answered' = {} /\ recall' = {}
  /\ UNCHANGED <<setup, curr, helperVars, ctx, backend, result, response>>

\* get_intervene_flow: as long as the source matches a rule of the node whose
\* target is a node, go on from there.  (Mutant: the node is not advanced.)
InterveneStays ==
  /\ pc = "intervene"
  /\ IF Node.toFlow \in DOMAIN Flow THEN UNCHANGED <<curr, pc>> ELSE UNCHANGED curr /\ pc' = "recall"
  /\ UNCHANGED <<setup, runs, helperVars, recallVars, outputVars>>

Intervene ==
  /\ pc = "intervene"
  /\ IF Node.toFlow \in DOMAIN Flow
     THEN curr' = Node.toFlow /\ UNCHANGED pc
     ELSE pc' = "recall" /\ UNCHANGED curr
  /\ UNCHANGED <<setup, runs, helperVars, recallVars, outputVars>>

\* The source of an intervention, or a definition, cannot be evaluated.
DefFails ==
  /\ pc \in {"intervene", "recall"}
  /\ Fail
  /\ UNCHANGED <<setup, curr, runs, helperVars, recallVars, outputVars>>

\* The first member of a name: what get($backend, s) finds.
Found(b, s) == IF b[s] = <<>> THEN 0 ELSE Head(b[s])

\* Default policy: the answers are added to `backend', where a member of that
\* name may be already.  (Mutant: they replace what is there.)
RecallReplaces ==
  /\ pc = "recall" /\ setup.policy = "default"
  /\ called' = Calls
  /\ answered' \in SUBSET called'
  /\ backend' = [s \in Services |-> IF s \in answered' THEN <<runs>> ELSE <<>>]
  /\ recall' = answered'
  /\ pc' = "rank"
  /\ UNCHANGED <<setup, curr, runs, helperVars, ctx, outputVars>>

RecallSync ==
  /\ pc = "recall" /\ setup.policy = "default"
  /\ called' = Calls
  /\ answered' \in SUBSET called'
  /\ backend' = [s \in Services |-> IF s \in answered' THEN Append(backend[s], runs) ELSE backend[s]]
  /\ recall' = answered'
  /\ pc' = "rank"
  /\ UNCHANGED <<setup, curr, runs, helperVars, ctx, outputVars>>

-----------------------------------------------------------------------------
(* The asynchronous policies.                                              *)

\* A context per service, each with a copy of `backend'; an answer is added to
\* its service's.
Contexts(A) ==
  [s \in Services |-> [t \in Services |-> IF t = s /\ s \in A THEN runs ELSE Found(backend, t)]]

\* FlowConfig::recall refuses a configured service that is not defined, even where
\* an intervention replaces it.
Undefined == \E i \in DOMAIN Node.recall : Node.recall[i] \notin Known

\* What set_call_id makes of the list: an error, nothing to do, or all registered.
FirstCall == SelectInSeq(ToRecall, LAMBDA s : s \in Known)
Registered ==
  IF setup.policy = "recurrent" \/ Calls = {} THEN "all"
  ELSE IF ToRecall[FirstCall] \in reg THEN "error"
  ELSE IF ready THEN "none"
  ELSE IF Calls \cap reg # {} THEN "error" ELSE "all"

\* The service is remembered in the request's helper, and nothing clears it.
Remember == intervened' = IF Node.toService = NoName THEN intervened ELSE Node.toService

RecallRefused ==
  /\ pc = "recall" /\ setup.policy # "default"
  /\ Undefined \/ Registered = "error"
  /\ Fail
  /\ UNCHANGED <<setup, curr, runs, helperVars, recallVars, outputVars>>

\* The request has quit in an earlier node.
RecallQuit ==
  /\ pc = "recall" /\ setup.policy # "default"
  /\ ~Undefined /\ Registered = "none"
  /\ Remember
  /\ ctx' = Contexts({})
  /\ pc' = "collect"
  /\ UNCHANGED <<setup, curr, runs, reg, ready, called, answered, backend, recall, outputVars>>

\* (Mutant: the ids are those of the node, not of the request.)
RecallAsyncAgain ==
  /\ pc = "recall" /\ setup.policy # "default"
  /\ ~Undefined
  /\ Remember
  /\ called' = Calls
  /\ answered' \in SUBSET called'
  /\ reg' = IF setup.policy = "globalcancel" THEN reg \cup called' ELSE reg
  /\ ready' \in {FALSE, setup.policy = "globalcancel" /\ answered' # {}}
  /\ ctx' = Contexts(answered')
  /\ pc' = "collect"
  /\ UNCHANGED <<setup, curr, runs, backend, recall, outputVars>>

RecallAsync ==
  /\ pc = "recall" /\ setup.policy # "default"
  /\ ~Undefined /\ Registered = "all"
  /\ Remember
  /\ called' = Calls
  /\ answered' \in SUBSET called'
  /\ reg' = IF setup.policy = "globalcancel" THEN reg \cup called' ELSE reg
  /\ ready' \in {ready, ready \/ (setup.policy = "globalcancel" /\ answered' # {})}
  /\ ctx' = Contexts(answered')
  /\ pc' = "collect"
  /\ UNCHANGED <<setup, curr, runs, backend, recall, outputVars>>

\* Those of them that are defined are merged, in order, and listed, answered or not.
\* (Mutant: the contexts of the configured services are merged.)
Merged(s) == [t \in Services |-> IF ctx[s][t] = 0 THEN backend[t] ELSE <<ctx[s][t]>>]

CollectConfigured ==
  /\ pc = "collect" /\ at <= Len(Taken)
  /\ Taken[at] \in Known
  /\ backend' = IF at <= Len(Node.recall) THEN Merged(Node.recall[at]) ELSE backend
  /\ recall' = recall \cup {Taken[at]}
  /\ at' = at + 1
  /\ UNCHANGED <<setup, pc, curr, runs, helperVars, called, answered, ctx, output, next, result,
                 response>>

Collect ==
  /\ pc = "collect" /\ at <= Len(Taken)
  /\ IF Taken[at] \in Known
     THEN backend' = Merged(Taken[at]) /\ recall' = recall \cup {Taken[at]}
     ELSE UNCHANGED <<backend, recall>>
  /\ at' = at + 1
  /\ UNCHANGED <<setup, pc, curr, runs, helperVars, called, answered, ctx, output, next, result,
                 response>>

Collected ==
  /\ pc = "collect" /\ at = Len(Taken) + 1
  /\ at' = 1
  /\ pc' = "rank"
  /\ UNCHANGED <<setup, curr, runs, helperVars, recallVars, output, next, result, response>>

-----------------------------------------------------------------------------
(* Rank and output.                                                        *)

Rank ==
  /\ pc = "rank"
  /\ pc' = "branch" \/ Fail
  /\ UNCHANGED <<setup, curr, runs, helperVars, recallVars, outputVars>>

\* FlowConfig::output.  An if block whose condition is false is passed.
\* (Mutant: the last one is not noticed.)
IfFalseTooFar ==
  /\ pc = "branch" /\ at <= Len(Node.ifs) + 1
  /\ at' = at + 1
  /\ UNCHANGED <<setup, pc, curr, runs, helperVars, recallVars, output, next, result, response>>

IfFalse ==
  /\ pc = "branch" /\ at <= Len(Node.ifs)
  /\ at' = at + 1
  /\ UNCHANGED <<setup, pc, curr, runs, helperVars, recallVars, output, next, result, response>>

\* One that holds is chosen, its own definitions and output evaluated or not.
IfChosen ==
  /\ pc = "branch" /\ at <= Len(Node.ifs)
  /\ output' \in SUBSET Keys
  /\ next' = Node.ifs[at]
  /\ pc' = "merge"
  /\ UNCHANGED <<setup, curr, runs, helperVars, recallVars, at, result, response>>

\* A condition that cannot be evaluated leaves no cond, and the node fails.
IfFails ==
  /\ pc = "branch" /\ at <= Len(Node.ifs)
  /\ Fail
  /\ UNCHANGED <<setup, curr, runs, helperVars, recallVars, outputVars>>

Default ==
  /\ pc = "branch" /\ at = Len(Node.ifs) + 1
  /\ \/ Fail /\ UNCHANGED <<output, next>>
     \/ pc' = "merge" /\ output' \in SUBSET Keys /\ next' = Node.next
  /\ UNCHANGED <<setup, curr, runs, helperVars, recallVars, at, result, response>>

\* single_node merges the output into the result, where later nodes replace
\* what earlier ones wrote; inner_run goes on, or hands the result over.
\* (Mutant: the response is written at every node.)
MergeEarly ==
  /\ pc = "merge"
  /\ result' = [k \in Keys |-> IF k \in output THEN runs ELSE result[k]]
  /\ response' = result'
  /\ IF next = NoName THEN pc' = "done" /\ UNCHANGED curr ELSE pc' = "find" /\ curr' = next
  /\ UNCHANGED <<setup, runs, helperVars, recallVars, at, output, next>>

MergeOutput ==
  /\ pc = "merge"
  /\ result' = [k \in Keys |-> IF k \in output THEN runs ELSE result[k]]
  /\ IF next = NoName THEN pc' = "done" /\ response' = result' /\ UNCHANGED curr
                  ELSE pc' = "find" /\ curr' = next /\ UNCHANGED response
  /\ UNCHANGED <<setup, runs, helperVars, recallVars, at, output, next>>

\* The request is over, or goes on past the bound of the model.
Over ==
  /\ pc \in {"done", "failed"} \/ (pc = "find" /\ runs = MaxRuns)
  /\ UNCHANGED vars

\* What the code does when every expression can be evaluated.
Evaluated ==
  \/ FindNode \/ Intervene
  \/ RecallSync \/ RecallRefused \/ RecallQuit \/ RecallAsync \/ Collect \/ Collected
  \/ Rank \/ IfFalse \/ IfChosen \/ Default \/ MergeOutput

Next == Evaluated \/ DefFails \/ IfFails \/ Over

\* One thread serves the request and goes on as long as it can; that an expression
\* fails, and so ends a request, is not to be relied on.
Spec == Init /\ [][Next]_vars /\ WF_vars(Evaluated)

-----------------------------------------------------------------------------
(* Properties.                                                             *)

\* The client receives the result of a request that reached the end of its flow,
\* all of it, or nothing: never what a request that failed at a later node had
\* merged so far.
ResponseIsWhole == response = Nothing \/ (pc = "done" /\ response = result)

\* "$recall holds the services the node has successfully recalled"
\* (docs/config.md:324): the candidates a node ranks are services that the node
\* itself was to recall, not another node's.
RecallIsTheNodes == pc \in {"rank", "branch"} => recall \subseteq ToSet(ToRecall)

\* What $backend holds of a service that has just answered is that answer
\* (docs/config.md:59).
BackendIsFresh ==
  pc \in {"rank", "branch"} => \A s \in answered : Found(backend, s) = runs

\* No answer is lost, whatever nodes follow: $backend goes on holding one of
\* each service that has answered in the request.
BackendKept == [][\A s \in Services : Found(backend, s) # 0 => Found(backend', s) # 0]_vars

\* Under globalcancel the ids last as long as the request: a service is called at
\* most once, and after a quit no later node calls any.
CalledOnce ==
  [][setup.policy = "globalcancel" /\ called' # called /\ called' # {} =>
       ~ready /\ called' \cap reg = {}]_vars

\* A request ends, or goes on from node to node for ever: nothing inside a node
\* goes round for ever, where interventions have no cycle.
RequestEnds == <>(pc \in {"done", "failed"} \/ runs = MaxRuns)
=============================================================================

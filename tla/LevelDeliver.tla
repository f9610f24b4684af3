----------------------------- MODULE LevelDeliver -----------------------------
(***************************************************************************)
(* A request under the leveldeliver policy.  At start-up every             *)
(* deliver_config makes a node of its own, named after its classifying     *)
(* service; the user's node recalls the classifiers, and the closure of    *)
(* each recalls the generated node, without the services that the          *)
(* classifier's answer filters out (GlobalClosure::Run,                    *)
(* CascadeAsyncPolicy, FlowConfig::filterout_by_response).  The ids are    *)
(* the request's, as under globalcancel; the quit, and the locks, are      *)
(* AsyncRecall's matter and left out here.                                 *)
(***************************************************************************)
EXTENDS Integers, Sequences, FiniteSets, SequencesExt

CONSTANTS
  Services,     \* names of services
  Setups        \* the configurations, with the answers their services may give

Top == "top"    \* the frame of the serving thread; a closure's is its service
Frames == Services \cup {Top}

\* The empty name, of nothing.
NoName == ""

\* A value has a JSON type, and what a comparison within that type sees; an answer is a
\* list of values, if it is an array.
Values == [type : {"string", "number", "true", "false", "null"}, n : Int]
Answers == [array : BOOLEAN, items : Seq(Values)]

\* A deliver_config, and a node: the services it recalls and where each leads (NoName:
\* nowhere), or its deliver_configs; and the nodes that may follow (NoName ends).
Rules == [classifier : Services, classNum : Nat \ {0},
          targets : Seq([service : Services, threshold : Values])]
NodeAssumption(n) ==
  /\ n.leads \in Seq([service : Services, next : STRING])
  /\ n.delivers \in Seq(Rules)
  /\ n.after # {}

ASSUME DeliverAssumption ==
  /\ Top \notin Services /\ NoName \notin Frames
  /\ \A p \in Setups :
       /\ p.start \in DOMAIN p.flow
       /\ \A n \in DOMAIN p.flow : NodeAssumption(p.flow[n])
       /\ \A s \in Services : p.answers[s] \subseteq Answers

VARIABLES
  setup,        \* the configuration
  cascade,      \* the generated nodes, by name
  pc,           \* where the serving thread is
  curr,         \* the node
  pos,          \* what each frame's loop over its services has come to
  reg,          \* the services with an id in _call_ids
  st,           \* how far the call of a service, or its closure, is
  caller,       \* the frame that registered it
  next,         \* the node its closure goes on to
  answer,       \* the answer of a service
  skip,         \* the _filterout_services of a frame's helper
  ctx,          \* the results in a service's context
  backend       \* the results in the top context

vars == <<setup, cascade, pc, curr, pos, reg, st, caller, next, answer, skip, ctx, backend>>
callVars == <<pos, st, caller, next, answer, skip, ctx>>

Over == {"ended", "failed", "gave_up"}
Suffix == "__NEXT"
Silence == [array |-> FALSE, items |-> <<>>]

UserNodes == DOMAIN setup.flow
FlowMap == UserNodes \cup DOMAIN cascade

TypeOK ==
  /\ setup \in Setups
  /\ pc \in {"find", "recall", "join", "after", "done", "failed", "refused", "crash"}
  /\ reg \subseteq Services /\ backend \subseteq reg
  /\ st \in [Services -> {"none", "made", "flight", "filter", "deliver", "join"} \cup Over]
  /\ \A s \in Services : st[s] # "none" => s \in reg /\ caller[s] \in Frames
  /\ pos \in [Frames -> Nat \ {0}]
  /\ skip \in [Frames -> SUBSET Services]
  /\ \A s \in Services : answer[s] = Silence \/ answer[s] \in setup.answers[s]
  /\ ctx \in [Services -> SUBSET Services]

-----------------------------------------------------------------------------
(* Start-up.                                                               *)

RulesOf(p) == UNION {ToSet(p.flow[n].delivers) : n \in DOMAIN p.flow}
Generated(r) == r.classifier \o Suffix

\* A string with a suffix is a string, and not empty.
ASSUME GeneratedAssumption ==
  \A p \in Setups : \A r \in RulesOf(p) : Generated(r) \in STRING \ {NoName}

\* The number of classes fits the services, no service leads to its own node, and
\* no node has a generated name.
Accepts(p) ==
  /\ \A r \in RulesOf(p) : Len(r.targets) = r.classNum - 1 /\ Generated(r) \notin DOMAIN p.flow
  /\ \A n \in DOMAIN p.flow : \A i \in DOMAIN p.flow[n].leads : p.flow[n].leads[i].next # n

\* A node keeps the first of its deliver_configs for a classifier; of several nodes'
\* the one is kept that the loop over an unordered map comes to first.
RulesFor(p, g) ==
  {r \in RulesOf(p) : \E n \in DOMAIN p.flow : \E i \in DOMAIN p.flow[n].delivers :
     /\ p.flow[n].delivers[i] = r /\ Generated(r) = g
     /\ \A j \in 1..i - 1 : Generated(p.flow[n].delivers[j]) # g}
Cascades(p) ==
  LET names == {Generated(r) : r \in RulesOf(p)}
  IN  {c \in [names -> RulesOf(p)] : \A g \in names : c[g] \in RulesFor(p, g)}

Init ==
  /\ setup \in Setups
  /\ cascade \in Cascades(setup)
  /\ pc = IF Accepts(setup) THEN "find" ELSE "refused"
  /\ curr = setup.start
  /\ reg = {} /\ backend = {}
  /\ pos = [f \in Frames |-> 1] /\ skip = [f \in Frames |-> {}]
  /\ st = [s \in Services |-> "none"] /\ caller = [s \in Services |-> NoName]
  /\ next = [s \in Services |-> NoName] /\ answer = [s \in Services |-> Silence]
  /\ ctx = [s \in Services |-> {}]

-----------------------------------------------------------------------------
(* What a node recalls.                                                    *)

\* recall_config if there is one, or else the classifiers; a generated node recalls
\* its targets, which lead nowhere.
Leads(n) ==
  IF n \in DOMAIN cascade
  THEN [i \in DOMAIN cascade[n].targets |-> [service |-> cascade[n].targets[i].service, next |-> NoName]]
  ELSE IF setup.flow[n].leads # <<>> THEN setup.flow[n].leads
  ELSE [i \in DOMAIN setup.flow[n].delivers |->
          [service |-> setup.flow[n].delivers[i].classifier,
           next |-> Generated(setup.flow[n].delivers[i])]]
ServiceList(n) == {Leads(n)[i].service : i \in DOMAIN Leads(n)}

NodeOf(f) == IF f = Top THEN curr ELSE next[f]

\* Where a frame's loop is, unless it is over.
Looping(f) == pos[f] \in DOMAIN Leads(NodeOf(f))
Lead(f) == Leads(NodeOf(f))[pos[f]]

\* Whether a value of the answer keeps a target out.
Conflicts(v, threshold) ==
  \/ v.type # threshold.type
  \/ v.type = "string" /\ v.n # threshold.n
  \/ v.type = "number" /\ v.n < threshold.n

\* Nothing is filtered out by an answer that is no array, is empty, has one element
\* that is no string, or another number of elements than classes.  One string stands
\* for every class.
Readable(a) == a.array /\ a.items # <<>> /\ (Len(a.items) = 1 => a.items[1].type = "string")
Filterout(r, a) ==
  LET at(i) == a.items[IF Len(a.items) = 1 THEN 1 ELSE i + 1]
  IN  IF ~Readable(a) \/ Len(a.items) \notin {1, r.classNum} THEN {}
      ELSE {r.targets[i].service : i \in {i \in DOMAIN r.targets : Conflicts(at(i), r.targets[i].threshold)}}

-----------------------------------------------------------------------------
(* The recall of a node, by the serving thread or a closure.               *)

\* New contexts and controllers, with what earlier nodes have brought.
FindNode ==
  /\ pc = "find"
  /\ pc' = IF curr \in FlowMap THEN "recall" ELSE "failed"
  /\ pos' = [f \in Frames |-> 1] /\ skip' = [f \in Frames |-> {}]
  /\ st' = [s \in Services |-> "none"] /\ caller' = [s \in Services |-> NoName]
  /\ next' = [s \in Services |-> NoName] /\ answer' = [s \in Services |-> Silence]
  /\ ctx' = [s \in Services |-> backend]
  /\ UNCHANGED <<setup, cascade, curr, reg, backend>>

Recalling(f) == IF f = Top THEN pc = "recall" ELSE pc = "join" /\ st[f] = "deliver"

\* The id of the call is set, and the controller has its next node.
\* (Mutant: the id is not stored.)
AdmitUnlisted(f, lead) ==
  /\ st' = [st EXCEPT ![lead.service] = "made"]
  /\ caller' = [caller EXCEPT ![lead.service] = f]
  /\ next' = [next EXCEPT ![lead.service] = lead.next]
  /\ pos' = [pos EXCEPT ![f] = @ + 1]
  /\ UNCHANGED reg
Admit(f, lead) ==
  /\ reg' = reg \cup {lead.service}
  /\ st' = [st EXCEPT ![lead.service] = "made"]
  /\ caller' = [caller EXCEPT ![lead.service] = f]
  /\ next' = [next EXCEPT ![lead.service] = lead.next]
  /\ pos' = [pos EXCEPT ![f] = @ + 1]

\* What is filtered out is passed over; a service that has an id already ends the
\* frame's recall, and the calls it has registered are never issued.
\* (Mutant: it is tried again.)
RegisterWaits(f) ==
  /\ Recalling(f) /\ Looping(f)
  /\ IF Lead(f).service \in reg THEN UNCHANGED <<reg, st, caller, next, pos>> ELSE Admit(f, Lead(f))
  /\ UNCHANGED <<setup, cascade, pc, curr, answer, skip, ctx, backend>>
Register(f) ==
  /\ Recalling(f) /\ Looping(f)
  /\ \/ /\ Lead(f).service \in skip[f]
        /\ pos' = [pos EXCEPT ![f] = @ + 1]
        /\ UNCHANGED <<pc, reg, st, caller, next>>
     \/ /\ Lead(f).service \notin skip[f] \cup reg
        /\ Admit(f, Lead(f)) /\ UNCHANGED pc
     \/ /\ Lead(f).service \in reg \ skip[f]
        /\ IF f = Top THEN pc' = "failed" /\ UNCHANGED st
           ELSE st' = [st EXCEPT ![f] = "gave_up"] /\ UNCHANGED pc
        /\ UNCHANGED <<reg, caller, next, pos>>
  /\ UNCHANGED <<setup, cascade, curr, answer, skip, ctx, backend>>

\* The second loop, and the wait for what it has issued.
Issue(f) ==
  /\ Recalling(f) /\ ~Looping(f)
  /\ pc' = IF f = Top THEN "join" ELSE pc
  /\ st' = [s \in Services |-> IF caller[s] = f THEN "flight" ELSE IF s = f THEN "join" ELSE st[s]]
  /\ UNCHANGED <<setup, cascade, curr, pos, reg, caller, next, answer, skip, ctx, backend>>

Joined(f) == \A s \in Services : caller[s] = f => st[s] \in Over

-----------------------------------------------------------------------------
(* The calls (external), and a closure's Run.                              *)

\* The call is answered, and the answer parsed into the service's context.
Answer(s) ==
  /\ pc = "join" /\ st[s] = "flight"
  /\ \E a \in setup.answers[s] : answer' = [answer EXCEPT ![s] = a]
  /\ ctx' = [ctx EXCEPT ![s] = @ \cup {s}]
  /\ st' = [st EXCEPT ![s] = IF next[s] = NoName THEN "ended" ELSE "filter"]
  /\ UNCHANGED <<setup, cascade, pc, curr, pos, reg, caller, next, skip, backend>>

\* It fails, by its timeout at the latest, or its answer cannot be parsed.
CallFails(s) ==
  /\ pc = "join" /\ st[s] = "flight"
  /\ st' = [st EXCEPT ![s] = "failed"]
  /\ UNCHANGED <<setup, cascade, pc, curr, pos, reg, caller, next, answer, skip, ctx, backend>>

\* The helper that get_filterout_services fills is the closure's own.
\* (Mutant: one helper for all closures.)
FillShared(s, out) == [f \in Frames |-> out]
Fill(s, out) == [skip EXCEPT ![s] = out]

\* On to the next node, if there is one: every service of its list, filtered out or
\* not, gets a copy of the closure's `backend', then the answer is looked at.  A
\* user's node has no _deliver_config, and dereferences null for an answer that would
\* be compared.
Filter(s) ==
  /\ pc = "join" /\ st[s] = "filter"
  /\ \/ next[s] \notin FlowMap
        /\ st' = [st EXCEPT ![s] = "gave_up"]
        /\ UNCHANGED <<pc, skip, ctx>>
     \/ next[s] \in UserNodes /\ Readable(answer[s])
        /\ pc' = "crash"
        /\ UNCHANGED <<st, skip, ctx>>
     \/ next[s] \in FlowMap /\ (next[s] \in UserNodes => ~Readable(answer[s]))
        /\ st' = [st EXCEPT ![s] = "deliver"]
        /\ skip' = Fill(s, IF next[s] \in UserNodes THEN {} ELSE Filterout(cascade[next[s]], answer[s]))
        /\ ctx' = [t \in Services |-> IF t \in ServiceList(next[s]) THEN ctx[s] ELSE ctx[t]]
        /\ UNCHANGED pc
  /\ UNCHANGED <<setup, cascade, curr, pos, reg, caller, next, answer, backend>>

\* When its recall has returned, the results of the whole list are merged back.
\* (Mutant: it does not wait.)
MergeEarly(s) ==
  /\ pc = "join" /\ st[s] = "join"
  /\ ctx' = [ctx EXCEPT ![s] = @ \cup UNION {ctx[t] : t \in ServiceList(next[s])}]
  /\ st' = [st EXCEPT ![s] = "ended"]
  /\ UNCHANGED <<setup, cascade, pc, curr, pos, reg, caller, next, answer, skip, backend>>
Merge(s) ==
  /\ pc = "join" /\ st[s] = "join" /\ Joined(s)
  /\ ctx' = [ctx EXCEPT ![s] = @ \cup UNION {ctx[t] : t \in ServiceList(next[s])}]
  /\ st' = [st EXCEPT ![s] = "ended"]
  /\ UNCHANGED <<setup, cascade, pc, curr, pos, reg, caller, next, answer, skip, backend>>

\* The node's recall has returned: kernel_process merges the contexts of its services.
MergeNode ==
  /\ pc = "join" /\ Joined(Top)
  /\ pc' = "after"
  /\ backend' = backend \cup UNION {ctx[s] : s \in ServiceList(curr)}
  /\ UNCHANGED <<setup, cascade, curr, reg, callVars>>

\* The node that follows, as FlowRun has it in detail.
Leave ==
  /\ pc = "after"
  /\ \E n \in setup.flow[curr].after :
       IF n = NoName THEN pc' = "done" /\ UNCHANGED curr ELSE pc' = "find" /\ curr' = n
  /\ UNCHANGED <<setup, cascade, reg, callVars, backend>>

Stop == pc \in {"done", "failed", "refused", "crash"} /\ UNCHANGED vars

Frame(f) == Register(f) \/ Issue(f)
Closure(s) == Frame(s) \/ Answer(s) \/ CallFails(s) \/ Filter(s) \/ Merge(s)
Serve == FindNode \/ Frame(Top) \/ MergeNode \/ Leave

Next == Serve \/ (\E s \in Services : Closure(s)) \/ Stop

\* Threads go on, and a call ends by its timeout at the latest.
Spec == Init /\ [][Next]_vars /\ WF_vars(Serve) /\ \A s \in Services : WF_vars(Closure(s))

-----------------------------------------------------------------------------
(* Properties.                                                             *)

\* What a classifier's answer asks for, by the node's own deliver_config: the targets
\* whose thresholds it reaches, or all of them if it does not classify.
Classifies(r, a) ==
  /\ a.array
  /\ \/ Len(a.items) = r.classNum /\ r.classNum > 1
     \/ Len(a.items) = 1 /\ a.items[1].type = "string"
Reaches(v, threshold) ==
  /\ v.type = threshold.type
  /\ v.type = "string" => v.n = threshold.n
  /\ v.type = "number" => v.n >= threshold.n
Due(r, a) ==
  {r.targets[i].service : i \in
     {i \in DOMAIN r.targets : Classifies(r, a) =>
        Reaches(IF Len(a.items) = 1 THEN a.items[1] ELSE a.items[i + 1], r.targets[i].threshold)}}

Classifying == setup.flow[curr].leads = <<>>
OwnRules == ToSet(setup.flow[curr].delivers)

\* "The target services are executed when the classifying service's result meets the
\* configured condition" (docs/config.md:304): a classifier's closure calls what its own
\* answer asks for and nothing else, whatever the other classifiers' closures do meanwhile;
\* and all of it, once the node's recall has returned, unless the recall of the generated
\* node was refused.
DueAreCalled ==
  pc \in {"join", "after"} /\ Classifying =>
    \A r \in OwnRules, t \in Services :
      /\ caller[t] = r.classifier => t \in Due(r, answer[r.classifier])
      /\ pc = "after" /\ st[r.classifier] = "ended" /\ t \in Due(r, answer[r.classifier]) =>
           caller[t] = r.classifier /\ st[t] \in {"ended", "failed"}

\* Every answer of the node's recall has reached the top context ("3. merge recall
\* results", recurrent_policy.cpp:58), a delivered service's by way of its classifier,
\* unless the classifier's closure was refused.
ResultsKept ==
  pc = "after" =>
    \A s \in Services :
      /\ answer[s] # Silence
      /\ caller[s] = Top \/ st[caller[s]] = "ended"
      => s \in backend

\* Every request comes to an end.
RequestEnds == <>(pc \in {"done", "failed", "refused", "crash"})
=============================================================================

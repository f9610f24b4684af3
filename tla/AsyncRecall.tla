------------------------------ MODULE AsyncRecall ------------------------------
(***************************************************************************)
(* The recall phase of a flow node under the asynchronous policies         *)
(* (recurrent and globalcancel).  BackendEngine::run(flow_policy,          *)
(* recall_config, ...) issues the calls of a node and joins them; the      *)
(* GlobalClosure of each call, on a brpc thread, parses the answer into    *)
(* the service's own context, may run a whole further node (the service's  *)
(* next_flow) before it returns, and then may cancel: the calls of its own *)
(* node, or, under globalcancel, every call of the request, when the       *)
(* results gathered so far meet the quit condition.  CallIdsVecThreadSafe  *)
(* holds the ids of the request's calls and whether it has quit.           *)
(*                                                                         *)
(* A frame is one activation of BackendEngine::run: that of the serving    *)
(* thread (Root), or the one a closure runs, named by the closure's call.  *)
(* A service is its index in _service_context_index.  A context is the set *)
(* of the services its `backend' object has members of.                    *)
(***************************************************************************)
EXTENDS Integers, Sequences, FiniteSets

CONSTANTS
  N,            \* number of services
  Dynamic,      \* the services whose backend is dynamic
  Subs,         \* controllers a dynamic service may put in its list
  SubOwner,     \* the dynamic service a sub belongs to
  Root,         \* the serving thread's frame
  Nodes,        \* the names a _flow_map may have
  Start,        \* the node the serving thread runs
  Setups        \* the configurations of the request's policy to consider

Services == 1..N
Cntls == Services \cup Subs
Frames == Cntls \cup {Root}

\* The empty name, of no node.
NoName == ""

\* A flow node: recall_service names with next_flow and priority, cancel_order,
\* the service an intervention replaces them by (0 when it has none), and the node an
\* intervention may lead to (NoName when it has none).
NodeConfigs == [recall : Seq(Services) \ {<<>>}, intervene : 0..N, toFlow : STRING,
                next : [Services -> STRING], order : STRING, prio : [Services -> Int]]

\* A policy: its nodes; whether _call_ids_ptr is set (globalcancel, otherwise
\* recurrent); the results for which the quit condition is true, and those for
\* which its evaluation fails; and whether brpc's timeouts end every issued call.
SetupAssumption(p) ==
  /\ p.flow \in [DOMAIN p.flow -> NodeConfigs]
  /\ Start \in DOMAIN p.flow /\ DOMAIN p.flow \subseteq Nodes
  /\ p.hasIds \in BOOLEAN
  /\ p.quitWhen \subseteq SUBSET Services /\ p.quitFails \subseteq SUBSET Services
  /\ p.timeouts \in BOOLEAN

ASSUME FlowAssumption ==
  /\ N \in Nat \ {0}
  /\ Dynamic \subseteq Services
  /\ Subs \cap Services = {}
  /\ SubOwner \in [Subs -> Dynamic]
  /\ Root \notin Cntls
  /\ NoName \notin Nodes
  /\ \A p \in Setups : SetupAssumption(p)

VARIABLES
  setup,      \* the configuration, which no step changes
  fpc,        \* the loop of run() a frame is in
  fat,        \* the position that loop is at
  node,       \* the flow node it recalls
  built,      \* build_request_result_set
  home,       \* the frame that owns a controller
  call,       \* the brpc life cycle of a controller's call id
  failed,     \* why Controller::Failed() holds: "no" when it does not
  full,       \* the subs whose response_attachment is not empty
  cpc,        \* where GlobalClosure::Run is, for each call
  cat,        \* the position the loop it is in is at
  togo,       \* the ids it has yet to cancel
  seen,       \* what GlobalCancel has merged into the dummy context
  ctx,        \* the context of each service
  reg,        \* the ids in _call_ids and _multi_call_ids
  ready,      \* _is_ready
  mutex       \* the closure inside quit_flow, or Root when there is none

vars == <<setup, fpc, fat, node, built, home, call, failed, full, cpc, cat, togo, seen,
          ctx, reg, ready, mutex>>
frameVars == <<fpc, fat, node>>
brpcVars == <<call, failed, full>>
closureVars == <<cpc, cat, togo, seen>>
idsVars == <<reg, ready, mutex>>

Flow == setup.flow
HasIds == setup.hasIds

Owner(c) == IF c \in Subs THEN SubOwner[c] ELSE c
CallsOf(s) == IF s \in Dynamic THEN {c \in Subs : SubOwner[c] = s} ELSE {s}

\* The services a frame recalls, and the one it is at.
RecallList(n) == IF Flow[n].intervene = 0 THEN Flow[n].recall ELSE <<Flow[n].intervene>>
At(f) == RecallList(node[f])[fat[f]]

\* The node a call's service is recalled by, and the one it leads to.
NodeOf(c) == node[home[c]]
NextOf(c) == Flow[NodeOf(c)].next[Owner(c)]

FrameStates == {"off", "create", "build", "register", "join", "ok", "err", "crash"}
ClosureStates == {"check", "parse", "route", "around", "copy", "recall", "merge", "cancel",
                  "gather", "decide", "sweep", "quit", "quiet", "bad", "erred", "done"}

TypeOK ==
  /\ setup \in Setups
  /\ fpc \in [Frames -> FrameStates]
  /\ fat \in [Frames -> Nat]
  /\ \A f \in Frames : fat[f] \in 1..Len(RecallList(node[f]))
  /\ node \in [Frames -> DOMAIN Flow]
  /\ built \subseteq Services
  /\ home \in [Cntls -> Frames]
  /\ call \in [Cntls -> {"none", "idle", "flight", "locked", "ended"}]
  /\ failed \in [Cntls -> {"no", "net", "cancel"}]
  /\ full \subseteq Subs
  /\ cpc \in [Cntls -> ClosureStates]
  /\ cat \in [Cntls -> Nat]
  /\ togo \in [Cntls -> SUBSET Cntls]
  /\ seen \in [Cntls -> SUBSET Services]
  /\ ctx \in [Services -> SUBSET Services]
  /\ reg \subseteq Cntls
  /\ ready \in BOOLEAN
  /\ mutex \in Frames

Init ==
  /\ setup \in Setups
  /\ fpc = [f \in Frames |-> IF f = Root THEN "create" ELSE "off"]
  /\ fat = [f \in Frames |-> 1]
  /\ node = [f \in Frames |-> Start]
  /\ built = {}
  /\ home = [c \in Cntls |-> Root]
  /\ call = [c \in Cntls |-> "none"]
  /\ failed = [c \in Cntls |-> "no"]
  /\ full = {}
  /\ cpc = [c \in Cntls |-> IF c \in Subs THEN "check" ELSE "parse"]
  /\ cat = [c \in Cntls |-> 1]
  /\ togo = [c \in Cntls |-> {}]
  /\ seen = [c \in Cntls |-> {}]
  /\ ctx = [s \in Services |-> {}]
  /\ reg = {}
  /\ ready = FALSE
  /\ mutex = Root

-----------------------------------------------------------------------------
(* A frame: FlowConfig::recall and BackendEngine::run.                     *)

\* End of an iteration of a loop of the frame's: the next position, or the next
\* loop.  (Mutant: one iteration too many.)
AdvanceTooFar(f, loop, next) ==
  IF fat[f] <= Len(RecallList(node[f]))
  THEN fat' = [fat EXCEPT ![f] = @ + 1] /\ fpc' = [fpc EXCEPT ![f] = loop]
  ELSE fat' = [fat EXCEPT ![f] = 1] /\ fpc' = [fpc EXCEPT ![f] = next]

Advance(f, loop, next) ==
  IF fat[f] < Len(RecallList(node[f]))
  THEN fat' = [fat EXCEPT ![f] = @ + 1] /\ fpc' = [fpc EXCEPT ![f] = loop]
  ELSE fat' = [fat EXCEPT ![f] = 1] /\ fpc' = [fpc EXCEPT ![f] = next]

\* run() returns: the controllers are destroyed, and with them the ids of calls
\* that were never issued.
Leave(f, result) ==
  /\ fpc' = [fpc EXCEPT ![f] = result]
  /\ fat' = [fat EXCEPT ![f] = 1]
  /\ call' = [c \in Cntls |-> IF home[c] = f /\ call[c] = "idle" THEN "ended" ELSE call[c]]

\* Before run(): the definitions of the node, or the source of its intervention,
\* cannot be evaluated.
DefFails(f) ==
  /\ fpc[f] = "create" /\ fat[f] = 1
  /\ Leave(f, "err")
  /\ UNCHANGED <<setup, node, built, home, failed, full, closureVars, ctx, idsVars>>

\* set_call_id, under the mutex of the ids: -1 when the service has an id already,
\* 1 when the request has quit, 0 otherwise.  A dynamic service also has a list of
\* ids, which only the frame that holds its own id gets to set.
SetCallId(s) == IF s \in reg THEN -1 ELSE IF ready THEN 1 ELSE 0
SetCallIds(s) == IF ready THEN 1 ELSE 0

\* The first loop: a controller, whose id is registered where there are ids.
\* Without ids a service recalled twice would have two controllers: the model has
\* one per service, and stops there.
Create(f) ==
  /\ fpc[f] = "create"
  /\ IF HasIds THEN mutex = Root ELSE call[At(f)] = "none"
  /\ LET ret == IF HasIds THEN SetCallId(At(f)) ELSE 0 IN
     \/ ret = -1 /\ Leave(f, "err") /\ UNCHANGED <<home, reg>>
     \/ ret = 1 /\ Leave(f, "ok") /\ UNCHANGED <<home, reg>>
     \/ /\ ret = 0
        /\ call' = [call EXCEPT ![At(f)] = "idle"]
        /\ home' = [home EXCEPT ![At(f)] = f]
        /\ reg' = IF HasIds THEN reg \cup {At(f)} ELSE reg
        /\ Advance(f, "create", "build")
  /\ UNCHANGED <<setup, node, built, failed, full, closureVars, ctx, ready, mutex>>

\* CallMethod: a call cancelled before it is issued ends at once, as failed.
Issued(cs) ==
  [c \in Cntls |-> IF c \notin cs THEN call[c]
                   ELSE IF failed[c] = "no" THEN "flight" ELSE "locked"]

\* The second loop, build_request succeeding: the call of a static service, or a
\* call per element of dynamic_args, issued while the list is locked.
Build(f) ==
  /\ fpc[f] = "build"
  /\ At(f) \notin Dynamic
  /\ built' = built \cup {At(f)}
  /\ call' = Issued({At(f)})
  /\ Advance(f, "build", "join")
  /\ UNCHANGED <<setup, node, home, failed, full, closureVars, ctx, idsVars>>

BuildDynamic(f) ==
  /\ fpc[f] = "build"
  /\ At(f) \in Dynamic
  /\ built' = built \cup {At(f)}
  /\ \E cs \in SUBSET CallsOf(At(f)) :
       /\ call' = Issued(cs)
       /\ home' = [c \in Cntls |-> IF c \in cs THEN f ELSE home[c]]
  /\ fpc' = [fpc EXCEPT ![f] = "register"]
  /\ UNCHANGED <<setup, fat, node, failed, full, closureVars, ctx, idsVars>>

BuildFails(f) ==
  /\ fpc[f] = "build"
  /\ Advance(f, "build", "join")
  /\ UNCHANGED <<setup, node, built, home, brpcVars, closureVars, ctx, idsVars>>

\* The ids of a dynamic service's calls, registered after they were issued; there
\* is nothing to register them in under the recurrent policy.
\* (Mutant: _is_ready not looked at.)
Listed(s) == {c \in CallsOf(s) : call[c] # "none"}

RegisterLate(f) ==
  /\ fpc[f] = "register"
  /\ HasIds /\ mutex = Root
  /\ reg' = reg \cup Listed(At(f))
  /\ Advance(f, "build", "join")
  /\ UNCHANGED <<setup, call, node, built, home, failed, full, closureVars, ctx, ready, mutex>>

Register(f) ==
  /\ fpc[f] = "register"
  /\ HasIds /\ mutex = Root
  /\ \/ SetCallIds(At(f)) = 1 /\ Leave(f, "ok") /\ UNCHANGED reg
     \/ /\ SetCallIds(At(f)) = 0
        /\ reg' = reg \cup Listed(At(f))
        /\ Advance(f, "build", "join") /\ UNCHANGED call
  /\ UNCHANGED <<setup, node, built, home, failed, full, closureVars, ctx, ready, mutex>>

RegisterNull(f) ==
  /\ fpc[f] = "register" /\ ~HasIds
  /\ fpc' = [fpc EXCEPT ![f] = "crash"]
  /\ UNCHANGED <<setup, fat, node, built, home, brpcVars, closureVars, ctx, idsVars>>

\* Every issued call has ended: its closure has returned too.
\* (Mutant: waiting for the answers only.)
JoinedAnswers(f) == \A c \in Cntls : home[c] = f => call[c] # "flight"

Joined(f) ==
  \A c \in Cntls : home[c] = f /\ Owner(c) \in built => call[c] \notin {"flight", "locked"}

Join(f) ==
  /\ fpc[f] = "join"
  /\ Joined(f)
  /\ Leave(f, "ok")
  /\ UNCHANGED <<setup, node, built, home, failed, full, closureVars, ctx, idsVars>>

-----------------------------------------------------------------------------
(* brpc, external: calls end in any order.                                 *)

Reply(c) ==
  /\ call[c] = "flight"
  /\ call' = [call EXCEPT ![c] = "locked"]
  /\ full' \in IF c \in Subs THEN {full, full \cup {c}} ELSE {full}
  /\ UNCHANGED <<setup, frameVars, built, home, failed, closureVars, ctx, idsVars>>

Fail(c) ==
  /\ call[c] = "flight"
  /\ call' = [call EXCEPT ![c] = "locked"]
  /\ failed' = [failed EXCEPT ![c] = "net"]
  /\ UNCHANGED <<setup, frameVars, built, home, full, closureVars, ctx, idsVars>>

\* StartCancel on a call id: an issued call fails, one not yet issued is marked;
\* nothing happens to a call that is ending or has ended.
StartCancel(x) ==
  /\ failed' = IF call[x] \in {"idle", "flight"}
               THEN [failed EXCEPT ![x] = "cancel"] ELSE failed
  /\ call' = IF call[x] = "flight" THEN [call EXCEPT ![x] = "locked"] ELSE call

-----------------------------------------------------------------------------
(* GlobalClosure::Run, on the thread that ended call c.                    *)

\* Run returns at this point of the closure.
Stop(c, why) == cpc' = [cpc EXCEPT ![c] = why]

\* A closure of a dynamic service goes on when no call of the service is still
\* to be answered: a call that has an empty answer always is.
\* (Mutant: a failed call is waited for.)
UnfinishedOrFailed(s) == \E d \in Listed(s) : failed[d] # "no" \/ d \notin full

Unfinished(s) == \E d \in Listed(s) : failed[d] = "no" /\ d \notin full

Check(c) ==
  /\ call[c] = "locked" /\ cpc[c] = "check"
  /\ Stop(c, IF Unfinished(Owner(c)) THEN "quiet" ELSE "parse")
  /\ UNCHANGED <<setup, frameVars, built, home, brpcVars, cat, togo, seen, ctx, idsVars>>

\* ResponseCheck: the service's own controller must not have failed; the answer
\* is parsed and added to the service's context, which is locked.
\* (Mutant: Failed() is not looked at.)
ParseAny(c) ==
  /\ call[c] = "locked" /\ cpc[c] = "parse"
  /\ \/ Stop(c, "bad") /\ UNCHANGED ctx
     \/ /\ Stop(c, "route")
        /\ ctx' = [ctx EXCEPT ![Owner(c)] = @ \cup {Owner(c)}]
  /\ UNCHANGED <<setup, frameVars, built, home, brpcVars, cat, togo, seen, idsVars>>

Parse(c) ==
  /\ call[c] = "locked" /\ cpc[c] = "parse"
  /\ \/ failed[Owner(c)] # "no" /\ Stop(c, "quiet") /\ UNCHANGED ctx
     \/ failed[Owner(c)] = "no" /\ Stop(c, "bad") /\ UNCHANGED ctx
     \/ /\ failed[Owner(c)] = "no" /\ Stop(c, "route")
        /\ ctx' = [ctx EXCEPT ![Owner(c)] = @ \cup {Owner(c)}]
  /\ UNCHANGED <<setup, frameVars, built, home, brpcVars, cat, togo, seen, idsVars>>

\* The controller's lock, held to the end of Run: only closures of the calls of
\* one dynamic service compete for it.
Holding == {"around", "copy", "recall", "merge", "cancel", "gather", "decide", "sweep", "quit"}
LockFree(c) == \A d \in Cntls : d # c /\ Owner(d) = Owner(c) => cpc[d] \notin Holding

\* The service's next_flow; a name that is not in _flow_map, or an intervention
\* whose source cannot be evaluated, ends the closure before it cancels anything.  A
\* match of an intervention to a node is up to the context.
Route(c) ==
  /\ call[c] = "locked" /\ cpc[c] = "route"
  /\ LockFree(c)
  /\ \/ NextOf(c) = NoName /\ Stop(c, "cancel")
     \/ NextOf(c) # NoName /\ Stop(c, "erred")
     \/ NextOf(c) \in DOMAIN Flow /\ Stop(c, "copy")
     \/ NextOf(c) \in DOMAIN Flow /\ Flow[NextOf(c)].toFlow \in DOMAIN Flow /\ Stop(c, "around")
  /\ cat' = [cat EXCEPT ![c] = 1]
  /\ UNCHANGED <<setup, frameVars, built, home, brpcVars, togo, seen, ctx, idsVars>>

\* An intervention that has matched, and leads to a node that is there: the loop looks at
\* the same node and the same context again.
Around(c) ==
  /\ cpc[c] = "around"
  /\ UNCHANGED vars

\* Run walks the services the next node is configured with, whether or not an
\* intervention makes it recall another one.
NextList(c) == Flow[NextOf(c)].recall

\* Each of their contexts, locked, gets a copy of this service's; then the next
\* node is recalled by a frame of this closure's.
Copy(c) ==
  /\ cpc[c] = "copy"
  /\ ctx' = [ctx EXCEPT ![NextList(c)[cat[c]]] = ctx[Owner(c)]]
  /\ IF cat[c] < Len(NextList(c))
     THEN cat' = [cat EXCEPT ![c] = @ + 1] /\ UNCHANGED <<cpc, frameVars>>
     ELSE /\ cat' = [cat EXCEPT ![c] = 1]
          /\ Stop(c, "recall")
          /\ fpc' = [fpc EXCEPT ![c] = "create"]
          /\ fat' = [fat EXCEPT ![c] = 1]
          /\ node' = [node EXCEPT ![c] = NextOf(c)]
  /\ UNCHANGED <<setup, built, home, brpcVars, togo, seen, idsVars>>

Recalled(c) ==
  /\ cpc[c] = "recall"
  /\ \/ fpc[c] = "err" /\ Stop(c, "erred")
     \/ fpc[c] = "ok" /\ Stop(c, "merge")
  /\ UNCHANGED <<setup, frameVars, built, home, brpcVars, cat, togo, seen, ctx, idsVars>>

\* Their contexts are merged back into this service's.
\* (Mutants: the wrong way round; only the first; over and over.)
MergeBack(c) ==
  /\ cpc[c] = "merge"
  /\ ctx' = [ctx EXCEPT ![NextList(c)[cat[c]]] = @ \cup ctx[Owner(c)]]
  /\ IF cat[c] < Len(NextList(c))
     THEN cat' = [cat EXCEPT ![c] = @ + 1] /\ UNCHANGED cpc
     ELSE cat' = [cat EXCEPT ![c] = 1] /\ Stop(c, "cancel")
  /\ UNCHANGED <<setup, frameVars, built, home, brpcVars, togo, seen, idsVars>>

MergeFirst(c) ==
  /\ cpc[c] = "merge"
  /\ ctx' = [ctx EXCEPT ![Owner(c)] = @ \cup ctx[NextList(c)[1]]]
  /\ Stop(c, "cancel")
  /\ UNCHANGED <<setup, frameVars, built, home, brpcVars, cat, togo, seen, idsVars>>

MergeForever(c) ==
  /\ cpc[c] = "merge"
  /\ ctx' = [ctx EXCEPT ![Owner(c)] = @ \cup ctx[NextList(c)[cat[c]]]]
  /\ cat' = [cat EXCEPT ![c] = IF @ < Len(NextList(c)) THEN @ + 1 ELSE 1]
  /\ UNCHANGED <<setup, frameVars, built, home, brpcVars, cpc, togo, seen, idsVars>>

Merge(c) ==
  /\ cpc[c] = "merge"
  /\ ctx' = [ctx EXCEPT ![Owner(c)] = @ \cup ctx[NextList(c)[cat[c]]]]
  /\ IF cat[c] < Len(NextList(c))
     THEN cat' = [cat EXCEPT ![c] = @ + 1] /\ UNCHANGED cpc
     ELSE cat' = [cat EXCEPT ![c] = 1] /\ Stop(c, "cancel")
  /\ UNCHANGED <<setup, frameVars, built, home, brpcVars, togo, seen, idsVars>>

\* _rpc_ids, taken when the request is built: the static services of the frame
\* and the calls of the dynamic services built before this one.
Earlier(s, t, n) == \E i, j \in DOMAIN RecallList(n) :
                      i < j /\ RecallList(n)[i] = s /\ RecallList(n)[j] = t
RpcIds(c) ==
  {x \in Cntls \ Dynamic : /\ home[x] = home[c] /\ call[x] # "none"
                           /\ x \in Subs => Earlier(Owner(x), Owner(c), NodeOf(c))}

\* The ids that the node's cancel_order lets this closure cancel.
\* (Mutant: the comparison of the priorities reversed.)
PermittedUp(c) ==
  LET n == Flow[NodeOf(c)]
      prio(s) == IF n.intervene = 0 THEN n.prio[s] ELSE 0
  IN {x \in RpcIds(c) : \/ n.order = "ALL"
                        \/ n.order = "PRIORITY" /\ prio(Owner(x)) >= prio(Owner(c))
                        \/ n.order = "HIERACHY" /\ prio(Owner(x)) = prio(Owner(c))}

Permitted(c) ==
  LET n == Flow[NodeOf(c)]
      prio(s) == IF n.intervene = 0 THEN n.prio[s] ELSE 0
  IN {x \in RpcIds(c) : \/ n.order = "ALL"
                        \/ n.order = "PRIORITY" /\ prio(Owner(x)) <= prio(Owner(c))
                        \/ n.order = "HIERACHY" /\ prio(Owner(x)) = prio(Owner(c))}

\* cancel(): under GLOBAL_CANCEL look at the whole request, which needs the ids;
\* otherwise, if the service's success flag holds, cancel in the node.
Cancel(c) ==
  /\ cpc[c] = "cancel"
  /\ IF Flow[NodeOf(c)].order = "GLOBAL_CANCEL"
     THEN Stop(c, IF HasIds THEN "gather" ELSE "done") /\ UNCHANGED togo
     ELSE \/ Stop(c, "done") /\ UNCHANGED togo
          \/ Stop(c, "sweep") /\ togo' = [togo EXCEPT ![c] = Permitted(c)]
  /\ UNCHANGED <<setup, frameVars, built, home, brpcVars, cat, seen, ctx, idsVars>>

\* GlobalCancel merges every service's context, one lock at a time.
\* (Mutant: only this service's context.)
GatherOwn(c) ==
  /\ cpc[c] = "gather"
  /\ seen' = [seen EXCEPT ![c] = ctx[Owner(c)]]
  /\ IF cat[c] < N THEN cat' = [cat EXCEPT ![c] = @ + 1] /\ UNCHANGED cpc
                   ELSE cat' = [cat EXCEPT ![c] = 1] /\ Stop(c, "decide")
  /\ UNCHANGED <<setup, frameVars, built, home, brpcVars, togo, ctx, idsVars>>

Gather(c) ==
  /\ cpc[c] = "gather"
  /\ seen' = [seen EXCEPT ![c] = @ \cup ctx[cat[c]]]
  /\ IF cat[c] < N THEN cat' = [cat EXCEPT ![c] = @ + 1] /\ UNCHANGED cpc
                   ELSE cat' = [cat EXCEPT ![c] = 1] /\ Stop(c, "decide")
  /\ UNCHANGED <<setup, frameVars, built, home, brpcVars, togo, ctx, idsVars>>

\* The quit condition: a bool function that returns -1, which is true, when its
\* evaluation fails.
QuitCondition(c) == seen[c] \in setup.quitWhen \cup setup.quitFails

\* quit_flow, which takes the mutex of the ids.
\* (Mutant: only the ids of the closure's own node.)
QuitOwnNode(c) ==
  /\ cpc[c] = "decide" /\ QuitCondition(c)
  /\ mutex = Root
  /\ mutex' = c
  /\ togo' = [togo EXCEPT ![c] = reg \cap RpcIds(c)]
  /\ Stop(c, "quit")
  /\ UNCHANGED <<setup, frameVars, built, home, brpcVars, cat, seen, ctx, reg, ready>>

QuitFlow(c) ==
  /\ cpc[c] = "decide" /\ QuitCondition(c)
  /\ mutex = Root
  /\ mutex' = c
  /\ togo' = [togo EXCEPT ![c] = reg]
  /\ Stop(c, "quit")
  /\ UNCHANGED <<setup, frameVars, built, home, brpcVars, cat, seen, ctx, reg, ready>>

GoOn(c) ==
  /\ cpc[c] = "decide" /\ ~QuitCondition(c)
  /\ Stop(c, "done")
  /\ UNCHANGED <<setup, frameVars, built, home, brpcVars, cat, togo, seen, ctx, idsVars>>

\* One StartCancel of either loop.
Sweep(c, x) ==
  /\ cpc[c] \in {"sweep", "quit"} /\ x \in togo[c]
  /\ StartCancel(x)
  /\ togo' = [togo EXCEPT ![c] = @ \ {x}]
  /\ UNCHANGED <<setup, frameVars, built, home, full, cpc, cat, seen, ctx, idsVars>>

Swept(c) ==
  /\ cpc[c] = "sweep" /\ togo[c] = {}
  /\ Stop(c, "done")
  /\ UNCHANGED <<setup, frameVars, built, home, brpcVars, cat, togo, seen, ctx, idsVars>>

QuitDone(c) ==
  /\ cpc[c] = "quit" /\ togo[c] = {}
  /\ ready' = TRUE
  /\ mutex' = Root
  /\ Stop(c, "done")
  /\ UNCHANGED <<setup, frameVars, built, home, brpcVars, cat, togo, seen, ctx, reg>>

\* Run has returned, and brpc destroys the id.
RunReturns(c) ==
  /\ call[c] = "locked" /\ cpc[c] \in {"quiet", "bad", "erred", "done"}
  /\ call' = [call EXCEPT ![c] = "ended"]
  /\ UNCHANGED <<setup, frameVars, built, home, failed, full, closureVars, ctx, idsVars>>

-----------------------------------------------------------------------------
(* Whether the process survives a null pointer, or a controller used after  *)
(* run() destroyed it, is not modelled: the frame with the null pointer     *)
(* stops, and the destroyed controllers go on as if they were still there.  *)
Outlived(f) ==
  /\ fpc[f] \in {"ok", "err"}
  /\ \E c \in Cntls : home[c] = f /\ call[c] \in {"flight", "locked"}

Frame(f) ==
  \/ DefFails(f) \/ Create(f)
  \/ Build(f) \/ BuildDynamic(f) \/ BuildFails(f)
  \/ Register(f) \/ RegisterNull(f) \/ Join(f)

Closure(c) ==
  \/ Check(c) \/ Parse(c) \/ Route(c) \/ Around(c)
  \/ Copy(c) \/ Recalled(c) \/ Merge(c)
  \/ Cancel(c) \/ Gather(c) \/ QuitFlow(c) \/ GoOn(c)
  \/ (\E x \in Cntls : Sweep(c, x)) \/ Swept(c) \/ QuitDone(c)
  \/ RunReturns(c)

Returned == fpc[Root] \in {"ok", "err"}
Crashed == \E f \in Frames : fpc[f] = "crash"
Stopped == (Returned \/ Crashed) /\ UNCHANGED vars

Next ==
  \/ \E f \in Frames : DefFails(f) \/ Create(f) \/ Build(f) \/ BuildDynamic(f) \/ BuildFails(f)
                       \/ Register(f) \/ RegisterNull(f) \/ Join(f)
  \/ \E c \in Cntls : Reply(c) \/ Fail(c)
  \/ \E c \in Cntls : Check(c) \/ Parse(c) \/ Route(c) \/ Around(c) \/ Copy(c) \/ Recalled(c) \/ Merge(c)
                      \/ Cancel(c) \/ Gather(c) \/ QuitFlow(c) \/ GoOn(c) \/ Swept(c)
                      \/ QuitDone(c) \/ RunReturns(c)
  \/ \E c \in Cntls, x \in Cntls : Sweep(c, x)
  \/ Stopped

\* Threads are scheduled; where calls have timeouts, brpc ends each one issued.
Fairness ==
  /\ \A f \in Frames : WF_vars(Frame(f))
  /\ \A c \in Cntls : WF_vars(Closure(c)) /\ WF_vars(setup.timeouts /\ (Reply(c) \/ Fail(c)))

Spec == Init /\ [][Next]_vars /\ Fairness

-----------------------------------------------------------------------------
(* Properties.                                                             *)

\* The closure of call c has parsed the answer of its service.
Parsed(c) == cpc[c] \notin {"check", "parse", "quiet", "bad"}

\* The services whose answers have been received and parsed.
Answered == {Owner(c) : c \in {d \in Cntls : Parsed(d) /\ (d \in Services => failed[d] = "no")}}

NoneErred == \A c \in Cntls : cpc[c] # "erred"

\* What the serving thread merges into the flow's context after the recall.
Result == UNION {ctx[RecallList(Start)[i]] : i \in DOMAIN RecallList(Start)}

\* A call whose answer may still be used: issued, or about to be.
Open(x) == call[x] = "flight" \/ (call[x] = "idle" /\ failed[x] = "no")

\* "Wait util all service calls finish" (backend_engine.cpp:321): no call and no
\* closure is left of a frame that has returned, so the controllers that run()
\* destroys are not in use.
FramesOutliveCalls == \A f \in Frames : ~Outlived(f)

\* The request quits only if some closure found the quit condition true of
\* results that really were received (docs/config.md:368).
QuitHasReason ==
  ready => \E c \in Cntls : seen[c] \in setup.quitWhen /\ seen[c] \subseteq Answered

\* The condition is not missed by two closures that look at the same time: when
\* every node cancels globally and no closure gave up, a recall whose results
\* together meet the condition has quit.
QuitNotMissed ==
  fpc[Root] = "ok" /\ NoneErred /\ Answered \in setup.quitWhen => ready

\* What docs/config.md:364-367 says of each order, for two services of a node.
MayStop(n, winner, loser) ==
  CASE n.order = "ALL" -> TRUE
    [] n.order = "PRIORITY" -> n.prio[loser] <= n.prio[winner]
    [] n.order = "HIERACHY" -> n.prio[loser] = n.prio[winner]
    [] OTHER -> FALSE

\* A cancelled call has a winner: a call whose answer was received and parsed,
\* that was not itself cancelled and no longer can be, and which either belongs
\* to the same node and may stop it under the node's order, or met the quit
\* condition.  Closures never stop each other.
CancelJustified ==
  \A x \in Cntls : failed[x] = "cancel" =>
    \E c \in Cntls :
      /\ cpc[c] \in {"sweep", "quit", "done"}
      /\ c \in Services => failed[c] = "no" /\ call[c] \in {"locked", "ended"}
      /\ \/ seen[c] \in setup.quitWhen
         \/ home[c] = home[x] /\ MayStop(Flow[NodeOf(c)], Owner(c), Owner(x))

\* The results of a recall, nested nodes included, reach the flow's context,
\* unless a closure gave up.
ResultsKept == fpc[Root] = "ok" /\ NoneErred => Answered \subseteq Result

\* When the calls of a dynamic service have all ended, answered with some content
\* or failed, one of their closures has gone on to parse: closures that end
\* together do not all leave it to the others.
DynamicHeard ==
  \A s \in Dynamic :
    /\ s \in built /\ Listed(s) # {} /\ failed[s] = "no"
    /\ \A d \in Listed(s) : call[d] = "ended" /\ (d \in full \/ failed[d] # "no")
    => \E d \in Listed(s) : cpc[d] # "quiet"

\* "The results of all dynamic requests are merged into one array"
\* (docs/demo.md:423): the answers of a dynamic service are parsed once.
ParsedOnce == \A c, d \in Subs : Parsed(c) /\ Parsed(d) /\ c # d => SubOwner[c] # SubOwner[d]

\* The recall returns when calls have timeouts.
RecallReturns == setup.timeouts => <>Returned

\* After the quit the recall returns even if no call is ever answered: nothing
\* that the serving thread joins depends on a backend any more.
QuitDrains == ready ~> Returned

\* The promise CallIdsVecThreadSafe makes to the request: see QuitLatch.
Latch == INSTANCE QuitLatch WITH Calls <- Cntls,
                                 admitted <- reg,
                                 open <- {x \in reg : Open(x)},
                                 shut <- ready
LatchSpec == Latch!Spec
=============================================================================

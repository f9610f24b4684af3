------------------------------- MODULE Server -------------------------------
(***************************************************************************)
(* The HTTP server: UnifiedSchedulerServiceImpl::run serves each request   *)
(* on a thread of its own through UnifiedSchedulerManager::run, which      *)
(* parses it, finds or, for a stateless request, builds its scheduler,     *)
(* runs the flow and answers.  Requests share the manager, the pooled      *)
(* thread data that collects the log line of a request, and the channel    *)
(* of each HostDynHttpRequestPolicy of a loaded scheduler.                 *)
(*                                                                         *)
(* The flow is its outcome here (FlowRun has the inside): it succeeds with *)
(* an error_code of its own or 0, or it fails.  A path is "" for the whole *)
(* request; a configuration is at one path of the request, or nowhere.     *)
(***************************************************************************)
EXTENDS Integers, Sequences, FiniteSets

CONSTANTS
  Requests,     \* requests to serve
  Data,         \* objects in the pool of thread data
  NoData,       \* not one of them
  Kinds,        \* what a request may hold
  Setups        \* the server configurations to consider

\* Where a required parameter comes from: its default_value, param_path, param_expr,
\* or the request's member of that name.
Params == [name : STRING, from : {"default", "path", "expr", "member"}]

\* A configuration: the required parameters, input_config_path as written ("unset"
\* when it is not), editable_response, the loaded usids, and which schedulers have
\* a service with a host of its own per request.
SetupAssumption(p) ==
  /\ p.params \in Seq(Params)
  /\ \E i \in DOMAIN p.params : p.params[i].name = "usid"
  /\ p.path \in STRING /\ p.editable \in BOOLEAN
  /\ p.loaded \subseteq STRING
  /\ p.hosts \subseteq p.loaded \cup {"stateless"}

\* A request: whether it is JSON, what its parameters are, its usid, whether it has
\* an X_BD_LOGID header, where its configuration is and whether that loads, whether
\* its flow succeeds, and the error_code in the flow's result (0 for none).
KindAssumption(k) ==
  /\ k.json \in BOOLEAN /\ k.header \in BOOLEAN /\ k.loads \in BOOLEAN /\ k.flowOk \in BOOLEAN
  /\ k.params \in [DOMAIN k.params -> {"string", "missing", "other"}]
  /\ k.usid \in STRING /\ k.configAt \in STRING /\ k.code \in Int

ASSUME ServerAssumption ==
  /\ NoData \notin Data /\ Cardinality(Data) >= Cardinality(Requests)
  /\ \A p \in Setups : SetupAssumption(p)
  /\ \A k \in Kinds : KindAssumption(k)
  /\ \A p \in Setups, k \in Kinds : {p.params[i].name : i \in DOMAIN p.params} \subseteq DOMAIN k.params

VARIABLES
  setup,        \* the configuration, which no step changes
  kind,         \* what each request holds
  path,         \* _input_config_path
  pc,           \* where the thread of a request is
  at,           \* the required parameter it looks at
  pointer,      \* the path it has made a pointer of
  td,           \* its thread data
  logid,        \* the request whose logid an object of thread data has (a set)
  entries,      \* the requests whose entries it has
  host,         \* the request that last initialised a channel (a set)
  went,         \* the request whose host the call of a request went to (a set)
  sent,         \* what was appended to the response of a request
  logged        \* whose logid and entries its log line had

vars == <<setup, kind, path, pc, at, pointer, td, logid, entries, host, went, sent, logged>>
dataVars == <<td, logid, entries, logged>>
hostVars == <<host, went>>

States == {"start", "parse", "params", "header", "find", "path", "point", "load",
           "run", "call", "answer", "log", "done"}

\* An answer: the HTTP status, the error_code and whether it has a result.  Under
\* editable_response a result is the whole body, and there is no error_code (-1).
OK == 0
INVALID_JSON == 4001
MISSING_PARAM == 4002
USID_NOT_FOUND == 4003
INTERNAL_SERVER_ERROR == 5000

\* (Mutant: a wrong divisor.)
StatusHundreds(code) == IF code = OK THEN 200 ELSE (code \div 100) * 100
Status(code) == IF code = OK THEN 200 ELSE (code \div 1000) * 100

\* send_response: an error; and a result, whose own error_code takes the place of OK.
Error(code) == [status |-> Status(code), code |-> code, result |-> FALSE]
Result(code) ==
  [status |-> Status(OK), code |-> IF setup.editable THEN -1 ELSE code, result |-> TRUE]

Answers == [status : {200, 400, 500}, code : Int, result : BOOLEAN]

\* The scheduler that serves a request: one that was loaded, or its own.
Loaded(r) == kind[r].usid \in setup.loaded
\* (Mutant: stateless requests share one.)
SharedChannel(r) == IF Loaded(r) THEN kind[r].usid ELSE CHOOSE q \in Requests : TRUE
Channel(r) == IF Loaded(r) THEN kind[r].usid ELSE r
Channels == setup.loaded \cup Requests
HostPerRequest(r) == IF Loaded(r) THEN kind[r].usid \in setup.hosts ELSE "stateless" \in setup.hosts

Paths == {"", "/"} \cup {p.path : p \in Setups}

TypeOK ==
  /\ setup \in Setups
  /\ kind \in [Requests -> Kinds]
  /\ path \in Paths
  /\ pc \in [Requests -> States]
  /\ at \in [Requests -> Nat \ {0}]
  /\ pointer \in [Requests -> Paths]
  /\ td \in [Requests -> Data \cup {NoData}]
  /\ \A r, q \in Requests : r # q /\ td[r] = td[q] => td[r] = NoData
  /\ logid \in [Data -> SUBSET Requests] /\ entries \in [Data -> SUBSET Requests]
  /\ host \in [Channels -> SUBSET Requests] /\ went \in [Requests -> SUBSET Requests]
  /\ sent \in [Requests -> Seq(Answers)]
  /\ logged \in [Requests -> [logid : SUBSET Requests, entries : SUBSET Requests]]

\* init: an empty path becomes "/" (others, too, get a leading slash).
Rooted(p) == CASE p = "unset" -> "" [] p = "" -> "/" [] OTHER -> p

Init ==
  /\ setup \in Setups
  /\ kind \in [Requests -> Kinds]
  /\ path = Rooted(setup.path)
  /\ pc = [r \in Requests |-> "start"]
  /\ at = [r \in Requests |-> 1]
  /\ pointer = [r \in Requests |-> ""]
  /\ td = [r \in Requests |-> NoData]
  /\ logid = [d \in Data |-> {}] /\ entries = [d \in Data |-> {}]
  /\ host = [c \in Channels |-> {}]
  /\ went = [r \in Requests |-> {}]
  /\ sent = [r \in Requests |-> <<>>]
  /\ logged = [r \in Requests |-> [logid |-> {}, entries |-> {}]]

-----------------------------------------------------------------------------
Goto(r, place) == pc' = [pc EXCEPT ![r] = place]

\* The answer of a request, and the end of run().
Send(r, answer) ==
  /\ sent' = [sent EXCEPT ![r] = Append(@, answer)]
  /\ Goto(r, "log")

\* brpc, external: a thread borrows an object of the pool, as it was left.
Start(r) ==
  /\ pc[r] = "start"
  /\ \E d \in Data : (\A q \in Requests : td[q] # d) /\ td' = [td EXCEPT ![r] = d]
  /\ Goto(r, "parse")
  /\ UNCHANGED <<setup, kind, path, at, pointer, logid, entries, hostVars, sent, logged>>

AddEntry(r) == entries' = [entries EXCEPT ![td[r]] = @ \cup {r}]

Parse(r) ==
  /\ pc[r] = "parse"
  /\ AddEntry(r)
  /\ IF kind[r].json THEN Goto(r, "params") /\ UNCHANGED sent ELSE Send(r, Error(INVALID_JSON))
  /\ UNCHANGED <<setup, kind, path, at, pointer, td, logid, hostVars, logged>>

\* What a required parameter comes to: its value, or the error that ends the request.
Outcome(k, p) ==
  LET given == k.params[p.name] IN
  CASE p.from = "default" -> OK
    [] p.from = "path" -> IF given = "missing" THEN MISSING_PARAM ELSE OK
    [] p.from = "expr" -> IF given = "string" THEN OK ELSE INVALID_JSON
    [] p.from = "member" -> CASE given = "missing" -> MISSING_PARAM
                              [] given = "other" -> INVALID_JSON
                              [] given = "string" -> OK

Param(r) == setup.params[at[r]]
ParamsDone(r) == at[r] > Len(setup.params)

\* (Mutant: the parameter's error is sent, and the loop goes on.)
ParamFailsOn(r) ==
  /\ pc[r] = "params" /\ ~ParamsDone(r) /\ Outcome(kind[r], Param(r)) # OK
  /\ sent' = [sent EXCEPT ![r] = Append(@, Error(Outcome(kind[r], Param(r))))]
  /\ at' = [at EXCEPT ![r] = @ + 1]
  /\ UNCHANGED <<setup, kind, path, pc, pointer, dataVars, hostVars>>

ParamFails(r) ==
  /\ pc[r] = "params" /\ ~ParamsDone(r) /\ Outcome(kind[r], Param(r)) # OK
  /\ Send(r, Error(Outcome(kind[r], Param(r))))
  /\ UNCHANGED <<setup, kind, path, at, pointer, dataVars, hostVars>>

\* The logid goes to the thread data, another parameter to its entries.
TakeParam(r) ==
  /\ pc[r] = "params" /\ ~ParamsDone(r) /\ Outcome(kind[r], Param(r)) = OK
  /\ IF Param(r).name = "logid"
     THEN logid' = [logid EXCEPT ![td[r]] = {r}] /\ UNCHANGED entries
     ELSE AddEntry(r) /\ UNCHANGED logid
  /\ at' = [at EXCEPT ![r] = @ + 1]
  /\ UNCHANGED <<setup, kind, path, pc, pointer, td, hostVars, sent, logged>>

Parsed(r) ==
  /\ pc[r] = "params" /\ ParamsDone(r)
  /\ Goto(r, "header")
  /\ UNCHANGED <<setup, kind, path, at, pointer, dataVars, hostVars, sent>>

\* The header's logid is the last one.
Header(r) ==
  /\ pc[r] = "header"
  /\ logid' = IF kind[r].header THEN [logid EXCEPT ![td[r]] = {r}] ELSE logid
  /\ Goto(r, "find")
  /\ UNCHANGED <<setup, kind, path, at, pointer, td, entries, hostVars, sent, logged>>

-----------------------------------------------------------------------------
(* A scheduler for the request.                                            *)

Found(r) ==
  /\ pc[r] = "find" /\ Loaded(r)
  /\ Goto(r, "run")
  /\ UNCHANGED <<setup, kind, path, at, pointer, dataVars, hostVars, sent>>

\* The usid is unknown and there are no stateless requests.
NotFound(r) ==
  /\ pc[r] = "find" /\ ~Loaded(r) /\ path = ""
  /\ Send(r, Error(USID_NOT_FOUND))
  /\ UNCHANGED <<setup, kind, path, at, pointer, dataVars, hostVars>>

Stateless(r) ==
  /\ pc[r] = "find" /\ ~Loaded(r) /\ path # ""
  /\ Goto(r, "path")
  /\ UNCHANGED <<setup, kind, path, at, pointer, dataVars, hostVars, sent>>

\* "/" is the root, whose pointer is "".  The member itself is rewritten, without
\* a lock: another thread reads one or the other.  (Mutant: any path is.)
EmptyPath(r) ==
  /\ pc[r] = "path"
  /\ pointer' = [pointer EXCEPT ![r] = path]
  /\ path' = ""
  /\ Goto(r, "point")
  /\ UNCHANGED <<setup, kind, at, dataVars, hostVars, sent>>

RootPath(r) ==
  /\ pc[r] = "path"
  /\ path' = IF path = "/" THEN "" ELSE path
  /\ Goto(r, "point")
  /\ UNCHANGED <<setup, kind, at, pointer, dataVars, hostVars, sent>>

MakePointer(r) ==
  /\ pc[r] = "point"
  /\ pointer' = [pointer EXCEPT ![r] = path]
  /\ Goto(r, "load")
  /\ UNCHANGED <<setup, kind, path, at, dataVars, hostVars, sent>>

\* The configuration is an object and makes a scheduler, or not.
Load(r) ==
  /\ pc[r] = "load"
  /\ IF kind[r].configAt = pointer[r] /\ kind[r].loads
     THEN Goto(r, "run") /\ UNCHANGED sent
     ELSE Send(r, Error(USID_NOT_FOUND))
  /\ UNCHANGED <<setup, kind, path, at, pointer, dataVars, hostVars>>

-----------------------------------------------------------------------------
(* The flow, and the end of the request.                                   *)

\* HostDynHttpRequestPolicy::call_method initialises the policy's channel, and
\* then calls through it.
InitChannel(r) ==
  /\ pc[r] = "run" /\ HostPerRequest(r)
  /\ host' = [host EXCEPT ![Channel(r)] = {r}]
  /\ Goto(r, "call")
  /\ UNCHANGED <<setup, kind, path, at, pointer, dataVars, went, sent>>

CallMethod(r) ==
  /\ pc[r] = "call"
  /\ went' = [went EXCEPT ![r] = host[Channel(r)]]
  /\ Goto(r, "answer")
  /\ UNCHANGED <<setup, kind, path, at, pointer, dataVars, host, sent>>

RunFlow(r) ==
  /\ pc[r] = "run" /\ ~HostPerRequest(r)
  /\ Goto(r, "answer")
  /\ UNCHANGED <<setup, kind, path, at, pointer, dataVars, hostVars, sent>>

Answer(r) ==
  /\ pc[r] = "answer"
  /\ Send(r, IF kind[r].flowOk THEN Result(kind[r].code) ELSE Error(INTERNAL_SERVER_ERROR))
  /\ UNCHANGED <<setup, kind, path, at, pointer, dataVars, hostVars>>

\* The log line is written, and the entries, not the logid, are cleared; brpc takes
\* the thread data back.  (Mutant: nothing is cleared.)
Log(r) ==
  logged' = [logged EXCEPT ![r] = [logid |-> logid[td[r]], entries |-> entries[td[r]]]]

FinishUncleared(r) ==
  /\ pc[r] = "log"
  /\ Log(r)
  /\ td' = [td EXCEPT ![r] = NoData]
  /\ Goto(r, "done")
  /\ UNCHANGED <<setup, kind, path, at, pointer, logid, entries, hostVars, sent>>

Finish(r) ==
  /\ pc[r] = "log"
  /\ Log(r)
  /\ entries' = [entries EXCEPT ![td[r]] = {}]
  /\ td' = [td EXCEPT ![r] = NoData]
  /\ Goto(r, "done")
  /\ UNCHANGED <<setup, kind, path, at, pointer, logid, hostVars, sent>>

Served == \A r \in Requests : pc[r] = "done"
Stop == Served /\ UNCHANGED vars

Step(r) ==
  \/ Start(r) \/ Parse(r) \/ ParamFails(r) \/ TakeParam(r) \/ Parsed(r) \/ Header(r)
  \/ Found(r) \/ NotFound(r) \/ Stateless(r) \/ RootPath(r) \/ MakePointer(r) \/ Load(r)
  \/ InitChannel(r) \/ CallMethod(r) \/ RunFlow(r) \/ Answer(r) \/ Finish(r)

Next == (\E r \in Requests : Step(r)) \/ Stop

Spec == Init /\ [][Next]_vars

-----------------------------------------------------------------------------
(* Properties.                                                             *)

\* The error that a request meets before its scheduler is looked for.
FirstError(k) ==
  LET bad == {i \in DOMAIN setup.params : Outcome(k, setup.params[i]) # OK}
  IN  IF ~k.json THEN INVALID_JSON
      ELSE IF bad = {} THEN OK
      ELSE Outcome(k, setup.params[CHOOSE i \in bad : \A j \in bad : i <= j])

\* Where input_config_path says that the configuration of a stateless request is.
ConfigPath == IF setup.path \in {"", "/"} THEN "" ELSE setup.path

HasScheduler(k) ==
  \/ k.usid \in setup.loaded
  \/ setup.path # "unset" /\ k.configAt = ConfigPath /\ k.loads

\* What a request is to be answered, whatever other requests there are.
Due(k) ==
  IF FirstError(k) # OK THEN Error(FirstError(k))
  ELSE IF ~HasScheduler(k) THEN Error(USID_NOT_FOUND)
  ELSE IF k.flowOk THEN Result(k.code) ELSE Error(INTERNAL_SERVER_ERROR)

\* Every request is answered once, as if it were alone.  In particular
\* "input_config_path: the path of the configuration of stateless requests"
\* (docs/config.md:37) holds for each of them, not only for the first.
ServedAlone ==
  \A r \in Requests :
    sent[r] = IF pc[r] \in {"log", "done"} THEN <<Due(kind[r])>> ELSE <<>>

\* The log line of a request has its own entries only, and its own logid, if it has
\* one (README.md:170) and came far enough to give it: thread data are pooled.
LoggedOwn ==
  \A r \in Requests : pc[r] = "done" =>
    /\ logged[r].entries = {r}
    /\ FirstError(kind[r]) = OK
         /\ (kind[r].header \/ \E i \in DOMAIN setup.params : setup.params[i].name = "logid")
       => logged[r].logid = {r}

\* A call goes to the host of its own request: "host_ip_port: use this host, not
\* the backend's server" (docs/config.md:173).
HostIsOwn == \A r \in Requests : went[r] \subseteq {r}
=============================================================================

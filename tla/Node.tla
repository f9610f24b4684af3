-------------------------------- MODULE Node --------------------------------
(***************************************************************************)
(* A flow node under the default policy, with its data (kernel_process of  *)
(* default_policy.cpp): the definitions, the requests of its services, the *)
(* parsing of their answers, the rank blocks, the output.  What the calls  *)
(* come to is part of the setup; how they run at once is in SyncRecall.    *)
(* Interventions are in FlowRun.                                           *)
(***************************************************************************)
EXTENDS Builtins, Blocks, Rank

\* A node: the request in the top scope, the definitions, the rank blocks, the if
\* blocks, output and next, and the services it recalls: [name, kind, request,
\* response, failed, came].  There is a response block or none; a call fails or what
\* came is a sequence, of an element for each message, or of the Redis replies.  The
\* controller of a dynamic service is never issued and cannot fail; what came of a
\* call of it that has failed is empty.

CONSTANT Depths         \* how deep the properties look into values

\* The keywords, and the variable of Redis' commands, which is none: of a node that defines
\* one of these anew, or all of its scope, nothing is said.
Keywords == {"request", "response", "backend", "recall", "output", "next", "export",
             "http_header", "http_query", "http_body", "http_uri", "http_method",
             "item", "cond", "rank"}
Preserved == Keywords \cup {"redis_cmd"}

Listed(s) == Len(s) \in Nat /\ s = [i \in 1..Len(s) |-> s[i]]
ListOf(s, P(_)) == Listed(s) /\ \A i \in DOMAIN s : P(s[i])

\* What start-up makes of a configuration, where keys are lists of names.
Paired(ke) == ke.key \in Seq(STRING)
Keys(kes) == ListOf(kes, Paired)
DefinesNoKeyword(kes) ==
  Keys(kes) /\ \A i \in DOMAIN kes : kes[i].key # <<>> /\ Head(kes[i].key) \notin Preserved
Branching(c) == Listed(c.cond) /\ Keys(c.output) /\ DefinesNoKeyword(c.def)
Chooses(b) == ListOf(b.ifs, Branching) /\ Keys(b.output) /\ DefinesNoKeyword(b.def)
Command1(c) == Listed(c.arg)
Asks(b) ==
  /\ DefinesNoKeyword(b.def) /\ ListOf(b.cmds, Command1)
  /\ Keys(b.header) /\ Keys(b.query) /\ Keys(b.body) /\ Keys(b.args)
Answers1(b) == Chooses(b) /\ ListOf(b.include, Chooses)
Serves(service) ==
  /\ service.name \in Services /\ Listed(service.came)
  /\ Asks(service.request) /\ ListOf(service.request.include, Asks)
  /\ ListOf(service.response, Answers1)
  /\ Len(service.request.include) <= 1 /\ Len(service.response) <= 1
  /\ \A i \in DOMAIN service.response : Len(service.response[i].include) <= 1

ASSUME SetupAssumption == \A s \in Setups : Chooses(s) /\ ListOf(s.services, Serves)
ASSUME DepthAssumption == Depths \subseteq Nat

VARIABLES
  sent,         \* the messages of each service whose request has been built
  answered      \* the services whose answers are in `backend'

vars == <<setup, pc, at, S, rankVars, sent, answered>>

Final == {"done", "failed", "crashed"}

Init ==
  /\ setup \in Setups
  /\ pc = "define" /\ at = 1
  /\ S = <<<<>>, [request |-> setup.request, backend |-> Obj(<<>>), result |-> Obj(<<>>)]>>
  /\ part = 1 /\ block = 1 /\ input = <<>> /\ collected = <<>>
  /\ sent = <<>> /\ answered = <<>>

\* recall_run_def, and again in FlowConfig::recall.
Define ==
  /\ pc = "define"
  /\ \E r \in {Defined(setup.def, Defined(setup.def, Ok(S)))} :
         /\ S' = r.S
         /\ pc' = Outcome(r.v, IF setup.services = <<>> THEN "recalled" ELSE "build")
  /\ UNCHANGED <<setup, at, rankVars, sent, answered>>

\* One after the other; one whose request cannot be built is not called.
Build ==
  /\ pc = "build"
  /\ \E r \in {Messages(setup.services[at].kind, setup.services[at].request, S)} :
         /\ sent' = Append(sent, r.sent)
         /\ pc' = IF r.v = Crash THEN "crashed"
                  ELSE IF at = Len(setup.services) THEN "parse" ELSE "build"
  /\ at' = IF at = Len(setup.services) THEN 1 ELSE at + 1
  /\ UNCHANGED <<setup, S, rankVars, answered>>

\* What a service is parsed with: of one that was not called, too, an empty answer.
Came(i) ==
  LET service == setup.services[i]
  IN  IF service.kind = "dynamic" THEN SubSeq(service.came, 1, Len(sent[i]))
      ELSE IF sent[i] # <<>> THEN service.came
      ELSE IF service.kind = "redis" THEN <<>>
      ELSE <<Str(<<>>)>>

Parsed(i) ==
  LET service == setup.services[i]
  IN  IF sent[i] # <<>> /\ service.failed /\ service.kind # "dynamic" THEN Failure
      ELSE IF service.response = <<>> THEN Null
      ELSE Response(service.kind, service.response[1], Came(i), S)

\* `backend' is the request's, and keeps the first answer of a name.
Parse ==
  /\ pc = "parse"
  /\ \E v \in {Parsed(at)}, name \in {setup.services[at].name} :
         /\ IF Bad(v) THEN UNCHANGED <<S, answered>>
            ELSE /\ S' = [S EXCEPT ![2].backend =
                            Obj([x \in DOMAIN @[2] \cup {name} |->
                                   IF x \in DOMAIN @[2] THEN @[2][x] ELSE v])]
                 /\ answered' = Append(answered, name)
         /\ pc' = IF v = Crash THEN "crashed"
                  ELSE IF at = Len(setup.services) THEN "recalled" ELSE "parse"
  /\ at' = at + 1
  /\ UNCHANGED <<setup, rankVars, sent>>

Recalled ==
  /\ pc = "recalled"
  /\ S' = SetVar(S, "recall", Arr([i \in DOMAIN answered |-> Word(answered[i])]))
  /\ pc' = IF setup.rank = <<>> THEN "output" ELSE "input"
  /\ UNCHANGED <<setup, at, rankVars, sent, answered>>

\* The output, merged into `result' if it is an object.
Finish ==
  /\ pc = "output"
  /\ \E r \in {Output(TRUE, setup, Ok(S))} :
       LET output == Lookup(r.S, "output")
       IN  /\ pc' = Outcome(r.v, "done")
           /\ S' = IF Bad(r.v) \/ ~Is(output, "object") THEN r.S
                   ELSE [r.S EXCEPT ![2].result = Merge(@, output)]
  /\ UNCHANGED <<setup, at, rankVars, sent, answered>>

Stop == pc \in Final /\ UNCHANGED vars

RankOnly == RankStep /\ UNCHANGED <<sent, answered>>

Next == Define \/ Build \/ Parse \/ Recalled \/ RankOnly \/ Finish \/ Stop

Spec == Init /\ [][Next]_vars

-----------------------------------------------------------------------------
(* Properties.                                                             *)

\* The parts of a value at a depth; whether it is JSON down to the depths.
Children(v) ==
  CASE Is(v, "array") -> ToSet(v[2])
    [] Is(v, "object") -> {v[2][k] : k \in DOMAIN v[2]}
    [] OTHER -> {}
Parts(v, depth) ==
  LET deep[n \in 0..depth] == IF n = 0 THEN {v} ELSE UNION {Children(w) : w \in deep[n - 1]}
  IN  deep[depth]
JsonTypes == {"null", "bool", "int", "string", "array", "object"}
Whole(v) == \A n \in Depths : \A w \in Parts(v, n) : w[1] \in JsonTypes

\* What is stored is JSON: no error and no missing value gets into a variable or a feature.
\* A node begins to rank where RankSpec does.
TypeOK ==
  /\ pc \in {"define", "build", "parse", "recalled", "input", "collect", "sort", "output"} \cup Final
  /\ at \in Nat /\ block \in Nat
  /\ Len(S) = 2 /\ \A i \in DOMAIN S : \A x \in DOMAIN S[i] : Whole(S[i][x])
  /\ Whole(Arr(input))
  /\ \A i \in DOMAIN collected :
       Whole(collected[i].name) /\ Whole(Arr(collected[i].features))
  /\ Len(sent) <= Len(setup.services) /\ Len(answered) <= Len(setup.services)
  /\ pc = "input" /\ block = 1 => RankInit

\* Whether a document has all of a value, down to the depths: the paths through objects.
MemberPaths(v, depth) ==
  LET Next1(p) == LET w == GetAt(v, p)
                  IN  {Append(p, k) : k \in IF Is(w, "object") THEN DOMAIN w[2] ELSE {}}
      deep[n \in 0..depth] == IF n = 0 THEN {<<>>} ELSE UNION {Next1(p) : p \in deep[n - 1]}
  IN  deep[depth]
Agree(v, w) == IF Is(w, "object") THEN Is(v, "object") ELSE v = w
Includes(doc, v) ==
  \A n \in Depths : \A p \in MemberPaths(v, n) : Agree(GetAt(doc, p), GetAt(v, p))

\* A configured document: whatever the order of the keys, every key that none lies below
\* has its value, or more.
Firsts(kes) == {i \in DOMAIN kes : \A j \in 1..i - 1 : kes[j].key # kes[i].key}
Leaves(kes) ==
  {kes[i] : i \in {j \in Firsts(kes) :
     \A k \in DOMAIN kes : kes[k].key = kes[j].key \/ ~IsPrefix(kes[j].key, kes[k].key)}}
ValuesOf(kes, Q) == {[key |-> ke.key, v |-> Evaluate(ke.expr, Q)] : ke \in Leaves(kes)}
HasAll(doc, values) == \A c \in values : Includes(GetAt(doc, c.key), c.v)

\* With a template, its keys that the block's own leave alone.
Aside(c, own) == \A o \in own : ~IsPrefix(o.key, c.key) /\ ~IsPrefix(c.key, o.key)
Both(own, template) == own \cup {c \in template : Aside(c, own)}
TemplateOf(b, field) == IF b.include = <<>> THEN <<>> ELSE b.include[1][field]
Expected(b, field, Q) == Both(ValuesOf(b[field], Q), ValuesOf(TemplateOf(b, field), Q))

\* Header and query hold just what is configured and not null, as text.
AsText(written, values) ==
  LET given == {c \in values : c.v # Null}
  IN  /\ DOMAIN written = {c.key[1] : c \in given}
      /\ \A c \in given : written[c.key[1]] = Text(c.v)

\* The message is the configured one, up to what its argument is put into.
MessageMeant(m, header, query, body, uris, node) ==
  LET json == [key |-> <<"Content-Type">>, v |-> Str(JsonType)] \in header
  IN  /\ AsText(m.header, header)
      /\ node # "query" => AsText(m.query, query)
      /\ node # "uri" => m.uri \in uris
      /\ ~json => m.body = Absent
      /\ json /\ node = "none" =>
           IF body = {} THEN m.body = Absent ELSE HasAll(m.body, body)

\* One message for each element of the list that is the argument, the element where it
\* is to be; between two of them nothing else differs.
ArgumentsMeant(messages, Q) ==
  LET args == Lookup(Q, "dynamic_args")[2]
      name == CHOOSE k \in DOMAIN args : TRUE
      list == IF args[name] = Null THEN <<>> ELSE args[name][2]
      node == Lookup(Q, "dynamic_args_node")
      At(m, v) == CASE node = Word("uri") -> m.uri = Concat(Lookup(Q, "http_uri")[2], Text(v))
                    [] node = Word("query") -> m.query[name] = Text(v)
                    [] OTHER -> m.body # Absent =>
                                  GetAt(m.body, Lookup(Q, "dynamic_args_path")[2]) = v
      Rest(m) == CASE node = Word("uri") -> [m EXCEPT !.uri = <<>>]
                   [] node = Word("query") -> [m EXCEPT !.query[name] = <<>>]
                   [] OTHER -> [m EXCEPT !.body = Absent]
  IN  /\ Len(messages) = Len(list)
      /\ \A i \in DOMAIN list : At(messages[i], list[i]) /\ Rest(messages[i]) = Rest(messages[1])

\* Every command in its place, with its arguments as text; the template's alone, if there is one.
CommandsMeant(b, commands, Q) ==
  LET cmds == IF b.include = <<>> THEN b.cmds ELSE b.include[1].cmds
  IN  /\ Len(commands) = Len(cmds)
      /\ \A i \in DOMAIN cmds :
           commands[i] = <<cmds[i].op>> \o
             [j \in DOMAIN cmds[i].arg |-> Str(Text(Evaluate(cmds[i].arg[j], Q)))]

\* What is sent is what the service's configuration says, its own header, query and body
\* before the template's it includes; no argument is lost, sent twice or mixed up with another.
Uris(b) ==
  {d.sets["http_uri"].v[2] : d \in {c \in {b} \cup ToSet(b.include) : "http_uri" \in DOMAIN c.sets}}
SentAsConfigured ==
  pc = "parse" /\ at = 1 =>
    \A i \in {j \in DOMAIN sent : sent[j] # <<>>} :
      LET b == setup.services[i].request
          kind == setup.services[i].kind
      IN  \A Q \in {RunRequest(kind, b, <<<<>>>> \o S).S} :
            IF kind = "redis" THEN CommandsMeant(b, sent[i][1], Q)
            ELSE /\ \A j \in DOMAIN sent[i] :
                      MessageMeant(sent[i][j], Expected(b, "header", Q), Expected(b, "query", Q),
                                   Expected(b, "body", Q), Uris(b),
                                   IF kind = "dynamic" THEN Lookup(Q, "dynamic_args_node")[2][1]
                                   ELSE "none")
                 /\ kind = "dynamic" => ArgumentsMeant(sent[i], Q)

\* The branch that counts: the first if block all whose conditions hold, of an answer's
\* also one whose definitions and output do not fail.
BranchScope(c, Q) == Defined(c.def, Ok(<<[cond |-> Bool(TRUE)]>> \o Q))
FailsIn(c, r) == Bad(r.v) \/ \E i \in Firsts(c.output) : Bad(Evaluate(c.output[i].expr, r.S))
Branches(flow, b, Q) ==
  {i \in DOMAIN b.ifs :
     /\ \A j \in DOMAIN b.ifs[i].cond : Evaluate(b.ifs[i].cond[j], Q) = Bool(TRUE)
     /\ flow \/ ~FailsIn(b.ifs[i], BranchScope(b.ifs[i], Q))}
FirstOf(is) == CHOOSE i \in is : \A j \in is : i <= j

\* The output is that of the branch, else the default, whole or, if it fails, none.  A
\* document that is null is none.
DocumentMeant(output, values) ==
  IF values \subseteq {[key |-> <<>>, v |-> Null]} THEN output = Absent ELSE HasAll(output, values)
BranchMeant(c, output, r) ==
  IF FailsIn(c, r) THEN output = Absent ELSE DocumentMeant(output, ValuesOf(c.output, r.S))
OutputMeant(b, output, is, Q) ==
  IF is # {} THEN BranchMeant(b.ifs[FirstOf(is)], output, BranchScope(b.ifs[FirstOf(is)], Q))
  ELSE DocumentMeant(output, ValuesOf(b.output, Q))
NextMeant(b, next, is) ==
  LET meant == IF is = {} THEN b.next ELSE b.ifs[FirstOf(is)].next
  IN  next = IF meant = <<>> THEN Absent ELSE meant[1]

\* The answers in `backend' and the output of the node are those of the branch that counts,
\* the output is in the result, and the next node the branch's.  (The scopes an answer was
\* parsed in are those afterwards with the answers before it; those before the output are
\* those after it without it, the next and the result.)
AnswerMeant(service, came, Q) ==
  LET b == service.response[1] IN
  \A R \in {Defined(b.def, Ok(<<[response |-> Received(service.kind, came)]>> \o Q)).S} :
    \A is \in {Branches(FALSE, b, R)} :
      OutputMeant(b, S[2].backend[2][service.name], is, R)
Earlier(i) == {setup.services[j].name : j \in 1..i - 1}
BeforeAnswer(i) ==
  [S EXCEPT ![2].backend = Obj([x \in DOMAIN @[2] \cap Earlier(i) |-> @[2][x]])]
BeforeOutput ==
  [S EXCEPT ![1] = [x \in DOMAIN @ \ {"output", "next"} |-> @[x]], ![2].result = Obj(<<>>)]
OutputAsConfigured ==
  /\ pc = "recalled" =>
       \A i \in DOMAIN setup.services :
         LET service == setup.services[i]
         IN  /\ service.name \in ToSet(answered) \ Earlier(i)
             /\ service.response # <<>> /\ service.response[1].include = <<>>
             => AnswerMeant(service, Came(i), BeforeAnswer(i))
  /\ pc = "done" =>
       LET output == Lookup(S, "output")
       IN  /\ \A is \in {Branches(TRUE, setup, BeforeOutput)} :
                /\ OutputMeant(setup, output, is, BeforeOutput)
                /\ NextMeant(setup, Lookup(S, "next"), is)
           /\ Is(output, "object") => Includes(S[2].result, output)

\* What an expression of constants means.  Of numbers that do not fit nothing is said.
NumbersMeant(o, m, n, v) ==
  LET exact == CASE o = "+" -> m + n [] o = "-" -> m - n [] o = "*" -> m * n [] OTHER -> 0
  IN  /\ o \in {"+", "-", "*"} => Is(v, "int") /\ (Abs(exact) <= IntMax => v = Num(exact))
      /\ o = "/" => Abs(n * v[2]) <= Abs(m) /\ Abs(m - n * v[2]) < Abs(n)
      /\ o = "&" /\ m >= 0 => v[2] \in 0..m
      /\ o = "|" /\ m >= 0 /\ n >= 0 => v[2] >= m /\ v[2] >= n /\ v[2] <= m + n
SetsMeant(o, l, r, v) ==
  /\ o = "|" => ToSet(v) = ToSet(l) \cup ToSet(r) /\ IsInjective(v)
  /\ o = "-" => ToSet(v) = ToSet(l) \ ToSet(r) /\ IsInjective(v)
  /\ o = "&" /\ IsInjective(r) => ToSet(v) = ToSet(l) \cap ToSet(r) /\ IsInjective(v)

\* The elements from start on and before end, each counted from the end if it is negative.
SliceMeant(s, start, end, v) ==
  LET From(n) == IF n < 0 THEN Len(s) + n + 1 ELSE n + 1
      in == {i \in DOMAIN s : From(start) <= i /\ i < From(end)}
  IN  /\ Len(v) = Cardinality(in)
      /\ \A i \in DOMAIN v : v[i] = s[i + (IF From(start) < 1 THEN 0 ELSE From(start) - 1)]
IndexMeant(s, path, x, v) ==
  LET has == {i \in DOMAIN s : GetAt(s[i], path) = x}
  IN  v = IF has = {} THEN Word("-1") ELSE Word(Numerals[FirstOf(has)])

CallMeant(f, args, v) ==
  /\ f = "slice" /\ Len(args) = 3 =>
       SliceMeant(args[1].v[2], args[2].v[2], args[3].v[2], v[2])
  /\ f = "set" => GetAt(v, args[2].v[2]) = args[3].v
  /\ f = "index_at" => IndexMeant(args[1].v[2], args[2].v[2], args[3].v, v)
  /\ f \in {"foreach_set", "translate", "normalize"} => Len(v[2]) = Len(args[1].v[2])
Meaning(e, v) ==
  CASE e.e = "op" /\ Is(e.l.v, "int") /\ Is(e.r.v, "int") -> NumbersMeant(e.o, e.l.v[2], e.r.v[2], v)
    [] e.e = "op" /\ Is(e.l.v, "array") /\ Is(e.r.v, "array") -> SetsMeant(e.o, e.l.v[2], e.r.v[2], v[2])
    [] e.e = "calls" /\ Len(e.cs) = 1 -> CallMeant(e.cs[1][1], e.cs[1][2], v)
    [] OTHER -> TRUE

\* A definition has the value its expression means.  The process ends only at a division
\* that has no quotient, or where a function takes it for granted that something is there.
TakesForGranted == {"index_at", "translate", "array_func"}
ValuesAreMeant ==
  /\ pc \in {"build", "recalled"} =>
       \A ke \in Leaves(setup.def) :
         Len(ke.key) = 1 => Meaning(ke.expr, S[1][ke.key[1]])
  /\ pc = "crashed" /\ at = 1 /\ sent = <<>> =>
       \E i \in DOMAIN setup.def :
         LET e == setup.def[i].expr
         IN  \/ e.e = "op" /\ e.o = "/" /\ e.r.v \in {Num(0), Num(-1)}
             \/ e.e = "calls" /\ \E j \in DOMAIN e.cs : e.cs[j][1] \in TakesForGranted

-----------------------------------------------------------------------------
(* What the theorem about the outputs asks of the nodes.                   *)

\* Of two keys, where they part both go on by an index or neither: what the one sets
\* does not turn an array of the other into an object.
Part(p, q, k) ==
  /\ k \in 1..Len(p) /\ k \in 1..Len(q)
  /\ p[k] # q[k] /\ \A j \in 1..k - 1 : p[j] = q[j]
Alike(m, n) == Index(m) >= 0 <=> Index(n) >= 0
KeysAgree(kes) ==
  \A i, j \in DOMAIN kes : \A k \in 1..Len(kes[i].key) :
    Part(kes[i].key, kes[j].key, k) => Alike(kes[i].key[k], kes[j].key[k])
OutputsAgree(b) == KeysAgree(b.output) /\ \A i \in DOMAIN b.ifs : KeysAgree(b.ifs[i].output)

\* So it is with the outputs of every node and of its services, and no two services of a
\* node have the same name.
AllAgree ==
  \A s \in Setups :
    /\ OutputsAgree(s)
    /\ \A i \in DOMAIN s.services : \A j \in DOMAIN s.services[i].response :
         OutputsAgree(s.services[i].response[j])
NamesDiffer ==
  \A s \in Setups : \A i, j \in DOMAIN s.services :
    s.services[i].name = s.services[j].name => i = j

\* And what the one about types asks of the calls of a dynamic service, of which one came
\* for each message; and of answers, whose elements have names.
CameForEach ==
  \A i \in DOMAIN sent : setup.services[i].kind = "dynamic" =>
    Len(sent[i]) \in 0..Len(setup.services[i].came)
AnswersFit ==
  \A s \in DOMAIN Answers : Is(Answers[s], "array") => Len(Answers[s][2]) <= Len(Numerals)
Bounds == CameForEach /\ AnswersFit

\* What the one about the requests asks of the blocks: header and query have names as keys;
\* keys of a body agree, and where a template's key is left alone by the leaves of its
\* block, no key of the block is on its way, and it parts from each by a name, after names.
Named(kes) == \A i \in DOMAIN kes : Len(kes[i].key) = 1
ByNames(p, q) ==
  \A k \in 1..Len(p) : Part(p, q, k) => \A j \in 1..k : Index(p[j]) = -1 /\ Index(q[j]) = -1
LeavesAlone(own, template) ==
  \A c \in Leaves(template) : Aside(c, Leaves(own)) =>
    \A i \in DOMAIN own : Aside(c, {own[i]}) /\ ByNames(own[i].key, c.key)
BodiesJoin(own, template) ==
  /\ KeysAgree(own) /\ KeysAgree(template) /\ LeavesAlone(own, template)
  /\ own # <<>> /\ template # <<>> =>
       /\ \A i \in DOMAIN own : own[i].key # <<>>
       /\ \A i \in DOMAIN template : template[i].key # <<>>
BlocksJoin(b) ==
  /\ Named(b.header) /\ Named(TemplateOf(b, "header")) /\ Named(b.query) /\ Named(TemplateOf(b, "query"))
  /\ BodiesJoin(b.body, TemplateOf(b, "body"))
RequestsJoin == \A s \in Setups : \A i \in DOMAIN s.services : BlocksJoin(s.services[i].request)

\* And of what their expressions come to: the URI is constant, what is in a header or query
\* has a text, a whole body is not null; a dynamic service has one argument, its node is one
\* of three, its path one of names.
Atom(v) == v = Null \/ \E w \in {v[2]} : v \in {Bool(w), Num(w), Str(w)}
Texts(values) == \A c \in values : Atom(c.v)
PlainIn(kind, b, Q) ==
  /\ \A d \in {c \in {b} \cup ToSet(b.include) : "http_uri" \in DOMAIN c.sets} :
       Evaluate(d.sets["http_uri"], Q) = d.sets["http_uri"].v
  /\ \A d \in {b} \cup ToSet(b.include) :
       /\ Texts(ValuesOf(d.header, Q)) /\ Texts(ValuesOf(d.query, Q))
       /\ [key |-> <<>>, v |-> Null] \notin ValuesOf(d.body, Q)
  /\ kind = "dynamic" =>
       /\ LET args == Lookup(Q, "dynamic_args")
           IN  Is(args, "object") /\ \E name \in DOMAIN args[2] : DOMAIN args[2] = {name}
       /\ Lookup(Q, "dynamic_args_node") \in {Word("uri"), Word("query"), Word("body")}
       /\ LET path == Lookup(Q, "dynamic_args_path")
          IN  path = Absent \/ (Is(path, "string") /\ path[2] \in Seq(STRING))
AskedPlainly ==
  pc = "parse" /\ at = 1 =>
    \A i \in {j \in DOMAIN sent : sent[j] # <<>>} :
      LET b == setup.services[i].request
          kind == setup.services[i].kind
      IN  kind # "redis" => \A Q \in {RunRequest(kind, b, <<<<>>>> \o S).S} : PlainIn(kind, b, Q)
=============================================================================

------------------------------- MODULE Blocks -------------------------------
(***************************************************************************)
(* The configuration blocks of services and nodes (dynamic_config.cpp):    *)
(* keys with expressions (KEMap), request blocks with the messages that    *)
(* the HTTP, dynamic and Redis policies make of them, response and if      *)
(* blocks.  A block runs in a sequence of scopes, the innermost first, and *)
(* comes to new scopes or to an error.                                     *)
(***************************************************************************)
EXTENDS Values

CONSTANTS
  RedisRoom,            \* the components a Redis command has room for
  ParseReply(_)         \* a Redis reply as JSON

ASSUME RoomAssumption == RedisRoom \in Nat \ {0}

\* What running comes to: v is Null, or Failure or Crash, which what follows keeps.
Ok(S) == [v |-> Null, S |-> S]
With(r, v, S) ==
  IF Bad(r.v) THEN r ELSE IF Bad(v) THEN [r EXCEPT !.v = v] ELSE Ok(S)

-----------------------------------------------------------------------------
(* Keys with expressions: a sequence of [key, expr].                       *)

\* KEMap::init: the shortest keys first, in the order they are written; of a key that
\* is there twice the first expression counts.
FirstWith(kes, key) ==
  CHOOSE i \in DOMAIN kes : kes[i].key = key /\ \A j \in 1..i - 1 : kes[j].key # key
Goes(kes, i, j) ==
  \/ Len(kes[i].key) < Len(kes[j].key)
  \/ Len(kes[i].key) = Len(kes[j].key) /\ i < j
Order(kes) ==
  CHOOSE p \in Bijection(DOMAIN kes, DOMAIN kes) :
    \A i, j \in DOMAIN kes : i < j => Goes(kes, p[i], p[j])
Ordered(kes) == [i \in DOMAIN kes |-> kes[FirstWith(kes, kes[Order(kes)[i]].key)]]

\* KEMap::run_def: variables of the innermost scope, one by one; KEMap::run: a
\* document, null if there are no keys.
DefinedAs(ke, r) ==
  LET v == Evaluate(ke.expr, r.S) IN With(r, v, SetPath(r.S, ke.key, v))
Defined(kes, r) ==
  LET in == Ordered(kes)
      after[n \in 0..Len(kes)] == IF n = 0 THEN r ELSE DefinedAs(in[n], after[n - 1])
  IN  after[Len(kes)]

Filled(ke, doc, S) ==
  LET v == Evaluate(ke.expr, S)
  IN  IF Bad(doc) THEN doc ELSE IF Bad(v) THEN v ELSE SetAt(doc, ke.key, v)
Fill(kes, S) ==
  LET in == Ordered(kes)
      after[n \in 0..Len(kes)] ==
        IF n = 0 THEN Obj(<<>>) ELSE Filled(in[n], after[n - 1], S)
  IN  IF kes = <<>> THEN Null ELSE after[Len(kes)]

\* KEVec::run.
EvaluateAll(es, S) == [i \in DOMAIN es |-> Evaluate(es[i], S)]

\* KEVec::logical_and: the first condition decides that is not true.
AllTrue(vs) ==
  LET stops == {i \in DOMAIN vs : vs[i] # Bool(TRUE)}
      v == vs[CHOOSE i \in stops : \A j \in stops : i <= j]
  IN  IF stops = {} THEN Bool(TRUE) ELSE IF v \in {Bool(FALSE), Crash} THEN v ELSE Failure
LogicalAnd(es, S) == AllTrue(EvaluateAll(es, S))

\* A variable whose expression a block may have, and one that keys are merged into.
SetTo(r, x, v) == With(r, v, SetVar(r.S, x, v))
SetField(fields, x, r) ==
  IF x \in DOMAIN fields THEN SetTo(r, x, Evaluate(fields[x], r.S)) ELSE r

MergedWith(r, x, doc) == With(r, doc, IF doc = Null THEN r.S ELSE MergeVar(r.S, x, doc))
MergeField(kes, x, r) == MergedWith(r, x, Fill(kes, r.S))

-----------------------------------------------------------------------------
(* Request blocks: [def, include, sets, header, query, body, args, cmds],  *)
(* include being a sequence of no template or one, which has none itself.  *)

HttpFields(b, r) ==
  LET set == SetField(b.sets, "host_ip_port",
               SetField(b.sets, "http_uri", SetField(b.sets, "http_method", r)))
  IN  MergeField(b.body, "http_body",
        MergeField(b.query, "http_query", MergeField(b.header, "http_header", set)))

SetUnlessNull(r, x, v) == IF v = Null THEN r ELSE SetTo(r, x, v)
SetArgs(b, r) == SetUnlessNull(r, "dynamic_args", Fill(b.args, r.S))
DynamicFields(b, r) ==
  SetArgs(b, SetField(b.sets, "dynamic_args_path",
               SetField(b.sets, "dynamic_args_node", HttpFields(b, r))))

\* The commands, of their arguments as text; none are a list of commands, too.
Command(op, vs) ==
  First(vs, Obj([op |-> op, arg |-> Arr([j \in DOMAIN vs |-> Str(Text(vs[j]))])]))
RedisFields(b, r) ==
  SetTo(r, "redis_cmd",
        AllOf([i \in DOMAIN b.cmds |-> Command(b.cmds[i].op, EvaluateAll(b.cmds[i].arg, r.S))]))

Fields(kind, b, r) ==
  CASE kind = "redis" -> RedisFields(b, r)
    [] kind = "dynamic" -> DynamicFields(b, r)
    [] OTHER -> HttpFields(b, r)

\* The block's definitions, its template as a whole, its own fields.  (Mutant: the
\* template after them.)
WithFields(kind, b, r) == Fields(kind, b, Defined(b.def, r))
TemplateLast(kind, b, S) ==
  LET own == WithFields(kind, b, Ok(S))
  IN  IF b.include = <<>> THEN own ELSE WithFields(kind, b.include[1], own)
RunRequest(kind, b, S) ==
  LET r == Defined(b.def, Ok(S))
  IN  Fields(kind, b, IF b.include = <<>> THEN r ELSE WithFields(kind, b.include[1], r))

-----------------------------------------------------------------------------
(* The messages of a request, or why there are none.                       *)

Send(messages) == [v |-> Null, sent |-> messages]
NotSent(v) == [v |-> v, sent |-> <<>>]

\* Header and query: members that are null are left out, others written as text.
Written(v) ==
  IF v = Absent THEN <<>> ELSE [k \in {m \in DOMAIN v[2] : v[2][m] # Null} |-> Text(v[2][k])]

\* A body is sent, as JSON, only under that content type.
JsonType == <<"application", "json">>
Message(S, uri, query, body) ==
  LET header == Written(Lookup(S, "http_header"))
      json == "Content-Type" \in DOMAIN header /\ header["Content-Type"] = JsonType
  IN  [method |-> IF Lookup(S, "http_method") = Word("post") THEN "POST" ELSE "GET",
       uri |-> uri, header |-> header, query |-> query, body |-> IF json THEN body ELSE Absent]

Wants(S, xs) == \A x \in xs : Lookup(S, x) # Absent

\* HttpRequestPolicy::run; with a host of its own, HostDynHttpRequestPolicy.  (Addresses
\* are the strings IP:PORT.)
Addresses == {Word("host:80")}
HttpMessages(kind, S) ==
  IF \/ ~Wants(S, {"http_uri", "http_method"})
     \/ kind = "host" /\ Lookup(S, "host_ip_port") \notin Addresses
  THEN NotSent(Failure)
  ELSE Send(<<Message(S, Lookup(S, "http_uri")[2], Written(Lookup(S, "http_query")),
                      Lookup(S, "http_body"))>>)

\* DynamicHttpRequestPolicy::run: a message for each element of the argument's list, in
\* its place in the URI, the query or the body.  There is one argument here.
DynamicMessages(S) ==
  LET args == Lookup(S, "dynamic_args")
      name == CHOOSE k \in DOMAIN args[2] : TRUE
      node == Lookup(S, "dynamic_args_node")
      path == Lookup(S, "dynamic_args_path")
      uri == Lookup(S, "http_uri")[2]
      query == Written(Lookup(S, "http_query"))
      body == Lookup(S, "http_body")
      Of(v) == CASE node = Word("uri") -> Message(S, Concat(uri, Text(v)), query, body)
                 [] node = Word("query") ->
                      Message(S, uri, [k \in DOMAIN query \cup {name} |->
                                         IF k = name THEN Text(v) ELSE query[k]], body)
                 [] node = Word("body") ->
                      Message(S, uri, query, SetAt(IF body = Absent THEN Null ELSE body, path[2], v))
                 [] OTHER -> Message(S, uri, query, body)
      list == args[2][name]
  IN  IF ~Wants(S, {"dynamic_args_node", "http_method", "http_uri", "dynamic_args"})
      THEN NotSent(Failure)
      ELSE IF list = Null THEN Send(<<>>)
      ELSE IF ~Is(list, "array") THEN NotSent(Failure)
      ELSE IF node = Word("body") /\ list[2] # <<>> /\ ~Is(path, "string") THEN NotSent(Failure)
      ELSE Send([i \in DOMAIN list[2] |-> Of(list[2][i])])

\* RedisRequestPolicy::run: one message of all commands, each in an array of components.
RedisMessages(S) ==
  LET cmds == Lookup(S, "redis_cmd")[2]
      command(c) == <<c[2].op>> \o c[2].arg[2]
  IN  IF \E i \in DOMAIN cmds : Len(command(cmds[i])) > RedisRoom THEN NotSent(Crash)
      ELSE Send(<<[i \in DOMAIN cmds |-> command(cmds[i])]>>)

\* BackendRequestPolicy::run in a scope of its own.
MessagesOf(kind, r) ==
  IF Bad(r.v) THEN NotSent(r.v)
  ELSE CASE kind = "redis" -> RedisMessages(r.S)
         [] kind = "dynamic" -> DynamicMessages(r.S)
         [] OTHER -> HttpMessages(kind, r.S)
Messages(kind, b, S) == MessagesOf(kind, RunRequest(kind, b, <<<<>>>> \o S))

-----------------------------------------------------------------------------
(* If blocks: [cond, def, output, next], next being a sequence of none or  *)
(* one.                                                                    *)

RunBranch(b, r) ==
  IF Lookup(r.S, "cond") = Bool(TRUE) THEN MergeField(b.output, "output", Defined(b.def, r)) ELSE r
RunIf(b, S) == RunBranch(b, SetTo(Ok(S), "cond", LogicalAnd(b.cond, S)))

\* The flow's takes its next whatever has become of the rest.
WithNext(next, r) ==
  IF r.v = Crash THEN r
  ELSE Ok(IF next = <<>> THEN r.S ELSE SetVar(r.S, "next", next[1]))

\* The if blocks in turn, each in a scope of its own: the first that does not fail and
\* whose condition holds gives the output, and the next if the flow's; else the default
\* of the block.  (Mutant: the last that holds.)
IfRun(flow, b, S) ==
  IF flow THEN WithNext(b.next, RunIf(b, <<<<>>>> \o S)) ELSE RunIf(b, <<<<>>>> \o S)
Decides(r) == r.v = Crash \/ (~Bad(r.v) /\ Lookup(r.S, "cond") \in {Absent, Bool(TRUE)})

Taken(flow, r) ==
  LET S == Tail(r.S)
      output == Lookup(r.S, "output")
      next == Lookup(r.S, "next")
      merged == IF output = Absent THEN S ELSE MergeVar(S, "output", output)
  IN  IF r.v = Crash THEN [v |-> Crash, S |-> S]
      ELSE IF Lookup(r.S, "cond") = Absent THEN [v |-> Failure, S |-> S]
      ELSE Ok(IF flow /\ next # Absent THEN SetVar(merged, "next", next) ELSE merged)

LastDeciding(is) == CHOOSE i \in is : \A j \in is : i >= j
Deciding(is) == CHOOSE i \in is : \A j \in is : i <= j

Default(flow, b, r) ==
  IF Bad(r.v) \/ ~flow \/ b.next = <<>> THEN r ELSE SetTo(r, "next", b.next[1])
Chosen(flow, b, r, runs) ==
  LET is == {i \in DOMAIN runs : Decides(runs[i])}
  IN  IF is # {} THEN Taken(flow, runs[Deciding(is)])
      ELSE Default(flow, b, MergeField(b.output, "output", r))
Output(flow, b, r) ==
  IF Bad(r.v) THEN r ELSE Chosen(flow, b, r, [i \in DOMAIN b.ifs |-> IfRun(flow, b.ifs[i], r.S)])

\* BackendResponseConfig::run: the definitions, the template as a whole, the branch.
WithOutput(b, r) == Output(FALSE, b, Defined(b.def, r))
RunResponse(b, S) ==
  LET r == Defined(b.def, Ok(S))
  IN  Output(FALSE, b, IF b.include = <<>> THEN r ELSE WithOutput(b.include[1], r))

\* The variable `response' a policy makes of what came: text, or JSON that may not
\* parse; one for every call of a dynamic service; Redis replies.
WithError(reply, v) ==
  IF Bad(v) THEN v ELSE Obj([error |-> Num(IF reply[1] = "error" THEN 1 ELSE 0), data |-> v])
Received(kind, came) ==
  CASE kind = "redis" -> AllOf([i \in DOMAIN came |-> WithError(came[i], ParseReply(came[i]))])
    [] kind = "dynamic" -> AllOf(came)
    [] OTHER -> came[1]

\* BackendResponsePolicy::run: the output of the block, in a scope of its own.
OutputOf(r) ==
  IF Bad(r.v) THEN r.v
  ELSE IF Lookup(r.S, "output") = Absent THEN Failure ELSE Lookup(r.S, "output")
Response(kind, b, came, S) ==
  IF Bad(Received(kind, came)) THEN Received(kind, came)
  ELSE OutputOf(RunResponse(b, <<[response |-> Received(kind, came)]>> \o S))
=============================================================================

------------------------------- MODULE MCNode -------------------------------
(* Instances of Node for TLC: rank blocks over three services, request and  *)
(* response blocks with templates and branches, definitions one by one.     *)
EXTENDS Node, Expressions

Digits == <<"0", "1", "2", "3">>

\* What the recursive parameters are.  (With a LET: TLC's coverage unfolds the body of what
\* is put for a constant operator at every use.)
Evaluated(e, Q) == LET v == Eval(e, Q) IN v
Merged(to, from) == LET v == MergedOnce(to, from) IN v
Parsed1(reply) == LET v == ReadReply(reply) IN v

Key(k, e) == [key |-> k, expr |-> e]
Text1(w) == Const(Word(w))
Whole1(n) == Const(Num(n))
Ints(s) == Arr([i \in DOMAIN s |-> Num(s[i])])
Words(s) == Arr([i \in DOMAIN s |-> Word(s[i])])

-----------------------------------------------------------------------------
(* Blocks.                                                                 *)

Request(f) ==
  f @@ [def |-> <<>>, include |-> <<>>, sets |-> <<>>, header |-> <<>>, query |-> <<>>,
        body |-> <<>>, args |-> <<>>, cmds |-> <<>>]
Uri(u) == ("http_uri" :> Text1(u)) @@ ("http_method" :> Text1("post"))
Plain == Request([sets |-> Uri("u")])

Response1(ifs, out) == [def |-> <<>>, include |-> <<>>, ifs |-> ifs, output |-> out]
AsIs == Response1(<<>>, <<Key(<<>>, Var("response"))>>)
Branch(cond, out) == [cond |-> cond, def |-> <<>>, output |-> out, next |-> <<>>]

Service(name, kind, req, res, answer) ==
  [name |-> name, kind |-> kind, request |-> req, response |-> res, failed |-> FALSE,
   came |-> answer]
Setup(f) ==
  f @@ [request |-> Obj([q |-> Word("x"), n |-> Num(2)]), def |-> <<>>, services |-> <<>>,
        rank |-> <<>>, ifs |-> <<>>, output |-> <<>>, next |-> <<>>]

-----------------------------------------------------------------------------
(* Ranking: one rule at a time over every answer of whole items; answers    *)
(* that give no value, are null, are arrays, or fail.                      *)

Item2(m, n) == Obj([score |-> m, cost |-> n])
By(e, d) == [expr |-> Call("get", <<Var("item"), Text1(e)>>), desc |-> d]
RankBlock(order, sortBy, in, top) ==
  [known |-> TRUE, order |-> order, sortBy |-> sortBy, input |-> Var(in), top |-> top]

Order3 == <<{"a", "b"}, {"c"}>>
Order2 == <<{"c"}, {"a"}>>
Rules(in, top) ==
  {RankBlock(Order3, <<By("score", TRUE)>>, in, top),
   RankBlock(Order2, <<By("score", FALSE), By("cost", TRUE)>>, in, top),
   RankBlock(<<>>, <<By("score", TRUE), By("cost", FALSE)>>, in, top)}

Numbers == {Num(1), Num(2)}
Wholes == [{"a", "b", "c"} -> {Item2(m, n) : m, n \in Numbers}]
Odd ==
  {[a |-> Item2(Null, Num(1)), b |-> Num(3), c |-> Item2(Num(1), Num(1))],
   [a |-> Item2(Num(1), Num(2)), b |-> Failure,
    c |-> Arr(<<Item2(Num(1), Num(1)), Num(0), Item2(Num(2), Num(2))>>)],
   [a |-> Failure, b |-> Arr(<<>>), c |-> Item2(Num(1), Num(1))]}
Missing == [expr |-> Call("index_at", <<Array(<<Var("item")>>), Text1("key"), Text1("v")>>),
            desc |-> TRUE]
OddRules == {RankBlock(Order3, <<By("score", d)>>, "recall", 2) : d \in BOOLEAN}
              \cup {RankBlock(<<>>, <<By("cost", FALSE)>>, "recall", 0),
                    RankBlock(<<>>, <<Missing>>, "recall", 0)}

Ranked3(ans, rank) ==
  Setup([rank |-> rank,
         services |-> [i \in 1..3 |->
           LET s == <<"a", "b", "c">>[i]
           IN  [Service(s, "http", Plain, <<AsIs>>, <<ans[s]>>) EXCEPT !.failed = ans[s] = Failure]]])

RankSetups ==
  {Ranked3(w, <<r>>) : r \in Rules("recall", 0) \cup Rules("recall", 1),
                       w \in {x \in Wholes : x["a"] = Item2(Num(1), Num(2))}}
    \cup {Ranked3(o, <<r>>) : r \in OddRules, o \in Odd}
    \cup {Ranked3(w, <<r, s>>) : r \in Rules("recall", 2), s \in Rules("rank", 1),
            w \in {x \in Wholes : x["c"] = Item2(Num(2), Num(1)) /\ x["a"] = Item2(Num(1), Num(1))}}
    \cup {Ranked3(w, <<[RankBlock(Order3, <<>>, i, 0) EXCEPT !.known = k]>>) :
            i \in {"recall", "rank", "request"}, k \in BOOLEAN, w \in {CHOOSE x \in Wholes : TRUE}}

-----------------------------------------------------------------------------
(* Requests: own fields and a template's, keys in either order, null        *)
(* members, missing variables; dynamic lists; Redis commands up to more     *)
(* than there is room for.                                                 *)

Json == Key(<<"Content-Type">>, Const(Str(JsonType)))
Query(f) == Call("get", <<Var("request"), Text1(f)>>)
Bodies2 == {<<Key(<<"x", "y">>, Query("q")), Key(<<"x">>, Var("d"))>>,
            <<Key(<<"x">>, Var("d")), Key(<<"x", "z">>, Whole1(1))>>, <<>>}
Template ==
  Request([sets |-> ("http_method" :> Text1("get")), def |-> <<Key(<<"t">>, Whole1(5))>>,
           header |-> <<Json, Key(<<"h">>, Text1("template"))>>,
           query |-> <<Key(<<"k">>, Var("t"))>>,
           body |-> <<Key(<<"x">>, Text1("template")), Key(<<"w">>, Whole1(3))>>])

HttpRequests ==
  {Request([sets |-> Uri("u"), def |-> <<Key(<<"d">>, Const(Obj([y |-> Num(0)])))>>,
            include |-> t, header |-> h, body |-> b, query |-> q]) :
     t \in {<<>>, <<Template>>},
     h \in {<<>>, <<Json, Key(<<"h">>, Text1("own")), Key(<<"g">>, Query("none"))>>},
     b \in Bodies2,
     q \in {<<Key(<<"k">>, Query("n")), Key(<<"l">>, Var("undefined"))>>, <<Key(<<"k">>, Query("n"))>>}}
    \cup {Request(<<>>)}

HostRequests ==
  {Request([sets |-> s @@ Uri("u")]) :
     s \in {"host_ip_port" :> Text1(w) : w \in {"host:80", "host"}} \cup {<<>>}}

DynamicRequests ==
  {Request([sets |-> ("dynamic_args_node" :> Text1(n)) @@ p @@ Uri("u"),
            header |-> <<Json>>, query |-> <<Key(<<"k">>, Whole1(1))>>, body |-> b,
            args |-> <<Key(<<"k">>, Const(l))>>]) :
     n \in {"uri", "query", "body"}, b \in Bodies2 \ {<<Key(<<"x">>, Var("d")), Key(<<"x", "z">>, Whole1(1))>>},
     p \in {<<>>, "dynamic_args_path" :> Const(Str(<<"x", "y">>))},
     l \in {Null, Num(1), Ints(<<>>), Arr(<<Num(1), Word("v")>>)}}

Cmd(op, es) == [op |-> op, arg |-> es]
RedisRequests ==
  {Request([cmds |-> c, include |-> t]) :
     c \in {<<>>, <<Cmd("get", <<Query("q")>>), Cmd("set", <<Query("q"), Whole1(2)>>)>>,
            <<Cmd("set", <<Whole1(1), Whole1(2), Whole1(3), Whole1(1)>>)>>, <<Cmd("get", <<Var("undefined")>>)>>},
     t \in {<<>>, <<Request([cmds |-> <<Cmd("get", <<Whole1(1)>>)>>])>>}}

D == Key(<<"d">>, Const(Obj([y |-> Num(0)])))
RequestSetups ==
  {Setup([services |-> <<Service("a", k[1], r, <<AsIs>>, k[2])>>]) :
     k \in {<<"http", <<Word("A")>>>>}, r \in HttpRequests}
    \cup {Setup([services |-> <<Service("a", "host", r, <<AsIs>>, <<Word("A")>>)>>]) : r \in HostRequests}
    \cup {Setup([def |-> <<D>>, services |-> <<Service("a", "dynamic", r, <<AsIs>>, <<Word("A"), Num(1)>>)>>]) :
            r \in DynamicRequests}
    \cup {Setup([services |-> <<Service("a", "redis", r, <<AsIs>>, c)>>]) :
            r \in RedisRequests,
            c \in {<<<<"string", <<"A">>>>, <<"nil">>>>, <<<<"error", <<"E">>>>, <<"integer", 33>>>>,
                   <<<<"array", <<<<"integer", 1>>, <<"array", <<>>>>>>>>, <<"status", <<"OK">>>>>>}}

-----------------------------------------------------------------------------
(* Branches: of an answer, of the node; overlapping, failing, with a        *)
(* template, with keys in either order.                                    *)

Is1(n) == Op("==", Var("response"), Whole1(n))
Positive == Op(">", Var("response"), Whole1(0))
Out(w) == <<Key(<<"r", "s">>, Text1(w)), Key(<<"r">>, Const(Obj([t |-> Num(1)])))>>
Fails == <<Key(<<"r">>, Var("undefined"))>>
AnswerBranches ==
  {<<>>, <<Branch(<<Positive>>, Out("first")), Branch(<<Is1(1)>>, Out("second"))>>,
   <<Branch(<<Positive, Is1(1)>>, Fails), Branch(<<Positive>>, Out("second"))>>,
   <<Branch(<<Var("undefined")>>, Out("first")), Branch(<<>>, <<>>)>>,
   <<[Branch(<<Positive>>, <<Key(<<"r">>, Var("e"))>>) EXCEPT
        !.def = <<Key(<<"e">>, Op("/", Whole1(6), Op("-", Var("response"), Whole1(1))))>>]>>}
Inner == Response1(<<Branch(<<Is1(2)>>, Out("template"))>>, <<Key(<<"p">>, Whole1(7))>>)

AnswerSetups ==
  {Setup([services |->
      <<Service("a", "http", Plain, <<[Response1(ifs, out) EXCEPT !.include = t]>>, <<v>>)>>]) :
     ifs \in AnswerBranches, out \in {<<>>, Out("default"), Fails}, t \in {<<>>, <<Inner>>},
     v \in {Num(0), Num(1), Num(2), Failure, Word("text")}}

Recalled1(name) == Call("has", <<Var("recall"), Text1(name)>>)
To(b, n) == [b EXCEPT !.next = n]
NodeBranches ==
  {<<>>, <<To(Branch(<<Recalled1("a")>>, Out("a")), <<Word("n1")>>),
           To(Branch(<<Recalled1("b")>>, Out("b")), <<Word("n2")>>)>>,
   <<To(Branch(<<Recalled1("a")>>, Fails), <<Word("n1")>>), Branch(<<>>, Out("b"))>>,
   <<Branch(<<Recalled1("a"), Var("undefined")>>, Out("a"))>>}
NodeSetups ==
  {Setup([services |-> [i \in 1..2 |->
             [Service(<<"a", "b">>[i], "http", Plain, r, <<Num(i)>>) EXCEPT !.failed = <<"a", "b">>[i] \in f]],
          ifs |-> ifs, output |-> out, next |-> next]) :
     r \in {<<AsIs>>, <<>>}, f \in SUBSET {"a", "b"}, ifs \in NodeBranches,
     out \in {<<>>, Out("default"), Fails}, next \in {<<>>, <<Word("n3")>>}}

-----------------------------------------------------------------------------
(* Definitions, one at a time.                                             *)

Small == {-(IntMax + 1), -3, -1, 0, 2, 7, IntMax}
Lists == {Ints(s) : s \in {<<>>} \cup [1..2 -> 1..2] \cup {<<1, 2, 1>>, <<3, 1, 2>>}}
Keyed == {Arr(<<>>), Arr(<<Obj([k |-> Word("v")]), Obj([k |-> Word("w")]), Obj([k |-> Word("v")])>>),
          Arr(<<Obj([k |-> Word("v")]), Num(1)>>)}
Paths == {<<>>, <<"k">>, <<"k", "l">>, <<"1">>, <<"0", "k">>}
Definitions ==
  {Op(o, Whole1(m), Whole1(n)) : o \in {"+", "-", "*", "/", "<", "==", "|", "&"}, m, n \in Small}
    \cup {Op(o, Const(l), Const(r)) : o \in {"+", "-", "|", "&", "<"}, l, r \in Lists}
    \cup {Call("slice", <<Const(l), Whole1(m), Whole1(n)>>) : l \in Lists, m, n \in -4..4}
    \cup {Call("set", <<Const(v), Const(Str(p)), Whole1(1)>>) :
            v \in Keyed \cup {Obj(<<>>), Obj([k |-> Num(3)]), Null}, p \in Paths}
    \cup {Call("index_at", <<Const(v), Const(Str(<<"k">>)), Text1(w)>>) : v \in Keyed, w \in {"v", "w", "u"}}
    \cup {Calls(<<<<"foreach_get", <<Const(v), Text1("k")>>>>, <<f[1], f[2]>>>>) : v \in Keyed,
            f \in {<<"len", <<>>>>, <<"int", <<>>>>, <<"bool", <<>>>>, <<"has", <<Text1("v")>>>>,
                   <<"slice", <<Const(Ints(<<0, 1>>))>>>>, <<"unknown", <<>>>>,
                   <<"array_func", <<Const(Arr(<<Word("bool"), Arr(<<>>)>>))>>>>,
                   <<"array_func", <<Const(Arr(<<>>))>>>>}}
    \cup {Call(f, <<Const(v), Text1("k"), Const(x)>>) : f \in {"translate", "foreach_set", "get"}, v \in Keyed,
            x \in {Obj([v |-> Word("V")]), Obj([v |-> Num(1)]), Ints(<<1, 2, 3>>), Ints(<<>>)}}
    \cup {Call("slice", <<Const(v), Const(Obj([method |-> Word(m), path |-> Str(<<"k">>),
                                               keys |-> Words(<<"v">>)]))>>) :
            v \in Keyed, m \in {"AND", "EXCLUSIVE"}}
    \cup {Call("normalize", <<Const(v), Text1("k"), Const(Arr(<<Word(f), Arr(<<>>)>>)),
                              Const(Arr(<<Word(g), Arr(<<>>)>>))>>) :
            v \in Keyed, f \in {"bool", "int"}, g \in {"bool", "int"}}
    \cup {If(Op(o, Const(Bool(x)), Not(Const(Bool(y)))), Array(<<Whole1(1)>>), Dict([k |-> Var(z)])) :
            o \in {"&&", "||"}, x, y \in BOOLEAN, z \in {"request", "undefined"}}

DefinitionSetups == {Setup([def |-> <<Key(<<"p">>, e)>>]) : e \in Definitions}
                      \cup {Setup([def |-> <<Key(<<"p", "q">>, Whole1(1)), Key(<<"p">>, Var("request"))>>])}

PassSetups == RankSetups \cup RequestSetups \cup AnswerSetups \cup NodeSetups \cup DefinitionSetups

\* What the theorems about the outputs and the requests ask of the nodes.
ASSUME OutputAssumption == AllAgree /\ NamesDiffer
ASSUME RequestAssumption == RequestsJoin
=============================================================================

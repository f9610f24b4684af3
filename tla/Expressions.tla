----------------------------- MODULE Expressions -----------------------------
(***************************************************************************)
(* The evaluation of expressions (expression.cpp), with the functions that *)
(* call others, and the reading of Redis replies.                          *)
(* The module has RECURSIVE operators and is for TLC alone.                *)
(***************************************************************************)
EXTENDS Builtins

\* A Redis reply (external) as JSON: of a 64-bit integer the bits of an int are left.
RECURSIVE ReadReply(_)
ReadReply(reply) ==
  CASE reply[1] = "nil" -> Null
    [] reply[1] \in {"string", "status", "error"} -> Str(reply[2])
    [] reply[1] = "integer" -> Num(Wrap(reply[2]))
    [] reply[1] = "array" -> AllOf([i \in DOMAIN reply[2] |-> ReadReply(reply[2][i])])
    [] OTHER -> Failure

-----------------------------------------------------------------------------
(* Functions that call others.                                             *)

\* call_function.  array_func calls a function on every element; normalize replaces
\* the string at the path of an element by a function of it, if another is true of it.
RECURSIVE CallFunction(_, _)

\* A pair of a function's name and its further arguments, as the two take.
Applied(pair, v) == CallFunction(pair[1][2][1], <<v>> \o pair[2][2])
Applicable(pair) == Takes(pair, <<"string", "array">>)

\* (The complaint about a list that is no pair reads an argument that is not there.)
ArrayFunc(args) ==
  LET pair == args[2][2]
      One(v) == IF Len(pair) # 2 THEN Crash
                ELSE IF Applicable(pair) THEN Applied(pair, v) ELSE Failure
  IN  IF Takes(args, <<"array", "array">>)
      THEN AllOf([i \in DOMAIN args[1][2] |-> One(args[1][2][i])]) ELSE Failure

Normalize(args) ==
  LET One(v) ==
        LET x == GetAt(v, args[2][2])
            test == Applied(args[3][2], x)
            y == Applied(args[4][2], x)
        IN  IF ~Is(x, "string") \/ ~Applicable(args[3][2]) THEN Failure
            ELSE IF ~Is(test, "bool") THEN IF Bad(test) THEN test ELSE Failure
            ELSE IF ~test[2] THEN v
            ELSE IF ~Applicable(args[4][2]) THEN Failure
            ELSE IF ~Is(y, "string") THEN IF Bad(y) THEN y ELSE Failure
            ELSE SetAt(v, args[2][2], y)
  IN  IF Takes(args, <<"array", "string", "array", "array">>)
      THEN AllOf([i \in DOMAIN args[1][2] |-> One(args[1][2][i])]) ELSE Failure

\* A function that is not registered fails.
CallFunction(f, args) ==
  CASE f = "get" -> Get(args) [] f = "set" -> SetValue(args)
    [] f = "foreach_get" -> ForEachGet(args) [] f = "foreach_set" -> ForEachSet(args)
    [] f = "translate" -> Translate(args) [] f = "index_at" -> IndexAt(args)
    [] f = "has" -> Has(args) [] f = "len" -> Length(args) [] f = "slice" -> Slice(args)
    [] f = "int" -> IntValue(args) [] f = "bool" -> BoolValue(args)
    [] f = "array_func" -> ArrayFunc(args) [] f = "normalize" -> Normalize(args)
    [] OTHER -> Failure

-----------------------------------------------------------------------------
(* Evaluation.                                                             *)

\* What a pipe feeds goes before the arguments, unless it is null.
Fed(input, vs) == IF input = Null THEN vs ELSE <<input>> \o vs

RECURSIVE Eval(_, _), Run(_, _, _)
EvalAll(es, S) == [i \in DOMAIN es |-> Eval(es[i], S)]

Called(f, input, vs) == First(vs, CallFunction(f, Fed(input, vs)))
Piped(calls, v, S) == IF Bad(v) \/ calls = <<>> THEN v ELSE Run(calls, v, S)
Run(calls, input, S) ==
  Piped(Tail(calls), Called(calls[1][1], input, EvalAll(calls[1][2], S)), S)

\* The rest of an expression, once the values it depends on are there.
OfTwo(o, vs) == First(vs, Binary(o, vs[1], vs[2]))
Branched(c, e, S) ==
  IF Is(c, "bool") THEN Eval(IF c[2] THEN e.l ELSE e.r, S) ELSE IF Bad(c) THEN c ELSE Failure
Negated(v) == IF Is(v, "bool") THEN Bool(~v[2]) ELSE IF Bad(v) THEN v ELSE Failure
Members(vs) ==
  LET errors == {vs[k] : k \in DOMAIN vs} \cap {Failure, Crash}
  IN  IF errors = {} THEN Obj(vs) ELSE IF Failure \in errors THEN Failure ELSE Crash

\* An undefined variable is a failure.  What evaluates to Failure or Crash ends the
\* expression.
Eval(e, S) ==
  CASE e.e = "const" -> e.v
    [] e.e = "var" -> IF Lookup(S, e.x) = Absent THEN Failure ELSE Lookup(S, e.x)
    [] e.e = "op" -> OfTwo(e.o, EvalAll(<<e.l, e.r>>, S))
    [] e.e = "if" -> Branched(Eval(e.c, S), e, S)
    [] e.e = "not" -> Negated(Eval(e.a, S))
    [] e.e = "array" -> AllOf(EvalAll(e.es, S))
    [] e.e = "dict" -> Members([k \in DOMAIN e.f |-> Eval(e.f[k], S)])
    [] e.e = "calls" -> Run(e.cs, Null, S)
=============================================================================

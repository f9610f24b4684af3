-------------------------------- MODULE Values --------------------------------
(***************************************************************************)
(* JSON values, and the scopes that hold variables (ExpressionContext).    *)
(*                                                                         *)
(* A value is a tuple of its type and its contents.  A string is a         *)
(* sequence of names: the string "a/b" is <<"a", "b">>, the names a path   *)
(* or a key of a block goes through, and <<>> the empty string or the path *)
(* "/".  Numbers are integers; the members of an object have no order.     *)
(*                                                                         *)
(* How expressions are evaluated (Expressions) and what values are merged  *)
(* to are parameters, both being recursive: what Merge is by which Merge   *)
(* is once, at the top of the values, is MergedOnce.                       *)
(***************************************************************************)
EXTENDS Integers, Sequences, FiniteSets, SequencesExt

CONSTANTS
  Numerals,             \* "0", "1", ... : the texts of the first numbers
  Evaluate(_, _),       \* what an expression comes to in a sequence of scopes
  Merge(_, _)           \* the first value, with the second merged into it

ASSUME NumeralsAssumption == Numerals \in Seq(STRING) /\ IsInjective(Numerals)

Null == <<"null">>
Bool(b) == <<"bool", b>>
Num(n) == <<"int", n>>
Str(names) == <<"string", names>>
Word(w) == Str(<<w>>)
Arr(s) == <<"array", s>>
Obj(f) == <<"object", f>>
Is(v, type) == v[1] = type

\* What evaluating may come to instead: the error of the interpreter, and undefined
\* behaviour (a null reference, a division by zero), at which the process ends.
Failure == <<"failure">>
Crash == <<"crash">>
Bad(v) == v \in {Failure, Crash}

\* A variable, or a place in a value, that is not there.
Absent == <<"absent">>

-----------------------------------------------------------------------------
(* Arrays and objects.                                                     *)

\* The index a name of a path is, or -1.
Index(name) ==
  IF \E i \in DOMAIN Numerals : Numerals[i] = name
  THEN (CHOOSE i \in DOMAIN Numerals : Numerals[i] = name) - 1 ELSE -1

\* What is in a value under a name, or at the end of a path.
Below(v, name) ==
  CASE Is(v, "object") /\ name \in DOMAIN v[2] -> v[2][name]
    [] Is(v, "array") /\ Index(name) + 1 \in DOMAIN v[2] -> v[2][Index(name) + 1]
    [] OTHER -> Absent
GetAt(v, path) ==
  LET down[n \in 0..Len(path)] == IF n = 0 THEN v ELSE Below(down[n - 1], path[n])
  IN  down[Len(path)]

\* The value with x under a name.  What is in the way becomes an object or, where the name
\* is an index, an array; an array grows up to the index.
Placed(v, name, x) ==
  LET elements == IF Is(v, "array") THEN v[2] ELSE <<>>
      members == IF Is(v, "object") THEN v[2] ELSE <<>>
      at == Index(name) + 1
  IN  IF at > 0 /\ ~Is(v, "object")
      THEN Arr([i \in 1..at \cup DOMAIN elements |->
                  IF i = at THEN x ELSE IF i \in DOMAIN elements THEN elements[i] ELSE Null])
      ELSE Obj([k \in DOMAIN members \cup {name} |-> IF k = name THEN x ELSE members[k]])

\* With x at the end of the path: from the end up, what each name leads to.
SetAt(v, path, x) ==
  LET up[n \in 0..Len(path)] ==
        IF n = 0 THEN x
        ELSE LET m == Len(path) - n
             IN  Placed(GetAt(v, SubSeq(path, 1, m)), path[m + 1], up[n - 1])
  IN  up[Len(path)]

\* The text a value is written as where text is needed: a string is its own.
Text(v) == IF Is(v, "int") /\ v[2] + 1 \in DOMAIN Numerals THEN <<Numerals[v[2] + 1]>>
           ELSE IF Is(v, "string") THEN v[2] ELSE v

\* Strings that are put together meet in one name.
Concat(l, r) ==
  IF l = <<>> THEN r ELSE IF r = <<>> THEN l
  ELSE SubSeq(l, 1, Len(l) - 1) \o <<l[Len(l)] \o r[1]>> \o Tail(r)

\* The member of an object, whose name is one.
Member(v, s) ==
  IF Len(s) = 1 /\ s[1] \in DOMAIN v[2] THEN v[2][s[1]] ELSE Absent

\* The first of several values that is bad, or else the result.
First(vs, result) ==
  LET bad == {i \in DOMAIN vs : Bad(vs[i])}
  IN  IF bad = {} THEN result ELSE vs[CHOOSE i \in bad : \A j \in bad : i <= j]

\* The array of them.
AllOf(vs) == First(vs, Arr(vs))

\* merge_json_objects: objects are merged member by member, what is an object in both again
\* by Merge; otherwise what is added replaces what is there.
MergedOnce(to, from) ==
  IF ~Is(to, "object") \/ ~Is(from, "object") THEN to
  ELSE Obj([k \in DOMAIN to[2] \cup DOMAIN from[2] |->
              IF k \notin DOMAIN to[2] THEN from[2][k]
              ELSE IF k \notin DOMAIN from[2] THEN to[2][k]
              ELSE IF Is(to[2][k], "object") /\ Is(from[2][k], "object")
                   THEN Merge(to[2][k], from[2][k])
              ELSE from[2][k]])

-----------------------------------------------------------------------------
(* Scopes: a sequence of them, the innermost first.                        *)

Lookup(S, x) ==
  LET in == {i \in DOMAIN S : x \in DOMAIN S[i]}
  IN  IF in = {} THEN Absent ELSE S[CHOOSE i \in in : \A j \in in : i <= j][x]

\* A variable of the innermost scope, new or erased and set anew; one that is defined
\* again without that keeps its first value.
Reset(S, x, v) ==
  [S EXCEPT ![1] = [y \in DOMAIN @ \cup {x} |-> IF y = x THEN v ELSE @[y]]]
SetVar(S, x, v) == IF x \in DOMAIN S[1] THEN S ELSE Reset(S, x, v)

\* Merged into the variable of the scope that has one, else a new one of the innermost.
MergeVar(S, x, v) ==
  LET in == {i \in DOMAIN S : x \in DOMAIN S[i]}
      i == CHOOSE i \in in : \A j \in in : i <= j
  IN  IF in = {} THEN SetVar(S, x, v) ELSE [S EXCEPT ![i][x] = Merge(@, v)]

\* By path, in the innermost; an earlier value is overwritten.
SetPath(S, path, v) == [S EXCEPT ![1] = SetAt(Obj(@), path, v)[2]]
=============================================================================

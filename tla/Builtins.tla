------------------------------- MODULE Builtins -------------------------------
(***************************************************************************)
(* The expressions of the configuration, what an operator makes of values  *)
(* (expression.cpp), and the built-in functions that take values apart and *)
(* put them together (builtin.cpp), but for those that call others.        *)
(***************************************************************************)
EXTENDS Values

CONSTANT IntMax     \* the greatest int

ASSUME IntAssumption == IntMax \in Nat /\ IntMax + 1 \in {2^k : k \in 1..15}

-----------------------------------------------------------------------------
(* Expressions.                                                            *)

Const(v) == [e |-> "const", v |-> v]
Var(x) == [e |-> "var", x |-> x]
Op(o, l, r) == [e |-> "op", o |-> o, l |-> l, r |-> r]
If(c, l, r) == [e |-> "if", c |-> c, l |-> l, r |-> r]
Not(a) == [e |-> "not", a |-> a]
Array(es) == [e |-> "array", es |-> es]
Dict(f) == [e |-> "dict", f |-> f]
\* f(..)|g(..): each call is a pair of the function and its arguments.
Calls(cs) == [e |-> "calls", cs |-> cs]
Call(f, es) == Calls(<<<<f, es>>>>)

\* Of + - and * nothing is left but the low bits; the greatest negative has no opposite.
Wrap(n) == ((n + IntMax + 1) % (2 * (IntMax + 1))) - (IntMax + 1)
Abs(n) == IF n < 0 THEN -n ELSE n
Quotient(m, n) ==
  IF n = 0 \/ (m = -(IntMax + 1) /\ n = -1) THEN Crash
  ELSE Num(IF (m < 0) = (n < 0) THEN Abs(m) \div Abs(n) ELSE -(Abs(m) \div Abs(n)))

OfNumbers(o, m, n) ==
  CASE o = "+" -> Num(Wrap(m + n)) [] o = "-" -> Num(Wrap(m - n)) [] o = "*" -> Num(Wrap(m * n))
    [] o = "/" -> Quotient(m, n)
    [] o = ">" -> Bool(m > n) [] o = "<" -> Bool(m < n)
    [] o = ">=" -> Bool(m >= n) [] o = "<=" -> Bool(m <= n)

\* Bit by bit, in two's complement.
OfBits(o, m, n) ==
  LET one(x, k) == (x \div 2^k) % 2 = 1
      bits == {k \in 0..15 : 2^k <= 2 * IntMax + 1}
  IN  Num(Wrap(MapThenSumSet(LAMBDA k : 2^k,
        {k \in bits : IF o = "|" THEN one(m, k) \/ one(n, k) ELSE one(m, k) /\ one(n, k)})))

\* Each element once, where it stands first.
Distinct(s) ==
  LET firsts == {i \in DOMAIN s : \A j \in 1..i - 1 : s[j] # s[i]}
  IN  [i \in 1..Cardinality(firsts) |-> s[SetToSortSeq(firsts, <)[i]]]

\* What of r is in l, or in r a second time: the set that is asked also takes what
\* has been looked at.
Common(l, r) ==
  FlattenSeq([i \in DOMAIN r |->
    IF r[i] \in ToSet(l) \cup ToSet(SubSeq(r, 1, i - 1)) THEN <<r[i]>> ELSE <<>>])

OfArrays(o, l, r) ==
  CASE o = "+" -> Arr(l \o r)
    [] o = "-" -> Arr(SelectSeq(Distinct(l), LAMBDA x : x \notin ToSet(r)))
    [] o = "|" -> Arr(Distinct(l \o r))
    [] o = "&" -> Arr(Common(l, r))
    [] OTHER -> Failure

\* BinaryExpression::run, once both sides are evaluated; there is no short circuit.
Binary(o, l, r) ==
  CASE o = "==" -> Bool(l = r)
    [] o = "!=" -> Bool(l # r)
    [] o \in {"+", "-", "|", "&"} /\ Is(l, "array") /\ Is(r, "array") -> OfArrays(o, l[2], r[2])
    [] o = "+" /\ Is(l, "string") /\ Is(r, "string") -> Str(Concat(l[2], r[2]))
    [] o \in {"+", "-", "*", "/", ">", "<", ">=", "<="} /\ Is(l, "int") /\ Is(r, "int") ->
         OfNumbers(o, l[2], r[2])
    [] o \in {"|", "&"} /\ Is(l, "int") /\ Is(r, "int") -> OfBits(o, l[2], r[2])
    [] o \in {"||", "|"} /\ Is(l, "bool") /\ Is(r, "bool") -> Bool(l[2] \/ r[2])
    [] o \in {"&&", "&"} /\ Is(l, "bool") /\ Is(r, "bool") -> Bool(l[2] /\ r[2])
    [] OTHER -> Failure

-----------------------------------------------------------------------------
(* Built-in functions: of a sequence of arguments.                         *)

\* parameter_check.
Takes(args, types) ==
  Len(args) = Len(types) /\ \A i \in DOMAIN types : Is(args[i], types[i])

Container(v) == Is(v, "object") \/ Is(v, "array")

\* get and foreach_get: a default stands for what is not there.
GetOr(v, path, args) ==
  LET x == GetAt(v, path) IN IF x # Absent THEN x ELSE IF Len(args) = 3 THEN args[3] ELSE Null

Get(args) ==
  IF Len(args) \in {2, 3} /\ Container(args[1]) /\ Is(args[2], "string")
  THEN GetOr(args[1], args[2][2], args) ELSE Failure

ForEachGet(args) ==
  IF Len(args) \in {2, 3} /\ Is(args[1], "array") /\ Is(args[2], "string")
  THEN Arr([i \in DOMAIN args[1][2] |-> GetOr(args[1][2][i], args[2][2], args)]) ELSE Failure

SetValue(args) ==
  IF Len(args) = 3 /\ Container(args[1]) /\ Is(args[2], "string")
  THEN SetAt(args[1], args[2][2], args[3]) ELSE Failure

ForEachSet(args) ==
  IF Takes(args, <<"array", "string", "array">>) /\ Len(args[1][2]) = Len(args[3][2])
  THEN Arr([i \in DOMAIN args[1][2] |-> SetAt(args[1][2][i], args[2][2], args[3][2][i])])
  ELSE Failure

\* translate: the strings at a path, through a dictionary of strings.
Translate(args) ==
  LET One(v) ==
        LET x == GetAt(v, args[2][2])
            y == IF Is(x, "string") THEN Member(args[3], x[2]) ELSE Absent
        IN  IF y = Absent THEN v ELSE IF ~Is(y, "string") THEN Crash ELSE SetAt(v, args[2][2], y)
  IN  IF Takes(args, <<"array", "string", "object">>)
      THEN AllOf([i \in DOMAIN args[1][2] |-> One(args[1][2][i])]) ELSE Failure

\* index_at: the index as a string, "-1" for none.  An element before it at whose
\* path there is no string is taken for one.
IndexAt(args) ==
  LET at == [i \in DOMAIN args[1][2] |-> GetAt(args[1][2][i], args[2][2])]
      stops == {i \in DOMAIN at : ~Is(at[i], "string") \/ at[i] = args[3]}
      i == CHOOSE i \in stops : \A j \in stops : i <= j
  IN  IF ~Takes(args, <<"array", "string", "string">>) THEN Failure
      ELSE IF stops = {} THEN Word("-1")
      ELSE IF ~Is(at[i], "string") THEN Crash
      ELSE Word(Numerals[i])

Has(args) ==
  IF Len(args) # 2 \/ ~Container(args[1]) THEN Failure
  ELSE IF Is(args[1], "array") THEN Bool(args[2] \in ToSet(args[1][2]))
  ELSE IF Is(args[2], "string") THEN Bool(Member(args[1], args[2][2]) # Absent)
  ELSE Failure

Length(args) == IF Takes(args, <<"array">>) THEN Num(Len(args[1][2])) ELSE Failure

\* reverse_index: counted from the end if it is negative, and within the array.
\* (Mutant: the last is -0.)
ReverseOneOff(i, size) ==
  LET index == IF i < 0 THEN i + size - 1 ELSE i
  IN  IF index < 0 THEN 0 ELSE IF index > size THEN size ELSE index
ReverseIndex(i, size) ==
  LET index == IF i < 0 THEN i + size ELSE i
  IN  IF index < 0 THEN 0 ELSE IF index > size THEN size ELSE index

\* slice: by start and end; without the elements at some indices (ints); or with those (AND),
\* or without those (EXCLUSIVE), that have one of some keys at a path.
SliceFrom(elements, args) ==
  LET size == Len(elements)
      ints == \A i \in 2..Len(args) : i > 3 \/ Is(args[i], "int")
      start == IF Len(args) >= 2 THEN ReverseIndex(args[2][2], size) ELSE 0
      end == IF Len(args) >= 3 THEN ReverseIndex(args[3][2], size) ELSE size
  IN  IF ints THEN Arr(SubSeq(elements, start + 1, end)) ELSE Failure

SliceAt(elements, indices) ==
  LET gone == {indices[i][2] + 1 : i \in DOMAIN indices}
  IN  Arr(FlattenSeq([i \in DOMAIN elements |-> IF i \in gone THEN <<>> ELSE <<elements[i]>>]))

SliceBy(elements, method, path, keys) ==
  LET texts == {Text(keys[i]) : i \in DOMAIN keys}
      Stays(v) == LET x == GetAt(v, path)
                  IN  /\ x # Absent
                      /\ method = Word("AND") => Text(x) \in texts
                      /\ method = Word("EXCLUSIVE") => Text(x) \notin texts
  IN  Arr(SelectSeq(elements, Stays))

Slice(args) ==
  IF ~Is(args[1], "array") THEN Failure
  ELSE IF Len(args) = 1 \/ ~Container(args[2]) THEN SliceFrom(args[1][2], args)
  ELSE IF Is(args[2], "array") THEN SliceAt(args[1][2], args[2][2])
  ELSE LET method == Member(args[2], <<"method">>)
           path == Member(args[2], <<"path">>)
           keys == Member(args[2], <<"keys">>)
       IN  IF Is(method, "string") /\ Is(path, "string") /\ Is(keys, "array")
           THEN SliceBy(args[1][2], method, path[2], keys[2]) ELSE Failure

\* int: a number comes to null, as all but booleans and strings; of a string the
\* numerals are numbers here.
IntValue(args) ==
  IF Len(args) # 1 THEN Failure
  ELSE IF Is(args[1], "bool") THEN Num(IF args[1][2] THEN 1 ELSE 0)
  ELSE IF ~Is(args[1], "string") THEN Null
  ELSE IF Len(args[1][2]) = 1 /\ Index(args[1][2][1]) >= 0 THEN Num(Index(args[1][2][1]))
  ELSE Failure

BoolValue(args) ==
  IF Len(args) # 1 THEN Failure
  ELSE Bool(args[1] \notin {Bool(FALSE), Null, Num(0), Str(<<>>), Arr(<<>>), Obj(<<>>)})
=============================================================================

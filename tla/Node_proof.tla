------------------------------ MODULE Node_proof ------------------------------
(***************************************************************************)
(* Proofs about Node: that answers and output are those of the branches    *)
(* that count, and that what is stored is JSON, for any nodes, expressions *)
(* and answers.                                                            *)
(*                                                                         *)
(* First what a path leads to in a value, before and after another path is *)
(* set; then documents, whose fields are set in the order of the depth of  *)
(* their keys; scopes, definitions, if blocks, the output of a block, an   *)
(* answer; and the invariant, with a lemma for each action.  Of what an    *)
(* expression comes to nothing is assumed there but that an empty scope on *)
(* top of others changes nothing.                                          *)
(*                                                                         *)
(* Then the same way once more for JSON: values, scopes, blocks, answers,  *)
(* the actions.  Assumed is that an expression gives JSON or an error.     *)
(*                                                                         *)
(* Last a node, while it ranks, is seen to go by RankSpec.                 *)
(***************************************************************************)
EXTENDS Node, Rank_proof

\* Induction over the naturals.
LEMMA AllNaturals ==
  ASSUME NEW T \in SUBSET Nat, 0 \in T, \A n \in T : n + 1 \in T
  PROVE  T = Nat
<1> SUFFICES ASSUME Nat \ T # {}
             PROVE  FALSE
  OBVIOUS
<1>1. PICK n \in Nat \ T : \A m \in Nat \ T : n <= m
  BY LeastExists
<1>2. n # 0 /\ n - 1 \in Nat /\ ~(n <= n - 1)
  OBVIOUS
<1>3. n - 1 \in T
  BY <1>1, <1>2
<1>4. (n - 1) + 1 = n
  OBVIOUS
<1>5. QED
  BY <1>3, <1>4

-----------------------------------------------------------------------------
(* Paths into values.                                                      *)

Down(v, path, f, N) == f = [n \in 0..N |-> IF n = 0 THEN v ELSE Below(f[n - 1], path[n])]

LEMMA DownExists ==
  ASSUME NEW v, NEW path
  PROVE  \A N \in Nat : \E f : Down(v, path, f, N)
<1> DEFINE T == {N \in Nat : \E f : Down(v, path, f, N)}
<1>1. 0 \in T
  <2>1. Down(v, path, [n \in 0..0 |-> v], 0)
    BY DEF Down
  <2>2. QED
    BY <2>1
<1>2. ASSUME NEW N \in T
      PROVE  N + 1 \in T
  <2>1. PICK f : Down(v, path, f, N)
    OBVIOUS
  <2> DEFINE g == [n \in 0..N + 1 |-> IF n = N + 1 THEN Below(f[N], path[N + 1]) ELSE f[n]]
  <2>2. \A n \in 0..N : g[n] = f[n] /\ f[n] = IF n = 0 THEN v ELSE Below(f[n - 1], path[n])
    BY <2>1 DEF Down
  <2>3. \A n \in 0..N + 1 : g[n] = IF n = 0 THEN v ELSE Below(g[n - 1], path[n])
    <3>1. ASSUME NEW n \in 0..N + 1
          PROVE  g[n] = IF n = 0 THEN v ELSE Below(g[n - 1], path[n])
      <4>1. CASE n = N + 1
        <5>1. g[n] = Below(f[N], path[N + 1]) /\ n - 1 = N /\ n # 0 /\ N \in 0..N
          BY <4>1
        <5>2. g[N] = f[N]
          BY <2>2, <5>1
        <5> HIDE DEF g
        <5>3. QED
          BY <4>1, <5>1, <5>2
      <4>2. CASE n # N + 1
        <5>1. n \in 0..N /\ (n # 0 => n - 1 \in 0..N)
          BY <4>2
        <5> HIDE DEF g
        <5>2. QED
          BY <2>2, <5>1
      <4>3. QED
        BY <4>1, <4>2
    <3>2. QED
      BY <3>1
  <2>4. g = [n \in 0..N + 1 |-> g[n]]
    OBVIOUS
  <2>5. Down(v, path, g, N + 1)
    <3> HIDE DEF g
    <3>1. QED
      BY <2>3, <2>4 DEF Down
  <2>6. QED
    BY <2>5
<1>3. T = Nat
  <2> HIDE DEF T
  <2>1. T \in SUBSET Nat
    BY DEF T
  <2>2. QED
    BY <1>1, <1>2, <2>1, AllNaturals
<1>4. QED
  BY <1>3

LEMMA GetAtIs ==
  ASSUME NEW v, NEW path, Len(path) \in Nat
  PROVE  \E f : Down(v, path, f, Len(path)) /\ GetAt(v, path) = f[Len(path)]
<1>1. \E f : Down(v, path, f, Len(path))
  BY DownExists
<1> DEFINE down == CHOOSE f : f = [n \in 0..Len(path) |->
                                    IF n = 0 THEN v ELSE Below(f[n - 1], path[n])]
<1>2. Down(v, path, down, Len(path))
  BY <1>1 DEF Down
<1>3. GetAt(v, path) = down[Len(path)]
  BY DEF GetAt
<1>4. QED
  BY <1>2, <1>3

LEMMA GetAtNowhere == \A v : GetAt(v, <<>>) = v
<1>1. ASSUME NEW v
      PROVE  GetAt(v, <<>>) = v
  <2>1. PICK f : Down(v, <<>>, f, 0) /\ GetAt(v, <<>>) = f[0]
    BY GetAtIs
  <2>2. QED
    BY <2>1 DEF Down
<1>2. QED
  BY <1>1

\* One name further.
LEMMA GetAtNext ==
  ASSUME NEW v, NEW T, NEW path \in Seq(T), NEW name \in T
  PROVE  GetAt(v, Append(path, name)) = Below(GetAt(v, path), name)
<1> DEFINE longer == Append(path, name)
<1>1. Len(path) \in Nat /\ Len(longer) = Len(path) + 1 /\ longer[Len(path) + 1] = name
      /\ \A i \in 1..Len(path) : longer[i] = path[i]
  OBVIOUS
<1>2. PICK f : Down(v, path, f, Len(path)) /\ GetAt(v, path) = f[Len(path)]
  BY <1>1, GetAtIs
<1>3. PICK g : Down(v, longer, g, Len(path) + 1) /\ GetAt(v, longer) = g[Len(path) + 1]
  <2> HIDE DEF longer
  <2>1. \E g : Down(v, longer, g, Len(longer)) /\ GetAt(v, longer) = g[Len(longer)]
    BY <1>1, GetAtIs
  <2>2. QED
    BY <1>1, <2>1
<1> HIDE DEF longer
<1> DEFINE U == {n \in Nat : n <= Len(path) => g[n] = f[n]}
<1>4. 0 \in U
  <2>1. f[0] = v /\ g[0] = v
    BY <1>1, <1>2, <1>3 DEF Down
  <2>2. QED
    BY <2>1
<1>5. ASSUME NEW n \in U
      PROVE  n + 1 \in U
  <2> SUFFICES ASSUME n + 1 <= Len(path)
               PROVE  g[n + 1] = f[n + 1]
    OBVIOUS
  <2>1. g[n] = f[n] /\ n + 1 \in 1..Len(path) /\ n + 1 \in 0..Len(path) /\ n + 1 \in 0..Len(path) + 1
        /\ n + 1 # 0 /\ (n + 1) - 1 = n
    BY <1>1
  <2>2. f[n + 1] = Below(f[n], path[n + 1])
    BY <1>2, <2>1 DEF Down
  <2>3. g[n + 1] = Below(g[n], longer[n + 1])
    BY <1>3, <2>1 DEF Down
  <2>4. QED
    BY <1>1, <2>1, <2>2, <2>3
<1>6. U = Nat
  <2> HIDE DEF U
  <2>1. U \in SUBSET Nat
    BY DEF U
  <2>2. QED
    BY <1>4, <1>5, <2>1, AllNaturals
<1>7. g[Len(path)] = f[Len(path)]
  BY <1>1, <1>6
<1>8. g[Len(path) + 1] = Below(g[Len(path)], name)
  <2>1. Len(path) + 1 \in 0..Len(path) + 1 /\ Len(path) + 1 # 0 /\ (Len(path) + 1) - 1 = Len(path)
    BY <1>1
  <2>2. QED
    BY <1>1, <1>3, <2>1 DEF Down
<1>9. QED
  BY <1>2, <1>3, <1>7, <1>8 DEF longer

Above(v, path, n, x) ==
  LET m == Len(path) - n IN Placed(GetAt(v, SubSeq(path, 1, m)), path[m + 1], x)
Up(v, path, x, f, N) == f = [n \in 0..N |-> IF n = 0 THEN x ELSE Above(v, path, n, f[n - 1])]

LEMMA UpExists ==
  ASSUME NEW v, NEW path, NEW x
  PROVE  \A N \in Nat : \E f : Up(v, path, x, f, N)
<1> DEFINE T == {N \in Nat : \E f : Up(v, path, x, f, N)}
<1>1. 0 \in T
  <2>1. Up(v, path, x, [n \in 0..0 |-> x], 0)
    BY DEF Up
  <2>2. QED
    BY <2>1
<1>2. ASSUME NEW N \in T
      PROVE  N + 1 \in T
  <2>1. PICK f : Up(v, path, x, f, N)
    OBVIOUS
  <2> DEFINE g == [n \in 0..N + 1 |-> IF n = N + 1 THEN Above(v, path, N + 1, f[N]) ELSE f[n]]
  <2>2. \A n \in 0..N : g[n] = f[n] /\ f[n] = IF n = 0 THEN x ELSE Above(v, path, n, f[n - 1])
    BY <2>1 DEF Up
  <2>3. \A n \in 0..N + 1 : g[n] = IF n = 0 THEN x ELSE Above(v, path, n, g[n - 1])
    <3>1. ASSUME NEW n \in 0..N + 1
          PROVE  g[n] = IF n = 0 THEN x ELSE Above(v, path, n, g[n - 1])
      <4>1. CASE n = N + 1
        <5>1. g[n] = Above(v, path, N + 1, f[N]) /\ n - 1 = N /\ n # 0 /\ N \in 0..N
          BY <4>1
        <5>2. g[N] = f[N]
          BY <2>2, <5>1
        <5> HIDE DEF g
        <5>3. QED
          BY <4>1, <5>1, <5>2
      <4>2. CASE n # N + 1
        <5>1. n \in 0..N /\ (n # 0 => n - 1 \in 0..N)
          BY <4>2
        <5> HIDE DEF g
        <5>2. QED
          BY <2>2, <5>1
      <4>3. QED
        BY <4>1, <4>2
    <3>2. QED
      BY <3>1
  <2>4. g = [n \in 0..N + 1 |-> g[n]]
    OBVIOUS
  <2>5. Up(v, path, x, g, N + 1)
    <3> HIDE DEF g
    <3>1. QED
      BY <2>3, <2>4 DEF Up
  <2>6. QED
    BY <2>5
<1>3. T = Nat
  <2> HIDE DEF T
  <2>1. T \in SUBSET Nat
    BY DEF T
  <2>2. QED
    BY <1>1, <1>2, <2>1, AllNaturals
<1>4. QED
  BY <1>3

LEMMA SetAtIs ==
  ASSUME NEW v, NEW path, Len(path) \in Nat, NEW x
  PROVE  \E f : Up(v, path, x, f, Len(path)) /\ SetAt(v, path, x) = f[Len(path)]
<1>1. \E f : Up(v, path, x, f, Len(path))
  BY UpExists
<1> DEFINE up == CHOOSE f : Up(v, path, x, f, Len(path))
<1>2. Up(v, path, x, up, Len(path))
  BY <1>1
<1>3. SetAt(v, path, x) = up[Len(path)]
  BY DEF SetAt, Up, Above
<1>4. QED
  BY <1>2, <1>3

LEMMA SetAtNowhere == \A v, x : SetAt(v, <<>>, x) = x
<1>1. ASSUME NEW v, NEW x
      PROVE  SetAt(v, <<>>, x) = x
  <2>1. PICK f : Up(v, <<>>, x, f, 0) /\ SetAt(v, <<>>, x) = f[0]
    BY SetAtIs
  <2>2. QED
    BY <2>1 DEF Up
<1>2. QED
  BY <1>1

LEMMA SetAtNext ==
  ASSUME NEW v, NEW T, NEW path \in Seq(T), NEW name \in T, NEW x
  PROVE  SetAt(v, Append(path, name), x) = SetAt(v, path, Placed(GetAt(v, path), name, x))
<1> DEFINE longer == Append(path, name)
           y == Placed(GetAt(v, path), name, x)
<1>1. /\ Len(path) \in Nat /\ Len(longer) = Len(path) + 1 /\ longer[Len(path) + 1] = name
      /\ \A i \in 1..Len(path) : longer[i] = path[i]
      /\ SubSeq(longer, 1, Len(path)) = path
  OBVIOUS
<1>2. \A m \in 0..Len(path) : SubSeq(longer, 1, m) = SubSeq(path, 1, m)
  <2>1. ASSUME NEW m \in 0..Len(path)
        PROVE  SubSeq(longer, 1, m) = SubSeq(path, 1, m)
    <3>1. SubSeq(longer, 1, m) = [i \in 1..m |-> longer[i]]
      OBVIOUS
    <3>2. SubSeq(path, 1, m) = [i \in 1..m |-> path[i]]
      OBVIOUS
    <3>3. \A i \in 1..m : longer[i] = path[i]
      BY <1>1
    <3> HIDE DEF longer
    <3>4. QED
      BY <3>1, <3>2, <3>3
  <2>2. QED
    BY <2>1
<1>3. PICK f : Up(v, path, y, f, Len(path)) /\ SetAt(v, path, y) = f[Len(path)]
  BY <1>1, SetAtIs
<1>4. PICK g : Up(v, longer, x, g, Len(path) + 1) /\ SetAt(v, longer, x) = g[Len(path) + 1]
  <2> HIDE DEF longer
  <2>1. \E g : Up(v, longer, x, g, Len(longer)) /\ SetAt(v, longer, x) = g[Len(longer)]
    BY <1>1, SetAtIs
  <2>2. QED
    BY <1>1, <2>1
<1> HIDE DEF longer, y
<1> DEFINE U == {n \in Nat : n <= Len(path) => g[n + 1] = f[n]}
<1>5. 0 \in U
  <2>1. f[0] = y /\ g[0] = x
    BY <1>1, <1>3, <1>4 DEF Up, Above
  <2>2. /\ 1 \in 0..Len(path) + 1 /\ 1 # 0 /\ 1 - 1 = 0 /\ Len(longer) - 1 = Len(path)
        /\ Len(path) \in 0..Len(path)
    BY <1>1
  <2>3. g[1] = Placed(GetAt(v, SubSeq(longer, 1, Len(path))), longer[Len(path) + 1], g[0])
    BY <1>4, <2>2 DEF Up, Above
  <2>4. g[1] = y
    BY <1>1, <2>1, <2>3 DEF y
  <2>5. QED
    BY <2>1, <2>4
<1>6. ASSUME NEW n \in U
      PROVE  n + 1 \in U
  <2> SUFFICES ASSUME n + 1 <= Len(path)
               PROVE  g[n + 2] = f[n + 1]
    OBVIOUS
  <2> DEFINE m == Len(path) - (n + 1)
  <2>1. /\ g[n + 1] = f[n] /\ n + 1 \in 0..Len(path) /\ n + 2 \in 0..Len(path) + 1
        /\ n + 1 # 0 /\ n + 2 # 0 /\ (n + 1) - 1 = n /\ (n + 2) - 1 = n + 1
        /\ Len(longer) - (n + 2) = m /\ m \in 0..Len(path) /\ m + 1 \in 1..Len(path)
    BY <1>1
  <2>2. f[n + 1] = Placed(GetAt(v, SubSeq(path, 1, m)), path[m + 1], f[n])
    BY <1>3, <2>1 DEF Up, Above
  <2>3. g[n + 2] = Placed(GetAt(v, SubSeq(longer, 1, m)), longer[m + 1], g[n + 1])
    <3> HIDE DEF m
    <3>1. QED
      BY <1>4, <2>1 DEF Up, Above
  <2> HIDE DEF m
  <2>4. QED
    BY <1>1, <1>2, <2>1, <2>2, <2>3
<1>7. U = Nat
  <2> HIDE DEF U
  <2>1. U \in SUBSET Nat
    BY DEF U
  <2>2. QED
    BY <1>5, <1>6, <2>1, AllNaturals
<1>8. g[Len(path) + 1] = f[Len(path)]
  BY <1>1, <1>7
<1>9. QED
  BY <1>3, <1>4, <1>8 DEF longer, y

-----------------------------------------------------------------------------
(* What one name leads to.                                                 *)

Leads(v, name) ==
  \/ Is(v, "object") /\ name \in DOMAIN v[2]
  \/ Is(v, "array") /\ Index(name) >= 0 /\ Index(name) + 1 \in DOMAIN v[2]

LEMMA IndexType ==
  ASSUME NEW name
  PROVE  /\ Index(name) \in Int /\ Index(name) >= -1
         /\ Index(name) >= 0 => Numerals[Index(name) + 1] = name
<1>1. DOMAIN Numerals = 1..Len(Numerals) /\ Len(Numerals) \in Nat
  BY NumeralsAssumption
<1>2. CASE \E i \in DOMAIN Numerals : Numerals[i] = name
  <2>1. PICK i \in DOMAIN Numerals : Numerals[i] = name /\ Index(name) = i - 1
    BY <1>2 DEF Index
  <2>2. QED
    BY <1>1, <2>1
<1>3. CASE ~\E i \in DOMAIN Numerals : Numerals[i] = name
  BY <1>3 DEF Index
<1>4. QED
  BY <1>2, <1>3

LEMMA PlacedHere ==
  ASSUME NEW v, NEW name, NEW x
  PROVE  /\ Below(Placed(v, name, x), name) = x
         /\ Leads(Placed(v, name, x), name)
         /\ Placed(v, name, x)[1] \in {"array", "object"}
<1> DEFINE elements == IF Is(v, "array") THEN v[2] ELSE <<>>
           members == IF Is(v, "object") THEN v[2] ELSE <<>>
           slot == Index(name) + 1
           list == [i \in 1..slot \cup DOMAIN elements |->
                      IF i = slot THEN x ELSE IF i \in DOMAIN elements THEN elements[i] ELSE Null]
           dict == [k \in DOMAIN members \cup {name} |-> IF k = name THEN x ELSE members[k]]
<1>1. Index(name) \in Int /\ Index(name) >= -1
  BY IndexType
<1>2. CASE slot > 0 /\ ~Is(v, "object")
  <2>1. Placed(v, name, x) = Arr(list)
    BY <1>2 DEF Placed
  <2>2. slot \in DOMAIN list /\ list[slot] = x
    BY <1>1, <1>2
  <2> HIDE DEF list, elements
  <2>3. Placed(v, name, x)[1] = "array" /\ Placed(v, name, x)[2] = list
    BY <2>1 DEF Arr
  <2>4. QED
    BY <1>1, <1>2, <2>2, <2>3 DEF Below, Leads, Is
<1>3. CASE ~(slot > 0 /\ ~Is(v, "object"))
  <2>1. Placed(v, name, x) = Obj(dict)
    BY <1>3 DEF Placed
  <2>2. name \in DOMAIN dict /\ dict[name] = x
    OBVIOUS
  <2> HIDE DEF dict
  <2>3. Placed(v, name, x)[1] = "object" /\ Placed(v, name, x)[2] = dict
    BY <2>1 DEF Obj
  <2>4. QED
    BY <2>2, <2>3 DEF Below, Leads, Is
<1>4. QED
  BY <1>2, <1>3

LEMMA PlacedAside ==
  ASSUME NEW v, NEW name, NEW x, NEW other, other # name, Alike(name, other), Leads(v, other)
  PROVE  Below(Placed(v, name, x), other) = Below(v, other) /\ Leads(Placed(v, name, x), other)
<1> DEFINE elements == IF Is(v, "array") THEN v[2] ELSE <<>>
           members == IF Is(v, "object") THEN v[2] ELSE <<>>
           slot == Index(name) + 1
           list == [i \in 1..slot \cup DOMAIN elements |->
                      IF i = slot THEN x ELSE IF i \in DOMAIN elements THEN elements[i] ELSE Null]
           dict == [k \in DOMAIN members \cup {name} |-> IF k = name THEN x ELSE members[k]]
<1>1. CASE Is(v, "object")
  <2>1. Placed(v, name, x) = Obj(dict) /\ other \in DOMAIN v[2] /\ members = v[2]
    BY <1>1 DEF Placed, Leads, Is
  <2>2. other \in DOMAIN dict /\ dict[other] = v[2][other]
    BY <2>1
  <2> HIDE DEF dict
  <2>3. Placed(v, name, x)[1] = "object" /\ Placed(v, name, x)[2] = dict
    BY <2>1 DEF Obj
  <2>4. QED
    BY <1>1, <2>1, <2>2, <2>3 DEF Below, Leads, Is
<1>2. CASE ~Is(v, "object")
  <2>1. Is(v, "array") /\ Index(other) >= 0 /\ Index(other) + 1 \in DOMAIN v[2] /\ Index(name) >= 0
    BY <1>2 DEF Leads, Alike
  <2>2. Index(other) # Index(name) /\ Index(name) \in Int /\ Index(other) \in Int
    <3>1. Index(name) \in Int /\ Index(other) \in Int
      BY IndexType
    <3>2. Numerals[Index(name) + 1] = name /\ Numerals[Index(other) + 1] = other
      BY <2>1, IndexType
    <3>3. QED
      BY <3>1, <3>2
  <2>3. Placed(v, name, x) = Arr(list) /\ elements = v[2]
    BY <1>2, <2>1, <2>2 DEF Placed
  <2>4. Index(other) + 1 \in DOMAIN list /\ list[Index(other) + 1] = v[2][Index(other) + 1]
    BY <2>1, <2>2, <2>3
  <2> HIDE DEF list, elements
  <2>5. Placed(v, name, x)[1] = "array" /\ Placed(v, name, x)[2] = list
    BY <2>3 DEF Arr
  <2>6. QED
    BY <1>2, <2>1, <2>4, <2>5 DEF Below, Leads, Is
<1>3. QED
  BY <1>1, <1>2

-----------------------------------------------------------------------------
(* What a path leads to, once a value is set.                              *)

Upto(path, m) == SubSeq(path, 1, m)

LEMMA UptoFacts ==
  ASSUME NEW T, NEW path \in Seq(T)
  PROVE  /\ Len(path) \in Nat /\ DOMAIN path = 1..Len(path)
         /\ Upto(path, 0) = <<>> /\ Upto(path, Len(path)) = path
         /\ \A m \in 0..Len(path) : Upto(path, m) \in Seq(T) /\ Len(Upto(path, m)) = m
         /\ \A m \in 1..Len(path) :
              path[m] \in T /\ Upto(path, m) = Append(Upto(path, m - 1), path[m])
<1>1. Len(path) \in Nat /\ DOMAIN path = 1..Len(path) /\ \A m \in 1..Len(path) : path[m] \in T
  OBVIOUS
<1>2. Upto(path, 0) = <<>> /\ Upto(path, Len(path)) = path
  BY DEF Upto
<1>3. \A m \in 0..Len(path) : Upto(path, m) \in Seq(T) /\ Len(Upto(path, m)) = m
  BY DEF Upto
<1>4. ASSUME NEW m \in 1..Len(path)
      PROVE  Upto(path, m) = Append(Upto(path, m - 1), path[m])
  BY <1>4 DEF Upto
<1>5. QED
  BY <1>1, <1>2, <1>3, <1>4

\* Set at the end of a path is set at any name of it.
LEMMA SetAtUpto ==
  ASSUME NEW T, NEW path \in Seq(T), NEW v, NEW x, NEW m \in 0..Len(path)
  PROVE  \E y : SetAt(v, path, x) = SetAt(v, Upto(path, m), y)
<1> DEFINE U == {k \in Nat : k <= Len(path) =>
                   \E y : SetAt(v, path, x) = SetAt(v, Upto(path, Len(path) - k), y)}
<1>1. 0 \in U
  <2>1. Len(path) - 0 = Len(path) /\ Upto(path, Len(path)) = path
    BY UptoFacts
  <2>2. QED
    BY <2>1
<1>2. ASSUME NEW k \in U
      PROVE  k + 1 \in U
  <2> SUFFICES ASSUME k + 1 <= Len(path)
               PROVE  \E y : SetAt(v, path, x) = SetAt(v, Upto(path, Len(path) - (k + 1)), y)
    OBVIOUS
  <2> DEFINE l == Len(path) - k
  <2>0. Len(path) \in Nat /\ k \in Nat
    BY UptoFacts
  <2>1. l \in 1..Len(path) /\ l - 1 = Len(path) - (k + 1) /\ l - 1 \in 0..Len(path)
    BY <2>0
  <2>2. PICK y : SetAt(v, path, x) = SetAt(v, Upto(path, l), y)
    BY UptoFacts
  <2> HIDE DEF l
  <2>3. Upto(path, l) = Append(Upto(path, l - 1), path[l]) /\ path[l] \in T /\ Upto(path, l - 1) \in Seq(T)
    BY <2>1, UptoFacts
  <2>4. SetAt(v, Upto(path, l), y)
          = SetAt(v, Upto(path, l - 1), Placed(GetAt(v, Upto(path, l - 1)), path[l], y))
    BY <2>3, SetAtNext
  <2>5. QED
    BY <2>1, <2>2, <2>4
<1>3. U = Nat
  <2> HIDE DEF U
  <2>1. U \in SUBSET Nat
    BY DEF U
  <2>2. QED
    BY <1>1, <1>2, <2>1, AllNaturals
<1>4. Len(path) - m \in Nat /\ Len(path) - m <= Len(path) /\ Len(path) - (Len(path) - m) = m
  BY UptoFacts
<1>5. QED
  BY <1>3, <1>4

LEMMA GetWhatIsSet ==
  ASSUME NEW T, NEW path \in Seq(T), NEW v, NEW x
  PROVE  GetAt(SetAt(v, path, x), path) = x
<1> DEFINE U == {m \in Nat : m <= Len(path) =>
                   \A y : GetAt(SetAt(v, Upto(path, m), y), Upto(path, m)) = y}
<1>1. 0 \in U
  BY UptoFacts, GetAtNowhere, SetAtNowhere
<1>2. ASSUME NEW m \in U
      PROVE  m + 1 \in U
  <2> SUFFICES ASSUME m + 1 <= Len(path), NEW y
               PROVE  GetAt(SetAt(v, Upto(path, m + 1), y), Upto(path, m + 1)) = y
    OBVIOUS
  <2> DEFINE w == Placed(GetAt(v, Upto(path, m)), path[m + 1], y)
             p == Upto(path, m)
             n == path[m + 1]
  <2>1. m + 1 \in 1..Len(path) /\ m \in 0..Len(path) /\ (m + 1) - 1 = m
    BY UptoFacts
  <2>2. Upto(path, m + 1) = Append(p, n) /\ n \in T /\ p \in Seq(T)
    BY <2>1, UptoFacts
  <2>3. \A z : GetAt(SetAt(v, p, z), p) = z
    BY <2>1
  <2> HIDE DEF p, n
  <2>4. SetAt(v, Append(p, n), y) = SetAt(v, p, Placed(GetAt(v, p), n, y))
    BY <2>2, SetAtNext
  <2>5. \A z : GetAt(z, Append(p, n)) = Below(GetAt(z, p), n)
    BY <2>2, GetAtNext
  <2>6. GetAt(SetAt(v, p, Placed(GetAt(v, p), n, y)), Append(p, n)) = y
    BY <2>3, <2>5, PlacedHere
  <2>7. QED
    BY <2>2, <2>4, <2>6
<1>3. U = Nat
  <2> HIDE DEF U
  <2>1. U \in SUBSET Nat
    BY DEF U
  <2>2. QED
    BY <1>1, <1>2, <2>1, AllNaturals
<1>4. Len(path) \in Nat /\ Upto(path, Len(path)) = path
  BY UptoFacts
<1>5. \A y : GetAt(SetAt(v, Upto(path, Len(path)), y), Upto(path, Len(path))) = y
  BY <1>3, <1>4
<1>6. QED
  BY <1>4, <1>5

\* A value is where it was set, every name on the way leading on.
Holds(doc, path, x) ==
  /\ GetAt(doc, path) = x
  /\ \A m \in 1..Len(path) : Leads(GetAt(doc, Upto(path, m - 1)), path[m])

\* What SetAt makes of what is at a name of the path.
LEMMA SetAtThrough ==
  ASSUME NEW T, NEW path \in Seq(T), NEW v, NEW x, NEW m \in 1..Len(path)
  PROVE  \E y : GetAt(SetAt(v, path, x), Upto(path, m - 1))
                  = Placed(GetAt(v, Upto(path, m - 1)), path[m], y)
<1>1. m \in 0..Len(path) /\ m - 1 \in 0..Len(path)
  BY UptoFacts
<1>2. PICK y : SetAt(v, path, x) = SetAt(v, Upto(path, m), y)
  BY <1>1, SetAtUpto
<1>3. Upto(path, m) = Append(Upto(path, m - 1), path[m]) /\ path[m] \in T /\ Upto(path, m - 1) \in Seq(T)
  BY <1>1, UptoFacts
<1>4. SetAt(v, path, x)
        = SetAt(v, Upto(path, m - 1), Placed(GetAt(v, Upto(path, m - 1)), path[m], y))
  BY <1>2, <1>3, SetAtNext
<1>5. QED
  BY <1>3, <1>4, GetWhatIsSet

LEMMA SetAtFirst ==
  ASSUME NEW T, NEW path \in Seq(T), path # <<>>, NEW v, NEW x
  PROVE  \E y : SetAt(v, path, x) = Placed(v, path[1], y)
<1>1. Upto(path, 0) = <<>> /\ Len(path) \in Nat
  BY UptoFacts
<1>2. PICK m \in 1..Len(path) : m = 1
  BY <1>1
<1>3. PICK y : GetAt(SetAt(v, path, x), Upto(path, m - 1))
                 = Placed(GetAt(v, Upto(path, m - 1)), path[m], y)
  BY SetAtThrough
<1>4. Upto(path, m - 1) = <<>> /\ path[m] = path[1]
  BY <1>1, <1>2
<1>5. GetAt(SetAt(v, path, x), <<>>) = Placed(GetAt(v, <<>>), path[1], y)
  BY <1>3, <1>4
<1>6. SetAt(v, path, x) = Placed(v, path[1], y)
  BY <1>5, GetAtNowhere
<1>7. QED
  BY <1>6

LEMMA SetHolds ==
  ASSUME NEW T, NEW path \in Seq(T), NEW v, NEW x
  PROVE  Holds(SetAt(v, path, x), path, x)
<1>1. GetAt(SetAt(v, path, x), path) = x
  BY GetWhatIsSet
<1>2. ASSUME NEW m \in 1..Len(path)
      PROVE  Leads(GetAt(SetAt(v, path, x), Upto(path, m - 1)), path[m])
  BY SetAtThrough, PlacedHere
<1>3. QED
  BY <1>1, <1>2 DEF Holds

LEMMA HoldsAside ==
  ASSUME NEW T, NEW p \in Seq(T), NEW q \in Seq(T), NEW k, Part(p, q, k), Alike(p[k], q[k]),
         NEW doc, NEW y, Holds(doc, q, y), NEW x
  PROVE  Holds(SetAt(doc, p, x), q, y)
<1> DEFINE new == SetAt(doc, p, x)
<1>1. k \in Nat /\ Len(p) \in Nat /\ Len(q) \in Nat /\ k \in 1..Len(p) /\ k \in 1..Len(q) /\ 1 <= k
  BY UptoFacts DEF Part
<1>2. \A m \in 0..k - 1 : Upto(p, m) = Upto(q, m)
  <2>1. ASSUME NEW m \in 0..k - 1
        PROVE  Upto(p, m) = Upto(q, m)
    <3>1. SubSeq(p, 1, m) = [i \in 1..m |-> p[i]] /\ SubSeq(q, 1, m) = [i \in 1..m |-> q[i]]
      BY <1>1
    <3>2. \A i \in 1..m : p[i] = q[i]
      BY <1>1 DEF Part
    <3>3. QED
      BY <3>1, <3>2 DEF Upto
  <2>2. QED
    BY <2>1
<1> DEFINE c == Upto(q, k - 1)
<1>3. PICK z : GetAt(new, c) = Placed(GetAt(doc, c), p[k], z)
  <2>1. Upto(p, k - 1) = c
    BY <1>1, <1>2
  <2>2. \E z : GetAt(new, Upto(p, k - 1)) = Placed(GetAt(doc, Upto(p, k - 1)), p[k], z)
    BY <1>1, SetAtThrough
  <2>3. QED
    BY <2>1, <2>2
<1>4. Leads(GetAt(doc, c), q[k])
  BY <1>1 DEF Holds
<1>5. Below(GetAt(new, c), q[k]) = Below(GetAt(doc, c), q[k]) /\ Leads(GetAt(new, c), q[k])
  BY <1>3, <1>4, PlacedAside DEF Part
<1> DEFINE U == {n \in Nat : k + n <= Len(q) => GetAt(new, Upto(q, k + n)) = GetAt(doc, Upto(q, k + n))}
<1>6. 0 \in U
  <2>0. k \in 1..Len(q) /\ k - 1 \in 0..Len(q) /\ k + 0 = k
    BY <1>1
  <2>1. Upto(q, k) = Append(c, q[k]) /\ q[k] \in T /\ c \in Seq(T) /\ k + 0 = k
    BY <2>0, UptoFacts
  <2> HIDE DEF c
  <2>2. \A w : GetAt(w, Append(c, q[k])) = Below(GetAt(w, c), q[k])
    BY <2>1, GetAtNext
  <2>3. QED
    BY <1>5, <2>1, <2>2
<1>7. ASSUME NEW n \in U
      PROVE  n + 1 \in U
  <2> SUFFICES ASSUME k + (n + 1) <= Len(q)
               PROVE  GetAt(new, Upto(q, k + (n + 1))) = GetAt(doc, Upto(q, k + (n + 1)))
    OBVIOUS
  <2> DEFINE d == Upto(q, k + n)
             s == q[k + (n + 1)]
  <2>1. k + (n + 1) \in 1..Len(q) /\ (k + (n + 1)) - 1 = k + n /\ k + n \in 0..Len(q)
    BY <1>1
  <2>2. Upto(q, k + (n + 1)) = Append(d, s) /\ s \in T /\ d \in Seq(T)
    BY <2>1, UptoFacts
  <2>3. GetAt(new, d) = GetAt(doc, d)
    BY <1>1
  <2> HIDE DEF d, s
  <2>4. \A w : GetAt(w, Append(d, s)) = Below(GetAt(w, d), s)
    BY <2>2, GetAtNext
  <2>5. QED
    BY <2>2, <2>3, <2>4
<1>8. U = Nat
  <2> HIDE DEF U
  <2>1. U \in SUBSET Nat
    BY DEF U
  <2>2. QED
    BY <1>6, <1>7, <2>1, AllNaturals
<1>9. \A m \in k..Len(q) : GetAt(new, Upto(q, m)) = GetAt(doc, Upto(q, m))
  <2>1. ASSUME NEW m \in k..Len(q)
        PROVE  GetAt(new, Upto(q, m)) = GetAt(doc, Upto(q, m))
    <3>1. m - k \in Nat /\ k + (m - k) = m /\ m <= Len(q)
      BY <1>1
    <3>2. QED
      BY <1>8, <3>1
  <2>2. QED
    BY <2>1
<1>10. GetAt(new, q) = y
  <2>1. Len(q) \in k..Len(q) /\ Upto(q, Len(q)) = q
    BY <1>1, UptoFacts
  <2>2. QED
    BY <1>9, <2>1 DEF Holds
<1>11. ASSUME NEW m \in 1..Len(q)
       PROVE  Leads(GetAt(new, Upto(q, m - 1)), q[m])
  <2>1. CASE m < k
    <3>1. m \in 1..Len(p) /\ p[m] = q[m] /\ Upto(p, m - 1) = Upto(q, m - 1)
      BY <1>1, <1>2, <2>1 DEF Part
    <3>2. \E w : GetAt(new, Upto(p, m - 1)) = Placed(GetAt(doc, Upto(p, m - 1)), p[m], w)
      <4>1. m \in 1..Len(p)
        BY <3>1
      <4>2. QED
        BY <4>1, SetAtThrough
    <3>3. QED
      BY <3>1, <3>2, PlacedHere
  <2>2. CASE m = k
    BY <1>5, <2>2
  <2>3. CASE m > k
    <3>1. m - 1 \in k..Len(q)
      BY <1>1, <2>3
    <3>2. Leads(GetAt(doc, Upto(q, m - 1)), q[m])
      BY DEF Holds
    <3>3. QED
      BY <1>9, <3>1, <3>2
  <2>4. QED
    BY <1>1, <2>1, <2>2, <2>3
<1>12. QED
  BY <1>10, <1>11 DEF Holds

\* Two paths of which none begins with the other part.
LEMMA PathsPart ==
  ASSUME NEW T, NEW p \in Seq(T), NEW q \in Seq(T), ~IsPrefix(p, q), ~IsPrefix(q, p)
  PROVE  \E k : Part(p, q, k)
<1> DEFINE differ == {k \in Nat : k \in 1..Len(p) /\ k \in 1..Len(q) /\ p[k] # q[k]}
<1>1. Len(p) \in Nat /\ Len(q) \in Nat
  OBVIOUS
<1>2. differ # {}
  <2> SUFFICES ASSUME \A k \in Nat : k \in 1..Len(p) /\ k \in 1..Len(q) => p[k] = q[k]
               PROVE  FALSE
    OBVIOUS
  <2>1. CASE Len(p) <= Len(q)
    <3>1. /\ SubSeq(p, 1, Len(p)) = [i \in 1..Len(p) |-> p[i]]
          /\ SubSeq(q, 1, Len(p)) = [i \in 1..Len(p) |-> q[i]]
      BY <1>1, <2>1
    <3>2. \A i \in 1..Len(p) : p[i] = q[i]
      BY <1>1, <2>1
    <3>3. QED
      BY <2>1, <3>1, <3>2 DEF IsPrefix
  <2>2. CASE Len(q) <= Len(p)
    <3>1. /\ SubSeq(p, 1, Len(q)) = [i \in 1..Len(q) |-> p[i]]
          /\ SubSeq(q, 1, Len(q)) = [i \in 1..Len(q) |-> q[i]]
      BY <1>1, <2>2
    <3>2. \A i \in 1..Len(q) : p[i] = q[i]
      BY <1>1, <2>2
    <3>3. QED
      BY <2>2, <3>1, <3>2 DEF IsPrefix
  <2>3. QED
    BY <1>1, <2>1, <2>2
<1>3. PICK k \in differ : \A j \in differ : k <= j
  <2> HIDE DEF differ
  <2>1. differ \in SUBSET Nat
    BY DEF differ
  <2>2. QED
    BY <1>2, <2>1, LeastExists
<1>4. ASSUME NEW j \in 1..k - 1
      PROVE  p[j] = q[j]
  <2>1. j \in Nat /\ ~(k <= j) /\ j \in 1..Len(p) /\ j \in 1..Len(q)
    BY <1>1, <1>3
  <2>2. j \notin differ
    BY <1>3, <2>1
  <2>3. QED
    BY <2>1, <2>2
<1>5. QED
  BY <1>3, <1>4 DEF Part

-----------------------------------------------------------------------------
(* The order of the keys.                                                  *)

Earlier1(L, i, j) == L[i] < L[j] \/ (L[i] = L[j] /\ i < j)
Sorts(L, p, n) == \A i, j \in 1..n : i < j => Earlier1(L, p[i], p[j])

\* Sorting is possible: a last element goes after all that are not greater.
LEMMA SortingExists ==
  \A n \in Nat : \A L \in [1..n -> Nat] : \E p \in Bijection(1..n, 1..n) : Sorts(L, p, n)
<1> DEFINE T == {n \in Nat : \A L \in [1..n -> Nat] : \E p \in Bijection(1..n, 1..n) : Sorts(L, p, n)}
<1>1. 0 \in T
  <2>1. [i \in 1..0 |-> i] \in Bijection(1..0, 1..0)
    BY DEF Bijection, Injection, Surjection, IsInjective
  <2>2. \A L : Sorts(L, [i \in 1..0 |-> i], 0)
    BY DEF Sorts
  <2>3. QED
    BY <2>1, <2>2
<1>2. ASSUME NEW n \in T
      PROVE  n + 1 \in T
  <2> SUFFICES ASSUME NEW L \in [1..n + 1 -> Nat]
               PROVE  \E q \in Bijection(1..n + 1, 1..n + 1) : Sorts(L, q, n + 1)
    OBVIOUS
  <2>0. n \in Nat
    OBVIOUS
  <2> DEFINE M == [i \in 1..n |-> L[i]]
  <2>1. M \in [1..n -> Nat]
    BY <2>0
  <2>2. PICK p \in Bijection(1..n, 1..n) : Sorts(M, p, n)
    BY <2>1
  <2>3. /\ p \in [1..n -> 1..n]
        /\ \A i, j \in 1..n : p[i] = p[j] => i = j
        /\ \A y \in 1..n : \E i \in 1..n : p[i] = y
    BY <2>2 DEF Bijection, Injection, Surjection, IsInjective
  <2>21. \A k \in 1..n : p[k] \in 1..n /\ p[k] \in 1..n + 1
    <3>1. \A k \in 1..n : p[k] \in 1..n
      BY <2>3
    <3>2. QED
      BY <2>0, <3>1
  <2>22. \A k \in 1..n + 1 : L[k] \in Nat
    OBVIOUS
  <2>4. \A i, j \in 1..n : i < j => Earlier1(L, p[i], p[j])
    BY <2>2, <2>21 DEF Sorts, Earlier1
  <2> DEFINE later == {m \in Nat : m \in 1..n + 1 /\ (m = n + 1 \/ L[p[m]] > L[n + 1])}
  <2>5. PICK t \in later : \A m \in later : t <= m
    <3>1. n + 1 \in later
      BY <2>0
    <3> HIDE DEF later
    <3>2. later \in SUBSET Nat
      BY DEF later
    <3>3. QED
      BY <3>1, <3>2, LeastExists
  <2>6. t \in 1..n + 1 /\ (t = n + 1 \/ L[p[t]] > L[n + 1])
    OBVIOUS
  <2>7. \A i \in 1..n : i < t => L[p[i]] <= L[n + 1]
    <3>1. ASSUME NEW i \in 1..n, i < t
          PROVE  L[p[i]] <= L[n + 1]
      <4>1. i \notin later /\ i \in Nat /\ i \in 1..n + 1 /\ i # n + 1
        BY <2>0, <2>5, <2>6, <3>1
      <4>2. L[p[i]] \in Nat /\ L[n + 1] \in Nat
        BY <2>0, <2>21, <2>22
      <4>3. QED
        BY <4>1, <4>2
    <3>2. QED
      BY <3>1
  <2> HIDE DEF later, M
  <2> DEFINE q == [i \in 1..n + 1 |-> IF i < t THEN p[i] ELSE IF i = t THEN n + 1 ELSE p[i - 1]]
  <2>8. \A i \in 1..n + 1 :
          /\ i < t => i \in 1..n /\ q[i] = p[i]
          /\ i = t => q[i] = n + 1
          /\ i > t => i - 1 \in 1..n /\ q[i] = p[i - 1]
    BY <2>0, <2>6
  <2>9. q \in [1..n + 1 -> 1..n + 1]
    <3>1. \A i \in 1..n + 1 : q[i] \in 1..n + 1
      <4> HIDE DEF q
      <4>1. ASSUME NEW i \in 1..n + 1
            PROVE  q[i] \in 1..n + 1
        <5>1. i < t \/ i = t \/ i > t
          BY <2>0, <2>6
        <5>2. CASE i < t
          BY <2>21, <2>8, <5>2
        <5>3. CASE i = t
          BY <2>0, <2>8, <5>3
        <5>4. CASE i > t
          BY <2>21, <2>8, <5>4
        <5>5. QED
          BY <5>1, <5>2, <5>3, <5>4
      <4>2. QED
        BY <4>1
    <3>2. QED
      BY <3>1
  <2> HIDE DEF q
  <2>10. ASSUME NEW i \in 1..n + 1, NEW j \in 1..n + 1, i < j
         PROVE  Earlier1(L, q[i], q[j])
    <3>0. \A k \in 1..n : p[k] \in 1..n /\ L[p[k]] \in Nat
      BY <2>21, <2>22
    <3>00. L[n + 1] \in Nat
      BY <2>0
    <3>1. CASE j < t
      BY <2>0, <2>4, <2>6, <2>8, <2>10, <3>1
    <3>2. CASE j = t
      <4>1. i < t /\ i \in 1..n /\ q[i] = p[i] /\ q[j] = n + 1
        BY <2>0, <2>6, <2>8, <2>10, <3>2
      <4>2. L[p[i]] <= L[n + 1] /\ p[i] < n + 1
        BY <2>0, <2>7, <3>0, <4>1
      <4>3. QED
        BY <3>0, <3>00, <4>1, <4>2 DEF Earlier1
    <3>3. CASE j > t
      <4>1. j - 1 \in 1..n /\ q[j] = p[j - 1]
        BY <2>8, <3>3
      <4>2. CASE i < t
        <5>1. i \in 1..n /\ q[i] = p[i] /\ i < j - 1
          BY <2>0, <2>6, <2>8, <3>3, <4>2
        <5>2. QED
          BY <2>4, <4>1, <5>1
      <4>3. CASE i = t
        <5>1. q[i] = n + 1 /\ t # n + 1 /\ t \in 1..n /\ t <= j - 1
          BY <2>0, <2>6, <2>8, <3>3, <4>3
        <5>2. L[p[t]] > L[n + 1]
          BY <2>6, <5>1
        <5>3. t = j - 1 \/ Earlier1(L, p[t], p[j - 1])
          <6>1. t < j - 1 => Earlier1(L, p[t], p[j - 1])
            BY <2>4, <4>1, <5>1
          <6>2. t < j - 1 \/ t = j - 1
            BY <2>0, <4>1, <5>1
          <6>3. QED
            BY <6>1, <6>2
        <5>4. L[p[j - 1]] > L[n + 1]
          <6>1. CASE t = j - 1
            BY <5>2, <6>1
          <6>2. CASE Earlier1(L, p[t], p[j - 1])
            <7>1. L[p[t]] \in Nat /\ L[p[j - 1]] \in Nat
              BY <3>0, <4>1, <5>1
            <7>2. L[p[t]] < L[p[j - 1]] \/ L[p[t]] = L[p[j - 1]]
              BY <6>2 DEF Earlier1
            <7>3. QED
              BY <3>00, <5>2, <7>1, <7>2
          <6>3. QED
            BY <5>3, <6>1, <6>2
        <5>5. QED
          BY <3>0, <3>00, <4>1, <5>1, <5>4 DEF Earlier1
      <4>4. CASE i > t
        <5>1. i - 1 \in 1..n /\ q[i] = p[i - 1] /\ i - 1 < j - 1
          BY <2>0, <2>8, <2>10, <4>4
        <5>2. QED
          BY <2>4, <4>1, <5>1
      <4>5. QED
        BY <2>0, <2>6, <4>2, <4>3, <4>4
    <3>4. QED
      BY <2>0, <2>6, <3>1, <3>2, <3>3
  <2>11. Sorts(L, q, n + 1)
    BY <2>10 DEF Sorts
  <2>12. \A i, j \in 1..n + 1 : q[i] = q[j] => i = j
    <3>1. ASSUME NEW i \in 1..n + 1, NEW j \in 1..n + 1, q[i] = q[j], i # j
          PROVE  FALSE
      <4>1. i < j \/ j < i
        BY <2>0, <3>1
      <4>2. q[i] \in 1..n + 1 /\ L[q[i]] \in Nat
        BY <2>9
      <4>3. ~Earlier1(L, q[i], q[i])
        BY <4>2 DEF Earlier1
      <4>4. QED
        BY <2>10, <3>1, <4>1, <4>3
    <3>2. QED
      BY <3>1
  <2>13. ASSUME NEW y \in 1..n + 1
         PROVE  \E i \in 1..n + 1 : q[i] = y
    <3>1. CASE y = n + 1
      BY <2>6, <2>8, <3>1
    <3>2. CASE y # n + 1
      <4>1. PICK i \in 1..n : p[i] = y
        BY <2>0, <2>3, <3>2
      <4>2. CASE i < t
        BY <2>0, <2>8, <4>1, <4>2
      <4>3. CASE ~(i < t)
        <5>1. i + 1 \in 1..n + 1 /\ i + 1 > t /\ (i + 1) - 1 = i
          BY <2>0, <2>6, <4>3
        <5>2. QED
          BY <2>8, <4>1, <5>1
      <4>4. QED
        BY <4>2, <4>3
    <3>3. QED
      BY <3>1, <3>2
  <2>14. q \in Bijection(1..n + 1, 1..n + 1)
    <3> HIDE DEF q
    <3>1. DOMAIN q = 1..n + 1
      BY <2>9
    <3>2. q \in Injection(1..n + 1, 1..n + 1)
      BY <2>9, <2>12, <3>1 DEF Injection, IsInjective
    <3>3. q \in Surjection(1..n + 1, 1..n + 1)
      BY <2>9, <2>13 DEF Surjection
    <3>4. QED
      BY <3>2, <3>3 DEF Bijection
  <2>15. QED
    BY <2>11, <2>14
<1>3. T = Nat
  <2> HIDE DEF T
  <2>1. T \in SUBSET Nat
    BY DEF T
  <2>2. QED
    BY <1>1, <1>2, <2>1, AllNaturals
<1>4. QED
  BY <1>3

LEMMA KeysFacts ==
  ASSUME NEW kes, Keys(kes)
  PROVE  /\ Len(kes) \in Nat /\ DOMAIN kes = 1..Len(kes)
         /\ \A i \in DOMAIN kes : kes[i].key \in Seq(STRING) /\ Len(kes[i].key) \in Nat
<1>1. Len(kes) \in Nat /\ DOMAIN kes = 1..Len(kes)
  BY DEF Keys, ListOf, Listed
<1>2. \A i \in DOMAIN kes : kes[i].key \in Seq(STRING)
  BY DEF Keys, ListOf, Paired
<1>3. QED
  BY <1>1, <1>2

LEMMA OrderSorts ==
  ASSUME NEW kes, Keys(kes)
  PROVE  /\ Order(kes) \in Bijection(DOMAIN kes, DOMAIN kes)
         /\ \A i, j \in DOMAIN kes : i < j => Goes(kes, Order(kes)[i], Order(kes)[j])
<1> DEFINE L == [i \in 1..Len(kes) |-> Len(kes[i].key)]
<1>1. /\ Len(kes) \in Nat /\ DOMAIN kes = 1..Len(kes)
      /\ \A i \in 1..Len(kes) : Len(kes[i].key) \in Nat
  BY KeysFacts
<1>2. L \in [1..Len(kes) -> Nat]
  BY <1>1
<1>3. PICK p \in Bijection(1..Len(kes), 1..Len(kes)) : Sorts(L, p, Len(kes))
  <2> HIDE DEF L
  <2>1. QED
    BY <1>1, <1>2, SortingExists
<1>4. \A i \in 1..Len(kes) : p[i] \in 1..Len(kes)
  BY DEF Bijection, Injection
<1>5. \A i, j \in 1..Len(kes) : i < j => Goes(kes, p[i], p[j])
  BY <1>3, <1>4 DEF Sorts, Earlier1, Goes
<1>6. \E r \in Bijection(DOMAIN kes, DOMAIN kes) : \A i, j \in DOMAIN kes : i < j => Goes(kes, r[i], r[j])
  BY <1>1, <1>5
<1>7. QED
  BY <1>6 DEF Order

LEMMA FirstWithIs ==
  ASSUME NEW kes, Keys(kes), NEW i \in DOMAIN kes
  PROVE  /\ FirstWith(kes, kes[i].key) \in Firsts(kes)
         /\ kes[FirstWith(kes, kes[i].key)].key = kes[i].key
         /\ i \in Firsts(kes) => FirstWith(kes, kes[i].key) = i
<1> DEFINE same == {j \in Nat : j \in DOMAIN kes /\ kes[j].key = kes[i].key}
           IsFirst(j) == kes[j].key = kes[i].key /\ \A l \in 1..j - 1 : kes[l].key # kes[i].key
<1>1. Len(kes) \in Nat /\ DOMAIN kes = 1..Len(kes)
  BY KeysFacts
<1>2. PICK j \in same : \A l \in same : j <= l
  <2>1. i \in same
    BY <1>1
  <2> HIDE DEF same
  <2>2. same \in SUBSET Nat
    BY DEF same
  <2>3. QED
    BY <2>1, <2>2, LeastExists
<1>3. ASSUME NEW l \in 1..j - 1
      PROVE  kes[l].key # kes[i].key
  <2>1. l \in Nat /\ l \in DOMAIN kes /\ ~(j <= l)
    BY <1>1
  <2>2. l \notin same
    BY <1>2, <2>1
  <2>3. QED
    BY <2>1, <2>2
<1>4. j \in DOMAIN kes /\ IsFirst(j)
  BY <1>3
<1>5. ASSUME NEW k \in DOMAIN kes, IsFirst(k), NEW l \in DOMAIN kes, IsFirst(l)
      PROVE  k = l
  <2>1. k \in 1..Len(kes) /\ l \in 1..Len(kes)
    BY <1>1
  <2>2. k < l => k \in 1..l - 1
    BY <1>1, <2>1
  <2>3. l < k => l \in 1..k - 1
    BY <1>1, <2>1
  <2>4. ~(k < l) /\ ~(l < k)
    BY <1>5, <2>2, <2>3
  <2>5. QED
    BY <1>1, <2>1, <2>4
<1>6. FirstWith(kes, kes[i].key) = CHOOSE k \in DOMAIN kes : IsFirst(k)
  BY DEF FirstWith
<1>7. FirstWith(kes, kes[i].key) = j
  <2> HIDE DEF IsFirst
  <2>1. QED
    BY <1>4, <1>5, <1>6
<1>8. j \in Firsts(kes)
  BY <1>4 DEF Firsts
<1>9. i \in Firsts(kes) => IsFirst(i)
  BY DEF Firsts
<1>10. QED
  BY <1>4, <1>5, <1>7, <1>8, <1>9

Arranged(kes, in, N) ==
  /\ \A n \in 1..N : /\ \E i \in Firsts(kes) : in[n] = kes[i]
                    /\ in[n].key \in Seq(STRING)
  /\ \A i \in Firsts(kes) : \E n \in 1..N : in[n] = kes[i]
  /\ \A m, n \in 1..N : m < n => Len(in[m].key) <= Len(in[n].key)
  /\ \A m, n \in 1..N : in[m].key = in[n].key => in[m] = in[n]

\* The keys as they are worked off: the first of each, shorter ones first.
LEMMA OrderedIs ==
  ASSUME NEW kes, Keys(kes), NEW in, in = Ordered(kes)
  PROVE  DOMAIN in = 1..Len(kes) /\ Arranged(kes, in, Len(kes))
<1> DEFINE p == Order(kes)
<1>1. /\ Len(kes) \in Nat /\ DOMAIN kes = 1..Len(kes)
      /\ \A i \in 1..Len(kes) : kes[i].key \in Seq(STRING) /\ Len(kes[i].key) \in Nat
  BY KeysFacts
<1>2. /\ \A n \in 1..Len(kes) : p[n] \in 1..Len(kes)
      /\ \A i \in 1..Len(kes) : \E n \in 1..Len(kes) : p[n] = i
      /\ \A i, j \in 1..Len(kes) : i < j => Goes(kes, p[i], p[j])
  BY <1>1, OrderSorts DEF Bijection, Injection, Surjection
<1>3. DOMAIN in = 1..Len(kes) /\ \A n \in 1..Len(kes) : in[n] = kes[FirstWith(kes, kes[p[n]].key)]
  BY <1>1 DEF Ordered
<1> HIDE DEF p
<1>4. ASSUME NEW n \in 1..Len(kes)
      PROVE  /\ \E i \in Firsts(kes) : in[n] = kes[i]
             /\ in[n].key = kes[p[n]].key /\ in[n].key \in Seq(STRING)
  <2>1. p[n] \in DOMAIN kes
    BY <1>1, <1>2
  <2>2. /\ FirstWith(kes, kes[p[n]].key) \in Firsts(kes)
        /\ kes[FirstWith(kes, kes[p[n]].key)].key = kes[p[n]].key
    BY <2>1, FirstWithIs
  <2>3. QED
    BY <1>1, <1>2, <1>3, <2>2
<1>5. ASSUME NEW i \in Firsts(kes)
      PROVE  \E n \in 1..Len(kes) : in[n] = kes[i]
  <2>1. i \in DOMAIN kes
    BY DEF Firsts
  <2>2. PICK n \in 1..Len(kes) : p[n] = i
    BY <1>1, <1>2, <2>1
  <2>3. FirstWith(kes, kes[i].key) = i
    BY <2>1, FirstWithIs
  <2>4. QED
    BY <1>3, <2>2, <2>3
<1>6. ASSUME NEW m \in 1..Len(kes), NEW n \in 1..Len(kes), m < n
      PROVE  Len(in[m].key) <= Len(in[n].key)
  <2>1. Goes(kes, p[m], p[n])
    BY <1>2, <1>6
  <2>2. Len(kes[p[m]].key) \in Nat /\ Len(kes[p[n]].key) \in Nat
    BY <1>1, <1>2
  <2>3. QED
    BY <1>4, <2>1, <2>2 DEF Goes
<1>7. ASSUME NEW m \in 1..Len(kes), NEW n \in 1..Len(kes), in[m].key = in[n].key
      PROVE  in[m] = in[n]
  <2>1. kes[p[m]].key = kes[p[n]].key
    BY <1>4, <1>7
  <2>2. QED
    BY <1>3, <2>1
<1>8. QED
  BY <1>3, <1>4, <1>5, <1>6, <1>7 DEF Arranged

-----------------------------------------------------------------------------
(* Documents.                                                              *)

LEMMA SetAtGives ==
  ASSUME NEW T, NEW path \in Seq(T), NEW v, NEW x
  PROVE  IF path = <<>> THEN SetAt(v, path, x) = x ELSE SetAt(v, path, x)[1] \in {"array", "object"}
<1>1. CASE path = <<>>
  BY <1>1, SetAtNowhere
<1>2. CASE path # <<>>
  <2>1. 1 \in 1..Len(path) /\ Upto(path, 1 - 1) = <<>>
    <3>1. Len(path) \in Nat /\ Len(path) # 0 /\ Upto(path, 0) = <<>>
      BY <1>2, UptoFacts
    <3>2. QED
      BY <3>1
  <2>2. PICK y : GetAt(SetAt(v, path, x), Upto(path, 1 - 1)) = Placed(GetAt(v, Upto(path, 1 - 1)), path[1], y)
    BY <2>1, SetAtThrough
  <2>3. SetAt(v, path, x) = Placed(GetAt(v, <<>>), path[1], y)
    BY <2>1, <2>2, GetAtNowhere
  <2>4. QED
    BY <1>2, <2>3, PlacedHere
<1>3. QED
  BY <1>1, <1>2

LEMMA SetAtIsGood ==
  ASSUME NEW T, NEW path \in Seq(T), NEW v, NEW x, ~Bad(x)
  PROVE  ~Bad(SetAt(v, path, x))
BY SetAtGives DEF Bad, Failure, Crash

Filling(in, Q, f, N) ==
  f = [n \in 0..N |-> IF n = 0 THEN Obj(<<>>) ELSE Filled(in[n], f[n - 1], Q)]

LEMMA FillingExists ==
  ASSUME NEW in, NEW Q
  PROVE  \A N \in Nat : \E f : Filling(in, Q, f, N)
<1> DEFINE T == {N \in Nat : \E f : Filling(in, Q, f, N)}
<1>1. 0 \in T
  <2>1. Filling(in, Q, [n \in 0..0 |-> Obj(<<>>)], 0)
    BY DEF Filling
  <2>2. QED
    BY <2>1
<1>2. ASSUME NEW N \in T
      PROVE  N + 1 \in T
  <2>1. PICK f : Filling(in, Q, f, N)
    OBVIOUS
  <2> DEFINE g == [n \in 0..N + 1 |-> IF n = N + 1 THEN Filled(in[N + 1], f[N], Q) ELSE f[n]]
  <2>2. \A n \in 0..N : g[n] = f[n] /\ f[n] = IF n = 0 THEN Obj(<<>>) ELSE Filled(in[n], f[n - 1], Q)
    BY <2>1 DEF Filling
  <2>3. \A n \in 0..N + 1 : g[n] = IF n = 0 THEN Obj(<<>>) ELSE Filled(in[n], g[n - 1], Q)
    <3>1. ASSUME NEW n \in 0..N + 1
          PROVE  g[n] = IF n = 0 THEN Obj(<<>>) ELSE Filled(in[n], g[n - 1], Q)
      <4>1. CASE n = N + 1
        <5>1. g[n] = Filled(in[N + 1], f[N], Q) /\ n - 1 = N /\ n # 0 /\ N \in 0..N
          BY <4>1
        <5>2. g[N] = f[N]
          BY <2>2, <5>1
        <5> HIDE DEF g
        <5>3. QED
          BY <4>1, <5>1, <5>2
      <4>2. CASE n # N + 1
        <5>1. n \in 0..N /\ (n # 0 => n - 1 \in 0..N)
          BY <4>2
        <5> HIDE DEF g
        <5>2. QED
          BY <2>2, <5>1
      <4>3. QED
        BY <4>1, <4>2
    <3>2. QED
      BY <3>1
  <2>4. g = [n \in 0..N + 1 |-> g[n]]
    OBVIOUS
  <2>5. Filling(in, Q, g, N + 1)
    <3> HIDE DEF g
    <3>1. QED
      BY <2>3, <2>4 DEF Filling
  <2>6. QED
    BY <2>5
<1>3. T = Nat
  <2> HIDE DEF T
  <2>1. T \in SUBSET Nat
    BY DEF T
  <2>2. QED
    BY <1>1, <1>2, <2>1, AllNaturals
<1>4. QED
  BY <1>3

LEMMA FillIs ==
  ASSUME NEW kes, Keys(kes), kes # <<>>, NEW Q
  PROVE  \E f : Filling(Ordered(kes), Q, f, Len(kes)) /\ Fill(kes, Q) = f[Len(kes)]
<1>1. Len(kes) \in Nat
  BY KeysFacts
<1> DEFINE after == CHOOSE f : Filling(Ordered(kes), Q, f, Len(kes))
<1>2. Filling(Ordered(kes), Q, after, Len(kes))
  BY <1>1, FillingExists
<1>3. Fill(kes, Q) = after[Len(kes)]
  BY DEF Fill, Filling
<1>4. QED
  BY <1>2, <1>3

\* A longest key is a leaf.
LEMMA LastIsLeaf ==
  ASSUME NEW kes, Keys(kes), kes # <<>>
  PROVE  /\ Len(kes) \in 1..Len(kes)
         /\ Ordered(kes)[Len(kes)] \in Leaves(kes)
         /\ \A i \in DOMAIN kes : Len(kes[i].key) <= Len(Ordered(kes)[Len(kes)].key)
<1> DEFINE in == Ordered(kes)
           N == Len(kes)
<1>1. /\ N \in Nat /\ DOMAIN kes = 1..N
      /\ \A i \in DOMAIN kes : kes[i].key \in Seq(STRING) /\ Len(kes[i].key) \in Nat
  BY KeysFacts
<1>2. N # 0
  <2>1. kes = [i \in 1..N |-> kes[i]]
    BY DEF Keys, ListOf, Listed
  <2>2. QED
    BY <2>1
<1>3. N \in 1..N
  BY <1>1, <1>2
<1>10. Arranged(kes, in, N)
  BY OrderedIs
<1>4. PICK l \in Firsts(kes) : in[N] = kes[l]
  <2> HIDE DEF in, N
  <2>1. QED
    BY <1>3, <1>10 DEF Arranged
<1>5. l \in DOMAIN kes
  BY DEF Firsts
<1>6. ASSUME NEW i \in DOMAIN kes
      PROVE  Len(kes[i].key) <= Len(in[N].key)
  <2>1. PICK j \in Firsts(kes) : kes[j].key = kes[i].key
    BY FirstWithIs
  <2>2. PICK n \in 1..N : in[n] = kes[j]
    <3> HIDE DEF in, N
    <3>1. QED
      BY <1>10 DEF Arranged
  <2>3. n < N => Len(in[n].key) <= Len(in[N].key)
    <3> HIDE DEF in, N
    <3>1. QED
      BY <1>3, <1>10 DEF Arranged
  <2>4. n < N \/ n = N
    <3>1. N \in Nat
      BY <1>1
    <3> HIDE DEF N
    <3>2. QED
      BY <3>1
  <2>5. Len(in[n].key) = Len(kes[i].key) /\ Len(kes[i].key) \in Nat
    BY <1>1, <2>1, <2>2
  <2> HIDE DEF in
  <2>6. CASE n = N
    BY <2>5, <2>6
  <2>7. QED
    BY <2>3, <2>4, <2>5, <2>6
<1>7. ASSUME NEW k \in DOMAIN kes, IsPrefix(kes[l].key, kes[k].key)
      PROVE  kes[k].key = kes[l].key
  <2> DEFINE p == kes[l].key
             q == kes[k].key
  <2>1. p \in Seq(STRING) /\ q \in Seq(STRING) /\ Len(p) \in Nat /\ Len(q) \in Nat
    BY <1>1, <1>5
  <2>2. Len(q) <= Len(p)
    BY <1>4, <1>6
  <2>3. Len(p) <= Len(q) /\ SubSeq(p, 1, Len(p)) = SubSeq(q, 1, Len(p))
    BY <1>7 DEF IsPrefix
  <2> HIDE DEF p, q
  <2>4. Len(p) = Len(q)
    BY <2>1, <2>2, <2>3
  <2>5. SubSeq(p, 1, Len(p)) = p /\ SubSeq(q, 1, Len(q)) = q
    BY <2>1
  <2>6. p = q
    BY <2>3, <2>4, <2>5
  <2>7. QED
    BY <2>6 DEF p, q
<1>8. kes[l] \in Leaves(kes)
  BY <1>7 DEF Leaves
<1>9. QED
  BY <1>3, <1>4, <1>6, <1>8

LEMMA FillFacts ==
  ASSUME NEW kes, Keys(kes), KeysAgree(kes), kes # <<>>, NEW Q
  PROVE  /\ Bad(Fill(kes, Q)) <=> \E i \in Firsts(kes) : Bad(Evaluate(kes[i].expr, Q))
         /\ ~Bad(Fill(kes, Q)) =>
              \A ke \in Leaves(kes) : GetAt(Fill(kes, Q), ke.key) = Evaluate(ke.expr, Q)
         /\ ~Bad(Fill(kes, Q)) /\ Fill(kes, Q) = Null => Ordered(kes)[Len(kes)].key = <<>>
<1> DEFINE N == Len(kes)
<1>0. PICK in : in = Ordered(kes)
  OBVIOUS
<1>1. /\ N \in Nat /\ DOMAIN kes = 1..N
      /\ \A i \in DOMAIN kes : kes[i].key \in Seq(STRING) /\ Len(kes[i].key) \in Nat
  BY KeysFacts
<1>2. /\ \A n \in 1..N : /\ \E i \in Firsts(kes) : in[n] = kes[i]
                         /\ in[n].key \in Seq(STRING)
      /\ \A i \in Firsts(kes) : \E n \in 1..N : in[n] = kes[i]
      /\ \A m, n \in 1..N : m < n => Len(in[m].key) <= Len(in[n].key)
      /\ \A m, n \in 1..N : in[m].key = in[n].key => in[m] = in[n]
  <2>1. Arranged(kes, in, N)
    BY <1>0, OrderedIs
  <2> HIDE DEF N
  <2>2. QED
    BY <2>1 DEF Arranged
<1>3. PICK f : Filling(in, Q, f, N) /\ Fill(kes, Q) = f[N]
  BY <1>0, FillIs
<1>4. f[0] = Obj(<<>>) /\ \A n \in 0..N : n + 1 \in 1..N => f[n + 1] = Filled(in[n + 1], f[n], Q)
  BY <1>1, <1>3 DEF Filling
<1> DEFINE V(n) == Evaluate(in[n].expr, Q)
           BadTo(n) == Bad(f[n]) <=> \E m \in 1..n : Bad(V(m))
           HoldsTo(n) == ~Bad(f[n]) =>
             \A m \in 1..n : in[m] \in Leaves(kes) => Holds(f[n], in[m].key, V(m))
           U == {n \in Nat : n <= N => BadTo(n) /\ HoldsTo(n)}
<1> HIDE DEF N
<1>5. 0 \in U
  <2>1. ~Bad(Obj(<<>>))
    BY DEF Bad, Obj, Failure, Crash
  <2>2. QED
    BY <1>4, <2>1
<1>6. ASSUME NEW n \in U
      PROVE  n + 1 \in U
  <2> SUFFICES ASSUME n + 1 <= N
               PROVE  BadTo(n + 1) /\ HoldsTo(n + 1)
    OBVIOUS
  <2>1. n \in Nat /\ n + 1 \in 1..N /\ n \in 0..N /\ n <= N /\ (\A m \in 1..n + 1 : m \in 1..N)
        /\ (\A m \in 1..n + 1 : m \in 1..n \/ m = n + 1) /\ (\A m \in 1..n : m \in 1..n + 1)
        /\ n + 1 \in 1..n + 1
    BY <1>1
  <2>2. BadTo(n) /\ HoldsTo(n)
    BY <2>1
  <2>3. f[n + 1] = IF Bad(f[n]) THEN f[n] ELSE IF Bad(V(n + 1)) THEN V(n + 1)
                   ELSE SetAt(f[n], in[n + 1].key, V(n + 1))
    BY <1>4, <2>1 DEF Filled
  <2>4. in[n + 1].key \in Seq(STRING)
    BY <1>2, <2>1
  <2>5. ~Bad(V(n + 1)) => ~Bad(SetAt(f[n], in[n + 1].key, V(n + 1)))
    BY <2>4, SetAtIsGood
  <2> HIDE DEF V
  <2>6. BadTo(n + 1)
    <3>1. Bad(f[n + 1]) <=> Bad(f[n]) \/ Bad(V(n + 1))
      BY <2>3, <2>5
    <3>2. (\E m \in 1..n + 1 : Bad(V(m))) <=> (\E m \in 1..n : Bad(V(m))) \/ Bad(V(n + 1))
      BY <2>1
    <3>3. QED
      BY <2>2, <3>1, <3>2
  <2>7. ASSUME ~Bad(f[n + 1]), NEW m \in 1..n + 1, in[m] \in Leaves(kes)
        PROVE  Holds(f[n + 1], in[m].key, V(m))
    <3>1. ~Bad(f[n]) /\ f[n + 1] = SetAt(f[n], in[n + 1].key, V(n + 1))
      BY <2>3, <2>7
    <3>2. Holds(f[n + 1], in[n + 1].key, V(n + 1))
      BY <2>4, <3>1, SetHolds
    <3>3. CASE m = n + 1
      BY <3>2, <3>3
    <3>4. CASE m # n + 1 /\ in[m].key = in[n + 1].key
      <4>1. in[m] = in[n + 1]
        BY <1>2, <2>1, <3>4
      <4>2. QED
        BY <3>2, <4>1 DEF V
    <3>5. CASE m # n + 1 /\ in[m].key # in[n + 1].key
      <4> DEFINE p == in[n + 1].key
                 q == in[m].key
      <4>1. m \in 1..n /\ m \in 1..N /\ m < n + 1
        BY <2>1, <3>5
      <4>2. p \in Seq(STRING) /\ q \in Seq(STRING) /\ Len(q) <= Len(p)
        BY <1>2, <2>1, <4>1
      <4>3. PICK j \in Firsts(kes) : in[m] = kes[j] /\ \A k \in DOMAIN kes :
              kes[k].key = kes[j].key \/ ~IsPrefix(kes[j].key, kes[k].key)
        BY <2>7 DEF Leaves
      <4>4. PICK i \in Firsts(kes) : in[n + 1] = kes[i]
        BY <1>2, <2>1
      <4>5. i \in DOMAIN kes /\ j \in DOMAIN kes
        BY DEF Firsts
      <4>6. ~IsPrefix(q, p)
        BY <3>5, <4>3, <4>4, <4>5
      <4>7. Holds(f[n], q, V(m))
        BY <2>2, <2>7, <3>1, <4>1
      <4>8. \A k : Part(p, q, k) => Alike(p[k], q[k])
        <5>1. \A k \in 1..Len(kes[i].key) :
                Part(kes[i].key, kes[j].key, k) => Alike(kes[i].key[k], kes[j].key[k])
          BY <4>5 DEF KeysAgree
        <5>2. p = kes[i].key /\ q = kes[j].key
          BY <4>3, <4>4
        <5>3. QED
          BY <5>1, <5>2 DEF Part
      <4>9. p # q
        BY <3>5
      <4> HIDE DEF p, q
      <4>10. ~IsPrefix(p, q)
        <5> SUFFICES ASSUME IsPrefix(p, q)
                     PROVE  FALSE
          OBVIOUS
        <5>1. Len(p) <= Len(q) /\ SubSeq(p, 1, Len(p)) = SubSeq(q, 1, Len(p))
          BY DEF IsPrefix
        <5>2. Len(p) = Len(q)
          BY <4>2, <5>1
        <5>3. SubSeq(p, 1, Len(p)) = p /\ SubSeq(q, 1, Len(q)) = q
          BY <4>2
        <5>4. QED
          BY <4>9, <5>1, <5>2, <5>3
      <4>11. PICK k : Part(p, q, k)
        BY <4>2, <4>6, <4>10, PathsPart
      <4>12. Holds(SetAt(f[n], p, V(n + 1)), q, V(m))
        BY <4>2, <4>7, <4>8, <4>11, HoldsAside
      <4>13. QED
        BY <3>1, <4>12 DEF p, q
    <3>6. QED
      BY <3>3, <3>4, <3>5
  <2>8. QED
    BY <2>6, <2>7
<1>7. U = Nat
  <2> HIDE DEF U
  <2>1. U \in SUBSET Nat
    BY DEF U
  <2>2. QED
    BY <1>5, <1>6, <2>1, AllNaturals
<1>8. BadTo(N) /\ HoldsTo(N)
  <2>1. N \in U /\ N <= N
    BY <1>1, <1>7
  <2>2. QED
    BY <2>1
<1>9. Bad(f[N]) <=> \E i \in Firsts(kes) : Bad(Evaluate(kes[i].expr, Q))
  BY <1>2, <1>8
<1>10. ASSUME ~Bad(f[N]), NEW ke \in Leaves(kes)
       PROVE  GetAt(f[N], ke.key) = Evaluate(ke.expr, Q)
  <2>1. PICK i \in Firsts(kes) : ke = kes[i]
    BY DEF Leaves
  <2>2. PICK n \in 1..N : in[n] = ke
    BY <1>2, <2>1
  <2>3. Holds(f[N], in[n].key, V(n))
    BY <1>8, <1>10, <2>2
  <2>4. QED
    BY <2>2, <2>3 DEF Holds
<1>11. ASSUME ~Bad(f[N]), f[N] = Null
       PROVE  in[N].key = <<>>
  <2>1. N \in 1..N
    BY LastIsLeaf DEF N
  <2>2. N - 1 \in 0..N /\ (N - 1) + 1 = N /\ (\A m \in 1..N - 1 : m \in 1..N) /\ N - 1 \in Nat
    BY <1>1, <2>1
  <2>3. f[N] = Filled(in[N], f[N - 1], Q)
    BY <1>4, <2>1, <2>2
  <2>4. ~\E m \in 1..N : Bad(V(m))
    BY <1>8, <1>11
  <2>5. BadTo(N - 1)
    <3>1. N - 1 \in U /\ N - 1 <= N
      BY <1>1, <1>7, <2>2
    <3>2. QED
      BY <3>1
  <2>6. ~Bad(f[N - 1]) /\ ~Bad(V(N))
    BY <2>1, <2>2, <2>4, <2>5
  <2>7. Null = SetAt(f[N - 1], in[N].key, V(N))
    BY <1>11, <2>3, <2>6 DEF Filled
  <2>8. in[N].key \in Seq(STRING)
    BY <1>2, <2>1
  <2>9. QED
    BY <2>7, <2>8, SetAtGives DEF Null
<1>12. QED
  BY <1>0, <1>3, <1>9, <1>10, <1>11 DEF N

\* A document has all of its values, and is null if that is its only value.
LEMMA DocumentIsMeant ==
  ASSUME NEW kes, Keys(kes), KeysAgree(kes), NEW Q, ~Bad(Fill(kes, Q)), NEW output,
         output = IF Fill(kes, Q) = Null THEN Absent ELSE Fill(kes, Q)
  PROVE  DocumentMeant(output, ValuesOf(kes, Q))
<1> DEFINE values == ValuesOf(kes, Q)
           none == [key |-> <<>>, v |-> Null]
<1>1. CASE kes = <<>>
  <2>1. output = Absent
    BY <1>1 DEF Fill
  <2>2. Leaves(kes) = {}
    BY <1>1 DEF Leaves, Firsts
  <2>3. QED
    BY <2>1, <2>2 DEF DocumentMeant, ValuesOf
<1>2. CASE kes # <<>>
  <2> DEFINE doc == Fill(kes, Q)
             last == Ordered(kes)[Len(kes)]
  <2>1. /\ \A ke \in Leaves(kes) : GetAt(doc, ke.key) = Evaluate(ke.expr, Q)
        /\ doc = Null => last.key = <<>>
    BY <1>2, FillFacts
  <2>2. last \in Leaves(kes) /\ \A i \in DOMAIN kes : Len(kes[i].key) <= Len(last.key)
    BY <1>2, LastIsLeaf
  <2>3. \A ke \in Leaves(kes) : [key |-> ke.key, v |-> Evaluate(ke.expr, Q)] \in values
    BY DEF ValuesOf
  <2>4. ASSUME NEW c \in values
        PROVE  \E ke \in Leaves(kes) : c = [key |-> ke.key, v |-> Evaluate(ke.expr, Q)]
    BY DEF ValuesOf
  <2>5. values \subseteq {none} <=> doc = Null
    <3>1. ASSUME values \subseteq {none}
          PROVE  doc = Null
      <4>1. [key |-> last.key, v |-> Evaluate(last.expr, Q)] = none
        BY <2>2, <2>3, <3>1
      <4>2. last.key = <<>> /\ Evaluate(last.expr, Q) = Null
        BY <4>1
      <4>3. GetAt(doc, <<>>) = Null
        BY <2>1, <2>2, <4>2
      <4>4. QED
        BY <4>3, GetAtNowhere
    <3>2. ASSUME doc = Null, NEW c \in values
          PROVE  c = none
      <4>1. PICK ke \in Leaves(kes) : c = [key |-> ke.key, v |-> Evaluate(ke.expr, Q)]
        BY <2>4
      <4>2. PICK i \in DOMAIN kes : ke = kes[i]
        BY DEF Leaves, Firsts
      <4>3. ke.key \in Seq(STRING) /\ Len(ke.key) \in Nat
        BY <4>2, KeysFacts
      <4>4. Len(ke.key) <= 0
        <5>1. Len(ke.key) <= Len(last.key)
          BY <2>2, <4>2
        <5>2. last.key = <<>>
          BY <2>1, <3>2
        <5> HIDE DEF last
        <5>3. QED
          BY <5>1, <5>2
      <4>5. ke.key = <<>>
        BY <4>3, <4>4
      <4>6. Evaluate(ke.expr, Q) = Null
        BY <2>1, <3>2, <4>5, GetAtNowhere
      <4>7. QED
        BY <4>1, <4>5, <4>6
    <3>3. QED
      BY <3>1, <3>2
  <2>6. \A v : Includes(v, v)
    BY DEF Includes, Agree
  <2>7. HasAll(doc, values)
    <3>1. ASSUME NEW c \in values
          PROVE  Includes(GetAt(doc, c.key), c.v)
      <4>1. PICK ke \in Leaves(kes) : c = [key |-> ke.key, v |-> Evaluate(ke.expr, Q)]
        BY <2>4
      <4>2. c.key = ke.key /\ c.v = Evaluate(ke.expr, Q)
        BY <4>1
      <4>3. QED
        BY <2>1, <2>6, <4>2
    <3>2. QED
      BY <3>1 DEF HasAll
  <2>8. QED
    BY <2>5, <2>7 DEF DocumentMeant
<1>3. QED
  BY <1>1, <1>2
-----------------------------------------------------------------------------
(* Scopes.                                                                 *)

Free(R, x) == \A i \in DOMAIN R : x \notin DOMAIN R[i]

\* Two lists are equal that are equal element by element.
LEMMA ListsEqual ==
  ASSUME NEW A, NEW B, Listed(A), Listed(B), Len(A) = Len(B),
         \A i \in 1..Len(A) : A[i] = B[i]
  PROVE  A = B
BY DEF Listed

LEMMA LookupFree ==
  ASSUME NEW R, NEW x, Free(R, x)
  PROVE  Lookup(R, x) = Absent
<1>1. {i \in DOMAIN R : x \in DOMAIN R[i]} = {}
  BY DEF Free
<1>2. QED
  BY <1>1 DEF Lookup

LEMMA LookupTop ==
  ASSUME NEW R, Listed(R), 1 \in DOMAIN R, NEW x, x \in DOMAIN R[1]
  PROVE  Lookup(R, x) = R[1][x]
<1> DEFINE in == {i \in DOMAIN R : x \in DOMAIN R[i]}
           least == CHOOSE i \in in : \A j \in in : i <= j
<1>1. 1 \in in /\ \A i \in in : i \in Nat /\ 1 <= i
  BY DEF Listed
<1>2. least = 1
  <2> HIDE DEF in
  <2>1. \E i \in in : \A j \in in : i <= j
    BY <1>1
  <2>2. least \in in /\ \A j \in in : least <= j
    BY <2>1
  <2>3. QED
    BY <1>1, <2>2
<1>3. in # {}
  BY <1>1
<1>4. QED
  BY <1>2, <1>3 DEF Lookup

\* A variable that the first scope has not is looked up in the others.
LEMMA LookupBelow ==
  ASSUME NEW R, NEW T, Listed(R), Listed(T), Len(T) = Len(R), NEW x,
         \A i \in 1..Len(R) : x \in DOMAIN T[i] <=> x \in DOMAIN R[i],
         \A i \in 1..Len(R) : x \in DOMAIN R[i] => T[i][x] = R[i][x]
  PROVE  Lookup(T, x) = Lookup(R, x)
<1> DEFINE in == {i \in DOMAIN R : x \in DOMAIN R[i]}
           least == CHOOSE i \in in : \A j \in in : i <= j
<1>1. DOMAIN R = 1..Len(R) /\ DOMAIN T = 1..Len(R) /\ Len(R) \in Nat
  BY DEF Listed
<1>2. {i \in DOMAIN T : x \in DOMAIN T[i]} = in
  BY <1>1
<1>3. CASE in = {}
  BY <1>2, <1>3 DEF Lookup
<1>4. CASE in # {}
  <2>1. PICK i \in in : \A j \in in : i <= j
    <3>1. in \in SUBSET Nat
      BY <1>1
    <3> HIDE DEF in
    <3>2. QED
      BY <1>4, <3>1, LeastExists
  <2>2. least \in in
    <3> HIDE DEF in
    <3>1. QED
      BY <2>1
  <2>3. T[least][x] = R[least][x]
    <3>1. least \in 1..Len(R) /\ x \in DOMAIN R[least]
      <4> HIDE DEF least
      <4>1. QED
        BY <1>1, <2>2
    <3> HIDE DEF least
    <3>2. QED
      BY <3>1
  <2>4. Lookup(R, x) = R[least][x]
    BY <1>4 DEF Lookup
  <2>5. Lookup(T, x) = T[least][x]
    BY <1>2, <1>4 DEF Lookup
  <2>6. QED
    BY <2>3, <2>4, <2>5
<1>5. QED
  BY <1>3, <1>4

\* A scope on top of others.
Atop(T, a, R) ==
  /\ Listed(T) /\ Len(T) = Len(R) + 1 /\ T[1] = a /\ 1 \in DOMAIN T
  /\ \A i \in 1..Len(R) : T[i + 1] = R[i]
  /\ \A i \in DOMAIN T : i = 1 \/ (i - 1 \in DOMAIN R /\ T[i] = R[i - 1])
  /\ Tail(T) = R

LEMMA OnTop ==
  ASSUME NEW R, Listed(R), NEW a, NEW T, T = <<a>> \o R
  PROVE  Atop(T, a, R)
<1> DEFINE A == {R[i] : i \in DOMAIN R} \cup {a}
<1>1. Len(R) \in Nat /\ R = [i \in 1..Len(R) |-> R[i]]
  BY DEF Listed
<1>2. R \in Seq(A)
  <2>1. \A i \in 1..Len(R) : R[i] \in A
    BY <1>1
  <2> HIDE DEF A
  <2>2. QED
    BY <1>1, <2>1
<1>3. a \in A
  OBVIOUS
<1> HIDE DEF A
<1>4. T \in Seq(A) /\ Len(T) = Len(R) + 1 /\ T[1] = a /\ DOMAIN T = 1..Len(R) + 1
      /\ \A i \in 1..Len(R) : T[i + 1] = R[i]
  BY <1>2, <1>3
<1>5. Listed(T)
  BY <1>1, <1>4 DEF Listed
<1>6. Tail(T) = R
  <2>1. Tail(T) \in Seq(A) /\ Len(Tail(T)) = Len(R) /\ \A i \in 1..Len(R) : Tail(T)[i] = T[i + 1]
    BY <1>1, <1>4
  <2>2. Listed(Tail(T))
    BY <1>1, <2>1 DEF Listed
  <2>3. \A i \in 1..Len(R) : Tail(T)[i] = R[i]
    BY <1>4, <2>1
  <2>4. QED
    BY <2>1, <2>2, <2>3, ListsEqual
<1>7. \A i \in DOMAIN T : i = 1 \/ (i - 1 \in DOMAIN R /\ T[i] = R[i - 1])
  <2>1. ASSUME NEW i \in 1..Len(R) + 1, i # 1
        PROVE  i - 1 \in 1..Len(R) /\ T[(i - 1) + 1] = R[i - 1] /\ (i - 1) + 1 = i
    BY <1>1, <1>4, <2>1
  <2>2. QED
    BY <1>1, <1>4, <2>1
<1>8. QED
  BY <1>1, <1>4, <1>5, <1>6, <1>7 DEF Atop

IsReset(T, R, x, v) ==
  /\ Listed(T) /\ Len(T) = Len(R) /\ DOMAIN T = DOMAIN R
  /\ T[1] = [y \in DOMAIN R[1] \cup {x} |-> IF y = x THEN v ELSE R[1][y]]
  /\ \A i \in DOMAIN R : i # 1 => T[i] = R[i]
  /\ Lookup(T, x) = v

LEMMA ResetIs ==
  ASSUME NEW R, Listed(R), 1 \in DOMAIN R, NEW x, NEW v, NEW T, T = Reset(R, x, v)
  PROVE  IsReset(T, R, x, v)
<1> DEFINE scope == [y \in DOMAIN R[1] \cup {x} |-> IF y = x THEN v ELSE R[1][y]]
<1>1. Len(R) \in Nat /\ R = [i \in 1..Len(R) |-> R[i]]
  BY DEF Listed
<1>2. T = [i \in 1..Len(R) |-> IF i = 1 THEN scope ELSE R[i]]
  BY <1>1 DEF Reset
<1>3. x \in DOMAIN scope /\ scope[x] = v
  OBVIOUS
<1> HIDE DEF scope
<1>4. DOMAIN T = 1..Len(R) /\ T[1] = scope /\ \A i \in 1..Len(R) : i # 1 => T[i] = R[i]
  BY <1>1, <1>2
<1>5. Len(T) = Len(R)
  BY <1>1, <1>4
<1>6. Listed(T)
  BY <1>1, <1>2, <1>4, <1>5 DEF Listed
<1>7. Lookup(T, x) = v
  BY <1>1, <1>3, <1>4, <1>6, LookupTop
<1>8. QED
  BY <1>1, <1>4, <1>5, <1>6, <1>7 DEF scope, IsReset

\* A variable that is nowhere is a new one of the innermost scope.
LEMMA NewVariable ==
  ASSUME NEW R, Listed(R), 1 \in DOMAIN R, NEW x, Free(R, x), NEW v
  PROVE  SetVar(R, x, v) = Reset(R, x, v) /\ MergeVar(R, x, v) = Reset(R, x, v)
<1>1. {i \in DOMAIN R : x \in DOMAIN R[i]} = {} /\ x \notin DOMAIN R[1]
  BY DEF Free
<1>2. QED
  BY <1>1 DEF SetVar, MergeVar

LEMMA ConditionSet ==
  ASSUME NEW R, Listed(R), NEW v
  PROVE  Reset(<<<<>>>> \o R, "cond", v) = <<[cond |-> v]>> \o R
<1> DEFINE none == <<>>
           one == [cond |-> v]
<1>10. PICK E : E = <<none>> \o R
  OBVIOUS
<1>11. PICK C : C = <<one>> \o R
  OBVIOUS
<1>12. PICK T : T = Reset(E, "cond", v)
  OBVIOUS
<1>13. DOMAIN none = {} /\ one = [y \in {"cond"} |-> v]
  OBVIOUS
<1> HIDE DEF none, one
<1>1. Atop(E, none, R)
  BY <1>10, OnTop
<1>2. Atop(C, one, R)
  BY <1>11, OnTop
<1>3. IsReset(T, E, "cond", v)
  <2>1. Listed(E) /\ 1 \in DOMAIN E
    BY <1>1 DEF Atop
  <2>2. QED
    BY <1>12, <2>1, ResetIs
<1>4. T[1] = C[1]
  <2>1. DOMAIN E[1] = {}
    BY <1>1, <1>13 DEF Atop
  <2>2. T[1] = [y \in {"cond"} |-> v]
    BY <1>3, <2>1 DEF IsReset
  <2>3. QED
    BY <1>2, <1>13, <2>2 DEF Atop
<1>5. Len(R) \in Nat /\ DOMAIN E = 1..Len(R) + 1
  BY <1>1 DEF Listed, Atop
<1>6. ASSUME NEW i \in 1..Len(R) + 1
      PROVE  T[i] = C[i]
  <2>1. CASE i = 1
    BY <1>4, <2>1
  <2>2. CASE i # 1
    <3>1. i - 1 \in 1..Len(R) /\ (i - 1) + 1 = i
      BY <1>5, <2>2
    <3>2. E[(i - 1) + 1] = C[(i - 1) + 1]
      BY <1>1, <1>2, <3>1 DEF Atop
    <3>3. QED
      BY <1>3, <1>5, <2>2, <3>1, <3>2 DEF IsReset
  <2>3. QED
    BY <2>1, <2>2
<1>7. T = C
  <2>1. Listed(T) /\ Listed(C) /\ Len(T) = Len(C) /\ Len(T) = Len(R) + 1
    BY <1>1, <1>2, <1>3 DEF Atop, IsReset
  <2>2. QED
    BY <1>6, <2>1, ListsEqual
<1>8. QED
  BY <1>7, <1>10, <1>11, <1>12 DEF none, one

-----------------------------------------------------------------------------
(* Definitions.                                                            *)

Functional(f) == f = [x \in DOMAIN f |-> f[x]]

\* Scopes that differ at most in variables of the innermost that are no keywords.
Keeps(T, R) ==
  /\ Listed(T) /\ Len(T) = Len(R) /\ DOMAIN T = DOMAIN R
  /\ \A i \in DOMAIN R : i # 1 => T[i] = R[i]
  /\ \A k \in Preserved : k \in DOMAIN T[1] <=> k \in DOMAIN R[1]
  /\ \A k \in Preserved : k \in DOMAIN R[1] => T[1][k] = R[1][k]
  /\ Functional(R[1]) => Functional(T[1])

\* What running may have come to: without an error, v is Null.
Run(r) == /\ r = [v |-> r.v, S |-> r.S] /\ (r.v = Null \/ Bad(r.v))
          /\ Listed(r.S) /\ 1 \in DOMAIN r.S

LEMMA KeepsItself ==
  ASSUME NEW R, Listed(R)
  PROVE  Keeps(R, R)
BY DEF Keeps

LEMMA KeepsOn ==
  ASSUME NEW R, NEW T, NEW U, Keeps(T, R), Keeps(U, T), 1 \in DOMAIN R
  PROVE  Keeps(U, R)
BY DEF Keeps

LEMMA RunOk == ASSUME NEW r, Run(r), ~Bad(r.v) PROVE r = Ok(r.S)
BY DEF Run, Ok

LEMMA OkRuns ==
  ASSUME NEW R, Listed(R), 1 \in DOMAIN R
  PROVE  Run(Ok(R)) /\ Ok(R).v = Null /\ Ok(R).S = R /\ ~Bad(Ok(R).v)
BY DEF Run, Ok, Bad, Null, Failure, Crash

LEMMA SetPathKeeps ==
  ASSUME NEW R, Listed(R), 1 \in DOMAIN R, NEW path \in Seq(STRING), path # <<>>,
         Head(path) \notin Preserved, NEW v
  PROVE  Keeps(SetPath(R, path, v), R)
<1> DEFINE doc == SetAt(Obj(R[1]), path, v)
           scope == doc[2]
           T == SetPath(R, path, v)
<1>1. Len(path) \in Nat /\ Len(path) # 0 /\ Upto(path, 0) = <<>> /\ Head(path) = path[1]
  BY UptoFacts
<1>2. 1 \in 1..Len(path) /\ 1 - 1 = 0
  BY <1>1
<1>3. PICK y : SetAt(Obj(R[1]), path, v) = Placed(Obj(R[1]), path[1], y)
  <2>1. \E y : SetAt(Obj(R[1]), path, v) = Placed(Obj(R[1]), path[1], y)
    <3> HIDE DEF doc, scope, T, Preserved
    <3>1. QED
      BY SetAtFirst
  <2>2. QED
    BY <2>1
<1>4. doc = Placed(Obj(R[1]), path[1], y)
  BY <1>3
<1>5. scope = [k \in DOMAIN R[1] \cup {path[1]} |-> IF k = path[1] THEN y ELSE R[1][k]]
  BY <1>4 DEF Placed, Obj, Is
<1>6. T = [R EXCEPT ![1] = scope]
  BY DEF SetPath
<1> HIDE DEF doc, scope, T
<1>7. Len(R) \in Nat /\ R = [i \in 1..Len(R) |-> R[i]] /\ DOMAIN R = 1..Len(R)
  BY DEF Listed
<1>8. T = [i \in 1..Len(R) |-> IF i = 1 THEN scope ELSE R[i]]
  BY <1>6, <1>7
<1>9. DOMAIN T = DOMAIN R /\ T[1] = scope /\ \A i \in DOMAIN R : i # 1 => T[i] = R[i]
  BY <1>7, <1>8
<1>10. Len(T) = Len(R) /\ Listed(T)
  <2>1. Len(T) = Len(R)
    BY <1>7, <1>9
  <2>2. QED
    BY <1>7, <1>8, <1>9, <2>1 DEF Listed
<1>11. Functional(T[1])
  BY <1>5, <1>9 DEF Functional
<1>12. path[1] \notin Preserved
  BY <1>1
<1>13. DOMAIN scope = DOMAIN R[1] \cup {path[1]} /\ \A k \in DOMAIN R[1] : k # path[1] => scope[k] = R[1][k]
  BY <1>5
<1>14. \A k \in Preserved : k # path[1]
  BY <1>12
<1> HIDE DEF Preserved
<1>15. /\ \A k \in Preserved : k \in DOMAIN T[1] <=> k \in DOMAIN R[1]
       /\ \A k \in Preserved : k \in DOMAIN R[1] => T[1][k] = R[1][k]
  BY <1>9, <1>13, <1>14
<1>16. QED
  BY <1>9, <1>10, <1>11, <1>15 DEF Keeps, T

LEMMA DefinedAsRuns ==
  ASSUME NEW ke, ke.key \in Seq(STRING), ke.key # <<>>, Head(ke.key) \notin Preserved,
         NEW r, Run(r), NEW d, d = DefinedAs(ke, r)
  PROVE  Run(d) /\ Keeps(d.S, r.S) /\ (Bad(r.v) => d = r)
<1> DEFINE v == Evaluate(ke.expr, r.S)
           T == SetPath(r.S, ke.key, v)
<1>1. Listed(r.S) /\ 1 \in DOMAIN r.S
  BY DEF Run
<1>2. Keeps(T, r.S)
  BY <1>1, SetPathKeeps
<1>3. d = IF Bad(r.v) THEN r ELSE IF Bad(v) THEN [r EXCEPT !.v = v] ELSE Ok(T)
  BY DEF DefinedAs, With
<1> HIDE DEF v, T
<1>4. CASE Bad(r.v)
  BY <1>1, <1>3, <1>4, KeepsItself
<1>5. CASE ~Bad(r.v) /\ Bad(v)
  <2>1. d = [v |-> v, S |-> r.S]
    BY <1>3, <1>5 DEF Run
  <2>2. QED
    BY <1>1, <1>5, <2>1, KeepsItself DEF Run
<1>6. CASE ~Bad(r.v) /\ ~Bad(v)
  <2>1. d = Ok(T)
    BY <1>3, <1>6
  <2>2. Listed(T) /\ 1 \in DOMAIN T
    BY <1>1, <1>2 DEF Keeps
  <2>3. QED
    BY <1>2, <1>6, <2>1, <2>2, OkRuns
<1>7. QED
  BY <1>4, <1>5, <1>6

Defining(in, r, f, N) ==
  f = [n \in 0..N |-> IF n = 0 THEN r ELSE DefinedAs(in[n], f[n - 1])]

LEMMA DefiningExists ==
  ASSUME NEW in, NEW r
  PROVE  \A N \in Nat : \E f : Defining(in, r, f, N)
<1> DEFINE T == {N \in Nat : \E f : Defining(in, r, f, N)}
<1>1. 0 \in T
  <2>1. Defining(in, r, [n \in 0..0 |-> r], 0)
    BY DEF Defining
  <2>2. QED
    BY <2>1
<1>2. ASSUME NEW N \in T
      PROVE  N + 1 \in T
  <2>1. PICK f : Defining(in, r, f, N)
    OBVIOUS
  <2> DEFINE g == [n \in 0..N + 1 |-> IF n = N + 1 THEN DefinedAs(in[N + 1], f[N]) ELSE f[n]]
  <2>2. \A n \in 0..N : g[n] = f[n] /\ f[n] = IF n = 0 THEN r ELSE DefinedAs(in[n], f[n - 1])
    BY <2>1 DEF Defining
  <2>3. \A n \in 0..N + 1 : g[n] = IF n = 0 THEN r ELSE DefinedAs(in[n], g[n - 1])
    <3>1. ASSUME NEW n \in 0..N + 1
          PROVE  g[n] = IF n = 0 THEN r ELSE DefinedAs(in[n], g[n - 1])
      <4>1. CASE n = N + 1
        <5>1. g[n] = DefinedAs(in[N + 1], f[N]) /\ n - 1 = N /\ n # 0 /\ N \in 0..N
          BY <4>1
        <5>2. g[N] = f[N]
          BY <2>2, <5>1
        <5> HIDE DEF g
        <5>3. QED
          BY <4>1, <5>1, <5>2
      <4>2. CASE n # N + 1
        <5>1. n \in 0..N /\ (n # 0 => n - 1 \in 0..N)
          BY <4>2
        <5> HIDE DEF g
        <5>2. QED
          BY <2>2, <5>1
      <4>3. QED
        BY <4>1, <4>2
    <3>2. QED
      BY <3>1
  <2>4. g = [n \in 0..N + 1 |-> g[n]]
    OBVIOUS
  <2>5. Defining(in, r, g, N + 1)
    <3> HIDE DEF g
    <3>1. QED
      BY <2>3, <2>4 DEF Defining
  <2>6. QED
    BY <2>5
<1>3. T = Nat
  <2> HIDE DEF T
  <2>1. T \in SUBSET Nat
    BY DEF T
  <2>2. QED
    BY <1>1, <1>2, <2>1, AllNaturals
<1>4. QED
  BY <1>3

\* Definitions keep the scopes below, and the keywords; after an error nothing changes.
LEMMA DefinedRuns ==
  ASSUME NEW kes, DefinesNoKeyword(kes), NEW r, Run(r), NEW d, d = Defined(kes, r)
  PROVE  Run(d) /\ Keeps(d.S, r.S) /\ (Bad(r.v) => d = r)
<1>1. Keys(kes) /\ \A i \in DOMAIN kes : kes[i].key # <<>> /\ Head(kes[i].key) \notin Preserved
  BY DEF DefinesNoKeyword
<1>2. PICK in : in = Ordered(kes)
  OBVIOUS
<1>3. PICK N : N = Len(kes)
  OBVIOUS
<1>4. N \in Nat /\ Arranged(kes, in, N)
  BY <1>1, <1>2, <1>3, KeysFacts, OrderedIs
<1>5. PICK f : Defining(in, r, f, N) /\ d = f[N]
  <2> DEFINE after == CHOOSE f : Defining(in, r, f, N)
  <2>1. Defining(in, r, after, N)
    BY <1>4, DefiningExists
  <2>2. d = after[N]
    BY <1>2, <1>3 DEF Defined, Defining
  <2>3. QED
    BY <2>1, <2>2
<1> DEFINE Held(n) == Run(f[n]) /\ Keeps(f[n].S, r.S) /\ (Bad(r.v) => f[n] = r)
           U == {n \in Nat : n <= N => Held(n)}
<1>6. f[0] = r /\ \A n \in 1..N : f[n] = DefinedAs(in[n], f[n - 1])
  BY <1>4, <1>5 DEF Defining
<1>7. 0 \in U
  <2>1. Keeps(r.S, r.S)
    BY KeepsItself DEF Run
  <2>2. QED
    BY <1>6, <2>1
<1>8. ASSUME NEW n \in U
      PROVE  n + 1 \in U
  <2> SUFFICES ASSUME n + 1 <= N
               PROVE  Held(n + 1)
    OBVIOUS
  <2>1. n \in Nat /\ n + 1 \in 1..N /\ (n + 1) - 1 = n /\ n <= N
    BY <1>4
  <2>2. Held(n)
    BY <2>1
  <2>3. PICK i \in Firsts(kes) : in[n + 1] = kes[i]
    BY <1>4, <2>1 DEF Arranged
  <2>4. in[n + 1].key \in Seq(STRING) /\ in[n + 1].key # <<>> /\ Head(in[n + 1].key) \notin Preserved
    <3>1. i \in DOMAIN kes
      BY DEF Firsts
    <3>2. QED
      BY <1>1, <2>3, <3>1, KeysFacts
  <2>5. f[n + 1] = DefinedAs(in[n + 1], f[n])
    BY <1>6, <2>1
  <2>6. Run(f[n + 1]) /\ Keeps(f[n + 1].S, f[n].S) /\ (Bad(f[n].v) => f[n + 1] = f[n])
    BY <2>2, <2>4, <2>5, DefinedAsRuns
  <2>7. Keeps(f[n + 1].S, r.S)
    BY <2>2, <2>6, KeepsOn DEF Run
  <2>8. QED
    BY <2>2, <2>6, <2>7
<1>9. U = Nat
  <2> HIDE DEF U
  <2>1. U \in SUBSET Nat
    BY DEF U
  <2>2. QED
    BY <1>7, <1>8, <2>1, AllNaturals
<1>10. Held(N)
  <2>1. N \in U /\ N <= N
    BY <1>4, <1>9
  <2>2. QED
    BY <2>1
<1>11. QED
  BY <1>5, <1>10

-----------------------------------------------------------------------------
(* If blocks.                                                              *)

LEMMA AllTrueIs ==
  ASSUME NEW vs, Listed(vs)
  PROVE  /\ AllTrue(vs) = Bool(TRUE) <=> \A i \in DOMAIN vs : vs[i] = Bool(TRUE)
         /\ AllTrue(vs) \in {Bool(TRUE), Bool(FALSE), Crash, Failure}
<1> DEFINE stops == {i \in DOMAIN vs : vs[i] # Bool(TRUE)}
           least == CHOOSE i \in stops : \A j \in stops : i <= j
<1>1. Bool(TRUE) # Bool(FALSE) /\ Bool(TRUE) # Crash /\ Bool(TRUE) # Failure
  BY DEF Bool, Crash, Failure
<1>2. CASE stops = {}
  BY <1>2 DEF AllTrue
<1>3. CASE stops # {}
  <2>1. AllTrue(vs) = IF vs[least] \in {Bool(FALSE), Crash} THEN vs[least] ELSE Failure
    BY <1>3 DEF AllTrue
  <2>2. AllTrue(vs) \in {Bool(FALSE), Crash, Failure}
    <3> HIDE DEF least
    <3>1. QED
      BY <2>1
  <2>3. QED
    BY <1>1, <1>3, <2>2
<1>4. QED
  BY <1>2, <1>3

\* Scopes that differ at most in the innermost have the same others.
LEMMA SameTail ==
  ASSUME NEW T, NEW R, Listed(T), Listed(R), Len(T) = Len(R), 1 \in DOMAIN R,
         \A i \in DOMAIN R : i # 1 => T[i] = R[i]
  PROVE  Tail(T) = Tail(R)
<1> DEFINE A == {R[i] : i \in DOMAIN R} \cup {T[i] : i \in DOMAIN T}
<1>1. Len(R) \in Nat /\ R = [i \in 1..Len(R) |-> R[i]] /\ T = [i \in 1..Len(R) |-> T[i]]
      /\ DOMAIN R = 1..Len(R) /\ DOMAIN T = 1..Len(R)
  BY DEF Listed
<1>2. \A i \in 1..Len(R) : R[i] \in A /\ T[i] \in A
  BY <1>1
<1> HIDE DEF A
<1>3. R \in Seq(A) /\ T \in Seq(A)
  BY <1>1, <1>2
<1>4. Len(R) >= 1 /\ Len(T) = Len(R)
  BY <1>1
<1>5. /\ Tail(R) \in Seq(A) /\ Len(Tail(R)) = Len(R) - 1
      /\ \A i \in 1..Len(R) - 1 : Tail(R)[i] = R[i + 1]
  BY <1>1, <1>3, <1>4
<1>6. /\ Tail(T) \in Seq(A) /\ Len(Tail(T)) = Len(R) - 1
      /\ \A i \in 1..Len(R) - 1 : Tail(T)[i] = T[i + 1]
  BY <1>1, <1>3, <1>4
<1>7. \A i \in 1..Len(R) - 1 : i + 1 \in DOMAIN R /\ i + 1 # 1
  BY <1>1
<1>8. \A X \in Seq(A) : Listed(X)
  BY DEF Listed
<1>9. \A i \in 1..Len(Tail(T)) : Tail(T)[i] = Tail(R)[i]
  BY <1>1, <1>5, <1>6, <1>7
<1>10. QED
  BY <1>5, <1>6, <1>8, <1>9, ListsEqual

LEMMA KeptLooks ==
  ASSUME NEW T, NEW R, Keeps(T, R), Listed(R), 1 \in DOMAIN R
  PROVE  /\ Listed(T) /\ 1 \in DOMAIN T /\ Tail(T) = Tail(R)
         /\ \A k \in Preserved : Lookup(T, k) = Lookup(R, k) /\ (Free(R, k) => Free(T, k))
<1>1. Listed(T) /\ Len(T) = Len(R) /\ DOMAIN T = DOMAIN R /\ DOMAIN R = 1..Len(R)
  BY DEF Keeps, Listed
<1>2. Tail(T) = Tail(R)
  BY <1>1, SameTail DEF Keeps
<1>3. ASSUME NEW k \in Preserved, NEW i \in DOMAIN R
      PROVE  (k \in DOMAIN T[i] <=> k \in DOMAIN R[i]) /\ (k \in DOMAIN R[i] => T[i][k] = R[i][k])
  <2> HIDE DEF Preserved
  <2>1. CASE i = 1
    BY <2>1 DEF Keeps
  <2>2. CASE i # 1
    BY <2>2 DEF Keeps
  <2>3. QED
    BY <2>1, <2>2
<1>4. ASSUME NEW k \in Preserved
      PROVE  Lookup(T, k) = Lookup(R, k) /\ (Free(R, k) => Free(T, k))
  <2> HIDE DEF Preserved
  <2>1. Lookup(T, k) = Lookup(R, k)
    <3>1. /\ \A i \in 1..Len(R) : k \in DOMAIN T[i] <=> k \in DOMAIN R[i]
          /\ \A i \in 1..Len(R) : k \in DOMAIN R[i] => T[i][k] = R[i][k]
      BY <1>1, <1>3
    <3>2. QED
      BY <1>1, <3>1, LookupBelow
  <2>2. Free(R, k) => Free(T, k)
    BY <1>1, <1>3 DEF Free
  <2>3. QED
    BY <2>1, <2>2
<1>5. QED
  BY <1>1, <1>2, <1>4

LEMMA ResetLooks ==
  ASSUME NEW R, Listed(R), 1 \in DOMAIN R, NEW x, NEW v, NEW T, T = Reset(R, x, v)
  PROVE  /\ Listed(T) /\ 1 \in DOMAIN T /\ Tail(T) = Tail(R) /\ Lookup(T, x) = v
         /\ \A k : k # x => Lookup(T, k) = Lookup(R, k) /\ (Free(R, k) => Free(T, k))
<1>1. IsReset(T, R, x, v)
  BY ResetIs
<1>2. DOMAIN R = 1..Len(R)
  BY DEF Listed
<1>3. Tail(T) = Tail(R)
  BY <1>1, SameTail DEF IsReset
<1>4. ASSUME NEW k, k # x, NEW i \in DOMAIN R
      PROVE  (k \in DOMAIN T[i] <=> k \in DOMAIN R[i]) /\ (k \in DOMAIN R[i] => T[i][k] = R[i][k])
  <2>1. CASE i = 1
    BY <1>1, <1>4, <2>1 DEF IsReset
  <2>2. CASE i # 1
    BY <1>1, <2>2 DEF IsReset
  <2>3. QED
    BY <2>1, <2>2
<1>5. ASSUME NEW k, k # x
      PROVE  Lookup(T, k) = Lookup(R, k) /\ (Free(R, k) => Free(T, k))
  <2>1. Lookup(T, k) = Lookup(R, k)
    BY <1>1, <1>2, <1>4, <1>5, LookupBelow DEF IsReset
  <2>2. Free(R, k) => Free(T, k)
    BY <1>1, <1>4, <1>5 DEF IsReset, Free
  <2>3. QED
    BY <2>1, <2>2
<1>6. QED
  BY <1>1, <1>3, <1>5 DEF IsReset

\* Whether the conditions of an if block hold; whether the scope that conditions are
\* evaluated in, when nothing is defined in it yet, is as good as none.
Holding(c, R) == \A j \in DOMAIN c.cond : Evaluate(c.cond[j], R) = Bool(TRUE)
EmptyScopeIsNothing == \A e, Q : Listed(Q) => Evaluate(e, <<<<>>>> \o Q) = Evaluate(e, Q)

LEMMA ConditionsAre ==
  ASSUME EmptyScopeIsNothing, NEW es, Listed(es), NEW R, Listed(R), NEW v,
         v = LogicalAnd(es, <<<<>>>> \o R)
  PROVE  /\ v = Bool(TRUE) <=> \A j \in DOMAIN es : Evaluate(es[j], R) = Bool(TRUE)
         /\ v \in {Bool(TRUE), Bool(FALSE), Crash, Failure}
<1>1. PICK vs : vs = [i \in DOMAIN es |-> Evaluate(es[i], R)]
  OBVIOUS
<1>2. EvaluateAll(es, <<<<>>>> \o R) = vs
  <2>1. \A e : Evaluate(e, <<<<>>>> \o R) = Evaluate(e, R)
    BY DEF EmptyScopeIsNothing
  <2>2. QED
    BY <1>1, <2>1 DEF EvaluateAll
<1>3. v = AllTrue(vs)
  BY <1>2 DEF LogicalAnd
<1>4. Listed(vs) /\ DOMAIN vs = DOMAIN es
  <2>1. Len(es) \in Nat /\ DOMAIN es = 1..Len(es)
    BY DEF Listed
  <2>2. DOMAIN vs = 1..Len(es) /\ Len(vs) = Len(es) /\ vs = [i \in 1..Len(es) |-> vs[i]]
    BY <1>1, <2>1
  <2>3. QED
    BY <2>1, <2>2 DEF Listed
<1>5. \A i \in DOMAIN es : vs[i] = Evaluate(es[i], R)
  BY <1>1
<1>6. QED
  BY <1>3, <1>4, <1>5, AllTrueIs

\* What the output of a block makes of scopes without one.
OutputFrom(m, kes, R) ==
  /\ m = [v |-> m.v, S |-> m.S]
  /\ m.v = Null \/ Bad(m.v)
  /\ Bad(m.v) <=> \E i \in Firsts(kes) : Bad(Evaluate(kes[i].expr, R))
  /\ Listed(m.S) /\ 1 \in DOMAIN m.S /\ Tail(m.S) = Tail(R)
  /\ \A k : k # "output" => Lookup(m.S, k) = Lookup(R, k) /\ (Free(R, k) => Free(m.S, k))
  /\ Bad(m.v) => Lookup(m.S, "output") = Absent
  /\ ~Bad(m.v) => DocumentMeant(Lookup(m.S, "output"), ValuesOf(kes, R))
  /\ m.S = R \/ m.S = Reset(R, "output", Lookup(m.S, "output"))

LEMMA OutputFieldIs ==
  ASSUME NEW kes, Keys(kes), KeysAgree(kes), NEW R, Listed(R), 1 \in DOMAIN R,
         Free(R, "output"), NEW m, m = MergeField(kes, "output", Ok(R))
  PROVE  OutputFrom(m, kes, R)
<1> DEFINE doc == Fill(kes, R)
           T == IF doc = Null THEN R ELSE Reset(R, "output", doc)
<1>1. m = IF Bad(doc) THEN [v |-> doc, S |-> R] ELSE Ok(T)
  <2>1. MergeVar(R, "output", doc) = Reset(R, "output", doc)
    BY NewVariable
  <2>2. Ok(R).v = Null /\ Ok(R).S = R /\ ~Bad(Ok(R).v) /\ Ok(R) = [v |-> Null, S |-> R]
    BY OkRuns DEF Ok
  <2>3. m = With(Ok(R), doc, IF doc = Null THEN R ELSE MergeVar(R, "output", doc))
    BY <2>2 DEF MergeField, MergedWith
  <2> HIDE DEF doc
  <2>4. QED
    BY <2>1, <2>2, <2>3 DEF With
<1>2. Bad(doc) <=> \E i \in Firsts(kes) : Bad(Evaluate(kes[i].expr, R))
  <2>1. CASE kes = <<>>
    <3>1. Firsts(kes) = {} /\ doc = Null
      BY <2>1 DEF Firsts, Fill
    <3>2. QED
      BY <3>1 DEF Bad, Null, Failure, Crash
  <2>2. CASE kes # <<>>
    BY <2>2, FillFacts
  <2>3. QED
    BY <2>1, <2>2
<1>3. Lookup(R, "output") = Absent
  BY LookupFree
<1>4. ~Bad(doc) => \A output : output = (IF doc = Null THEN Absent ELSE doc)
                     => DocumentMeant(output, ValuesOf(kes, R))
  BY DocumentIsMeant
<1>5. ~Bad(Null)
  BY DEF Bad, Null, Failure, Crash
<1> HIDE DEF doc
<1>6. CASE Bad(doc)
  <2>1. m.v = doc /\ m.S = R
    BY <1>1, <1>6
  <2>2. m = [v |-> m.v, S |-> m.S]
    BY <1>1, <1>6
  <2>3. QED
    BY <1>2, <1>3, <1>6, <2>1, <2>2 DEF OutputFrom
<1>7. CASE ~Bad(doc) /\ doc = Null
  <2>1. m.v = Null /\ m.S = R
    BY <1>1, <1>7 DEF Ok
  <2>2. DocumentMeant(Absent, ValuesOf(kes, R))
    BY <1>4, <1>7
  <2>3. m = [v |-> m.v, S |-> m.S]
    BY <1>1, <1>7 DEF Ok
  <2>4. QED
    BY <1>2, <1>3, <1>5, <1>7, <2>1, <2>2, <2>3 DEF OutputFrom
<1>8. CASE ~Bad(doc) /\ doc # Null
  <2>1. PICK U : U = Reset(R, "output", doc)
    OBVIOUS
  <2>2. m.v = Null /\ m.S = U
    BY <1>1, <1>8, <2>1 DEF Ok
  <2>3. /\ Listed(U) /\ 1 \in DOMAIN U /\ Tail(U) = Tail(R) /\ Lookup(U, "output") = doc
        /\ \A k : k # "output" => Lookup(U, k) = Lookup(R, k) /\ (Free(R, k) => Free(U, k))
    BY <2>1, ResetLooks
  <2>4. DocumentMeant(doc, ValuesOf(kes, R))
    BY <1>4, <1>8
  <2>5. m = [v |-> m.v, S |-> m.S]
    BY <1>1, <1>8 DEF Ok
  <2>6. QED
    BY <1>2, <1>5, <1>8, <2>1, <2>2, <2>3, <2>4, <2>5 DEF OutputFrom
<1>9. QED
  BY <1>6, <1>7, <1>8

\* What a branch that holds comes to: without an error its output and next are the ones
\* that are meant; the flow's has no error.
BranchIs(run, flow, c, R) ==
  LET d == BranchScope(c, R)
  IN  /\ Lookup(run.S, "cond") = Bool(TRUE)
      /\ run.v # Crash =>
           /\ FailsIn(c, d) /\ ~flow => Bad(run.v)
           /\ flow \/ ~FailsIn(c, d) => run.v = Null
           /\ run.v = Null =>
                /\ Tail(run.S) = R
                /\ BranchMeant(c, Lookup(run.S, "output"), d)
                /\ Lookup(run.S, "next") = IF flow /\ c.next # <<>> THEN c.next[1] ELSE Absent

\* Scopes that nothing is decided in yet.
Open(R) ==
  /\ Listed(R) /\ 1 \in DOMAIN R
  /\ Free(R, "cond") /\ Free(R, "output") /\ Free(R, "next")

LEMMA AtopLooks ==
  ASSUME NEW R, NEW a, NEW T, Listed(R), Atop(T, a, R)
  PROVE  /\ Listed(T) /\ 1 \in DOMAIN T /\ Tail(T) = R
         /\ \A k : k \notin DOMAIN a /\ Free(R, k) => Free(T, k)
         /\ \A k : k \in DOMAIN a => Lookup(T, k) = a[k]
<1>1. \A k : k \in DOMAIN a => Lookup(T, k) = a[k]
  BY LookupTop DEF Atop
<1>2. ASSUME NEW k, k \notin DOMAIN a, Free(R, k), NEW i \in DOMAIN T
      PROVE  k \notin DOMAIN T[i]
  BY <1>2 DEF Atop, Free
<1>3. QED
  BY <1>1, <1>2 DEF Atop, Free

\* The branch before its next.
LEMMA HoldingRuns ==
  ASSUME NEW c, Branching(c), KeysAgree(c.output), NEW R, Open(R), NEW d, d = BranchScope(c, R),
         NEW m, m = MergeField(c.output, "output", d)
  PROVE  /\ m.v = Null \/ Bad(m.v)
         /\ Bad(m.v) <=> FailsIn(c, d)
         /\ Listed(m.S) /\ 1 \in DOMAIN m.S /\ Tail(m.S) = R
         /\ Lookup(m.S, "cond") = Bool(TRUE) /\ Free(m.S, "next")
         /\ BranchMeant(c, Lookup(m.S, "output"), d)
<1> DEFINE a == [cond |-> Bool(TRUE)]
<1>1. PICK C : C = <<a>> \o R
  OBVIOUS
<1>2. DOMAIN a = {"cond"} /\ a["cond"] = Bool(TRUE)
  OBVIOUS
<1> HIDE DEF a
<1>3. Listed(R)
  BY DEF Open
<1>4. Atop(C, a, R)
  BY <1>1, <1>3, OnTop
<1>5. /\ Listed(C) /\ 1 \in DOMAIN C /\ Tail(C) = R
      /\ Free(C, "output") /\ Free(C, "next") /\ Lookup(C, "cond") = Bool(TRUE)
  BY <1>2, <1>3, <1>4, AtopLooks DEF Open
<1>6. d = Defined(c.def, Ok(C))
  BY <1>1 DEF BranchScope, a
<1>7. Run(d) /\ Keeps(d.S, C)
  <2>1. DefinesNoKeyword(c.def) /\ Run(Ok(C)) /\ Ok(C).S = C
    BY <1>5, OkRuns DEF Branching
  <2>2. QED
    BY <1>6, <2>1, DefinedRuns
<1>8. {"cond", "output", "next"} \subseteq Preserved
  BY DEF Preserved, Keywords
<1>9. /\ Listed(d.S) /\ 1 \in DOMAIN d.S /\ Tail(d.S) = R
      /\ Free(d.S, "output") /\ Free(d.S, "next") /\ Lookup(d.S, "cond") = Bool(TRUE)
  <2> HIDE DEF Preserved
  <2>1. QED
    BY <1>5, <1>7, <1>8, KeptLooks
<1>10. CASE Bad(d.v)
  <2>1. m = d
    BY <1>10 DEF MergeField, MergedWith, With
  <2>2. FailsIn(c, d)
    BY <1>10 DEF FailsIn
  <2>3. Lookup(m.S, "output") = Absent
    BY <1>9, <2>1, LookupFree
  <2>4. QED
    BY <1>9, <1>10, <2>1, <2>2, <2>3 DEF BranchMeant
<1>11. CASE ~Bad(d.v)
  <2>1. d = Ok(d.S)
    BY <1>7, <1>11, RunOk
  <2>2. m = MergeField(c.output, "output", Ok(d.S))
    BY <2>1
  <2>3. OutputFrom(m, c.output, d.S)
    BY <1>9, <2>2, OutputFieldIs DEF Branching
  <2>4. Bad(m.v) <=> FailsIn(c, d)
    BY <1>11, <2>3 DEF OutputFrom, FailsIn
  <2>5. BranchMeant(c, Lookup(m.S, "output"), d)
    BY <2>3, <2>4 DEF OutputFrom, BranchMeant
  <2>6. QED
    BY <1>9, <2>3, <2>4, <2>5 DEF OutputFrom
<1>12. QED
  BY <1>10, <1>11

LEMMA IfRunIs ==
  ASSUME EmptyScopeIsNothing, NEW c, Branching(c), KeysAgree(c.output), NEW R, Open(R),
         NEW flow \in BOOLEAN, NEW run, run = IfRun(flow, c, R)
  PROVE  IF Holding(c, R) THEN BranchIs(run, flow, c, R)
         ELSE run.v = Crash \/ Lookup(run.S, "cond") # Bool(TRUE)
<1>1. PICK E : E = <<<<>>>> \o R
  OBVIOUS
<1>2. PICK v : v = LogicalAnd(c.cond, E)
  OBVIOUS
<1>3. PICK r : r = SetTo(Ok(E), "cond", v)
  OBVIOUS
<1>4. PICK m : m = RunBranch(c, r)
  OBVIOUS
<1>5. run = IF flow THEN WithNext(c.next, m) ELSE m
  BY <1>1, <1>2, <1>3, <1>4 DEF IfRun, RunIf
<1>6. Listed(R) /\ Listed(c.cond)
  BY DEF Open, Branching
<1>7. /\ v = Bool(TRUE) <=> Holding(c, R)
      /\ v \in {Bool(TRUE), Bool(FALSE), Crash, Failure}
  BY <1>1, <1>2, <1>6, ConditionsAre DEF Holding
<1>8. /\ Listed(E) /\ 1 \in DOMAIN E /\ Free(E, "cond") /\ Free(E, "output") /\ Free(E, "next")
  <2> DEFINE none == <<>>
  <2>1. DOMAIN none = {} /\ E = <<none>> \o R
    BY <1>1
  <2> HIDE DEF none
  <2>2. Atop(E, none, R)
    BY <1>6, <2>1, OnTop
  <2>3. QED
    BY <1>6, <2>1, <2>2, AtopLooks DEF Open
<1>9. r = IF Bad(v) THEN [v |-> v, S |-> E] ELSE Ok(Reset(E, "cond", v))
  <2>1. SetVar(E, "cond", v) = Reset(E, "cond", v)
    BY <1>8, NewVariable
  <2>2. Ok(E).S = E /\ ~Bad(Ok(E).v) /\ Ok(E) = [v |-> Null, S |-> E]
    BY <1>8, OkRuns DEF Ok
  <2>3. QED
    BY <1>3, <2>1, <2>2 DEF SetTo, With
<1>10. Bool(TRUE) # Bool(FALSE) /\ Bool(TRUE) # Absent /\ ~Bad(Bool(TRUE)) /\ ~Bad(Bool(FALSE))
       /\ Bad(Crash) /\ Bad(Failure) /\ ~Bad(Null) /\ Null # Crash
  BY DEF Bool, Absent, Bad, Crash, Failure, Null
<1>11. CASE v = Bool(TRUE)
  <2>1. PICK d : d = BranchScope(c, R)
    OBVIOUS
  <2>2. r = Ok(<<[cond |-> Bool(TRUE)]>> \o R)
    BY <1>1, <1>6, <1>9, <1>10, <1>11, ConditionSet
  <2>3. Lookup(r.S, "cond") = Bool(TRUE)
    <3>1. PICK U : U = Reset(E, "cond", v)
      OBVIOUS
    <3>2. Lookup(U, "cond") = v
      BY <1>8, <3>1, ResetLooks
    <3>3. r.S = U
      BY <1>9, <1>10, <1>11, <3>1 DEF Ok
    <3>4. QED
      BY <1>11, <3>2, <3>3
  <2>4. m = MergeField(c.output, "output", d)
    BY <1>4, <2>1, <2>2, <2>3 DEF RunBranch, BranchScope
  <2>5. /\ m.v = Null \/ Bad(m.v)
        /\ Bad(m.v) <=> FailsIn(c, d)
        /\ Listed(m.S) /\ 1 \in DOMAIN m.S /\ Tail(m.S) = R
        /\ Lookup(m.S, "cond") = Bool(TRUE) /\ Free(m.S, "next")
        /\ BranchMeant(c, Lookup(m.S, "output"), d)
    BY <2>1, <2>4, HoldingRuns
  <2>6. Lookup(m.S, "next") = Absent
    BY <2>5, LookupFree
  <2>7. CASE ~flow
    BY <1>5, <1>7, <1>10, <1>11, <2>1, <2>5, <2>6, <2>7 DEF BranchIs
  <2>8. CASE flow /\ m.v = Crash
    <3>1. run = m
      BY <1>5, <2>8 DEF WithNext
    <3>2. QED
      BY <1>7, <1>11, <2>5, <2>8, <3>1 DEF BranchIs
  <2>9. CASE flow /\ m.v # Crash /\ c.next = <<>>
    <3>1. run = Ok(m.S)
      BY <1>5, <2>9 DEF WithNext
    <3>2. run.v = Null /\ run.S = m.S
      BY <3>1 DEF Ok
    <3>3. QED
      BY <1>7, <1>11, <2>1, <2>5, <2>6, <2>9, <3>2 DEF BranchIs
  <2>10. CASE flow /\ m.v # Crash /\ c.next # <<>>
    <3>1. PICK U : U = Reset(m.S, "next", c.next[1])
      OBVIOUS
    <3>2. run = Ok(U)
      BY <1>5, <2>5, <2>10, <3>1, NewVariable DEF WithNext
    <3>3. run.v = Null /\ run.S = U
      BY <3>2 DEF Ok
    <3>4. /\ Tail(U) = Tail(m.S) /\ Lookup(U, "next") = c.next[1]
          /\ Lookup(U, "cond") = Lookup(m.S, "cond") /\ Lookup(U, "output") = Lookup(m.S, "output")
      BY <2>5, <3>1, ResetLooks
    <3>5. QED
      BY <1>7, <1>11, <2>1, <2>5, <2>10, <3>3, <3>4 DEF BranchIs
  <2>11. QED
    BY <2>7, <2>8, <2>9, <2>10
<1>12. CASE v # Bool(TRUE)
  <2>1. Lookup(r.S, "cond") # Bool(TRUE) /\ Listed(r.S) /\ 1 \in DOMAIN r.S /\ Free(r.S, "next")
    <3>1. CASE Bad(v)
      <4>1. r.S = E
        BY <1>9, <3>1
      <4>2. Lookup(E, "cond") = Absent
        BY <1>8, LookupFree
      <4>3. QED
        BY <1>8, <1>10, <4>1, <4>2
    <3>2. CASE ~Bad(v)
      <4>1. PICK U : U = Reset(E, "cond", v)
        OBVIOUS
      <4>2. r.S = U
        BY <1>9, <3>2, <4>1 DEF Ok
      <4>3. Listed(U) /\ 1 \in DOMAIN U /\ Lookup(U, "cond") = v /\ Free(U, "next")
        BY <1>8, <4>1, ResetLooks
      <4>4. QED
        BY <1>12, <4>2, <4>3
    <3>3. QED
      BY <3>1, <3>2
  <2>2. m = r
    BY <1>4, <2>1 DEF RunBranch
  <2>3. Lookup(run.S, "cond") # Bool(TRUE) \/ run.v = Crash
    <3>1. CASE ~flow
      BY <1>5, <2>1, <2>2, <3>1
    <3>2. CASE flow /\ m.v = Crash
      BY <1>5, <3>2 DEF WithNext
    <3>3. CASE flow /\ m.v # Crash /\ c.next = <<>>
      <4>1. run = Ok(m.S)
        BY <1>5, <3>3 DEF WithNext
      <4>2. run.S = m.S
        BY <4>1 DEF Ok
      <4>3. QED
        BY <2>1, <2>2, <4>2
    <3>4. CASE flow /\ m.v # Crash /\ c.next # <<>>
      <4>1. PICK U : U = Reset(m.S, "next", c.next[1])
        OBVIOUS
      <4>2. run = Ok(U)
        BY <1>5, <2>1, <2>2, <3>4, <4>1, NewVariable DEF WithNext
      <4>3. Lookup(U, "cond") = Lookup(m.S, "cond")
        BY <2>1, <2>2, <4>1, ResetLooks
      <4>4. run.S = U
        BY <4>2 DEF Ok
      <4>5. QED
        BY <2>1, <2>2, <4>3, <4>4
    <3>5. QED
      BY <3>1, <3>2, <3>3, <3>4
  <2>4. QED
    BY <1>7, <1>12, <2>3
<1>13. QED
  BY <1>11, <1>12

-----------------------------------------------------------------------------
(* The output of a block.                                                  *)

\* Scopes with an output and a next, or without.
Given(T, R) ==
  \E U : /\ U = R \/ \E x : U = Reset(R, "output", x)
         /\ T = U \/ \E y : T = Reset(U, "next", y)

LEMMA GivenOutput ==
  ASSUME NEW R, Open(R), NEW x, NEW T,
         T = IF x = Absent THEN R ELSE MergeVar(R, "output", x)
  PROVE  /\ T = R \/ T = Reset(R, "output", x)
         /\ Listed(T) /\ 1 \in DOMAIN T /\ Free(T, "next")
         /\ Lookup(T, "output") = x
<1>1. Listed(R) /\ 1 \in DOMAIN R /\ Free(R, "output") /\ Free(R, "next")
  BY DEF Open
<1>2. CASE x = Absent
  BY <1>1, <1>2, LookupFree
<1>3. CASE x # Absent
  <2>1. T = Reset(R, "output", x)
    BY <1>1, <1>3, NewVariable
  <2>2. QED
    BY <1>1, <2>1, ResetLooks
<1>4. QED
  BY <1>2, <1>3

\* A variable that is set if a condition holds, and may be missing otherwise.
LEMMA NextAdded ==
  ASSUME NEW U, Listed(U), 1 \in DOMAIN U, Free(U, "next"), NEW set \in BOOLEAN, NEW y, NEW T,
         T = IF set THEN SetVar(U, "next", y) ELSE U
  PROVE  /\ T = U \/ T = Reset(U, "next", y)
         /\ Lookup(T, "output") = Lookup(U, "output")
         /\ Lookup(T, "next") = IF set THEN y ELSE Absent
<1>1. CASE set
  <2>1. T = Reset(U, "next", y)
    BY <1>1, NewVariable
  <2>2. QED
    BY <1>1, <2>1, ResetLooks
<1>2. CASE ~set
  BY <1>2, LookupFree
<1>3. QED
  BY <1>1, <1>2

LEMMA OutputIs ==
  ASSUME EmptyScopeIsNothing, NEW b, Chooses(b), OutputsAgree(b), NEW R, Open(R),
         NEW flow \in BOOLEAN, NEW o, o = Output(flow, b, Ok(R)), ~Bad(o.v), NEW is, is = Branches(flow, b, R)
  PROVE  /\ Given(o.S, R)
         /\ OutputMeant(b, Lookup(o.S, "output"), is, R)
         /\ flow => NextMeant(b, Lookup(o.S, "next"), is)
<1>1. PICK runs : runs = [i \in DOMAIN b.ifs |-> IfRun(flow, b.ifs[i], R)]
  OBVIOUS
<1>2. PICK deciding : deciding = {i \in DOMAIN runs : Decides(runs[i])}
  OBVIOUS
<1>3. Listed(R) /\ 1 \in DOMAIN R /\ Free(R, "output") /\ Free(R, "next")
  BY DEF Open
<1>4. DOMAIN runs = DOMAIN b.ifs /\ DOMAIN b.ifs \in SUBSET Nat
  BY <1>1 DEF Chooses, ListOf, Listed
<1>5. ~Bad(Ok(R).v) /\ Ok(R).S = R
  BY <1>3, OkRuns
<1>6. o = IF deciding # {} THEN Taken(flow, runs[Deciding(deciding)])
          ELSE Default(flow, b, MergeField(b.output, "output", Ok(R)))
  BY <1>1, <1>2, <1>5 DEF Output, Chosen
<1>7. ASSUME NEW i \in DOMAIN b.ifs
      PROVE  IF Holding(b.ifs[i], R) THEN BranchIs(runs[i], flow, b.ifs[i], R)
             ELSE runs[i].v = Crash \/ Lookup(runs[i].S, "cond") # Bool(TRUE)
  <2>1. Branching(b.ifs[i]) /\ KeysAgree(b.ifs[i].output)
    BY DEF Chooses, ListOf, OutputsAgree
  <2>2. runs[i] = IfRun(flow, b.ifs[i], R)
    BY <1>1
  <2>3. QED
    BY <2>1, <2>2, IfRunIs
<1>8. \A i : i \in is <=> /\ i \in DOMAIN b.ifs /\ Holding(b.ifs[i], R)
                          /\ flow \/ ~FailsIn(b.ifs[i], BranchScope(b.ifs[i], R))
  BY DEF Branches, Holding
<1>9. ~Bad(Null) /\ Null # Crash /\ Bad(Crash) /\ Bad(Failure) /\ Absent # Bool(TRUE)
  BY DEF Bad, Null, Crash, Failure, Bool, Absent
<1>10. is \subseteq deciding
  <2>1. ASSUME NEW i \in is
        PROVE  Decides(runs[i])
    <3>1. i \in DOMAIN b.ifs /\ BranchIs(runs[i], flow, b.ifs[i], R)
          /\ (flow \/ ~FailsIn(b.ifs[i], BranchScope(b.ifs[i], R)))
      BY <1>7, <1>8
    <3>2. QED
      BY <1>9, <3>1 DEF Decides, BranchIs
  <2>2. QED
    BY <1>2, <1>4, <1>8, <2>1
<1>11. CASE deciding = {}
  <2>1. is = {}
    BY <1>10, <1>11
  <2>2. PICK m : m = MergeField(b.output, "output", Ok(R))
    OBVIOUS
  <2>3. OutputFrom(m, b.output, R)
    BY <1>3, <2>2, OutputFieldIs DEF Chooses, OutputsAgree
  <2>4. o = Default(flow, b, m)
    BY <1>6, <1>11, <2>2
  <2>5. ~Bad(m.v)
    BY <2>4 DEF Default
  <2>6. o.S = IF flow /\ b.next # <<>> THEN SetVar(m.S, "next", b.next[1]) ELSE m.S
    <3>1. CASE ~flow \/ b.next = <<>>
      BY <2>4, <3>1 DEF Default
    <3>2. CASE flow /\ b.next # <<>>
      <4>1. o = With(m, b.next[1], SetVar(m.S, "next", b.next[1]))
        BY <2>4, <2>5, <3>2 DEF Default, SetTo
      <4>2. ~Bad(b.next[1])
        <5>1. Bad(b.next[1]) => o = [m EXCEPT !.v = b.next[1]]
          BY <2>5, <4>1 DEF With
        <5>2. [m EXCEPT !.v = b.next[1]].v = b.next[1]
          BY <2>3 DEF OutputFrom
        <5>3. QED
          BY <5>1, <5>2
      <4>3. o = Ok(SetVar(m.S, "next", b.next[1]))
        BY <2>5, <4>1, <4>2 DEF With
      <4>4. o.S = SetVar(m.S, "next", b.next[1])
        BY <4>3 DEF Ok
      <4>5. QED
        BY <3>2, <4>4
    <3>3. QED
      BY <3>1, <3>2
  <2>7. Free(m.S, "next") /\ Listed(m.S) /\ 1 \in DOMAIN m.S
    BY <1>3, <2>3 DEF OutputFrom
  <2>8. PICK set \in BOOLEAN : set <=> flow /\ b.next # <<>>
    <3>1. CASE flow /\ b.next # <<>>
      BY <3>1
    <3>2. CASE ~(flow /\ b.next # <<>>)
      BY <3>2
    <3>3. QED
      BY <3>1, <3>2
  <2>9. /\ o.S = m.S \/ o.S = Reset(m.S, "next", b.next[1])
        /\ Lookup(o.S, "output") = Lookup(m.S, "output")
        /\ Lookup(o.S, "next") = IF set THEN b.next[1] ELSE Absent
    BY <2>6, <2>7, <2>8, NextAdded
  <2>10. Given(o.S, R)
    BY <2>3, <2>9 DEF Given, OutputFrom
  <2>11. OutputMeant(b, Lookup(o.S, "output"), is, R)
    BY <2>1, <2>3, <2>5, <2>9 DEF OutputMeant, OutputFrom
  <2>12. flow => NextMeant(b, Lookup(o.S, "next"), is)
    BY <2>1, <2>8, <2>9 DEF NextMeant
  <2>13. QED
    BY <2>10, <2>11, <2>12
<1>12. CASE deciding # {}
  <2>1. PICK k : k = Deciding(deciding)
    OBVIOUS
  <2>2. k \in deciding /\ \A j \in deciding : k <= j
    <3>1. deciding \in SUBSET Nat
      BY <1>2, <1>4
    <3>2. \E i \in deciding : \A j \in deciding : i <= j
      BY <1>12, <3>1, LeastExists
    <3>3. QED
      BY <2>1, <3>2 DEF Deciding
  <2>3. k \in DOMAIN b.ifs /\ Decides(runs[k]) /\ k \in Nat
    BY <1>2, <1>4, <2>2
  <2>4. PICK run : run = runs[k]
    OBVIOUS
  <2>5. o = Taken(flow, run)
    BY <1>6, <1>12, <2>1, <2>4
  <2>6. run.v # Crash
    BY <1>9, <2>5 DEF Taken
  <2>7. Lookup(run.S, "cond") # Absent
    BY <1>9, <2>5, <2>6 DEF Taken
  <2>8. ~Bad(run.v) /\ Lookup(run.S, "cond") = Bool(TRUE)
    BY <2>3, <2>4, <2>6, <2>7 DEF Decides
  <2>9. Holding(b.ifs[k], R) /\ BranchIs(run, flow, b.ifs[k], R)
    BY <1>7, <2>3, <2>4, <2>6, <2>8
  <2>10. flow \/ ~FailsIn(b.ifs[k], BranchScope(b.ifs[k], R))
    BY <2>6, <2>8, <2>9 DEF BranchIs
  <2>11. run.v = Null
    BY <2>6, <2>9, <2>10 DEF BranchIs
  <2>12. k \in is
    BY <1>8, <2>3, <2>9, <2>10
  <2>13. FirstOf(is) = k
    <3>1. \A j \in is : k <= j /\ j \in Nat
      BY <1>4, <1>8, <1>10, <2>2
    <3>2. \E i \in is : \A j \in is : i <= j
      BY <2>12, <3>1
    <3>3. PICK l : l = FirstOf(is)
      OBVIOUS
    <3>4. l \in is /\ \A j \in is : l <= j
      BY <3>2, <3>3 DEF FirstOf
    <3>5. l <= k /\ k <= l
      BY <2>12, <3>1, <3>4
    <3>6. QED
      BY <2>3, <3>1, <3>3, <3>4, <3>5
  <2>14. /\ Tail(run.S) = R
         /\ BranchMeant(b.ifs[k], Lookup(run.S, "output"), BranchScope(b.ifs[k], R))
         /\ Lookup(run.S, "next") = IF flow /\ b.ifs[k].next # <<>> THEN b.ifs[k].next[1] ELSE Absent
    BY <2>6, <2>9, <2>11 DEF BranchIs
  <2>15. PICK x : x = Lookup(run.S, "output")
    OBVIOUS
  <2>16. PICK y : y = Lookup(run.S, "next")
    OBVIOUS
  <2>17. PICK U : U = IF x = Absent THEN R ELSE MergeVar(R, "output", x)
    OBVIOUS
  <2>18. PICK set \in BOOLEAN : set <=> flow /\ y # Absent
    <3>1. CASE flow /\ y # Absent
      BY <3>1
    <3>2. CASE ~(flow /\ y # Absent)
      BY <3>2
    <3>3. QED
      BY <3>1, <3>2
  <2>19. o.S = IF set THEN SetVar(U, "next", y) ELSE U
    <3>1. o = Ok(IF flow /\ y # Absent THEN SetVar(U, "next", y) ELSE U)
      BY <2>5, <2>6, <2>7, <2>14, <2>15, <2>16, <2>17 DEF Taken
    <3>2. QED
      BY <2>18, <3>1 DEF Ok
  <2>20. /\ U = R \/ U = Reset(R, "output", x)
         /\ Listed(U) /\ 1 \in DOMAIN U /\ Free(U, "next")
         /\ Lookup(U, "output") = x
    BY <2>17, GivenOutput
  <2>21. /\ o.S = U \/ o.S = Reset(U, "next", y)
         /\ Lookup(o.S, "output") = Lookup(U, "output")
         /\ Lookup(o.S, "next") = IF set THEN y ELSE Absent
    BY <2>19, <2>20, NextAdded
  <2>22. Given(o.S, R)
    BY <2>20, <2>21 DEF Given
  <2>23. OutputMeant(b, Lookup(o.S, "output"), is, R)
    <3>1. is # {}
      BY <2>12
    <3>2. QED
      BY <2>13, <2>14, <2>15, <2>20, <2>21, <3>1 DEF OutputMeant
  <2>24. flow => NextMeant(b, Lookup(o.S, "next"), is)
    <3>1. is # {}
      BY <2>12
    <3>2. flow => Lookup(o.S, "next") = IF b.ifs[k].next = <<>> THEN Absent ELSE b.ifs[k].next[1]
      BY <2>14, <2>16, <2>18, <2>21
    <3>3. QED
      BY <2>13, <3>1, <3>2 DEF NextMeant
  <2>25. QED
    BY <2>22, <2>23, <2>24
<1>13. QED
  BY <1>11, <1>12

-----------------------------------------------------------------------------
(* Answers.                                                                *)

\* Definitions decide nothing.
LEMMA OpenAfter ==
  ASSUME NEW kes, DefinesNoKeyword(kes), NEW R, Open(R), NEW d, d = Defined(kes, Ok(R))
  PROVE  Run(d) /\ Keeps(d.S, R) /\ Open(d.S)
<1>1. Listed(R) /\ 1 \in DOMAIN R /\ Run(Ok(R)) /\ Ok(R).S = R
  BY OkRuns DEF Open
<1>2. Run(d) /\ Keeps(d.S, R)
  BY <1>1, DefinedRuns
<1>3. {"cond", "output", "next"} \subseteq Preserved
  BY DEF Preserved, Keywords
<1>4. Open(d.S)
  <2> HIDE DEF Preserved
  <2>1. QED
    BY <1>1, <1>2, <1>3, KeptLooks DEF Open
<1>5. QED
  BY <1>2, <1>4

\* The scopes an answer is parsed in, after the definitions of its block.
AnswerScope(service, came, Q) ==
  Defined(service.response[1].def, Ok(<<[response |-> Received(service.kind, came)]>> \o Q)).S

LEMMA AnswerIs ==
  ASSUME EmptyScopeIsNothing, NEW service, NEW b, b = service.response[1], Chooses(b),
         b.include = <<>>, OutputsAgree(b), NEW Q, Open(Q), NEW came, NEW v,
         v = Response(service.kind, b, came, Q), ~Bad(v),
         NEW R, R = AnswerScope(service, came, Q), NEW is, is = Branches(FALSE, b, R)
  PROVE  OutputMeant(b, v, is, R)
<1>1. PICK x : x = Received(service.kind, came)
  OBVIOUS
<1> DEFINE a == [response |-> x]
<1>2. DOMAIN a = {"response"}
  OBVIOUS
<1>3. PICK C : C = <<a>> \o Q
  OBVIOUS
<1>4. PICK r : r = Defined(b.def, Ok(C))
  OBVIOUS
<1>5. R = r.S
  BY <1>1, <1>3, <1>4 DEF AnswerScope
<1>6. v = IF Bad(x) THEN x ELSE OutputOf(RunResponse(b, C))
  BY <1>1, <1>3 DEF Response
<1> HIDE DEF a
<1>7. PICK o : o = Output(FALSE, b, r)
  OBVIOUS
<1>8. RunResponse(b, C) = o
  BY <1>4, <1>7 DEF RunResponse
<1>9. v = OutputOf(o)
  BY <1>6, <1>8
<1>10. ~Bad(o.v) /\ v = Lookup(o.S, "output")
  <2>1. Bad(Failure)
    BY DEF Bad
  <2>2. QED
    BY <1>9, <2>1 DEF OutputOf
<1>11. Open(C)
  <2>1. Listed(Q) /\ Atop(C, a, Q)
    BY <1>3, OnTop DEF Open
  <2>2. QED
    BY <1>2, <2>1, AtopLooks DEF Open
<1>12. Run(r) /\ Open(r.S)
  BY <1>4, <1>11, OpenAfter DEF Chooses
<1>13. ~Bad(r.v)
  BY <1>7, <1>10 DEF Output
<1>14. o = Output(FALSE, b, Ok(R))
  <2>1. r = Ok(R)
    BY <1>5, <1>12, <1>13, RunOk
  <2>2. QED
    BY <1>7, <2>1
<1>15. PICK flow \in BOOLEAN : flow = FALSE
  OBVIOUS
<1>16. o = Output(flow, b, Ok(R)) /\ is = Branches(flow, b, R)
  BY <1>14, <1>15
<1>17. OutputMeant(b, Lookup(o.S, "output"), is, R)
  BY <1>5, <1>10, <1>12, <1>16, OutputIs
<1>18. QED
  BY <1>10, <1>17

-----------------------------------------------------------------------------
(* What is merged into nothing is there.                                   *)

MergesOnce == \A to, from : Merge(to, from) = MergedOnce(to, from)

Next2(v, p) == LET w == GetAt(v, p)
               IN  {Append(p, k) : k \in IF Is(w, "object") THEN DOMAIN w[2] ELSE {}}
Deeper(v, X) == UNION {Next2(v, p) : p \in X}
Deepening(v, f, N) == f = [n \in 0..N |-> IF n = 0 THEN {<<>>} ELSE Deeper(v, f[n - 1])]

LEMMA DeepeningExists ==
  ASSUME NEW v
  PROVE  \A N \in Nat : \E f : Deepening(v, f, N)
<1> DEFINE T == {N \in Nat : \E f : Deepening(v, f, N)}
<1>1. 0 \in T
  <2>1. Deepening(v, [n \in 0..0 |-> {<<>>}], 0)
    BY DEF Deepening
  <2>2. QED
    BY <2>1
<1>2. ASSUME NEW N \in T
      PROVE  N + 1 \in T
  <2>1. PICK f : Deepening(v, f, N)
    OBVIOUS
  <2> DEFINE g == [n \in 0..N + 1 |-> IF n = N + 1 THEN Deeper(v, f[N]) ELSE f[n]]
  <2>2. \A n \in 0..N : g[n] = f[n] /\ f[n] = IF n = 0 THEN {<<>>} ELSE Deeper(v, f[n - 1])
    <3>1. ASSUME NEW n \in 0..N
          PROVE  f[n] = IF n = 0 THEN {<<>>} ELSE Deeper(v, f[n - 1])
      BY <2>1 DEF Deepening
    <3>2. \A n \in 0..N : n \in 0..N + 1 /\ n # N + 1
      OBVIOUS
    <3>3. \A n \in 0..N : g[n] = f[n]
      BY <3>2
    <3> HIDE DEF g
    <3>4. QED
      BY <3>1, <3>3
  <2>3. \A n \in 0..N + 1 : g[n] = IF n = 0 THEN {<<>>} ELSE Deeper(v, g[n - 1])
    <3>1. ASSUME NEW n \in 0..N + 1
          PROVE  g[n] = IF n = 0 THEN {<<>>} ELSE Deeper(v, g[n - 1])
      <4>1. CASE n = N + 1
        <5>1. g[n] = Deeper(v, f[N]) /\ n - 1 = N /\ n # 0 /\ N \in 0..N
          BY <4>1
        <5>2. g[N] = f[N]
          BY <2>2, <5>1
        <5> HIDE DEF g
        <5>3. QED
          BY <4>1, <5>1, <5>2
      <4>2. CASE n # N + 1
        <5>1. n \in 0..N /\ (n # 0 => n - 1 \in 0..N)
          BY <4>2
        <5> HIDE DEF g
        <5>2. QED
          BY <2>2, <5>1
      <4>3. QED
        BY <4>1, <4>2
    <3>2. QED
      BY <3>1
  <2>4. g = [n \in 0..N + 1 |-> g[n]]
    OBVIOUS
  <2>5. Deepening(v, g, N + 1)
    <3> HIDE DEF g
    <3>1. QED
      BY <2>3, <2>4 DEF Deepening
  <2>6. QED
    BY <2>5
<1>3. T = Nat
  <2> HIDE DEF T
  <2>1. T \in SUBSET Nat
    BY DEF T
  <2>2. QED
    BY <1>1, <1>2, <2>1, AllNaturals
<1>4. QED
  BY <1>3

LEMMA MemberPathsAre ==
  ASSUME NEW v, NEW N \in Nat
  PROVE  \E f : Deepening(v, f, N) /\ MemberPaths(v, N) = f[N]
<1> DEFINE deep == CHOOSE f : Deepening(v, f, N)
<1>1. Deepening(v, deep, N)
  BY DeepeningExists
<1>2. MemberPaths(v, N) = deep[N]
  BY DEF MemberPaths, Deepening, Deeper, Next2
<1>3. QED
  BY <1>1, <1>2

\* Two objects with the same members have the same at the end of every path.
LEMMA SameMembers ==
  ASSUME NEW v, NEW doc, Is(v, "object"), Is(doc, "object"),
         \A k \in DOMAIN v[2] : k \in DOMAIN doc[2] /\ doc[2][k] = v[2][k]
  PROVE  Includes(doc, v)
<1> DEFINE Path(p) == \E T : p \in Seq(T)
           Found(p) == Path(p) /\ (p = <<>> \/ GetAt(doc, p) = GetAt(v, p))
<1>1. ASSUME NEW p, Found(p), Is(GetAt(v, p), "object"), NEW k \in DOMAIN GetAt(v, p)[2]
      PROVE  Found(Append(p, k))
  <2>1. PICK T : p \in Seq(T)
    BY <1>1
  <2> DEFINE U == T \cup {k}
  <2>2. p \in Seq(U) /\ k \in U
    <3>1. T \in SUBSET U /\ k \in U
      OBVIOUS
    <3> HIDE DEF U
    <3>2. QED
      BY <2>1, <3>1
  <2> HIDE DEF U
  <2>3. /\ GetAt(v, Append(p, k)) = Below(GetAt(v, p), k)
        /\ GetAt(doc, Append(p, k)) = Below(GetAt(doc, p), k)
    BY <2>2, GetAtNext
  <2>4. Append(p, k) \in Seq(U)
    BY <2>2
  <2>5. Below(GetAt(v, p), k) = Below(GetAt(doc, p), k)
    <3>1. CASE p = <<>>
      <4>1. GetAt(v, p) = v /\ GetAt(doc, p) = doc
        BY <3>1, GetAtNowhere
      <4>2. k \in DOMAIN v[2]
        BY <1>1, <4>1
      <4>3. Below(v, k) = v[2][k]
        BY <4>2 DEF Below, Is
      <4>4. Below(doc, k) = doc[2][k]
        BY <4>2 DEF Below, Is
      <4>5. QED
        BY <4>1, <4>2, <4>3, <4>4
    <3>2. CASE p # <<>>
      BY <1>1, <3>2
    <3>3. QED
      BY <3>1, <3>2
  <2>6. QED
    BY <2>3, <2>4, <2>5
<1>2. Found(<<>>)
  <2>1. <<>> \in Seq({})
    OBVIOUS
  <2>2. QED
    BY <2>1
<1> HIDE DEF Found
<1>3. ASSUME NEW N \in Nat, NEW p \in MemberPaths(v, N)
      PROVE  Found(p)
  <2>1. PICK f : Deepening(v, f, N) /\ MemberPaths(v, N) = f[N]
    BY MemberPathsAre
  <2> DEFINE T == {n \in Nat : n <= N => \A q \in f[n] : Found(q)}
  <2>2. f[0] = {<<>>} /\ \A n \in 1..N : f[n] = UNION {Next2(v, q) : q \in f[n - 1]}
    BY <2>1 DEF Deepening, Deeper
  <2>3. 0 \in T
    BY <1>2, <2>2
  <2>4. ASSUME NEW n \in T
        PROVE  n + 1 \in T
    <3> SUFFICES ASSUME n + 1 <= N, NEW q \in f[n + 1]
                 PROVE  Found(q)
      OBVIOUS
    <3>1. n + 1 \in 1..N /\ (n + 1) - 1 = n /\ n <= N
      OBVIOUS
    <3>2. \A u \in f[n] : Found(u)
      BY <3>1
    <3>3. PICK u \in f[n] : q \in Next2(v, u)
      BY <2>2, <3>1
    <3>4. PICK w : w = GetAt(v, u)
      OBVIOUS
    <3>5. Is(w, "object") /\ \E k \in DOMAIN w[2] : q = Append(u, k)
      BY <3>3, <3>4 DEF Next2
    <3>6. QED
      BY <1>1, <3>2, <3>4, <3>5
  <2>5. T = Nat
    <3> HIDE DEF T
    <3>1. T \in SUBSET Nat
      BY DEF T
    <3>2. QED
      BY <2>3, <2>4, <3>1, AllNaturals
  <2>6. N \in T /\ N <= N
    BY <2>5
  <2>7. QED
    BY <2>1, <2>6
<1>4. ASSUME NEW p, Found(p)
      PROVE  Agree(GetAt(doc, p), GetAt(v, p))
  <2>1. CASE p = <<>>
    <3>1. GetAt(v, p) = v /\ GetAt(doc, p) = doc
      BY <2>1, GetAtNowhere
    <3>2. QED
      BY <3>1 DEF Agree
  <2>2. CASE p # <<>>
    <3>1. GetAt(doc, p) = GetAt(v, p)
      BY <1>4, <2>2 DEF Found
    <3>2. QED
      BY <3>1 DEF Agree
  <2>3. QED
    BY <2>1, <2>2
<1>5. QED
  BY <1>3, <1>4, DepthAssumption DEF Includes

LEMMA MergedIntoNothing ==
  ASSUME MergesOnce, NEW v, Is(v, "object")
  PROVE  Includes(Merge(Obj(<<>>), v), v)
<1>1. PICK doc : doc = MergedOnce(Obj(<<>>), v)
  OBVIOUS
<1>2. DOMAIN Obj(<<>>)[2] = {} /\ Is(Obj(<<>>), "object")
  BY DEF Obj, Is
<1>3. doc = Obj([k \in DOMAIN Obj(<<>>)[2] \cup DOMAIN v[2] |->
                   IF k \notin DOMAIN Obj(<<>>)[2] THEN v[2][k]
                   ELSE IF k \notin DOMAIN v[2] THEN Obj(<<>>)[2][k]
                   ELSE IF Is(Obj(<<>>)[2][k], "object") /\ Is(v[2][k], "object")
                        THEN Merge(Obj(<<>>)[2][k], v[2][k])
                   ELSE v[2][k]])
  BY <1>1, <1>2 DEF MergedOnce
<1>4. doc[2] = [k \in DOMAIN v[2] |-> v[2][k]] /\ Is(doc, "object")
  BY <1>2, <1>3 DEF Obj, Is
<1>5. Includes(doc, v)
  BY <1>4, SameMembers
<1>6. QED
  BY <1>1, <1>5 DEF MergesOnce

-----------------------------------------------------------------------------
(* The scopes of a node.                                                   *)

Shape(R) ==
  /\ Listed(R) /\ Len(R) = 2 /\ Functional(R[1]) /\ Functional(R[2])
  /\ DOMAIN R[2] = {"request", "backend", "result"}
  /\ R[2]["backend"] = Obj(R[2]["backend"][2]) /\ Functional(R[2]["backend"][2])

Cut(R, names) ==
  [R EXCEPT ![2].backend = Obj([x \in DOMAIN @[2] \cap names |-> @[2][x]])]

LEMMA BeforeAnswerIs == \A i : BeforeAnswer(i) = Cut(S, Earlier(i))
BY DEF BeforeAnswer, Cut

\* The request's scope with another value of a variable.
IsWith(T, R, x, v) ==
  /\ Listed(T) /\ Len(T) = 2 /\ T[1] = R[1] /\ DOMAIN T = DOMAIN R /\ Functional(T[2])
  /\ DOMAIN T[2] = DOMAIN R[2] /\ T[2][x] = v
  /\ \A y \in DOMAIN R[2] : y # x => T[2][y] = R[2][y]

LEMMA FieldSet ==
  ASSUME NEW R, Shape(R), NEW x \in {"backend", "result"}, NEW v, NEW T,
         T = [R EXCEPT ![2] = [@ EXCEPT ![x] = v]]
  PROVE  IsWith(T, R, x, v)
<1>1. R = [i \in 1..2 |-> R[i]] /\ Len(R) = 2 /\ DOMAIN R = 1..2
  BY DEF Shape, Listed
<1>2. PICK u : u = [R[2] EXCEPT ![x] = v]
  OBVIOUS
<1>3. T = [i \in 1..2 |-> IF i = 2 THEN u ELSE R[i]]
  BY <1>1, <1>2
<1>4. DOMAIN T = 1..2 /\ T[1] = R[1] /\ T[2] = u
  BY <1>3
<1>5. Len(T) = 2
  BY <1>4
<1>6. Listed(T)
  <2>1. T = [i \in 1..2 |-> T[i]]
    BY <1>3
  <2>2. PICK N : N = Len(T)
    OBVIOUS
  <2>3. N = 2
    BY <1>5, <2>2
  <2>4. T = [i \in 1..N |-> T[i]]
    BY <2>1, <2>3
  <2>5. N \in Nat
    BY <2>3
  <2>6. QED
    BY <2>2, <2>4, <2>5 DEF Listed
<1>7. R[2] = [y \in DOMAIN R[2] |-> R[2][y]] /\ x \in DOMAIN R[2]
  BY DEF Shape, Functional
<1>8. u = [y \in DOMAIN R[2] |-> IF y = x THEN v ELSE R[2][y]]
  BY <1>2, <1>7
<1>9. Functional(u) /\ DOMAIN u = DOMAIN R[2] /\ u[x] = v /\ \A y \in DOMAIN R[2] : y # x => u[y] = R[2][y]
  BY <1>7, <1>8 DEF Functional
<1>10. QED
  BY <1>1, <1>4, <1>5, <1>6, <1>9 DEF IsWith

LEMMA ShapesEqual ==
  ASSUME NEW R, NEW T, Listed(R), Len(R) = 2, Listed(T), Len(T) = 2, R[1] = T[1],
         Functional(R[2]), Functional(T[2]), DOMAIN R[2] = DOMAIN T[2],
         \A y \in DOMAIN R[2] : R[2][y] = T[2][y]
  PROVE  R = T
<1>1. R[2] = T[2]
  BY DEF Functional
<1>2. \A i \in 1..Len(R) : R[i] = T[i]
  BY <1>1
<1>3. QED
  BY <1>2, ListsEqual

\* What holds of the first answers holds when another is there.
IsAdded(T, R, name, v) ==
  /\ Shape(T) /\ T[1] = R[1] /\ T[2]["result"] = R[2]["result"]
  /\ DOMAIN T[2]["backend"][2] = DOMAIN R[2]["backend"][2] \cup {name}
  /\ T[2]["backend"][2][name] = v
  /\ \A x \in DOMAIN R[2]["backend"][2] : T[2]["backend"][2][x] = R[2]["backend"][2][x]
  /\ \A names : name \notin names => Cut(T, names) = Cut(R, names)
  /\ \A names : name \notin names /\ DOMAIN R[2]["backend"][2] \subseteq names
                  => Cut(T, names) = R

LEMMA AnswerAdded ==
  ASSUME NEW R, Shape(R), NEW name, NEW v, name \notin DOMAIN R[2]["backend"][2],
         NEW T, T = [R EXCEPT ![2].backend =
                       Obj([x \in DOMAIN @[2] \cup {name} |-> IF x \in DOMAIN @[2] THEN @[2][x] ELSE v])]
  PROVE  IsAdded(T, R, name, v)
<1>1. PICK f : f = R[2]["backend"][2]
  OBVIOUS
<1>2. PICK g : g = [x \in DOMAIN f \cup {name} |-> IF x \in DOMAIN f THEN f[x] ELSE v]
  OBVIOUS
<1>4. T = [R EXCEPT ![2] = [@ EXCEPT !["backend"] = Obj(g)]]
  BY <1>1, <1>2
<1>5. /\ Listed(T) /\ Len(T) = 2 /\ T[1] = R[1] /\ DOMAIN T = DOMAIN R /\ Functional(T[2])
      /\ DOMAIN T[2] = DOMAIN R[2] /\ T[2]["backend"] = Obj(g)
      /\ \A y \in DOMAIN R[2] : y # "backend" => T[2][y] = R[2][y]
  <2>1. IsWith(T, R, "backend", Obj(g))
    BY <1>4, FieldSet
  <2>2. QED
    BY <2>1 DEF IsWith
<1>6. Obj(g)[2] = g /\ Functional(g)
  BY <1>2 DEF Obj, Functional
<1>7. Shape(T)
  BY <1>5, <1>6 DEF Shape
<1>8. DOMAIN R[2] = {"request", "backend", "result"} /\ Functional(f) /\ R[2]["backend"] = Obj(f)
  BY <1>1 DEF Shape
<1>9. DOMAIN g = DOMAIN f \cup {name} /\ g[name] = v /\ \A x \in DOMAIN f : g[x] = f[x]
  BY <1>1, <1>2
<1>10. ASSUME NEW names
       PROVE  \E h : /\ h = [x \in DOMAIN f \cap names |-> f[x]]
                     /\ Cut(R, names) = [R EXCEPT ![2] = [@ EXCEPT !["backend"] = Obj(h)]]
                     /\ name \notin names =>
                          Cut(T, names) = [T EXCEPT ![2] = [@ EXCEPT !["backend"] = Obj(h)]]
  <2>1. PICK h : h = [x \in DOMAIN f \cap names |-> f[x]]
    OBVIOUS
  <2>2. Cut(R, names) = [R EXCEPT ![2] = [@ EXCEPT !["backend"] = Obj(h)]]
    BY <1>1, <2>1 DEF Cut
  <2>3. ASSUME name \notin names
        PROVE  Cut(T, names) = [T EXCEPT ![2] = [@ EXCEPT !["backend"] = Obj(h)]]
    <3>1. DOMAIN g \cap names = DOMAIN f \cap names
      BY <1>9, <2>3
    <3>2. [x \in DOMAIN g \cap names |-> g[x]] = h
      BY <1>9, <2>1, <3>1
    <3>3. T[2]["backend"][2] = g
      BY <1>5, <1>6
    <3>4. PICK e : e = [x \in DOMAIN T[2]["backend"][2] \cap names |-> T[2]["backend"][2][x]]
      OBVIOUS
    <3>5. Cut(T, names) = [T EXCEPT ![2] = [@ EXCEPT !["backend"] = Obj(e)]]
      BY <3>4 DEF Cut
    <3>6. e = h
      <4>1. e = [x \in DOMAIN g \cap names |-> g[x]]
        BY <3>3, <3>4
      <4>2. QED
        BY <3>2, <4>1
    <3>7. QED
      BY <3>5, <3>6
  <2>4. QED
    BY <2>1, <2>2, <2>3
<1>11. ASSUME NEW names, name \notin names
       PROVE  /\ Cut(T, names) = Cut(R, names)
              /\ DOMAIN f \subseteq names => Cut(T, names) = R
  <2>7. PICK h :
           /\ h = [x \in DOMAIN f \cap names |-> f[x]]
           /\ Cut(R, names) = [R EXCEPT ![2] = [@ EXCEPT !["backend"] = Obj(h)]]
           /\ Cut(T, names) = [T EXCEPT ![2] = [@ EXCEPT !["backend"] = Obj(h)]]
    BY <1>10, <1>11
  <2>8. PICK U : U = Cut(R, names)
    OBVIOUS
  <2>9. PICK V : V = Cut(T, names)
    OBVIOUS
  <2>1. /\ h = [x \in DOMAIN f \cap names |-> f[x]]
        /\ U = Cut(R, names) /\ U = [R EXCEPT ![2] = [@ EXCEPT !["backend"] = Obj(h)]]
        /\ V = Cut(T, names) /\ V = [T EXCEPT ![2] = [@ EXCEPT !["backend"] = Obj(h)]]
    BY <2>7, <2>8, <2>9
  <2>2. /\ Listed(U) /\ Len(U) = 2 /\ U[1] = R[1] /\ Functional(U[2])
        /\ DOMAIN U[2] = DOMAIN R[2] /\ U[2]["backend"] = Obj(h)
        /\ \A y \in DOMAIN R[2] : y # "backend" => U[2][y] = R[2][y]
    <3>1. IsWith(U, R, "backend", Obj(h))
      BY <2>1, FieldSet
    <3>2. QED
      BY <3>1 DEF IsWith
  <2>3. /\ Listed(V) /\ Len(V) = 2 /\ V[1] = T[1] /\ Functional(V[2])
        /\ DOMAIN V[2] = DOMAIN T[2] /\ V[2]["backend"] = Obj(h)
        /\ \A y \in DOMAIN T[2] : y # "backend" => V[2][y] = T[2][y]
    <3>1. IsWith(V, T, "backend", Obj(h))
      BY <1>7, <2>1, FieldSet
    <3>2. QED
      BY <3>1 DEF IsWith
  <2>4. U = V
    BY <1>5, <2>2, <2>3, ShapesEqual
  <2>5. ASSUME DOMAIN f \subseteq names
        PROVE  U = R
    <3>1. h = f
      <4>1. DOMAIN f \cap names = DOMAIN f
        BY <2>5
      <4>2. QED
        BY <1>8, <2>1, <4>1 DEF Functional
    <3>2. \A y \in DOMAIN R[2] : U[2][y] = R[2][y]
      BY <1>8, <2>2, <3>1
    <3>3. QED
      BY <2>2, <3>2, ShapesEqual DEF Shape
  <2>6. QED
    BY <2>1, <2>4, <2>5
<1>12. QED
  <2>1. T[2]["result"] = R[2]["result"] /\ T[2]["backend"][2] = g
    BY <1>5, <1>6, <1>8
  <2>2. /\ \A names : name \notin names => Cut(T, names) = Cut(R, names)
        /\ \A names : name \notin names /\ DOMAIN R[2]["backend"][2] \subseteq names
                        => Cut(T, names) = R
    BY <1>1, <1>11
  <2>3. QED
    BY <1>1, <1>5, <1>7, <1>9, <2>1, <2>2 DEF IsAdded

-----------------------------------------------------------------------------
(* Answers and outputs are those of the branches that count.               *)

\* The answer of a service is the one that is meant; the node's output and next are.
AnswerHeld(i) ==
  LET service == setup.services[i]
  IN  /\ service.name \in ToSet(answered) \ Earlier(i)
      /\ service.response # <<>> /\ service.response[1].include = <<>>
      => AnswerMeant(service, Came(i), BeforeAnswer(i))
OutputHeld ==
  LET output == Lookup(S, "output")
  IN  /\ \A is \in {Branches(TRUE, setup, BeforeOutput)} :
           /\ OutputMeant(setup, output, is, BeforeOutput)
           /\ NextMeant(setup, Lookup(S, "next"), is)
      /\ Is(output, "object") => Includes(S[2].result, output)

\* The inductive invariant: the scopes are a node's and the request's, nothing is decided
\* before the end, `backend' has the answers of services parsed before, each as meant.
ScopesHeld ==
  /\ setup \in Setups
  /\ pc \notin Final =>
       /\ Shape(S) /\ Open(S) /\ S[2]["result"] = Obj(<<>>)
       /\ DOMAIN S[2]["backend"][2] = ToSet(answered) /\ Listed(answered)
  /\ pc \in {"define", "build"} => answered = <<>>
  /\ pc = "define" => at = 1
  /\ pc \in {"build", "parse"} => at \in DOMAIN setup.services
  /\ pc = "parse" => ToSet(answered) \subseteq Earlier(at) /\ \A i \in 1..at - 1 : AnswerHeld(i)
AllHeld ==
  /\ ScopesHeld
  /\ pc = "recalled" => \A i \in DOMAIN setup.services : AnswerHeld(i)
  /\ pc = "done" => OutputHeld

LEMMA HeldIsConfigured == AllHeld => OutputAsConfigured
BY DEF AllHeld, AnswerHeld, OutputHeld, OutputAsConfigured

LEMMA SetupFacts ==
  ASSUME setup \in Setups
  PROVE  /\ Chooses(setup) /\ DefinesNoKeyword(setup.def)
         /\ Listed(setup.services) /\ Len(setup.services) \in Nat
         /\ DOMAIN setup.services = 1..Len(setup.services)
         /\ \A i \in DOMAIN setup.services : Serves(setup.services[i])
         /\ setup.services # <<>> => 1 \in DOMAIN setup.services
<1>1. Chooses(setup) /\ ListOf(setup.services, Serves)
  BY SetupAssumption
<1>2. DefinesNoKeyword(setup.def)
  BY <1>1 DEF Chooses
<1>3. /\ Listed(setup.services) /\ Len(setup.services) \in Nat
      /\ DOMAIN setup.services = 1..Len(setup.services)
      /\ \A i \in DOMAIN setup.services : Serves(setup.services[i])
  BY <1>1 DEF ListOf, Listed
<1>4. setup.services # <<>> => 1 \in DOMAIN setup.services
  <2>1. setup.services = [i \in 1..Len(setup.services) |-> setup.services[i]]
    BY <1>3 DEF Listed
  <2>2. Len(setup.services) = 0 => setup.services = <<>>
    BY <2>1
  <2>3. QED
    BY <1>3, <2>2
<1>5. QED
  BY <1>1, <1>2, <1>3, <1>4

LEMMA NothingAnswered == Listed(<<>>) /\ ToSet(<<>>) = {}
BY DEF Listed, ToSet

LEMMA InitHeld == ASSUME Init PROVE AllHeld
<1>1. PICK scope : scope = [request |-> setup.request, backend |-> Obj(<<>>), result |-> Obj(<<>>)]
  OBVIOUS
<1>2. /\ DOMAIN scope = {"request", "backend", "result"} /\ Functional(scope)
      /\ scope["backend"] = Obj(<<>>) /\ scope["result"] = Obj(<<>>)
  BY <1>1 DEF Functional
<1>3. PICK none : none = <<>>
  OBVIOUS
<1>4. Functional(none) /\ DOMAIN none = {} /\ Obj(<<>>)[2] = none
  BY <1>3 DEF Functional, Obj
<1>5. S = <<none, scope>>
  BY <1>1, <1>3 DEF Init
<1>6. Listed(S) /\ Len(S) = 2 /\ DOMAIN S = 1..2 /\ S[1] = none /\ S[2] = scope
  BY <1>5 DEF Listed
<1>7. Shape(S)
  BY <1>2, <1>3, <1>4, <1>6 DEF Shape
<1>8. Open(S)
  <2>1. \A i \in DOMAIN S : i = 1 \/ i = 2
    BY <1>6
  <2>2. QED
    BY <1>2, <1>4, <1>6, <2>1 DEF Open, Free
<1>9. DOMAIN S[2]["backend"][2] = ToSet(answered) /\ Listed(answered)
  BY <1>2, <1>4, <1>6, NothingAnswered DEF Init
<1>10. S[2]["result"] = Obj(<<>>)
  BY <1>2, <1>6
<1>11. QED
  BY <1>7, <1>8, <1>9, <1>10 DEF Init, AllHeld, ScopesHeld

\* Scopes of which only the innermost is changed.
LEMMA ShapeKept ==
  ASSUME NEW R, Shape(R), NEW T, Listed(T), Len(T) = Len(R), T[2] = R[2], Functional(T[1])
  PROVE  Shape(T)
BY DEF Shape

LEMMA DefineHeld == ASSUME AllHeld, Define PROVE AllHeld'
<1>1. PICK r : /\ r = Defined(setup.def, Defined(setup.def, Ok(S))) /\ S' = r.S
               /\ pc' = Outcome(r.v, IF setup.services = <<>> THEN "recalled" ELSE "build")
  BY DEF Define
<1>2. /\ pc = "define" /\ UNCHANGED <<setup, at, answered>>
      /\ setup \in Setups /\ at = 1 /\ answered = <<>> /\ Shape(S) /\ Open(S)
      /\ S[2]["result"] = Obj(<<>>) /\ DOMAIN S[2]["backend"][2] = ToSet(answered)
  BY DEF Define, AllHeld, ScopesHeld, Final
<1>3. PICK q : q = Defined(setup.def, Ok(S))
  OBVIOUS
<1>4. Run(q) /\ Keeps(q.S, S) /\ Open(q.S)
  BY <1>2, <1>3, SetupFacts, OpenAfter
<1>5. Run(r) /\ Keeps(r.S, q.S)
  BY <1>1, <1>2, <1>3, <1>4, SetupFacts, DefinedRuns
<1>6. Keeps(r.S, S) /\ Listed(S) /\ 1 \in DOMAIN S /\ 2 \in DOMAIN S /\ Len(S) = 2
  <2>1. Listed(S) /\ 1 \in DOMAIN S /\ Len(S) = 2 /\ 2 \in DOMAIN S
    BY <1>2 DEF Open, Shape, Listed
  <2>2. QED
    BY <1>4, <1>5, <2>1, KeepsOn
<1>7. Shape(r.S) /\ r.S[2] = S[2]
  <2>1. Listed(r.S) /\ Len(r.S) = Len(S) /\ r.S[2] = S[2] /\ Functional(r.S[1])
    BY <1>2, <1>6 DEF Keeps, Shape
  <2>2. QED
    BY <1>2, <2>1, ShapeKept
<1>8. Open(r.S)
  <2>1. {"cond", "output", "next"} \subseteq Preserved
    BY DEF Preserved, Keywords
  <2> HIDE DEF Preserved
  <2>2. QED
    BY <1>2, <1>6, <2>1, KeptLooks DEF Open
<1>9. pc' \in {"recalled", "build", "crashed", "failed"}
      /\ (pc' = "recalled" => setup.services = <<>>) /\ (pc' = "build" => setup.services # <<>>)
  BY <1>1 DEF Outcome
<1>10. ScopesHeld'
  BY <1>1, <1>2, <1>7, <1>8, <1>9, SetupFacts, NothingAnswered DEF ScopesHeld, Final
<1>11. pc' = "recalled" => DOMAIN setup'.services = {}
  <2>1. pc' = "recalled" => setup'.services = <<>>
    BY <1>2, <1>9
  <2>2. QED
    BY <2>1
<1>12. QED
  BY <1>9, <1>10, <1>11 DEF AllHeld

LEMMA BuildHeld == ASSUME AllHeld, Build PROVE AllHeld'
<1>1. /\ pc = "build" /\ UNCHANGED <<setup, S, answered>>
      /\ setup \in Setups /\ answered = <<>> /\ Shape(S) /\ Open(S) /\ at \in DOMAIN setup.services
      /\ S[2]["result"] = Obj(<<>>) /\ DOMAIN S[2]["backend"][2] = ToSet(answered)
  BY DEF Build, AllHeld, ScopesHeld, Final
<1>2. /\ pc' \in {"crashed", "parse", "build"}
      /\ pc' = "parse" => at = Len(setup.services)
      /\ pc' = "build" => at # Len(setup.services)
      /\ at' = IF at = Len(setup.services) THEN 1 ELSE at + 1
  BY DEF Build
<1>3. DOMAIN setup.services = 1..Len(setup.services) /\ Len(setup.services) \in Nat
  BY <1>1, SetupFacts
<1>4. at' \in DOMAIN setup.services /\ (pc' = "parse" => at' = 1)
  BY <1>1, <1>2, <1>3
<1>5. pc' = "parse" => 1..at' - 1 = {}
  BY <1>4
<1>6. ToSet(answered) = {}
  BY <1>1, NothingAnswered
<1>7. ScopesHeld'
  BY <1>1, <1>2, <1>4, <1>5, <1>6, NothingAnswered DEF ScopesHeld, Final
<1>8. QED
  BY <1>2, <1>7 DEF AllHeld

\* What an answer has to be, whatever the state.
AnswerMeans(service, came, Q, v) ==
  \A R \in {AnswerScope(service, came, Q)} :
    \A is \in {Branches(FALSE, service.response[1], R)} :
      OutputMeant(service.response[1], v, is, R)
Told(service) == service.response # <<>> /\ service.response[1].include = <<>>

LEMMA AnswerHeldIs ==
  ASSUME NEW i
  PROVE  AnswerHeld(i) <=>
           (setup.services[i].name \in ToSet(answered) \ Earlier(i) /\ Told(setup.services[i])
            => AnswerMeans(setup.services[i], Came(i), Cut(S, Earlier(i)),
                           S[2]["backend"][2][setup.services[i].name]))
BY DEF AnswerHeld, AnswerMeant, AnswerMeans, AnswerScope, BeforeAnswer, Cut, Told

LEMMA AnswerHeldAfterwards ==
  ASSUME NEW i, UNCHANGED <<setup, sent>>
  PROVE  AnswerHeld(i)' <=>
           (setup.services[i].name \in ToSet(answered') \ Earlier(i) /\ Told(setup.services[i])
            => AnswerMeans(setup.services[i], Came(i), Cut(S', Earlier(i)),
                           S'[2]["backend"][2][setup.services[i].name]))
<1>1. Earlier(i)' = Earlier(i) /\ Came(i)' = Came(i)
  BY DEF Earlier, Came
<1>2. AnswerHeld(i)' <=>
        (setup.services[i].name \in ToSet(answered') \ Earlier(i)' /\ Told(setup.services[i])
         => AnswerMeans(setup.services[i], Came(i)', Cut(S', Earlier(i)'),
                        S'[2]["backend"][2][setup.services[i].name]))
  BY DEF AnswerHeld, AnswerMeant, AnswerMeans, AnswerScope, BeforeAnswer, Cut, Told
<1>3. QED
  BY <1>1, <1>2

LEMMA ParseHeld ==
  ASSUME EmptyScopeIsNothing, AllAgree, NamesDiffer, AllHeld, Parse
  PROVE  AllHeld'
<1>1. PICK service : service = setup.services[at]
  OBVIOUS
<1>2. PICK name : name = service.name
  OBVIOUS
<1>3. PICK v : v = Parsed(at)
  OBVIOUS
<1>4. /\ pc = "parse" /\ UNCHANGED <<setup, sent>> /\ at' = at + 1
      /\ IF Bad(v) THEN UNCHANGED <<S, answered>>
         ELSE /\ S' = [S EXCEPT ![2].backend =
                         Obj([x \in DOMAIN @[2] \cup {name} |-> IF x \in DOMAIN @[2] THEN @[2][x] ELSE v])]
              /\ answered' = Append(answered, name)
      /\ pc' = IF v = Crash THEN "crashed" ELSE IF at = Len(setup.services) THEN "recalled" ELSE "parse"
  BY <1>1, <1>2, <1>3 DEF Parse
<1>5. /\ setup \in Setups /\ Shape(S) /\ Open(S) /\ S[2]["result"] = Obj(<<>>)
      /\ DOMAIN S[2]["backend"][2] = ToSet(answered) /\ Listed(answered)
      /\ at \in DOMAIN setup.services /\ ToSet(answered) \subseteq Earlier(at)
      /\ \A i \in 1..at - 1 : AnswerHeld(i)
  BY <1>4 DEF AllHeld, ScopesHeld, Final
<1>6. DOMAIN setup.services = 1..Len(setup.services) /\ Len(setup.services) \in Nat
      /\ Serves(service)
  BY <1>1, <1>5, SetupFacts
<1>7. at \in Nat /\ at \in 1..Len(setup.services)
  BY <1>5, <1>6
<1>8. \A i \in 1..at : i \in DOMAIN setup.services /\ (i = at \/ i \in 1..at - 1)
  BY <1>6, <1>7
<1>9. \A i, j \in DOMAIN setup.services : setup.services[i].name = setup.services[j].name => i = j
  BY <1>5 DEF NamesDiffer
<1>10. \A i \in 1..at - 1 : i # at /\ i \in 1..at
  BY <1>7
<1>11. name \notin Earlier(at)
  BY <1>1, <1>2, <1>5, <1>8, <1>9, <1>10 DEF Earlier
<1>12. \A i \in 1..at : name \notin Earlier(i)
  <2>1. \A i \in 1..at : \A j \in 1..i - 1 : j \in 1..at - 1
    BY <1>7
  <2>2. QED
    BY <1>11, <2>1 DEF Earlier
<1>13. Listed(answered') /\ ToSet(answered') \subseteq ToSet(answered) \cup {name}
       /\ DOMAIN S'[2]["backend"][2] = ToSet(answered')
       /\ Shape(S') /\ Open(S') /\ S'[2]["result"] = Obj(<<>>)
       /\ \A i \in 1..at : AnswerHeld(i)'
  <2>1. CASE Bad(v)
    <3>1. UNCHANGED <<S, answered>>
      BY <1>4, <2>1
    <3>2. ASSUME NEW i \in 1..at
          PROVE  AnswerHeld(i)'
      <4>1. CASE i = at
        <5>1. setup.services[i].name \notin ToSet(answered')
          BY <1>1, <1>2, <1>5, <1>11, <3>1, <4>1
        <5>2. QED
          BY <1>4, <5>1, AnswerHeldAfterwards
      <4>2. CASE i \in 1..at - 1
        <5>1. AnswerHeld(i)
          BY <1>5, <4>2
        <5>2. QED
          BY <1>4, <3>1, <5>1, AnswerHeldIs, AnswerHeldAfterwards
      <4>3. QED
        BY <1>8, <4>1, <4>2
    <3>3. QED
      BY <1>5, <3>1, <3>2
  <2>2. CASE ~Bad(v)
    <3>1. /\ S' = [S EXCEPT ![2].backend =
                     Obj([x \in DOMAIN @[2] \cup {name} |-> IF x \in DOMAIN @[2] THEN @[2][x] ELSE v])]
          /\ answered' = Append(answered, name)
      BY <1>4, <2>2
    <3>2. PICK T : T = S'
      OBVIOUS
    <3>3. name \notin DOMAIN S[2]["backend"][2]
      BY <1>5, <1>11
    <3>4. /\ Shape(T) /\ T[1] = S[1] /\ T[2]["result"] = S[2]["result"]
          /\ DOMAIN T[2]["backend"][2] = DOMAIN S[2]["backend"][2] \cup {name}
          /\ T[2]["backend"][2][name] = v
          /\ \A x \in DOMAIN S[2]["backend"][2] : T[2]["backend"][2][x] = S[2]["backend"][2][x]
          /\ \A names : name \notin names => Cut(T, names) = Cut(S, names)
          /\ \A names : name \notin names /\ DOMAIN S[2]["backend"][2] \subseteq names
                          => Cut(T, names) = S
      <4>1. T = [S EXCEPT ![2].backend =
                   Obj([x \in DOMAIN @[2] \cup {name} |-> IF x \in DOMAIN @[2] THEN @[2][x] ELSE v])]
        BY <3>1, <3>2
      <4>2. IsAdded(T, S, name, v)
        BY <1>5, <3>3, <4>1, AnswerAdded
      <4>3. QED
        BY <4>2 DEF IsAdded
    <3>5. Listed(answered') /\ ToSet(answered') = ToSet(answered) \cup {name}
      <4>1. answered \in Seq(ToSet(answered))
        <5>1. \A i \in 1..Len(answered) : answered[i] \in ToSet(answered)
          BY <1>5 DEF Listed, ToSet
        <5>2. QED
          BY <1>5, <5>1 DEF Listed
      <4>2. PICK A : A = ToSet(answered) \cup {name}
        OBVIOUS
      <4>3. answered \in Seq(A) /\ name \in A
        BY <4>1, <4>2
      <4>4. /\ answered' \in Seq(A) /\ Len(answered') = Len(answered) + 1 /\ Len(answered) \in Nat
            /\ answered'[Len(answered) + 1] = name
            /\ \A i \in 1..Len(answered) : answered'[i] = answered[i]
        BY <3>1, <4>3
      <4>5. Listed(answered')
        BY <4>4 DEF Listed
      <4>6. DOMAIN answered' = 1..Len(answered) + 1 /\ DOMAIN answered = 1..Len(answered)
        BY <4>3, <4>4
      <4>7. ToSet(answered') = ToSet(answered) \cup {name}
        <5>1. \A i \in 1..Len(answered) + 1 : i \in 1..Len(answered) \/ i = Len(answered) + 1
          BY <4>4
        <5>2. Len(answered) + 1 \in 1..Len(answered) + 1
              /\ \A i \in 1..Len(answered) : i \in 1..Len(answered) + 1
          BY <4>4
        <5>3. QED
          BY <4>4, <4>6, <5>1, <5>2 DEF ToSet
      <4>8. QED
        BY <4>5, <4>7
    <3>6. Open(T)
      <4>1. DOMAIN T = 1..2 /\ DOMAIN S = 1..2 /\ DOMAIN T[2] = DOMAIN S[2]
        BY <1>5, <3>4 DEF Shape, Listed
      <4>2. \A i \in DOMAIN T : DOMAIN T[i] = DOMAIN S[i]
        <5>1. \A i \in 1..2 : i = 1 \/ i = 2
          OBVIOUS
        <5>2. QED
          BY <3>4, <4>1, <5>1
      <4>3. QED
        BY <1>5, <3>4, <4>1, <4>2 DEF Open, Free, Shape
    <3>7. ASSUME NEW i \in 1..at
          PROVE  AnswerHeld(i)'
      <4>1. CASE i = at
        <5> SUFFICES ASSUME Told(service)
                     PROVE  AnswerMeans(service, Came(at), Cut(T, Earlier(at)), T[2]["backend"][2][name])
          BY <1>1, <1>2, <1>4, <3>2, <4>1, AnswerHeldAfterwards
        <5>1. Cut(T, Earlier(at)) = S /\ T[2]["backend"][2][name] = v
          BY <1>5, <1>11, <3>4
        <5>2. v = Response(service.kind, service.response[1], Came(at), S)
          <6>1. ~Bad(v) /\ Bad(Failure) /\ service.response # <<>>
            BY <2>2 DEF Bad, Told
          <6>2. QED
            BY <1>1, <1>3, <6>1 DEF Parsed
        <5>3. 1 \in DOMAIN service.response
          <6>1. Listed(service.response) /\ service.response # <<>>
            BY <1>6 DEF Serves, ListOf, Told
          <6>2. Len(service.response) \in Nat /\ service.response = [j \in 1..Len(service.response) |-> service.response[j]]
            BY <6>1 DEF Listed
          <6>3. Len(service.response) # 0
            BY <6>1, <6>2
          <6>4. QED
            BY <6>2, <6>3
        <5>4. Chooses(service.response[1]) /\ OutputsAgree(service.response[1])
          BY <1>1, <1>5, <1>6, <5>3 DEF Serves, ListOf, Answers1, AllAgree
        <5>5. PICK b : b = service.response[1]
          OBVIOUS
        <5>6. PICK came : came = Came(at)
          OBVIOUS
        <5>7. b.include = <<>>
          BY <5>5 DEF Told
        <5>8. ASSUME NEW R, R = AnswerScope(service, came, S), NEW is, is = Branches(FALSE, b, R)
              PROVE  OutputMeant(b, v, is, R)
          BY <1>5, <2>2, <5>2, <5>4, <5>5, <5>6, <5>7, <5>8, AnswerIs
        <5>9. AnswerMeans(service, came, S, v)
          BY <5>5, <5>8 DEF AnswerMeans
        <5>10. QED
          BY <5>1, <5>6, <5>9
      <4>2. CASE i \in 1..at - 1
        <5>1. AnswerHeld(i)
          BY <1>5, <4>2
        <5>2. setup.services[i].name # name
          BY <1>1, <1>2, <1>5, <1>8, <1>9, <1>10, <4>2
        <5>3. Cut(T, Earlier(i)) = Cut(S, Earlier(i))
          BY <1>12, <3>4
        <5>4. setup.services[i].name \in ToSet(answered') => setup.services[i].name \in ToSet(answered)
          BY <3>5, <5>2
        <5>5. setup.services[i].name \in ToSet(answered)
                => T[2]["backend"][2][setup.services[i].name] = S[2]["backend"][2][setup.services[i].name]
          BY <1>5, <3>4
        <5>6. QED
          BY <1>4, <3>2, <5>1, <5>3, <5>4, <5>5, AnswerHeldIs, AnswerHeldAfterwards
      <4>3. QED
        BY <1>8, <4>1, <4>2
    <3>8. QED
      BY <1>5, <3>2, <3>4, <3>5, <3>6, <3>7
  <2>3. QED
    BY <2>1, <2>2
<1>14. Earlier(at + 1) = Earlier(at) \cup {name}
  <2>1. (at + 1) - 1 = at /\ \A j : j \in 1..at <=> (j \in 1..at - 1 \/ j = at)
    BY <1>7
  <2>2. QED
    BY <1>1, <1>2, <2>1 DEF Earlier
<1>15. pc' = "parse" => at' \in DOMAIN setup.services
  BY <1>4, <1>6, <1>7
<1>16. pc' = "recalled" => DOMAIN setup.services = 1..at
  BY <1>4, <1>6
<1>17. Earlier(at)' = Earlier(at + 1)
  BY <1>4 DEF Earlier
<1>18. (at + 1) - 1 = at
  BY <1>7
<1>19. ToSet(answered') \subseteq Earlier(at)'
  BY <1>5, <1>13, <1>14, <1>17
<1>20. pc' \in {"crashed", "recalled", "parse"}
  BY <1>4
<1>21. ScopesHeld'
  BY <1>4, <1>5, <1>13, <1>15, <1>18, <1>19, <1>20 DEF ScopesHeld
<1>22. pc' = "recalled" => \A i \in DOMAIN setup'.services : AnswerHeld(i)'
  BY <1>4, <1>13, <1>16
<1>23. QED
  BY <1>20, <1>21, <1>22 DEF AllHeld

\* A variable that decides nothing.
LEMMA ResetKeeps ==
  ASSUME NEW R, Shape(R), Open(R), NEW x, x \notin {"cond", "output", "next"}, NEW v,
         NEW T, T = Reset(R, x, v)
  PROVE  Shape(T) /\ Open(T) /\ T[2] = R[2]
<1>1. Listed(R) /\ Len(R) = 2 /\ 1 \in DOMAIN R /\ 2 \in DOMAIN R
  BY DEF Shape, Listed
<1>2. IsReset(T, R, x, v)
  BY <1>1, ResetIs
<1>3. Listed(T) /\ Len(T) = Len(R) /\ DOMAIN T = DOMAIN R /\ T[2] = R[2]
      /\ T[1] = [y \in DOMAIN R[1] \cup {x} |-> IF y = x THEN v ELSE R[1][y]]
      /\ \A i \in DOMAIN R : i # 1 => T[i] = R[i]
  BY <1>1, <1>2 DEF IsReset
<1>4. Functional(T[1])
  BY <1>3 DEF Functional
<1>5. Shape(T)
  BY <1>3, <1>4, ShapeKept
<1>6. ASSUME NEW k \in {"cond", "output", "next"}
      PROVE  Free(T, k)
  <2>1. Free(R, k) /\ k # x
    BY <1>6 DEF Open
  <2>2. k \notin DOMAIN T[1]
    BY <1>1, <1>3, <2>1 DEF Free
  <2>3. \A i \in DOMAIN T : k \notin DOMAIN T[i]
    BY <1>3, <2>1, <2>2 DEF Free
  <2>4. QED
    BY <2>3 DEF Free
<1>7. QED
  BY <1>1, <1>3, <1>5, <1>6 DEF Open

\* The services whose answers are there, as a variable, and what ranking makes of it.
LEMMA VariableHeld ==
  ASSUME AllHeld, pc \notin Final, UNCHANGED <<setup, answered>>,
         pc' \notin {"define", "build", "parse", "recalled", "done"},
         S' = S \/ \E x, v : x \notin {"cond", "output", "next"} /\ S' = Reset(S, x, v)
  PROVE  AllHeld'
<1>1. /\ setup \in Setups /\ Shape(S) /\ Open(S) /\ S[2]["result"] = Obj(<<>>)
      /\ DOMAIN S[2]["backend"][2] = ToSet(answered) /\ Listed(answered)
  BY DEF AllHeld, ScopesHeld
<1>2. PICK T : T = S'
  OBVIOUS
<1>3. Shape(T) /\ Open(T) /\ T[2] = S[2]
  <2>1. CASE T = S
    BY <1>1, <2>1
  <2>2. CASE T # S
    <3>1. PICK x, v : x \notin {"cond", "output", "next"} /\ T = Reset(S, x, v)
      BY <1>2, <2>2
    <3>2. QED
      BY <1>1, <3>1, ResetKeeps
  <2>3. QED
    BY <2>1, <2>2
<1>4. ScopesHeld'
  BY <1>1, <1>2, <1>3 DEF ScopesHeld
<1>5. QED
  BY <1>4 DEF AllHeld

LEMMA RecalledHeld == ASSUME AllHeld, Recalled PROVE AllHeld'
<1>1. PICK v : v = Arr([i \in DOMAIN answered |-> Word(answered[i])])
  OBVIOUS
<1>2. /\ pc \notin Final /\ UNCHANGED <<setup, answered>> /\ S' = SetVar(S, "recall", v)
      /\ pc' \in {"output", "input"}
  BY <1>1 DEF Recalled, Final
<1>3. S' = S \/ S' = Reset(S, "recall", v)
  BY <1>2 DEF SetVar
<1>4. QED
  BY <1>2, <1>3, VariableHeld

LEMMA RankOnlyHeld == ASSUME AllHeld, RankOnly PROVE AllHeld'
<1>1. UNCHANGED <<sent, answered>> /\ RankStep
  BY DEF RankOnly
<1>2. CASE Input
  <2>1. PICK u : pc' = Outcome(u, "collect")
    BY <1>2 DEF Input
  <2>2. pc' \in {"crashed", "failed", "collect"}
    BY <2>1 DEF Outcome
  <2>3. pc \notin Final /\ UNCHANGED <<setup, S>>
    BY <1>2 DEF Input, Final
  <2>4. QED
    BY <1>1, <2>2, <2>3, VariableHeld
<1>3. CASE Collect
  <2>1. PICK it : IF SortValues(Block, it) = Crash THEN pc' = "crashed" /\ UNCHANGED S
                  ELSE S' = WithItem(it) /\ UNCHANGED pc
    BY <1>3 DEF Collect
  <2>2. pc = "collect" /\ UNCHANGED setup
    BY <1>3 DEF Collect
  <2>3. pc \notin Final /\ pc' \in {"crashed", "collect"}
    BY <2>1, <2>2 DEF Final
  <2>4. S' = S \/ S' = Reset(S, "item", it)
    BY <2>1 DEF WithItem
  <2>5. QED
    BY <1>1, <2>2, <2>3, <2>4, VariableHeld
<1>4. CASE CandidateOver
  BY <1>1, <1>4, VariableHeld DEF CandidateOver, Final
<1>5. CASE AllCollected
  BY <1>1, <1>5, VariableHeld DEF AllCollected, Final
<1>6. CASE Sort
  <2>1. PICK v : S' = Reset(S, "rank", v)
    BY <1>6 DEF Sort
  <2>2. pc \notin Final /\ UNCHANGED setup /\ pc' \in {"input", "output"}
    BY <1>6 DEF Sort, Final
  <2>3. QED
    BY <1>1, <2>1, <2>2, VariableHeld
<1>7. QED
  BY <1>1, <1>2, <1>3, <1>4, <1>5, <1>6 DEF RankStep

\* Scopes with an output and a next are the same without.
IsGiven(T, R) ==
  /\ Shape(T) /\ T[2] = R[2]
  /\ DOMAIN T[1] \ {"output", "next"} = DOMAIN R[1]
  /\ \A y \in DOMAIN R[1] : T[1][y] = R[1][y]

LEMMA GivenIs ==
  ASSUME NEW R, Shape(R), Open(R), NEW T, Given(T, R)
  PROVE  IsGiven(T, R)
<1>1. Listed(R) /\ Len(R) = 2 /\ 1 \in DOMAIN R /\ 2 \in DOMAIN R
  BY DEF Shape, Listed
<1>2. IsGiven(R, R)
  BY <1>1 DEF IsGiven, Open, Free
<1>3. ASSUME NEW U, IsGiven(U, R), NEW x \in {"output", "next"}, NEW v, NEW V, V = Reset(U, x, v)
      PROVE  IsGiven(V, R)
  <2>1. Listed(U) /\ Len(U) = 2 /\ 1 \in DOMAIN U /\ 2 \in DOMAIN U
    BY <1>3 DEF IsGiven, Shape, Listed
  <2>2. IsReset(V, U, x, v)
    BY <1>3, <2>1, ResetIs
  <2>3. Listed(V) /\ Len(V) = Len(U) /\ V[2] = U[2]
        /\ V[1] = [y \in DOMAIN U[1] \cup {x} |-> IF y = x THEN v ELSE U[1][y]]
    BY <2>1, <2>2 DEF IsReset
  <2>4. Functional(V[1]) /\ DOMAIN V[1] = DOMAIN U[1] \cup {x}
        /\ \A y \in DOMAIN U[1] : y # x => V[1][y] = U[1][y]
    BY <2>3 DEF Functional
  <2>5. Shape(V)
    BY <1>3, <2>3, <2>4, ShapeKept DEF IsGiven
  <2>6. x \notin DOMAIN R[1]
    BY <1>1 DEF Open, Free
  <2>7. DOMAIN V[1] \ {"output", "next"} = DOMAIN R[1]
    BY <1>3, <2>4 DEF IsGiven
  <2>8. \A y \in DOMAIN R[1] : y \in DOMAIN U[1] /\ U[1][y] = R[1][y]
    BY <1>3 DEF IsGiven
  <2>9. \A y \in DOMAIN R[1] : V[1][y] = R[1][y]
    BY <2>4, <2>6, <2>8
  <2>10. QED
    BY <1>3, <2>3, <2>5, <2>7, <2>9 DEF IsGiven
<1>4. PICK U : /\ U = R \/ \E x : U = Reset(R, "output", x)
               /\ T = U \/ \E y : T = Reset(U, "next", y)
  BY DEF Given
<1>5. IsGiven(U, R)
  BY <1>2, <1>3, <1>4
<1>6. QED
  BY <1>3, <1>4, <1>5

\* Whatever the result.
IsResult(W, T) == W = T \/ \E v : W = [T EXCEPT ![2] = [@ EXCEPT !["result"] = v]]
Undone(W) ==
  [W EXCEPT ![1] = [x \in DOMAIN @ \ {"output", "next"} |-> @[x]], ![2].result = Obj(<<>>)]

LEMMA GivenUndone ==
  ASSUME NEW R, Shape(R), R[2]["result"] = Obj(<<>>), NEW T, IsGiven(T, R), NEW W, IsResult(W, T)
  PROVE  Undone(W) = R
<1> DEFINE B == Undone(W)
<1>1. /\ Shape(T) /\ T[2] = R[2] /\ DOMAIN T[1] \ {"output", "next"} = DOMAIN R[1]
      /\ \A y \in DOMAIN R[1] : T[1][y] = R[1][y]
  BY DEF IsGiven
<1>2. /\ Listed(W) /\ Len(W) = 2 /\ W[1] = T[1] /\ Functional(W[2]) /\ DOMAIN W[2] = DOMAIN T[2]
      /\ \A y \in DOMAIN T[2] : y # "result" => W[2][y] = T[2][y]
  <2>1. CASE W = T
    BY <1>1, <2>1 DEF Shape
  <2>2. ASSUME NEW v, W = [T EXCEPT ![2] = [@ EXCEPT !["result"] = v]]
        PROVE  IsWith(W, T, "result", v)
    BY <1>1, <2>2, FieldSet
  <2>3. QED
    BY <2>1, <2>2 DEF IsResult, IsWith
<1>3. W = [i \in 1..2 |-> W[i]]
  BY <1>2 DEF Listed
<1>4. PICK a : a = [x \in DOMAIN W[1] \ {"output", "next"} |-> W[1][x]]
  OBVIOUS
<1>5. PICK u : u = [W[2] EXCEPT !["result"] = Obj(<<>>)]
  OBVIOUS
<1>6. B = [i \in 1..2 |-> IF i = 1 THEN a ELSE u]
  <2>1. PICK V : V = [W EXCEPT ![1] = a]
    OBVIOUS
  <2>2. V = [i \in 1..2 |-> IF i = 1 THEN a ELSE W[i]]
    BY <1>3, <2>1
  <2>3. V[2] = W[2]
    BY <2>2
  <2>4. B = [V EXCEPT ![2] = [V[2] EXCEPT !["result"] = Obj(<<>>)]]
    BY <1>4, <2>1 DEF Undone
  <2>5. B = [V EXCEPT ![2] = u]
    BY <1>5, <2>3, <2>4
  <2>6. B = [i \in DOMAIN V |-> IF i = 2 THEN u ELSE V[i]]
    BY <2>2, <2>5
  <2>7. DOMAIN V = 1..2 /\ V[1] = a
    BY <2>2
  <2>8. \A i \in 1..2 : i = 1 \/ i = 2
    OBVIOUS
  <2>9. \A i \in 1..2 : (IF i = 2 THEN u ELSE V[i]) = (IF i = 1 THEN a ELSE u)
    BY <2>7, <2>8
  <2>10. QED
    BY <2>6, <2>7, <2>9
<1> HIDE DEF B
<1>7. B[1] = a /\ B[2] = u /\ DOMAIN B = 1..2
  BY <1>6
<1>8. Len(B) = 2
  BY <1>6
<1>9. Listed(B)
  <2>1. B = [i \in 1..2 |-> B[i]]
    BY <1>6
  <2>2. PICK N : N = Len(B)
    OBVIOUS
  <2>3. N = 2
    BY <1>8, <2>2
  <2>4. B = [i \in 1..N |-> B[i]]
    BY <2>1, <2>3
  <2>5. N \in Nat
    BY <2>3
  <2>6. QED
    BY <2>2, <2>4, <2>5 DEF Listed
<1>10. a = R[1]
  <2>1. R[1] = [y \in DOMAIN R[1] |-> R[1][y]]
    BY DEF Shape, Functional
  <2>2. a = [x \in DOMAIN R[1] |-> R[1][x]]
    BY <1>1, <1>2, <1>4
  <2>3. QED
    BY <2>1, <2>2
<1>11. Functional(u) /\ DOMAIN u = DOMAIN R[2] /\ \A y \in DOMAIN R[2] : u[y] = R[2][y]
  <2>1. W[2] = [y \in DOMAIN W[2] |-> W[2][y]]
    BY <1>2 DEF Functional
  <2>2. u = [y \in DOMAIN W[2] |-> IF y = "result" THEN Obj(<<>>) ELSE W[2][y]]
    BY <1>5, <2>1
  <2>3. Functional(u) /\ DOMAIN u = DOMAIN R[2]
    BY <1>1, <1>2, <2>2 DEF Functional
  <2>4. ASSUME NEW y \in DOMAIN R[2]
        PROVE  u[y] = R[2][y]
    BY <1>1, <1>2, <2>2
  <2>5. QED
    BY <2>3, <2>4
<1>12. QED
  <2>1. B = R
    BY <1>7, <1>8, <1>9, <1>10, <1>11, ShapesEqual DEF Shape
  <2>2. QED
    BY <2>1 DEF B

LEMMA ResultAside ==
  ASSUME NEW T, Shape(T), NEW W, IsResult(W, T),
         NEW x \in {"output", "next"}
  PROVE  Lookup(W, x) = Lookup(T, x)
<1>1. CASE W = T
  BY <1>1
<1>2. ASSUME NEW v, W = [T EXCEPT ![2] = [@ EXCEPT !["result"] = v]]
      PROVE  Lookup(W, x) = Lookup(T, x)
  <2>1. IsWith(W, T, "result", v)
    BY <1>2, FieldSet
  <2>2. /\ Listed(W) /\ Len(W) = 2 /\ W[1] = T[1] /\ DOMAIN W[2] = DOMAIN T[2]
        /\ Listed(T) /\ Len(T) = 2 /\ x \notin DOMAIN T[2]
    BY <2>1 DEF IsWith, Shape
  <2>3. \A i \in 1..Len(T) : i = 1 \/ i = 2
    BY <2>2
  <2>4. QED
    BY <2>2, <2>3, LookupBelow
<1>3. QED
  BY <1>1, <1>2 DEF IsResult

LEMMA FinishHeld ==
  ASSUME EmptyScopeIsNothing, AllAgree, MergesOnce, AllHeld, Finish
  PROVE  AllHeld'
<1>1. PICK flow \in BOOLEAN : flow = TRUE
  OBVIOUS
<1>2. PICK o : o = Output(flow, setup, Ok(S))
  OBVIOUS
<1>3. PICK v : v = Lookup(o.S, "output")
  OBVIOUS
<1>4. /\ pc' = Outcome(o.v, "done") /\ pc = "output" /\ UNCHANGED setup
      /\ S' = IF Bad(o.v) \/ ~Is(v, "object") THEN o.S
              ELSE [o.S EXCEPT ![2].result = Merge(@, v)]
  BY <1>1, <1>2, <1>3 DEF Finish
<1>5. /\ setup \in Setups /\ Shape(S) /\ Open(S) /\ S[2]["result"] = Obj(<<>>)
  BY <1>4 DEF AllHeld, ScopesHeld, Final
<1>6. pc' \in Final
  BY <1>4 DEF Outcome, Final
<1>7. ScopesHeld'
  BY <1>4, <1>5, <1>6 DEF ScopesHeld, Final
<1>8. CASE Bad(o.v)
  <2>1. pc' # "done"
    BY <1>4, <1>8 DEF Outcome, Bad
  <2>2. QED
    BY <1>6, <1>7, <2>1 DEF AllHeld, Final
<1>9. CASE ~Bad(o.v)
  <2>1. PICK is : is = Branches(flow, setup, S)
    OBVIOUS
  <2>2. Chooses(setup) /\ OutputsAgree(setup)
    BY <1>5, SetupFacts DEF AllAgree
  <2>3. /\ Given(o.S, S) /\ OutputMeant(setup, v, is, S)
        /\ NextMeant(setup, Lookup(o.S, "next"), is)
    BY <1>1, <1>2, <1>3, <1>5, <1>9, <2>1, <2>2, OutputIs
  <2>4. PICK T : T = o.S
    OBVIOUS
  <2>5. PICK W : W = S'
    OBVIOUS
  <2>6. IsGiven(T, S)
    BY <1>5, <2>3, <2>4, GivenIs
  <2>7. Shape(T) /\ T[2] = S[2]
    BY <2>6 DEF IsGiven
  <2>8. PICK m : m = Merge(Obj(<<>>), v)
    OBVIOUS
  <2>9. W = IF Is(v, "object") THEN [T EXCEPT ![2] = [@ EXCEPT !["result"] = m]] ELSE T
    <3>1. T[2].result = Obj(<<>>)
      BY <1>5, <2>7
    <3>2. 2 \in DOMAIN T /\ "result" \in DOMAIN T[2]
      BY <2>7 DEF Shape, Listed
    <3>3. QED
      BY <1>4, <1>9, <2>4, <2>5, <2>8, <3>1, <3>2
  <2>10. IsResult(W, T)
    BY <2>9 DEF IsResult
  <2>11. Lookup(W, "output") = v /\ Lookup(W, "next") = Lookup(o.S, "next")
    BY <1>3, <2>4, <2>7, <2>10, ResultAside
  <2>12. BeforeOutput' = S
    <3>1. Undone(W) = S
      BY <1>5, <2>6, <2>10, GivenUndone
    <3>2. QED
      BY <2>5, <3>1 DEF BeforeOutput, Undone
  <2>13. Is(v, "object") => Includes(W[2].result, v)
    <3>1. ASSUME Is(v, "object")
          PROVE  W[2].result = m
      <4>1. W = [T EXCEPT ![2] = [@ EXCEPT !["result"] = m]]
        BY <2>9, <3>1
      <4>2. IsWith(W, T, "result", m)
        BY <2>7, <4>1, FieldSet
      <4>3. QED
        BY <4>2 DEF IsWith
    <3>2. QED
      BY <2>8, <3>1, MergedIntoNothing
  <2>14. OutputHeld'
    <3>1. PICK R : R = BeforeOutput'
      OBVIOUS
    <3>2. R = S
      BY <2>12, <3>1
    <3>3. /\ OutputMeant(setup, v, is, R) /\ NextMeant(setup, Lookup(W, "next"), is)
          /\ is = Branches(TRUE, setup, R)
      BY <1>1, <2>1, <2>3, <2>11, <3>2
    <3>4. Lookup(S', "output") = v /\ Lookup(S', "next") = Lookup(W, "next") /\ S'[2].result = W[2].result
      BY <2>5, <2>11
    <3>5. setup' = setup
      BY <1>4
    <3>6. QED
      BY <2>13, <3>1, <3>3, <3>4, <3>5 DEF OutputHeld
  <2>15. QED
    BY <1>6, <1>7, <2>14 DEF AllHeld, Final
<1>10. QED
  BY <1>8, <1>9

LEMMA StopHeld == ASSUME AllHeld, UNCHANGED vars PROVE AllHeld'
<1>1. /\ setup' = setup /\ pc' = pc /\ at' = at /\ S' = S /\ sent' = sent /\ answered' = answered
  BY DEF vars
<1>2. \A i : AnswerHeld(i)' <=> AnswerHeld(i)
  BY <1>1, AnswerHeldIs, AnswerHeldAfterwards
<1>3. OutputHeld' <=> OutputHeld
  BY <1>1 DEF OutputHeld, BeforeOutput
<1>4. Earlier(at)' = Earlier(at)
  BY <1>1 DEF Earlier
<1>5. ScopesHeld'
  BY <1>1, <1>2, <1>4 DEF AllHeld, ScopesHeld
<1>6. QED
  BY <1>1, <1>2, <1>3, <1>5 DEF AllHeld

\* The answers in `backend' and the output of a node are those of the branch that counts,
\* the next node is the branch's, and an output that is an object is in the result.
THEOREM OutputsAreConfigured ==
  ASSUME EmptyScopeIsNothing, AllAgree, NamesDiffer, MergesOnce
  PROVE  Spec => []OutputAsConfigured
<1>1. Init => AllHeld
  BY InitHeld
<1>2. AllHeld /\ [Next]_vars => AllHeld'
  BY DefineHeld, BuildHeld, ParseHeld, RecalledHeld, RankOnlyHeld, FinishHeld, StopHeld DEF Next, Stop
<1>3. AllHeld => OutputAsConfigured
  BY HeldIsConfigured
<1>4. QED
  BY <1>1, <1>2, <1>3, PTL DEF Spec
-----------------------------------------------------------------------------
(* JSON.                                                                   *)

\* A value that is in a set of values which has the parts of all that are in it.
ClosedUnder(T) ==
  \A w \in T : /\ w[1] \in JsonTypes /\ Children(w) \subseteq T
               /\ Is(w, "array") => w[2] \in Seq(T)
Json(v) == \E T : v \in T /\ ClosedUnder(T)

LEMMA JsonHas ==
  ASSUME NEW v, Json(v)
  PROVE  /\ v[1] \in JsonTypes /\ v \notin {Absent, Failure, Crash} /\ ~Bad(v)
         /\ \A w \in Children(v) : Json(w)
         /\ Is(v, "array") => v[2] \in Seq(Children(v))
<1>1. PICK T : v \in T /\ ClosedUnder(T)
  BY DEF Json
<1>2. v[1] \in JsonTypes /\ Children(v) \subseteq T /\ (Is(v, "array") => v[2] \in Seq(T))
  BY <1>1 DEF ClosedUnder
<1>3. \A w \in Children(v) : Json(w)
  BY <1>1, <1>2 DEF Json
<1>4. v \notin {Absent, Failure, Crash}
  BY <1>2 DEF JsonTypes, Absent, Failure, Crash
<1>5. Is(v, "array") => v[2] \in Seq(Children(v))
  BY <1>2, SeqOfToSet DEF Children
<1>6. QED
  BY <1>2, <1>3, <1>4, <1>5 DEF Bad

LEMMA SeqWider ==
  ASSUME NEW A, NEW B, A \subseteq B, NEW s \in Seq(A)
  PROVE  s \in Seq(B)
OBVIOUS

LEMMA JsonIs ==
  ASSUME NEW v, v[1] \in JsonTypes, \A w \in Children(v) : Json(w),
         Is(v, "array") => v[2] \in Seq(Children(v))
  PROVE  Json(v)
<1> DEFINE Around(w) == CHOOSE T : w \in T /\ ClosedUnder(T)
           T == {v} \cup UNION {Around(w) : w \in Children(v)}
<1>1. \A w \in Children(v) : w \in Around(w) /\ ClosedUnder(Around(w))
  BY DEF Json
<1> HIDE DEF Around
<1>2. Children(v) \subseteq T
  BY <1>1
<1>3. ASSUME NEW w \in T
      PROVE  w[1] \in JsonTypes /\ Children(w) \subseteq T /\ (Is(w, "array") => w[2] \in Seq(T))
  <2>1. CASE w = v
    BY <1>2, <2>1, SeqWider
  <2>2. CASE w # v
    <3>1. PICK u \in Children(v) : w \in Around(u)
      BY <2>2
    <3>2. PICK A : A = Around(u)
      OBVIOUS
    <3>3. w \in A /\ ClosedUnder(A) /\ A \subseteq T
      BY <1>1, <3>1, <3>2
    <3>4. w[1] \in JsonTypes /\ Children(w) \subseteq A /\ (Is(w, "array") => w[2] \in Seq(A))
      BY <3>3 DEF ClosedUnder
    <3> HIDE DEF T
    <3>5. QED
      BY <3>3, <3>4, SeqWider
  <2>3. QED
    BY <2>1, <2>2
<1>4. v \in T /\ ClosedUnder(T)
  <2>1. v \in T
    OBVIOUS
  <2> HIDE DEF T
  <2>2. QED
    BY <1>3, <2>1 DEF ClosedUnder
<1>5. QED
  BY <1>4 DEF Json

\* Values without parts; arrays and objects of JSON.
LEMMA JsonAtoms ==
  Json(Null) /\ \A b : Json(Bool(b)) /\ Json(Num(b)) /\ Json(Str(b)) /\ Json(Word(b))
<1>1. ASSUME NEW v, v[1] \in JsonTypes \ {"array", "object"}
      PROVE  Json(v)
  <2>1. Children(v) = {} /\ ~Is(v, "array")
    BY <1>1 DEF Children, Is
  <2>2. QED
    BY <1>1, <2>1, JsonIs
<1>2. QED
  BY <1>1 DEF Null, Bool, Num, Str, Word, JsonTypes

LEMMA JsonArray ==
  ASSUME NEW s, Listed(s), \A i \in DOMAIN s : Json(s[i])
  PROVE  Json(Arr(s))
<1>1. PICK v : v = Arr(s)
  OBVIOUS
<1>2. v[1] = "array" /\ v[2] = s
  BY <1>1 DEF Arr
<1>3. Children(v) = ToSet(s)
  BY <1>2 DEF Children, Is
<1>4. s \in Seq(ToSet(s))
  <2>1. \A i \in 1..Len(s) : s[i] \in ToSet(s)
    BY DEF Listed, ToSet
  <2>2. QED
    BY <2>1, IsASeq DEF Listed
<1>5. \A w \in ToSet(s) : Json(w)
  BY DEF ToSet
<1>6. QED
  BY <1>1, <1>2, <1>3, <1>4, <1>5, JsonIs DEF JsonTypes

LEMMA JsonObject ==
  ASSUME NEW f, \A k \in DOMAIN f : Json(f[k])
  PROVE  Json(Obj(f))
<1>1. PICK v : v = Obj(f)
  OBVIOUS
<1>2. v[1] = "object" /\ v[2] = f
  BY <1>1 DEF Obj
<1>3. Children(v) = {f[k] : k \in DOMAIN f} /\ ~Is(v, "array")
  BY <1>2 DEF Children, Is
<1>4. QED
  BY <1>1, <1>2, <1>3, JsonIs DEF JsonTypes

LEMMA JsonElements ==
  ASSUME NEW v, Json(v), Is(v, "array")
  PROVE  Listed(v[2]) /\ \A i \in DOMAIN v[2] : Json(v[2][i])
<1>1. v[2] \in Seq(Children(v)) /\ \A w \in Children(v) : Json(w)
  BY JsonHas
<1>2. QED
  BY <1>1 DEF Listed

LEMMA JsonMembers ==
  ASSUME NEW v, Json(v), Is(v, "object")
  PROVE  \A k \in DOMAIN v[2] : Json(v[2][k])
<1>1. \A k \in DOMAIN v[2] : v[2][k] \in Children(v)
  BY DEF Children, Is
<1>2. QED
  BY <1>1, JsonHas

\* What is at a place, and with a value put there.
JsonOrNone(v) == Json(v) \/ v = Absent

LEMMA JsonBelow ==
  ASSUME NEW v, JsonOrNone(v), NEW name
  PROVE  JsonOrNone(Below(v, name))
<1>1. CASE Is(v, "object") /\ name \in DOMAIN v[2]
  <2>1. v # Absent
    BY <1>1 DEF Absent, Is
  <2>2. Json(v[2][name])
    BY <1>1, <2>1, JsonMembers DEF JsonOrNone
  <2>3. Below(v, name) = v[2][name]
    BY <1>1 DEF Below, Is
  <2>4. QED
    BY <2>2, <2>3 DEF JsonOrNone
<1>2. CASE Is(v, "array") /\ Index(name) + 1 \in DOMAIN v[2] /\ ~Is(v, "object")
  <2>1. v # Absent
    BY <1>2 DEF Absent, Is
  <2>2. Json(v[2][Index(name) + 1])
    BY <1>2, <2>1, JsonElements DEF JsonOrNone
  <2>3. Below(v, name) = v[2][Index(name) + 1]
    BY <1>2 DEF Below
  <2>4. QED
    BY <2>2, <2>3 DEF JsonOrNone
<1>3. CASE ~(Is(v, "object") /\ name \in DOMAIN v[2])
           /\ ~(Is(v, "array") /\ Index(name) + 1 \in DOMAIN v[2])
  BY <1>3 DEF Below, JsonOrNone
<1>4. QED
  BY <1>1, <1>2, <1>3 DEF Is

LEMMA JsonAt ==
  ASSUME NEW v, Json(v), NEW T, NEW path \in Seq(T)
  PROVE  \A m \in 0..Len(path) : JsonOrNone(GetAt(v, Upto(path, m)))
<1> DEFINE U == {m \in Nat : m <= Len(path) => JsonOrNone(GetAt(v, Upto(path, m)))}
<1>1. 0 \in U
  <2>1. Upto(path, 0) = <<>>
    BY UptoFacts
  <2>2. QED
    BY <2>1, GetAtNowhere DEF JsonOrNone
<1>2. ASSUME NEW m \in U
      PROVE  m + 1 \in U
  <2> SUFFICES ASSUME m + 1 <= Len(path)
               PROVE  JsonOrNone(GetAt(v, Upto(path, m + 1)))
    OBVIOUS
  <2>1. Len(path) \in Nat
    OBVIOUS
  <2>2. m + 1 \in 1..Len(path) /\ (m + 1) - 1 = m /\ m <= Len(path)
    BY <2>1
  <2>3. Upto(path, m + 1) = Append(Upto(path, m), path[m + 1]) /\ path[m + 1] \in T /\ Upto(path, m) \in Seq(T)
    BY <2>2, UptoFacts
  <2>4. GetAt(v, Upto(path, m + 1)) = Below(GetAt(v, Upto(path, m)), path[m + 1])
    <3>1. PICK p \in Seq(T), name \in T : p = Upto(path, m) /\ name = path[m + 1]
      BY <2>3
    <3>2. GetAt(v, Append(p, name)) = Below(GetAt(v, p), name)
      BY GetAtNext
    <3>3. QED
      BY <2>3, <3>1, <3>2
  <2>5. JsonOrNone(GetAt(v, Upto(path, m)))
    BY <2>2
  <2>6. QED
    BY <2>4, <2>5, JsonBelow
<1>3. U = Nat
  <2> HIDE DEF U
  <2>1. U \in SUBSET Nat
    BY DEF U
  <2>2. QED
    BY <1>1, <1>2, <2>1, AllNaturals
<1>4. QED
  BY <1>3

LEMMA JsonPlaced ==
  ASSUME NEW v, JsonOrNone(v), NEW name, NEW x, Json(x)
  PROVE  Json(Placed(v, name, x))
<1> DEFINE elements == IF Is(v, "array") THEN v[2] ELSE <<>>
           members == IF Is(v, "object") THEN v[2] ELSE <<>>
           p == Index(name) + 1
           s == [i \in 1..p \cup DOMAIN elements |->
                   IF i = p THEN x ELSE IF i \in DOMAIN elements THEN elements[i] ELSE Null]
           f == [k \in DOMAIN members \cup {name} |-> IF k = name THEN x ELSE members[k]]
<1>1. Placed(v, name, x) = IF p > 0 /\ ~Is(v, "object") THEN Arr(s) ELSE Obj(f)
  BY DEF Placed
<1>2. \A k \in DOMAIN members : Json(members[k])
  <2>1. CASE Is(v, "object")
    <3>1. v # Absent
      BY <2>1 DEF Absent, Is
    <3>2. QED
      BY <2>1, <3>1, JsonMembers DEF JsonOrNone
  <2>2. CASE ~Is(v, "object")
    BY <2>2
  <2>3. QED
    BY <2>1, <2>2
<1>3. Len(elements) \in Nat /\ DOMAIN elements = 1..Len(elements)
      /\ \A i \in DOMAIN elements : Json(elements[i])
  <2>1. CASE Is(v, "array")
    <3>1. v # Absent
      BY <2>1 DEF Absent, Is
    <3>2. Listed(v[2]) /\ \A i \in DOMAIN v[2] : Json(v[2][i])
      BY <2>1, <3>1, JsonElements DEF JsonOrNone
    <3>3. Len(v[2]) \in Nat /\ DOMAIN v[2] = 1..Len(v[2])
      BY <3>2 DEF Listed
    <3>4. QED
      BY <2>1, <3>2, <3>3
  <2>2. CASE ~Is(v, "array")
    BY <2>2
  <2>3. QED
    BY <2>1, <2>2
<1> HIDE DEF elements, members
<1>4. Json(Obj(f))
  BY <1>2, JsonObject
<1>5. ASSUME p > 0
      PROVE  Json(Arr(s))
  <2>1. p \in Nat /\ Len(elements) \in Nat
    BY <1>3, <1>5, IndexType
  <2>2. PICK N \in Nat : N = IF p > Len(elements) THEN p ELSE Len(elements)
    BY <2>1
  <2>9. p > 0
    BY <1>5
  <2> HIDE DEF p
  <2>3. 1..p \cup DOMAIN elements = 1..N
    <3>1. DOMAIN elements = 1..Len(elements)
      BY <1>3
    <3>2. \A M \in Nat : N = (IF p > M THEN p ELSE M) => 1..p \cup 1..M = 1..N
      BY <2>1, <2>9
    <3>3. QED
      BY <2>1, <2>2, <3>1, <3>2
  <2>4. DOMAIN s = 1..N /\ \A i \in 1..N : Json(s[i])
    <3>1. \A i \in 1..N : s[i] = IF i = p THEN x ELSE IF i \in DOMAIN elements THEN elements[i] ELSE Null
      BY <2>3
    <3>2. DOMAIN s = 1..N
      BY <2>3
    <3> HIDE DEF s
    <3>3. QED
      BY <1>3, <3>1, <3>2, JsonAtoms
  <2>5. s = [i \in 1..N |-> s[i]]
    BY <2>3
  <2> HIDE DEF s
  <2>6. Len(s) = N
    BY <2>4
  <2>7. Listed(s)
    BY <2>5, <2>6 DEF Listed
  <2>8. QED
    BY <2>4, <2>7, JsonArray
<1>6. QED
  BY <1>1, <1>4, <1>5

LEMMA JsonSetAt ==
  ASSUME NEW v, Json(v), NEW T, NEW path \in Seq(T), NEW x, Json(x)
  PROVE  Json(SetAt(v, path, x))
<1> DEFINE U == {m \in Nat : m <= Len(path) => \A y : Json(y) => Json(SetAt(v, Upto(path, m), y))}
<1>1. 0 \in U
  <2>1. Upto(path, 0) = <<>>
    BY UptoFacts
  <2>2. QED
    BY <2>1, SetAtNowhere
<1>2. ASSUME NEW m \in U
      PROVE  m + 1 \in U
  <2> SUFFICES ASSUME m + 1 <= Len(path), NEW y, Json(y)
               PROVE  Json(SetAt(v, Upto(path, m + 1), y))
    OBVIOUS
  <2>1. Len(path) \in Nat
    OBVIOUS
  <2>2. m + 1 \in 1..Len(path) /\ (m + 1) - 1 = m /\ m \in 0..Len(path)
    BY <2>1
  <2>3. Upto(path, m + 1) = Append(Upto(path, m), path[m + 1]) /\ path[m + 1] \in T /\ Upto(path, m) \in Seq(T)
    BY <2>2, UptoFacts
  <2>4. PICK z : z = Placed(GetAt(v, Upto(path, m)), path[m + 1], y)
    OBVIOUS
  <2>5. SetAt(v, Upto(path, m + 1), y) = SetAt(v, Upto(path, m), z)
    <3>1. PICK p \in Seq(T), name \in T : p = Upto(path, m) /\ name = path[m + 1]
      BY <2>3
    <3>2. SetAt(v, Append(p, name), y) = SetAt(v, p, Placed(GetAt(v, p), name, y))
      BY SetAtNext
    <3>3. QED
      BY <2>3, <2>4, <3>1, <3>2
  <2>6. Json(z)
    <3>1. JsonOrNone(GetAt(v, Upto(path, m)))
      BY <2>2, JsonAt
    <3>2. QED
      BY <2>4, <3>1, JsonPlaced
  <2>7. QED
    BY <2>2, <2>5, <2>6
<1>3. U = Nat
  <2> HIDE DEF U
  <2>1. U \in SUBSET Nat
    BY DEF U
  <2>2. QED
    BY <1>1, <1>2, <2>1, AllNaturals
<1>4. Len(path) \in Nat /\ Upto(path, Len(path)) = path /\ Len(path) <= Len(path)
  BY UptoFacts
<1>5. QED
  BY <1>3, <1>4

\* What is merged of JSON: all that is merged of its parts, and they.
LEMMA JsonMerge ==
  ASSUME MergesOnce, NEW to, Json(to), NEW from, Json(from)
  PROVE  Json(Merge(to, from))
<1>1. PICK A : to \in A /\ ClosedUnder(A)
  BY DEF Json
<1>2. PICK B : from \in B /\ ClosedUnder(B)
  BY DEF Json
<1> DEFINE T == A \cup B \cup {Merge(m, n) : m \in A, n \in B}
<1>3. A \subseteq T /\ B \subseteq T /\ \A m \in A, n \in B : Merge(m, n) \in T
  OBVIOUS
<1>4. \A w \in T : w \in A \/ w \in B \/ \E m \in A, n \in B : w = Merge(m, n)
  OBVIOUS
<1> HIDE DEF T
<1>5. ASSUME NEW w \in A \cup B
      PROVE  w[1] \in JsonTypes /\ Children(w) \subseteq T /\ (Is(w, "array") => w[2] \in Seq(T))
  BY <1>1, <1>2, <1>3, <1>5, SeqWider DEF ClosedUnder
<1>6. ASSUME NEW m \in A, NEW n \in B, NEW w, w = Merge(m, n)
      PROVE  w[1] \in JsonTypes /\ Children(w) \subseteq T /\ (Is(w, "array") => w[2] \in Seq(T))
  <2>1. CASE ~Is(m, "object") \/ ~Is(n, "object")
    <3>1. w = m
      BY <1>6, <2>1 DEF MergesOnce, MergedOnce
    <3>2. QED
      BY <1>5, <3>1
  <2>2. CASE Is(m, "object") /\ Is(n, "object")
    <3>1. PICK f : f = [k \in DOMAIN m[2] \cup DOMAIN n[2] |->
                          IF k \notin DOMAIN m[2] THEN n[2][k]
                          ELSE IF k \notin DOMAIN n[2] THEN m[2][k]
                          ELSE IF Is(m[2][k], "object") /\ Is(n[2][k], "object")
                               THEN Merge(m[2][k], n[2][k])
                          ELSE n[2][k]]
      OBVIOUS
    <3>2. w = Obj(f)
      BY <1>6, <2>2, <3>1 DEF MergesOnce, MergedOnce
    <3>3. w[1] = "object" /\ w[2] = f
      BY <3>2 DEF Obj
    <3>4. /\ \A k \in DOMAIN m[2] : m[2][k] \in A
          /\ \A k \in DOMAIN n[2] : n[2][k] \in B
      <4>1. Children(m) \subseteq A /\ Children(n) \subseteq B
        BY <1>1, <1>2 DEF ClosedUnder
      <4>2. /\ \A k \in DOMAIN m[2] : m[2][k] \in Children(m)
            /\ \A k \in DOMAIN n[2] : n[2][k] \in Children(n)
        BY <2>2 DEF Children, Is
      <4>3. QED
        BY <4>1, <4>2
    <3>5. \A k \in DOMAIN f : f[k] \in T
      BY <1>3, <3>1, <3>4
    <3>6. Children(w) \subseteq T /\ ~Is(w, "array")
      BY <3>3, <3>5 DEF Children, Is
    <3>7. QED
      BY <3>3, <3>6 DEF JsonTypes
  <2>3. QED
    BY <2>1, <2>2
<1>7. ClosedUnder(T)
  BY <1>4, <1>5, <1>6 DEF ClosedUnder
<1>8. QED
  BY <1>1, <1>2, <1>3, <1>7 DEF Json

-----------------------------------------------------------------------------
(* Scopes of JSON.                                                         *)

\* So many scopes, in which every variable is JSON.
JsonScopes(R, n) ==
  /\ Listed(R) /\ Len(R) = n /\ 1 \in DOMAIN R
  /\ \A i \in DOMAIN R : \A x \in DOMAIN R[i] : Json(R[i][x])

LEMMA JsonLookup ==
  ASSUME NEW n, NEW R, JsonScopes(R, n), NEW x
  PROVE  JsonOrNone(Lookup(R, x))
<1> DEFINE in == {i \in DOMAIN R : x \in DOMAIN R[i]}
           least == CHOOSE i \in in : \A j \in in : i <= j
<1>1. Listed(R) /\ DOMAIN R = 1..Len(R) /\ Len(R) \in Nat
  BY DEF JsonScopes, Listed
<1>2. CASE in = {}
  BY <1>2 DEF Lookup, JsonOrNone
<1>3. CASE in # {}
  <2>1. in \in SUBSET Nat
    BY <1>1
  <2>2. \E i \in in : \A j \in in : i <= j
    <3> HIDE DEF in
    <3>1. QED
      BY <1>3, <2>1, LeastExists
  <2>3. least \in in
    <3> HIDE DEF in
    <3>1. QED
      BY <2>2
  <2>4. Lookup(R, x) = R[least][x]
    BY <1>3 DEF Lookup
  <2> HIDE DEF least
  <2>5. Json(R[least][x])
    BY <2>3 DEF JsonScopes
  <2>6. QED
    BY <2>4, <2>5 DEF JsonOrNone
<1>4. QED
  BY <1>2, <1>3

LEMMA JsonReset ==
  ASSUME NEW n, NEW R, JsonScopes(R, n), NEW x, NEW v, Json(v)
  PROVE  JsonScopes(Reset(R, x, v), n)
<1>1. PICK T : T = Reset(R, x, v)
  OBVIOUS
<1>2. IsReset(T, R, x, v)
  BY <1>1, ResetIs DEF JsonScopes
<1>3. ASSUME NEW i \in DOMAIN T, NEW y \in DOMAIN T[i]
      PROVE  Json(T[i][y])
  <2>1. CASE i = 1
    <3>1. T[1] = [z \in DOMAIN R[1] \cup {x} |-> IF z = x THEN v ELSE R[1][z]]
      BY <1>2 DEF IsReset
    <3>2. y \in DOMAIN R[1] \cup {x} /\ T[1][y] = IF y = x THEN v ELSE R[1][y]
      BY <1>3, <2>1, <3>1
    <3>3. QED
      BY <2>1, <3>2 DEF JsonScopes
  <2>2. CASE i # 1
    <3>1. i \in DOMAIN R /\ T[i] = R[i]
      BY <1>2, <1>3, <2>2 DEF IsReset
    <3>2. QED
      BY <1>3, <3>1 DEF JsonScopes
  <2>3. QED
    BY <2>1, <2>2
<1>4. QED
  BY <1>1, <1>2, <1>3 DEF JsonScopes, IsReset

LEMMA JsonSetVar ==
  ASSUME NEW n, NEW R, JsonScopes(R, n), NEW x, NEW v, Json(v)
  PROVE  JsonScopes(SetVar(R, x, v), n)
BY JsonReset DEF SetVar

\* Scopes of which one is another.
LEMMA JsonScopeSet ==
  ASSUME NEW n, NEW R, JsonScopes(R, n), NEW i \in DOMAIN R,
         NEW f, \A x \in DOMAIN f : Json(f[x]), NEW T, T = [R EXCEPT ![i] = f]
  PROVE  JsonScopes(T, n) /\ T[i] = f /\ \A j \in DOMAIN R : j # i => T[j] = R[j]
<1>1. Len(R) \in Nat /\ R = [j \in 1..Len(R) |-> R[j]] /\ DOMAIN R = 1..Len(R)
  BY DEF JsonScopes, Listed
<1>2. T = [j \in 1..Len(R) |-> IF j = i THEN f ELSE R[j]]
  BY <1>1
<1>3. DOMAIN T = 1..Len(R) /\ T[i] = f /\ \A j \in DOMAIN R : j # i => T[j] = R[j]
  BY <1>1, <1>2
<1>4. Len(T) = Len(R)
  BY <1>1, <1>3
<1>5. T = [j \in 1..Len(T) |-> T[j]]
  BY <1>2, <1>3, <1>4
<1>6. Listed(T)
  BY <1>1, <1>4, <1>5 DEF Listed
<1>7. ASSUME NEW j \in DOMAIN T, NEW x \in DOMAIN T[j]
      PROVE  Json(T[j][x])
  BY <1>1, <1>3, <1>7 DEF JsonScopes
<1>8. QED
  BY <1>1, <1>3, <1>4, <1>6, <1>7 DEF JsonScopes

LEMMA JsonMergeVar ==
  ASSUME MergesOnce, NEW n, NEW R, JsonScopes(R, n), NEW x, NEW v, Json(v)
  PROVE  JsonScopes(MergeVar(R, x, v), n)
<1> DEFINE in == {i \in DOMAIN R : x \in DOMAIN R[i]}
           least == CHOOSE i \in in : \A j \in in : i <= j
<1>1. Listed(R) /\ DOMAIN R = 1..Len(R) /\ Len(R) \in Nat
  BY DEF JsonScopes, Listed
<1>2. CASE in = {}
  <2>1. MergeVar(R, x, v) = SetVar(R, x, v)
    BY <1>2 DEF MergeVar
  <2>2. QED
    BY <2>1, JsonSetVar
<1>3. CASE in # {}
  <2>1. in \in SUBSET Nat
    BY <1>1
  <2>2. \E i \in in : \A j \in in : i <= j
    <3> HIDE DEF in
    <3>1. QED
      BY <1>3, <2>1, LeastExists
  <2>3. least \in in
    <3> HIDE DEF in
    <3>1. QED
      BY <2>2
  <2>4. PICK k : k = least
    OBVIOUS
  <2>5. k \in DOMAIN R /\ x \in DOMAIN R[k]
    <3> HIDE DEF least
    <3>1. QED
      BY <2>3, <2>4
  <2>6. MergeVar(R, x, v) = [R EXCEPT ![k] = [R[k] EXCEPT ![x] = Merge(R[k][x], v)]]
    <3>1. MergeVar(R, x, v) = [R EXCEPT ![least] = [R[least] EXCEPT ![x] = Merge(R[least][x], v)]]
      BY <1>3 DEF MergeVar
    <3> HIDE DEF least
    <3>2. QED
      BY <2>4, <3>1
  <2>7. PICK f : f = [R[k] EXCEPT ![x] = Merge(R[k][x], v)]
    OBVIOUS
  <2>8. PICK T : T = MergeVar(R, x, v)
    OBVIOUS
  <2>11. T = [R EXCEPT ![k] = f]
    BY <2>6, <2>7, <2>8
  <2>9. ASSUME NEW y \in DOMAIN f
        PROVE  Json(f[y])
    <3>1. y \in DOMAIN R[k] /\ f[y] = IF y = x THEN Merge(R[k][x], v) ELSE R[k][y]
      BY <2>5, <2>7, <2>9
    <3>2. Json(R[k][x]) /\ Json(R[k][y])
      BY <2>5, <3>1 DEF JsonScopes
    <3>3. Json(Merge(R[k][x], v))
      BY <3>2, JsonMerge
    <3>4. QED
      BY <3>1, <3>2, <3>3
  <2>12. JsonScopes(T, n)
    <3> HIDE DEF in, least
    <3>1. k \in DOMAIN R /\ \A y \in DOMAIN f : Json(f[y])
      BY <2>5, <2>9
    <3>2. QED
      BY <2>11, <3>1, JsonScopeSet
  <2>13. QED
    BY <2>8, <2>12
<1>4. QED
  BY <1>2, <1>3

LEMMA JsonSetPath ==
  ASSUME NEW n, NEW R, JsonScopes(R, n), NEW path \in Seq(STRING), path # <<>>, NEW v, Json(v)
  PROVE  JsonScopes(SetPath(R, path, v), n)
<1>1. PICK old : old = Obj(R[1])
  OBVIOUS
<1>2. Json(old)
  BY <1>1, JsonObject DEF JsonScopes
<1>3. PICK doc : doc = SetAt(old, path, v)
  OBVIOUS
<1>4. Json(doc)
  BY <1>2, <1>3, JsonSetAt
<1>5. PICK y : doc = Placed(old, path[1], y)
  BY <1>3, SetAtFirst
<1>6. Is(old, "object")
  BY <1>1 DEF Obj, Is
<1>7. Is(doc, "object")
  BY <1>5, <1>6 DEF Placed, Obj, Is
<1>8. PICK f : f = doc[2]
  OBVIOUS
<1>9. \A x \in DOMAIN f : Json(f[x])
  BY <1>4, <1>7, <1>8, JsonMembers
<1>10. PICK T : T = SetPath(R, path, v)
  OBVIOUS
<1>11. PICK i \in DOMAIN R : i = 1
  BY DEF JsonScopes
<1>12. T = [R EXCEPT ![i] = f]
  BY <1>1, <1>3, <1>8, <1>10, <1>11 DEF SetPath
<1>13. JsonScopes(T, n)
  BY <1>9, <1>12, JsonScopeSet
<1>14. QED
  BY <1>10, <1>13

\* A scope of its own, and without it again.
LEMMA JsonOnTop ==
  ASSUME NEW n, NEW R, JsonScopes(R, n), NEW a, \A x \in DOMAIN a : Json(a[x])
  PROVE  JsonScopes(<<a>> \o R, n + 1)
<1>1. PICK T : T = <<a>> \o R
  OBVIOUS
<1>2. Atop(T, a, R)
  BY <1>1, OnTop DEF JsonScopes
<1>3. ASSUME NEW i \in DOMAIN T, NEW x \in DOMAIN T[i]
      PROVE  Json(T[i][x])
  BY <1>2, <1>3 DEF Atop, JsonScopes
<1>4. QED
  BY <1>1, <1>2, <1>3 DEF Atop, JsonScopes

LEMMA JsonTail ==
  ASSUME NEW n \in Nat \ {0}, NEW R, JsonScopes(R, n + 1)
  PROVE  JsonScopes(Tail(R), n)
<1> DEFINE A == {R[i] : i \in DOMAIN R}
<1>1. Len(R) = n + 1 /\ R = [i \in 1..Len(R) |-> R[i]] /\ DOMAIN R = 1..n + 1
  BY DEF JsonScopes, Listed
<1>2. R \in Seq(A)
  <2>1. \A i \in 1..n + 1 : R[i] \in A
    BY <1>1
  <2> HIDE DEF A
  <2>2. QED
    BY <1>1, <2>1
<1> HIDE DEF A
<1>3. PICK T : T = Tail(R)
  OBVIOUS
<1>4. T \in Seq(A) /\ Len(T) = n /\ \A i \in 1..n : T[i] = R[i + 1]
  BY <1>1, <1>2, <1>3
<1>5. Listed(T) /\ DOMAIN T = 1..n /\ 1 \in DOMAIN T
  BY <1>4 DEF Listed
<1>6. ASSUME NEW i \in DOMAIN T, NEW x \in DOMAIN T[i]
      PROVE  Json(T[i][x])
  <2>1. i + 1 \in DOMAIN R /\ T[i] = R[i + 1]
    BY <1>1, <1>4, <1>5, <1>6
  <2>2. QED
    BY <1>6, <2>1 DEF JsonScopes
<1>7. QED
  BY <1>3, <1>4, <1>5, <1>6 DEF JsonScopes

\* An expression comes to JSON or to an error, whatever the scopes of JSON; the
\* expressions of keys do.
Gives(e) ==
  \A n \in Nat : \A Q : JsonScopes(Q, n) => Bad(Evaluate(e, Q)) \/ Json(Evaluate(e, Q))
GiveJson(kes) == \A i \in DOMAIN kes : Gives(kes[i].expr)

\* What running may have come to, in scopes of JSON.
JsonRun(r, n) ==
  /\ r = [v |-> r.v, S |-> r.S] /\ (r.v = Null \/ Bad(r.v))
  /\ JsonScopes(r.S, n)

LEMMA JsonOk ==
  ASSUME NEW n, NEW R, JsonScopes(R, n)
  PROVE  JsonRun(Ok(R), n)
BY DEF JsonRun, Ok

LEMMA JsonWith ==
  ASSUME NEW n, NEW r, JsonRun(r, n), NEW v, NEW R, Bad(v) \/ JsonScopes(R, n)
  PROVE  JsonRun(With(r, v, R), n)
<1>1. CASE Bad(r.v)
  BY <1>1 DEF With
<1>2. CASE ~Bad(r.v) /\ Bad(v)
  <2>1. PICK d : d = [r EXCEPT !.v = v]
    OBVIOUS
  <2>2. d = [v |-> v, S |-> r.S]
    BY <2>1 DEF JsonRun
  <2>3. With(r, v, R) = d
    BY <1>2, <2>1 DEF With
  <2>4. QED
    BY <1>2, <2>2, <2>3 DEF JsonRun
<1>3. CASE ~Bad(r.v) /\ ~Bad(v)
  BY <1>3, JsonOk DEF With
<1>4. QED
  BY <1>1, <1>2, <1>3

LEMMA JsonDefinedAs ==
  ASSUME NEW n \in Nat, NEW r, JsonRun(r, n), NEW ke, ke.key \in Seq(STRING), ke.key # <<>>,
         Gives(ke.expr)
  PROVE  JsonRun(DefinedAs(ke, r), n)
<1>1. PICK v : v = Evaluate(ke.expr, r.S)
  OBVIOUS
<1>2. Bad(v) \/ Json(v)
  BY <1>1 DEF Gives, JsonRun
<1>3. PICK path \in Seq(STRING) : path = ke.key /\ path # <<>>
  OBVIOUS
<1>4. PICK R : R = SetPath(r.S, path, v)
  OBVIOUS
<1>5. Json(v) => JsonScopes(R, n)
  BY <1>3, <1>4, JsonSetPath DEF JsonRun
<1>6. DefinedAs(ke, r) = With(r, v, R)
  BY <1>1, <1>3, <1>4 DEF DefinedAs
<1>7. JsonRun(With(r, v, R), n)
  BY <1>2, <1>5, JsonWith
<1>8. QED
  BY <1>6, <1>7

LEMMA JsonDefined ==
  ASSUME NEW n \in Nat, NEW r, JsonRun(r, n), NEW kes, DefinesNoKeyword(kes), GiveJson(kes)
  PROVE  JsonRun(Defined(kes, r), n)
<1>1. Keys(kes) /\ \A i \in DOMAIN kes : kes[i].key # <<>>
  BY DEF DefinesNoKeyword
<1>2. PICK in : in = Ordered(kes)
  OBVIOUS
<1>3. PICK N : N = Len(kes)
  OBVIOUS
<1>4. N \in Nat /\ Arranged(kes, in, N)
  BY <1>1, <1>2, <1>3, KeysFacts, OrderedIs
<1>5. PICK f : Defining(in, r, f, N) /\ Defined(kes, r) = f[N]
  <2> DEFINE after == CHOOSE f : Defining(in, r, f, N)
  <2>1. Defining(in, r, after, N)
    BY <1>4, DefiningExists
  <2>2. Defined(kes, r) = after[N]
    BY <1>2, <1>3 DEF Defined, Defining
  <2>3. QED
    BY <2>1, <2>2
<1> DEFINE U == {m \in Nat : m <= N => JsonRun(f[m], n)}
<1>6. f[0] = r /\ \A m \in 1..N : f[m] = DefinedAs(in[m], f[m - 1])
  BY <1>4, <1>5 DEF Defining
<1>7. 0 \in U
  BY <1>6
<1>8. ASSUME NEW m \in U
      PROVE  m + 1 \in U
  <2> SUFFICES ASSUME m + 1 <= N
               PROVE  JsonRun(f[m + 1], n)
    OBVIOUS
  <2>1. m \in Nat /\ m + 1 \in 1..N /\ (m + 1) - 1 = m /\ m <= N
    BY <1>4
  <2>2. PICK i \in Firsts(kes) : in[m + 1] = kes[i]
    BY <1>4, <2>1 DEF Arranged
  <2>3. PICK ke : ke = in[m + 1]
    OBVIOUS
  <2>4. ke.key \in Seq(STRING) /\ ke.key # <<>> /\ Gives(ke.expr)
    <3>1. i \in DOMAIN kes
      BY DEF Firsts
    <3>2. QED
      BY <1>1, <2>2, <2>3, <3>1, KeysFacts DEF GiveJson
  <2>5. PICK q : q = f[m]
    OBVIOUS
  <2>6. JsonRun(q, n)
    BY <2>1, <2>5
  <2>7. JsonRun(DefinedAs(ke, q), n)
    BY <2>4, <2>6, JsonDefinedAs
  <2>8. QED
    BY <1>6, <2>1, <2>3, <2>5, <2>7
<1>9. U = Nat
  <2> HIDE DEF U
  <2>1. U \in SUBSET Nat
    BY DEF U
  <2>2. QED
    BY <1>7, <1>8, <2>1, AllNaturals
<1>10. QED
  <2>1. N \in U /\ N <= N
    BY <1>4, <1>9
  <2>2. QED
    BY <1>5, <2>1

LEMMA JsonFill ==
  ASSUME NEW n \in Nat, NEW R, JsonScopes(R, n), NEW kes, Keys(kes), GiveJson(kes)
  PROVE  Bad(Fill(kes, R)) \/ Json(Fill(kes, R))
<1>1. CASE kes = <<>>
  BY <1>1, JsonAtoms DEF Fill
<1>2. CASE kes # <<>>
  <2>1. PICK in : in = Ordered(kes)
    OBVIOUS
  <2>2. PICK N : N = Len(kes)
    OBVIOUS
  <2>3. N \in Nat /\ Arranged(kes, in, N)
    BY <2>1, <2>2, KeysFacts, OrderedIs
  <2>4. PICK f : Filling(in, R, f, N) /\ Fill(kes, R) = f[N]
    BY <1>2, <2>1, <2>2, FillIs
  <2> DEFINE U == {m \in Nat : m <= N => Bad(f[m]) \/ Json(f[m])}
  <2>5. f[0] = Obj(<<>>) /\ \A m \in 1..N : f[m] = Filled(in[m], f[m - 1], R)
    BY <2>3, <2>4 DEF Filling
  <2>6. 0 \in U
    <3>1. Json(Obj(<<>>))
      BY JsonObject
    <3>2. QED
      BY <2>5, <3>1
  <2>7. ASSUME NEW m \in U
        PROVE  m + 1 \in U
    <3> SUFFICES ASSUME m + 1 <= N
                 PROVE  Bad(f[m + 1]) \/ Json(f[m + 1])
      OBVIOUS
    <3>1. m \in Nat /\ m + 1 \in 1..N /\ (m + 1) - 1 = m /\ m <= N
      BY <2>3
    <3>2. PICK i \in Firsts(kes) : in[m + 1] = kes[i]
      BY <2>3, <3>1 DEF Arranged
    <3>3. PICK ke : ke = in[m + 1]
      OBVIOUS
    <3>4. ke.key \in Seq(STRING) /\ Gives(ke.expr)
      <4>1. i \in DOMAIN kes
        BY DEF Firsts
      <4>2. QED
        BY <3>2, <3>3, <4>1, KeysFacts DEF GiveJson
    <3>5. PICK v : v = Evaluate(ke.expr, R)
      OBVIOUS
    <3>6. Bad(v) \/ Json(v)
      BY <3>4, <3>5 DEF Gives
    <3>7. PICK doc : doc = f[m]
      OBVIOUS
    <3>8. Bad(doc) \/ Json(doc)
      BY <3>1, <3>7
    <3>9. f[m + 1] = IF Bad(doc) THEN doc ELSE IF Bad(v) THEN v ELSE SetAt(doc, ke.key, v)
      BY <2>5, <3>1, <3>3, <3>5, <3>7 DEF Filled
    <3>10. Json(doc) /\ Json(v) => Json(SetAt(doc, ke.key, v))
      BY <3>4, JsonSetAt
    <3>11. QED
      BY <3>6, <3>8, <3>9, <3>10
  <2>8. U = Nat
    <3> HIDE DEF U
    <3>1. U \in SUBSET Nat
      BY DEF U
    <3>2. QED
      BY <2>6, <2>7, <3>1, AllNaturals
  <2>9. N \in U /\ N <= N
    BY <2>3, <2>8
  <2>10. QED
    BY <2>4, <2>9
<1>3. QED
  BY <1>1, <1>2

LEMMA JsonMergeField ==
  ASSUME MergesOnce, NEW n \in Nat, NEW r, JsonRun(r, n), NEW kes, Keys(kes), GiveJson(kes), NEW x
  PROVE  JsonRun(MergeField(kes, x, r), n)
<1>1. PICK doc : doc = Fill(kes, r.S)
  OBVIOUS
<1>2. Bad(doc) \/ Json(doc)
  BY <1>1, JsonFill DEF JsonRun
<1>3. PICK R : R = IF doc = Null THEN r.S ELSE MergeVar(r.S, x, doc)
  OBVIOUS
<1>4. Json(doc) => JsonScopes(R, n)
  BY <1>3, JsonMergeVar DEF JsonRun
<1>5. MergeField(kes, x, r) = With(r, doc, R)
  BY <1>1, <1>3 DEF MergeField, MergedWith
<1>6. JsonRun(With(r, doc, R), n)
  BY <1>2, <1>4, JsonWith
<1>7. QED
  BY <1>5, <1>6

LEMMA JsonSetTo ==
  ASSUME NEW n, NEW r, JsonRun(r, n), NEW x, NEW v, Bad(v) \/ Json(v)
  PROVE  JsonRun(SetTo(r, x, v), n)
<1>1. PICK R : R = SetVar(r.S, x, v)
  OBVIOUS
<1>2. Json(v) => JsonScopes(R, n)
  BY <1>1, JsonSetVar DEF JsonRun
<1>3. SetTo(r, x, v) = With(r, v, R)
  BY <1>1 DEF SetTo
<1>4. JsonRun(With(r, v, R), n)
  BY <1>2, JsonWith
<1>5. QED
  BY <1>3, <1>4

\* The expressions of a block with its branches; and what comes next.
BlockGives(b) ==
  /\ GiveJson(b.def) /\ GiveJson(b.output)
  /\ \A i \in DOMAIN b.ifs : GiveJson(b.ifs[i].def) /\ GiveJson(b.ifs[i].output)
NextIsJson(next) == next # <<>> => Json(next[1])
NextsAreJson(b) == NextIsJson(b.next) /\ \A i \in DOMAIN b.ifs : NextIsJson(b.ifs[i].next)

LEMMA JsonIf ==
  ASSUME MergesOnce, NEW n \in Nat, NEW R, JsonScopes(R, n),
         NEW c, Branching(c), GiveJson(c.def), GiveJson(c.output)
  PROVE  JsonRun(RunIf(c, R), n)
<1>1. PICK v : v = LogicalAnd(c.cond, R)
  OBVIOUS
<1>2. Bad(v) \/ Json(v)
  <2>1. PICK vs : vs = EvaluateAll(c.cond, R)
    OBVIOUS
  <2>2. Len(c.cond) \in Nat /\ c.cond = [i \in 1..Len(c.cond) |-> c.cond[i]]
    BY DEF Branching, Listed
  <2>3. PICK N \in Nat : N = Len(c.cond) /\ DOMAIN c.cond = 1..N
    BY <2>2
  <2>4. vs = [i \in 1..N |-> Evaluate(c.cond[i], R)]
    BY <2>1, <2>3 DEF EvaluateAll
  <2>5. DOMAIN vs = 1..N
    BY <2>4
  <2>6. Len(vs) = N
    BY <2>5
  <2>7. vs = [i \in 1..N |-> vs[i]]
    BY <2>4
  <2>8. Listed(vs)
    BY <2>6, <2>7 DEF Listed
  <2>9. v = AllTrue(vs)
    BY <1>1, <2>1 DEF LogicalAnd
  <2>10. v \in {Bool(TRUE), Bool(FALSE), Crash, Failure}
    BY <2>8, <2>9, AllTrueIs
  <2>11. QED
    BY <2>10, JsonAtoms DEF Bad
<1>3. PICK r : r = SetTo(Ok(R), "cond", v)
  OBVIOUS
<1>4. JsonRun(r, n)
  <2>1. PICK q : q = Ok(R)
    OBVIOUS
  <2>2. JsonRun(q, n)
    BY <2>1, JsonOk
  <2>3. JsonRun(SetTo(q, "cond", v), n)
    BY <1>2, <2>2, JsonSetTo
  <2>4. QED
    BY <1>3, <2>1, <2>3
<1>5. PICK d : d = Defined(c.def, r)
  OBVIOUS
<1>6. JsonRun(d, n)
  <2>1. DefinesNoKeyword(c.def)
    BY DEF Branching
  <2>2. JsonRun(Defined(c.def, r), n)
    BY <1>4, <2>1, JsonDefined
  <2>3. QED
    BY <1>5, <2>2
<1>7. JsonRun(MergeField(c.output, "output", d), n)
  BY <1>6, JsonMergeField DEF Branching
<1>8. RunIf(c, R) = IF Lookup(r.S, "cond") = Bool(TRUE) THEN MergeField(c.output, "output", d) ELSE r
  BY <1>1, <1>3, <1>5 DEF RunIf, RunBranch
<1>9. QED
  BY <1>4, <1>7, <1>8

LEMMA JsonIfRun ==
  ASSUME MergesOnce, NEW n \in Nat, NEW R, JsonScopes(R, n),
         NEW c, Branching(c), GiveJson(c.def), GiveJson(c.output),
         NEW flow \in BOOLEAN, flow => NextIsJson(c.next)
  PROVE  JsonRun(IfRun(flow, c, R), n + 1)
<1>1. PICK T : T = <<<<>>>> \o R
  OBVIOUS
<1>2. JsonScopes(T, n + 1)
  BY <1>1, JsonOnTop
<1>3. PICK m \in Nat : m = n + 1
  OBVIOUS
<1>4. PICK r : r = RunIf(c, T)
  OBVIOUS
<1>5. JsonRun(r, m)
  BY <1>2, <1>3, <1>4, JsonIf
<1>6. IfRun(flow, c, R) = IF flow THEN WithNext(c.next, r) ELSE r
  BY <1>1, <1>4 DEF IfRun
<1>7. ASSUME flow
      PROVE  JsonRun(WithNext(c.next, r), m)
  <2>1. PICK U : U = IF c.next = <<>> THEN r.S ELSE SetVar(r.S, "next", c.next[1])
    OBVIOUS
  <2>2. JsonScopes(r.S, m)
    BY <1>5 DEF JsonRun
  <2>3. JsonScopes(U, m)
    <3>1. CASE c.next = <<>>
      BY <2>1, <2>2, <3>1
    <3>2. CASE c.next # <<>>
      <4>1. PICK v : v = c.next[1]
        OBVIOUS
      <4>2. Json(v)
        BY <1>7, <3>2, <4>1 DEF NextIsJson
      <4>3. JsonScopes(SetVar(r.S, "next", v), m)
        BY <2>2, <4>2, JsonSetVar
      <4>4. QED
        BY <2>1, <3>2, <4>1, <4>3
    <3>3. QED
      BY <3>1, <3>2
  <2>4. WithNext(c.next, r) = IF r.v = Crash THEN r ELSE Ok(U)
    BY <2>1 DEF WithNext
  <2>5. JsonRun(Ok(U), m)
    BY <2>3, JsonOk
  <2>6. QED
    BY <1>5, <2>4, <2>5
<1>8. JsonRun(IfRun(flow, c, R), m)
  BY <1>5, <1>6, <1>7
<1>9. QED
  BY <1>3, <1>8

LEMMA JsonTaken ==
  ASSUME MergesOnce, NEW n \in Nat \ {0}, NEW r, JsonRun(r, n + 1), NEW flow \in BOOLEAN
  PROVE  JsonRun(Taken(flow, r), n)
<1>1. PICK T : T = Tail(r.S)
  OBVIOUS
<1>2. JsonScopes(T, n)
  BY <1>1, JsonTail DEF JsonRun
<1>3. PICK output, next : output = Lookup(r.S, "output") /\ next = Lookup(r.S, "next")
  OBVIOUS
<1>4. JsonOrNone(output) /\ JsonOrNone(next)
  BY <1>3, JsonLookup DEF JsonRun
<1>5. PICK merged : merged = IF output = Absent THEN T ELSE MergeVar(T, "output", output)
  OBVIOUS
<1>6. JsonScopes(merged, n)
  <2>1. Json(output) => JsonScopes(MergeVar(T, "output", output), n)
    BY <1>2, JsonMergeVar
  <2>2. QED
    BY <1>2, <1>4, <1>5, <2>1 DEF JsonOrNone
<1>7. PICK U : U = IF flow /\ next # Absent THEN SetVar(merged, "next", next) ELSE merged
  OBVIOUS
<1>8. JsonScopes(U, n)
  <2>1. Json(next) => JsonScopes(SetVar(merged, "next", next), n)
    BY <1>6, JsonSetVar
  <2>2. QED
    BY <1>4, <1>6, <1>7, <2>1 DEF JsonOrNone
<1>9. Taken(flow, r) = IF r.v = Crash THEN [v |-> Crash, S |-> T]
                       ELSE IF Lookup(r.S, "cond") = Absent THEN [v |-> Failure, S |-> T]
                       ELSE Ok(U)
  BY <1>1, <1>3, <1>5, <1>7 DEF Taken
<1>10. JsonRun(Ok(U), n)
  BY <1>8, JsonOk
<1>11. JsonRun([v |-> Crash, S |-> T], n) /\ JsonRun([v |-> Failure, S |-> T], n)
  BY <1>2 DEF JsonRun, Bad
<1>12. QED
  BY <1>9, <1>10, <1>11

\* The output of a block.
LEMMA JsonOutput ==
  ASSUME MergesOnce, NEW n \in Nat \ {0}, NEW r, JsonRun(r, n),
         NEW b, Chooses(b), BlockGives(b), NEW flow \in BOOLEAN, flow => NextsAreJson(b)
  PROVE  JsonRun(Output(flow, b, r), n)
<1>1. CASE Bad(r.v)
  BY <1>1 DEF Output
<1>2. CASE ~Bad(r.v)
  <2>1. PICK runs : runs = [i \in DOMAIN b.ifs |-> IfRun(flow, b.ifs[i], r.S)]
    OBVIOUS
  <2>2. DOMAIN b.ifs = 1..Len(b.ifs) /\ \A i \in DOMAIN b.ifs : Branching(b.ifs[i])
    BY DEF Chooses, ListOf, Listed
  <2>3. DOMAIN runs = DOMAIN b.ifs
    BY <2>1
  <2>4. PICK is : is = {i \in DOMAIN runs : Decides(runs[i])}
    OBVIOUS
  <2>5. Output(flow, b, r) = IF is # {} THEN Taken(flow, runs[Deciding(is)])
                             ELSE Default(flow, b, MergeField(b.output, "output", r))
    BY <1>2, <2>1, <2>4 DEF Output, Chosen
  <2>6. CASE is # {}
    <3>1. is \in SUBSET Nat
      BY <2>2, <2>3, <2>4
    <3>2. \E i \in is : \A j \in is : i <= j
      BY <2>6, <3>1, LeastExists
    <3>3. PICK i : i = Deciding(is)
      OBVIOUS
    <3>4. i \in is
      BY <3>2, <3>3 DEF Deciding
    <3>5. i \in DOMAIN b.ifs /\ runs[i] = IfRun(flow, b.ifs[i], r.S)
      BY <2>1, <2>3, <2>4, <3>4
    <3>6. PICK c : c = b.ifs[i]
      OBVIOUS
    <3>7. Branching(c) /\ GiveJson(c.def) /\ GiveJson(c.output) /\ (flow => NextIsJson(c.next))
      BY <2>2, <3>5, <3>6 DEF BlockGives, NextsAreJson
    <3>8. PICK R : R = r.S
      OBVIOUS
    <3>9. JsonScopes(R, n)
      BY <3>8 DEF JsonRun
    <3>10. JsonRun(IfRun(flow, c, R), n + 1)
      BY <3>7, <3>9, JsonIfRun
    <3>11. PICK q : q = runs[i]
      OBVIOUS
    <3>12. JsonRun(q, n + 1)
      BY <3>5, <3>6, <3>8, <3>10, <3>11
    <3>13. JsonRun(Taken(flow, q), n)
      BY <3>12, JsonTaken
    <3>14. QED
      BY <2>5, <2>6, <3>3, <3>11, <3>13
  <2>7. CASE is = {}
    <3>1. PICK q : q = MergeField(b.output, "output", r)
      OBVIOUS
    <3>2. JsonRun(q, n)
      <4>1. Keys(b.output) /\ GiveJson(b.output)
        BY DEF Chooses, BlockGives
      <4>2. JsonRun(MergeField(b.output, "output", r), n)
        BY <4>1, JsonMergeField
      <4>3. QED
        BY <3>1, <4>2
    <3>3. JsonRun(Default(flow, b, q), n)
      <4>1. CASE Bad(q.v) \/ ~flow \/ b.next = <<>>
        BY <3>2, <4>1 DEF Default
      <4>2. CASE ~(Bad(q.v) \/ ~flow \/ b.next = <<>>)
        <5>1. PICK v : v = b.next[1]
          OBVIOUS
        <5>2. Json(v)
          BY <4>2, <5>1 DEF NextsAreJson, NextIsJson
        <5>3. JsonRun(SetTo(q, "next", v), n)
          BY <3>2, <5>2, JsonSetTo
        <5>4. QED
          BY <4>2, <5>1, <5>3 DEF Default
      <4>3. QED
        BY <4>1, <4>2
    <3>4. QED
      BY <2>5, <2>7, <3>1, <3>3
  <2>8. QED
    BY <2>6, <2>7
<1>3. QED
  BY <1>1, <1>2

\* What an answer is parsed to.
LEMMA JsonResponse ==
  ASSUME MergesOnce, NEW n \in Nat, NEW R, JsonScopes(R, n), NEW kind, NEW came,
         Bad(Received(kind, came)) \/ Json(Received(kind, came)),
         NEW b, Answers1(b), Len(b.include) <= 1, BlockGives(b),
         \A i \in DOMAIN b.include : BlockGives(b.include[i])
  PROVE  Bad(Response(kind, b, came, R)) \/ Json(Response(kind, b, came, R))
<1>1. PICK received : received = Received(kind, came)
  OBVIOUS
<1>2. CASE Bad(received)
  BY <1>1, <1>2 DEF Response
<1>3. CASE ~Bad(received)
  <2>1. Json(received)
    BY <1>1, <1>3
  <2>2. PICK T : T = <<[response |-> received]>> \o R
    OBVIOUS
  <2>3. PICK a : a = [response |-> received]
    OBVIOUS
  <2>4. \A x \in DOMAIN a : Json(a[x])
    BY <2>1, <2>3
  <2>5. PICK m \in Nat \ {0} : m = n + 1
    OBVIOUS
  <2>6. JsonScopes(T, m)
    <3>1. JsonScopes(<<a>> \o R, n + 1)
      BY <2>4, JsonOnTop
    <3>2. QED
      BY <2>2, <2>3, <2>5, <3>1
  <2>7. Chooses(b) /\ DefinesNoKeyword(b.def) /\ GiveJson(b.def)
    BY DEF Answers1, Chooses, BlockGives
  <2>8. PICK q : q = Ok(T)
    OBVIOUS
  <2>9. PICK r : r = Defined(b.def, q)
    OBVIOUS
  <2>10. JsonRun(r, m)
    <3>1. JsonRun(q, m)
      BY <2>6, <2>8, JsonOk
    <3>2. JsonRun(Defined(b.def, q), m)
      BY <2>7, <3>1, JsonDefined
    <3>3. QED
      BY <2>9, <3>2
  <2>11. PICK d : d = IF b.include = <<>> THEN r ELSE WithOutput(b.include[1], r)
    OBVIOUS
  <2>12. JsonRun(d, m)
    <3>1. CASE b.include = <<>>
      BY <2>10, <2>11, <3>1
    <3>2. CASE b.include # <<>>
      <4>1. PICK c : c = b.include[1]
        OBVIOUS
      <4>2. Chooses(c) /\ DefinesNoKeyword(c.def) /\ GiveJson(c.def) /\ BlockGives(c)
        <5>1. Listed(b.include) /\ \A i \in DOMAIN b.include : Chooses(b.include[i])
          BY DEF Answers1, ListOf
        <5>2. 1 \in DOMAIN b.include
          <6>1. b.include = [i \in 1..Len(b.include) |-> b.include[i]] /\ Len(b.include) \in Nat
            BY <5>1 DEF Listed
          <6>2. Len(b.include) = 0 => b.include = <<>>
            BY <6>1
          <6>3. QED
            BY <3>2, <6>1, <6>2
        <5>3. QED
          BY <4>1, <5>1, <5>2 DEF Chooses, BlockGives
      <4>3. PICK e : e = Defined(c.def, r)
        OBVIOUS
      <4>4. JsonRun(Defined(c.def, r), m)
        BY <2>10, <4>2, JsonDefined
      <4>5. JsonRun(e, m)
        BY <4>3, <4>4
      <4>6. JsonRun(Output(FALSE, c, e), m)
        BY <4>2, <4>5, JsonOutput
      <4>7. QED
        BY <2>11, <3>2, <4>1, <4>3, <4>6 DEF WithOutput
    <3>3. QED
      BY <3>1, <3>2
  <2>13. PICK o : o = Output(FALSE, b, d)
    OBVIOUS
  <2>14. JsonRun(o, m)
    <3>1. JsonRun(Output(FALSE, b, d), m)
      BY <2>7, <2>12, JsonOutput
    <3>2. QED
      BY <2>13, <3>1
  <2>15. RunResponse(b, T) = o
    BY <2>8, <2>9, <2>11, <2>13 DEF RunResponse
  <2>16. Response(kind, b, came, R) = OutputOf(o)
    BY <1>1, <1>3, <2>2, <2>15 DEF Response
  <2>17. JsonOrNone(Lookup(o.S, "output"))
    BY <2>14, JsonLookup DEF JsonRun
  <2>18. OutputOf(o) = IF Bad(o.v) THEN o.v
                       ELSE IF Lookup(o.S, "output") = Absent THEN Failure ELSE Lookup(o.S, "output")
    BY DEF OutputOf
  <2>19. Bad(Failure)
    BY DEF Bad
  <2>20. QED
    BY <2>16, <2>17, <2>18, <2>19 DEF JsonOrNone
<1>4. QED
  BY <1>2, <1>3

-----------------------------------------------------------------------------
(* JSON is whole, down to any depth.                                       *)

PartsOf(X) == UNION {Children(w) : w \in X}
Parting(v, f, N) == f = [n \in 0..N |-> IF n = 0 THEN {v} ELSE PartsOf(f[n - 1])]

LEMMA PartingExists ==
  ASSUME NEW v
  PROVE  \A N \in Nat : \E f : Parting(v, f, N)
<1> DEFINE T == {N \in Nat : \E f : Parting(v, f, N)}
<1>1. 0 \in T
  <2>1. Parting(v, [n \in 0..0 |-> {v}], 0)
    BY DEF Parting
  <2>2. QED
    BY <2>1
<1>2. ASSUME NEW N \in T
      PROVE  N + 1 \in T
  <2>1. PICK f : Parting(v, f, N)
    OBVIOUS
  <2> DEFINE g == [n \in 0..N + 1 |-> IF n = N + 1 THEN PartsOf(f[N]) ELSE f[n]]
  <2>2. \A n \in 0..N : g[n] = f[n] /\ f[n] = IF n = 0 THEN {v} ELSE PartsOf(f[n - 1])
    <3>1. \A n \in 0..N : f[n] = IF n = 0 THEN {v} ELSE PartsOf(f[n - 1])
      BY <2>1 DEF Parting
    <3>2. \A n \in 0..N : g[n] = f[n]
      OBVIOUS
    <3>3. QED
      BY <3>1, <3>2
  <2>3. \A n \in 0..N + 1 : g[n] = IF n = 0 THEN {v} ELSE PartsOf(g[n - 1])
    <3>1. ASSUME NEW n \in 0..N + 1
          PROVE  g[n] = IF n = 0 THEN {v} ELSE PartsOf(g[n - 1])
      <4>1. CASE n = N + 1
        <5>1. g[n] = PartsOf(f[N]) /\ n - 1 = N /\ n # 0 /\ N \in 0..N
          BY <4>1
        <5>2. g[N] = f[N]
          BY <2>2, <5>1
        <5> HIDE DEF g
        <5>3. QED
          BY <4>1, <5>1, <5>2
      <4>2. CASE n # N + 1
        <5>1. n \in 0..N /\ (n # 0 => n - 1 \in 0..N)
          BY <4>2
        <5> HIDE DEF g
        <5>2. QED
          BY <2>2, <5>1
      <4>3. QED
        BY <4>1, <4>2
    <3>2. QED
      BY <3>1
  <2>4. g = [n \in 0..N + 1 |-> g[n]]
    OBVIOUS
  <2>5. Parting(v, g, N + 1)
    <3> HIDE DEF g
    <3>1. QED
      BY <2>3, <2>4 DEF Parting
  <2>6. QED
    BY <2>5
<1>3. T = Nat
  <2> HIDE DEF T
  <2>1. T \in SUBSET Nat
    BY DEF T
  <2>2. QED
    BY <1>1, <1>2, <2>1, AllNaturals
<1>4. QED
  BY <1>3

LEMMA JsonIsWhole ==
  ASSUME NEW v, Json(v)
  PROVE  Whole(v)
<1> SUFFICES ASSUME NEW N \in Depths, NEW w \in Parts(v, N)
             PROVE  w[1] \in JsonTypes
  BY DEF Whole
<1>1. N \in Nat
  BY DepthAssumption
<1>2. PICK f : Parting(v, f, N) /\ Parts(v, N) = f[N]
  <2> DEFINE deep == CHOOSE f : Parting(v, f, N)
  <2>1. Parting(v, deep, N)
    BY <1>1, PartingExists
  <2>2. Parts(v, N) = deep[N]
    BY DEF Parts, Parting, PartsOf
  <2>3. QED
    BY <2>1, <2>2
<1>3. f[0] = {v} /\ \A n \in 1..N : f[n] = PartsOf(f[n - 1])
  <2>1. \A n \in 0..N : f[n] = IF n = 0 THEN {v} ELSE PartsOf(f[n - 1])
    BY <1>2 DEF Parting
  <2>2. 0 \in 0..N /\ \A n \in 1..N : n \in 0..N /\ n # 0
    BY <1>1
  <2>3. QED
    BY <2>1, <2>2
<1> DEFINE U == {n \in Nat : n <= N => \A u \in f[n] : Json(u)}
<1>4. 0 \in U
  BY <1>3
<1>5. ASSUME NEW n \in U
      PROVE  n + 1 \in U
  <2> SUFFICES ASSUME n + 1 <= N, NEW u \in f[n + 1]
               PROVE  Json(u)
    OBVIOUS
  <2>1. n \in Nat /\ n + 1 \in 1..N /\ (n + 1) - 1 = n /\ n <= N
    BY <1>1
  <2>2. f[n + 1] = PartsOf(f[n])
    BY <1>3, <2>1
  <2>3. PICK x \in f[n] : u \in Children(x)
    BY <2>2 DEF PartsOf
  <2>4. Json(x)
    BY <2>1
  <2>5. QED
    BY <2>3, <2>4, JsonHas
<1>6. U = Nat
  <2> HIDE DEF U
  <2>1. U \in SUBSET Nat
    BY DEF U
  <2>2. QED
    BY <1>4, <1>5, <2>1, AllNaturals
<1>7. N \in U /\ N <= N
  BY <1>1, <1>6
<1>8. Json(w)
  BY <1>2, <1>7
<1>9. QED
  BY <1>8, JsonHas

-----------------------------------------------------------------------------
(* What a node stores is JSON.                                             *)

\* The answers in `backend' are the request's; the node's scope has none.
Homes(R) ==
  /\ "backend" \in DOMAIN R[2] /\ Is(R[2]["backend"], "object") /\ "backend" \notin DOMAIN R[1]

LEMMA HomesLookup ==
  ASSUME NEW R, JsonScopes(R, 2), Homes(R)
  PROVE  Lookup(R, "backend") = R[2]["backend"]
<1> DEFINE in == {i \in DOMAIN R : "backend" \in DOMAIN R[i]}
           least == CHOOSE i \in in : \A j \in in : i <= j
<1>1. DOMAIN R = 1..2
  BY DEF JsonScopes, Listed
<1>2. in = {2}
  BY <1>1 DEF Homes
<1>3. Lookup(R, "backend") = R[least]["backend"]
  BY <1>2 DEF Lookup
<1>4. least = 2
  <2>1. \A i : i \in in <=> i = 2
    BY <1>2
  <2> HIDE DEF in
  <2>2. \E i \in in : \A j \in in : i <= j
    BY <2>1
  <2>3. least \in in
    BY <2>2
  <2>4. QED
    BY <2>1, <2>3
<1>5. QED
  BY <1>3, <1>4

LEMMA HomesReset ==
  ASSUME NEW R, JsonScopes(R, 2), Homes(R), NEW x, x # "backend", NEW v
  PROVE  Homes(Reset(R, x, v))
<1>1. PICK T : T = Reset(R, x, v)
  OBVIOUS
<1>2. IsReset(T, R, x, v)
  BY <1>1, ResetIs DEF JsonScopes
<1>3. 2 \in DOMAIN R
  BY DEF JsonScopes, Listed
<1>4. T[2] = R[2] /\ T[1] = [y \in DOMAIN R[1] \cup {x} |-> IF y = x THEN v ELSE R[1][y]]
  BY <1>2, <1>3 DEF IsReset
<1>5. DOMAIN T[1] = DOMAIN R[1] \cup {x}
  BY <1>4
<1>6. Homes(T)
  BY <1>4, <1>5 DEF Homes
<1>7. QED
  BY <1>1, <1>6

LEMMA HomesKept ==
  ASSUME NEW R, JsonScopes(R, 2), Homes(R), NEW T, Keeps(T, R)
  PROVE  Homes(T)
<1>1. T[2] = R[2]
  BY DEF Keeps, JsonScopes, Listed
<1>2. "backend" \in Preserved
  BY DEF Preserved, Keywords
<1>3. "backend" \notin DOMAIN T[1]
  <2> HIDE DEF Preserved
  <2>1. QED
    BY <1>2 DEF Keeps, Homes
<1>4. QED
  BY <1>1, <1>3 DEF Homes

\* What the services of a node give: their blocks, and what comes of their calls.
CallsGive(service) ==
  /\ service.kind = "redis" =>
       \A i \in DOMAIN service.came : Bad(ParseReply(service.came[i])) \/ Json(ParseReply(service.came[i]))
  /\ service.kind # "redis" =>
       \A i \in DOMAIN service.came : Bad(service.came[i]) \/ Json(service.came[i])
  /\ service.kind \notin {"redis", "dynamic"} => service.came # <<>>
ServiceGives(service) ==
  /\ CallsGive(service)
  /\ \A i \in DOMAIN service.response :
       /\ BlockGives(service.response[i])
       /\ \A j \in DOMAIN service.response[i].include : BlockGives(service.response[i].include[j])
RankGives(b) == Gives(b.input) /\ \A i \in DOMAIN b.sortBy : Gives(b.sortBy[i].expr)

\* Whatever is configured, and what comes from outside, gives JSON or an error.
AllGive ==
  \A s \in Setups :
    /\ Json(s.request) /\ BlockGives(s) /\ NextsAreJson(s)
    /\ \A n \in DOMAIN s.rank : RankGives(s.rank[n])
    /\ \A i \in DOMAIN s.services : ServiceGives(s.services[i])

LEMMA JsonAllOf ==
  ASSUME NEW vs, Listed(vs), \A i \in DOMAIN vs : Bad(vs[i]) \/ Json(vs[i])
  PROVE  /\ Bad(AllOf(vs)) \/ Json(AllOf(vs))
         /\ ~Bad(AllOf(vs)) => AllOf(vs) = Arr(vs)
<1> DEFINE bad == {i \in DOMAIN vs : Bad(vs[i])}
           least == CHOOSE i \in bad : \A j \in bad : i <= j
<1>1. AllOf(vs) = IF bad = {} THEN Arr(vs) ELSE vs[least]
  BY DEF AllOf, First
<1>2. CASE bad = {}
  <2>1. \A i \in DOMAIN vs : Json(vs[i])
    BY <1>2
  <2>2. QED
    BY <1>1, <1>2, <2>1, JsonArray
<1>3. CASE bad # {}
  <2>1. bad \in SUBSET Nat
    BY DEF Listed
  <2>2. least \in bad
    <3> HIDE DEF bad
    <3>1. \E i \in bad : \A j \in bad : i <= j
      BY <1>3, <2>1, LeastExists
    <3>2. QED
      BY <3>1
  <2> HIDE DEF least
  <2>3. Bad(vs[least])
    BY <2>2
  <2>4. QED
    BY <1>1, <1>3, <2>3
<1>4. QED
  BY <1>2, <1>3

\* What a service is parsed with.
LEMMA JsonReceived ==
  ASSUME NEW service, CallsGive(service), Listed(service.came), NEW came,
         \/ came = service.came
         \/ service.kind = "redis" /\ came = <<>>
         \/ service.kind \notin {"redis", "dynamic"} /\ came = <<Str(<<>>)>>
         \/ /\ service.kind = "dynamic"
            /\ \E n \in 0..Len(service.came) : came = SubSeq(service.came, 1, n)
  PROVE  Bad(Received(service.kind, came)) \/ Json(Received(service.kind, came))
<1>1. PICK kind : kind = service.kind
  OBVIOUS
<1>2. Len(service.came) \in Nat /\ DOMAIN service.came = 1..Len(service.came)
  BY DEF Listed
<1>3. CASE kind = "redis"
  <2>1. PICK vs : vs = [i \in DOMAIN came |-> WithError(came[i], ParseReply(came[i]))]
    OBVIOUS
  <2>2. PICK N \in Nat : DOMAIN came = 1..N
    <3>1. CASE came = <<>>
      BY <3>1
    <3>2. CASE came = service.came
      BY <1>2, <3>2
    <3>3. QED
      BY <1>1, <1>3, <3>1, <3>2
  <2>3. vs = [i \in 1..N |-> vs[i]] /\ DOMAIN vs = 1..N
    BY <2>1, <2>2
  <2>4. Len(vs) = N
    BY <2>3
  <2>5. Listed(vs)
    BY <2>3, <2>4 DEF Listed
  <2>6. ASSUME NEW i \in DOMAIN vs
        PROVE  Bad(vs[i]) \/ Json(vs[i])
    <3>1. PICK v : v = ParseReply(came[i])
      OBVIOUS
    <3>2. Bad(v) \/ Json(v)
      <4>1. CASE came = <<>>
        BY <2>1, <2>6, <4>1
      <4>2. CASE came = service.came
        BY <1>1, <1>3, <2>2, <2>3, <2>6, <3>1, <4>2 DEF CallsGive
      <4>3. QED
        BY <1>1, <1>3, <4>1, <4>2
    <3>3. vs[i] = WithError(came[i], v)
      BY <2>1, <2>2, <2>3, <2>6, <3>1
    <3>4. PICK e : e = Num(IF came[i][1] = "error" THEN 1 ELSE 0)
      OBVIOUS
    <3>5. Json(e)
      BY <3>4, JsonAtoms
    <3>6. PICK f : f = [error |-> e, data |-> v]
      OBVIOUS
    <3>7. WithError(came[i], v) = IF Bad(v) THEN v ELSE Obj(f)
      BY <3>4, <3>6 DEF WithError
    <3>8. Json(v) => \A k \in DOMAIN f : Json(f[k])
      BY <3>5, <3>6
    <3>9. Json(v) => Json(Obj(f))
      BY <3>8, JsonObject
    <3>10. QED
      BY <3>2, <3>3, <3>7, <3>9
  <2>7. Received(kind, came) = AllOf(vs)
    BY <1>3, <2>1 DEF Received
  <2>8. QED
    BY <1>1, <2>5, <2>6, <2>7, JsonAllOf
<1>4. CASE kind = "dynamic"
  <2>1. Listed(came) /\ \A i \in DOMAIN came : Bad(came[i]) \/ Json(came[i])
    <3>1. \A i \in DOMAIN service.came : Bad(service.came[i]) \/ Json(service.came[i])
      BY <1>1, <1>4 DEF CallsGive
    <3>2. CASE came = service.came
      BY <3>1, <3>2
    <3>3. CASE came # service.came
      <4>1. PICK n \in 0..Len(service.came) : came = SubSeq(service.came, 1, n)
        BY <1>1, <1>4, <3>3
      <4>2. n \in Nat /\ came = [i \in 1..n |-> service.came[i]]
        <5>1. came = [i \in 1..(n - 1) + 1 |-> service.came[(i + 1) - 1]]
          BY <1>2, <4>1
        <5>2. n \in Nat /\ (n - 1) + 1 = n
          BY <1>2
        <5>3. \A i \in 1..n : (i + 1) - 1 = i
          BY <5>2
        <5>4. QED
          BY <5>1, <5>2, <5>3
      <4>3. DOMAIN came = 1..n /\ \A i \in 1..n : came[i] = service.came[i] /\ i \in DOMAIN service.came
        BY <1>2, <4>1, <4>2
      <4>4. Len(came) = n
        BY <4>2, <4>3
      <4>5. QED
        BY <3>1, <4>2, <4>3, <4>4 DEF Listed
    <3>4. QED
      BY <3>2, <3>3
  <2>2. Received(kind, came) = AllOf(came)
    BY <1>4 DEF Received
  <2>3. QED
    BY <1>1, <2>1, <2>2, JsonAllOf
<1>5. CASE kind \notin {"redis", "dynamic"}
  <2>1. Received(kind, came) = came[1]
    BY <1>5 DEF Received
  <2>2. Bad(came[1]) \/ Json(came[1])
    <3>1. CASE came = service.came
      <4>1. service.came # <<>> /\ \A i \in DOMAIN service.came : Bad(service.came[i]) \/ Json(service.came[i])
        BY <1>1, <1>5 DEF CallsGive
      <4>2. Len(service.came) = 0 => service.came = <<>>
        BY DEF Listed
      <4>3. 1 \in DOMAIN service.came
        BY <1>2, <4>1, <4>2
      <4>4. QED
        BY <3>1, <4>1, <4>3
    <3>2. CASE came = <<Str(<<>>)>>
      BY <3>2, JsonAtoms
    <3>3. QED
      BY <1>1, <1>5, <3>1, <3>2
  <2>3. QED
    BY <1>1, <2>1, <2>2
<1>6. QED
  BY <1>3, <1>4, <1>5

\* The inductive invariant: what is stored is JSON, positions are inside the lists, no
\* more is sent or answered than there are services gone past, and nothing is ranked
\* before ranking begins.
Before1 == {"define", "build", "parse", "recalled"}
StoredJson ==
  /\ setup \in Setups /\ pc \in Before1 \cup {"input", "collect", "sort", "output"} \cup Final
  /\ JsonScopes(S, 2) /\ (pc \notin Final => Homes(S))
  /\ at \in Nat \ {0} /\ part \in Nat \ {0} /\ block \in Nat \ {0}
Rows ==
  /\ Listed(input) /\ \A i \in DOMAIN input : Json(input[i])
  /\ Listed(collected)
  /\ \A i \in DOMAIN collected : Json(collected[i].name) /\ Json(Arr(collected[i].features))
Counted ==
  /\ Listed(sent) /\ Len(sent) <= Len(setup.services)
  /\ Listed(answered) /\ Len(answered) <= Len(setup.services) /\ ToSet(answered) \subseteq Services
  /\ pc = "define" => at = 1 /\ sent = <<>> /\ answered = <<>>
  /\ pc = "build" => at \in DOMAIN setup.services /\ Len(sent) = at - 1 /\ answered = <<>>
  /\ pc = "parse" =>
       at \in DOMAIN setup.services /\ Len(sent) = Len(setup.services) /\ Len(answered) <= at - 1
Unranked(R) ==
  \A i \in DOMAIN R : "recall" \notin DOMAIN R[i] /\ "rank" \notin DOMAIN R[i]
Begins(R) ==
  /\ Lookup(R, "rank") = Absent /\ Is(Lookup(R, "recall"), "array")
  /\ Lookup(R, "recall")[2] \in Seq({Word(s) : s \in Services})
Blocks1 ==
  /\ pc \in Before1 => block = 1 /\ Unranked(S)
  /\ pc \in {"input", "collect", "sort"} => block \in DOMAIN setup.rank
  /\ pc = "input" /\ block = 1 => Begins(S)
Stored == StoredJson /\ Rows /\ Counted /\ Blocks1

LEMMA AppendListed ==
  ASSUME NEW s, Listed(s), NEW x, NEW t, t = Append(s, x)
  PROVE  /\ Listed(t) /\ Len(t) = Len(s) + 1 /\ ToSet(t) = ToSet(s) \cup {x}
         /\ t[Len(s) + 1] = x /\ \A i \in DOMAIN s : t[i] = s[i]
<1> DEFINE A == ToSet(s) \cup {x}
<1>1. s \in Seq(A)
  <2>1. \A i \in 1..Len(s) : s[i] \in A
    BY DEF ToSet, Listed
  <2> HIDE DEF A
  <2>2. QED
    BY <2>1 DEF Listed
<1>2. x \in A
  OBVIOUS
<1>3. t \in Seq(A) /\ Len(t) = Len(s) + 1 /\ t[Len(s) + 1] = x /\ \A i \in 1..Len(s) : t[i] = s[i]
  <2> HIDE DEF A
  <2>1. QED
    BY <1>1, <1>2
<1>4. Listed(t) /\ DOMAIN t = 1..Len(s) + 1 /\ DOMAIN s = 1..Len(s) /\ Len(s) \in Nat
  <2> HIDE DEF A
  <2>1. \A u \in Seq(A) : Len(u) \in Nat /\ DOMAIN u = 1..Len(u)
                        /\ u = [i \in 1..Len(u) |-> u[i]]
    OBVIOUS
  <2>2. Len(t) \in Nat /\ DOMAIN t = 1..Len(t) /\ t = [i \in 1..Len(t) |-> t[i]]
    BY <1>3, <2>1
  <2>3. Len(s) \in Nat /\ DOMAIN s = 1..Len(s)
    BY <1>1, <2>1
  <2>4. Listed(t)
    BY <2>2 DEF Listed
  <2>5. Len(t) = Len(s) + 1
    BY <1>3
  <2>6. QED
    BY <2>2, <2>3, <2>4, <2>5
<1>5. ToSet(t) = ToSet(s) \cup {x}
  <2>1. \A i \in DOMAIN t : i \in DOMAIN s \/ i = Len(s) + 1
    BY <1>4
  <2>2. \A i \in DOMAIN s : i \in DOMAIN t
    BY <1>4
  <2>3. Len(s) + 1 \in DOMAIN t
    BY <1>4
  <2>4. \A y : y \in ToSet(t) <=> \E i \in DOMAIN t : t[i] = y
    BY DEF ToSet
  <2>5. \A y : y \in ToSet(s) <=> \E i \in DOMAIN s : s[i] = y
    BY DEF ToSet
  <2>6. \A i \in DOMAIN s : t[i] = s[i]
    BY <1>3, <1>4
  <2>7. QED
    BY <1>3, <2>1, <2>2, <2>3, <2>4, <2>5, <2>6
<1>6. QED
  BY <1>3, <1>4, <1>5

LEMMA NoServices == Listed(<<>>) /\ Len(<<>>) = 0 /\ ToSet(<<>>) \subseteq Services
BY DEF Listed, ToSet

LEMMA StoredInit ==
  ASSUME AllGive, Init
  PROVE  Stored
<1>1. PICK scope : scope = [request |-> setup.request, backend |-> Obj(<<>>), result |-> Obj(<<>>)]
  OBVIOUS
<1>2. PICK none : none = <<>>
  OBVIOUS
<1>3. S = <<none, scope>> /\ DOMAIN none = {}
  BY <1>1, <1>2 DEF Init
<1>4. Listed(S) /\ Len(S) = 2 /\ DOMAIN S = 1..2 /\ S[1] = none /\ S[2] = scope
  BY <1>3 DEF Listed
<1>5. Json(setup.request) /\ Json(Obj(<<>>))
  BY JsonObject DEF AllGive, Init
<1>6. DOMAIN scope = {"request", "backend", "result"} /\ scope["request"] = setup.request
      /\ scope["backend"] = Obj(<<>>) /\ scope["result"] = Obj(<<>>)
  BY <1>1
<1>7. \A x \in DOMAIN scope : Json(scope[x])
  BY <1>5, <1>6
<1>8. \A i \in DOMAIN S : i = 1 \/ i = 2
  BY <1>4
<1>9. JsonScopes(S, 2)
  BY <1>3, <1>4, <1>7, <1>8 DEF JsonScopes
<1>10. Homes(S) /\ Unranked(S)
  BY <1>3, <1>4, <1>6, <1>8 DEF Homes, Unranked, Obj, Is
<1>11. setup \in Setups /\ pc = "define" /\ at = 1 /\ part = 1 /\ block = 1 /\ input = <<>>
       /\ collected = <<>> /\ sent = <<>> /\ answered = <<>>
  BY DEF Init
<1>12. Len(setup.services) \in Nat
  BY <1>11, SetupFacts
<1>13. StoredJson
  BY <1>9, <1>10, <1>11 DEF StoredJson, Before1
<1>14. Rows
  BY <1>11, NoServices DEF Rows
<1>15. Counted
  BY <1>11, <1>12, NoServices DEF Counted
<1>16. Blocks1
  BY <1>10, <1>11 DEF Blocks1
<1>17. QED
  BY <1>13, <1>14, <1>15, <1>16 DEF Stored

LEMMA StoredDefine ==
  ASSUME AllGive, Stored, Define
  PROVE  Stored'
<1>1. PICK q : q = Defined(setup.def, Ok(S))
  OBVIOUS
<1>2. PICK r : r = Defined(setup.def, q)
  OBVIOUS
<1>3. /\ pc = "define" /\ S' = r.S
      /\ pc' = Outcome(r.v, IF setup.services = <<>> THEN "recalled" ELSE "build")
      /\ UNCHANGED <<setup, at, rankVars, sent, answered>>
  BY <1>1, <1>2 DEF Define
<1>4. setup \in Setups /\ JsonScopes(S, 2) /\ Homes(S) /\ Unranked(S)
  BY <1>3 DEF Stored, StoredJson, Blocks1, Before1, Final
<1>5. DefinesNoKeyword(setup.def) /\ GiveJson(setup.def)
  BY <1>4, SetupFacts DEF AllGive, BlockGives
<1>6. JsonRun(q, 2) /\ JsonRun(r, 2)
  <2>1. PICK p : p = Ok(S)
    OBVIOUS
  <2>2. JsonRun(p, 2)
    BY <1>4, <2>1, JsonOk
  <2>3. PICK n \in Nat : n = 2
    OBVIOUS
  <2>4. JsonRun(Defined(setup.def, p), n)
    BY <1>5, <2>2, <2>3, JsonDefined
  <2>5. JsonRun(q, n)
    BY <1>1, <2>1, <2>4
  <2>6. JsonRun(Defined(setup.def, q), n)
    BY <1>5, <2>5, JsonDefined
  <2>7. QED
    BY <1>2, <2>3, <2>5, <2>6
<1>7. Keeps(r.S, S)
  <2>1. Run(Ok(S)) /\ Ok(S).S = S
    BY <1>4, OkRuns DEF JsonScopes
  <2>2. Run(q) /\ Keeps(q.S, S)
    BY <1>1, <1>5, <2>1, DefinedRuns
  <2>3. Keeps(r.S, q.S)
    BY <1>2, <1>5, <2>2, DefinedRuns
  <2>4. 1 \in DOMAIN S
    BY <1>4 DEF JsonScopes
  <2>5. QED
    BY <2>2, <2>3, <2>4, KeepsOn
<1>8. PICK T : T = r.S
  OBVIOUS
<1>9. JsonScopes(T, 2) /\ Homes(T) /\ Unranked(T)
  <2>1. Homes(T)
    BY <1>4, <1>7, <1>8, HomesKept
  <2>2. {"recall", "rank"} \subseteq Preserved
    BY DEF Preserved, Keywords
  <2> HIDE DEF Preserved
  <2>3. Unranked(T)
    <3>1. \A i \in DOMAIN T : i \in DOMAIN S /\ (i # 1 => T[i] = S[i])
      BY <1>7, <1>8 DEF Keeps
    <3>2. \A k \in {"recall", "rank"} : k \in DOMAIN T[1] <=> k \in DOMAIN S[1]
      BY <1>7, <1>8, <2>2 DEF Keeps
    <3>3. QED
      BY <1>4, <3>1, <3>2 DEF Unranked
  <2>4. QED
    BY <1>6, <1>8, <2>1, <2>3 DEF JsonRun
<1>10. pc' \in {"recalled", "build", "crashed", "failed"}
       /\ (pc' = "build" => setup.services # <<>>)
  BY <1>3 DEF Outcome
<1>11. StoredJson'
  BY <1>3, <1>8, <1>9, <1>10 DEF Stored, StoredJson, Before1, Final, rankVars
<1>12. Rows'
  BY <1>3 DEF Stored, Rows, rankVars
<1>13. Counted'
  <2>1. at = 1 /\ sent = <<>> /\ answered = <<>>
    BY <1>3 DEF Stored, Counted
  <2>2. pc' = "build" => 1 \in DOMAIN setup.services
    BY <1>4, <1>10, SetupFacts
  <2>3. ToSet(sent) = ToSet(sent) /\ Len(sent) = 0
    BY <2>1, NoServices
  <2>4. QED
    BY <1>3, <1>10, <2>1, <2>2, <2>3 DEF Stored, Counted
<1>14. Blocks1'
  BY <1>3, <1>8, <1>9, <1>10 DEF Stored, Blocks1, Before1, rankVars
<1>15. QED
  BY <1>11, <1>12, <1>13, <1>14 DEF Stored

LEMMA StoredBuild ==
  ASSUME Stored, Build
  PROVE  Stored'
<1>1. PICK m : sent' = Append(sent, m)
  BY DEF Build
<1>2. /\ pc = "build" /\ UNCHANGED <<setup, S, rankVars, answered>>
      /\ pc' \in {"crashed", "parse", "build"}
      /\ pc' = "parse" => at = Len(setup.services)
      /\ pc' = "build" => at # Len(setup.services)
      /\ at' = IF at = Len(setup.services) THEN 1 ELSE at + 1
  BY DEF Build
<1>3. /\ setup \in Setups /\ at \in DOMAIN setup.services /\ Listed(sent) /\ Len(sent) = at - 1
      /\ Listed(answered) /\ Len(answered) <= Len(setup.services) /\ ToSet(answered) \subseteq Services
      /\ answered = <<>>
  BY <1>2 DEF Stored, StoredJson, Counted
<1>4. DOMAIN setup.services = 1..Len(setup.services) /\ Len(setup.services) \in Nat
  BY <1>3, SetupFacts
<1>5. Listed(sent') /\ Len(sent') = Len(sent) + 1
  BY <1>1, <1>3, AppendListed
<1>6. at \in 1..Len(setup.services) /\ Len(sent') = at
  BY <1>3, <1>4, <1>5
<1>7. at' \in DOMAIN setup.services /\ at' \in Nat \ {0} /\ Len(sent') <= Len(setup.services)
      /\ (pc' = "build" => Len(sent') = at' - 1) /\ (pc' = "parse" => at' = 1)
  BY <1>2, <1>4, <1>6
<1>8. StoredJson'
  BY <1>2, <1>7 DEF Stored, StoredJson, Before1, Final, rankVars
<1>9. Rows'
  BY <1>2 DEF Stored, Rows, rankVars
<1>10. Counted'
  BY <1>2, <1>3, <1>5, <1>6, <1>7, NoServices DEF Counted
<1>11. Blocks1'
  BY <1>2 DEF Stored, Blocks1, Before1, rankVars
<1>12. QED
  BY <1>8, <1>9, <1>10, <1>11 DEF Stored

\* What a service is parsed to.
LEMMA ServedBlock ==
  ASSUME NEW service, Serves(service), service.response # <<>>
  PROVE  /\ 1 \in DOMAIN service.response /\ Answers1(service.response[1])
         /\ Len(service.response[1].include) <= 1
<1>1. Listed(service.response) /\ (\A i \in DOMAIN service.response : Answers1(service.response[i]))
      /\ \A i \in DOMAIN service.response : Len(service.response[i].include) <= 1
  BY DEF Serves, ListOf
<1>2. PICK s : s = service.response
  OBVIOUS
<1>3. Len(s) \in Nat /\ s = [i \in 1..Len(s) |-> s[i]] /\ DOMAIN s = 1..Len(s)
  BY <1>1, <1>2 DEF Listed
<1>4. Len(s) = 0 => s = <<>>
  BY <1>3
<1>5. 1 \in DOMAIN s
  BY <1>2, <1>3, <1>4
<1>6. QED
  BY <1>1, <1>2, <1>5

LEMMA JsonParsed ==
  ASSUME AllGive, MergesOnce, CameForEach, setup \in Setups, JsonScopes(S, 2),
         NEW i \in DOMAIN setup.services, i \in DOMAIN sent
  PROVE  Bad(Parsed(i)) \/ Json(Parsed(i))
<1>1. PICK service : service = setup.services[i]
  OBVIOUS
<1>2. PICK kind : kind = service.kind
  OBVIOUS
<1>3. PICK came : came = Came(i)
  OBVIOUS
<1>4. Serves(service) /\ ServiceGives(service)
  BY <1>1, SetupFacts DEF AllGive
<1>5. CallsGive(service) /\ Listed(service.came)
  BY <1>4 DEF ServiceGives, Serves
<1>6. PICK m : m = Len(sent[i])
  OBVIOUS
<1>7. came = IF kind = "dynamic" THEN SubSeq(service.came, 1, m)
             ELSE IF sent[i] # <<>> THEN service.came
             ELSE IF kind = "redis" THEN <<>>
             ELSE <<Str(<<>>)>>
  BY <1>1, <1>2, <1>3, <1>6 DEF Came
<1>8. kind = "dynamic" => m \in 0..Len(service.came)
  BY <1>1, <1>2, <1>6 DEF CameForEach
<1>9. \/ came = service.came
      \/ service.kind = "redis" /\ came = <<>>
      \/ service.kind \notin {"redis", "dynamic"} /\ came = <<Str(<<>>)>>
      \/ /\ service.kind = "dynamic"
         /\ \E n \in 0..Len(service.came) : came = SubSeq(service.came, 1, n)
  <2>1. CASE kind = "dynamic"
    <3>1. came = SubSeq(service.came, 1, m)
      BY <1>7, <2>1
    <3>2. QED
      BY <1>2, <1>8, <2>1, <3>1
  <2>2. CASE kind # "dynamic"
    <3>1. \/ came = service.came
          \/ kind = "redis" /\ came = <<>>
          \/ kind # "redis" /\ came = <<Str(<<>>)>>
      BY <1>7, <2>2
    <3>2. QED
      BY <1>2, <2>2, <3>1
  <2>3. QED
    BY <2>1, <2>2
<1>10. Bad(Received(kind, came)) \/ Json(Received(kind, came))
  BY <1>2, <1>5, <1>9, JsonReceived
<1>11. CASE service.response = <<>>
  <2>1. Parsed(i) \in {Failure, Null}
    BY <1>1, <1>11 DEF Parsed
  <2>2. QED
    BY <2>1, JsonAtoms DEF Bad
<1>12. CASE service.response # <<>>
  <2>1. PICK b : b = service.response[1]
    OBVIOUS
  <2>2. 1 \in DOMAIN service.response /\ Answers1(b) /\ Len(b.include) <= 1
    BY <1>4, <1>12, <2>1, ServedBlock
  <2>3. BlockGives(b) /\ \A j \in DOMAIN b.include : BlockGives(b.include[j])
    BY <1>4, <2>1, <2>2 DEF ServiceGives
  <2>4. PICK n \in Nat : n = 2
    OBVIOUS
  <2>5. PICK R : R = S
    OBVIOUS
  <2>6. JsonScopes(R, n)
    BY <2>4, <2>5
  <2>7. Bad(Response(kind, b, came, R)) \/ Json(Response(kind, b, came, R))
    BY <1>10, <2>2, <2>3, <2>6, JsonResponse
  <2>8. Parsed(i) \in {Failure, Response(kind, b, came, R)}
    BY <1>1, <1>2, <1>3, <1>12, <2>1, <2>5 DEF Parsed
  <2>9. QED
    BY <2>7, <2>8 DEF Bad
<1>13. QED
  BY <1>11, <1>12

\* The request's scope as another.
Second(R, f) == [R EXCEPT ![2] = f]
AllJson(f) == \A x \in DOMAIN f : Json(f[x])
LEMMA JsonSecond ==
  ASSUME NEW R, JsonScopes(R, 2), NEW f, AllJson(f), NEW T, T = Second(R, f)
  PROVE  JsonScopes(T, 2) /\ T[1] = R[1] /\ T[2] = f /\ DOMAIN T = 1..2
<1>1. R = [j \in 1..2 |-> R[j]] /\ DOMAIN R = 1..2
  BY DEF JsonScopes, Listed
<1>2. T = [j \in 1..2 |-> IF j = 2 THEN f ELSE R[j]]
  BY <1>1 DEF Second
<1>3. DOMAIN T = 1..2 /\ T[1] = R[1] /\ T[2] = f
  BY <1>2
<1>4. Len(T) = 2
  BY <1>3
<1>5. T = [j \in 1..Len(T) |-> T[j]]
  BY <1>2, <1>3, <1>4
<1>6. Listed(T)
  BY <1>4, <1>5 DEF Listed
<1>7. ASSUME NEW j \in DOMAIN T, NEW x \in DOMAIN T[j]
      PROVE  Json(T[j][x])
  <2>1. CASE j = 2
    BY <1>3, <1>7, <2>1 DEF AllJson
  <2>2. CASE j = 1
    BY <1>1, <1>3, <1>7, <2>2 DEF JsonScopes
  <2>3. QED
    BY <1>3, <1>7, <2>1, <2>2
<1>8. QED
  BY <1>3, <1>4, <1>6, <1>7 DEF JsonScopes

\* The scopes with an answer more.
AnswerPut(R, name, v) ==
  [R EXCEPT ![2].backend =
     Obj([x \in DOMAIN @[2] \cup {name} |-> IF x \in DOMAIN @[2] THEN @[2][x] ELSE v])]

LEMMA JsonAnswerAdded ==
  ASSUME NEW R, JsonScopes(R, 2), Homes(R), NEW name, NEW v, Json(v), NEW T, T = AnswerPut(R, name, v)
  PROVE  JsonScopes(T, 2) /\ Homes(T) /\ (Unranked(R) => Unranked(T))
<1>1. PICK was : was = R[2]["backend"][2]
  OBVIOUS
<1>2. PICK g : g = [x \in DOMAIN was \cup {name} |-> IF x \in DOMAIN was THEN was[x] ELSE v]
  OBVIOUS
<1>3. DOMAIN R = 1..2 /\ 2 \in DOMAIN R /\ 1 \in DOMAIN R /\ 1 # 2
  BY DEF JsonScopes, Listed
<1>4. "backend" \in DOMAIN R[2]
  BY DEF Homes
<1>5. PICK f : f = [R[2] EXCEPT !["backend"] = Obj(g)]
  OBVIOUS
<1>6. T = Second(R, f)
  <2>1. T = [R EXCEPT ![2] = [R[2] EXCEPT !["backend"] =
               Obj([x \in DOMAIN R[2]["backend"][2] \cup {name} |->
                      IF x \in DOMAIN R[2]["backend"][2] THEN R[2]["backend"][2][x] ELSE v])]]
    BY <1>3, <1>4 DEF AnswerPut
  <2>2. QED
    BY <1>1, <1>2, <1>5, <2>1 DEF Second
<1>7. Json(R[2]["backend"])
  BY <1>3, <1>4 DEF JsonScopes
<1>8. \A x \in DOMAIN was : Json(was[x])
  BY <1>1, <1>7, JsonMembers DEF Homes
<1>9. Json(Obj(g))
  <2>1. \A x \in DOMAIN g : Json(g[x])
    BY <1>2, <1>8
  <2>2. QED
    BY <2>1, JsonObject
<1>10. DOMAIN f = DOMAIN R[2] /\ f["backend"] = Obj(g)
       /\ \A x \in DOMAIN R[2] : x # "backend" => f[x] = R[2][x]
  BY <1>4, <1>5
<1>11. \A x \in DOMAIN f : Json(f[x])
  BY <1>3, <1>9, <1>10 DEF JsonScopes
<1>14. JsonScopes(T, 2) /\ T[1] = R[1] /\ T[2] = f /\ DOMAIN T = 1..2
  <2>1. AllJson(f)
    BY <1>11 DEF AllJson
  <2>2. QED
    BY <1>6, <2>1, JsonSecond
<1>15. Homes(T)
  BY <1>10, <1>14, <1>4 DEF Homes, Is, Obj
<1>16. Unranked(R) => Unranked(T)
  <2>1. \A i \in DOMAIN T : i \in DOMAIN R /\ DOMAIN T[i] = DOMAIN R[i]
    BY <1>3, <1>10, <1>14
  <2>2. QED
    BY <2>1 DEF Unranked
<1>17. QED
  BY <1>14, <1>15, <1>16

LEMMA StoredParse ==
  ASSUME AllGive, MergesOnce, CameForEach, Stored, Parse
  PROVE  Stored'
<1>1. PICK service : service = setup.services[at]
  OBVIOUS
<1>2. PICK name : name = service.name
  OBVIOUS
<1>3. PICK v : v = Parsed(at)
  OBVIOUS
<1>4. /\ pc = "parse" /\ UNCHANGED <<setup, rankVars, sent>> /\ at' = at + 1
      /\ IF Bad(v) THEN UNCHANGED <<S, answered>>
         ELSE /\ S' = [S EXCEPT ![2].backend =
                         Obj([x \in DOMAIN @[2] \cup {name} |-> IF x \in DOMAIN @[2] THEN @[2][x] ELSE v])]
              /\ answered' = Append(answered, name)
      /\ pc' = IF v = Crash THEN "crashed" ELSE IF at = Len(setup.services) THEN "recalled" ELSE "parse"
  BY <1>1, <1>2, <1>3 DEF Parse
<1>5. /\ setup \in Setups /\ JsonScopes(S, 2) /\ Homes(S) /\ Unranked(S)
      /\ at \in DOMAIN setup.services /\ at \in Nat \ {0}
      /\ Listed(sent) /\ Len(sent) = Len(setup.services) /\ Len(answered) <= at - 1
      /\ Listed(answered) /\ ToSet(answered) \subseteq Services /\ block = 1
  BY <1>4 DEF Stored, StoredJson, Counted, Blocks1, Before1, Final
<1>6. DOMAIN setup.services = 1..Len(setup.services) /\ Len(setup.services) \in Nat
      /\ Serves(service) /\ at \in 1..Len(setup.services)
  BY <1>1, <1>5, SetupFacts
<1>7. DOMAIN sent = 1..Len(sent)
  BY <1>5 DEF Listed
<1>8. Bad(v) \/ Json(v)
  <2>1. at \in DOMAIN sent
    BY <1>5, <1>6, <1>7
  <2>2. PICK i : i = at
    OBVIOUS
  <2>3. i \in DOMAIN setup.services /\ i \in DOMAIN sent
    BY <1>5, <2>1, <2>2
  <2>4. Bad(Parsed(i)) \/ Json(Parsed(i))
    BY <1>5, <2>3, JsonParsed
  <2>5. QED
    BY <1>3, <2>2, <2>4
<1>9. JsonScopes(S', 2) /\ Homes(S') /\ Unranked(S')
  <2>1. CASE Bad(v)
    BY <1>4, <1>5, <2>1
  <2>2. CASE ~Bad(v)
    <3>1. PICK T : T = S'
      OBVIOUS
    <3>2. PICK R : R = S
      OBVIOUS
    <3>3. T = AnswerPut(R, name, v)
      BY <1>4, <2>2, <3>1, <3>2 DEF AnswerPut
    <3>4. JsonScopes(R, 2) /\ Homes(R) /\ Unranked(R) /\ Json(v)
      BY <1>5, <1>8, <2>2, <3>2
    <3>5. JsonScopes(T, 2) /\ Homes(T) /\ (Unranked(R) => Unranked(T))
      BY <3>3, <3>4, JsonAnswerAdded
    <3>7. Unranked(T)
      BY <3>4, <3>5
    <3>6. QED
      BY <3>1, <3>5, <3>7
  <2>3. QED
    BY <2>1, <2>2
<1>10. Listed(answered') /\ Len(answered') <= at /\ ToSet(answered') \subseteq Services
  <2>1. Len(answered) \in Nat
    BY <1>5 DEF Listed
  <2>2. CASE Bad(v)
    BY <1>4, <1>5, <2>1, <2>2
  <2>3. CASE ~Bad(v)
    <3>1. answered' = Append(answered, name)
      BY <1>4, <2>3
    <3>2. Listed(answered') /\ Len(answered') = Len(answered) + 1
          /\ ToSet(answered') = ToSet(answered) \cup {name}
      BY <1>5, <3>1, AppendListed
    <3>3. name \in Services
      BY <1>2, <1>6 DEF Serves
    <3>4. QED
      BY <1>5, <2>1, <3>2, <3>3
  <2>4. QED
    BY <2>2, <2>3
<1>11. Len(answered') \in Nat
  BY <1>10 DEF Listed
<1>12. pc' \in {"crashed", "recalled", "parse"} /\ (pc' = "parse" => at # Len(setup.services))
  BY <1>4
<1>13. at' \in Nat \ {0} /\ (pc' = "parse" => at' \in DOMAIN setup.services)
       /\ at' - 1 = at
  BY <1>4, <1>6, <1>12
<1>14. StoredJson'
  BY <1>4, <1>9, <1>12, <1>13 DEF Stored, StoredJson, Before1, Final, rankVars
<1>15. Rows'
  BY <1>4 DEF Stored, Rows, rankVars
<1>16. Counted'
  <2>1. Len(answered') <= Len(setup.services)
    BY <1>6, <1>10, <1>11
  <2>2. /\ setup' = setup /\ sent' = sent /\ pc' \notin {"define", "build"}
        /\ Len(sent) <= Len(setup.services)
    BY <1>4, <1>5, <1>6, <1>12
  <2>3. QED
    BY <1>5, <1>10, <1>13, <2>1, <2>2 DEF Counted
<1>17. Blocks1'
  BY <1>4, <1>5, <1>9, <1>12 DEF Stored, Blocks1, Before1, rankVars
<1>18. QED
  BY <1>14, <1>15, <1>16, <1>17 DEF Stored

LEMMA RankFacts ==
  ASSUME setup \in Setups
  PROVE  /\ Len(setup.rank) \in Nat /\ DOMAIN setup.rank = 1..Len(setup.rank)
         /\ setup.rank # <<>> => 1 \in DOMAIN setup.rank
<1>1. setup.rank \in Seq(ToSet(setup.rank))
  BY RankAssumption
<1>2. PICK A : A = ToSet(setup.rank)
  OBVIOUS
<1>3. setup.rank \in Seq(A)
  BY <1>1, <1>2
<1>4. \A s \in Seq(A) : Len(s) \in Nat /\ DOMAIN s = 1..Len(s) /\ (s # <<>> => Len(s) >= 1)
  OBVIOUS
<1>5. QED
  BY <1>3, <1>4

LEMMA StoredRecalled ==
  ASSUME Stored, Recalled
  PROVE  Stored'
<1>1. PICK names : names = [i \in DOMAIN answered |-> Word(answered[i])]
  OBVIOUS
<1>2. PICK v : v = Arr(names)
  OBVIOUS
<1>3. /\ pc = "recalled" /\ S' = SetVar(S, "recall", v)
      /\ pc' = IF setup.rank = <<>> THEN "output" ELSE "input"
      /\ UNCHANGED <<setup, at, rankVars, sent, answered>>
  BY <1>1, <1>2 DEF Recalled
<1>4. /\ setup \in Setups /\ JsonScopes(S, 2) /\ Homes(S) /\ Unranked(S) /\ block = 1
      /\ Listed(answered) /\ ToSet(answered) \subseteq Services
  BY <1>3 DEF Stored, StoredJson, Counted, Blocks1, Before1, Final
<1>5. /\ Listed(S) /\ 1 \in DOMAIN S /\ Free(S, "recall") /\ Free(S, "rank")
  BY <1>4 DEF JsonScopes, Unranked, Free
<1>6. PICK T : T = Reset(S, "recall", v)
  OBVIOUS
<1>7. S' = T
  BY <1>3, <1>5, <1>6, NewVariable
<1>8. PICK N : N = Len(answered)
  OBVIOUS
<1>9. N \in Nat /\ DOMAIN answered = 1..N
  BY <1>4, <1>8 DEF Listed
<1>10. DOMAIN names = 1..N /\ names = [i \in 1..N |-> names[i]]
       /\ \A i \in 1..N : names[i] = Word(answered[i])
  BY <1>1, <1>9
<1>11. Len(names) = N /\ Listed(names)
  <2>1. Len(names) = N
    BY <1>9, <1>10
  <2>2. QED
    BY <1>9, <1>10, <2>1 DEF Listed
<1>12. Json(v)
  <2>1. \A i \in DOMAIN names : Json(names[i])
    BY <1>10, JsonAtoms
  <2>2. QED
    BY <1>2, <1>11, <2>1, JsonArray
<1>13. names \in Seq({Word(s) : s \in Services})
  <2>1. PICK A : A = {Word(s) : s \in Services}
    OBVIOUS
  <2>2. \A i \in 1..N : names[i] \in A
    <3>1. \A i \in 1..N : answered[i] \in Services
      BY <1>4, <1>9 DEF ToSet
    <3>2. QED
      BY <1>10, <2>1, <3>1
  <2>3. names \in Seq(A)
    BY <1>9, <1>10, <2>2
  <2>4. QED
    BY <2>1, <2>3
<1>14. Lookup(T, "recall") = v /\ Lookup(T, "rank") = Absent
  <2>1. Lookup(T, "recall") = v /\ Free(T, "rank")
    BY <1>5, <1>6, ResetLooks
  <2>2. QED
    BY <2>1, LookupFree
<1>15. Begins(T)
  BY <1>2, <1>13, <1>14 DEF Begins, Is, Arr
<1>16. JsonScopes(T, 2) /\ Homes(T)
  <2>1. PICK R : R = S
    OBVIOUS
  <2>2. PICK x : x = "recall"
    OBVIOUS
  <2>3. JsonScopes(R, 2) /\ Homes(R) /\ x # "backend"
    BY <1>4, <2>1, <2>2
  <2>4. JsonScopes(Reset(R, x, v), 2)
    BY <1>12, <2>3, JsonReset
  <2>5. Homes(Reset(R, x, v))
    BY <2>3, HomesReset
  <2>6. QED
    BY <1>6, <2>1, <2>2, <2>4, <2>5
<1>17. pc' \in {"input", "output"} /\ (pc' = "input" => 1 \in DOMAIN setup.rank)
  BY <1>3, <1>4, RankFacts
<1>18. StoredJson'
  BY <1>3, <1>7, <1>16, <1>17 DEF Stored, StoredJson, Before1, Final, rankVars
<1>19. Rows'
  BY <1>3 DEF Stored, Rows, rankVars
<1>20. Counted'
  BY <1>3, <1>17 DEF Stored, Counted
<1>21. Blocks1'
  BY <1>3, <1>4, <1>7, <1>15, <1>17 DEF Blocks1, Before1, rankVars
<1>22. QED
  BY <1>18, <1>19, <1>20, <1>21 DEF Stored

\* What ranking keeps.
LEMMA CountedRanking ==
  ASSUME Counted, UNCHANGED <<setup, sent, answered>>, pc' \notin {"define", "build", "parse"}
  PROVE  Counted'
BY DEF Counted

LEMMA BlockNow ==
  ASSUME AllGive, Stored, pc \in {"input", "collect", "sort"}
  PROVE  /\ setup \in Setups /\ block \in DOMAIN setup.rank
         /\ RankGives(Block) /\ BlockAssumption(Block)
<1>1. setup \in Setups /\ block \in DOMAIN setup.rank
  BY DEF Stored, StoredJson, Blocks1
<1>2. PICK n \in DOMAIN setup.rank : n = block
  BY <1>1
<1>3. RankGives(setup.rank[n]) /\ BlockAssumption(setup.rank[n])
  BY <1>1, RankAssumption DEF AllGive
<1>4. QED
  BY <1>1, <1>2, <1>3 DEF Block

LEMMA StoredInput ==
  ASSUME AllGive, Stored, Input, UNCHANGED <<sent, answered>>
  PROVE  Stored'
<1>1. PICK v : /\ v = Evaluate(Block.input, S)
               /\ \E u \in {IF Bad(v) THEN v ELSE IF ~Block.known THEN Failure
                            ELSE IF ~Candidates(v) THEN Crash ELSE v} :
                    pc' = Outcome(u, "collect") /\ input' = IF Bad(u) THEN <<>> ELSE u[2]
  BY DEF Input
<1>2. PICK u : /\ u = IF Bad(v) THEN v ELSE IF ~Block.known THEN Failure
                      ELSE IF ~Candidates(v) THEN Crash ELSE v
               /\ pc' = Outcome(u, "collect") /\ input' = IF Bad(u) THEN <<>> ELSE u[2]
  BY <1>1
<1>3. /\ pc = "input" /\ at' = 1 /\ part' = 1 /\ collected' = <<>> /\ UNCHANGED <<setup, S, block>>
  BY DEF Input
<1>4. JsonScopes(S, 2) /\ Homes(S) /\ block \in Nat \ {0} /\ block \in DOMAIN setup.rank
  BY <1>3 DEF Stored, StoredJson, Blocks1, Final
<1>5. Bad(v) \/ Json(v)
  <2>1. PICK e : e = Block.input
    OBVIOUS
  <2>2. Gives(e)
    BY <1>3, <2>1, BlockNow DEF RankGives
  <2>3. PICK n \in Nat : n = 2
    OBVIOUS
  <2>4. PICK R : R = S
    OBVIOUS
  <2>5. JsonScopes(R, n)
    BY <1>4, <2>3, <2>4
  <2>6. Bad(Evaluate(e, R)) \/ Json(Evaluate(e, R))
    BY <2>2, <2>5 DEF Gives
  <2>7. QED
    BY <1>1, <2>1, <2>4, <2>6
<1>6. ASSUME ~Bad(u)
      PROVE  u = v /\ Json(v) /\ Is(v, "array")
  <2>1. Bad(Failure) /\ Bad(Crash)
    BY DEF Bad
  <2>2. u = v /\ ~Bad(v) /\ Candidates(v)
    BY <1>2, <1>6, <2>1
  <2>3. QED
    BY <1>5, <2>2 DEF Candidates
<1>7. Listed(input') /\ \A i \in DOMAIN input' : Json(input'[i])
  <2>1. CASE Bad(u)
    <3>1. input' = <<>>
      BY <1>2, <2>1
    <3>2. QED
      BY <3>1, NoServices
  <2>2. CASE ~Bad(u)
    <3>1. input' = v[2] /\ Json(v) /\ Is(v, "array")
      BY <1>2, <1>6, <2>2
    <3>2. QED
      BY <3>1, JsonElements
  <2>3. QED
    BY <2>1, <2>2
<1>8. pc' \in {"crashed", "failed", "collect"}
  BY <1>2 DEF Outcome
<1>9. StoredJson'
  BY <1>3, <1>4, <1>8 DEF Stored, StoredJson, Final, Before1
<1>10. Rows'
  BY <1>3, <1>7, NoServices DEF Rows
<1>11. Counted'
  BY <1>3, <1>8, CountedRanking DEF Stored
<1>12. Blocks1'
  BY <1>3, <1>4, <1>8 DEF Blocks1, Before1
<1>13. QED
  BY <1>9, <1>10, <1>11, <1>12 DEF Stored

LEMMA ListedInSeq ==
  ASSUME NEW s, Listed(s), NEW A, \A i \in DOMAIN s : s[i] \in A
  PROVE  s \in Seq(A)
<1>1. Len(s) \in Nat /\ s = [i \in 1..Len(s) |-> s[i]] /\ DOMAIN s = 1..Len(s)
  BY DEF Listed
<1>2. QED
  BY <1>1

LEMMA SeqListed ==
  ASSUME NEW A, NEW s \in Seq(A)
  PROVE  Listed(s) /\ DOMAIN s = 1..Len(s) /\ Len(s) \in Nat /\ \A i \in DOMAIN s : s[i] \in A
<1>1. Len(s) \in Nat /\ DOMAIN s = 1..Len(s)
  OBVIOUS
<1>2. s = [i \in 1..Len(s) |-> s[i]]
  OBVIOUS
<1>3. Listed(s)
  BY <1>1, <1>2 DEF Listed
<1>4. \A i \in DOMAIN s : s[i] \in A
  OBVIOUS
<1>5. QED
  BY <1>1, <1>3, <1>4

\* Of two lists one.
LEMMA ListsJoined ==
  ASSUME NEW s, Listed(s), NEW t, Listed(t), NEW A,
         \A i \in DOMAIN s : s[i] \in A, \A i \in DOMAIN t : t[i] \in A
  PROVE  Listed(s \o t) /\ \A i \in DOMAIN (s \o t) : (s \o t)[i] \in A
<1>1. s \in Seq(A) /\ t \in Seq(A)
  BY ListedInSeq
<1>2. PICK u : u = s \o t
  OBVIOUS
<1>3. u \in Seq(A)
  BY <1>1, <1>2
<1>4. Listed(u) /\ \A i \in DOMAIN u : u[i] \in A
  BY <1>3, SeqListed
<1>5. QED
  BY <1>2, <1>4

\* What a candidate is ranked by.
LEMMA JsonAnswer ==
  ASSUME JsonScopes(S, 2), Homes(S), NEW name
  PROVE  JsonOrNone(Answer(name))
<1>1. PICK v : v = Lookup(S, "backend")
  OBVIOUS
<1>2. v = S[2]["backend"] /\ Is(v, "object")
  <2>1. PICK R : R = S
    OBVIOUS
  <2>2. Lookup(R, "backend") = R[2]["backend"]
    BY <2>1, HomesLookup
  <2>3. QED
    BY <1>1, <2>1, <2>2 DEF Homes
<1>3. Json(v)
  <2>1. 2 \in DOMAIN S /\ "backend" \in DOMAIN S[2]
    BY DEF JsonScopes, Listed, Homes
  <2>2. QED
    BY <1>2, <2>1 DEF JsonScopes
<1>4. \A k \in DOMAIN v[2] : Json(v[2][k])
  BY <1>2, <1>3, JsonMembers
<1>5. PICK k : k = name[2]
  OBVIOUS
<1>6. Answer(name) = IF Len(k) = 1 /\ k[1] \in DOMAIN v[2] THEN v[2][k[1]] ELSE Absent
  BY <1>1, <1>5 DEF Answer, Member
<1>7. QED
  BY <1>4, <1>6 DEF JsonOrNone

LEMMA OneListed ==
  ASSUME NEW x
  PROVE  Listed(<<x>>) /\ Len(<<x>>) = 1 /\ DOMAIN <<x>> = {1} /\ <<x>>[1] = x
<1>1. PICK s : s = <<x>>
  OBVIOUS
<1>2. Len(s) = 1 /\ DOMAIN s = 1..1 /\ s = [i \in 1..1 |-> s[i]] /\ s[1] = x
  BY <1>1
<1>3. Listed(s)
  BY <1>2 DEF Listed
<1>4. DOMAIN s = {1}
  BY <1>2
<1>5. QED
  BY <1>1, <1>2, <1>3, <1>4

LEMMA JsonItems ==
  ASSUME JsonScopes(S, 2), Homes(S), NEW name
  PROVE  Listed(Items(name)) /\ \A i \in DOMAIN Items(name) : Json(Items(name)[i])
<1>1. PICK v : v = Answer(name)
  OBVIOUS
<1>2. JsonOrNone(v)
  BY <1>1, JsonAnswer
<1>3. PICK items : items = Items(name)
  OBVIOUS
<1>4. items = IF v = Absent THEN <<>> ELSE IF Is(v, "array") THEN v[2] ELSE <<v>>
  BY <1>1, <1>3 DEF Items
<1>5. CASE v = Absent
  <2>1. items = <<>>
    BY <1>4, <1>5
  <2>2. QED
    BY <1>3, <2>1, NoServices
<1>6. CASE v # Absent /\ Is(v, "array")
  <2>1. items = v[2] /\ Json(v)
    BY <1>2, <1>4, <1>6 DEF JsonOrNone
  <2>2. Listed(v[2]) /\ \A i \in DOMAIN v[2] : Json(v[2][i])
    BY <1>6, <2>1, JsonElements
  <2>3. QED
    BY <1>3, <2>1, <2>2
<1>7. CASE v # Absent /\ ~Is(v, "array")
  <2>1. items = <<v>> /\ Json(v)
    BY <1>2, <1>4, <1>7 DEF JsonOrNone
  <2>2. QED
    BY <1>3, <2>1, OneListed
<1>8. QED
  BY <1>5, <1>6, <1>7

\* The features of an item.
JsonRow(row) == Json(row.name) /\ Json(Arr(row.features))

LEMMA JsonSortValues ==
  ASSUME JsonScopes(S, 2), NEW b, RankGives(b), BlockAssumption(b), NEW it, Json(it)
  PROVE  /\ JsonScopes(WithItem(it), 2)
         /\ ~Bad(SortValues(b, it)) =>
              /\ Is(SortValues(b, it), "array")
              /\ Json(SortValues(b, it))
<1>1. PICK R : R = WithItem(it)
  OBVIOUS
<1>2. JsonScopes(R, 2)
  <2>1. PICK Q : Q = S
    OBVIOUS
  <2>2. JsonScopes(Q, 2)
    BY <2>1
  <2>3. JsonScopes(Reset(Q, "item", it), 2)
    BY <2>2, JsonReset
  <2>4. QED
    BY <1>1, <2>1, <2>3 DEF WithItem
<1>3. PICK es : es = b.sortBy
  OBVIOUS
<1>4. es \in Seq(ToSet(es))
  BY <1>3 DEF BlockAssumption
<1>5. DOMAIN es = 1..Len(es) /\ Len(es) \in Nat
  BY <1>4, SeqListed
<1>6. PICK vs : vs = [i \in DOMAIN es |-> Evaluate(es[i].expr, R)]
  OBVIOUS
<1>7. DOMAIN vs = 1..Len(es) /\ vs = [i \in 1..Len(es) |-> vs[i]]
      /\ \A i \in DOMAIN es : vs[i] = Evaluate(es[i].expr, R)
  BY <1>5, <1>6
<1>8. Len(vs) = Len(es)
  BY <1>5, <1>7
<1>9. Listed(vs)
  BY <1>5, <1>7, <1>8 DEF Listed
<1>10. \A i \in DOMAIN vs : Bad(vs[i]) \/ Json(vs[i])
  <2>1. PICK n \in Nat : n = 2
    OBVIOUS
  <2>2. JsonScopes(R, n)
    BY <1>2, <2>1
  <2>3. \A i \in DOMAIN es : Gives(es[i].expr)
    BY <1>3 DEF RankGives
  <2>4. \A i \in DOMAIN es : Bad(Evaluate(es[i].expr, R)) \/ Json(Evaluate(es[i].expr, R))
    BY <2>2, <2>3 DEF Gives
  <2>5. QED
    BY <1>5, <1>7, <2>4
<1>11. /\ Bad(AllOf(vs)) \/ Json(AllOf(vs))
       /\ ~Bad(AllOf(vs)) => AllOf(vs) = Arr(vs)
  BY <1>9, <1>10, JsonAllOf
<1>12. SortValues(b, it) = AllOf(vs)
  BY <1>1, <1>3, <1>6 DEF SortValues
<1>13. QED
  BY <1>1, <1>2, <1>11, <1>12 DEF Is, Arr

LEMMA JsonOrderFeature ==
  ASSUME NEW b, NEW s
  PROVE  /\ Listed(OrderFeature(b, s))
         /\ \A i \in DOMAIN OrderFeature(b, s) : Json(OrderFeature(b, s)[i])
<1>1. PICK f : f = OrderFeature(b, s)
  OBVIOUS
<1>2. f = <<>> \/ \E n : f = <<Num(n)>>
  BY <1>1 DEF OrderFeature
<1>3. CASE f = <<>>
  BY <1>1, <1>3, NoServices
<1>4. ASSUME NEW n, f = <<Num(n)>>
      PROVE  Listed(f) /\ \A i \in DOMAIN f : Json(f[i])
  <2>1. PICK x : x = Num(n)
    OBVIOUS
  <2>2. Json(x)
    BY <2>1, JsonAtoms
  <2>3. f = <<x>>
    BY <1>4, <2>1
  <2>4. QED
    BY <2>2, <2>3, OneListed
<1>5. QED
  BY <1>1, <1>2, <1>3, <1>4

LEMMA JsonCollected ==
  ASSUME JsonScopes(S, 2), NEW b, RankGives(b), BlockAssumption(b), NEW it, Json(it),
         NEW name, Json(name), NEW s
  PROVE  /\ Listed(Collected(b, name, s, it))
         /\ \A i \in DOMAIN Collected(b, name, s, it) : JsonRow(Collected(b, name, s, it)[i])
<1>1. PICK c : c = Collected(b, name, s, it)
  OBVIOUS
<1>2. PICK v : v = SortValues(b, it)
  OBVIOUS
<1>3. PICK f : f = OrderFeature(b, s)
  OBVIOUS
<1>4. PICK fs : fs = f \o v[2]
  OBVIOUS
<1>5. c = IF Bad(v) THEN <<>> ELSE WithFeatures(b, name, fs)
  BY <1>1, <1>2, <1>3, <1>4 DEF Collected
<1>6. c = <<>> \/ (~Bad(v) /\ c = <<[name |-> name, features |-> fs]>>)
  BY <1>5 DEF WithFeatures
<1>7. CASE c = <<>>
  BY <1>1, <1>7, NoServices
<1>8. CASE ~Bad(v) /\ c = <<[name |-> name, features |-> fs]>>
  <2>1. Is(v, "array") /\ Json(v)
    BY <1>2, <1>8, JsonSortValues
  <2>2. Listed(v[2]) /\ \A i \in DOMAIN v[2] : Json(v[2][i])
    BY <2>1, JsonElements
  <2>3. Listed(f) /\ \A i \in DOMAIN f : Json(f[i])
    BY <1>3, JsonOrderFeature
  <2>4. PICK vs : vs = v[2]
    OBVIOUS
  <2>5. Listed(fs) /\ \A i \in DOMAIN fs : Json(fs[i])
    <3>1. PICK A : A = {f[i] : i \in DOMAIN f} \cup {vs[i] : i \in DOMAIN vs}
      OBVIOUS
    <3>2. \A x \in A : Json(x)
      BY <2>2, <2>3, <2>4, <3>1
    <3>3. (\A i \in DOMAIN f : f[i] \in A) /\ \A i \in DOMAIN vs : vs[i] \in A
      BY <3>1
    <3>4. Listed(f \o vs) /\ \A i \in DOMAIN (f \o vs) : (f \o vs)[i] \in A
      BY <2>2, <2>3, <2>4, <3>3, ListsJoined
    <3>5. QED
      BY <1>4, <2>4, <3>2, <3>4
  <2>6. Json(Arr(fs))
    BY <2>5, JsonArray
  <2>7. PICK row : row = [name |-> name, features |-> fs]
    OBVIOUS
  <2>8. JsonRow(row)
    BY <2>6, <2>7 DEF JsonRow
  <2>9. c = <<row>>
    BY <1>8, <2>7
  <2>10. QED
    BY <1>1, <2>8, <2>9, OneListed
<1>9. QED
  BY <1>6, <1>7, <1>8

LEMMA StoredCollect ==
  ASSUME AllGive, Stored, Collect, UNCHANGED <<sent, answered>>
  PROVE  Stored'
<1>1. PICK name : name = input[at]
  OBVIOUS
<1>2. PICK it : /\ it = Items(name)[part]
                /\ IF SortValues(Block, it) = Crash
                   THEN pc' = "crashed" /\ UNCHANGED <<collected, S, part>>
                   ELSE /\ collected' = collected \o Collected(Block, Name(name, part), name, it)
                        /\ S' = WithItem(it) /\ part' = part + 1 /\ UNCHANGED pc
  BY <1>1 DEF Collect
<1>3. /\ pc = "collect" /\ at <= Len(input) /\ part <= Len(Items(name))
      /\ UNCHANGED <<setup, at, block, input>>
  BY <1>1 DEF Collect
<1>4. /\ JsonScopes(S, 2) /\ Homes(S) /\ block \in Nat \ {0} /\ block \in DOMAIN setup.rank
      /\ at \in Nat \ {0} /\ part \in Nat \ {0}
      /\ Listed(input) /\ (\A i \in DOMAIN input : Json(input[i]))
      /\ Listed(collected)
      /\ \A i \in DOMAIN collected : Json(collected[i].name) /\ Json(Arr(collected[i].features))
  BY <1>3 DEF Stored, StoredJson, Rows, Blocks1, Final
<1>5. PICK b : b = Block
  OBVIOUS
<1>6. RankGives(b) /\ BlockAssumption(b)
  BY <1>3, <1>5, BlockNow
<1>7. Json(name)
  <2>1. at \in DOMAIN input
    BY <1>3, <1>4 DEF Listed
  <2>2. QED
    BY <1>1, <1>4, <2>1
<1>8. Json(it)
  <2>1. PICK items : items = Items(name)
    OBVIOUS
  <2>2. Listed(items) /\ \A i \in DOMAIN items : Json(items[i])
    BY <1>4, <2>1, JsonItems
  <2>3. part \in DOMAIN items
    BY <1>3, <1>4, <2>1, <2>2 DEF Listed
  <2>4. QED
    BY <1>2, <2>1, <2>2, <2>3
<1>9. PICK n : n = Name(name, part)
  OBVIOUS
<1>10. Json(n)
  <2>1. n = name \/ \E m : n = Str(m)
    BY <1>9 DEF Name, Element
  <2>2. QED
    BY <1>7, <2>1, JsonAtoms
<1>11. PICK c : c = Collected(b, n, name, it)
  OBVIOUS
<1>12. Listed(c) /\ \A i \in DOMAIN c : JsonRow(c[i])
  BY <1>4, <1>6, <1>8, <1>10, <1>11, JsonCollected
<1>13. PICK R : R = WithItem(it)
  OBVIOUS
<1>14. JsonScopes(R, 2) /\ Homes(R)
  <2>1. JsonScopes(R, 2)
    BY <1>4, <1>6, <1>8, <1>13, JsonSortValues
  <2>2. PICK Q : Q = S
    OBVIOUS
  <2>3. JsonScopes(Q, 2) /\ Homes(Q)
    BY <1>4, <2>2
  <2>4. Homes(Reset(Q, "item", it))
    BY <2>3, HomesReset
  <2>5. QED
    BY <1>13, <2>1, <2>2, <2>4 DEF WithItem
<1>15. \/ pc' = "crashed" /\ UNCHANGED <<collected, S, part>>
       \/ collected' = collected \o c /\ S' = R /\ part' = part + 1 /\ UNCHANGED pc
  BY <1>2, <1>5, <1>9, <1>11, <1>13
<1>16. JsonScopes(S', 2) /\ Homes(S') /\ part' \in Nat \ {0} /\ pc' \in {"crashed", "collect"}
  BY <1>3, <1>4, <1>14, <1>15
<1>17. Listed(collected') /\ \A i \in DOMAIN collected' : JsonRow(collected'[i])
  <2>1. CASE UNCHANGED collected
    BY <1>4, <2>1 DEF JsonRow
  <2>2. CASE collected' = collected \o c
    <3>1. PICK s : s = collected
      OBVIOUS
    <3>2. PICK A : A = {s[i] : i \in DOMAIN s} \cup {c[i] : i \in DOMAIN c}
      OBVIOUS
    <3>3. \A x \in A : JsonRow(x)
      BY <1>4, <1>12, <3>1, <3>2 DEF JsonRow
    <3>4. (\A i \in DOMAIN s : s[i] \in A) /\ \A i \in DOMAIN c : c[i] \in A
      BY <3>2
    <3>5. Listed(s)
      BY <1>4, <3>1
    <3>6. Listed(s \o c) /\ \A i \in DOMAIN (s \o c) : (s \o c)[i] \in A
      BY <1>12, <3>4, <3>5, ListsJoined
    <3>7. QED
      BY <2>2, <3>1, <3>3, <3>6
  <2>3. QED
    BY <1>15, <2>1, <2>2
<1>18. StoredJson'
  BY <1>3, <1>4, <1>16 DEF Stored, StoredJson, Final, Before1
<1>19. Rows'
  BY <1>3, <1>4, <1>17 DEF Rows, JsonRow
<1>20. Counted'
  BY <1>3, <1>16, CountedRanking DEF Stored
<1>21. Blocks1'
  BY <1>3, <1>4, <1>16 DEF Blocks1, Before1
<1>22. QED
  BY <1>18, <1>19, <1>20, <1>21 DEF Stored

LEMMA StoredOver ==
  ASSUME Stored, CandidateOver, UNCHANGED <<sent, answered>>
  PROVE  Stored'
<1>1. /\ pc = "collect" /\ at' = at + 1 /\ part' = 1
      /\ UNCHANGED <<setup, pc, S, block, input, collected>>
  BY DEF CandidateOver
<1>2. at' \in Nat \ {0} /\ part' \in Nat \ {0}
  BY <1>1 DEF Stored, StoredJson
<1>3. StoredJson'
  BY <1>1, <1>2 DEF Stored, StoredJson, Final, Before1
<1>4. Rows'
  BY <1>1 DEF Stored, Rows
<1>5. Counted'
  BY <1>1, CountedRanking DEF Stored
<1>6. Blocks1'
  BY <1>1 DEF Stored, Blocks1, Before1
<1>7. QED
  BY <1>3, <1>4, <1>5, <1>6 DEF Stored

LEMMA StoredAll ==
  ASSUME Stored, AllCollected, UNCHANGED <<sent, answered>>
  PROVE  Stored'
<1>1. pc = "collect" /\ pc' = "sort" /\ UNCHANGED <<setup, at, S, rankVars>>
  BY DEF AllCollected
<1>2. StoredJson'
  BY <1>1 DEF Stored, StoredJson, Final, Before1, rankVars
<1>3. Rows'
  BY <1>1 DEF Stored, Rows, rankVars
<1>4. Counted'
  BY <1>1, CountedRanking DEF Stored
<1>5. Blocks1'
  BY <1>1 DEF Stored, Blocks1, Before1, rankVars
<1>6. QED
  BY <1>2, <1>3, <1>4, <1>5 DEF Stored

\* The names that a block leaves in `rank'.
LEMMA JsonTop ==
  ASSUME NEW b, BlockAssumption(b), NEW names, Listed(names), \A i \in DOMAIN names : Json(names[i])
  PROVE  Json(Arr(TopOf(b, names)))
<1>1. PICK t : t = TopOf(b, names)
  OBVIOUS
<1>2. PICK A : A = {names[i] : i \in DOMAIN names}
  OBVIOUS
<1>3. \A x \in A : Json(x)
  BY <1>2
<1>4. \A i \in DOMAIN names : names[i] \in A
  BY <1>2
<1>5. names \in Seq(A)
  BY <1>4, ListedInSeq
<1>6. b.top \in Nat
  BY DEF BlockAssumption
<1>7. t = names \/ (b.top > 0 /\ Len(names) > b.top /\ t = SubSeq(names, 1, b.top))
  BY <1>1 DEF TopOf
<1>8. t \in Seq(A)
  <2>1. CASE t = names
    BY <1>5, <2>1
  <2>2. CASE b.top > 0 /\ Len(names) > b.top /\ t = SubSeq(names, 1, b.top)
    <3>1. PICK k \in Nat : k = b.top
      BY <1>6
    <3>2. k > 0 /\ Len(names) > k /\ t = SubSeq(names, 1, k)
      BY <2>2, <3>1
    <3>3. \A u \in Seq(A) : Len(u) > k => SubSeq(u, 1, k) \in Seq(A)
      <4>1. ASSUME NEW u \in Seq(A), Len(u) > k
            PROVE  SubSeq(u, 1, k) \in Seq(A)
        <5>1. \A i \in 1..k : i \in 1..Len(u)
          BY <4>1
        <5>2. QED
          BY <3>2, <4>1, <5>1
      <4>2. QED
        BY <4>1
    <3>4. QED
      BY <1>5, <3>2, <3>3
  <2>3. QED
    BY <1>7, <2>1, <2>2
<1>9. Listed(t) /\ \A i \in DOMAIN t : Json(t[i])
  BY <1>3, <1>8, SeqListed
<1>10. Json(Arr(t))
  BY <1>9, JsonArray
<1>11. QED
  BY <1>1, <1>10

LEMMA StoredSort ==
  ASSUME AllGive, Stored, Sort, UNCHANGED <<sent, answered>>
  PROVE  Stored'
<1>1. PICK b : b = Block
  OBVIOUS
<1>2. PICK c : c = collected
  OBVIOUS
<1>3. PICK p \in Sortings(b, c) :
        S' = Reset(S, "rank", Arr(TopOf(b, [i \in DOMAIN c |-> c[p[i]].name])))
  BY <1>1, <1>2 DEF Sort
<1>4. /\ pc = "sort" /\ block' = block + 1
      /\ pc' = IF block = Len(setup.rank) THEN "output" ELSE "input"
      /\ UNCHANGED <<setup, at, part, input, collected>>
  BY DEF Sort
<1>5. /\ JsonScopes(S, 2) /\ Homes(S) /\ block \in Nat \ {0} /\ setup \in Setups
      /\ block \in DOMAIN setup.rank /\ Listed(c)
      /\ \A i \in DOMAIN c : Json(c[i].name)
  BY <1>2, <1>4 DEF Stored, StoredJson, Rows, Blocks1, Final
<1>6. BlockAssumption(b)
  BY <1>1, <1>4, BlockNow
<1>7. \A i \in DOMAIN c : p[i] \in DOMAIN c
  BY <1>3 DEF Sortings, Bijection, Injection, Surjection
<1>8. PICK names : names = [i \in DOMAIN c |-> c[p[i]].name]
  OBVIOUS
<1>9. DOMAIN c = 1..Len(c) /\ Len(c) \in Nat
  BY <1>5 DEF Listed
<1>10. names = [i \in 1..Len(c) |-> names[i]] /\ DOMAIN names = 1..Len(c)
       /\ \A i \in DOMAIN c : names[i] = c[p[i]].name
  BY <1>8, <1>9
<1>11. Len(names) = Len(c)
  BY <1>9, <1>10
<1>12. Listed(names) /\ \A i \in DOMAIN names : Json(names[i])
  BY <1>5, <1>7, <1>9, <1>10, <1>11 DEF Listed
<1>13. PICK v : v = Arr(TopOf(b, names))
  OBVIOUS
<1>14. Json(v)
  BY <1>6, <1>12, <1>13, JsonTop
<1>15. JsonScopes(S', 2) /\ Homes(S')
  <2>1. PICK Q : Q = S
    OBVIOUS
  <2>2. PICK x : x = "rank"
    OBVIOUS
  <2>3. JsonScopes(Q, 2) /\ Homes(Q) /\ x # "backend"
    BY <1>5, <2>1, <2>2
  <2>4. JsonScopes(Reset(Q, x, v), 2)
    BY <1>14, <2>3, JsonReset
  <2>5. Homes(Reset(Q, x, v))
    BY <2>3, HomesReset
  <2>6. S' = Reset(Q, x, v)
    BY <1>3, <1>8, <1>13, <2>1, <2>2
  <2>7. QED
    BY <2>4, <2>5, <2>6
<1>16. DOMAIN setup.rank = 1..Len(setup.rank) /\ Len(setup.rank) \in Nat
  BY <1>5, RankFacts
<1>17. /\ block' \in Nat \ {0} /\ block' # 1 /\ pc' \in {"output", "input"}
       /\ (pc' = "input" => block' \in DOMAIN setup.rank)
  BY <1>4, <1>5, <1>16
<1>18. StoredJson'
  BY <1>4, <1>15, <1>17 DEF Stored, StoredJson, Final, Before1
<1>19. Rows'
  BY <1>4 DEF Stored, Rows
<1>20. Counted'
  BY <1>4, <1>17, CountedRanking DEF Stored
<1>21. Blocks1'
  BY <1>4, <1>17 DEF Blocks1, Before1
<1>22. QED
  BY <1>18, <1>19, <1>20, <1>21 DEF Stored

LEMMA StoredFinish ==
  ASSUME AllGive, MergesOnce, Stored, Finish
  PROVE  Stored'
<1>1. PICK flow \in BOOLEAN : flow = TRUE
  OBVIOUS
<1>2. PICK o : o = Output(flow, setup, Ok(S))
  OBVIOUS
<1>3. PICK v : v = Lookup(o.S, "output")
  OBVIOUS
<1>4. /\ pc' = Outcome(o.v, "done") /\ pc = "output"
      /\ UNCHANGED <<setup, at, rankVars, sent, answered>>
      /\ S' = IF Bad(o.v) \/ ~Is(v, "object") THEN o.S
              ELSE [o.S EXCEPT ![2].result = Merge(@, v)]
  BY <1>1, <1>2, <1>3 DEF Finish
<1>5. setup \in Setups /\ JsonScopes(S, 2)
  BY DEF Stored, StoredJson
<1>6. pc' \in Final
  BY <1>4 DEF Outcome, Final
<1>7. PICK n \in Nat \ {0} : n = 2
  OBVIOUS
<1>8. JsonRun(o, n)
  <2>1. Chooses(setup) /\ BlockGives(setup) /\ NextsAreJson(setup)
    BY <1>5, SetupFacts DEF AllGive
  <2>2. PICK r : r = Ok(S)
    OBVIOUS
  <2>3. JsonRun(r, n)
    BY <1>5, <1>7, <2>2, JsonOk
  <2>4. PICK b : b = setup
    OBVIOUS
  <2>5. Chooses(b) /\ BlockGives(b) /\ NextsAreJson(b)
    BY <2>1, <2>4
  <2>6. JsonRun(Output(flow, b, r), n)
    BY <2>3, <2>5, JsonOutput
  <2>7. QED
    BY <1>2, <2>2, <2>4, <2>6
<1>9. PICK R : R = o.S
  OBVIOUS
<1>10. JsonScopes(R, 2)
  BY <1>7, <1>8, <1>9 DEF JsonRun
<1>11. JsonScopes(S', 2)
  <2>1. CASE Bad(o.v) \/ ~Is(v, "object")
    BY <1>4, <1>9, <1>10, <2>1
  <2>2. CASE ~(Bad(o.v) \/ ~Is(v, "object"))
    <3>1. Json(v)
      <4>1. JsonOrNone(Lookup(R, "output"))
        BY <1>10, JsonLookup
      <4>2. v # Absent
        BY <2>2 DEF Is, Absent
      <4>3. QED
        BY <1>3, <1>9, <4>1, <4>2 DEF JsonOrNone
    <3>2. PICK T : T = S'
      OBVIOUS
    <3>3. T = [R EXCEPT ![2].result = Merge(@, v)]
      BY <1>4, <1>9, <2>2, <3>2
    <3>4. DOMAIN R = 1..2 /\ 2 \in DOMAIN R
      BY <1>10 DEF JsonScopes, Listed
    <3>5. PICK was : was = R[2]["result"]
      OBVIOUS
    <3>6. PICK m : m = Merge(was, v)
      OBVIOUS
    <3>7. PICK f : f = [R[2] EXCEPT !["result"] = m]
      OBVIOUS
    <3>8. T = Second(R, f)
      <4>1. T = [R EXCEPT ![2] = [R[2] EXCEPT !["result"] = Merge(R[2]["result"], v)]]
        BY <3>3, <3>4
      <4>2. QED
        BY <3>5, <3>6, <3>7, <4>1 DEF Second
    <3>9. AllJson(f)
      <4>1. DOMAIN f = DOMAIN R[2]
        BY <3>7
      <4>2. ASSUME NEW x \in DOMAIN f
            PROVE  Json(f[x])
        <5>1. Json(R[2][x])
          BY <1>10, <3>4, <4>1, <4>2 DEF JsonScopes
        <5>2. CASE x = "result"
          <6>1. Json(m)
            <7>1. Json(was)
              BY <3>5, <5>1, <5>2
            <7>2. QED
              BY <3>1, <3>6, <7>1, JsonMerge
          <6>2. f[x] = m
            BY <3>7, <4>1, <4>2, <5>2
          <6>3. QED
            BY <6>1, <6>2
        <5>3. CASE x # "result"
          <6>1. f[x] = R[2][x]
            BY <3>7, <4>1, <4>2, <5>3
          <6>2. QED
            BY <5>1, <6>1
        <5>4. QED
          BY <5>2, <5>3
      <4>3. QED
        BY <4>2 DEF AllJson
    <3>10. JsonScopes(T, 2)
      BY <1>10, <3>8, <3>9, JsonSecond
    <3>11. QED
      BY <3>2, <3>10
  <2>3. QED
    BY <2>1, <2>2
<1>12. StoredJson'
  BY <1>4, <1>6, <1>11 DEF Stored, StoredJson, rankVars
<1>13. Rows'
  BY <1>4 DEF Stored, Rows, rankVars
<1>14. Counted'
  BY <1>4, <1>6 DEF Stored, Counted, Final
<1>15. Blocks1'
  BY <1>6 DEF Blocks1, Before1, Final
<1>16. QED
  BY <1>12, <1>13, <1>14, <1>15 DEF Stored

LEMMA StoredStop == ASSUME Stored, UNCHANGED vars PROVE Stored'
<1>1. /\ UNCHANGED <<setup, pc, at, S, part, block, input, collected, sent, answered>>
  BY DEF vars, rankVars
<1>2. StoredJson'
  BY <1>1 DEF Stored, StoredJson
<1>3. Rows'
  BY <1>1 DEF Stored, Rows
<1>4. Counted'
  BY <1>1 DEF Stored, Counted
<1>5. Blocks1'
  BY <1>1 DEF Stored, Blocks1
<1>6. QED
  BY <1>2, <1>3, <1>4, <1>5 DEF Stored

LEMMA StoredNext ==
  ASSUME AllGive, MergesOnce, CameForEach, Stored, [Next]_vars
  PROVE  Stored'
<1>1. ASSUME RankOnly
      PROVE  Stored'
  <2>1. UNCHANGED <<sent, answered>> /\ (Input \/ Collect \/ CandidateOver \/ AllCollected \/ Sort)
    BY <1>1 DEF RankOnly, RankStep
  <2>2. QED
    BY <2>1, StoredInput, StoredCollect, StoredOver, StoredAll, StoredSort
<1>2. QED
  BY <1>1, StoredDefine, StoredBuild, StoredParse, StoredRecalled, StoredFinish, StoredStop
     DEF Next, Stop

-----------------------------------------------------------------------------
(* The types.                                                              *)

LEMMA JsonListIsWhole ==
  ASSUME NEW s, Listed(s), \A i \in DOMAIN s : Json(s[i])
  PROVE  Whole(Arr(s))
<1>1. PICK v : v = Arr(s)
  OBVIOUS
<1>2. Json(v)
  BY <1>1, JsonArray
<1>3. QED
  BY <1>1, <1>2, JsonIsWhole

\* A node begins to rank as RankSpec does.
LEMMA RankingBegins ==
  ASSUME Stored, AnswersFit, pc = "input", block = 1
  PROVE  RankInit
<1>1. /\ setup \in Setups /\ JsonScopes(S, 2) /\ Homes(S) /\ 1 \in DOMAIN setup.rank /\ Begins(S)
  BY DEF Stored, StoredJson, Blocks1, Final
<1>2. setup.rank # <<>>
  BY <1>1
<1>3. Listed(S) /\ Len(S) = 2 /\ 1 \in DOMAIN S
  BY <1>1 DEF JsonScopes
<1>4. S \in Seq(ToSet(S)) /\ S # <<>>
  <2>1. PICK A : A = ToSet(S)
    OBVIOUS
  <2>2. \A i \in DOMAIN S : S[i] \in A
    BY <2>1 DEF ToSet
  <2>3. S \in Seq(A)
    BY <1>3, <2>2, ListedInSeq
  <2>4. QED
    BY <1>3, <2>1, <2>3
<1>5. PICK v : v = Lookup(S, "backend")
  OBVIOUS
<1>6. Is(v, "object") /\ Json(v)
  <2>1. PICK R : R = S
    OBVIOUS
  <2>2. JsonScopes(R, 2) /\ Homes(R) /\ 2 \in DOMAIN R
    BY <1>1, <1>3, <2>1 DEF Listed
  <2>3. Lookup(R, "backend") = R[2]["backend"]
    BY <2>2, HomesLookup
  <2>4. Json(R[2]["backend"])
    BY <2>2 DEF JsonScopes, Homes
  <2>5. QED
    BY <1>5, <2>1, <2>2, <2>3, <2>4 DEF Homes
<1>7. PICK f : f = v[2]
  OBVIOUS
<1>8. Answers = f
  BY <1>5, <1>7 DEF Answers
<1>9. ASSUME NEW s \in DOMAIN f
      PROVE  /\ f[s] # Absent
             /\ Is(f[s], "array") => /\ f[s][2] \in Seq(ToSet(f[s][2]) \ {Absent})
                                     /\ Len(f[s][2]) <= Len(Numerals)
  <2>1. PICK w : w = f[s]
    OBVIOUS
  <2>2. Json(w)
    BY <1>6, <1>7, <1>9, <2>1, JsonMembers
  <2>3. w # Absent
    BY <2>2, JsonHas
  <2>4. ASSUME Is(w, "array")
        PROVE  w[2] \in Seq(ToSet(w[2]) \ {Absent}) /\ Len(w[2]) <= Len(Numerals)
    <3>1. PICK es : es = w[2]
      OBVIOUS
    <3>2. Listed(es) /\ \A i \in DOMAIN es : Json(es[i])
      BY <2>2, <2>4, <3>1, JsonElements
    <3>3. PICK A : A = ToSet(es) \ {Absent}
      OBVIOUS
    <3>4. \A i \in DOMAIN es : es[i] \in A
      <4>1. ASSUME NEW i \in DOMAIN es
            PROVE  es[i] \in A
        <5>1. es[i] # Absent
          BY <3>2, JsonHas
        <5>2. QED
          BY <3>3, <5>1 DEF ToSet
      <4>2. QED
        BY <4>1
    <3>5. es \in Seq(A)
      BY <3>2, <3>4, ListedInSeq
    <3>6. Len(es) <= Len(Numerals)
      BY <1>8, <1>9, <2>1, <2>4, <3>1 DEF AnswersFit
    <3>7. QED
      BY <3>1, <3>3, <3>5, <3>6
  <2>5. QED
    BY <2>1, <2>3, <2>4
<1>10. QED
  BY <1>1, <1>2, <1>4, <1>5, <1>6, <1>8, <1>9 DEF RankInit, Begins

LEMMA StoredIsTyped ==
  ASSUME Stored, AnswersFit
  PROVE  TypeOK
<1>1. pc \in {"define", "build", "parse", "recalled", "input", "collect", "sort", "output"} \cup Final
  BY DEF Stored, StoredJson, Before1
<1>2. at \in Nat /\ block \in Nat
  BY DEF Stored, StoredJson
<1>3. Len(S) = 2 /\ \A i \in DOMAIN S : \A x \in DOMAIN S[i] : Whole(S[i][x])
  <2>1. JsonScopes(S, 2)
    BY DEF Stored, StoredJson
  <2>2. ASSUME NEW i \in DOMAIN S, NEW x \in DOMAIN S[i]
        PROVE  Whole(S[i][x])
    BY <2>1, <2>2, JsonIsWhole DEF JsonScopes
  <2>3. QED
    BY <2>1, <2>2 DEF JsonScopes
<1>4. Whole(Arr(input))
  <2>1. Listed(input) /\ \A i \in DOMAIN input : Json(input[i])
    BY DEF Stored, Rows
  <2>2. PICK s : s = input
    OBVIOUS
  <2>3. Whole(Arr(s))
    BY <2>1, <2>2, JsonListIsWhole
  <2>4. QED
    BY <2>2, <2>3
<1>5. \A i \in DOMAIN collected : Whole(collected[i].name) /\ Whole(Arr(collected[i].features))
  <2>1. \A i \in DOMAIN collected : Json(collected[i].name) /\ Json(Arr(collected[i].features))
    BY DEF Stored, Rows
  <2>2. \A v : Json(v) => Whole(v)
    BY JsonIsWhole
  <2>3. QED
    BY <2>1, <2>2
<1>6. Len(sent) <= Len(setup.services) /\ Len(answered) <= Len(setup.services)
  BY DEF Stored, Counted
<1>7. pc = "input" /\ block = 1 => RankInit
  BY RankingBegins
<1>8. QED
  BY <1>1, <1>2, <1>3, <1>4, <1>5, <1>6, <1>7 DEF TypeOK

\* So stored values are JSON throughout.
LEMMA StoredHolds == ASSUME AllGive, MergesOnce PROVE Spec /\ []Bounds => []Stored
<1>1. Init => Stored
  BY StoredInit
<1>2. Bounds /\ Stored /\ [Next]_vars => Stored'
  BY StoredNext DEF Bounds
<1>3. QED
  BY <1>1, <1>2, PTL DEF Spec

\* Whatever a node is configured with and whatever comes of its calls, if every expression
\* gives JSON or an error: what is stored in the scopes, as an input of a rank block, as a
\* name or as a feature is JSON, no error is put into a variable and none is read where
\* something is missing, and ranking begins where RankSpec does.
THEOREM TypeCorrect ==
  ASSUME AllGive, MergesOnce
  PROVE  Spec /\ []Bounds => []TypeOK
<1>1. Bounds /\ Stored => TypeOK
  BY StoredIsTyped DEF Bounds
<1>2. Spec /\ []Bounds => []Stored
  BY StoredHolds
<1>3. QED
  BY <1>1, <1>2, PTL

-----------------------------------------------------------------------------
(* A node ranks as RankSpec does.                                          *)

RankingNow == pc \in {"input", "collect", "sort"} \/ (pc = "output" /\ block > 1)
RankStarts == pc = "input" /\ block = 1

LEMMA RankStarted == Stored /\ Bounds /\ RankStarts => RankInit
BY RankingBegins DEF RankStarts, Bounds

LEMMA RanksOn == Init => ~RankingNow
BY DEF Init, RankingNow

\* A step of a node that is ranking afterwards is one of RankSpec's, or starts it.
LEMMA RanksOnly == Stored /\ [Next]_vars /\ RankingNow' => RankStarts' \/ (RankingNow /\ [RankStep]_ranking)
<1> SUFFICES ASSUME Stored, [Next]_vars, RankingNow'
             PROVE  RankStarts' \/ (RankingNow /\ [RankStep]_ranking)
  OBVIOUS
<1>1. CASE UNCHANGED vars
  BY <1>1 DEF vars, rankVars, ranking, RankingNow
<1>2. CASE Define
  BY <1>2 DEF Define, Outcome, RankingNow
<1>3. CASE Build
  BY <1>3 DEF Build, RankingNow
<1>4. CASE Parse
  BY <1>4 DEF Parse, RankingNow
<1>5. CASE Recalled
  <2>1. block = 1
    BY <1>5 DEF Recalled, Stored, Blocks1, Before1
  <2>2. block' = block /\ pc' \in {"input", "output"}
    BY <1>5 DEF Recalled, rankVars
  <2>3. QED
    BY <2>1, <2>2 DEF RankingNow, RankStarts
<1>6. CASE RankOnly
  <2>1. RankStep /\ pc \in {"input", "collect", "sort"}
    BY <1>6 DEF RankOnly, RankStep, Input, Collect, CandidateOver, AllCollected, Sort
  <2>2. QED
    BY <2>1 DEF RankingNow
<1>7. CASE Finish
  BY <1>7 DEF Finish, Outcome, RankingNow
<1>8. CASE Stop
  BY <1>8 DEF Stop, vars, rankVars, ranking, RankingNow
<1>9. QED
  BY <1>1, <1>2, <1>3, <1>4, <1>5, <1>6, <1>7, <1>8 DEF Next

\* The comparison that a node hands to std::sort is a strict weak order, under what
\* SortCanCompare asks of the node where it begins to rank.
THEOREM NodeCanCompare ==
  ASSUME AllGive, MergesOnce
  PROVE  Spec /\ []Bounds /\ [](RankStarts => Rankable) => []SortIsDefined
<1> DEFINE Held == RankingNow => RankHeld
           Asked == RankStarts => Rankable
<1>1. Init => Held
  BY RanksOn
<1>2. Stored /\ Bounds /\ Asked /\ RankStarts => RankHeld
  BY RankStarted, RankHeldInit
<1>3. RankHeld /\ [RankStep]_ranking => RankHeld'
  BY RankHeldStep
<1>4. Stored /\ [Next]_vars /\ RankingNow' => RankStarts' \/ (RankingNow /\ [RankStep]_ranking)
  BY RanksOnly
<1>5. Held => SortIsDefined
  <2>1. pc = "sort" => RankingNow
    BY DEF RankingNow
  <2>2. QED
    BY <2>1, SortCompares DEF SortIsDefined
<1>6. Spec /\ []Bounds => []Stored
  BY StoredHolds
<1>7. QED
  BY <1>1, <1>2, <1>3, <1>4, <1>5, <1>6, PTL DEF Spec

\* No rank block of a node leaves in `rank' a name before one that its rule puts before
\* it, under what RankingFollowsTheRule asks of the node where it begins to rank.
THEOREM NodeFollowsTheRule ==
  ASSUME AllGive, MergesOnce
  PROVE  Spec /\ []Bounds /\ [](RankStarts => Rankable /\ ReadsNames /\ NullsLast) => []RankIsSorted
<1> DEFINE Ranks == SortHeld /\ RankIsSorted
           Held == RankingNow => Ranks
           Asked == RankStarts => Rankable /\ ReadsNames /\ NullsLast
<1>1. Init => Held
  BY RanksOn
<1>2. Stored /\ Bounds /\ Asked /\ RankStarts => Ranks
  <2> SUFFICES ASSUME Stored, Bounds, Asked, RankStarts
               PROVE  Ranks
    OBVIOUS
  <2>1. RankInit
    BY RankStarted
  <2>2. SortHeld
    BY <2>1, RankHeldInit, NamesInit DEF SortHeld
  <2>3. ~Ended
    BY DEF RankStarts, Ended
  <2>4. QED
    BY <2>2, <2>3 DEF RankIsSorted
<1>3. Ranks /\ [RankStep]_ranking => Ranks'
  <2> SUFFICES ASSUME Ranks, [RankStep]_ranking
               PROVE  Ranks'
    OBVIOUS
  <2>1. CASE ~Ended'
    BY <2>1, SortHeldStep DEF RankIsSorted
  <2>2. CASE Sort
    BY <2>2, SortHeldStep, SortSorts
  <2>3. CASE UNCHANGED ranking
    BY <2>3, NothingMoves, SortHeldStep
  <2>4. QED
    BY <2>1, <2>2, <2>3, EndedIsSorted
<1>4. Stored /\ [Next]_vars /\ RankingNow' => RankStarts' \/ (RankingNow /\ [RankStep]_ranking)
  BY RanksOnly
<1>5. Held => RankIsSorted
  <2>1. Ended => RankingNow
    BY DEF RankingNow, Ended
  <2>2. QED
    BY <2>1 DEF RankIsSorted
<1>6. Spec /\ []Bounds => []Stored
  BY StoredHolds
<1> HIDE DEF Ranks
<1>7. QED
  BY <1>1, <1>2, <1>3, <1>4, <1>5, <1>6, PTL DEF Spec

\* Every rank block of a node leaves out only what belongs last, and only for top_k, and
\* repeats nothing, under what RankingKeepsTheBest asks of the node where it begins to rank.
THEOREM NodeKeepsTheBest ==
  ASSUME AllGive, MergesOnce
  PROVE  Spec /\ []Bounds /\ [](RankStarts => Rankable /\ ReadsNames /\ NullsLast /\ ReadsOnce)
           => []TopIsBest
<1> DEFINE Ranks == BestHeld /\ TopIsBest
           Held == RankingNow => Ranks
           Asked == RankStarts => Rankable /\ ReadsNames /\ NullsLast /\ ReadsOnce
<1>1. Init => Held
  BY RanksOn
<1>2. Stored /\ Bounds /\ Asked /\ RankStarts => Ranks
  <2> SUFFICES ASSUME Stored, Bounds, Asked, RankStarts
               PROVE  Ranks
    OBVIOUS
  <2>1. RankInit
    BY RankStarted
  <2>2. SortHeld
    BY <2>1, RankHeldInit, NamesInit DEF SortHeld
  <2>3. ~Ended /\ pc = "input"
    BY DEF RankStarts, Ended
  <2>4. OnceHeld
    BY <2>1, <2>3 DEF RankInit, OnceHeld, Left
  <2>5. CompleteHeld
    BY <2>3 DEF CompleteHeld
  <2>6. QED
    BY <2>2, <2>3, <2>4, <2>5 DEF BestHeld, TopIsBest
<1>3. Ranks /\ [RankStep]_ranking => Ranks'
  <2> SUFFICES ASSUME Ranks, [RankStep]_ranking
               PROVE  Ranks'
    OBVIOUS
  <2>1. CASE ~Ended'
    BY <2>1, BestHeldStep DEF TopIsBest
  <2>2. CASE Sort
    BY <2>2, BestHeldStep, SortKeepsTheBest
  <2>3. CASE UNCHANGED ranking
    BY <2>3, NothingMoves, BestHeldStep
  <2>4. QED
    BY <2>1, <2>2, <2>3, EndedIsSorted
<1>4. Stored /\ [Next]_vars /\ RankingNow' => RankStarts' \/ (RankingNow /\ [RankStep]_ranking)
  BY RanksOnly
<1>5. Held => TopIsBest
  <2>1. Ended => RankingNow
    BY DEF RankingNow, Ended
  <2>2. QED
    BY <2>1 DEF TopIsBest
<1>6. Spec /\ []Bounds => []Stored
  BY StoredHolds
<1> HIDE DEF Ranks
<1>7. QED
  BY <1>1, <1>2, <1>3, <1>4, <1>5, <1>6, PTL DEF Spec
=============================================================================

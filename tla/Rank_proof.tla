------------------------------ MODULE Rank_proof ------------------------------
(***************************************************************************)
(* Theorems about Rank: that the comparison is one that sorting can use,   *)
(* that a block leaves its candidates in the order of its rule, and that   *)
(* it leaves out none but those that belong last.                          *)
(***************************************************************************)
EXTENDS Rank, TLAPS, SequenceTheorems, WellFoundedInduction

LEMMA LeastExists ==
  ASSUME NEW T \in SUBSET Nat, T # {}
  PROVE  \E i \in T : \A j \in T : i <= j
<1>1. PICK i \in T : \A j \in T : ~(<<j, i>> \in OpToRel(<, Nat))
  BY NatLessThanWellFounded, WFMin
<1>2. ASSUME NEW j \in T
      PROVE  i <= j
  <2>1. <<j, i>> \in Nat \X Nat
    OBVIOUS
  <2>2. ~(j < i)
    BY <1>1, <2>1 DEF OpToRel
  <2>3. QED
    BY <2>2
<1>3. QED
  BY <1>2

LEMMA SeqOfToSet ==
  ASSUME NEW T, NEW s \in Seq(T)
  PROVE  s \in Seq(ToSet(s))
<1>1. \A i \in 1..Len(s) : s[i] \in ToSet(s)
  BY DEF ToSet
<1>2. s = [i \in 1..Len(s) |-> s[i]] /\ Len(s) \in Nat
  OBVIOUS
<1>3. QED
  BY <1>1, <1>2, IsASeq

-----------------------------------------------------------------------------
(* The comparison.                                                         *)

\* Lists of features that can be compared: numbers or null, as many as there are
\* directions.
Feature == {Null} \cup {Num(n) : n \in Int}
Comparable(b) == {f \in Seq(Feature) : Len(f) = Required(b)}

\* What they may not be at once: at a place before the last, null and zero.
NoNullAndZero(b, F) ==
  \A f, g \in F : \A i \in 1..Required(b) - 1 : ~(f[i] = Null /\ g[i] = Num(0))

Ahead(b, i, m, n) == IF Desc(b, i) THEN m > n ELSE m < n

\* Two lists that are equal up to a place, and not both null at any before it.
AlikeTo(f, g, i) ==
  \A j \in 1..i - 1 : Number(f[j]) = Number(g[j]) /\ ~(f[j] = Null /\ g[j] = Null)

LEMMA NumberType == \A v \in Feature : Number(v) \in Int /\ (Number(v) = 0 => v \in {Null, Num(0)})
BY DEF Feature, Number, Null, Num

LEMMA LessMeans ==
  ASSUME NEW b, Required(b) \in Nat, \A i \in 1..Required(b) : Desc(b, i) \in BOOLEAN,
         NEW f \in Comparable(b), NEW g \in Comparable(b)
  PROVE  Less(b, f, g) <=>
           \E i \in 1..Required(b) : AlikeTo(f, g, i) /\ Ahead(b, i, Number(f[i]), Number(g[i]))
<1> DEFINE decides == {i \in DOMAIN f : {f[i], g[i]} = {Null} \/ Number(f[i]) # Number(g[i])}
           first == CHOOSE i \in decides : \A j \in decides : i <= j
<1>1. DOMAIN f = 1..Required(b) /\ \A i \in 1..Required(b) : f[i] \in Feature /\ g[i] \in Feature
  BY DEF Comparable
<1>2. \A i \in 1..Required(b) : Number(f[i]) \in Int /\ Number(g[i]) \in Int
  BY <1>1, NumberType
<1>3. \A i : {f[i], g[i]} = {Null} <=> f[i] = Null /\ g[i] = Null
  OBVIOUS
<1>4. decides \in SUBSET Nat
  BY <1>1
<1>5. decides # {} => first \in decides /\ \A j \in decides : first <= j
  BY <1>4, LeastExists
<1>6. ASSUME Less(b, f, g)
      PROVE  \E i \in 1..Required(b) : AlikeTo(f, g, i) /\ Ahead(b, i, Number(f[i]), Number(g[i]))
  <2>1. /\ decides # {}
        /\ ~(f[first] = Null /\ g[first] = Null)
        /\ (Number(f[first]) < Number(g[first]) <=> ~Desc(b, first))
    BY <1>3, <1>6 DEF Less
  <2>2. first \in 1..Required(b) /\ Number(f[first]) # Number(g[first])
    BY <1>1, <1>3, <1>5, <2>1
  <2>3. AlikeTo(f, g, first)
    <3>1. \A j \in 1..first - 1 : j \in 1..Required(b) /\ j \notin decides
      <4> HIDE DEF first, decides
      <4>1. QED
        BY <1>5, <2>1, <2>2
    <3>2. \A j \in 1..first - 1 : Number(f[j]) = Number(g[j]) /\ ~(f[j] = Null /\ g[j] = Null)
      BY <1>1, <1>3, <3>1
    <3>3. QED
      BY <3>2 DEF AlikeTo
  <2>4. Ahead(b, first, Number(f[first]), Number(g[first]))
    BY <1>2, <2>1, <2>2 DEF Ahead
  <2>5. QED
    BY <2>2, <2>3, <2>4
<1>7. ASSUME NEW i \in 1..Required(b), AlikeTo(f, g, i), Ahead(b, i, Number(f[i]), Number(g[i]))
      PROVE  Less(b, f, g)
  <2>1. Number(f[i]) # Number(g[i])
    BY <1>2, <1>7 DEF Ahead
  <2>2. ~(f[i] = Null /\ g[i] = Null)
    BY <2>1
  <2>3. i \in decides /\ \A j \in decides : i <= j
    <3>1. i \in decides
      BY <1>1, <2>1
    <3>2. \A j \in 1..i - 1 : j \notin decides
      BY <1>3, <1>7 DEF AlikeTo
    <3>3. ASSUME NEW j \in decides
          PROVE  i <= j
      <4> HIDE DEF decides
      <4>1. j \in Nat /\ i \in Nat
        BY <1>4, <3>1
      <4>2. CASE j < i
        <5>1. j # 0
          BY <1>1, <3>3 DEF decides
        <5>2. QED
          BY <3>2, <3>3, <4>1, <4>2, <5>1
      <4>3. QED
        BY <4>1, <4>2
    <3>4. QED
      BY <3>1, <3>3
  <2>4. first = i
    BY <1>4, <1>5, <2>3
  <2>5. (Number(f[i]) < Number(g[i]) <=> ~Desc(b, i))
    BY <1>2, <1>7 DEF Ahead
  <2>6. QED
    BY <1>3, <2>2, <2>3, <2>4, <2>5 DEF Less
<1>8. QED
  BY <1>6, <1>7

LEMMA Irreflexive ==
  ASSUME NEW b, Required(b) \in Nat, \A i \in 1..Required(b) : Desc(b, i) \in BOOLEAN,
         NEW f \in Comparable(b)
  PROVE  ~Less(b, f, f)
<1>1. \A i \in 1..Required(b) : Number(f[i]) \in Int
  BY NumberType DEF Comparable
<1>2. \A i \in 1..Required(b) : ~Ahead(b, i, Number(f[i]), Number(f[i]))
  BY <1>1 DEF Ahead
<1>3. QED
  BY <1>2, LessMeans

\* What AlikeTo has to do with a third list: null and zero do not meet.
LEMMA AlikeIsTransitive ==
  ASSUME NEW b, Required(b) \in Nat,
         NEW F \in SUBSET Comparable(b), NoNullAndZero(b, F),
         NEW f \in F, NEW g \in F, NEW h \in F,
         NEW i \in 1..Required(b), AlikeTo(f, g, i), AlikeTo(g, h, i)
  PROVE  AlikeTo(f, h, i)
<1>1. ASSUME NEW j \in 1..i - 1
      PROVE  Number(f[j]) = Number(h[j]) /\ ~(f[j] = Null /\ h[j] = Null)
  <2>1. j \in 1..Required(b) - 1 /\ j \in 1..Required(b)
    OBVIOUS
  <2>2. f[j] \in Feature /\ g[j] \in Feature /\ h[j] \in Feature
    BY <2>1 DEF Comparable
  <2>3. /\ Number(f[j]) = Number(g[j]) /\ ~(f[j] = Null /\ g[j] = Null)
        /\ Number(g[j]) = Number(h[j])
    BY DEF AlikeTo
  <2>4. ASSUME f[j] = Null
        PROVE  FALSE
    <3>1. Number(g[j]) = 0
      BY <2>3, <2>4 DEF Number
    <3>2. g[j] = Num(0)
      BY <2>2, <2>3, <2>4, <3>1, NumberType
    <3>3. QED
      BY <2>1, <2>4, <3>2 DEF NoNullAndZero
  <2>5. QED
    BY <2>3, <2>4
<1>2. QED
  BY <1>1 DEF AlikeTo

LEMMA Transitive ==
  ASSUME NEW b, Required(b) \in Nat, \A i \in 1..Required(b) : Desc(b, i) \in BOOLEAN,
         NEW F \in SUBSET Comparable(b), NoNullAndZero(b, F),
         NEW f \in F, NEW g \in F, NEW h \in F, Less(b, f, g), Less(b, g, h)
  PROVE  Less(b, f, h)
<1>0. f \in Comparable(b) /\ g \in Comparable(b) /\ h \in Comparable(b)
  OBVIOUS
<1>1. PICK i \in 1..Required(b) : AlikeTo(f, g, i) /\ Ahead(b, i, Number(f[i]), Number(g[i]))
  BY <1>0, LessMeans
<1>2. PICK j \in 1..Required(b) : AlikeTo(g, h, j) /\ Ahead(b, j, Number(g[j]), Number(h[j]))
  BY <1>0, LessMeans
<1>3. \A k \in 1..Required(b) :
        Number(f[k]) \in Int /\ Number(g[k]) \in Int /\ Number(h[k]) \in Int
  <2>1. \A k \in 1..Required(b) : f[k] \in Feature /\ g[k] \in Feature /\ h[k] \in Feature
    BY <1>0 DEF Comparable
  <2>2. QED
    BY <2>1, NumberType
<1>4. CASE i < j
  <2>1. AlikeTo(g, h, i) /\ Number(g[i]) = Number(h[i])
    BY <1>2, <1>4 DEF AlikeTo
  <2>2. AlikeTo(f, h, i)
    BY <1>1, <2>1, AlikeIsTransitive
  <2>3. QED
    BY <1>1, <2>1, <2>2, LessMeans
<1>5. CASE j < i
  <2>1. AlikeTo(f, g, j) /\ Number(f[j]) = Number(g[j])
    BY <1>1, <1>5 DEF AlikeTo
  <2>2. AlikeTo(f, h, j)
    BY <1>2, <2>1, AlikeIsTransitive
  <2>3. QED
    BY <1>2, <2>1, <2>2, LessMeans
<1>6. CASE i = j
  <2>1. AlikeTo(f, h, i)
    BY <1>1, <1>2, <1>6, AlikeIsTransitive
  <2>2. Ahead(b, i, Number(f[i]), Number(h[i]))
    BY <1>1, <1>2, <1>3, <1>6 DEF Ahead
  <2>3. QED
    BY <2>1, <2>2, LessMeans
<1>7. QED
  BY <1>4, <1>5, <1>6

\* Of two lists neither of which goes first: they are equal all along, or up to a place
\* where both are null.
Even(b, f, g) ==
  \/ \A i \in 1..Required(b) : Number(f[i]) = Number(g[i])
  \/ \E k \in 1..Required(b) :
       f[k] = Null /\ g[k] = Null /\ \A i \in 1..k : Number(f[i]) = Number(g[i])

LEMMA SameMeans ==
  ASSUME NEW b, Required(b) \in Nat, \A i \in 1..Required(b) : Desc(b, i) \in BOOLEAN,
         NEW f \in Comparable(b), NEW g \in Comparable(b)
  PROVE  Same(b, f, g) <=> Even(b, f, g)
<1> DEFINE decides == {i \in 1..Required(b) : Number(f[i]) # Number(g[i])
                                              \/ (f[i] = Null /\ g[i] = Null)}
<1>1. \A i \in 1..Required(b) : Number(f[i]) \in Int /\ Number(g[i]) \in Int
  BY NumberType DEF Comparable
<1>2. ASSUME Same(b, f, g), decides # {}
      PROVE  Even(b, f, g)
  <2>1. PICK i \in decides : \A j \in decides : i <= j
    <3>1. decides \in SUBSET Nat
      OBVIOUS
    <3>2. QED
      BY <1>2, <3>1, LeastExists
  <2>2. i \in 1..Required(b) /\ \A j \in 1..i - 1 : j \in 1..Required(b) /\ j \notin decides
    BY <2>1
  <2>3. AlikeTo(f, g, i) /\ AlikeTo(g, f, i)
    BY <2>2 DEF AlikeTo
  <2>4. /\ ~Ahead(b, i, Number(f[i]), Number(g[i]))
        /\ ~Ahead(b, i, Number(g[i]), Number(f[i]))
    BY <1>2, <2>2, <2>3, LessMeans DEF Same
  <2>5. Number(f[i]) = Number(g[i])
    BY <1>1, <2>2, <2>4 DEF Ahead
  <2>6. f[i] = Null /\ g[i] = Null
    BY <2>1, <2>5
  <2>7. \A j \in 1..i : Number(f[j]) = Number(g[j])
    BY <2>2, <2>3, <2>5 DEF AlikeTo
  <2>8. QED
    BY <2>2, <2>6, <2>7 DEF Even
<1>3. ASSUME Even(b, f, g), NEW i \in 1..Required(b), AlikeTo(f, g, i) \/ AlikeTo(g, f, i),
             \/ Ahead(b, i, Number(f[i]), Number(g[i]))
             \/ Ahead(b, i, Number(g[i]), Number(f[i]))
      PROVE  FALSE
  <2>1. Number(f[i]) # Number(g[i])
    BY <1>1, <1>3 DEF Ahead
  <2>2. PICK k \in 1..Required(b) : f[k] = Null /\ g[k] = Null
                                   /\ \A j \in 1..k : Number(f[j]) = Number(g[j])
    BY <1>3, <2>1 DEF Even
  <2>3. k \in 1..i - 1
    BY <2>1, <2>2
  <2>4. QED
    BY <1>3, <2>2, <2>3 DEF AlikeTo
<1>4. Even(b, f, g) => Same(b, f, g)
  BY <1>3, LessMeans DEF Same
<1>5. decides = {} => Even(b, f, g)
  BY DEF Even
<1>6. QED
  BY <1>2, <1>4, <1>5

LEMMA EvenIsTransitive ==
  ASSUME NEW b, Required(b) \in Nat,
         NEW F \in SUBSET Comparable(b), NoNullAndZero(b, F),
         NEW f \in F, NEW g \in F, NEW h \in F, Even(b, f, g), Even(b, g, h)
  PROVE  Even(b, f, h)
<1>1. \A i \in 1..Required(b) : f[i] \in Feature /\ g[i] \in Feature /\ h[i] \in Feature
  BY DEF Comparable
<1>2. Number(Null) = 0
  BY DEF Number
\* Beside a null there is a null, or it is the last place.
<1>3. ASSUME NEW u \in F, NEW v \in F, NEW i \in 1..Required(b) - 1,
             u[i] = Null, Number(v[i]) = Number(u[i])
      PROVE  v[i] = Null
  <2>1. v[i] \in Feature
    BY DEF Comparable
  <2>2. v[i] \in {Null, Num(0)}
    BY <1>2, <1>3, <2>1, NumberType
  <2>3. QED
    BY <1>3, <2>2 DEF NoNullAndZero
<1>4. CASE (\A i \in 1..Required(b) : Number(f[i]) = Number(g[i]))
           /\ \A i \in 1..Required(b) : Number(g[i]) = Number(h[i])
  BY <1>4 DEF Even
<1>5. ASSUME NEW k \in 1..Required(b), NEW u \in F, NEW v \in F, NEW w \in F,
             u[k] = Null, v[k] = Null, Number(v[k]) = Number(w[k]),
             \A i \in 1..k : Number(u[i]) = Number(v[i]) /\ Number(v[i]) = Number(w[i])
      PROVE  Even(b, u, w)
  <2>1. CASE k = Required(b)
    BY <1>5, <2>1 DEF Even
  <2>2. CASE k < Required(b)
    <3>1. w[k] = Null
      BY <1>3, <1>5, <2>2
    <3>2. QED
      BY <1>5, <3>1 DEF Even
  <2>3. QED
    BY <2>1, <2>2
<1>6. ASSUME NEW u \in F, NEW v \in F, Even(b, u, v)
      PROVE  Even(b, v, u)
  BY <1>6 DEF Even
<1>7. ASSUME NEW k \in 1..Required(b), f[k] = Null, g[k] = Null,
             \A i \in 1..k : Number(f[i]) = Number(g[i]) /\ Number(g[i]) = Number(h[i])
      PROVE  Even(b, f, h)
  BY <1>5, <1>7
<1>8. ASSUME NEW k \in 1..Required(b), h[k] = Null, g[k] = Null,
             \A i \in 1..k : Number(f[i]) = Number(g[i]) /\ Number(g[i]) = Number(h[i])
      PROVE  Even(b, f, h)
  <2>1. Even(b, h, f)
    BY <1>5, <1>8
  <2>2. QED
    BY <1>6, <2>1
<1>9. ASSUME NEW k \in 1..Required(b), f[k] = Null, g[k] = Null,
             \A i \in 1..k : Number(f[i]) = Number(g[i])
      PROVE  Even(b, f, h)
  <2>1. CASE \A i \in 1..Required(b) : Number(g[i]) = Number(h[i])
    BY <1>7, <1>9, <2>1
  <2>2. ASSUME NEW l \in 1..Required(b), g[l] = Null, h[l] = Null,
               \A i \in 1..l : Number(g[i]) = Number(h[i])
        PROVE  Even(b, f, h)
    <3>1. CASE k <= l
      BY <1>7, <1>9, <2>2, <3>1
    <3>2. CASE l < k
      BY <1>8, <1>9, <2>2, <3>2
    <3>3. QED
      BY <3>1, <3>2
  <2>3. QED
    BY <2>1, <2>2 DEF Even
<1>10. ASSUME NEW k \in 1..Required(b), g[k] = Null, h[k] = Null,
              \A i \in 1..k : Number(g[i]) = Number(h[i]),
              \A i \in 1..Required(b) : Number(f[i]) = Number(g[i])
       PROVE  Even(b, f, h)
  BY <1>8, <1>10
<1>11. QED
  BY <1>4, <1>9, <1>10 DEF Even

\* Where null and zero do not meet but at the last place, the comparison is one that
\* sorting can use.
LEMMA ComparisonSorts ==
  ASSUME NEW b, Required(b) \in Nat, \A i \in 1..Required(b) : Desc(b, i) \in BOOLEAN,
         NEW F \in SUBSET Comparable(b), NoNullAndZero(b, F)
  PROVE  StrictWeak(b, F)
<1>1. ASSUME NEW f \in F, NEW g \in F, NEW h \in F, Same(b, f, g), Same(b, g, h)
      PROVE  Same(b, f, h)
  <2>1. Even(b, f, g) /\ Even(b, g, h)
    BY <1>1, SameMeans
  <2>2. Even(b, f, h)
    BY <2>1, EvenIsTransitive
  <2>3. QED
    BY <2>2, SameMeans
<1>2. QED
  BY <1>1, Irreflexive, Transitive DEF StrictWeak

-----------------------------------------------------------------------------
(* Scopes.                                                                 *)

Scopes(Q) == Q \in Seq(ToSet(Q)) /\ Q # <<>>

LEMMA ScopesFacts ==
  ASSUME NEW Q, Scopes(Q)
  PROVE  Len(Q) \in Nat /\ DOMAIN Q = 1..Len(Q) /\ 1 \in DOMAIN Q
BY DEF Scopes

LEMMA ResetFacts ==
  ASSUME NEW Q, Scopes(Q), NEW x, NEW v
  PROVE  /\ Scopes(Reset(Q, x, v))
         /\ DOMAIN Reset(Q, x, v) = DOMAIN Q
         /\ \A i \in DOMAIN Q \ {1} : Reset(Q, x, v)[i] = Q[i]
         /\ Reset(Q, x, v)[1] = [y \in DOMAIN Q[1] \cup {x} |-> IF y = x THEN v ELSE Q[1][y]]
<1> DEFINE R == Reset(Q, x, v)
<1>1. /\ DOMAIN R = DOMAIN Q
      /\ \A i \in DOMAIN Q \ {1} : R[i] = Q[i]
      /\ R[1] = [y \in DOMAIN Q[1] \cup {x} |-> IF y = x THEN v ELSE Q[1][y]]
  BY ScopesFacts DEF Reset
<1>2. R = [i \in 1..Len(Q) |-> R[i]]
  BY ScopesFacts DEF Reset
<1>3. R \in Seq(ToSet(R))
  <2>1. \A i \in 1..Len(Q) : R[i] \in ToSet(R)
    BY <1>1, ScopesFacts DEF ToSet
  <2>2. QED
    BY <1>2, <2>1, ScopesFacts, IsASeq
<1>4. R # <<>>
  BY <1>1, ScopesFacts
<1>5. QED
  BY <1>1, <1>3, <1>4 DEF Scopes

LEMMA LookupReset ==
  ASSUME NEW Q, Scopes(Q), NEW x, NEW v
  PROVE  /\ Lookup(Reset(Q, x, v), x) = v
         /\ \A y : y # x => Lookup(Reset(Q, x, v), y) = Lookup(Q, y)
<1> DEFINE R == Reset(Q, x, v)
           in(P, y) == {i \in DOMAIN P : y \in DOMAIN P[i]}
           first(P, y) == CHOOSE i \in in(P, y) : \A j \in in(P, y) : i <= j
<1>1. /\ DOMAIN R = DOMAIN Q
      /\ \A i \in DOMAIN Q \ {1} : R[i] = Q[i]
      /\ R[1] = [y \in DOMAIN Q[1] \cup {x} |-> IF y = x THEN v ELSE Q[1][y]]
      /\ Len(Q) \in Nat /\ DOMAIN Q = 1..Len(Q) /\ 1 \in DOMAIN Q
  <2>1. /\ DOMAIN R = DOMAIN Q
        /\ \A i \in DOMAIN Q \ {1} : R[i] = Q[i]
        /\ R[1] = [y \in DOMAIN Q[1] \cup {x} |-> IF y = x THEN v ELSE Q[1][y]]
    BY ResetFacts
  <2>2. Len(Q) \in Nat /\ DOMAIN Q = 1..Len(Q) /\ 1 \in DOMAIN Q
    BY ScopesFacts
  <2> HIDE DEF R
  <2>3. QED
    BY <2>1, <2>2
<1> HIDE DEF R
<1>2. Lookup(R, x) = v
  <2>1. 1 \in in(R, x) /\ \A i \in in(R, x) : i \in Nat /\ 1 <= i
    BY <1>1
  <2>2. first(R, x) = 1
    BY <2>1
  <2>3. Lookup(R, x) = R[1][x]
    BY <2>1, <2>2 DEF Lookup
  <2>4. QED
    BY <1>1, <2>3
<1>3. ASSUME NEW y, y # x
      PROVE  Lookup(R, y) = Lookup(Q, y)
  <2>1. \A i \in DOMAIN Q : y \in DOMAIN R[i] <=> y \in DOMAIN Q[i]
    BY <1>1, <1>3
  <2>2. in(R, y) = in(Q, y)
    BY <1>1, <2>1
  <2>3. first(R, y) = first(Q, y)
    BY <2>2
  <2>4. \A i \in in(Q, y) : R[i][y] = Q[i][y]
    BY <1>1, <1>3
  <2>5. in(Q, y) # {} => first(Q, y) \in in(Q, y)
    <3>1. in(Q, y) \in SUBSET Nat
      BY <1>1
    <3>2. in(Q, y) # {} => \E i \in in(Q, y) : \A j \in in(Q, y) : i <= j
      BY <3>1, LeastExists
    <3>3. QED
      BY <3>2
  <2>6. /\ Lookup(R, y) = IF in(R, y) = {} THEN Absent ELSE R[first(R, y)][y]
        /\ Lookup(Q, y) = IF in(Q, y) = {} THEN Absent ELSE Q[first(Q, y)][y]
    BY DEF Lookup
  <2> HIDE DEF in, first
  <2>7. QED
    BY <2>2, <2>3, <2>4, <2>5, <2>6
<1>4. QED
  BY <1>2, <1>3 DEF R

\* What is set twice has the last value.
LEMMA ResetTwice ==
  ASSUME NEW Q, Scopes(Q), NEW x, NEW v, NEW w
  PROVE  Reset(Reset(Q, x, v), x, w) = Reset(Q, x, w)
<1>1. Reset(Q, x, v)[1] = [y \in DOMAIN Q[1] \cup {x} |-> IF y = x THEN v ELSE Q[1][y]]
  BY ResetFacts
<1>2. [y \in DOMAIN Reset(Q, x, v)[1] \cup {x} |-> IF y = x THEN w ELSE Reset(Q, x, v)[1][y]]
        = [y \in DOMAIN Q[1] \cup {x} |-> IF y = x THEN w ELSE Q[1][y]]
  BY <1>1
<1>3. QED
  BY <1>2, ScopesFacts DEF Reset

LEMMA ResetSwaps ==
  ASSUME NEW Q, Scopes(Q), NEW x, NEW y, x # y, NEW v, NEW w
  PROVE  Reset(Reset(Q, x, v), y, w) = Reset(Reset(Q, y, w), x, v)
<1>1. /\ Reset(Q, x, v)[1] = [z \in DOMAIN Q[1] \cup {x} |-> IF z = x THEN v ELSE Q[1][z]]
      /\ Reset(Q, y, w)[1] = [z \in DOMAIN Q[1] \cup {y} |-> IF z = y THEN w ELSE Q[1][z]]
  <2>1. Reset(Q, x, v)[1] = [z \in DOMAIN Q[1] \cup {x} |-> IF z = x THEN v ELSE Q[1][z]]
    BY ResetFacts
  <2>2. Reset(Q, y, w)[1] = [z \in DOMAIN Q[1] \cup {y} |-> IF z = y THEN w ELSE Q[1][z]]
    BY ResetFacts
  <2>3. QED
    BY <2>1, <2>2
<1>2. [z \in DOMAIN Reset(Q, x, v)[1] \cup {y} |-> IF z = y THEN w ELSE Reset(Q, x, v)[1][z]]
        = [z \in DOMAIN Reset(Q, y, w)[1] \cup {x} |-> IF z = x THEN v ELSE Reset(Q, y, w)[1][z]]
  BY <1>1
<1>3. QED
  BY <1>2, ScopesFacts DEF Reset

-----------------------------------------------------------------------------
(* What a step leaves alone.                                               *)

ranking == <<setup, pc, at, S, rankVars>>

\* What holds of the configuration and the scopes all along.
Begun ==
  /\ setup \in Setups /\ Scopes(S)
  /\ Is(Lookup(S, "backend"), "object")
  /\ \A s \in DOMAIN Answers :
       /\ Answers[s] # Absent
       /\ Is(Answers[s], "array") =>
            /\ Answers[s][2] \in Seq(ToSet(Answers[s][2]) \ {Absent})
            /\ Len(Answers[s][2]) <= Len(Numerals)
  /\ pc \in {"input", "collect", "sort"} => block \in DOMAIN setup.rank

\* A step sets `item' or `rank' anew, or no variable of the scopes.
LEMMA ScopesMove ==
  ASSUME [RankStep]_ranking
  PROVE  \/ S' = S
         \/ \E it : S' = Reset(S, "item", it)
         \/ \E r : S' = Reset(S, "rank", r)
<1>1. CASE Input
  BY <1>1 DEF Input
<1>2. CASE Collect
  BY <1>2 DEF Collect, WithItem
<1>3. CASE CandidateOver \/ AllCollected \/ UNCHANGED ranking
  BY <1>3 DEF CandidateOver, AllCollected, ranking
<1>4. CASE Sort
  BY <1>4 DEF Sort
<1>5. QED
  BY <1>1, <1>2, <1>3, <1>4 DEF RankStep

LEMMA SetupStays == [RankStep]_ranking => setup' = setup
BY DEF RankStep, Input, Collect, CandidateOver, AllCollected, Sort, ranking

LEMMA AnswersStay ==
  ASSUME Scopes(S), [RankStep]_ranking
  PROVE  /\ Scopes(S')
         /\ \A x : x \notin {"item", "rank"} => Lookup(S', x) = Lookup(S, x)
         /\ Answers' = Answers
         /\ \A c : Answer(c)' = Answer(c) /\ Items(c)' = Items(c)
         /\ \A c, i : Name(c, i)' = Name(c, i)
<1>1. Scopes(S') /\ \A x : x \notin {"item", "rank"} => Lookup(S', x) = Lookup(S, x)
  <2>1. ASSUME NEW x \in {"item", "rank"}, NEW v, S' = Reset(S, x, v)
        PROVE  Scopes(S') /\ \A y : y \notin {"item", "rank"} => Lookup(S', y) = Lookup(S, y)
    <3>1. Scopes(S')
      BY <2>1, ResetFacts
    <3>2. \A y : y # x => Lookup(S', y) = Lookup(S, y)
      BY <2>1, LookupReset
    <3>3. QED
      BY <3>1, <3>2
  <2>2. QED
    BY <2>1, ScopesMove
<1>2. Lookup(S', "backend") = Lookup(S, "backend")
  BY <1>1
<1>3. Answers' = Answers /\ \A c : Answer(c)' = Answer(c)
  BY <1>2 DEF Answers, Answer
<1>4. (\A c : Items(c)' = Items(c)) /\ \A c, i : Name(c, i)' = Name(c, i)
  BY <1>3 DEF Items, Name
<1>5. QED
  BY <1>1, <1>3, <1>4

LEMMA BlockMoves ==
  ASSUME Begun, [RankStep]_ranking, pc' \in {"input", "collect", "sort"}
  PROVE  block' \in DOMAIN setup.rank
<1>1. setup.rank \in Seq(ToSet(setup.rank))
  BY RankAssumption DEF Begun
<1>2. DOMAIN setup.rank = 1..Len(setup.rank) /\ Len(setup.rank) \in Nat
  BY <1>1
<1>3. CASE Input \/ Collect \/ CandidateOver \/ AllCollected \/ UNCHANGED ranking
  <2>1. block' = block /\ pc \in {"input", "collect", "sort"}
    BY <1>3 DEF Input, Collect, CandidateOver, AllCollected, ranking, rankVars
  <2>2. QED
    BY <2>1 DEF Begun
<1>4. CASE Sort
  BY <1>2, <1>4 DEF Begun, Sort
<1>5. QED
  BY <1>3, <1>4 DEF RankStep

LEMMA BegunStep == Begun /\ [RankStep]_ranking => Begun'
<1> SUFFICES ASSUME Begun, [RankStep]_ranking
             PROVE  Begun'
  OBVIOUS
<1>1. setup' = setup /\ Scopes(S') /\ Answers' = Answers
  BY SetupStays, AnswersStay DEF Begun
<1>2. Lookup(S', "backend") = Lookup(S, "backend")
  BY AnswersStay DEF Begun
<1>3. pc' \in {"input", "collect", "sort"} => block' \in DOMAIN setup.rank
  BY BlockMoves
<1>4. QED
  BY <1>1, <1>2, <1>3 DEF Begun

-----------------------------------------------------------------------------
(* What the expressions of sort_by come to.                                *)

\* The items there are to be ranked.
AnItem(it) == \E s \in DOMAIN Answers : \E i \in DOMAIN Items(Word(s)) : it = Items(Word(s))[i]

Key(n, i, it) == Evaluate(setup.rank[n].sortBy[i].expr, WithItem(it))

\* No expression of sort_by reads `rank'.
RankUnread ==
  \A n \in DOMAIN setup.rank : \A i \in DOMAIN setup.rank[n].sortBy : \A it, r :
    Evaluate(setup.rank[n].sortBy[i].expr, Reset(Reset(S, "rank", r), "item", it)) = Key(n, i, it)

LEMMA KeysStay ==
  ASSUME Scopes(S), RankUnread, [RankStep]_ranking,
         NEW n \in DOMAIN setup.rank, NEW i \in DOMAIN setup.rank[n].sortBy, NEW it
  PROVE  /\ Key(n, i, it)' = Key(n, i, it)
         /\ \A r : Evaluate(setup.rank[n].sortBy[i].expr, Reset(Reset(S', "rank", r), "item", it))
                   = Key(n, i, it)
<1> DEFINE e == setup.rank[n].sortBy[i].expr
<1>1. Key(n, i, it)' = Evaluate(e, Reset(S', "item", it))
  BY SetupStays DEF Key, WithItem
<1>2. Key(n, i, it) = Evaluate(e, Reset(S, "item", it))
  BY DEF Key, WithItem
<1>3. \A r : Evaluate(e, Reset(Reset(S, "rank", r), "item", it)) = Key(n, i, it)
  BY DEF RankUnread
<1>4. CASE S' = S
  BY <1>1, <1>2, <1>3, <1>4
<1>5. ASSUME NEW jt, S' = Reset(S, "item", jt)
      PROVE  /\ Reset(S', "item", it) = Reset(S, "item", it)
             /\ \A r : Reset(Reset(S', "rank", r), "item", it) = Reset(Reset(S, "rank", r), "item", it)
  <2>1. Reset(S', "item", it) = Reset(S, "item", it)
    BY <1>5, ResetTwice
  <2>2. ASSUME NEW r
        PROVE  Reset(Reset(S', "rank", r), "item", it) = Reset(Reset(S, "rank", r), "item", it)
    <3>1. Reset(S', "rank", r) = Reset(Reset(S, "rank", r), "item", jt)
      BY <1>5, ResetSwaps
    <3>2. Scopes(Reset(S, "rank", r))
      BY ResetFacts
    <3>3. QED
      BY <3>1, <3>2, ResetTwice
  <2>3. QED
    BY <2>1, <2>2
<1>6. ASSUME NEW q, S' = Reset(S, "rank", q)
      PROVE  \A r : Reset(S', "rank", r) = Reset(S, "rank", r)
  BY <1>6, ResetTwice
<1>7. CASE \E jt : S' = Reset(S, "item", jt)
  BY <1>1, <1>2, <1>3, <1>5, <1>7
<1>8. CASE \E q : S' = Reset(S, "rank", q)
  BY <1>1, <1>3, <1>6, <1>8
<1>9. QED
  BY <1>4, <1>7, <1>8, ScopesMove

\* Where ranking makes sense: what sort_by comes to is a number, null or an error, and
\* but for the last sort_by of a block it is not null of one item and zero of another.
Rankable ==
  /\ RankUnread
  /\ \A n \in DOMAIN setup.rank : \A i \in DOMAIN setup.rank[n].sortBy : \A it :
       AnItem(it) => Key(n, i, it) \in Feature \cup {Failure, Crash}
  /\ \A n \in DOMAIN setup.rank : \A i \in DOMAIN setup.rank[n].sortBy : \A it, jt :
       AnItem(it) /\ AnItem(jt) /\ i # Len(setup.rank[n].sortBy) =>
         ~(Key(n, i, it) = Null /\ Key(n, i, jt) = Num(0))

LEMMA RankableStep == Begun /\ Rankable /\ [RankStep]_ranking => Rankable'
<1> SUFFICES ASSUME Begun, Rankable, [RankStep]_ranking
             PROVE  Rankable'
  OBVIOUS
<1>1. setup' = setup
  BY SetupStays
<1>2. \A it : AnItem(it)' <=> AnItem(it)
  BY AnswersStay DEF AnItem, Begun
<1>3. \A n \in DOMAIN setup.rank : \A i \in DOMAIN setup.rank[n].sortBy : \A it :
        Key(n, i, it)' = Key(n, i, it)
  BY KeysStay DEF Begun, Rankable
<1>4. RankUnread'
  BY <1>1, <1>3, KeysStay DEF Begun, Rankable, RankUnread
<1>5. QED
  BY <1>1, <1>2, <1>3, <1>4 DEF Rankable

-----------------------------------------------------------------------------
(* The features of a name.                                                 *)

\* The place the order has in front of the sort_by list.
Offset(b) == IF b.order = <<>> THEN 0 ELSE 1

LEMMA BlockFacts ==
  ASSUME NEW b, BlockAssumption(b)
  PROVE  /\ Len(b.sortBy) \in Nat /\ DOMAIN b.sortBy = 1..Len(b.sortBy)
         /\ Required(b) = Offset(b) + Len(b.sortBy) /\ Offset(b) \in {0, 1}
         /\ \A i \in 1..Required(b) : Desc(b, i) \in BOOLEAN
<1>1. Len(b.sortBy) \in Nat /\ DOMAIN b.sortBy = 1..Len(b.sortBy)
  BY DEF BlockAssumption
<1>2. Required(b) = Offset(b) + Len(b.sortBy) /\ Offset(b) \in {0, 1}
  BY DEF Required, Offset
<1>3. ASSUME NEW i \in 1..Required(b)
      PROVE  Desc(b, i) \in BOOLEAN
  <2>1. CASE b.order = <<>>
    <3>1. i \in DOMAIN b.sortBy
      BY <1>1, <1>2, <2>1 DEF Offset
    <3>2. QED
      BY <2>1, <3>1 DEF BlockAssumption, Desc
  <2>2. CASE b.order # <<>>
    BY <2>2 DEF Desc
  <2>3. QED
    BY <2>1, <2>2
<1>4. QED
  BY <1>1, <1>2, <1>3

\* The first group of the order that has a service.
LEMMA GroupExists ==
  ASSUME NEW b, BlockAssumption(b), NEW T \in SUBSET DOMAIN b.order, T # {},
         NEW k, k = CHOOSE i \in T : \A j \in T : i <= j
  PROVE  k \in T /\ k \in 1..Len(b.order) /\ \A j \in T : k <= j
<1>1. Len(b.order) \in Nat /\ DOMAIN b.order = 1..Len(b.order)
  BY DEF BlockAssumption
<1>2. T \in SUBSET Nat
  BY <1>1
<1>3. \E i \in T : \A j \in T : i <= j
  BY <1>2, LeastExists
<1>4. QED
  BY <1>1, <1>3

LEMMA OrderFeatureType ==
  ASSUME NEW b, BlockAssumption(b), NEW s
  PROVE  \/ OrderFeature(b, s) = <<>>
         \/ b.order # <<>> /\ \E n \in Int : n > 0 /\ OrderFeature(b, s) = <<Num(n)>>
<1> DEFINE groups == {i \in DOMAIN b.order : \E t \in b.order[i] : Word(t) = s}
           k == CHOOSE i \in groups : \A j \in groups : i <= j
<1>1. CASE groups = {}
  BY <1>1 DEF OrderFeature
<1>2. CASE groups # {}
  <2>1. k \in 1..Len(b.order)
    BY <1>2, GroupExists
  <2>2. Len(b.order) \in Nat
    BY DEF BlockAssumption
  <2>3. OrderFeature(b, s) = <<Num(Len(b.order) - k + 1)>>
    BY <1>2 DEF OrderFeature
  <2>4. b.order # <<>>
    BY <2>1
  <2> HIDE DEF k
  <2>5. Len(b.order) - k + 1 \in Int /\ Len(b.order) - k + 1 > 0
    BY <2>1, <2>2
  <2>6. QED
    BY <2>3, <2>4, <2>5
<1>3. QED
  BY <1>1, <1>2

\* The values of sort_by, if none is bad.
LEMMA SortValuesAre ==
  ASSUME NEW b, BlockAssumption(b), NEW it, ~Bad(SortValues(b, it))
  PROVE  /\ SortValues(b, it)[2]
              = [i \in DOMAIN b.sortBy |-> Evaluate(b.sortBy[i].expr, WithItem(it))]
         /\ \A i \in DOMAIN b.sortBy : ~Bad(Evaluate(b.sortBy[i].expr, WithItem(it)))
<1> DEFINE vs == [i \in DOMAIN b.sortBy |-> Evaluate(b.sortBy[i].expr, WithItem(it))]
           bad == {i \in DOMAIN vs : Bad(vs[i])}
           first == CHOOSE i \in bad : \A j \in bad : i <= j
<1>1. SortValues(b, it) = IF bad = {} THEN Arr(vs) ELSE vs[first]
  BY DEF SortValues, AllOf, First
<1>2. bad # {} => first \in bad
  <2>1. bad \in SUBSET Nat
    BY BlockFacts
  <2>2. QED
    BY <2>1, LeastExists
<1>3. bad = {}
  <2> HIDE DEF first
  <2>1. QED
    BY <1>1, <1>2
<1>4. SortValues(b, it)[2] = vs
  BY <1>1, <1>3 DEF Arr
<1>5. \A i \in DOMAIN b.sortBy : ~Bad(vs[i])
  BY <1>3
<1>6. QED
  BY <1>4, <1>5

LEMMA TwoParts ==
  ASSUME NEW T, NEW o \in Seq(T), NEW vs \in Seq(T)
  PROVE  /\ o \o vs \in Seq(T) /\ Len(o) \in Nat /\ Len(vs) \in Nat
         /\ Len(o \o vs) = Len(o) + Len(vs) /\ DOMAIN (o \o vs) = 1..Len(o) + Len(vs)
         /\ \A i \in 1..Len(o) : (o \o vs)[i] = o[i]
         /\ \A i \in 1..Len(vs) : (o \o vs)[Len(o) + i] = vs[i]
<1> DEFINE f == o \o vs
<1>1. /\ f \in Seq(T) /\ Len(f) = Len(o) + Len(vs)
      /\ \A i \in 1..Len(f) : f[i] = IF i <= Len(o) THEN o[i] ELSE vs[i - Len(o)]
  BY ConcatProperties
<1> HIDE DEF f
<1>2. Len(o) \in Nat /\ Len(vs) \in Nat
  OBVIOUS
<1>3. DOMAIN f = 1..Len(o) + Len(vs)
  BY <1>1
<1>4. ASSUME NEW i \in 1..Len(vs)
      PROVE  f[Len(o) + i] = vs[i]
  <2>1. Len(o) + i \in 1..Len(f) /\ ~(Len(o) + i <= Len(o)) /\ Len(o) + i - Len(o) = i
    BY <1>1, <1>2
  <2>2. QED
    BY <1>1, <2>1
<1>5. \A i \in 1..Len(o) : f[i] = o[i]
  BY <1>1, <1>2
<1>6. QED
  BY <1>1, <1>2, <1>3, <1>4, <1>5 DEF f

Features(b, c, it) == OrderFeature(b, c) \o SortValues(b, it)[2]

LEMMA RowFeatures ==
  ASSUME NEW b, BlockAssumption(b), NEW s, NEW it, ~Bad(SortValues(b, it)),
         NEW f, f = Features(b, s, it), Len(f) = Required(b)
  PROVE  /\ Len(OrderFeature(b, s)) = Offset(b)
         /\ DOMAIN f = 1..Required(b) /\ f \in Seq(ToSet(f))
         /\ b.order # <<>> => f[1] = OrderFeature(b, s)[1]
         /\ \A i \in 1..Len(b.sortBy) :
              f[Offset(b) + i] = Evaluate(b.sortBy[i].expr, WithItem(it))
<1> DEFINE vs == [i \in DOMAIN b.sortBy |-> Evaluate(b.sortBy[i].expr, WithItem(it))]
           o == OrderFeature(b, s)
           T == ToSet(vs) \cup ToSet(o)
<1>1. f = o \o vs
  <2>1. SortValues(b, it)[2] = vs
    BY SortValuesAre
  <2> HIDE DEF vs, o
  <2>2. f = OrderFeature(b, s) \o vs
    BY <2>1 DEF Features
  <2>3. QED
    BY <2>2 DEF o
<1>2. vs \in Seq(T) /\ Len(vs) = Len(b.sortBy)
  <2>1. Len(b.sortBy) \in Nat /\ vs = [i \in 1..Len(b.sortBy) |-> vs[i]]
    BY BlockFacts
  <2>2. \A i \in 1..Len(b.sortBy) : vs[i] \in T
    BY BlockFacts DEF ToSet
  <2> HIDE DEF vs, T
  <2>3. vs \in Seq(T)
    <3>1. [i \in 1..Len(b.sortBy) |-> vs[i]] \in Seq(T)
      BY <2>1, <2>2, IsASeq
    <3>2. QED
      BY <2>1, <3>1
  <2>4. DOMAIN vs = 1..Len(b.sortBy)
    BY <2>1
  <2>5. QED
    BY <2>1, <2>3, <2>4
<1>3. o \in Seq(T) /\ Len(o) \in {0, 1}
  <2>1. CASE o = <<>>
    BY <2>1
  <2>2. CASE \E n \in Int : o = <<Num(n)>>
    BY <2>2 DEF ToSet
  <2>3. QED
    BY <2>1, <2>2, OrderFeatureType
<1> HIDE DEF vs, T, o
<1>4. /\ Len(b.sortBy) \in Nat /\ Required(b) = Offset(b) + Len(b.sortBy)
      /\ Offset(b) = IF b.order = <<>> THEN 0 ELSE 1
  BY BlockFacts DEF Offset
<1>5. Offset(b) \in {0, 1} /\ Len(f) = Offset(b) + Len(vs)
  BY <1>2, <1>4
<1>6. /\ Len(o) = Offset(b) /\ f \in Seq(T) /\ DOMAIN f = 1..Offset(b) + Len(vs)
      /\ \A i \in 1..Len(o) : f[i] = o[i]
      /\ \A i \in 1..Len(vs) : f[Offset(b) + i] = vs[i]
  <2>1. /\ f \in Seq(T) /\ Len(o) \in Nat /\ Len(vs) \in Nat
        /\ Len(f) = Len(o) + Len(vs) /\ DOMAIN f = 1..Len(o) + Len(vs)
        /\ \A i \in 1..Len(o) : f[i] = o[i]
        /\ \A i \in 1..Len(vs) : f[Len(o) + i] = vs[i]
    BY <1>1, <1>2, <1>3, TwoParts
  <2>2. Len(o) = Offset(b)
    BY <1>5, <2>1
  <2>3. QED
    BY <2>1, <2>2
<1>7. DOMAIN f = 1..Required(b) /\ f \in Seq(ToSet(f))
  BY <1>2, <1>4, <1>6, SeqOfToSet
<1>8. b.order # <<>> => f[1] = o[1]
  BY <1>4, <1>6
<1>9. QED
  BY <1>2, <1>6, <1>7, <1>8, BlockFacts DEF vs, o

-----------------------------------------------------------------------------
(* What is collected.                                                      *)

\* Element i of what candidate c is ranked by has all the features, and what is collected
\* for it.
Fits(c, i) ==
  /\ ~Bad(SortValues(Block, Items(c)[i]))
  /\ Len(Features(Block, c, Items(c)[i])) = Required(Block)
Row(c, i) == [name |-> Name(c, i), features |-> Features(Block, c, Items(c)[i])]

\* The loops over the candidates and their elements have gone past element i of the
\* candidate at m.
Past(m, i) == m < at \/ (m = at /\ i < part)

\* What is collected there.
Origin(r, m, i) ==
  /\ m <= Len(input) /\ i \in DOMAIN Items(input[m]) /\ Fits(input[m], i)
  /\ r = Row(input[m], i)

CollectedHeld ==
  pc \in {"collect", "sort"} =>
    /\ at \in Nat \ {0} /\ part \in Nat \ {0}
    /\ collected \in Seq(ToSet(collected))
    /\ \A k \in DOMAIN collected :
         \E m \in Nat \ {0} : \E i \in Nat \ {0} : Past(m, i) /\ Origin(collected[k], m, i)

LEMMA BlockIs == Begun /\ pc \in {"input", "collect", "sort"} => BlockAssumption(Block)
BY RankAssumption DEF Begun, Block

\* The items of a candidate are those of the service it names.
LEMMA ItemsFacts ==
  ASSUME Begun, NEW c
  PROVE  /\ Items(c) \in Seq(ToSet(Items(c)))
         /\ \A i \in DOMAIN Items(c) :
              /\ AnItem(Items(c)[i]) /\ Items(c)[i] # Absent
              /\ Len(c[2]) = 1 /\ c[2][1] \in DOMAIN Answers
              /\ Answer(c) = Answers[c[2][1]]
<1> DEFINE s == c[2][1]
<1>1. CASE Answer(c) = Absent
  BY <1>1 DEF Items
<1>2. CASE Answer(c) # Absent
  <2>1. Len(c[2]) = 1 /\ s \in DOMAIN Answers /\ Answer(c) = Answers[s]
    BY <1>2 DEF Answer, Answers, Member
  <2>2. Items(c) = IF Is(Answers[s], "array") THEN Answers[s][2] ELSE <<Answers[s]>>
    BY <1>2, <2>1 DEF Items
  <2>3. Items(c) \in Seq(ToSet(Items(c))) /\ \A i \in DOMAIN Items(c) : Items(c)[i] # Absent
    <3>1. PICK T : Items(c) \in Seq(T) /\ Absent \notin T
      <4>1. CASE Is(Answers[s], "array")
        <5>1. Items(c) \in Seq(ToSet(Answers[s][2]) \ {Absent})
          BY <2>1, <2>2, <4>1 DEF Begun
        <5>2. QED
          BY <5>1
      <4>2. CASE ~Is(Answers[s], "array")
        <5>1. Items(c) \in Seq({Answers[s]})
          BY <2>2, <4>2
        <5>2. Absent \notin {Answers[s]}
          BY <2>1 DEF Begun
        <5>3. QED
          BY <5>1, <5>2
      <4>3. QED
        BY <4>1, <4>2
    <3>2. QED
      BY <3>1, SeqOfToSet
  <2>4. Items(Word(s)) = Items(c)
    <3>1. Word(s)[2] = <<s>>
      BY DEF Word, Str
    <3>2. Answer(Word(s)) = Answers[s]
      BY <2>1, <3>1 DEF Answer, Answers, Member
    <3>3. QED
      BY <1>2, <2>1, <2>2, <3>2 DEF Items
  <2>5. QED
    BY <2>1, <2>3, <2>4 DEF AnItem
<1>3. QED
  BY <1>1, <1>2

\* While a block collects, what it would collect stays the same.
LEMMA RowsStay ==
  ASSUME Begun, RankUnread, Collect \/ CandidateOver \/ AllCollected \/ UNCHANGED ranking,
         pc \in {"collect", "sort"}, NEW c
  PROVE  /\ Items(c)' = Items(c)
         /\ \A i : Fits(c, i)' = Fits(c, i) /\ Row(c, i)' = Row(c, i)
<1>1. [RankStep]_ranking /\ block' = block /\ setup' = setup
  BY DEF RankStep, Collect, CandidateOver, AllCollected, ranking, rankVars
<1>2. Items(c)' = Items(c) /\ \A i : Name(c, i)' = Name(c, i)
  BY <1>1, AnswersStay DEF Begun
<1>3. Block' = Block
  BY <1>1 DEF Block
<1>4. ASSUME NEW it
      PROVE  SortValues(Block, it)' = SortValues(Block, it)
  <2>1. block \in DOMAIN setup.rank
    BY DEF Begun
  <2>2. \A i \in DOMAIN Block.sortBy : Key(block, i, it)' = Key(block, i, it)
    <3>1. ASSUME NEW n \in DOMAIN setup.rank, n = block
          PROVE  \A i \in DOMAIN setup.rank[n].sortBy : Key(n, i, it)' = Key(n, i, it)
      BY <1>1, KeysStay DEF Begun
    <3>2. QED
      BY <1>1, <2>1, <3>1 DEF Block, Key
  <2>3. [i \in DOMAIN Block.sortBy |-> Evaluate(Block.sortBy[i].expr, WithItem(it))]'
          = [i \in DOMAIN Block.sortBy |-> Evaluate(Block.sortBy[i].expr, WithItem(it))]
    BY <1>1, <1>3, <2>2 DEF Block, Key
  <2>4. QED
    BY <1>3, <2>3 DEF SortValues
<1>5. ASSUME NEW it
      PROVE  Features(Block, c, it)' = Features(Block, c, it)
  <2>1. OrderFeature(Block, c)' = OrderFeature(Block, c)
    BY <1>3 DEF OrderFeature
  <2>2. QED
    BY <1>4, <2>1 DEF Features
<1>6. QED
  BY <1>2, <1>3, <1>4, <1>5 DEF Fits, Row, Required

LEMMA OriginsStay ==
  ASSUME Begun, RankUnread, Collect \/ CandidateOver \/ AllCollected \/ UNCHANGED ranking,
         pc \in {"collect", "sort"}, NEW r, NEW m, NEW i
  PROVE  Origin(r, m, i)' <=> Origin(r, m, i)
<1>1. input' = input
  BY DEF Collect, CandidateOver, AllCollected, ranking, rankVars
<1>2. \A d, j : Items(d)' = Items(d) /\ Fits(d, j)' = Fits(d, j) /\ Row(d, j)' = Row(d, j)
  BY RowsStay
<1>3. QED
  BY <1>1, <1>2 DEF Origin

\* What the step for one element does: it adds a row, or the element does not fit.
LEMMA CollectDoes ==
  ASSUME Begun, CollectedHeld, Collect, pc' = "collect"
  PROVE  /\ pc = "collect" /\ at \in Nat \ {0} /\ part \in Nat \ {0}
         /\ at' = at /\ part' = part + 1
         /\ at <= Len(input) /\ part \in DOMAIN Items(input[at])
         /\ Len(collected) \in Nat /\ DOMAIN collected = 1..Len(collected)
         /\ \/ ~Fits(input[at], part) /\ collected' = collected
            \/ /\ Fits(input[at], part)
               /\ collected' \in Seq(ToSet(collected'))
               /\ DOMAIN collected' = 1..Len(collected) + 1
               /\ \A k \in DOMAIN collected : collected'[k] = collected[k]
               /\ collected'[Len(collected) + 1] = Row(input[at], part)
<1> DEFINE c == input[at]
           it == Items(c)[part]
           r == Row(c, part)
           T == ToSet(collected) \cup {r}
<1>1. pc = "collect" /\ at \in Nat \ {0} /\ part \in Nat \ {0} /\ collected \in Seq(ToSet(collected))
  BY DEF Collect, CollectedHeld
<1>2. /\ part' = part + 1 /\ at' = at /\ at <= Len(input) /\ part <= Len(Items(c))
      /\ collected' = collected \o Collected(Block, Name(c, part), c, it)
  BY <1>1 DEF Collect
<1>3. part \in DOMAIN Items(c)
  BY <1>1, <1>2, ItemsFacts
<1>4. Collected(Block, Name(c, part), c, it) = IF Fits(c, part) THEN <<r>> ELSE <<>>
  BY DEF Collected, WithFeatures, Fits, Row, Features
<1>5. Len(collected) \in Nat /\ DOMAIN collected = 1..Len(collected)
  BY <1>1
<1>6. CASE ~Fits(c, part)
  <2>1. collected \o <<>> = collected
    BY <1>1
  <2>2. collected' = collected
    BY <1>2, <1>4, <1>6, <2>1
  <2>3. QED
    BY <1>1, <1>2, <1>3, <1>5, <1>6, <2>2
<1>7. CASE Fits(c, part)
  <2>1. collected' = collected \o <<r>>
    BY <1>2, <1>4, <1>7
  <2> HIDE DEF r
  <2>2. collected \in Seq(T) /\ r \in T
    BY <1>1
  <2> HIDE DEF T
  <2>3. /\ collected' \in Seq(T) /\ Len(collected') = Len(collected) + 1
        /\ \A i \in 1..Len(collected) : collected'[i] = collected[i]
        /\ collected'[Len(collected) + 1] = r
    BY <1>5, <2>1, <2>2, AppendProperties
  <2>4. DOMAIN collected' = 1..Len(collected) + 1
    BY <1>5, <2>3
  <2>5. collected' \in Seq(ToSet(collected'))
    BY <2>3, SeqOfToSet
  <2>6. QED
    BY <1>1, <1>2, <1>3, <1>5, <1>7, <2>3, <2>4, <2>5 DEF r
<1>8. QED
  BY <1>6, <1>7

\* What the loops have gone past.
LEMMA PastMoves ==
  ASSUME Begun, CollectedHeld, pc = "collect", pc' \in {"collect", "sort"},
         Collect \/ CandidateOver \/ AllCollected, NEW m \in Nat \ {0}, NEW i \in Nat \ {0}
  PROVE  /\ at' \in Nat \ {0} /\ part' \in Nat \ {0}
         /\ Past(m, i) => Past(m, i)'
         /\ Collect /\ m = at /\ i = part => Past(m, i)'
         /\ Past(m, i)' /\ i \in DOMAIN Items(input[m]) =>
              Past(m, i) \/ (Collect /\ m = at /\ i = part)
<1>1. at \in Nat \ {0} /\ part \in Nat \ {0}
  BY DEF CollectedHeld
<1>2. CASE Collect
  <2>1. pc' = "collect"
    BY <1>2 DEF Collect
  <2>2. at' = at /\ part' = part + 1
    BY <1>2, <2>1, CollectDoes
  <2>3. QED
    BY <1>1, <1>2, <2>2 DEF Past
<1>3. CASE CandidateOver
  <2>1. at' = at + 1 /\ part' = 1 /\ part > Len(Items(input[at]))
    BY <1>3 DEF CandidateOver
  <2>2. ASSUME m = at
        PROVE  i \in DOMAIN Items(input[m]) => i < part
    <3>1. Len(Items(input[m])) \in Nat /\ DOMAIN Items(input[m]) = 1..Len(Items(input[m]))
      BY ItemsFacts
    <3>2. QED
      BY <1>1, <2>1, <2>2, <3>1
  <2>3. QED
    BY <1>1, <1>3, <2>1, <2>2 DEF Past, Collect
<1>4. CASE AllCollected
  BY <1>1, <1>4 DEF AllCollected, Past, Collect, rankVars
<1>5. QED
  BY <1>2, <1>3, <1>4

LEMMA CollectedStep ==
  ASSUME Begun, RankUnread, CollectedHeld, [RankStep]_ranking
  PROVE  CollectedHeld'
<1> SUFFICES ASSUME pc' \in {"collect", "sort"}
             PROVE  CollectedHeld'
  BY DEF CollectedHeld
<1>1. CASE Input
  BY <1>1 DEF Input, CollectedHeld, ToSet
<1>2. CASE Sort
  BY <1>2 DEF Sort
<1>3. CASE UNCHANGED ranking
  <2>1. pc \in {"collect", "sort"} /\ at' = at /\ part' = part /\ collected' = collected
    BY <1>3 DEF ranking, rankVars
  <2>2. \A m, i : Past(m, i)' = Past(m, i)
    BY <2>1 DEF Past
  <2>3. \A r, m, i : Origin(r, m, i)' <=> Origin(r, m, i)
    BY <1>3, <2>1, OriginsStay
  <2>4. QED
    BY <2>1, <2>2, <2>3 DEF CollectedHeld
<1>4. CASE Collect \/ CandidateOver \/ AllCollected
  <2>1. pc = "collect"
    BY <1>4 DEF Collect, CandidateOver, AllCollected
  <2>2. \A r, m, i : Origin(r, m, i)' <=> Origin(r, m, i)
    BY <1>4, <2>1, OriginsStay
  <2>3. at' \in Nat \ {0} /\ part' \in Nat \ {0}
    BY <1>4, <2>1, PastMoves
  <2>4. \A m, i \in Nat \ {0} : Past(m, i) \/ (Collect /\ m = at /\ i = part) => Past(m, i)'
    BY <1>4, <2>1, PastMoves
  <2>5. /\ collected' \in Seq(ToSet(collected'))
        /\ \A k \in DOMAIN collected' :
             \/ k \in DOMAIN collected /\ collected'[k] = collected[k]
             \/ /\ Collect /\ Origin(collected'[k], at, part)
                /\ at \in Nat \ {0} /\ part \in Nat \ {0}
    <3>1. CASE Collect
      <4>1. pc' = "collect"
        BY <3>1 DEF Collect
      <4>2. QED
        BY <2>1, <3>1, <4>1, CollectDoes DEF CollectedHeld, Origin
    <3>2. CASE CandidateOver \/ AllCollected
      BY <2>1, <3>2 DEF CandidateOver, AllCollected, rankVars, CollectedHeld
    <3>3. QED
      BY <1>4, <3>1, <3>2
  <2>6. ASSUME NEW k \in DOMAIN collected', NEW r, r = collected'[k]
        PROVE  \E m, i \in Nat \ {0} : Past(m, i)' /\ Origin(r, m, i)'
    <3>1. CASE k \in DOMAIN collected /\ r = collected[k]
      <4>1. \E m, i \in Nat \ {0} : Past(m, i) /\ Origin(r, m, i)
        BY <2>1, <3>1 DEF CollectedHeld
      <4>2. QED
        BY <2>2, <2>4, <4>1
    <3>2. CASE Collect /\ Origin(r, at, part) /\ at \in Nat \ {0} /\ part \in Nat \ {0}
      <4>1. \E m, i \in Nat \ {0} : m = at /\ i = part /\ Origin(r, m, i)
        BY <3>2
      <4>2. QED
        BY <2>2, <2>4, <3>2, <4>1
    <3>3. QED
      BY <2>5, <2>6, <3>1, <3>2
  <2>7. QED
    BY <2>3, <2>5, <2>6 DEF CollectedHeld
<1>5. QED
  BY <1>1, <1>2, <1>3, <1>4 DEF RankStep

-----------------------------------------------------------------------------
(* The comparison can be used.                                             *)

LEMMA NothingIsBadAndAFeature == Feature \cap {Failure, Crash} = {}
BY DEF Feature, Failure, Crash, Null, Num

\* The features that are collected can be compared, and null and zero do not meet.
LEMMA FeaturesCompare ==
  ASSUME Begun, Rankable, CollectedHeld, pc = "sort"
  PROVE  FeatureSet \in SUBSET Comparable(Block) /\ NoNullAndZero(Block, FeatureSet)
<1>1. BlockAssumption(Block) /\ block \in DOMAIN setup.rank
  BY BlockIs DEF Begun
<1>2. /\ Len(Block.sortBy) \in Nat /\ DOMAIN Block.sortBy = 1..Len(Block.sortBy)
      /\ Required(Block) = Offset(Block) + Len(Block.sortBy) /\ Offset(Block) \in {0, 1}
  BY <1>1, BlockFacts
<1>3. ASSUME NEW f \in FeatureSet
      PROVE  /\ f \in Comparable(Block)
             /\ Offset(Block) = 1 => f[1] # Null /\ f[1] # Num(0)
             /\ \E it : /\ AnItem(it)
                        /\ \A i \in 1..Len(Block.sortBy) : f[Offset(Block) + i] = Key(block, i, it)
  <2>1. PICK k \in DOMAIN collected : f = collected[k].features
    BY DEF FeatureSet
  <2>2. PICK m \in Nat, i \in Nat : Origin(collected[k], m, i)
    BY DEF CollectedHeld
  <2>3. f = Features(Block, input[m], Items(input[m])[i])
    BY <2>1, <2>2 DEF Origin, Row
  <2>4. PICK c, it : /\ AnItem(it) /\ ~Bad(SortValues(Block, it)) /\ f = Features(Block, c, it)
                     /\ Len(f) = Required(Block)
    <3>1. ~Bad(SortValues(Block, Items(input[m])[i])) /\ Len(f) = Required(Block)
      BY <2>2, <2>3 DEF Origin, Fits
    <3>2. AnItem(Items(input[m])[i])
      BY <2>2, ItemsFacts DEF Origin
    <3>3. QED
      BY <2>3, <3>1, <3>2
  <2>5. /\ Len(OrderFeature(Block, c)) = Offset(Block)
        /\ DOMAIN f = 1..Required(Block) /\ f \in Seq(ToSet(f))
        /\ Block.order # <<>> => f[1] = OrderFeature(Block, c)[1]
        /\ \A j \in 1..Len(Block.sortBy) :
             f[Offset(Block) + j] = Evaluate(Block.sortBy[j].expr, WithItem(it))
    BY <1>1, <2>4, RowFeatures
  <2>6. \A j \in 1..Len(Block.sortBy) :
          f[Offset(Block) + j] = Key(block, j, it) /\ f[Offset(Block) + j] \in Feature
    <3>1. \A j \in 1..Len(Block.sortBy) : f[Offset(Block) + j] = Key(block, j, it)
      BY <2>5 DEF Key, Block
    <3>2. \A j \in 1..Len(Block.sortBy) : Key(block, j, it) \in Feature \cup {Failure, Crash}
      BY <1>1, <1>2, <2>4 DEF Rankable, Block
    <3>3. \A j \in 1..Len(Block.sortBy) : ~Bad(Key(block, j, it))
      BY <1>1, <1>2, <2>4, SortValuesAre DEF Key, Block
    <3>4. QED
      BY <3>1, <3>2, <3>3 DEF Bad
  <2>7. Offset(Block) = 1 => f[1] \in Feature /\ f[1] # Null /\ f[1] # Num(0)
    <3> SUFFICES ASSUME Offset(Block) = 1
                 PROVE  f[1] \in Feature /\ f[1] # Null /\ f[1] # Num(0)
      OBVIOUS
    <3>1. Block.order # <<>>
      BY DEF Offset
    <3>2. PICK n \in Int : n > 0 /\ OrderFeature(Block, c) = <<Num(n)>>
      <4>1. Len(OrderFeature(Block, c)) = 1
        BY <2>5
      <4>2. QED
        <5>1. OrderFeature(Block, c) # <<>>
          BY <4>1
        <5>2. QED
          BY <1>1, <5>1, OrderFeatureType
    <3>3. f[1] = Num(n)
      BY <2>5, <3>1, <3>2
    <3>4. QED
      BY <3>2, <3>3 DEF Feature, Num, Null
  <2>8. f \in Seq(Feature)
    <3>1. \A j \in 1..Required(Block) : f[j] \in Feature
      <4>1. \A j \in 1..Required(Block) :
              \/ Offset(Block) = 1 /\ j = 1
              \/ \E l \in 1..Len(Block.sortBy) : j = Offset(Block) + l
        <5>1. ASSUME NEW j \in 1..Required(Block), ~(Offset(Block) = 1 /\ j = 1)
              PROVE  j - Offset(Block) \in 1..Len(Block.sortBy) /\ j = Offset(Block) + (j - Offset(Block))
          BY <1>2, <5>1
        <5>2. QED
          BY <5>1
      <4>2. QED
        BY <2>6, <2>7, <4>1
    <3>2. f = [j \in 1..Required(Block) |-> f[j]] /\ Required(Block) \in Nat
      BY <1>2, <2>5
    <3>3. QED
      BY <3>1, <3>2, IsASeq
  <2>9. QED
    BY <2>4, <2>6, <2>7, <2>8 DEF Comparable
<1>4. FeatureSet \in SUBSET Comparable(Block)
  BY <1>3
<1>5. ASSUME NEW f \in FeatureSet, NEW g \in FeatureSet, NEW i \in 1..Required(Block) - 1,
             f[i] = Null, g[i] = Num(0)
      PROVE  FALSE
  <2>1. CASE Offset(Block) = 1 /\ i = 1
    BY <1>3, <1>5, <2>1
  <2>2. CASE ~(Offset(Block) = 1 /\ i = 1)
    <3>1. PICK j \in 1..Len(Block.sortBy) : i = Offset(Block) + j /\ j # Len(Block.sortBy)
      <4>1. /\ i - Offset(Block) \in 1..Len(Block.sortBy) /\ i = Offset(Block) + (i - Offset(Block))
            /\ i - Offset(Block) # Len(Block.sortBy)
        BY <1>2, <2>2
      <4>2. QED
        BY <4>1
    <3>2. PICK it : AnItem(it) /\ f[i] = Key(block, j, it)
      BY <1>3, <3>1
    <3>3. PICK jt : AnItem(jt) /\ g[i] = Key(block, j, jt)
      BY <1>3, <3>1
    <3>4. j \in DOMAIN setup.rank[block].sortBy /\ j # Len(setup.rank[block].sortBy)
      BY <1>2, <3>1 DEF Block
    <3>5. QED
      BY <1>1, <1>5, <3>2, <3>3, <3>4 DEF Rankable
  <2>3. QED
    BY <2>1, <2>2
<1>6. QED
  BY <1>4, <1>5 DEF NoNullAndZero

RankHeld == Begun /\ Rankable /\ CollectedHeld

LEMMA RankHeldInit == RankInit /\ Rankable => RankHeld
<1> SUFFICES ASSUME RankInit, Rankable
             PROVE  RankHeld
  OBVIOUS
<1>1. 1 \in DOMAIN setup.rank
  BY RankAssumption DEF RankInit
<1>2. Begun
  BY <1>1 DEF RankInit, Begun, Scopes
<1>3. CollectedHeld
  BY DEF RankInit, CollectedHeld
<1>4. QED
  BY <1>2, <1>3 DEF RankHeld

LEMMA RankHeldStep == RankHeld /\ [RankStep]_ranking => RankHeld'
BY BegunStep, RankableStep, CollectedStep DEF RankHeld, Rankable

LEMMA SortCompares == RankHeld => SortIsDefined
<1> SUFFICES ASSUME RankHeld, pc = "sort"
             PROVE  StrictWeak(Block, FeatureSet)
  BY DEF SortIsDefined
<1>1. BlockAssumption(Block)
  BY BlockIs DEF RankHeld
<1>2. Required(Block) \in Nat /\ \A i \in 1..Required(Block) : Desc(Block, i) \in BOOLEAN
  BY <1>1, BlockFacts
<1>3. QED
  BY <1>2, FeaturesCompare, ComparisonSorts DEF RankHeld

\* RankConfig::run hands std::sort a comparison that is a strict weak order on whatever
\* it has collected, if the keys are numbers or null and no key but the last is null of
\* one item and zero of another.
THEOREM SortCanCompare == RankSpec /\ Rankable => []SortIsDefined
<1>1. RankInit /\ Rankable => RankHeld
  BY RankHeldInit
<1>2. RankHeld /\ [RankStep]_ranking => RankHeld'
  BY RankHeldStep
<1>3. RankHeld => SortIsDefined
  BY SortCompares
<1>4. QED
  BY <1>1, <1>2, <1>3, PTL DEF RankSpec, ranking

-----------------------------------------------------------------------------
(* Names and their items.                                                  *)

NameSet == {Word(s) : s \in Services} \cup {Element(s, i) : s \in Services, i \in DOMAIN Numerals}

LEMMA NameFacts ==
  /\ \A s : Word(s)[1] = "string" /\ Word(s)[2] = <<s>> /\ Len(Word(s)[2]) = 1 /\ Word(s)[2][1] = s
  /\ \A s, i : /\ Element(s, i)[1] = "string" /\ Element(s, i)[2] = <<s, Numerals[i]>>
               /\ Len(Element(s, i)[2]) = 2
               /\ Element(s, i)[2][1] = s /\ Element(s, i)[2][2] = Numerals[i]
BY DEF Word, Element, Str

\* Scopes that a block may find, as the first finds them but for what it and those before
\* it have left.
Like(Q) == Scopes(Q) /\ \A x : x \notin {"item", "rank"} => Lookup(Q, x) = Lookup(S, x)
Left(Q, L) == Lookup(Q, "rank") = Absent \/ (Is(Lookup(Q, "rank"), "array") /\ Lookup(Q, "rank")[2] \in L)

\* The input of a block, if it is a list of candidates at all.
Yields(n, Q, L) ==
  LET v == Evaluate(setup.rank[n].input, Q) IN Bad(v) \/ ~Candidates(v) \/ v[2] \in L

\* It is a list of names, if `rank' is none or one.
ReadsNames ==
  \A n \in DOMAIN setup.rank : \A Q : Like(Q) /\ Left(Q, Seq(NameSet)) => Yields(n, Q, Seq(NameSet))

NamesHeld ==
  /\ Left(S, Seq(NameSet))
  /\ pc \in {"collect", "sort"} => input \in Seq(NameSet)

\* What a block finds, the next may find.
LEMMA LikeStays ==
  ASSUME Scopes(S), [RankStep]_ranking
  PROVE  Like(S) /\ \A Q : Like(Q)' <=> Like(Q)
<1>1. \A x : x \notin {"item", "rank"} => Lookup(S', x) = Lookup(S, x)
  BY AnswersStay
<1>2. QED
  BY <1>1 DEF Like

LEMMA InputYields ==
  ASSUME NEW L, Begun, Input, pc' \in {"collect", "sort"}, Yields(block, S, L)
  PROVE  input' \in L
<1>1. ~Bad(Evaluate(Block.input, S)) /\ Candidates(Evaluate(Block.input, S))
      /\ input' = Evaluate(Block.input, S)[2]
  BY DEF Input, Outcome, Bad
<1>2. QED
  BY <1>1 DEF Yields, Block

\* A name is that of the item it is made for.
LEMMA NamedItem ==
  ASSUME Begun, NEW s \in DOMAIN Answers, NEW i \in DOMAIN Items(Word(s)), NEW x, x = Name(Word(s), i)
  PROVE  /\ x = IF Is(Answers[s], "array") THEN Element(s, i) ELSE Word(s)
         /\ IF Is(Answers[s], "array") THEN i \in DOMAIN Numerals ELSE i = 1
         /\ Items(Word(s)) = IF Is(Answers[s], "array") THEN Answers[s][2] ELSE <<Answers[s]>>
         /\ x[2][1] = s /\ Item(x) = Items(Word(s))[i] /\ Item(Word(s)) = Answers[s]
<1>1. Answer(Word(s)) = Answers[s]
  <2>1. Answer(Word(s)) = Answers[Word(s)[2][1]]
    BY ItemsFacts
  <2>2. QED
    BY <2>1, NameFacts
<1>2. Items(Word(s)) = IF Is(Answers[s], "array") THEN Answers[s][2] ELSE <<Answers[s]>>
  BY <1>1 DEF Items, Begun
<1>3. x = IF Is(Answers[s], "array") THEN Element(s, i) ELSE Word(s)
  BY <1>1, NameFacts DEF Name
<1>4. IF Is(Answers[s], "array") THEN i \in DOMAIN Numerals ELSE i = 1
  <2>1. CASE Is(Answers[s], "array")
    <3>1. /\ Answers[s][2] \in Seq(ToSet(Answers[s][2]) \ {Absent})
          /\ Len(Answers[s][2]) <= Len(Numerals) /\ i \in DOMAIN Answers[s][2]
      BY <1>2, <2>1 DEF Begun
    <3>2. Numerals \in Seq(STRING)
      BY NumeralsAssumption
    <3>3. i <= Len(Answers[s][2]) /\ Len(Answers[s][2]) \in Nat
      BY <3>1
    <3>4. QED
      BY <2>1, <3>1, <3>2, <3>3
  <2>2. CASE ~Is(Answers[s], "array")
    BY <1>2, <2>2
  <2>3. QED
    BY <2>1, <2>2
<1>5. Member(Lookup(S, "backend"), <<s>>) = Answers[s] /\ Answers[s] # Absent
  BY DEF Member, Answers, Begun
<1>6. Item(Word(s)) = Answers[s]
  BY <1>5, NameFacts DEF Item
<1>7. Item(x) = Items(Word(s))[i]
  <2>1. CASE Is(Answers[s], "array")
    <3> DEFINE j == CHOOSE k \in DOMAIN Numerals : Numerals[k] = Numerals[i]
    <3>1. j = i
      BY <1>4, <2>1, NumeralsAssumption DEF IsInjective
    <3>2. Item(x) = Answers[s][2][j]
      <4>1. x = Element(s, i)
        BY <1>3, <2>1
      <4>2. x[2][1] = s /\ x[2][2] = Numerals[i] /\ Len(x[2]) = 2
        BY <4>1, NameFacts
      <4>3. QED
        BY <1>5, <4>2 DEF Item
    <3>3. QED
      BY <1>2, <2>1, <3>1, <3>2
  <2>2. CASE ~Is(Answers[s], "array")
    BY <1>2, <1>3, <1>4, <1>6, <2>2
  <2>3. QED
    BY <2>1, <2>2
<1>8. x[2][1] = s
  BY <1>3, NameFacts
<1>9. QED
  BY <1>2, <1>3, <1>4, <1>6, <1>7, <1>8

\* What a row says: the name of its item, and the service it is of.
RowOf(r, m, i, s) ==
  /\ m \in DOMAIN input /\ input[m] = Word(s) /\ s \in DOMAIN Answers
  /\ i \in DOMAIN Items(Word(s))
  /\ r.name = Name(Word(s), i) /\ r.name \in NameSet /\ r.name[2][1] = s
  /\ Item(r.name) = Items(Word(s))[i] /\ AnItem(Item(r.name))
  /\ r.features = Features(Block, Word(s), Item(r.name))
  /\ Len(r.features) = Required(Block) /\ ~Bad(SortValues(Block, Item(r.name)))

LEMMA RowFacts ==
  ASSUME Begun, NamesHeld, pc \in {"collect", "sort"},
         NEW r, NEW m \in Nat \ {0}, NEW i \in Nat \ {0}, Origin(r, m, i)
  PROVE  \E s \in Services : RowOf(r, m, i, s)
<1>1. input \in Seq(NameSet) /\ m \in DOMAIN input /\ input[m] \in NameSet
  <2>1. input \in Seq(NameSet) /\ m <= Len(input)
    BY DEF NamesHeld, Origin
  <2>2. QED
    BY <2>1
<1>2. /\ i \in DOMAIN Items(input[m]) /\ Fits(input[m], i) /\ r = Row(input[m], i)
  BY DEF Origin
<1>3. Len(input[m][2]) = 1
  BY <1>2, ItemsFacts
<1>4. PICK s \in Services : input[m] = Word(s)
  <2>1. ~\E t, j : input[m] = Element(t, j)
    BY <1>3, NameFacts
  <2>2. QED
    BY <1>1, <2>1 DEF NameSet
<1>5. /\ i \in DOMAIN Items(Word(s)) /\ Fits(Word(s), i) /\ r = Row(Word(s), i)
  BY <1>2, <1>4
<1>6. /\ AnItem(Items(Word(s))[i]) /\ s \in DOMAIN Answers /\ Answer(Word(s)) = Answers[s]
      /\ Items(Word(s)) \in Seq(ToSet(Items(Word(s))))
  <2>1. /\ AnItem(Items(Word(s))[i]) /\ Word(s)[2][1] \in DOMAIN Answers
        /\ Answer(Word(s)) = Answers[Word(s)[2][1]]
        /\ Items(Word(s)) \in Seq(ToSet(Items(Word(s))))
    BY <1>5, ItemsFacts
  <2>2. Word(s)[2][1] = s
    BY NameFacts
  <2>3. QED
    BY <2>1, <2>2
<1>7. /\ r.name = Name(Word(s), i) /\ r.features = Features(Block, Word(s), Items(Word(s))[i])
      /\ Len(r.features) = Required(Block) /\ ~Bad(SortValues(Block, Items(Word(s))[i]))
  BY <1>5 DEF Row, Fits
<1>8. /\ r.name = IF Is(Answers[s], "array") THEN Element(s, i) ELSE Word(s)
      /\ Is(Answers[s], "array") => i \in DOMAIN Numerals
      /\ Item(r.name) = Items(Word(s))[i] /\ r.name[2][1] = s
  BY <1>5, <1>6, <1>7, NamedItem
<1>9. r.name \in NameSet
  BY <1>8, NameFacts DEF NameSet
<1>10. QED
  BY <1>1, <1>4, <1>5, <1>6, <1>7, <1>8, <1>9 DEF RowOf

\* What top_k leaves of the names: the first of them.
LEMMA TopFacts ==
  ASSUME NEW b, BlockAssumption(b), NEW T, NEW names \in Seq(T), NEW top, top = TopOf(b, names)
  PROVE  /\ top \in Seq(T) /\ Len(top) <= Len(names)
         /\ \A i \in 1..Len(top) : top[i] = names[i]
         /\ top = names \/ (b.top > 0 /\ Len(top) = b.top)
<1>1. b.top \in Nat /\ Len(names) \in Nat
  BY DEF BlockAssumption
<1>2. CASE b.top > 0 /\ Len(names) > b.top
  <2>1. top = SubSeq(names, 1, b.top)
    BY <1>2 DEF TopOf
  <2>2. 1 \in 1..Len(names) + 1 /\ b.top \in 0..Len(names)
    BY <1>1, <1>2
  <2>3. /\ top \in Seq(T) /\ Len(top) = b.top
        /\ \A i \in 1..b.top : top[i] = names[i]
    BY <1>1, <1>2, <2>1, <2>2, SubSeqProperties
  <2>4. QED
    BY <1>1, <1>2, <2>3
<1>3. CASE ~(b.top > 0 /\ Len(names) > b.top)
  BY <1>1, <1>3 DEF TopOf
<1>4. QED
  BY <1>2, <1>3

\* What sorting does: it leaves the first of the names, in an order in which none has to
\* go before an earlier one.
Sorted(p, q) ==
  /\ p \in Bijection(DOMAIN collected, DOMAIN collected)
  /\ \A i, j \in DOMAIN collected :
       i < j => ~Less(Block, collected[p[j]].features, collected[p[i]].features)
  /\ q \in Seq({collected[k].name : k \in DOMAIN collected})
  /\ Len(q) <= Len(collected)
  /\ \A i \in DOMAIN q : p[i] \in DOMAIN collected /\ q[i] = collected[p[i]].name
  /\ Len(q) = Len(collected) \/ (Block.top > 0 /\ Len(q) = Block.top)

LEMMA SortDoes ==
  ASSUME RankHeld, Sort
  PROVE  \E p, q : Sorted(p, q) /\ S' = Reset(S, "rank", Arr(q)) /\ Lookup(S', "rank") = Arr(q)
<1>1. pc = "sort"
  BY DEF Sort
<1>2. BlockAssumption(Block) /\ collected \in Seq(ToSet(collected))
  BY <1>1, BlockIs DEF RankHeld, CollectedHeld
<1>3. PICK p \in Sortings(Block, collected) :
        S' = Reset(S, "rank", Arr(TopOf(Block, [i \in DOMAIN collected |-> collected[p[i]].name])))
  BY DEF Sort
<1> DEFINE names == [i \in DOMAIN collected |-> collected[p[i]].name]
           T == {collected[k].name : k \in DOMAIN collected}
           q == TopOf(Block, names)
<1>4. /\ p \in Bijection(DOMAIN collected, DOMAIN collected)
      /\ \A i, j \in DOMAIN collected :
           i < j => ~Less(Block, collected[p[j]].features, collected[p[i]].features)
  BY <1>1, SortCompares DEF Sortings, SortIsDefined
<1>5. \A i \in DOMAIN collected : p[i] \in DOMAIN collected
  BY <1>4 DEF Bijection, Injection
<1>6. Len(collected) \in Nat /\ DOMAIN collected = 1..Len(collected)
  BY <1>2
<1>7. names \in Seq(T) /\ Len(names) = Len(collected)
  <2>1. names = [i \in 1..Len(collected) |-> collected[p[i]].name]
    BY <1>6
  <2>2. \A i \in 1..Len(collected) : collected[p[i]].name \in T
    BY <1>5, <1>6
  <2> HIDE DEF T
  <2>3. [i \in 1..Len(collected) |-> collected[p[i]].name] \in Seq(T)
    BY <1>6, <2>2, IsASeq
  <2>4. Len([i \in 1..Len(collected) |-> collected[p[i]].name]) = Len(collected)
    BY <1>6
  <2>5. QED
    BY <2>1, <2>3, <2>4
<1>8. \A i \in DOMAIN collected : names[i] = collected[p[i]].name
  OBVIOUS
<1> HIDE DEF T, names
<1>9. /\ q \in Seq(T) /\ Len(q) <= Len(names)
      /\ \A i \in 1..Len(q) : q[i] = names[i]
      /\ q = names \/ (Block.top > 0 /\ Len(q) = Block.top)
  BY <1>2, <1>7, TopFacts
<1>10. S' = Reset(S, "rank", Arr(q))
  BY <1>3 DEF names
<1>11. Lookup(S', "rank") = Arr(q)
  BY <1>10, LookupReset DEF RankHeld, Begun
<1> HIDE DEF q
<1>12. \A i \in DOMAIN q : p[i] \in DOMAIN collected /\ q[i] = collected[p[i]].name
  BY <1>5, <1>6, <1>7, <1>8, <1>9
<1>13. Sorted(p, q)
  BY <1>4, <1>7, <1>9, <1>12 DEF Sorted, T
<1>14. QED
  BY <1>10, <1>11, <1>13

LEMMA NamesStep ==
  ASSUME RankHeld, ReadsNames, NamesHeld, [RankStep]_ranking
  PROVE  NamesHeld'
<1>1. Scopes(S) /\ \A c, i : Name(c, i)' = Name(c, i)
  BY AnswersStay DEF RankHeld, Begun
<1>2. CASE S' = S /\ (pc' \in {"collect", "sort"} => input' = input /\ pc \in {"collect", "sort"})
  BY <1>2 DEF NamesHeld, Left
<1>3. CASE Input
  <2>1. S' = S /\ block \in DOMAIN setup.rank
    BY <1>3 DEF Input, RankHeld, Begun
  <2>2. Yields(block, S, Seq(NameSet))
    BY <1>1, <2>1, LikeStays DEF ReadsNames, NamesHeld
  <2>3. pc' \in {"collect", "sort"} => input' \in Seq(NameSet)
    BY <1>3, <2>2, InputYields DEF RankHeld
  <2>4. QED
    BY <2>1, <2>3 DEF NamesHeld, Left
<1>4. CASE Collect
  <2>1. /\ pc \in {"collect", "sort"} /\ input' = input
        /\ S' = S \/ \E it : S' = Reset(S, "item", it)
    BY <1>4 DEF Collect, WithItem
  <2>2. Lookup(S', "rank") = Lookup(S, "rank")
    BY <1>1, <2>1, LookupReset
  <2>3. QED
    BY <2>1, <2>2 DEF NamesHeld, Left
<1>5. CASE Sort
  <2>1. pc = "sort" /\ pc' \notin {"collect", "sort"}
    BY <1>5 DEF Sort
  <2>2. PICK p, q : Sorted(p, q) /\ S' = Reset(S, "rank", Arr(q)) /\ Lookup(S', "rank") = Arr(q)
    BY <1>5, SortDoes
  <2>3. \A k \in DOMAIN collected : collected[k].name \in NameSet
    <3>1. ASSUME NEW k \in DOMAIN collected
          PROVE  collected[k].name \in NameSet
      <4>1. PICK m, i \in Nat \ {0} : Origin(collected[k], m, i)
        BY <2>1 DEF RankHeld, CollectedHeld
      <4>2. QED
        BY <2>1, <4>1, RowFacts DEF RankHeld, RowOf
    <3>2. QED
      BY <3>1
  <2>4. q \in Seq(NameSet)
    <3>1. q \in Seq({collected[k].name : k \in DOMAIN collected})
      BY <2>2 DEF Sorted
    <3>2. {collected[k].name : k \in DOMAIN collected} \subseteq NameSet
      BY <2>3
    <3> HIDE DEF NameSet
    <3>3. QED
      BY <3>1, <3>2
  <2>5. Left(S', Seq(NameSet))
    BY <2>2, <2>4 DEF Left, Arr, Is
  <2>6. QED
    BY <2>1, <2>5 DEF NamesHeld, Left
<1>6. CASE CandidateOver \/ AllCollected \/ UNCHANGED ranking
  BY <1>2, <1>6 DEF CandidateOver, AllCollected, ranking, rankVars
<1>7. QED
  BY <1>3, <1>4, <1>5, <1>6 DEF RankStep

-----------------------------------------------------------------------------
(* The order that the rule means.                                          *)

\* The rule, on the group and the values of a name.
Puts(b, g, h, u, v) ==
  \/ g < h
  \/ /\ g = h
     /\ \E i \in DOMAIN b.sortBy :
          /\ \A j \in 1..i - 1 : Number(u[j]) = Number(v[j])
          /\ IF b.sortBy[i].desc THEN Number(u[i]) > Number(v[i]) ELSE Number(u[i]) < Number(v[i])

\* A list of features says a group and values.
Says(b, f, g, u) ==
  /\ f \in Comparable(b)
  /\ g \in Int /\ g = IF b.order = <<>> THEN 0 ELSE g
  /\ b.order # <<>> => f[1] = Num(Len(b.order) - g + 1)
  /\ \A i \in 1..Len(b.sortBy) : f[Offset(b) + i] = u[i]

\* Without a null before the last place, the comparison is the rule.
LEMMA LessIsTheRule ==
  ASSUME NEW b, BlockAssumption(b), NEW e, NEW f, NEW g, NEW h, NEW u, NEW v,
         Says(b, e, g, u), Says(b, f, h, v),
         \A i \in 1..Len(b.sortBy) : i # Len(b.sortBy) => u[i] # Null /\ v[i] # Null
  PROVE  Less(b, e, f) <=> Puts(b, g, h, u, v)
<1>1. /\ Len(b.sortBy) \in Nat /\ DOMAIN b.sortBy = 1..Len(b.sortBy)
      /\ Required(b) = Offset(b) + Len(b.sortBy) /\ Offset(b) \in {0, 1}
      /\ \A i \in 1..Required(b) : Desc(b, i) \in BOOLEAN
  BY BlockFacts
<1>2. Less(b, e, f) <=>
        \E i \in 1..Required(b) : AlikeTo(e, f, i) /\ Ahead(b, i, Number(e[i]), Number(f[i]))
  <2>1. Required(b) \in Nat /\ e \in Comparable(b) /\ f \in Comparable(b)
    BY <1>1 DEF Says
  <2>2. QED
    BY <1>1, <2>1, LessMeans
<1>3. \A i \in 1..Required(b) : Number(e[i]) \in Int /\ Number(f[i]) \in Int
  BY NumberType DEF Says, Comparable
<1>4. \A i \in 1..Len(b.sortBy), o \in Int : o = Offset(b) + i =>
        /\ o \in 1..Required(b) /\ e[o] = u[i] /\ f[o] = v[i]
        /\ Number(u[i]) \in Int /\ Number(v[i]) \in Int
  <2> SUFFICES ASSUME NEW i \in 1..Len(b.sortBy), NEW o \in Int, o = Offset(b) + i
               PROVE  /\ o \in 1..Required(b) /\ e[o] = u[i] /\ f[o] = v[i]
                      /\ Number(u[i]) \in Int /\ Number(v[i]) \in Int
    OBVIOUS
  <2>1. o \in 1..Required(b)
    BY <1>1
  <2>2. e[o] = u[i] /\ f[o] = v[i]
    BY DEF Says
  <2>3. QED
    BY <1>3, <2>1, <2>2
<1>5. \A i \in 1..Len(b.sortBy), o \in Int : o = Offset(b) + i =>
        (Ahead(b, o, Number(e[o]), Number(f[o])) <=>
          IF b.sortBy[i].desc THEN Number(u[i]) > Number(v[i]) ELSE Number(u[i]) < Number(v[i]))
  <2> SUFFICES ASSUME NEW i \in 1..Len(b.sortBy), NEW o \in Int, o = Offset(b) + i
               PROVE  Ahead(b, o, Number(e[o]), Number(f[o])) <=>
                        IF b.sortBy[i].desc
                        THEN Number(u[i]) > Number(v[i]) ELSE Number(u[i]) < Number(v[i])
    OBVIOUS
  <2>1. Desc(b, o) <=> b.sortBy[i].desc
    <3>1. b.sortBy[i].desc \in BOOLEAN
      BY <1>1 DEF BlockAssumption
    <3>2. CASE b.order = <<>>
      <4>1. o = i
        BY <3>2 DEF Offset
      <4>2. QED
        BY <3>1, <3>2, <4>1 DEF Desc
    <3>3. CASE b.order # <<>>
      <4>1. o # 1 /\ o - 1 = i
        BY <1>1, <3>3 DEF Offset
      <4>2. QED
        BY <3>1, <3>3, <4>1 DEF Desc
    <3>4. QED
      BY <3>2, <3>3
  <2>2. e[o] = u[i] /\ f[o] = v[i]
    BY <1>4
  <2>3. QED
    BY <2>1, <2>2 DEF Ahead
\* The first place is the order's: the greater number is the earlier group.
<1>6. b.order # <<>> =>
        /\ Offset(b) = 1 /\ 1 \in 1..Required(b) /\ AlikeTo(e, f, 1)
        /\ Ahead(b, 1, Number(e[1]), Number(f[1])) <=> g < h
        /\ Number(e[1]) = Number(f[1]) <=> g = h
        /\ e[1] # Null
  <2> SUFFICES ASSUME b.order # <<>>
               PROVE  /\ Offset(b) = 1 /\ 1 \in 1..Required(b) /\ AlikeTo(e, f, 1)
                      /\ Ahead(b, 1, Number(e[1]), Number(f[1])) <=> g < h
                      /\ Number(e[1]) = Number(f[1]) <=> g = h
                      /\ e[1] # Null
    OBVIOUS
  <2>1. Offset(b) = 1 /\ 1 \in 1..Required(b) /\ AlikeTo(e, f, 1)
    BY <1>1 DEF Offset, AlikeTo
  <2>2. e[1] = Num(Len(b.order) - g + 1) /\ f[1] = Num(Len(b.order) - h + 1)
    BY DEF Says
  <2>3. e[1] # Null
    BY <2>2 DEF Num, Null
  <2>4. Number(e[1]) = Len(b.order) - g + 1 /\ Number(f[1]) = Len(b.order) - h + 1
    BY <2>2 DEF Num, Null, Number
  <2>5. Len(b.order) \in Nat /\ g \in Int /\ h \in Int
    BY DEF BlockAssumption, Says
  <2>6. Desc(b, 1)
    BY DEF Desc
  <2>7. QED
    BY <2>1, <2>3, <2>4, <2>5, <2>6 DEF Ahead
<1>7. b.order = <<>> => Offset(b) = 0 /\ g = 0 /\ h = 0
  BY DEF Offset, Says
\* A place after the order's.
<1>8. \A o \in 1..Required(b) : ~(o = 1 /\ b.order # <<>>) =>
        \E i \in 1..Len(b.sortBy) : o = Offset(b) + i
  <2> SUFFICES ASSUME NEW o \in 1..Required(b), ~(o = 1 /\ b.order # <<>>)
               PROVE  \E i \in 1..Len(b.sortBy) : o = Offset(b) + i
    OBVIOUS
  <2>1. o - Offset(b) \in 1..Len(b.sortBy) /\ o = Offset(b) + (o - Offset(b))
    BY <1>1, <1>6, <1>7
  <2>2. QED
    BY <2>1
\* The lists are alike up to it if the groups are the same and the values before it are.
<1>9. \A i \in 1..Len(b.sortBy), o \in Int : o = Offset(b) + i =>
        (AlikeTo(e, f, o) <=> g = h /\ \A j \in 1..i - 1 : Number(u[j]) = Number(v[j]))
  <2> SUFFICES ASSUME NEW i \in 1..Len(b.sortBy), NEW o \in Int, o = Offset(b) + i
               PROVE  AlikeTo(e, f, o) <=> g = h /\ \A j \in 1..i - 1 : Number(u[j]) = Number(v[j])
    OBVIOUS
  <2>1. ASSUME AlikeTo(e, f, o)
        PROVE  g = h /\ \A j \in 1..i - 1 : Number(u[j]) = Number(v[j])
    <3>1. g = h
      <4>1. CASE b.order = <<>>
        BY <1>7, <4>1
      <4>2. CASE b.order # <<>>
        <5>1. 1 \in 1..o - 1
          BY <1>6, <4>2
        <5>2. QED
          BY <1>6, <2>1, <4>2, <5>1 DEF AlikeTo
      <4>3. QED
        BY <4>1, <4>2
    <3>2. ASSUME NEW j \in 1..i - 1, NEW k \in Int, k = Offset(b) + j
          PROVE  Number(u[j]) = Number(v[j])
      <4>1. k \in 1..o - 1 /\ j \in 1..Len(b.sortBy)
        BY <1>1, <3>2
      <4>2. Number(e[k]) = Number(f[k])
        BY <2>1, <4>1 DEF AlikeTo
      <4>3. QED
        BY <1>4, <3>2, <4>1, <4>2
    <3>3. \A j \in 1..i - 1 : Offset(b) + j \in Int
      BY <1>1
    <3>4. QED
      BY <3>1, <3>2, <3>3
  <2>2. ASSUME g = h, \A j \in 1..i - 1 : Number(u[j]) = Number(v[j])
        PROVE  AlikeTo(e, f, o)
    <3>1. ASSUME NEW k \in 1..o - 1
          PROVE  Number(e[k]) = Number(f[k]) /\ ~(e[k] = Null /\ f[k] = Null)
      <4>1. CASE k = 1 /\ b.order # <<>>
        BY <1>6, <2>2, <4>1
      <4>2. CASE ~(k = 1 /\ b.order # <<>>)
        <5>1. k \in 1..Required(b)
          <6>1. o \in 1..Required(b)
            BY <1>4
          <6>2. QED
            BY <1>1, <6>1
        <5>2. PICK j \in 1..Len(b.sortBy) : k = Offset(b) + j
          BY <1>8, <4>2, <5>1
        <5>3. j \in 1..i - 1 /\ j # Len(b.sortBy)
          BY <1>1, <5>2
        <5>4. e[k] = u[j] /\ f[k] = v[j]
          BY <1>4, <5>2
        <5>5. QED
          BY <2>2, <5>3, <5>4
      <4>3. QED
        BY <4>1, <4>2
    <3>2. QED
      BY <3>1 DEF AlikeTo
  <2>3. QED
    BY <2>1, <2>2
<1>10. ASSUME Less(b, e, f)
       PROVE  Puts(b, g, h, u, v)
  <2>1. PICK k \in 1..Required(b) : AlikeTo(e, f, k) /\ Ahead(b, k, Number(e[k]), Number(f[k]))
    BY <1>2, <1>10
  <2>2. CASE k = 1 /\ b.order # <<>>
    BY <1>6, <2>1, <2>2 DEF Puts
  <2>3. CASE ~(k = 1 /\ b.order # <<>>)
    <3>1. PICK i \in 1..Len(b.sortBy) : k = Offset(b) + i
      BY <1>8, <2>3
    <3>2. /\ g = h /\ \A j \in 1..i - 1 : Number(u[j]) = Number(v[j])
          /\ IF b.sortBy[i].desc THEN Number(u[i]) > Number(v[i]) ELSE Number(u[i]) < Number(v[i])
      BY <1>5, <1>9, <2>1, <3>1
    <3>3. QED
      BY <1>1, <3>2 DEF Puts
  <2>4. QED
    BY <2>2, <2>3
<1>11. ASSUME Puts(b, g, h, u, v)
       PROVE  Less(b, e, f)
  <2>1. CASE g < h
    <3>1. g # h
      BY <2>1 DEF Says
    <3>2. QED
      BY <1>2, <1>6, <1>7, <2>1, <3>1
  <2>2. CASE g = h /\ ~(g < h)
    <3>1. PICK i \in 1..Len(b.sortBy) :
            /\ \A j \in 1..i - 1 : Number(u[j]) = Number(v[j])
            /\ IF b.sortBy[i].desc THEN Number(u[i]) > Number(v[i]) ELSE Number(u[i]) < Number(v[i])
      BY <1>1, <1>11, <2>2 DEF Puts
    <3>2. \E o \in Int : o = Offset(b) + i
      BY <1>1
    <3>3. PICK o \in 1..Required(b) : AlikeTo(e, f, o) /\ Ahead(b, o, Number(e[o]), Number(f[o]))
      BY <1>4, <1>5, <1>9, <2>2, <3>1, <3>2
    <3>4. QED
      BY <1>2, <3>3
  <2>3. QED
    BY <1>11, <2>1, <2>2 DEF Puts
<1>12. QED
  BY <1>10, <1>11

\* The order's feature says the group of the service.
LEMMA OrderSays ==
  ASSUME NEW b, BlockAssumption(b), b.order # <<>>, NEW s, Len(OrderFeature(b, Word(s))) = 1
  PROVE  /\ Group(b, s) \in 1..Len(b.order) /\ s \in b.order[Group(b, s)]
         /\ OrderFeature(b, Word(s))[1] = Num(Len(b.order) - Group(b, s) + 1)
<1> DEFINE groups == {i \in DOMAIN b.order : \E t \in b.order[i] : Word(t) = Word(s)}
           k == CHOOSE i \in groups : \A j \in groups : i <= j
           Names(i) == s \in b.order[i] /\ \A j \in 1..i - 1 : s \notin b.order[j]
<1>1. \A t : Word(t) = Word(s) <=> t = s
  BY NameFacts
<1>2. \A i : i \in groups <=> i \in DOMAIN b.order /\ s \in b.order[i]
  BY <1>1
<1>3. Len(b.order) \in Nat /\ DOMAIN b.order = 1..Len(b.order)
  BY DEF BlockAssumption
<1>4. groups # {}
  <2>1. groups = {} => OrderFeature(b, Word(s)) = <<>>
    BY DEF OrderFeature
  <2>2. Len(<<>>) # 1
    OBVIOUS
  <2> HIDE DEF groups
  <2>3. QED
    BY <2>1, <2>2
<1>5. OrderFeature(b, Word(s)) = <<Num(Len(b.order) - k + 1)>>
  BY <1>4 DEF OrderFeature
<1>6. k \in groups /\ k \in 1..Len(b.order) /\ \A j \in groups : k <= j
  <2>1. groups \in SUBSET DOMAIN b.order
    OBVIOUS
  <2> HIDE DEF groups
  <2>2. QED
    BY <1>4, <2>1, GroupExists
<1> HIDE DEF groups, k
<1>7. k \in DOMAIN b.order /\ Names(k)
  <2>1. \A j \in 1..k - 1 : j \in DOMAIN b.order /\ ~(k <= j)
    BY <1>3, <1>6
  <2>2. QED
    BY <1>2, <1>3, <1>6, <2>1
<1>8. \A i \in DOMAIN b.order : Names(i) => i = k
  <2> SUFFICES ASSUME NEW i \in DOMAIN b.order, Names(i)
               PROVE  i = k
    OBVIOUS
  <2>1. k <= i
    BY <1>2, <1>6
  <2>2. ~(k \in 1..i - 1)
    BY <1>7
  <2>3. QED
    BY <1>3, <1>6, <2>1, <2>2
<1>9. Group(b, s) = CHOOSE i \in DOMAIN b.order : Names(i)
  BY DEF Group
<1>10. (CHOOSE i \in DOMAIN b.order : Names(i)) = k
  <2> HIDE DEF Names
  <2>1. QED
    BY <1>7, <1>8
<1>11. Group(b, s) = k
  BY <1>9, <1>10
<1>12. OrderFeature(b, Word(s))[1] = Num(Len(b.order) - k + 1)
  BY <1>5
<1>13. QED
  BY <1>6, <1>7, <1>11, <1>12

\* The values of a name under the sort_by list of the block.
KeysOf(x) == [i \in DOMAIN Block.sortBy |-> Key(block, i, Item(x))]

LEMMA RowSays ==
  ASSUME RankHeld, NamesHeld, pc = "sort", NEW k \in DOMAIN collected, NEW x, x = collected[k].name
  PROVE  /\ Says(Block, collected[k].features, Group(Block, x[2][1]), KeysOf(x))
         /\ AnItem(Item(x))
<1>1. BlockAssumption(Block)
  BY BlockIs DEF RankHeld
<1>2. /\ DOMAIN Block.sortBy = 1..Len(Block.sortBy)
      /\ Required(Block) = Offset(Block) + Len(Block.sortBy)
  BY <1>1, BlockFacts
<1>3. PICK m, i \in Nat \ {0} : Origin(collected[k], m, i)
  BY DEF RankHeld, CollectedHeld
<1>4. PICK s \in Services :
        /\ x[2][1] = s /\ AnItem(Item(x)) /\ collected[k].features = Features(Block, Word(s), Item(x))
        /\ Len(collected[k].features) = Required(Block) /\ ~Bad(SortValues(Block, Item(x)))
  BY <1>3, RowFacts DEF RankHeld, RowOf
<1>5. PICK f, it : f = collected[k].features /\ it = Item(x)
  OBVIOUS
<1>6. f = Features(Block, Word(s), it) /\ Len(f) = Required(Block) /\ ~Bad(SortValues(Block, it))
  BY <1>4, <1>5
<1>7. /\ Len(OrderFeature(Block, Word(s))) = Offset(Block)
      /\ Block.order # <<>> => f[1] = OrderFeature(Block, Word(s))[1]
      /\ \A j \in 1..Len(Block.sortBy) :
           f[Offset(Block) + j] = Evaluate(Block.sortBy[j].expr, WithItem(it))
  BY <1>1, <1>6, RowFeatures
<1>8. \A j \in 1..Len(Block.sortBy) : f[Offset(Block) + j] = KeysOf(x)[j]
  BY <1>2, <1>5, <1>7 DEF KeysOf, Key, Block
<1>9. f \in Comparable(Block)
  BY <1>5, FeaturesCompare DEF RankHeld, FeatureSet
<1>10. CASE Block.order = <<>>
  <2>1. Group(Block, s) = 0
    BY <1>10 DEF Group
  <2>2. QED
    BY <1>4, <1>5, <1>8, <1>9, <1>10, <2>1 DEF Says
<1>11. CASE Block.order # <<>>
  <2>1. Len(OrderFeature(Block, Word(s))) = 1
    BY <1>7, <1>11 DEF Offset
  <2>2. /\ Group(Block, s) \in 1..Len(Block.order)
        /\ OrderFeature(Block, Word(s))[1] = Num(Len(Block.order) - Group(Block, s) + 1)
    BY <1>1, <1>11, <2>1, OrderSays
  <2>3. f[1] = Num(Len(Block.order) - Group(Block, s) + 1) /\ Group(Block, s) \in Int
    BY <1>7, <1>11, <2>2
  <2>4. QED
    BY <1>4, <1>5, <1>8, <1>9, <1>11, <2>3 DEF Says
<1>12. QED
  BY <1>10, <1>11

\* After sorting, what the rule says of two names is what it says of their keys.
LEMMA BeforeIsTheRule ==
  ASSUME RankHeld, Sort, NEW x, NEW y
  PROVE  /\ JustRun' = Block /\ Item(x)' = Item(x)
         /\ \A i \in DOMAIN Block.sortBy : Value(JustRun, i, x)' = Key(block, i, Item(x))
         /\ Before(JustRun, x, y)'
              <=> Puts(Block, Group(Block, x[2][1]), Group(Block, y[2][1]), KeysOf(x), KeysOf(y))
<1>1. BlockAssumption(Block) /\ block \in DOMAIN setup.rank
  BY BlockIs DEF RankHeld, Begun, Sort
<1>2. JustRun' = Block
  <2>1. block \in Int
    BY <1>1, RankAssumption DEF RankHeld, Begun
  <2>2. setup' = setup /\ block' = block + 1
    BY DEF Sort
  <2>3. block' - 1 = block
    BY <2>1, <2>2
  <2>4. QED
    BY <2>2, <2>3 DEF JustRun, Block
<1>3. PICK r : S' = Reset(S, "rank", r)
  BY DEF Sort
<1>4. Lookup(S', "backend") = Lookup(S, "backend")
  BY <1>3, LookupReset DEF RankHeld, Begun
<1>5. \A z : Item(z)' = Item(z)
  BY <1>4 DEF Item
<1>6. ASSUME NEW z, NEW i \in DOMAIN Block.sortBy
      PROVE  Value(JustRun, i, z)' = Key(block, i, Item(z))
  <2>1. Value(JustRun, i, z)' = Evaluate(Block.sortBy[i].expr, Reset(S', "item", Item(z)))
    BY <1>2, <1>5 DEF Value, WithItem
  <2>2. QED
    BY <1>1, <1>3, <2>1 DEF RankHeld, Rankable, RankUnread, Block
<1>7. DOMAIN Block.sortBy = 1..Len(Block.sortBy)
  BY <1>1, BlockFacts
<1>8. \A i \in DOMAIN Block.sortBy :
        Value(JustRun, i, x)' = KeysOf(x)[i] /\ Value(JustRun, i, y)' = KeysOf(y)[i]
  BY <1>6 DEF KeysOf
<1>9. Before(JustRun, x, y)'
        <=> Puts(Block, Group(Block, x[2][1]), Group(Block, y[2][1]), KeysOf(x), KeysOf(y))
  <2>1. ASSUME NEW i \in DOMAIN Block.sortBy
        PROVE  /\ \A j \in 1..i - 1 : j \in DOMAIN Block.sortBy
               /\ \A j \in 1..i - 1 : /\ Value(JustRun, j, x)' = KeysOf(x)[j]
                                      /\ Value(JustRun, j, y)' = KeysOf(y)[j]
    BY <1>1, <1>7, <1>8
  <2>2. QED
    BY <1>2, <1>8, <2>1 DEF Before, Puts
<1>10. QED
  BY <1>2, <1>5, <1>6, <1>9

-----------------------------------------------------------------------------
(* The candidates come out in the order of the rule.                       *)

\* No value is null but of the last sort_by: of two nulls the comparison says nothing, and
\* looks no further.
NullsLast ==
  \A n \in DOMAIN setup.rank : \A i \in DOMAIN setup.rank[n].sortBy : \A it :
    AnItem(it) /\ i # Len(setup.rank[n].sortBy) => Key(n, i, it) # Null

LEMMA NullsStay == Begun /\ Rankable /\ NullsLast /\ [RankStep]_ranking => NullsLast'
<1> SUFFICES ASSUME Begun, Rankable, NullsLast, [RankStep]_ranking
             PROVE  NullsLast'
  OBVIOUS
<1>1. setup' = setup
  BY SetupStays
<1>2. \A it : AnItem(it)' <=> AnItem(it)
  BY AnswersStay DEF AnItem, Begun
<1>3. \A n \in DOMAIN setup.rank : \A i \in DOMAIN setup.rank[n].sortBy : \A it :
        Key(n, i, it)' = Key(n, i, it)
  BY KeysStay DEF Begun, Rankable
<1>4. QED
  BY <1>1, <1>2, <1>3 DEF NullsLast

LEMMA ReadsStay == Scopes(S) /\ ReadsNames /\ [RankStep]_ranking => ReadsNames'
BY SetupStays, LikeStays DEF ReadsNames, Yields

LEMMA NamesInit == RankInit => NamesHeld
BY DEF RankInit, NamesHeld, Left

\* A block is over when it has sorted.
LEMMA EndedIsSorted == [RankStep]_ranking /\ Ended' => Sort \/ UNCHANGED ranking
BY DEF RankStep, Input, Collect, CandidateOver, AllCollected, Outcome, Ended

LEMMA NothingMoves ==
  ASSUME UNCHANGED ranking
  PROVE  RankIsSorted' = RankIsSorted /\ TopIsBest' = TopIsBest
<1>1. setup' = setup /\ pc' = pc /\ S' = S /\ block' = block /\ input' = input
  BY DEF ranking, rankVars
<1>2. Ended' = Ended /\ JustRun' = JustRun /\ Ranking' = Ranking /\ Ranked' = Ranked
  BY <1>1 DEF Ended, JustRun, Ranking, Ranked
<1>3. \A x : Item(x)' = Item(x)
  BY <1>1 DEF Item
<1>4. \A b, i, x : Value(b, i, x)' = Value(b, i, x)
  BY <1>1, <1>3 DEF Value, WithItem
<1>5. \A b, x, y : Before(b, x, y)' = Before(b, x, y)
  BY <1>4 DEF Before
<1>6. \A b : Meant(b)' = Meant(b)
  BY <1>1, <1>3, <1>4 DEF Meant
<1>7. RankIsSorted' = RankIsSorted
  BY <1>2, <1>5 DEF RankIsSorted
<1>8. TopIsBest' = TopIsBest
  BY <1>2, <1>5, <1>6 DEF TopIsBest
<1>9. QED
  BY <1>7, <1>8

\* Of two rows the rule puts the same first as the comparison.
LEMMA RowsCompare ==
  ASSUME RankHeld, NamesHeld, NullsLast, Sort,
         NEW k \in DOMAIN collected, NEW l \in DOMAIN collected,
         NEW x, x = collected[k].name, NEW y, y = collected[l].name
  PROVE  Before(JustRun, x, y)' <=> Less(Block, collected[k].features, collected[l].features)
<1>1. pc = "sort" /\ block \in DOMAIN setup.rank
  BY DEF Sort, RankHeld, Begun
<1>2. BlockAssumption(Block)
  BY <1>1, BlockIs DEF RankHeld
<1>3. DOMAIN Block.sortBy = 1..Len(Block.sortBy)
  BY <1>2, BlockFacts
<1>4. /\ Says(Block, collected[k].features, Group(Block, x[2][1]), KeysOf(x)) /\ AnItem(Item(x))
      /\ Says(Block, collected[l].features, Group(Block, y[2][1]), KeysOf(y)) /\ AnItem(Item(y))
  BY <1>1, RowSays
<1>5. \A i \in 1..Len(Block.sortBy) :
        i # Len(Block.sortBy) => KeysOf(x)[i] # Null /\ KeysOf(y)[i] # Null
  BY <1>1, <1>3, <1>4 DEF NullsLast, KeysOf, Block
<1>6. Less(Block, collected[k].features, collected[l].features)
        <=> Puts(Block, Group(Block, x[2][1]), Group(Block, y[2][1]), KeysOf(x), KeysOf(y))
  BY <1>2, <1>4, <1>5, LessIsTheRule
<1>7. QED
  BY <1>6, BeforeIsTheRule

SortHeld == RankHeld /\ ReadsNames /\ NullsLast /\ NamesHeld

LEMMA SortHeldStep == SortHeld /\ [RankStep]_ranking => SortHeld'
BY RankHeldStep, ReadsStay, NullsStay, NamesStep DEF SortHeld, RankHeld, Begun

LEMMA SortSorts == SortHeld /\ Sort => RankIsSorted'
<1> SUFFICES ASSUME SortHeld, Sort
             PROVE  RankIsSorted'
  OBVIOUS
<1>1. PICK p, q : Sorted(p, q) /\ Lookup(S', "rank") = Arr(q)
  BY SortDoes DEF SortHeld
<1>2. Ranking' = q
  BY <1>1 DEF Ranking, Arr
<1>3. DOMAIN q \subseteq DOMAIN collected
  BY <1>1 DEF Sorted, SortHeld, RankHeld, CollectedHeld, Sort
<1>4. ASSUME NEW i \in DOMAIN q, NEW j \in DOMAIN q, i < j
      PROVE  ~Before(JustRun, q[j], q[i])'
  <2>1. /\ p[i] \in DOMAIN collected /\ p[j] \in DOMAIN collected
        /\ q[i] = collected[p[i]].name /\ q[j] = collected[p[j]].name
        /\ ~Less(Block, collected[p[j]].features, collected[p[i]].features)
    BY <1>1, <1>3, <1>4 DEF Sorted
  <2>2. QED
    BY <2>1, RowsCompare DEF SortHeld
<1>5. QED
  BY <1>2, <1>4 DEF RankIsSorted

\* RankConfig::run leaves in `rank' no name before one that the rule puts before it, if
\* the keys are numbers, null only of the last sort_by, and the candidates are services
\* and elements of answers.
THEOREM RankingFollowsTheRule ==
  RankSpec /\ Rankable /\ ReadsNames /\ NullsLast => []RankIsSorted
<1> DEFINE Held == SortHeld /\ RankIsSorted
<1>1. RankInit /\ Rankable /\ ReadsNames /\ NullsLast => Held
  <2>1. RankInit => ~Ended
    BY DEF RankInit, Ended
  <2>2. QED
    BY <2>1, RankHeldInit, NamesInit DEF SortHeld, RankIsSorted
<1>2. Held /\ [RankStep]_ranking => Held'
  <2> SUFFICES ASSUME Held, [RankStep]_ranking
               PROVE  Held'
    OBVIOUS
  <2>1. CASE ~Ended'
    BY <2>1, SortHeldStep DEF RankIsSorted
  <2>2. CASE Sort
    BY <2>2, SortHeldStep, SortSorts
  <2>3. CASE UNCHANGED ranking
    BY <2>3, NothingMoves, SortHeldStep
  <2>4. QED
    BY <2>1, <2>2, <2>3, EndedIsSorted
<1>3. QED
  BY <1>1, <1>2, PTL DEF RankSpec, ranking

-----------------------------------------------------------------------------
(* Nothing is left out, and nothing is there twice.                        *)

NoArrays == \A s \in DOMAIN Answers : ~Is(Answers[s], "array")

\* A block's input is a list of services, each once, if `rank' is what a block can have left:
\* names, each once, and services if no answer is an array.
Words == {Word(s) : s \in Services}
Once(L) == {q \in L : IsInjective(q)}
OnceLeft == Once(IF NoArrays THEN Seq(Words) ELSE Seq(NameSet))
ReadsOnce ==
  \A n \in DOMAIN setup.rank : \A Q : Like(Q) /\ Left(Q, OnceLeft) => Yields(n, Q, Once(Seq(Words)))

OnceHeld ==
  /\ ReadsOnce
  /\ Left(S, OnceLeft)
  /\ pc \in {"collect", "sort"} => input \in Once(Seq(Words))

\* Every element gone past that fits is collected, under a name of its own.
CompleteHeld ==
  pc \in {"collect", "sort"} =>
    /\ \A m, i \in Nat \ {0} : \A r : Past(m, i) /\ Origin(r, m, i) =>
         \E k \in DOMAIN collected : collected[k] = r
    /\ \A k, l \in DOMAIN collected : collected[k].name = collected[l].name => k = l
    /\ pc = "sort" => at > Len(input)

\* Two rows of one name are of one element.
LEMMA NameSaysOrigin ==
  ASSUME Begun, NamesHeld, OnceHeld, pc \in {"collect", "sort"},
         NEW r, NEW m \in Nat \ {0}, NEW i \in Nat \ {0}, Origin(r, m, i),
         NEW t, NEW n \in Nat \ {0}, NEW j \in Nat \ {0}, Origin(t, n, j), r.name = t.name
  PROVE  m = n /\ i = j
<1>1. PICK s \in Services : RowOf(r, m, i, s)
  BY RowFacts
<1>2. PICK u \in Services : RowOf(t, n, j, u)
  BY RowFacts
<1>3. s = u
  BY <1>1, <1>2 DEF RowOf
<1>4. m = n
  BY <1>1, <1>2, <1>3 DEF RowOf, OnceHeld, Once, IsInjective
<1>5. i = j
  <2>1. CASE Is(Answers[s], "array")
    <3>1. /\ r.name = Element(s, i) /\ i \in DOMAIN Numerals
          /\ t.name = Element(s, j) /\ j \in DOMAIN Numerals
      <4>1. \A l \in DOMAIN Items(Word(s)) : Name(Word(s), l) = Element(s, l) /\ l \in DOMAIN Numerals
        <5>1. s \in DOMAIN Answers
          BY <1>1 DEF RowOf
        <5>2. QED
          BY <2>1, <5>1, NamedItem
      <4>2. /\ r.name = Name(Word(s), i) /\ i \in DOMAIN Items(Word(s))
            /\ t.name = Name(Word(s), j) /\ j \in DOMAIN Items(Word(s))
        BY <1>1, <1>2, <1>3 DEF RowOf
      <4>3. QED
        BY <4>1, <4>2
    <3>2. Numerals[i] = Numerals[j]
      <4>1. Element(s, i)[2][2] = Numerals[i] /\ Element(s, j)[2][2] = Numerals[j]
        BY NameFacts
      <4>2. Element(s, i) = Element(s, j)
        BY <3>1
      <4>3. QED
        BY <4>1, <4>2
    <3>3. QED
      BY <3>1, <3>2, NumeralsAssumption DEF IsInjective
  <2>2. CASE ~Is(Answers[s], "array")
    BY <1>1, <1>2, <1>3, <2>2, NamedItem DEF RowOf
  <2>3. QED
    BY <2>1, <2>2
<1>6. QED
  BY <1>4, <1>5

LEMMA CompleteStep ==
  ASSUME RankHeld, NamesHeld, OnceHeld, CompleteHeld, [RankStep]_ranking
  PROVE  CompleteHeld'
<1> SUFFICES ASSUME pc' \in {"collect", "sort"}
             PROVE  CompleteHeld'
  BY DEF CompleteHeld
<1>0. Begun /\ CollectedHeld /\ RankUnread
  BY DEF RankHeld, Rankable
<1>1. CASE Input
  <2>1. /\ collected' = <<>> /\ at' = 1 /\ part' = 1 /\ pc' # "sort"
    BY <1>1 DEF Input, Outcome
  <2>2. \A m, i \in Nat \ {0} : ~Past(m, i)'
    BY <2>1 DEF Past
  <2>3. QED
    BY <2>1, <2>2 DEF CompleteHeld
<1>2. CASE Sort
  BY <1>2 DEF Sort
<1>3. CASE UNCHANGED ranking
  <2>1. pc \in {"collect", "sort"} /\ at' = at /\ part' = part /\ collected' = collected
        /\ input' = input /\ pc' = pc
    BY <1>3 DEF ranking, rankVars
  <2>2. \A m, i : Past(m, i)' = Past(m, i)
    BY <2>1 DEF Past
  <2>3. \A r, m, i : Origin(r, m, i)' <=> Origin(r, m, i)
    BY <1>0, <1>3, <2>1, OriginsStay
  <2>4. QED
    BY <2>1, <2>2, <2>3 DEF CompleteHeld
<1>4. CASE Collect \/ CandidateOver \/ AllCollected
  <2>1. pc = "collect" /\ input' = input
    BY <1>4 DEF Collect, CandidateOver, AllCollected, rankVars
  <2>2. \A r, m, i : Origin(r, m, i)' <=> Origin(r, m, i)
    BY <1>0, <1>4, <2>1, OriginsStay
  <2>3. \A m, i \in Nat \ {0} : \A r : Past(m, i)' /\ Origin(r, m, i) =>
          Past(m, i) \/ (Collect /\ m = at /\ i = part)
    BY <1>0, <1>4, <2>1, PastMoves DEF Origin
  <2>4. pc' = "sort" => at' > Len(input')
    BY <1>4, <2>1 DEF Collect, CandidateOver, AllCollected
  <2>5. /\ \A m, i \in Nat \ {0} : \A r : Past(m, i) /\ Origin(r, m, i) =>
             \E k \in DOMAIN collected : collected[k] = r
        /\ \A k, l \in DOMAIN collected : collected[k].name = collected[l].name => k = l
    BY <2>1 DEF CompleteHeld
  <2>6. CASE ~Collect
    <3>1. collected' = collected
      BY <1>4, <2>6 DEF CandidateOver, AllCollected, rankVars
    <3>2. QED
      BY <2>2, <2>3, <2>4, <2>5, <2>6, <3>1 DEF CompleteHeld
  <2>7. CASE Collect
    <3>1. pc' = "collect"
      BY <2>1, <2>7 DEF Collect
    <3>2. /\ at \in Nat \ {0} /\ part \in Nat \ {0}
          /\ at <= Len(input) /\ part \in DOMAIN Items(input[at])
          /\ Len(collected) \in Nat /\ DOMAIN collected = 1..Len(collected)
          /\ \/ ~Fits(input[at], part) /\ collected' = collected
             \/ /\ Fits(input[at], part)
                /\ collected' \in Seq(ToSet(collected'))
                /\ DOMAIN collected' = 1..Len(collected) + 1
                /\ \A k \in DOMAIN collected : collected'[k] = collected[k]
                /\ collected'[Len(collected) + 1] = Row(input[at], part)
      BY <1>0, <2>7, <3>1, CollectDoes
    <3>3. PICK a \in Nat \ {0}, b \in Nat \ {0} : a = at /\ b = part
      BY <3>2
    <3>4. CASE ~Fits(input[at], part)
      <4>1. collected' = collected
        BY <3>2, <3>4
      <4>2. \A r : ~Origin(r, a, b)
        BY <3>3, <3>4 DEF Origin
      <4>3. QED
        BY <2>2, <2>3, <2>4, <2>5, <3>3, <4>1, <4>2 DEF CompleteHeld
    <3>5. CASE Fits(input[at], part)
      <4> DEFINE new == Len(collected) + 1
                 row == Row(input[at], part)
      <4>1. /\ DOMAIN collected' = DOMAIN collected \cup {new} /\ new \notin DOMAIN collected
            /\ \A k \in DOMAIN collected : collected'[k] = collected[k]
            /\ collected'[new] = row
        BY <3>2, <3>5
      <4>2. Origin(row, a, b) /\ \A r : Origin(r, a, b) => r = row
        BY <3>2, <3>3, <3>5 DEF Origin
      <4>3. ~Past(a, b)
        BY <3>3 DEF Past
      <4> HIDE DEF new, row
      <4>4. \A m, i \in Nat \ {0} : \A r : Past(m, i)' /\ Origin(r, m, i) =>
              \E k \in DOMAIN collected' : collected'[k] = r
        BY <2>3, <2>5, <3>3, <4>1, <4>2
      <4>5. ASSUME NEW k \in DOMAIN collected, collected[k].name = row.name
            PROVE  FALSE
        <5>1. PICK m, i \in Nat \ {0} : Past(m, i) /\ Origin(collected[k], m, i)
          BY <1>0, <2>1 DEF CollectedHeld
        <5>2. m = a /\ i = b
          BY <1>0, <2>1, <4>2, <4>5, <5>1, NameSaysOrigin
        <5>3. QED
          BY <4>3, <5>1, <5>2
      <4>6. \A k, l \in DOMAIN collected' : collected'[k].name = collected'[l].name => k = l
        BY <2>5, <4>1, <4>5
      <4>7. \A m, i \in Nat \ {0} : \A r : Past(m, i)' /\ Origin(r, m, i)' =>
              \E k \in DOMAIN collected' : collected'[k] = r
        BY <2>2, <4>4
      <4>8. QED
        BY <2>4, <4>6, <4>7 DEF CompleteHeld
    <3>6. QED
      BY <3>4, <3>5
  <2>8. QED
    BY <2>6, <2>7
<1>5. QED
  BY <1>1, <1>2, <1>3, <1>4 DEF RankStep

LEMMA OnceStep ==
  ASSUME RankHeld, ReadsNames, NamesHeld, OnceHeld, CompleteHeld, [RankStep]_ranking
  PROVE  OnceHeld'
<1>1. Scopes(S) /\ OnceLeft' = OnceLeft /\ ReadsOnce'
  <2>1. setup' = setup /\ Scopes(S) /\ Answers' = Answers
    BY SetupStays, AnswersStay DEF RankHeld, Begun
  <2>2. OnceLeft' = OnceLeft
    BY <2>1 DEF OnceLeft, NoArrays
  <2>3. ReadsOnce'
    BY <2>1, <2>2, LikeStays DEF OnceHeld, ReadsOnce, Yields
  <2>4. QED
    BY <2>1, <2>2, <2>3
<1>3. CASE /\ S' = S
           /\ pc' \in {"collect", "sort"} => input' = input /\ pc \in {"collect", "sort"}
  BY <1>1, <1>3 DEF OnceHeld, Left
<1>4. CASE Input
  <2>1. S' = S /\ block \in DOMAIN setup.rank
    BY <1>4 DEF Input, RankHeld, Begun
  <2>2. Yields(block, S, Once(Seq(Words)))
    BY <1>1, <2>1, LikeStays DEF OnceHeld, ReadsOnce
  <2>3. pc' \in {"collect", "sort"} => input' \in Once(Seq(Words))
    BY <1>4, <2>2, InputYields DEF RankHeld
  <2>4. QED
    BY <1>1, <2>1, <2>3 DEF OnceHeld, Left
<1>5. CASE Collect
  <2>1. /\ pc \in {"collect", "sort"} /\ input' = input
        /\ S' = S \/ \E it : S' = Reset(S, "item", it)
    BY <1>5 DEF Collect, WithItem
  <2>2. Lookup(S', "rank") = Lookup(S, "rank")
    BY <1>1, <2>1, LookupReset
  <2>3. QED
    BY <1>1, <2>1, <2>2 DEF OnceHeld, Left
<1>6. CASE Sort
  <2>1. pc = "sort" /\ pc' \notin {"collect", "sort"}
    BY <1>6 DEF Sort
  <2>2. PICK p, q : Sorted(p, q) /\ Lookup(S', "rank") = Arr(q)
    BY <1>6, SortDoes
  <2>3. Len(collected) \in Nat /\ DOMAIN collected = 1..Len(collected)
    BY <2>1 DEF RankHeld, CollectedHeld
  <2>4. IsInjective(q)
    <3> SUFFICES ASSUME NEW i \in DOMAIN q, NEW j \in DOMAIN q, q[i] = q[j]
                 PROVE  i = j
      BY DEF IsInjective
    <3>1. p[i] = p[j]
      <4>1. /\ p[i] \in DOMAIN collected /\ p[j] \in DOMAIN collected
            /\ collected[p[i]].name = collected[p[j]].name
        BY <2>2 DEF Sorted
      <4>2. QED
        BY <2>1, <4>1 DEF CompleteHeld
    <3>2. i \in DOMAIN collected /\ j \in DOMAIN collected
      BY <2>2, <2>3 DEF Sorted
    <3>3. QED
      BY <2>2, <3>1, <3>2 DEF Sorted, Bijection, Injection, IsInjective
  <2>5. ASSUME NoArrays
        PROVE  q \in Seq(Words)
    <3>1. ASSUME NEW k \in DOMAIN collected
          PROVE  collected[k].name \in Words
      <4>1. PICK m, i \in Nat \ {0} : Origin(collected[k], m, i)
        BY <2>1 DEF RankHeld, CollectedHeld
      <4>2. PICK s \in Services : RowOf(collected[k], m, i, s)
        BY <2>1, <4>1, RowFacts DEF RankHeld
      <4>3. collected[k].name = Name(Word(s), i) /\ s \in DOMAIN Answers /\ i \in DOMAIN Items(Word(s))
        BY <4>2 DEF RowOf
      <4>4. Name(Word(s), i) = Word(s)
        BY <2>5, <4>3, NamedItem DEF NoArrays, RankHeld
      <4>5. QED
        BY <4>3, <4>4 DEF Words
    <3>2. {collected[k].name : k \in DOMAIN collected} \subseteq Words
      BY <3>1
    <3>3. q \in Seq({collected[k].name : k \in DOMAIN collected})
      BY <2>2 DEF Sorted
    <3> HIDE DEF Words
    <3>4. QED
      BY <3>2, <3>3
  <2>6. q \in Seq(NameSet)
    <3>1. Left(S', Seq(NameSet))
      BY NamesStep DEF NamesHeld
    <3>2. QED
      BY <2>2, <3>1 DEF Left, Arr, Absent
  <2>7. Left(S', OnceLeft)
    <3>1. q \in OnceLeft
      BY <2>4, <2>5, <2>6 DEF OnceLeft, Once
    <3>2. QED
      BY <2>2, <3>1 DEF Left, Arr, Is
  <2>8. QED
    BY <1>1, <2>1, <2>7 DEF OnceHeld, Left
<1>7. CASE CandidateOver \/ AllCollected \/ UNCHANGED ranking
  BY <1>3, <1>7 DEF CandidateOver, AllCollected, ranking, rankVars
<1>8. QED
  BY <1>4, <1>5, <1>6, <1>7 DEF RankStep

\* An item has all the features if the order has its service and every expression a value.
LEMMA FitsMeans ==
  ASSUME NEW b, BlockAssumption(b), NEW s, NEW it
  PROVE  ~Bad(SortValues(b, it)) /\ Len(Features(b, Word(s), it)) = Required(b) <=>
           /\ b.order = <<>> \/ \E i \in DOMAIN b.order : s \in b.order[i]
           /\ \A i \in DOMAIN b.sortBy : ~Bad(Evaluate(b.sortBy[i].expr, WithItem(it)))
<1> DEFINE o == OrderFeature(b, Word(s))
           vs == [i \in DOMAIN b.sortBy |-> Evaluate(b.sortBy[i].expr, WithItem(it))]
           bad == {i \in DOMAIN vs : Bad(vs[i])}
           groups == {i \in DOMAIN b.order : \E t \in b.order[i] : Word(t) = Word(s)}
<1>1. /\ Len(b.sortBy) \in Nat /\ DOMAIN b.sortBy = 1..Len(b.sortBy)
      /\ Required(b) = Offset(b) + Len(b.sortBy)
  BY BlockFacts
<1>2. Len(b.order) \in Nat /\ DOMAIN b.order = 1..Len(b.order)
  BY DEF BlockAssumption
<1>3. ~Bad(SortValues(b, it)) <=>
        \A i \in DOMAIN b.sortBy : ~Bad(Evaluate(b.sortBy[i].expr, WithItem(it)))
  <2>1. ASSUME \A i \in DOMAIN b.sortBy : ~Bad(Evaluate(b.sortBy[i].expr, WithItem(it)))
        PROVE  ~Bad(SortValues(b, it))
    <3>1. bad = {}
      BY <2>1
    <3>2. SortValues(b, it) = Arr(vs)
      BY <3>1 DEF SortValues, AllOf, First
    <3> HIDE DEF vs
    <3>3. Arr(vs)[1] # Failure[1] /\ Arr(vs)[1] # Crash[1]
      BY DEF Arr, Failure, Crash
    <3>4. QED
      BY <3>2, <3>3 DEF Bad
  <2>2. QED
    BY <2>1, SortValuesAre
<1>4. Len(o) = Offset(b) <=> b.order = <<>> \/ \E i \in DOMAIN b.order : s \in b.order[i]
  <2>1. \A i : i \in groups <=> i \in DOMAIN b.order /\ s \in b.order[i]
    BY NameFacts
  <2>2. CASE b.order = <<>>
    <3>1. o = <<>>
      <4>1. groups = {}
        BY <2>2
      <4>2. QED
        BY <4>1 DEF OrderFeature
    <3> HIDE DEF o
    <3>2. QED
      BY <2>2, <3>1 DEF Offset
  <2>3. CASE b.order # <<>>
    <3>1. groups = {} => o = <<>>
      BY DEF OrderFeature
    <3>2. groups # {} => \E n : o = <<n>>
      BY DEF OrderFeature
    <3> HIDE DEF o, groups
    <3>3. Len(o) = 1 <=> groups # {}
      BY <3>1, <3>2
    <3>4. QED
      BY <2>1, <2>3, <3>3 DEF Offset
  <2>4. QED
    BY <2>2, <2>3
<1>5. ASSUME ~Bad(SortValues(b, it))
      PROVE  Len(Features(b, Word(s), it)) = Len(o) + Len(b.sortBy)
  <2> DEFINE T == ToSet(o) \cup ToSet(vs)
  <2>1. Features(b, Word(s), it) = o \o vs
    <3>1. SortValues(b, it)[2] = vs
      BY <1>5, SortValuesAre
    <3>2. QED
      BY <3>1 DEF Features
  <2>2. vs \in Seq(T)
    <3>1. \A i \in 1..Len(b.sortBy) : vs[i] \in T
      BY <1>1 DEF ToSet
    <3>2. vs = [i \in 1..Len(b.sortBy) |-> vs[i]]
      BY <1>1
    <3> HIDE DEF vs, T
    <3>3. [i \in 1..Len(b.sortBy) |-> vs[i]] \in Seq(T)
      BY <1>1, <3>1, IsASeq
    <3>4. QED
      BY <3>2, <3>3
  <2>3. Len(vs) = Len(b.sortBy)
    BY <1>1
  <2>4. o \in Seq(T)
    <3>1. o = <<>> \/ \E n : o = <<n>>
      BY OrderFeatureType
    <3>2. \A j \in DOMAIN o : o[j] \in T
      BY DEF ToSet
    <3> HIDE DEF o, T
    <3>3. ASSUME NEW n, o = <<n>>
          PROVE  o \in Seq(T)
      <4>1. n \in T
        BY <3>2, <3>3
      <4>2. <<n>> \in Seq(T)
        BY <4>1
      <4>3. QED
        BY <3>3, <4>2
    <3>4. CASE o = <<>>
      <4>1. <<>> \in Seq(T)
        OBVIOUS
      <4>2. QED
        BY <3>4, <4>1
    <3>5. QED
      BY <3>1, <3>3, <3>4
  <2> HIDE DEF o, vs, T
  <2>5. Len(o \o vs) = Len(o) + Len(vs)
    BY <2>2, <2>4, ConcatProperties
  <2>6. QED
    BY <2>1, <2>3, <2>5
<1>6. Len(o) \in Nat /\ Offset(b) \in {0, 1}
  <2>1. o = <<>> \/ \E n : o = <<n>>
    BY OrderFeatureType
  <2> HIDE DEF o
  <2>2. QED
    BY <2>1 DEF Offset
<1> HIDE DEF o
<1>7. QED
  BY <1>1, <1>3, <1>4, <1>5, <1>6

\* A name the block is to rank, said before it sorts.
ToRank(x) ==
  /\ \E c \in ToSet(input) :
       IF Is(Item(c), "array") THEN \E i \in DOMAIN Item(c)[2] : x = Element(c[2][1], i) ELSE x = c
  /\ Item(x) # Absent
  /\ Block.order = <<>> \/ \E i \in DOMAIN Block.order : x[2][1] \in Block.order[i]
  /\ \A i \in DOMAIN Block.sortBy : ~Bad(Evaluate(Block.sortBy[i].expr, WithItem(Item(x))))

LEMMA MeantStays == ASSUME RankHeld, Sort, NEW x PROVE x \in Meant(JustRun)' <=> ToRank(x)
<1>1. input' = input
  BY DEF Sort
<1>2. /\ JustRun' = Block /\ \A y : Item(y)' = Item(y)
      /\ \A y : \A i \in DOMAIN Block.sortBy :
           Value(JustRun, i, y)' = Evaluate(Block.sortBy[i].expr, WithItem(Item(y)))
  BY BeforeIsTheRule DEF Key, Block
<1>3. x \in Meant(JustRun)' <=>
        /\ \E c \in ToSet(input) :
             x \in (IF Is(Item(c), "array")
                    THEN {Element(c[2][1], i) : i \in DOMAIN Item(c)[2]} ELSE {c})
        /\ Item(x) # Absent
        /\ Block.order = <<>> \/ \E i \in DOMAIN Block.order : x[2][1] \in Block.order[i]
        /\ \A i \in DOMAIN Block.sortBy : ~Bad(Evaluate(Block.sortBy[i].expr, WithItem(Item(x))))
  BY <1>1, <1>2 DEF Meant
<1>4. QED
  BY <1>3 DEF ToRank

LEMMA RankedIsMeant ==
  ASSUME RankHeld, NamesHeld, pc = "sort", NEW k \in DOMAIN collected
  PROVE  ToRank(collected[k].name)
<1>1. PICK m, i \in Nat \ {0} : Origin(collected[k], m, i)
  BY DEF RankHeld, CollectedHeld
<1>2. PICK s \in Services : RowOf(collected[k], m, i, s)
  BY <1>1, RowFacts DEF RankHeld
<1>3. PICK x : x = collected[k].name
  OBVIOUS
<1>4. /\ m \in DOMAIN input /\ input[m] = Word(s) /\ s \in DOMAIN Answers
      /\ i \in DOMAIN Items(Word(s)) /\ x = Name(Word(s), i) /\ x[2][1] = s
      /\ Item(x) = Items(Word(s))[i]
      /\ Len(Features(Block, Word(s), Item(x))) = Required(Block) /\ ~Bad(SortValues(Block, Item(x)))
  BY <1>2, <1>3 DEF RowOf
<1>5. Word(s) \in ToSet(input) /\ Word(s)[2][1] = s
  BY <1>4, NameFacts DEF ToSet
<1>6. /\ x = IF Is(Answers[s], "array") THEN Element(s, i) ELSE Word(s)
      /\ Items(Word(s)) = IF Is(Answers[s], "array") THEN Answers[s][2] ELSE <<Answers[s]>>
      /\ Item(Word(s)) = Answers[s]
  BY <1>4, NamedItem DEF RankHeld
<1>7. \E c \in ToSet(input) :
        IF Is(Item(c), "array") THEN \E j \in DOMAIN Item(c)[2] : x = Element(c[2][1], j) ELSE x = c
  <2>1. CASE Is(Answers[s], "array")
    BY <1>4, <1>5, <1>6, <2>1
  <2>2. CASE ~Is(Answers[s], "array")
    BY <1>5, <1>6, <2>2
  <2>3. QED
    BY <2>1, <2>2
<1>8. Item(x) # Absent
  BY <1>4, ItemsFacts DEF RankHeld
<1>9. PICK it : it = Item(x)
  OBVIOUS
<1>10. /\ Block.order = <<>> \/ \E j \in DOMAIN Block.order : s \in Block.order[j]
       /\ \A j \in DOMAIN Block.sortBy : ~Bad(Evaluate(Block.sortBy[j].expr, WithItem(it)))
  <2>1. BlockAssumption(Block)
    BY BlockIs DEF RankHeld
  <2>2. ~Bad(SortValues(Block, it)) /\ Len(Features(Block, Word(s), it)) = Required(Block)
    BY <1>4, <1>9
  <2>3. QED
    BY <2>1, <2>2, FitsMeans
<1>11. QED
  BY <1>3, <1>4, <1>7, <1>8, <1>9, <1>10 DEF ToRank

LEMMA MeantIsRanked ==
  ASSUME RankHeld, NamesHeld, OnceHeld, CompleteHeld, pc = "sort", NEW x, ToRank(x)
  PROVE  \E k \in DOMAIN collected : x = collected[k].name
<1>1. PICK c \in ToSet(input) :
        IF Is(Item(c), "array") THEN \E j \in DOMAIN Item(c)[2] : x = Element(c[2][1], j) ELSE x = c
  BY DEF ToRank
<1>2. input \in Seq(Words) /\ Len(input) \in Nat /\ DOMAIN input = 1..Len(input)
  BY DEF OnceHeld, Once
<1>3. PICK m \in DOMAIN input, s \in Services : c = input[m] /\ c = Word(s)
  BY <1>1, <1>2 DEF ToSet, Words
<1>4. IF Is(Item(Word(s)), "array") THEN \E j \in DOMAIN Item(Word(s))[2] : x = Element(s, j)
      ELSE x = Word(s)
  BY <1>1, <1>3, NameFacts
<1>5. s \in DOMAIN Answers
  <2>1. s \notin DOMAIN Answers => Member(Lookup(S, "backend"), <<s>>) = Absent
    BY DEF Member, Answers
  <2>2. s \notin DOMAIN Answers => Item(Word(s)) = Absent
    BY <2>1, NameFacts DEF Item
  <2>3. s \notin DOMAIN Answers => x = Word(s)
    BY <1>4, <2>2 DEF Is, Absent
  <2>4. QED
    BY <2>2, <2>3 DEF ToRank
<1>6. /\ Answer(Word(s)) = Answers[s] /\ Answers[s] # Absent
      /\ Items(Word(s)) = IF Is(Answers[s], "array") THEN Answers[s][2] ELSE <<Answers[s]>>
      /\ Item(Word(s)) = Answers[s]
  <2>1. Member(Lookup(S, "backend"), <<s>>) = Answers[s] /\ Answers[s] # Absent
    BY <1>5 DEF Member, Answers, Begun, RankHeld
  <2>2. Answer(Word(s)) = Answers[s] /\ Item(Word(s)) = Answers[s]
    BY <2>1, NameFacts DEF Answer, Item
  <2>3. QED
    BY <2>1, <2>2 DEF Items
<1>7. PICK i \in DOMAIN Items(Word(s)) : x = Name(Word(s), i)
  <2>1. CASE Is(Answers[s], "array")
    <3>1. PICK j \in DOMAIN Answers[s][2] : x = Element(s, j)
      BY <1>4, <1>6, <2>1
    <3>2. j \in DOMAIN Items(Word(s))
      BY <1>6, <2>1, <3>1
    <3>3. Name(Word(s), j) = Element(s, j)
      BY <1>6, <2>1, NameFacts DEF Name
    <3>4. QED
      BY <3>1, <3>2, <3>3
  <2>2. CASE ~Is(Answers[s], "array")
    <3>1. x = Word(s)
      BY <1>4, <1>6, <2>2
    <3>2. 1 \in DOMAIN Items(Word(s))
      BY <1>6, <2>2
    <3>3. Name(Word(s), 1) = Word(s)
      BY <1>6, <2>2 DEF Name
    <3>4. QED
      BY <3>1, <3>2, <3>3
  <2>3. QED
    BY <2>1, <2>2
<1>8. x[2][1] = s /\ Item(x) = Items(Word(s))[i]
  BY <1>5, <1>7, NamedItem DEF RankHeld
<1>9. PICK it : it = Item(x)
  OBVIOUS
<1>10. ~Bad(SortValues(Block, it)) /\ Len(Features(Block, Word(s), it)) = Required(Block)
  <2>1. BlockAssumption(Block)
    BY BlockIs DEF RankHeld
  <2>2. /\ Block.order = <<>> \/ \E j \in DOMAIN Block.order : s \in Block.order[j]
        /\ \A j \in DOMAIN Block.sortBy : ~Bad(Evaluate(Block.sortBy[j].expr, WithItem(it)))
    BY <1>8, <1>9 DEF ToRank
  <2>3. QED
    BY <2>1, <2>2, FitsMeans
<1>11. PICK r : r = Row(Word(s), i)
  OBVIOUS
<1>12. r.name = x
  BY <1>7, <1>11 DEF Row
<1>13. Origin(r, m, i)
  BY <1>2, <1>3, <1>8, <1>9, <1>10, <1>11 DEF Origin, Fits
<1>14. m \in Nat \ {0} /\ i \in Nat \ {0}
  <2>1. Items(Word(s)) \in Seq(ToSet(Items(Word(s))))
    BY ItemsFacts DEF RankHeld
  <2>2. i \in 1..Len(Items(Word(s))) /\ Len(Items(Word(s))) \in Nat
    BY <2>1
  <2>3. QED
    BY <1>2, <2>2
<1>15. Past(m, i)
  <2>1. at > Len(input) /\ at \in Nat
    BY DEF CompleteHeld, RankHeld, CollectedHeld
  <2>2. QED
    BY <1>2, <2>1 DEF Past
<1>16. QED
  BY <1>12, <1>13, <1>14, <1>15 DEF CompleteHeld

BestHeld == SortHeld /\ OnceHeld /\ CompleteHeld

LEMMA BestHeldStep == BestHeld /\ [RankStep]_ranking => BestHeld'
BY SortHeldStep, OnceStep, CompleteStep DEF BestHeld, SortHeld

LEMMA SortKeepsTheBest == BestHeld /\ Sort => TopIsBest'
<1> SUFFICES ASSUME BestHeld, Sort
             PROVE  TopIsBest'
  OBVIOUS
<1>0. RankHeld /\ NamesHeld /\ NullsLast /\ OnceHeld /\ CompleteHeld /\ pc = "sort"
  BY DEF BestHeld, SortHeld, Sort
<1>1. PICK p, q : Sorted(p, q) /\ Lookup(S', "rank") = Arr(q)
  BY <1>0, SortDoes
<1>2. Ranking' = q /\ Ranked' = ToSet(q)
  BY <1>1 DEF Ranking, Ranked, Arr
<1>3. /\ Len(collected) \in Nat /\ DOMAIN collected = 1..Len(collected)
      /\ Len(q) \in Nat /\ DOMAIN q = 1..Len(q) /\ Len(q) <= Len(collected)
  BY <1>0, <1>1 DEF Sorted, RankHeld, CollectedHeld
<1>4. \A i \in DOMAIN q : p[i] \in DOMAIN collected /\ q[i] = collected[p[i]].name
  BY <1>1 DEF Sorted
<1>5. \A x : x \in Meant(JustRun)' <=> \E k \in DOMAIN collected : x = collected[k].name
  BY <1>0, MeantStays, RankedIsMeant, MeantIsRanked
<1>6. Ranked' \subseteq Meant(JustRun)'
  BY <1>2, <1>4, <1>5 DEF ToSet
<1>7. IsInjective(q)
  <2> SUFFICES ASSUME NEW i \in DOMAIN q, NEW j \in DOMAIN q, q[i] = q[j]
               PROVE  i = j
    BY DEF IsInjective
  <2>1. p[i] = p[j]
    BY <1>0, <1>4 DEF CompleteHeld
  <2>2. i \in DOMAIN collected /\ j \in DOMAIN collected
    BY <1>3
  <2>3. QED
    BY <1>1, <2>1, <2>2 DEF Sorted, Bijection, Injection, IsInjective
<1>8. ASSUME NEW x \in Meant(JustRun)', x \notin Ranked'
      PROVE  /\ Block.top > 0 /\ Len(q) = Block.top
             /\ \A y \in Ranked' : ~Before(JustRun, x, y)'
  <2>1. PICK k \in DOMAIN collected : x = collected[k].name
    BY <1>5
  <2>2. PICK j \in DOMAIN collected : p[j] = k
    BY <1>1 DEF Sorted, Bijection, Surjection
  <2>3. j \notin DOMAIN q
    BY <1>2, <1>4, <1>8, <2>1, <2>2 DEF ToSet
  <2>4. Len(q) # Len(collected)
    BY <1>3, <2>3
  <2>5. ASSUME NEW y \in Ranked'
        PROVE  ~Before(JustRun, x, y)'
    <3>1. PICK i \in DOMAIN q : y = q[i]
      BY <1>2 DEF ToSet
    <3>2. i \in DOMAIN collected /\ i < j /\ p[i] \in DOMAIN collected /\ y = collected[p[i]].name
      BY <1>3, <1>4, <2>3, <3>1
    <3>3. ~Less(Block, collected[p[j]].features, collected[p[i]].features)
      BY <1>1, <3>2 DEF Sorted
    <3>4. QED
      BY <1>0, <2>1, <2>2, <3>2, <3>3, RowsCompare
  <2>6. QED
    BY <1>1, <2>4, <2>5 DEF Sorted
<1>9. JustRun' = Block
  BY <1>0, BeforeIsTheRule
<1>10. QED
  BY <1>2, <1>6, <1>7, <1>8, <1>9 DEF TopIsBest

\* FlowConfig::rank leaves in `rank' the best top_k of what a block is to rank, each name
\* once: every name it leaves out is one that top_k leaves no room for and that the rule
\* puts before none of those in.  Nothing is lost when a second block ranks what a first
\* has left, if each block ranks services, each once, and no element of an answer.
THEOREM RankingKeepsTheBest ==
  RankSpec /\ Rankable /\ ReadsNames /\ NullsLast /\ ReadsOnce => []TopIsBest
<1> DEFINE Held == BestHeld /\ TopIsBest
<1>1. RankInit /\ Rankable /\ ReadsNames /\ NullsLast /\ ReadsOnce => Held
  <2> SUFFICES ASSUME RankInit, Rankable, ReadsNames, NullsLast, ReadsOnce
               PROVE  Held
    OBVIOUS
  <2>1. ~Ended /\ pc = "input"
    BY DEF RankInit, Ended
  <2>2. SortHeld
    BY RankHeldInit, NamesInit DEF SortHeld
  <2>3. OnceHeld
    BY <2>1 DEF RankInit, OnceHeld, Left
  <2>4. CompleteHeld
    BY <2>1 DEF CompleteHeld
  <2>5. QED
    BY <2>1, <2>2, <2>3, <2>4 DEF BestHeld, TopIsBest
<1>2. Held /\ [RankStep]_ranking => Held'
  <2> SUFFICES ASSUME Held, [RankStep]_ranking
               PROVE  Held'
    OBVIOUS
  <2>1. CASE ~Ended'
    BY <2>1, BestHeldStep DEF TopIsBest
  <2>2. CASE Sort
    BY <2>2, BestHeldStep, SortKeepsTheBest
  <2>3. CASE UNCHANGED ranking
    BY <2>3, NothingMoves, BestHeldStep
  <2>4. QED
    BY <2>1, <2>2, <2>3, EndedIsSorted
<1>3. QED
  BY <1>1, <1>2, PTL DEF RankSpec, ranking
=============================================================================

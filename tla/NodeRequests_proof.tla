-------------------------- MODULE NodeRequests_proof --------------------------
(***************************************************************************)
(* What a node's requests are sent with: proofs about Node that rest on    *)
(* those of Node_proof.                                                    *)
(***************************************************************************)
EXTENDS Node_proof

-----------------------------------------------------------------------------
(* What a request sets in its own scope.                                   *)

FieldNames == {"http_method", "http_uri", "host_ip_port", "http_header", "http_query", "http_body",
               "dynamic_args_node", "dynamic_args_path", "dynamic_args", "redis_cmd"}

SameAt(T, R, y) ==
  /\ y \in DOMAIN T[1] <=> y \in DOMAIN R[1]
  /\ y \in DOMAIN R[1] => T[1][y] = R[1][y]
SameBelow(T, R) ==
  /\ Listed(T) /\ Listed(R) /\ Len(T) = Len(R) /\ DOMAIN T = DOMAIN R /\ 1 \in DOMAIN R
  /\ \A i \in DOMAIN R : i # 1 => T[i] = R[i]

\* Scopes that differ at most in one variable of the innermost, or in fields of requests.
Touches(T, R, x) == SameBelow(T, R) /\ \A y : y # x => SameAt(T, R, y)
FieldsOnly(T, R) == SameBelow(T, R) /\ \A y : y \notin FieldNames => SameAt(T, R, y)

\* No other scope has the variable.
OwnOnly(R, x) == \A i \in DOMAIN R : i # 1 => x \notin DOMAIN R[i]

LEMMA FieldsItself ==
  ASSUME NEW R, Listed(R), 1 \in DOMAIN R
  PROVE  FieldsOnly(R, R)
BY DEF FieldsOnly, SameBelow, SameAt

LEMMA FieldsBack ==
  ASSUME NEW T, NEW R, FieldsOnly(T, R)
  PROVE  FieldsOnly(R, T)
BY DEF FieldsOnly, SameBelow, SameAt

LEMMA FieldsOn ==
  ASSUME NEW T, NEW R, NEW U, FieldsOnly(T, R), FieldsOnly(U, T)
  PROVE  FieldsOnly(U, R)
<1>1. SameBelow(U, R)
  BY DEF FieldsOnly, SameBelow
<1>2. ASSUME NEW y, y \notin FieldNames
      PROVE  SameAt(U, R, y)
  BY <1>2 DEF FieldsOnly, SameAt
<1>3. QED
  BY <1>1, <1>2 DEF FieldsOnly

LEMMA TouchesField ==
  ASSUME NEW T, NEW R, NEW x \in FieldNames, Touches(T, R, x)
  PROVE  FieldsOnly(T, R)
<1>1. \A y : y \notin FieldNames => y # x
  OBVIOUS
<1>2. QED
  BY <1>1 DEF FieldsOnly, Touches

LEMMA OwnStays ==
  ASSUME NEW T, NEW R, SameBelow(T, R), NEW x, OwnOnly(R, x)
  PROVE  OwnOnly(T, x)
BY DEF SameBelow, OwnOnly

LEMMA LookupOwn ==
  ASSUME NEW R, Listed(R), 1 \in DOMAIN R, NEW x, OwnOnly(R, x)
  PROVE  Lookup(R, x) = IF x \in DOMAIN R[1] THEN R[1][x] ELSE Absent
<1>1. CASE x \in DOMAIN R[1]
  BY <1>1, LookupTop
<1>2. CASE x \notin DOMAIN R[1]
  <2>1. Free(R, x)
    BY <1>2 DEF Free, OwnOnly
  <2>2. QED
    BY <1>2, <2>1, LookupFree
<1>3. QED
  BY <1>1, <1>2

LEMMA ResetTouches ==
  ASSUME NEW R, Listed(R), 1 \in DOMAIN R, NEW x, NEW v, NEW T, T = Reset(R, x, v)
  PROVE  Touches(T, R, x) /\ x \in DOMAIN T[1] /\ T[1][x] = v
<1>1. IsReset(T, R, x, v)
  BY ResetIs
<1>2. PICK f : f = T[1]
  OBVIOUS
<1>3. f = [y \in DOMAIN R[1] \cup {x} |-> IF y = x THEN v ELSE R[1][y]]
  BY <1>1, <1>2 DEF IsReset
<1>4. x \in DOMAIN f /\ f[x] = v
  BY <1>3
<1>5. \A y : y # x => /\ y \in DOMAIN f <=> y \in DOMAIN R[1]
                      /\ y \in DOMAIN R[1] => f[y] = R[1][y]
  BY <1>3
<1>6. SameBelow(T, R)
  BY <1>1 DEF IsReset, SameBelow
<1>7. QED
  BY <1>2, <1>4, <1>5, <1>6 DEF Touches, SameAt

LEMMA SetVarIs ==
  ASSUME NEW R, Listed(R), 1 \in DOMAIN R, NEW x, NEW v, NEW T, T = SetVar(R, x, v)
  PROVE  /\ Touches(T, R, x) /\ x \in DOMAIN T[1]
         /\ T[1][x] = IF x \in DOMAIN R[1] THEN R[1][x] ELSE v
<1>1. CASE x \in DOMAIN R[1]
  <2>1. T = R
    BY <1>1 DEF SetVar
  <2>2. Touches(R, R, x)
    BY DEF Touches, SameBelow, SameAt
  <2>3. QED
    BY <1>1, <2>1, <2>2
<1>2. CASE x \notin DOMAIN R[1]
  <2>1. T = Reset(R, x, v)
    BY <1>2 DEF SetVar
  <2>2. QED
    BY <1>2, <2>1, ResetTouches
<1>3. QED
  BY <1>1, <1>2

LEMMA MergeVarIs ==
  ASSUME NEW R, Listed(R), 1 \in DOMAIN R, NEW x, OwnOnly(R, x), NEW v, NEW T, T = MergeVar(R, x, v)
  PROVE  /\ Touches(T, R, x) /\ x \in DOMAIN T[1]
         /\ T[1][x] = IF x \in DOMAIN R[1] THEN Merge(R[1][x], v) ELSE v
<1> DEFINE in == {i \in DOMAIN R : x \in DOMAIN R[i]}
<1>1. CASE x \notin DOMAIN R[1]
  <2>1. in = {}
    BY <1>1 DEF OwnOnly
  <2>2. T = SetVar(R, x, v)
    BY <2>1 DEF MergeVar
  <2>3. QED
    BY <1>1, <2>2, SetVarIs
<1>2. CASE x \in DOMAIN R[1]
  <2>1. in = {1}
    BY <1>2 DEF OwnOnly
  <2>2. (CHOOSE i \in in : \A j \in in : i <= j) = 1
    <3> HIDE DEF in
    <3>1. \A i \in in : i = 1
      BY <2>1
    <3>2. 1 \in in /\ \A j \in in : 1 <= j
      BY <2>1
    <3>3. QED
      BY <3>1, <3>2
  <2>3. T = [R EXCEPT ![1] = [R[1] EXCEPT ![x] = Merge(R[1][x], v)]]
    <3>1. in # {}
      BY <2>1
    <3>2. T = [R EXCEPT ![CHOOSE i \in in : \A j \in in : i <= j] =
                 [R[CHOOSE i \in in : \A j \in in : i <= j] EXCEPT ![x] =
                    Merge(R[CHOOSE i \in in : \A j \in in : i <= j][x], v)]]
      BY <3>1 DEF MergeVar
    <3> HIDE DEF in
    <3>3. QED
      BY <2>2, <3>2
  <2>4. PICK f : f = [R[1] EXCEPT ![x] = Merge(R[1][x], v)]
    OBVIOUS
  <2>5. T = [R EXCEPT ![1] = f]
    BY <2>3, <2>4
  <2>6. x \in DOMAIN f /\ f[x] = Merge(R[1][x], v)
    BY <1>2, <2>4
  <2>7. \A y : y # x => /\ y \in DOMAIN f <=> y \in DOMAIN R[1]
                        /\ y \in DOMAIN R[1] => f[y] = R[1][y]
    BY <2>4
  <2>8. T[1] = f /\ SameBelow(T, R)
    <3>1. Len(R) \in Nat /\ R = [i \in 1..Len(R) |-> R[i]]
      BY DEF Listed
    <3>2. T = [i \in 1..Len(R) |-> IF i = 1 THEN f ELSE R[i]]
      BY <2>5, <3>1
    <3>3. Len(T) = Len(R)
      BY <3>1, <3>2
    <3>4. QED
      BY <3>1, <3>2, <3>3 DEF SameBelow, Listed
  <2>9. QED
    BY <1>2, <2>6, <2>7, <2>8 DEF Touches, SameAt
<1>3. QED
  BY <1>1, <1>2

-----------------------------------------------------------------------------
(* The fields of a request, one by one.                                    *)

LEMMA NullIsGood == ~Bad(Null)
BY DEF Bad, Null, Failure, Crash

LEMMA WithIs ==
  ASSUME NEW r, NEW v, NEW R, NEW w, w = With(r, v, R), ~Bad(w.v)
  PROVE  ~Bad(r.v) /\ ~Bad(v) /\ w.S = R
<1>1. ~Bad(r.v)
  BY DEF With
<1>2. ~Bad(v)
  <2> SUFFICES ASSUME Bad(v)
               PROVE  FALSE
    OBVIOUS
  <2>1. w = [r EXCEPT !.v = v]
    BY <1>1 DEF With
  <2>2. w.v = v \/ w.v = r.v
    BY <2>1
  <2>3. r = [v |-> r.v, S |-> r.S] => w.v = v
    BY <2>1
  <2>4. QED
    BY <1>1, <2>1, <2>2, <2>3
<1>3. w.S = R
  BY <1>1, <1>2 DEF With, Ok
<1>4. QED
  BY <1>1, <1>2, <1>3

\* A field from an expression: one that is set keeps its value.
FieldFrom(T, R, x, sets) ==
  IF x \in DOMAIN R[1] \/ x \notin DOMAIN sets THEN SameAt(T, R, x)
  ELSE x \in DOMAIN T[1] /\ T[1][x] = Evaluate(sets[x], R)

LEMMA JsonRunScopes ==
  ASSUME NEW n, NEW r, JsonRun(r, n)
  PROVE  /\ Listed(r.S) /\ 1 \in DOMAIN r.S /\ JsonScopes(r.S, n)
         /\ \A x : Touches(r.S, r.S, x)
BY DEF JsonRun, JsonScopes, Touches, SameBelow, SameAt

LEMMA FieldSetIs ==
  ASSUME NEW n \in Nat, NEW r, JsonRun(r, n), NEW sets, NEW x, x \in DOMAIN sets => Gives(sets[x]),
         NEW w, w = SetField(sets, x, r)
  PROVE  /\ JsonRun(w, n)
         /\ ~Bad(w.v) => ~Bad(r.v) /\ Touches(w.S, r.S, x) /\ FieldFrom(w.S, r.S, x, sets)
<1>0. Listed(r.S) /\ 1 \in DOMAIN r.S /\ JsonScopes(r.S, n) /\ Touches(r.S, r.S, x)
  BY JsonRunScopes
<1>1. CASE x \notin DOMAIN sets
  <2>1. w = r
    BY <1>1 DEF SetField
  <2>2. SameAt(r.S, r.S, x)
    BY DEF SameAt
  <2>3. QED
    BY <1>0, <1>1, <2>1, <2>2 DEF FieldFrom
<1>2. CASE x \in DOMAIN sets
  <2>1. PICK v : v = Evaluate(sets[x], r.S)
    OBVIOUS
  <2>2. Bad(v) \/ Json(v)
    BY <1>0, <1>2, <2>1 DEF Gives
  <2>3. w = SetTo(r, x, v)
    BY <1>2, <2>1 DEF SetField
  <2>4. JsonRun(w, n)
    BY <2>2, <2>3, JsonSetTo
  <2>5. PICK R : R = SetVar(r.S, x, v)
    OBVIOUS
  <2>6. w = With(r, v, R)
    BY <2>3, <2>5 DEF SetTo
  <2>7. /\ Touches(R, r.S, x) /\ x \in DOMAIN R[1]
        /\ R[1][x] = IF x \in DOMAIN r.S[1] THEN r.S[1][x] ELSE v
    BY <1>0, <2>5, SetVarIs
  <2>8. FieldFrom(R, r.S, x, sets)
    BY <1>2, <2>1, <2>7 DEF FieldFrom, SameAt
  <2>9. QED
    BY <2>4, <2>6, <2>7, <2>8, WithIs
<1>3. QED
  BY <1>1, <1>2

\* A document of keys merged into a field.
Gains(T, R, x, doc) ==
  IF doc = Null THEN SameAt(T, R, x)
  ELSE /\ x \in DOMAIN T[1]
       /\ T[1][x] = IF x \in DOMAIN R[1] THEN Merge(R[1][x], doc) ELSE doc

LEMMA FieldMergedIs ==
  ASSUME MergesOnce, NEW n \in Nat, NEW r, JsonRun(r, n), NEW kes, Keys(kes), GiveJson(kes),
         NEW x, OwnOnly(r.S, x), NEW w, w = MergeField(kes, x, r)
  PROVE  /\ JsonRun(w, n)
         /\ ~Bad(w.v) => /\ ~Bad(r.v) /\ Touches(w.S, r.S, x)
                         /\ Gains(w.S, r.S, x, Fill(kes, r.S)) /\ Json(Fill(kes, r.S))
<1>0. Listed(r.S) /\ 1 \in DOMAIN r.S /\ JsonScopes(r.S, n) /\ Touches(r.S, r.S, x)
  BY JsonRunScopes
<1>1. JsonRun(w, n)
  BY JsonMergeField
<1>2. PICK doc : doc = Fill(kes, r.S)
  OBVIOUS
<1>3. Bad(doc) \/ Json(doc)
  BY <1>0, <1>2, JsonFill
<1>4. PICK R : R = IF doc = Null THEN r.S ELSE MergeVar(r.S, x, doc)
  OBVIOUS
<1>5. w = With(r, doc, R)
  BY <1>2, <1>4 DEF MergeField, MergedWith
<1>6. Touches(R, r.S, x) /\ Gains(R, r.S, x, doc)
  <2>1. CASE doc = Null
    BY <1>0, <1>4, <2>1 DEF Gains, SameAt
  <2>2. CASE doc # Null
    <3>1. R = MergeVar(r.S, x, doc)
      BY <1>4, <2>2
    <3>2. /\ Touches(R, r.S, x) /\ x \in DOMAIN R[1]
          /\ R[1][x] = IF x \in DOMAIN r.S[1] THEN Merge(r.S[1][x], doc) ELSE doc
      BY <1>0, <3>1, MergeVarIs
    <3>3. QED
      BY <2>2, <3>2 DEF Gains
  <2>3. QED
    BY <2>1, <2>2
<1>7. ~Bad(w.v) => ~Bad(r.v) /\ ~Bad(doc) /\ w.S = R
  BY <1>5, WithIs
<1>8. QED
  BY <1>1, <1>2, <1>3, <1>6, <1>7

LEMMA ArgsAre ==
  ASSUME NEW n \in Nat, NEW r, JsonRun(r, n), NEW b, Keys(b.args), GiveJson(b.args),
         NEW w, w = SetArgs(b, r)
  PROVE  /\ JsonRun(w, n)
         /\ ~Bad(w.v) => ~Bad(r.v) /\ Touches(w.S, r.S, "dynamic_args")
<1>0. Listed(r.S) /\ 1 \in DOMAIN r.S /\ JsonScopes(r.S, n) /\ Touches(r.S, r.S, "dynamic_args")
  BY JsonRunScopes
<1>1. PICK doc : doc = Fill(b.args, r.S)
  OBVIOUS
<1>2. Bad(doc) \/ Json(doc)
  BY <1>0, <1>1, JsonFill
<1>3. w = IF doc = Null THEN r ELSE SetTo(r, "dynamic_args", doc)
  BY <1>1 DEF SetArgs, SetUnlessNull
<1>4. CASE doc = Null
  BY <1>0, <1>3, <1>4
<1>5. CASE doc # Null
  <2>1. w = SetTo(r, "dynamic_args", doc)
    BY <1>3, <1>5
  <2>2. JsonRun(w, n)
    BY <1>2, <2>1, JsonSetTo
  <2>3. PICK R : R = SetVar(r.S, "dynamic_args", doc)
    OBVIOUS
  <2>4. w = With(r, doc, R)
    BY <2>1, <2>3 DEF SetTo
  <2>5. Touches(R, r.S, "dynamic_args")
    BY <1>0, <2>3, SetVarIs
  <2>6. QED
    BY <2>2, <2>4, <2>5, WithIs
<1>6. QED
  BY <1>4, <1>5

\* What is asked for gives JSON: the definitions, the fields, the documents of keys.
AskGives(b) ==
  /\ GiveJson(b.def) /\ GiveJson(b.header) /\ GiveJson(b.query) /\ GiveJson(b.body) /\ GiveJson(b.args)
  /\ \A x \in DOMAIN b.sets : Gives(b.sets[x])
Asking(b) == Asks(b) /\ AskGives(b)

Docs == {"http_header", "http_query", "http_body"}
DocKeys(b, x) == CASE x = "http_header" -> b.header [] x = "http_query" -> b.query [] OTHER -> b.body
OwnDocs(R) == \A x \in Docs : OwnOnly(R, x)

DocGained(T, R, x, kes, n) ==
  \E U : /\ FieldsOnly(U, R) /\ JsonScopes(U, n)
         /\ Gains(T, R, x, Fill(kes, U)) /\ Json(Fill(kes, U))
UriGained(T, R, sets) ==
  \E U : /\ FieldsOnly(U, R)
         /\ IF "http_uri" \in DOMAIN R[1] \/ "http_uri" \notin DOMAIN sets THEN SameAt(T, R, "http_uri")
            ELSE "http_uri" \in DOMAIN T[1] /\ T[1]["http_uri"] = Evaluate(sets["http_uri"], U)

\* The scopes after the fields of a block.
FieldsDone(T, R, b, n) ==
  /\ FieldsOnly(T, R) /\ UriGained(T, R, b.sets)
  /\ \A x \in Docs : DocGained(T, R, x, DocKeys(b, x), n)

LEMMA SameOn ==
  ASSUME NEW T, NEW R, NEW U, NEW x, SameAt(T, R, x), SameAt(U, T, x)
  PROVE  SameAt(U, R, x)
BY DEF SameAt

LEMMA GainsBetween ==
  ASSUME NEW R, NEW V, NEW T, NEW x, NEW doc, SameAt(V, R, x), Gains(T, V, x, doc)
  PROVE  Gains(T, R, x, doc)
<1>1. CASE doc = Null
  <2>1. SameAt(T, V, x)
    BY <1>1 DEF Gains
  <2>2. SameAt(T, R, x)
    BY <2>1, SameOn
  <2>3. QED
    BY <1>1, <2>2 DEF Gains
<1>2. CASE doc # Null
  BY <1>2 DEF Gains, SameAt
<1>3. QED
  BY <1>1, <1>2

LEMMA GainsStill ==
  ASSUME NEW R, NEW T, NEW W, NEW x, NEW doc, Gains(T, R, x, doc), SameAt(W, T, x)
  PROVE  Gains(W, R, x, doc)
<1>1. CASE doc = Null
  <2>1. SameAt(T, R, x)
    BY <1>1 DEF Gains
  <2>2. SameAt(W, R, x)
    BY <2>1, SameOn
  <2>3. QED
    BY <1>1, <2>2 DEF Gains
<1>2. CASE doc # Null
  BY <1>2 DEF Gains, SameAt
<1>3. QED
  BY <1>1, <1>2

\* Where only another field is set afterwards, the fields before are still done.
LEMMA DoneStill ==
  ASSUME NEW T, NEW R, NEW b, NEW n, FieldsDone(T, R, b, n), NEW W,
         NEW y \in FieldNames, y \notin Docs, y # "http_uri", Touches(W, T, y)
  PROVE  FieldsDone(W, R, b, n)
<1>1. \A x : x # y => SameAt(W, T, x)
  BY DEF Touches
<1>2. FieldsOnly(W, R)
  <2>1. FieldsOnly(W, T) /\ FieldsOnly(T, R)
    BY TouchesField DEF FieldsDone
  <2>2. QED
    BY <2>1, FieldsOn
<1>3. UriGained(W, R, b.sets)
  <2>1. PICK U : /\ FieldsOnly(U, R)
                 /\ IF "http_uri" \in DOMAIN R[1] \/ "http_uri" \notin DOMAIN b.sets
                    THEN SameAt(T, R, "http_uri")
                    ELSE "http_uri" \in DOMAIN T[1] /\ T[1]["http_uri"] = Evaluate(b.sets["http_uri"], U)
    BY DEF FieldsDone, UriGained
  <2>2. SameAt(W, T, "http_uri")
    BY <1>1
  <2>3. SameAt(T, R, "http_uri") => SameAt(W, R, "http_uri")
    BY <2>2, SameOn
  <2>4. "http_uri" \in DOMAIN T[1] => "http_uri" \in DOMAIN W[1] /\ W[1]["http_uri"] = T[1]["http_uri"]
    BY <2>2 DEF SameAt
  <2>5. QED
    BY <2>1, <2>3, <2>4 DEF UriGained
<1>4. ASSUME NEW x \in Docs
      PROVE  DocGained(W, R, x, DocKeys(b, x), n)
  <2>1. PICK kes : kes = DocKeys(b, x)
    OBVIOUS
  <2>2. PICK U : /\ FieldsOnly(U, R) /\ JsonScopes(U, n)
                 /\ Gains(T, R, x, Fill(kes, U)) /\ Json(Fill(kes, U))
    BY <2>1 DEF FieldsDone, DocGained
  <2>3. SameAt(W, T, x)
    BY <1>1
  <2>4. Gains(W, R, x, Fill(kes, U))
    BY <2>2, <2>3, GainsStill
  <2>5. QED
    BY <2>1, <2>2, <2>4 DEF DocGained
<1>5. QED
  BY <1>2, <1>3, <1>4 DEF FieldsDone

\* The step that merges the keys of a document, with the fields before and after it.
LEMMA DocThrough ==
  ASSUME NEW R, NEW V, NEW T, NEW W, NEW n, NEW x, NEW kes,
         FieldsOnly(V, R), JsonScopes(V, n), SameAt(V, R, x),
         Gains(T, V, x, Fill(kes, V)), Json(Fill(kes, V)), SameAt(W, T, x)
  PROVE  DocGained(W, R, x, kes, n)
<1>1. Gains(T, R, x, Fill(kes, V))
  BY GainsBetween
<1>2. Gains(W, R, x, Fill(kes, V))
  BY <1>1, GainsStill
<1>3. QED
  BY <1>2 DEF DocGained

LEMMA HttpRan ==
  ASSUME MergesOnce, NEW n \in Nat, NEW r, JsonRun(r, n), OwnDocs(r.S), NEW b, Asking(b),
         NEW w, w = HttpFields(b, r)
  PROVE  JsonRun(w, n) /\ (~Bad(w.v) => ~Bad(r.v) /\ FieldsDone(w.S, r.S, b, n))
<1>0. /\ \A x \in DOMAIN b.sets : Gives(b.sets[x])
      /\ Keys(b.header) /\ Keys(b.query) /\ Keys(b.body)
      /\ GiveJson(b.header) /\ GiveJson(b.query) /\ GiveJson(b.body)
  BY DEF Asking, Asks, AskGives
<1>1. PICK r1 : r1 = SetField(b.sets, "http_method", r)
  OBVIOUS
<1>2. PICK r2 : r2 = SetField(b.sets, "http_uri", r1)
  OBVIOUS
<1>3. PICK r3 : r3 = SetField(b.sets, "host_ip_port", r2)
  OBVIOUS
<1>4. PICK r4 : r4 = MergeField(b.header, "http_header", r3)
  OBVIOUS
<1>5. PICK r5 : r5 = MergeField(b.query, "http_query", r4)
  OBVIOUS
<1>6. w = MergeField(b.body, "http_body", r5)
  BY <1>1, <1>2, <1>3, <1>4, <1>5 DEF HttpFields
<1>11. JsonRun(r1, n) /\ (~Bad(r1.v) => ~Bad(r.v) /\ Touches(r1.S, r.S, "http_method"))
  BY <1>0, <1>1, FieldSetIs
<1>12. /\ JsonRun(r2, n)
       /\ ~Bad(r2.v) => /\ ~Bad(r1.v) /\ Touches(r2.S, r1.S, "http_uri")
                        /\ FieldFrom(r2.S, r1.S, "http_uri", b.sets)
  BY <1>0, <1>2, <1>11, FieldSetIs
<1>13. JsonRun(r3, n) /\ (~Bad(r3.v) => ~Bad(r2.v) /\ Touches(r3.S, r2.S, "host_ip_port"))
  BY <1>0, <1>3, <1>12, FieldSetIs
<1>7. CASE Bad(r3.v)
  <2>1. Bad(r4.v) /\ Bad(r5.v) /\ Bad(w.v) /\ r4 = r3 /\ r5 = r3 /\ w = r3
    BY <1>4, <1>5, <1>6, <1>7 DEF MergeField, MergedWith, With
  <2>2. QED
    BY <1>13, <2>1
<1>8. CASE ~Bad(r3.v)
  <2>0. /\ ~Bad(r.v) /\ Touches(r1.S, r.S, "http_method") /\ Touches(r2.S, r1.S, "http_uri")
        /\ Touches(r3.S, r2.S, "host_ip_port") /\ FieldFrom(r2.S, r1.S, "http_uri", b.sets)
    BY <1>8, <1>11, <1>12, <1>13
  <2>1. FieldsOnly(r1.S, r.S) /\ FieldsOnly(r2.S, r1.S) /\ FieldsOnly(r3.S, r2.S)
    BY <2>0, TouchesField DEF FieldNames
  <2>2. FieldsOnly(r3.S, r.S)
    BY <2>1, FieldsOn
  <2>3. SameBelow(r3.S, r.S)
    BY <2>2 DEF FieldsOnly
  <2>4. OwnOnly(r3.S, "http_header") /\ OwnOnly(r3.S, "http_query") /\ OwnOnly(r3.S, "http_body")
    BY <2>3, OwnStays DEF OwnDocs, Docs
  <2>5. /\ JsonRun(r4, n)
        /\ ~Bad(r4.v) => /\ Touches(r4.S, r3.S, "http_header") /\ Json(Fill(b.header, r3.S))
                         /\ Gains(r4.S, r3.S, "http_header", Fill(b.header, r3.S))
    BY <1>0, <1>4, <1>13, <2>4, FieldMergedIs
  <2>6. CASE Bad(r4.v)
    <3>1. r5 = r4 /\ w = r4
      BY <1>5, <1>6, <2>6 DEF MergeField, MergedWith, With
    <3>2. QED
      BY <2>5, <2>6, <3>1
  <2>7. CASE ~Bad(r4.v)
    <3>1. Touches(r4.S, r3.S, "http_header") /\ SameBelow(r4.S, r3.S)
      BY <2>5, <2>7 DEF Touches
    <3>2. OwnOnly(r4.S, "http_query") /\ OwnOnly(r4.S, "http_body")
      BY <2>4, <3>1, OwnStays
    <3>3. /\ JsonRun(r5, n)
          /\ ~Bad(r5.v) => /\ Touches(r5.S, r4.S, "http_query") /\ Json(Fill(b.query, r4.S))
                           /\ Gains(r5.S, r4.S, "http_query", Fill(b.query, r4.S))
      BY <1>0, <1>5, <2>5, <3>2, FieldMergedIs
    <3>4. CASE Bad(r5.v)
      <4>1. w = r5
        BY <1>6, <3>4 DEF MergeField, MergedWith, With
      <4>2. QED
        BY <3>3, <3>4, <4>1
    <3>5. CASE ~Bad(r5.v)
      <4>1. Touches(r5.S, r4.S, "http_query") /\ SameBelow(r5.S, r4.S)
        BY <3>3, <3>5 DEF Touches
      <4>2. OwnOnly(r5.S, "http_body")
        BY <3>2, <4>1, OwnStays
      <4>3. /\ JsonRun(w, n)
            /\ ~Bad(w.v) => /\ Touches(w.S, r5.S, "http_body") /\ Json(Fill(b.body, r5.S))
                            /\ Gains(w.S, r5.S, "http_body", Fill(b.body, r5.S))
        BY <1>0, <1>6, <3>3, <4>2, FieldMergedIs
      <4> SUFFICES ASSUME ~Bad(w.v)
                   PROVE  FieldsDone(w.S, r.S, b, n)
        BY <2>0, <4>3
      <4>4. Touches(w.S, r5.S, "http_body") /\ Json(Fill(b.body, r5.S))
            /\ Gains(w.S, r5.S, "http_body", Fill(b.body, r5.S))
        BY <4>3
      <4>5. FieldsOnly(r4.S, r3.S) /\ FieldsOnly(r5.S, r4.S) /\ FieldsOnly(w.S, r5.S)
        BY <3>1, <4>1, <4>4, TouchesField DEF FieldNames
      <4>6. FieldsOnly(r4.S, r.S)
        BY <2>2, <4>5, FieldsOn
      <4>7. FieldsOnly(r5.S, r.S)
        BY <4>5, <4>6, FieldsOn
      <4>8. FieldsOnly(w.S, r.S)
        BY <4>5, <4>7, FieldsOn
      <4>9. JsonScopes(r3.S, n) /\ JsonScopes(r4.S, n) /\ JsonScopes(r5.S, n)
        BY <1>13, <2>5, <3>3 DEF JsonRun
      <4>10. ASSUME NEW x, x \notin {"http_method", "http_uri", "host_ip_port"}
             PROVE  SameAt(r3.S, r.S, x)
        <5>1. SameAt(r1.S, r.S, x) /\ SameAt(r2.S, r1.S, x) /\ SameAt(r3.S, r2.S, x)
          BY <2>0, <4>10 DEF Touches
        <5>2. QED
          BY <5>1, SameOn
      <4>11. ASSUME NEW x, x # "http_query", x # "http_body"
             PROVE  SameAt(w.S, r4.S, x)
        <5>1. SameAt(r5.S, r4.S, x) /\ SameAt(w.S, r5.S, x)
          BY <4>1, <4>4, <4>11 DEF Touches
        <5>2. QED
          BY <5>1, SameOn
      <4>12. SameAt(r4.S, r.S, "http_query") /\ SameAt(r4.S, r.S, "http_body")
        <5>1. SameAt(r4.S, r3.S, "http_query") /\ SameAt(r4.S, r3.S, "http_body")
          BY <3>1 DEF Touches
        <5>2. QED
          BY <4>10, <5>1, SameOn
      <4>13. SameAt(r5.S, r.S, "http_body")
        <5>1. SameAt(r5.S, r4.S, "http_body")
          BY <4>1 DEF Touches
        <5>2. QED
          BY <4>12, <5>1, SameOn
      <4>14. DocGained(w.S, r.S, "http_header", b.header, n)
        <5>1. SameAt(r3.S, r.S, "http_header") /\ SameAt(w.S, r4.S, "http_header")
          BY <4>10, <4>11
        <5>2. QED
          BY <2>2, <2>5, <2>7, <4>9, <5>1, DocThrough
      <4>15. DocGained(w.S, r.S, "http_query", b.query, n)
        <5>1. SameAt(w.S, r5.S, "http_query")
          BY <4>4 DEF Touches
        <5>2. QED
          BY <3>3, <3>5, <4>6, <4>9, <4>12, <5>1, DocThrough
      <4>16. DocGained(w.S, r.S, "http_body", b.body, n)
        <5>1. SameAt(w.S, w.S, "http_body")
          BY DEF SameAt
        <5>2. QED
          BY <4>4, <4>7, <4>9, <4>13, <5>1, DocThrough
      <4>17. UriGained(w.S, r.S, b.sets)
        <5>1. SameAt(r1.S, r.S, "http_uri")
          BY <2>0 DEF Touches
        <5>2. SameAt(w.S, r2.S, "http_uri")
          <6>1. SameAt(r3.S, r2.S, "http_uri") /\ SameAt(r4.S, r3.S, "http_uri") /\ SameAt(w.S, r4.S, "http_uri")
            BY <2>0, <3>1, <4>11 DEF Touches
          <6>2. QED
            BY <6>1, SameOn
        <5>3. CASE "http_uri" \in DOMAIN r.S[1] \/ "http_uri" \notin DOMAIN b.sets
          <6>1. SameAt(r2.S, r1.S, "http_uri")
            BY <2>0, <5>1, <5>3 DEF FieldFrom, SameAt
          <6>2. SameAt(w.S, r.S, "http_uri")
            BY <5>1, <5>2, <6>1, SameOn
          <6>3. QED
            BY <2>1, <5>3, <6>2 DEF UriGained
        <5>4. CASE ~("http_uri" \in DOMAIN r.S[1] \/ "http_uri" \notin DOMAIN b.sets)
          <6>1. ~("http_uri" \in DOMAIN r1.S[1] \/ "http_uri" \notin DOMAIN b.sets)
            BY <5>1, <5>4 DEF SameAt
          <6>2. "http_uri" \in DOMAIN r2.S[1] /\ r2.S[1]["http_uri"] = Evaluate(b.sets["http_uri"], r1.S)
            BY <2>0, <6>1 DEF FieldFrom
          <6>3. "http_uri" \in DOMAIN w.S[1] /\ w.S[1]["http_uri"] = Evaluate(b.sets["http_uri"], r1.S)
            BY <5>2, <6>2 DEF SameAt
          <6>4. QED
            BY <2>1, <5>4, <6>3 DEF UriGained
        <5>5. QED
          BY <5>3, <5>4
      <4>18. ASSUME NEW x \in Docs
             PROVE  DocGained(w.S, r.S, x, DocKeys(b, x), n)
        BY <4>14, <4>15, <4>16 DEF Docs, DocKeys
      <4>19. QED
        BY <4>8, <4>17, <4>18 DEF FieldsDone
    <3>6. QED
      BY <3>4, <3>5
  <2>8. QED
    BY <2>6, <2>7
<1>9. QED
  BY <1>7, <1>8

LEMMA FieldsRan ==
  ASSUME MergesOnce, NEW n \in Nat, NEW r, JsonRun(r, n), OwnDocs(r.S), NEW b, Asking(b),
         NEW kind, kind # "redis", NEW w, w = Fields(kind, b, r)
  PROVE  JsonRun(w, n) /\ (~Bad(w.v) => ~Bad(r.v) /\ FieldsDone(w.S, r.S, b, n))
<1>1. PICK h : h = HttpFields(b, r)
  OBVIOUS
<1>2. JsonRun(h, n) /\ (~Bad(h.v) => ~Bad(r.v) /\ FieldsDone(h.S, r.S, b, n))
  BY <1>1, HttpRan
<1>3. CASE kind # "dynamic"
  <2>1. w = h
    BY <1>1, <1>3 DEF Fields
  <2>2. QED
    BY <1>2, <2>1
<1>4. CASE kind = "dynamic"
  <2>0. /\ \A x \in DOMAIN b.sets : Gives(b.sets[x])
        /\ Keys(b.args) /\ GiveJson(b.args)
    BY DEF Asking, Asks, AskGives
  <2>1. PICK d : d = SetField(b.sets, "dynamic_args_node", h)
    OBVIOUS
  <2>2. PICK p : p = SetField(b.sets, "dynamic_args_path", d)
    OBVIOUS
  <2>3. w = SetArgs(b, p)
    BY <1>1, <1>4, <2>1, <2>2 DEF Fields, DynamicFields
  <2>4. JsonRun(d, n) /\ (~Bad(d.v) => ~Bad(h.v) /\ Touches(d.S, h.S, "dynamic_args_node"))
    BY <1>2, <2>0, <2>1, FieldSetIs
  <2>5. JsonRun(p, n) /\ (~Bad(p.v) => ~Bad(d.v) /\ Touches(p.S, d.S, "dynamic_args_path"))
    BY <2>0, <2>2, <2>4, FieldSetIs
  <2>6. JsonRun(w, n) /\ (~Bad(w.v) => ~Bad(p.v) /\ Touches(w.S, p.S, "dynamic_args"))
    BY <2>0, <2>3, <2>5, ArgsAre
  <2>7. ASSUME ~Bad(w.v)
        PROVE  FieldsDone(w.S, r.S, b, n)
    <3>1. FieldsDone(h.S, r.S, b, n)
      BY <1>2, <2>4, <2>5, <2>6, <2>7
    <3>2. \A y \in {"dynamic_args_node", "dynamic_args_path", "dynamic_args"} :
            y \in FieldNames /\ y \notin Docs /\ y # "http_uri"
      BY DEF FieldNames, Docs
    <3>3. FieldsDone(d.S, r.S, b, n)
      BY <2>4, <2>5, <2>6, <2>7, <3>1, <3>2, DoneStill
    <3>4. FieldsDone(p.S, r.S, b, n)
      BY <2>5, <2>6, <2>7, <3>2, <3>3, DoneStill
    <3>5. QED
      BY <2>6, <2>7, <3>2, <3>4, DoneStill
  <2>8. QED
    BY <1>2, <2>4, <2>5, <2>6, <2>7
<1>5. QED
  BY <1>3, <1>4

\* A document in the end: the block's own merged into the template's.
Joined(Q, x, template, own) ==
  IF template = Null /\ own = Null THEN x \notin DOMAIN Q[1]
  ELSE /\ x \in DOMAIN Q[1]
       /\ Q[1][x] = IF template = Null THEN own ELSE IF own = Null THEN template ELSE Merge(template, own)

TemplateKeys(b, x) == IF b.include = <<>> THEN <<>> ELSE DocKeys(b.include[1], x)
DocAsked(Q, b, x, n) ==
  \E U, V : /\ FieldsOnly(U, Q) /\ FieldsOnly(V, Q)
            /\ Json(Fill(DocKeys(b, x), U)) /\ Json(Fill(TemplateKeys(b, x), V))
            /\ Joined(Q, x, Fill(TemplateKeys(b, x), V), Fill(DocKeys(b, x), U))
UriAsked(Q, b) ==
  "http_uri" \in DOMAIN Q[1] =>
    \E d \in {b} \cup ToSet(b.include) : \E U :
      /\ FieldsOnly(U, Q) /\ "http_uri" \in DOMAIN d.sets
      /\ Q[1]["http_uri"] = Evaluate(d.sets["http_uri"], U)

\* The scopes at the end of a request.
Requested(Q, b, n) ==
  /\ JsonScopes(Q, n) /\ UriAsked(Q, b)
  /\ \A x \in Docs : DocAsked(Q, b, x, n)
  /\ \A x \in Docs \cup {"http_uri"} : OwnOnly(Q, x)

\* Nothing there yet.
Unasked(R) ==
  \A x \in Docs \cup {"http_uri"} : OwnOnly(R, x) /\ x \notin DOMAIN R[1]

LEMMA DefinedUnasked ==
  ASSUME NEW n \in Nat, NEW r, JsonRun(r, n), Unasked(r.S), NEW b, Asking(b), NEW d, d = Defined(b.def, r)
  PROVE  JsonRun(d, n) /\ Unasked(d.S) /\ (~Bad(d.v) => ~Bad(r.v))
<1>1. DefinesNoKeyword(b.def) /\ GiveJson(b.def)
  BY DEF Asking, Asks, AskGives
<1>2. JsonRun(d, n)
  BY <1>1, JsonDefined
<1>3. Run(r)
  BY DEF JsonRun, JsonScopes, Run
<1>4. Keeps(d.S, r.S) /\ (Bad(r.v) => d = r)
  BY <1>1, <1>3, DefinedRuns
<1>5. Docs \cup {"http_uri"} \subseteq Preserved
  BY DEF Docs, Preserved, Keywords
<1>6. Unasked(d.S)
  <2> SUFFICES ASSUME NEW x \in Docs \cup {"http_uri"}
               PROVE  OwnOnly(d.S, x) /\ x \notin DOMAIN d.S[1]
    BY DEF Unasked
  <2>1. OwnOnly(r.S, x) /\ x \notin DOMAIN r.S[1] /\ x \in Preserved
    BY <1>5 DEF Unasked
  <2> HIDE DEF Preserved
  <2>2. x \notin DOMAIN d.S[1]
    BY <1>4, <2>1 DEF Keeps
  <2>3. OwnOnly(d.S, x)
    BY <1>4, <2>1 DEF Keeps, OwnOnly
  <2>4. QED
    BY <2>2, <2>3
<1>7. QED
  BY <1>2, <1>4, <1>6

LEMMA FieldsBetween ==
  ASSUME NEW R, NEW U, NEW Q, FieldsOnly(U, R), FieldsOnly(Q, R)
  PROVE  FieldsOnly(U, Q)
<1>1. FieldsOnly(R, Q)
  BY FieldsBack
<1>2. QED
  BY <1>1, FieldsOn

LEMMA NoKeysNoDocument == \A V : Fill(<<>>, V) = Null
BY DEF Fill

\* A block without a template: its own fields.
LEMMA RequestedAlone ==
  ASSUME NEW n \in Nat, NEW r, JsonRun(r, n), Unasked(r.S), NEW b, b.include = <<>>,
         NEW w, JsonRun(w, n), FieldsDone(w.S, r.S, b, n)
  PROVE  Requested(w.S, b, n)
<1>1. FieldsOnly(w.S, r.S) /\ UriGained(w.S, r.S, b.sets)
  BY DEF FieldsDone
<1>2. JsonScopes(w.S, n) /\ FieldsOnly(w.S, w.S)
  BY FieldsItself DEF JsonRun, JsonScopes
<1>3. UriAsked(w.S, b)
  <2>1. PICK U : /\ FieldsOnly(U, r.S)
                 /\ IF "http_uri" \in DOMAIN r.S[1] \/ "http_uri" \notin DOMAIN b.sets
                    THEN SameAt(w.S, r.S, "http_uri")
                    ELSE "http_uri" \in DOMAIN w.S[1] /\ w.S[1]["http_uri"] = Evaluate(b.sets["http_uri"], U)
    BY <1>1 DEF UriGained
  <2>2. FieldsOnly(U, w.S)
    BY <1>1, <2>1, FieldsBetween
  <2>3. "http_uri" \notin DOMAIN r.S[1]
    BY DEF Unasked
  <2>4. "http_uri" \in DOMAIN w.S[1] =>
          "http_uri" \in DOMAIN b.sets /\ w.S[1]["http_uri"] = Evaluate(b.sets["http_uri"], U)
    BY <2>1, <2>3 DEF SameAt
  <2>5. b \in {b} \cup ToSet(b.include)
    OBVIOUS
  <2>6. QED
    BY <2>2, <2>4, <2>5 DEF UriAsked
<1>4. ASSUME NEW x \in Docs
      PROVE  DocAsked(w.S, b, x, n)
  <2>1. PICK kes : kes = DocKeys(b, x)
    OBVIOUS
  <2>2. PICK U : FieldsOnly(U, r.S) /\ Gains(w.S, r.S, x, Fill(kes, U)) /\ Json(Fill(kes, U))
    BY <2>1 DEF FieldsDone, DocGained
  <2>3. FieldsOnly(U, w.S)
    BY <1>1, <2>2, FieldsBetween
  <2>4. TemplateKeys(b, x) = <<>> /\ Fill(TemplateKeys(b, x), w.S) = Null
    BY NoKeysNoDocument DEF TemplateKeys
  <2>5. x \notin DOMAIN r.S[1]
    BY DEF Unasked
  <2>6. Joined(w.S, x, Null, Fill(kes, U))
    BY <2>2, <2>5 DEF Joined, Gains, SameAt
  <2>7. Json(Null)
    BY JsonAtoms
  <2>8. QED
    BY <1>2, <2>1, <2>2, <2>3, <2>4, <2>6, <2>7 DEF DocAsked
<1>5. \A x \in Docs \cup {"http_uri"} : OwnOnly(w.S, x)
  BY <1>1, OwnStays DEF FieldsOnly, Unasked
<1>6. QED
  BY <1>2, <1>3, <1>4, <1>5 DEF Requested

\* A block with one: the template's fields, which its own are merged into.
LEMMA RequestedTogether ==
  ASSUME NEW n \in Nat, NEW r, JsonRun(r, n), Unasked(r.S),
         NEW b, b.include # <<>>, NEW t, t = b.include[1], t \in ToSet(b.include),
         NEW f, FieldsDone(f.S, r.S, t, n), NEW w, JsonRun(w, n), FieldsDone(w.S, f.S, b, n)
  PROVE  Requested(w.S, b, n)
<1>1. /\ FieldsOnly(f.S, r.S) /\ UriGained(f.S, r.S, t.sets)
      /\ FieldsOnly(w.S, f.S) /\ UriGained(w.S, f.S, b.sets)
  BY DEF FieldsDone
<1>2. FieldsOnly(w.S, r.S)
  BY <1>1, FieldsOn
<1>3. JsonScopes(w.S, n)
  BY DEF JsonRun
<1>4. UriAsked(w.S, b)
  <2>1. PICK U : /\ FieldsOnly(U, r.S)
                 /\ IF "http_uri" \in DOMAIN r.S[1] \/ "http_uri" \notin DOMAIN t.sets
                    THEN SameAt(f.S, r.S, "http_uri")
                    ELSE "http_uri" \in DOMAIN f.S[1] /\ f.S[1]["http_uri"] = Evaluate(t.sets["http_uri"], U)
    BY <1>1 DEF UriGained
  <2>2. PICK V : /\ FieldsOnly(V, f.S)
                 /\ IF "http_uri" \in DOMAIN f.S[1] \/ "http_uri" \notin DOMAIN b.sets
                    THEN SameAt(w.S, f.S, "http_uri")
                    ELSE "http_uri" \in DOMAIN w.S[1] /\ w.S[1]["http_uri"] = Evaluate(b.sets["http_uri"], V)
    BY <1>1 DEF UriGained
  <2>3. FieldsOnly(U, w.S) /\ FieldsOnly(V, w.S)
    BY <1>1, <1>2, <2>1, <2>2, FieldsBetween
  <2>4. "http_uri" \notin DOMAIN r.S[1]
    BY DEF Unasked
  <2>5. b \in {b} \cup ToSet(b.include) /\ t \in {b} \cup ToSet(b.include)
    OBVIOUS
  <2>6. CASE "http_uri" \in DOMAIN f.S[1]
    <3>1. "http_uri" \in DOMAIN t.sets /\ f.S[1]["http_uri"] = Evaluate(t.sets["http_uri"], U)
      BY <2>1, <2>4, <2>6 DEF SameAt
    <3>2. w.S[1]["http_uri"] = f.S[1]["http_uri"]
      BY <2>2, <2>6 DEF SameAt
    <3>3. QED
      BY <2>3, <2>5, <3>1, <3>2 DEF UriAsked
  <2>7. CASE "http_uri" \notin DOMAIN f.S[1]
    <3>1. "http_uri" \in DOMAIN w.S[1] =>
            "http_uri" \in DOMAIN b.sets /\ w.S[1]["http_uri"] = Evaluate(b.sets["http_uri"], V)
      BY <2>2, <2>7 DEF SameAt
    <3>2. QED
      BY <2>3, <2>5, <3>1 DEF UriAsked
  <2>8. QED
    BY <2>6, <2>7
<1>5. ASSUME NEW x \in Docs
      PROVE  DocAsked(w.S, b, x, n)
  <2>1. PICK own : own = DocKeys(b, x)
    OBVIOUS
  <2>2. PICK template : template = DocKeys(t, x)
    OBVIOUS
  <2>3. PICK V : FieldsOnly(V, r.S) /\ Gains(f.S, r.S, x, Fill(template, V)) /\ Json(Fill(template, V))
    BY <2>2 DEF FieldsDone, DocGained
  <2>4. PICK U : FieldsOnly(U, f.S) /\ Gains(w.S, f.S, x, Fill(own, U)) /\ Json(Fill(own, U))
    BY <2>1 DEF FieldsDone, DocGained
  <2>5. FieldsOnly(U, w.S) /\ FieldsOnly(V, w.S)
    BY <1>1, <1>2, <2>3, <2>4, FieldsBetween
  <2>6. TemplateKeys(b, x) = template
    BY <2>2 DEF TemplateKeys
  <2>7. x \notin DOMAIN r.S[1]
    BY DEF Unasked
  <2>8. Joined(w.S, x, Fill(template, V), Fill(own, U))
    <3>1. PICK d : d = Fill(template, V)
      OBVIOUS
    <3>2. PICK e : e = Fill(own, U)
      OBVIOUS
    <3>3. Gains(f.S, r.S, x, d) /\ Gains(w.S, f.S, x, e)
      BY <2>3, <2>4, <3>1, <3>2
    <3>4. IF d = Null THEN x \notin DOMAIN f.S[1] ELSE x \in DOMAIN f.S[1] /\ f.S[1][x] = d
      BY <2>7, <3>3 DEF Gains, SameAt
    <3>5. Joined(w.S, x, d, e)
      <4>1. CASE e = Null
        <5>1. SameAt(w.S, f.S, x)
          BY <3>3, <4>1 DEF Gains
        <5>2. QED
          BY <3>4, <4>1, <5>1 DEF Joined, SameAt
      <4>2. CASE e # Null
        BY <3>3, <3>4, <4>2 DEF Gains, Joined
      <4>3. QED
        BY <4>1, <4>2
    <3>6. QED
      BY <3>1, <3>2, <3>5
  <2>9. QED
    BY <2>1, <2>3, <2>4, <2>5, <2>6, <2>8 DEF DocAsked
<1>6. \A x \in Docs \cup {"http_uri"} : OwnOnly(w.S, x)
  BY <1>2, OwnStays DEF FieldsOnly, Unasked
<1>7. QED
  BY <1>3, <1>4, <1>5, <1>6 DEF Requested

\* What follows an error keeps it.
LEMMA FieldsOfBad ==
  ASSUME NEW r, Bad(r.v), NEW b, NEW kind, kind # "redis"
  PROVE  Fields(kind, b, r) = r
<1>1. ASSUME NEW sets, NEW x
      PROVE  SetField(sets, x, r) = r
  BY DEF SetField, SetTo, With
<1>2. ASSUME NEW kes, NEW x
      PROVE  MergeField(kes, x, r) = r
  BY DEF MergeField, MergedWith, With
<1>3. SetArgs(b, r) = r
  BY DEF SetArgs, SetUnlessNull, SetTo, With
<1>4. HttpFields(b, r) = r
  BY <1>1, <1>2 DEF HttpFields
<1>5. DynamicFields(b, r) = r
  BY <1>1, <1>3, <1>4 DEF DynamicFields
<1>6. QED
  BY <1>4, <1>5 DEF Fields

\* What a block must be like, with its template.
Included(b) == ListOf(b.include, Asking) /\ Len(b.include) <= 1

LEMMA RequestIs ==
  ASSUME MergesOnce, NEW n \in Nat, NEW R, JsonScopes(R, n), \A x \in Docs \cup {"http_uri"} : Free(R, x),
         NEW b, Asking(b), Included(b), NEW kind, kind # "redis",
         NEW w, w = RunRequest(kind, b, <<<<>>>> \o R), ~Bad(w.v)
  PROVE  Requested(w.S, b, n + 1)
<1>1. PICK T : T = <<<<>>>> \o R
  OBVIOUS
<1>2. n + 1 \in Nat
  OBVIOUS
<1>3. JsonScopes(T, n + 1)
  <2>1. \A x \in DOMAIN <<>> : Json(<<>>[x])
    OBVIOUS
  <2>2. QED
    BY <1>1, <2>1, JsonOnTop
<1>4. Unasked(T)
  <2>1. Listed(R)
    BY DEF JsonScopes
  <2>2. Atop(T, <<>>, R)
    BY <1>1, <2>1, OnTop
  <2>3. T[1] = <<>> /\ \A i \in DOMAIN T : i = 1 \/ (i - 1 \in DOMAIN R /\ T[i] = R[i - 1])
    BY <2>2 DEF Atop
  <2>4. QED
    BY <2>3 DEF Unasked, OwnOnly, Free
<1>5. PICK r0 : r0 = Ok(T)
  OBVIOUS
<1>6. JsonRun(r0, n + 1) /\ r0.S = T
  BY <1>3, <1>5, JsonOk DEF Ok
<1>7. PICK r : r = Defined(b.def, r0)
  OBVIOUS
<1>8. JsonRun(r, n + 1) /\ Unasked(r.S)
  BY <1>2, <1>4, <1>6, <1>7, DefinedUnasked
<1>9. CASE b.include = <<>>
  <2>1. w = Fields(kind, b, r)
    BY <1>1, <1>5, <1>7, <1>9 DEF RunRequest
  <2>2. OwnDocs(r.S)
    BY <1>8 DEF Unasked, OwnDocs
  <2>3. JsonRun(w, n + 1) /\ FieldsDone(w.S, r.S, b, n + 1)
    BY <1>2, <1>8, <2>1, <2>2, FieldsRan
  <2>4. QED
    BY <1>2, <1>8, <1>9, <2>3, RequestedAlone
<1>10. CASE b.include # <<>>
  <2>1. PICK t : t = b.include[1]
    OBVIOUS
  <2>2. 1 \in DOMAIN b.include
    <3>1. Len(b.include) \in Nat /\ b.include = [i \in 1..Len(b.include) |-> b.include[i]]
      BY DEF Included, ListOf, Listed
    <3>2. Len(b.include) # 0
      BY <1>10, <3>1
    <3>3. QED
      BY <3>1, <3>2
  <2>3. Asking(t) /\ t \in ToSet(b.include)
    BY <2>1, <2>2 DEF Included, ListOf, ToSet
  <2>4. PICK d : d = Defined(t.def, r)
    OBVIOUS
  <2>5. JsonRun(d, n + 1) /\ Unasked(d.S)
    BY <1>2, <1>8, <2>3, <2>4, DefinedUnasked
  <2>6. PICK f : f = Fields(kind, t, d)
    OBVIOUS
  <2>7. OwnDocs(d.S)
    BY <2>5 DEF Unasked, OwnDocs
  <2>8. JsonRun(f, n + 1) /\ (~Bad(f.v) => FieldsDone(f.S, d.S, t, n + 1))
    BY <1>2, <2>3, <2>5, <2>6, <2>7, FieldsRan
  <2>9. w = Fields(kind, b, f)
    BY <1>1, <1>5, <1>7, <1>10, <2>1, <2>4, <2>6 DEF RunRequest, WithFields
  <2>10. CASE Bad(f.v)
    BY <2>9, <2>10, FieldsOfBad
  <2>11. CASE ~Bad(f.v)
    <3>1. FieldsDone(f.S, d.S, t, n + 1)
      BY <2>8, <2>11
    <3>2. OwnDocs(f.S)
      <4>1. SameBelow(f.S, d.S)
        BY <3>1 DEF FieldsDone, FieldsOnly
      <4>2. QED
        BY <2>7, <4>1, OwnStays DEF OwnDocs
    <3>3. JsonRun(w, n + 1) /\ FieldsDone(w.S, f.S, b, n + 1)
      BY <1>2, <2>8, <2>9, <3>2, FieldsRan
    <3>4. QED
      BY <1>2, <1>10, <2>1, <2>3, <2>5, <3>1, <3>3, RequestedTogether
  <2>12. QED
    BY <2>10, <2>11
<1>11. QED
  BY <1>9, <1>10

-----------------------------------------------------------------------------
(* Headers and queries: documents whose keys are names.                    *)

LEMMA NamePrefix ==
  ASSUME NEW p, NEW q, p \in Seq(STRING), q \in Seq(STRING), Len(p) = 1, Len(q) = 1
  PROVE  /\ p = <<p[1]>> /\ p[1] \in STRING
         /\ (IsPrefix(p, q) <=> p = q) /\ (p = q <=> p[1] = q[1])
<1>1. p = <<p[1]>> /\ q = <<q[1]>> /\ p[1] \in STRING
  OBVIOUS
<1>2. SubSeq(p, 1, 1) = p /\ SubSeq(q, 1, 1) = q
  BY <1>1
<1>3. IsPrefix(p, q) <=> p = q
  BY <1>2 DEF IsPrefix
<1>4. QED
  BY <1>1, <1>3

\* Expressions do not read what requests set.
Unread(e) == \A T, R : FieldsOnly(T, R) => Evaluate(e, T) = Evaluate(e, R)
AllUnread(kes) == \A i \in DOMAIN kes : Unread(kes[i].expr)

LEMMA ValuesStay ==
  ASSUME NEW kes, AllUnread(kes), NEW U, NEW Q, FieldsOnly(U, Q)
  PROVE  ValuesOf(kes, U) = ValuesOf(kes, Q)
<1>1. \A ke \in Leaves(kes) : Evaluate(ke.expr, U) = Evaluate(ke.expr, Q)
  BY DEF Leaves, Firsts, AllUnread, Unread
<1>2. QED
  BY <1>1 DEF ValuesOf

\* A document of values under names.
FlatMembers(f, values) ==
  /\ DOMAIN f = {c.key[1] : c \in values}
  /\ \A c \in values : c = [key |-> <<c.key[1]>>, v |-> c.v] /\ f[c.key[1]] = c.v
Flat(doc, values) ==
  IF values = {} THEN doc = Null ELSE Is(doc, "object") /\ FlatMembers(doc[2], values)

LEMMA NamedLeaves ==
  ASSUME NEW kes, Keys(kes), Named(kes)
  PROVE  Leaves(kes) = {kes[i] : i \in Firsts(kes)}
<1>1. ASSUME NEW j \in Firsts(kes), NEW k \in DOMAIN kes
      PROVE  kes[k].key = kes[j].key \/ ~IsPrefix(kes[j].key, kes[k].key)
  <2>1. j \in DOMAIN kes
    BY DEF Firsts
  <2>2. /\ kes[j].key \in Seq(STRING) /\ kes[k].key \in Seq(STRING)
        /\ Len(kes[j].key) = 1 /\ Len(kes[k].key) = 1
    BY <2>1, KeysFacts DEF Named
  <2>3. QED
    BY <2>2, NamePrefix
<1>2. QED
  BY <1>1 DEF Leaves

LEMMA NamedFill ==
  ASSUME NEW kes, Keys(kes), Named(kes), kes # <<>>, NEW U, NEW D, D = Fill(kes, U), ~Bad(D)
  PROVE  Is(D, "object") /\ FlatMembers(D[2], ValuesOf(kes, U)) /\ ValuesOf(kes, U) # {}
<1>1. PICK in : in = Ordered(kes)
  OBVIOUS
<1>2. PICK N : N = Len(kes)
  OBVIOUS
<1>3. N \in Nat /\ Arranged(kes, in, N) /\ N # 0
  <2>1. Len(kes) \in 1..Len(kes)
    BY LastIsLeaf
  <2>2. QED
    BY <1>1, <1>2, <2>1, KeysFacts, OrderedIs
<1>4. PICK f : Filling(in, U, f, N) /\ D = f[N]
  BY <1>1, <1>2, FillIs
<1>5. f[0] = Obj(<<>>) /\ \A m \in 1..N : f[m] = Filled(in[m], f[m - 1], U)
  BY <1>3, <1>4 DEF Filling
<1>6. ASSUME NEW m \in 1..N
      PROVE  in[m].key \in Seq(STRING) /\ Len(in[m].key) = 1 /\ in[m].key = <<in[m].key[1]>>
  <2>1. PICK i \in Firsts(kes) : in[m] = kes[i]
    BY <1>3 DEF Arranged
  <2>2. i \in DOMAIN kes
    BY DEF Firsts
  <2>3. kes[i].key \in Seq(STRING) /\ Len(kes[i].key) = 1
    BY <2>2, KeysFacts DEF Named
  <2>4. kes[i].key = <<kes[i].key[1]>>
    BY <2>3, NamePrefix
  <2>5. QED
    BY <2>1, <2>3, <2>4
<1> DEFINE V(m) == Evaluate(in[m].expr, U)
           To(m) == /\ Is(f[m], "object") /\ DOMAIN f[m][2] = {in[j].key[1] : j \in 1..m}
                    /\ \A j \in 1..m : f[m][2][in[j].key[1]] = V(j)
           T == {m \in Nat : m <= N => Bad(f[m]) \/ To(m)}
<1>7. 0 \in T
  <2>1. f[0][1] = "object" /\ DOMAIN f[0][2] = {}
    BY <1>5 DEF Obj
  <2>2. To(0)
    BY <2>1 DEF Is
  <2>3. QED
    BY <2>2
<1>8. ASSUME NEW m \in T
      PROVE  m + 1 \in T
  <2> SUFFICES ASSUME m + 1 <= N
               PROVE  Bad(f[m + 1]) \/ To(m + 1)
    OBVIOUS
  <2>1. m \in Nat /\ m + 1 \in 1..N /\ (m + 1) - 1 = m /\ m <= N
    BY <1>3
  <2>2. PICK doc : doc = f[m]
    OBVIOUS
  <2>3. PICK k : k = in[m + 1].key[1]
    OBVIOUS
  <2>4. PICK v : v = V(m + 1)
    OBVIOUS
  <2>5. in[m + 1].key = <<k>> /\ k \in STRING
    BY <1>6, <2>1, <2>3, NamePrefix
  <2>6. f[m + 1] = IF Bad(doc) THEN doc ELSE IF Bad(v) THEN v ELSE SetAt(doc, <<k>>, v)
    BY <1>5, <2>1, <2>2, <2>4, <2>5 DEF Filled
  <2>7. CASE Bad(doc) \/ Bad(v)
    BY <2>6, <2>7
  <2>8. CASE ~Bad(doc) /\ ~Bad(v)
    <3>1. To(m)
      BY <2>1, <2>2, <2>8
    <3>2. SetAt(doc, <<k>>, v) = Placed(doc, k, v)
      <4>1. PICK e \in Seq(STRING) : e = <<>>
        <5>1. in[m + 1].key \in Seq(STRING) /\ Upto(in[m + 1].key, 0) = <<>>
          BY <1>6, <2>1, UptoFacts
        <5>2. Upto(in[m + 1].key, 0) \in Seq(STRING)
          BY <5>1, UptoFacts
        <5>3. QED
          BY <5>1, <5>2
      <4>2. k \in STRING
        BY <2>5
      <4>3. SetAt(doc, Append(e, k), v) = SetAt(doc, e, Placed(GetAt(doc, e), k, v))
        BY <4>2, SetAtNext
      <4>4. Append(e, k) = <<k>>
        BY <4>1
      <4>5. QED
        BY <4>1, <4>3, <4>4, SetAtNowhere, GetAtNowhere
    <3>3. PICK g : g = [y \in DOMAIN doc[2] \cup {k} |-> IF y = k THEN v ELSE doc[2][y]]
      OBVIOUS
    <3>4. f[m + 1] = Obj(g)
      BY <2>2, <2>6, <2>8, <3>1, <3>2, <3>3 DEF Placed, Is
    <3>5. f[m + 1][1] = "object" /\ f[m + 1][2] = g
      BY <3>4 DEF Obj
    <3>6. DOMAIN g = {in[j].key[1] : j \in 1..m + 1}
      <4>1. DOMAIN doc[2] = {in[j].key[1] : j \in 1..m}
        BY <2>2, <3>1
      <4>2. \A j \in 1..m + 1 : j \in 1..m \/ j = m + 1
        BY <2>1
      <4>3. 1..m \subseteq 1..m + 1 /\ m + 1 \in 1..m + 1
        BY <2>1
      <4>4. QED
        BY <2>3, <3>3, <4>1, <4>2, <4>3
    <3>7. ASSUME NEW j \in 1..m + 1
          PROVE  g[in[j].key[1]] = V(j)
      <4>1. CASE in[j].key[1] = k
        <5>1. j \in 1..N
          <6>1. j \in Nat /\ j >= 1 /\ j <= m + 1 /\ m + 1 <= N
            BY <2>1
          <6>2. QED
            BY <1>3, <6>1
        <5>2. in[j].key = in[m + 1].key
          BY <1>6, <2>5, <4>1, <5>1
        <5>3. in[j] = in[m + 1]
          BY <1>3, <2>1, <5>1, <5>2 DEF Arranged
        <5>4. g[k] = v
          BY <3>3
        <5>5. QED
          BY <2>4, <4>1, <5>3, <5>4
      <4>2. CASE in[j].key[1] # k
        <5>1. j \in 1..m
          BY <2>1, <2>3, <4>2
        <5>2. in[j].key[1] \in DOMAIN doc[2] /\ doc[2][in[j].key[1]] = V(j)
          BY <2>2, <3>1, <5>1
        <5>3. QED
          BY <3>3, <4>2, <5>2
      <4>3. QED
        BY <4>1, <4>2
    <3>8. QED
      BY <3>5, <3>6, <3>7 DEF Is
  <2>9. QED
    BY <2>7, <2>8
<1>9. T = Nat
  <2> HIDE DEF T
  <2>1. T \in SUBSET Nat
    BY DEF T
  <2>2. QED
    BY <1>7, <1>8, <2>1, AllNaturals
<1>10. To(N)
  <2>1. N \in T /\ N <= N
    BY <1>3, <1>9
  <2>2. QED
    BY <1>4, <2>1
<1>11. ValuesOf(kes, U) = {[key |-> in[j].key, v |-> V(j)] : j \in 1..N}
  <2>1. Leaves(kes) = {kes[i] : i \in Firsts(kes)}
    BY NamedLeaves
  <2>2. Leaves(kes) = {in[j] : j \in 1..N}
    <3>1. /\ \A j \in 1..N : \E i \in Firsts(kes) : in[j] = kes[i]
          /\ \A i \in Firsts(kes) : \E j \in 1..N : in[j] = kes[i]
      BY <1>3 DEF Arranged
    <3>2. QED
      BY <2>1, <3>1
  <2>3. QED
    BY <2>2 DEF ValuesOf
<1>12. Is(D, "object") /\ DOMAIN D[2] = {in[j].key[1] : j \in 1..N}
       /\ \A j \in 1..N : D[2][in[j].key[1]] = V(j)
  BY <1>4, <1>10
<1> HIDE DEF V
<1>13. DOMAIN D[2] = {c.key[1] : c \in ValuesOf(kes, U)}
  <2>1. \A j \in 1..N : \E c \in ValuesOf(kes, U) : c.key[1] = in[j].key[1]
    <3> SUFFICES ASSUME NEW j \in 1..N
                 PROVE  \E c \in ValuesOf(kes, U) : c.key[1] = in[j].key[1]
      OBVIOUS
    <3>1. PICK c : c = [key |-> in[j].key, v |-> V(j)]
      OBVIOUS
    <3>2. c \in ValuesOf(kes, U) /\ c.key = in[j].key
      BY <1>11, <3>1
    <3>3. QED
      BY <3>2
  <2>2. \A c \in ValuesOf(kes, U) : \E j \in 1..N : c.key[1] = in[j].key[1]
    BY <1>11
  <2>3. QED
    BY <1>12, <2>1, <2>2
<1>14. ASSUME NEW c \in ValuesOf(kes, U)
       PROVE  c = [key |-> <<c.key[1]>>, v |-> c.v] /\ D[2][c.key[1]] = c.v
  <2>1. PICK j \in 1..N : c = [key |-> in[j].key, v |-> V(j)]
    BY <1>11
  <2>2. QED
    BY <1>6, <1>12, <2>1
<1>15. ValuesOf(kes, U) # {}
  <2>1. 1 \in 1..N
    BY <1>3
  <2>2. QED
    BY <1>11, <2>1
<1>16. QED
  BY <1>12, <1>13, <1>14, <1>15 DEF FlatMembers

LEMMA NothingToFill ==
  ASSUME NEW Q
  PROVE  Leaves(<<>>) = {} /\ ValuesOf(<<>>, Q) = {}
<1>1. Leaves(<<>>) = {}
  BY DEF Leaves, Firsts
<1>2. QED
  BY <1>1 DEF ValuesOf

LEMMA FlatFill ==
  ASSUME NEW kes, Keys(kes), Named(kes), AllUnread(kes), NEW U, NEW Q, FieldsOnly(U, Q),
         NEW doc, doc = Fill(kes, U), Json(doc)
  PROVE  Flat(doc, ValuesOf(kes, Q))
<1>1. CASE kes = <<>>
  BY <1>1, NothingToFill, NoKeysNoDocument DEF Flat
<1>2. CASE kes # <<>>
  <2>1. ~Bad(doc)
    BY JsonHas
  <2>2. Is(doc, "object") /\ FlatMembers(doc[2], ValuesOf(kes, U)) /\ ValuesOf(kes, U) # {}
    BY <1>2, <2>1, NamedFill
  <2>3. ValuesOf(kes, U) = ValuesOf(kes, Q)
    BY ValuesStay
  <2>4. QED
    BY <2>2, <2>3 DEF Flat
<1>3. QED
  BY <1>1, <1>2

\* What a document field looks like to the message.
Seen(template, own) ==
  IF template = Null /\ own = Null THEN Absent
  ELSE IF template = Null THEN own ELSE IF own = Null THEN template ELSE Merge(template, own)

LEMMA JoinedSeen ==
  ASSUME NEW Q, Listed(Q), 1 \in DOMAIN Q, NEW x, OwnOnly(Q, x), NEW t, NEW o, Joined(Q, x, t, o)
  PROVE  Lookup(Q, x) = Seen(t, o)
BY LookupOwn DEF Joined, Seen

LEMMA AtomsAreNoObjects ==
  ASSUME NEW v, Atom(v)
  PROVE  ~Is(v, "object")
BY DEF Atom, Is, Null, Bool, Num, Str

LEMMA NamesAside ==
  ASSUME NEW j, NEW k
  PROVE  IsPrefix(<<j>>, <<k>>) <=> j = k
<1>1. \A p \in {<<j>>, <<k>>} : Len(p) = 1 /\ SubSeq(p, 1, 1) = p
  <2> SUFFICES ASSUME NEW x \in {j, k}, NEW p, p = <<x>>
               PROVE  Len(p) = 1 /\ SubSeq(p, 1, 1) = p
    OBVIOUS
  <2>1. p \in Seq({j, k}) /\ Len(p) = 1
    OBVIOUS
  <2>2. Upto(p, Len(p)) = p
    BY <2>1, UptoFacts
  <2>3. QED
    BY <2>1, <2>2 DEF Upto
<1>2. <<j>> = <<k>> <=> j = k
  OBVIOUS
<1>3. QED
  BY <1>1, <1>2 DEF IsPrefix

LEMMA FlatJoined ==
  ASSUME MergesOnce, NEW t, NEW o, NEW VT, NEW VO, Flat(t, VT), Flat(o, VO), Texts(VT), Texts(VO),
         NEW h, h = Seen(t, o), NEW C, C = Both(VO, VT)
  PROVE  IF C = {} THEN h = Absent ELSE Is(h, "object") /\ FlatMembers(h[2], C)
<1>0. \A f : Obj(f) # Null
  BY DEF Obj, Null
<1>1. \A v : Is(v, "object") => v # Null
  BY DEF Is, Null
<1>2. CASE VO = {}
  <2>1. C = VT
    BY <1>2 DEF Both, Aside
  <2>2. o = Null
    BY <1>2 DEF Flat
  <2>3. CASE VT = {}
    BY <2>1, <2>2, <2>3 DEF Flat, Seen
  <2>4. CASE VT # {}
    BY <1>1, <2>1, <2>2, <2>4 DEF Flat, Seen
  <2>5. QED
    BY <2>3, <2>4
<1>3. CASE VO # {} /\ VT = {}
  <2>1. C = VO
    BY <1>3 DEF Both
  <2>2. t = Null /\ Is(o, "object") /\ FlatMembers(o[2], VO)
    BY <1>3 DEF Flat
  <2>3. h = o
    BY <1>1, <2>2 DEF Seen
  <2>4. QED
    BY <1>3, <2>1, <2>2, <2>3
<1>4. CASE VO # {} /\ VT # {}
  <2>1. Is(o, "object") /\ FlatMembers(o[2], VO) /\ Is(t, "object") /\ FlatMembers(t[2], VT)
    BY <1>4 DEF Flat
  <2>2. h = MergedOnce(t, o)
    BY <1>1, <2>1 DEF Seen, MergesOnce
  <2>3. PICK f : f = t[2]
    OBVIOUS
  <2>4. PICK g : g = o[2]
    OBVIOUS
  <2>5. \A k \in DOMAIN g : ~Is(g[k], "object")
    <3>1. \A k \in DOMAIN g : \E c \in VO : k = c.key[1]
      BY <2>1, <2>4 DEF FlatMembers
    <3>2. \A c \in VO : g[c.key[1]] = c.v /\ Atom(c.v)
      BY <2>1, <2>4 DEF FlatMembers, Texts
    <3>3. QED
      BY <3>1, <3>2, AtomsAreNoObjects
  <2>6. PICK m : m = [k \in DOMAIN f \cup DOMAIN g |-> IF k \notin DOMAIN g THEN f[k] ELSE g[k]]
    OBVIOUS
  <2>7. h = Obj(m)
    <3>1. PICK e : e = [k \in DOMAIN f \cup DOMAIN g |->
              IF k \notin DOMAIN f THEN g[k]
              ELSE IF k \notin DOMAIN g THEN f[k]
                   ELSE IF Is(f[k], "object") /\ Is(g[k], "object")
                   THEN Merge(f[k], g[k])
              ELSE g[k]]
      OBVIOUS
    <3>2. h = Obj(e)
      BY <2>1, <2>2, <2>3, <2>4, <3>1 DEF MergedOnce
    <3>3. e = m
      BY <2>5, <2>6, <3>1
    <3>4. QED
      BY <3>2, <3>3
  <2>8. Is(h, "object") /\ h[2] = m
    BY <2>7 DEF Is, Obj
  <2>9. ASSUME NEW c \in VT
        PROVE  Aside(c, VO) <=> c.key[1] \notin DOMAIN g
    <3>1. c.key = <<c.key[1]>> /\ \A x \in VO : x.key = <<x.key[1]>>
      <4>1. \A x \in VT \cup VO : x = [key |-> <<x.key[1]>>, v |-> x.v]
        BY <2>1 DEF FlatMembers
      <4>2. \A x \in VT \cup VO : x.key = <<x.key[1]>>
        BY <4>1
      <4>3. QED
        BY <4>2
    <3>2. PICK j : j = c.key[1]
      OBVIOUS
    <3>3. \A x \in VO : (~IsPrefix(x.key, c.key) /\ ~IsPrefix(c.key, x.key)) <=> x.key[1] # j
      <4> SUFFICES ASSUME NEW x \in VO
                   PROVE  (~IsPrefix(x.key, c.key) /\ ~IsPrefix(c.key, x.key)) <=> x.key[1] # j
        OBVIOUS
      <4>1. PICK k : k = x.key[1]
        OBVIOUS
      <4>2. c.key = <<j>> /\ x.key = <<k>>
        BY <3>1, <3>2, <4>1
      <4>3. (IsPrefix(<<k>>, <<j>>) <=> k = j) /\ (IsPrefix(<<j>>, <<k>>) <=> j = k)
        BY NamesAside
      <4>4. QED
        BY <4>1, <4>2, <4>3
    <3>4. j \in DOMAIN g <=> \E x \in VO : x.key[1] = j
      BY <2>1, <2>4 DEF FlatMembers
    <3>5. QED
      BY <3>2, <3>3, <3>4 DEF Aside
  <2>10. VO \subseteq C /\ C # {}
    BY <1>4 DEF Both
  <2>11. \A c \in C : c \in VO \/ (c \in VT /\ c.key[1] \notin DOMAIN g)
    BY <2>9 DEF Both
  <2>12. \A c \in VT : c.key[1] \notin DOMAIN g => c \in C
    BY <2>9 DEF Both
  <2>13. FlatMembers(m, C)
    <3>1. DOMAIN m = {c.key[1] : c \in C}
      <4>1. \A k \in DOMAIN m : \E c \in C : k = c.key[1]
        <5> SUFFICES ASSUME NEW k \in DOMAIN m
                     PROVE  \E c \in C : k = c.key[1]
          OBVIOUS
        <5>1. CASE k \in DOMAIN g
          <6>1. \E c \in VO : k = c.key[1]
            BY <2>1, <2>4, <5>1 DEF FlatMembers
          <6>2. QED
            BY <2>10, <6>1
        <5>2. CASE k \notin DOMAIN g
          <6>1. k \in DOMAIN f
            BY <2>6, <5>2
          <6>2. \E c \in VT : k = c.key[1]
            BY <2>1, <2>3, <6>1 DEF FlatMembers
          <6>3. QED
            BY <2>12, <5>2, <6>2
        <5>3. QED
          BY <5>1, <5>2
      <4>2. \A c \in C : c.key[1] \in DOMAIN m
        <5>1. \A c \in VO : c.key[1] \in DOMAIN g
          BY <2>1, <2>4 DEF FlatMembers
        <5>2. \A c \in VT : c.key[1] \in DOMAIN f
          BY <2>1, <2>3 DEF FlatMembers
        <5>3. QED
          BY <2>6, <2>11, <5>1, <5>2
      <4>3. QED
        BY <4>1, <4>2
    <3>2. ASSUME NEW c \in C
          PROVE  c = [key |-> <<c.key[1]>>, v |-> c.v] /\ m[c.key[1]] = c.v
      <4>1. CASE c \in VO
        <5>1. c.key[1] \in DOMAIN g /\ g[c.key[1]] = c.v /\ c = [key |-> <<c.key[1]>>, v |-> c.v]
          BY <2>1, <2>4, <4>1 DEF FlatMembers
        <5>2. QED
          BY <2>6, <5>1
      <4>2. CASE c \in VT /\ c.key[1] \notin DOMAIN g
        <5>1. c.key[1] \in DOMAIN f /\ f[c.key[1]] = c.v /\ c = [key |-> <<c.key[1]>>, v |-> c.v]
          BY <2>1, <2>3, <4>2 DEF FlatMembers
        <5>2. QED
          BY <2>6, <4>2, <5>1
      <4>3. QED
        BY <2>11, <4>1, <4>2
    <3>3. QED
      BY <3>1, <3>2 DEF FlatMembers
  <2>14. QED
    BY <2>8, <2>10, <2>13
<1>5. QED
  BY <1>2, <1>3, <1>4

\* As the message has it.
AsksJson(values) == [key |-> <<"Content-Type">>, v |-> Str(JsonType)] \in values

LEMMA JsonTypeIsText ==
  ASSUME NEW v, Atom(v), v # Null, Text(v) = JsonType
  PROVE  v = Str(JsonType)
<1>1. PICK w : v = Bool(w) \/ v = Num(w) \/ v = Str(w)
  BY DEF Atom
<1>2. CASE v = Bool(w)
  <2>1. Text(v) = v
    BY <1>2 DEF Text, Is, Bool
  <2>2. v[1] = "application"
    BY <2>1 DEF JsonType
  <2>3. QED
    BY <1>2, <2>2 DEF Bool
<1>3. CASE v = Num(w)
  <2>1. Text(v) = v \/ \E x : Text(v) = <<x>>
    BY <1>3 DEF Text, Is, Num
  <2>2. \A x : <<x>> # JsonType
    BY DEF JsonType
  <2>3. v[1] = "application"
    BY <2>1, <2>2 DEF JsonType
  <2>4. QED
    BY <1>3, <2>3 DEF Num
<1>4. CASE v = Str(w)
  <2>1. Text(v) = w
    BY <1>4 DEF Text, Is, Str
  <2>2. QED
    BY <1>4, <2>1
<1>5. QED
  BY <1>1, <1>2, <1>3, <1>4

LEMMA FlatText ==
  ASSUME NEW C, NEW h, IF C = {} THEN h = Absent ELSE Is(h, "object") /\ FlatMembers(h[2], C), Texts(C),
         NEW w, w = Written(h)
  PROVE  /\ AsText(w, C)
         /\ ("Content-Type" \in DOMAIN w /\ w["Content-Type"] = JsonType) <=> AsksJson(C)
<1>1. CASE C = {}
  <2>1. w = <<>> /\ DOMAIN w = {}
    BY <1>1 DEF Written
  <2>2. QED
    BY <1>1, <2>1 DEF AsText, AsksJson
<1>2. CASE C # {}
  <2>1. Is(h, "object") /\ h # Absent
    BY <1>2 DEF Is, Absent
  <2>2. PICK f : f = h[2]
    OBVIOUS
  <2>3. w = [k \in {m \in DOMAIN f : f[m] # Null} |-> Text(f[k])]
    BY <2>1, <2>2 DEF Written
  <2>4. /\ DOMAIN f = {c.key[1] : c \in C}
        /\ \A c \in C : c = [key |-> <<c.key[1]>>, v |-> c.v] /\ f[c.key[1]] = c.v
    BY <1>2, <2>2 DEF FlatMembers
  <2>5. \A k : k \in DOMAIN w <=> \E c \in C : k = c.key[1] /\ c.v # Null
    BY <2>3, <2>4
  <2>6. \A c \in C : c.v # Null => w[c.key[1]] = Text(c.v)
    BY <2>3, <2>4
  <2>7. AsText(w, C)
    <3> DEFINE given == {c \in C : c.v # Null}
    <3>1. DOMAIN w = {c.key[1] : c \in given}
      <4>1. \A k : k \in DOMAIN w <=> \E c \in given : k = c.key[1]
        BY <2>5
      <4> HIDE DEF given
      <4>2. \A k : k \in {c.key[1] : c \in given} <=> \E c \in given : k = c.key[1]
        OBVIOUS
      <4>3. \A k : k \in DOMAIN w <=> k \in {c.key[1] : c \in given}
        BY <4>1, <4>2
      <4>4. QED
        BY <4>3
    <3>2. \A c \in given : w[c.key[1]] = Text(c.v)
      BY <2>6
    <3>3. QED
      BY <3>1, <3>2 DEF AsText
  <2>8. ASSUME "Content-Type" \in DOMAIN w, w["Content-Type"] = JsonType
        PROVE  AsksJson(C)
    <3>1. PICK c \in C : c.key[1] = "Content-Type" /\ c.v # Null
      BY <2>5, <2>8
    <3>2. Text(c.v) = JsonType /\ Atom(c.v)
      BY <2>6, <2>8, <3>1 DEF Texts
    <3>3. c.v = Str(JsonType)
      BY <3>1, <3>2, JsonTypeIsText
    <3>4. QED
      BY <2>4, <3>1, <3>3 DEF AsksJson
  <2>9. ASSUME AsksJson(C)
        PROVE  "Content-Type" \in DOMAIN w /\ w["Content-Type"] = JsonType
    <3>1. PICK c \in C : c = [key |-> <<"Content-Type">>, v |-> Str(JsonType)]
      BY <2>9 DEF AsksJson
    <3>2. c.key[1] = "Content-Type" /\ c.v = Str(JsonType)
      BY <3>1
    <3>3. Str(JsonType) # Null
      BY DEF Str, Null
    <3>4. Text(Str(JsonType)) = JsonType
      BY DEF Text, Is, Str
    <3>5. QED
      BY <2>5, <2>6, <3>2, <3>3, <3>4
  <2>10. QED
    BY <2>7, <2>8, <2>9
<1>3. QED
  BY <1>1, <1>2

-----------------------------------------------------------------------------
(* Bodies: what is merged into a document, and what that leaves.           *)

\* A value that another was merged into.
Over(m, o) == m = o \/ (Is(o, "object") /\ \E t : Is(t, "object") /\ m = Merge(t, o))

LEMMA MergedObject ==
  ASSUME MergesOnce, NEW t, Is(t, "object"), NEW o, Is(o, "object"), NEW m, m = Merge(t, o)
  PROVE  /\ Is(m, "object") /\ DOMAIN m[2] = DOMAIN t[2] \cup DOMAIN o[2]
         /\ \A k \in DOMAIN t[2] : k \notin DOMAIN o[2] => m[2][k] = t[2][k]
         /\ \A k \in DOMAIN o[2] : Over(m[2][k], o[2][k])
         /\ \A k \in DOMAIN o[2] : k \in DOMAIN t[2] /\ Is(t[2][k], "object") /\ Is(o[2][k], "object") =>
              m[2][k] = Merge(t[2][k], o[2][k])
<1>1. PICK f : f = t[2]
  OBVIOUS
<1>2. PICK g : g = o[2]
  OBVIOUS
<1>3. PICK e : e = [k \in DOMAIN f \cup DOMAIN g |->
            IF k \notin DOMAIN f THEN g[k]
            ELSE IF k \notin DOMAIN g THEN f[k]
                 ELSE IF Is(f[k], "object") /\ Is(g[k], "object")
                 THEN Merge(f[k], g[k])
            ELSE g[k]]
  OBVIOUS
<1>4. m = Obj(e)
  BY <1>1, <1>2, <1>3 DEF MergesOnce, MergedOnce
<1>5. Is(m, "object") /\ m[2] = e
  BY <1>4 DEF Is, Obj
<1>6. DOMAIN e = DOMAIN f \cup DOMAIN g
  BY <1>3
<1>7. \A k \in DOMAIN f : k \notin DOMAIN g => e[k] = f[k]
  BY <1>3
<1>8. \A k \in DOMAIN g : \/ e[k] = g[k]
                          \/ Is(g[k], "object") /\ Is(f[k], "object") /\ e[k] = Merge(f[k], g[k])
  BY <1>3
<1>9. \A k \in DOMAIN g : Over(e[k], g[k])
  BY <1>8 DEF Over
<1>10. \A k \in DOMAIN g : k \in DOMAIN f /\ Is(f[k], "object") /\ Is(g[k], "object") => e[k] = Merge(f[k], g[k])
  BY <1>3
<1>11. QED
  BY <1>1, <1>2, <1>5, <1>6, <1>7, <1>9, <1>10

LEMMA OverMembers ==
  ASSUME MergesOnce, NEW m, NEW o, Over(m, o), Is(o, "object")
  PROVE  /\ Is(m, "object")
         /\ \A k \in DOMAIN o[2] : k \in DOMAIN m[2] /\ Over(m[2][k], o[2][k])
<1>1. CASE m = o
  BY <1>1 DEF Over
<1>2. CASE m # o
  <2>1. PICK t : Is(t, "object") /\ m = Merge(t, o)
    BY <1>2 DEF Over
  <2>2. QED
    BY <2>1, MergedObject
<1>3. QED
  BY <1>1, <1>2

LEMMA OverOrNone ==
  ASSUME MergesOnce, NEW m, NEW o, Over(m, o), NEW name
  PROVE  Below(o, name) = Absent \/ Over(Below(m, name), Below(o, name))
<1>1. CASE Is(o, "object")
  <2>1. Is(m, "object") /\ \A k \in DOMAIN o[2] : k \in DOMAIN m[2] /\ Over(m[2][k], o[2][k])
    BY <1>1, OverMembers
  <2>2. CASE name \in DOMAIN o[2]
    <3>1. Below(o, name) = o[2][name] /\ Below(m, name) = m[2][name]
      BY <1>1, <2>1, <2>2 DEF Below, Is
    <3>2. QED
      BY <2>1, <2>2, <3>1
  <2>3. CASE name \notin DOMAIN o[2]
    BY <1>1, <2>3 DEF Below, Is
  <2>4. QED
    BY <2>2, <2>3
<1>2. CASE ~Is(o, "object")
  BY <1>2 DEF Over
<1>3. QED
  BY <1>1, <1>2

LEMMA NothingBelow ==
  ASSUME NEW name
  PROVE  Below(Absent, name) = Absent
BY DEF Below, Is, Absent

LEMMA OverAlong ==
  ASSUME MergesOnce, NEW m, NEW o, Over(m, o), NEW T, NEW path \in Seq(T)
  PROVE  GetAt(o, path) = Absent \/ Over(GetAt(m, path), GetAt(o, path))
<1>1. /\ Len(path) \in Nat /\ Upto(path, 0) = <<>> /\ Upto(path, Len(path)) = path
      /\ \A n \in 0..Len(path) : Upto(path, n) \in Seq(T)
      /\ \A n \in 1..Len(path) : path[n] \in T /\ Upto(path, n) = Append(Upto(path, n - 1), path[n])
  BY UptoFacts
<1> DEFINE To(n) == \/ GetAt(o, Upto(path, n)) = Absent
                    \/ Over(GetAt(m, Upto(path, n)), GetAt(o, Upto(path, n)))
           U == {n \in Nat : n <= Len(path) => To(n)}
<1>2. 0 \in U
  <2>1. To(0)
    BY <1>1, GetAtNowhere
  <2>2. QED
    BY <2>1
<1>3. ASSUME NEW n \in U
      PROVE  n + 1 \in U
  <2> SUFFICES ASSUME n + 1 <= Len(path)
               PROVE  To(n + 1)
    OBVIOUS
  <2>1. n \in Nat /\ n + 1 \in 1..Len(path) /\ (n + 1) - 1 = n /\ n <= Len(path) /\ n \in 0..Len(path)
    BY <1>1
  <2>2. PICK p : p = Upto(path, n)
    OBVIOUS
  <2>3. PICK name : name = path[n + 1]
    OBVIOUS
  <2>4. p \in Seq(T) /\ name \in T /\ Upto(path, n + 1) = Append(p, name)
    BY <1>1, <2>1, <2>2, <2>3
  <2>5. GetAt(o, Append(p, name)) = Below(GetAt(o, p), name) /\ GetAt(m, Append(p, name)) = Below(GetAt(m, p), name)
    BY <2>4, GetAtNext
  <2>6. GetAt(o, p) = Absent \/ Over(GetAt(m, p), GetAt(o, p))
    BY <2>1, <2>2
  <2>7. Below(GetAt(o, p), name) = Absent \/ Over(Below(GetAt(m, p), name), Below(GetAt(o, p), name))
    BY <2>6, NothingBelow, OverOrNone
  <2>8. QED
    BY <2>4, <2>5, <2>7
<1>4. U = Nat
  <2> HIDE DEF U
  <2>1. U \in SUBSET Nat
    BY DEF U
  <2>2. QED
    BY <1>2, <1>3, <2>1, AllNaturals
<1>5. To(Len(path))
  <2> HIDE DEF To
  <2>1. Len(path) \in U
    BY <1>1, <1>4
  <2>2. QED
    BY <1>1, <2>1
<1>6. To(Len(path))
  BY <1>5
<1>7. QED
  BY <1>1, <1>6

LEMMA OverIncludes ==
  ASSUME MergesOnce, NEW m, NEW v, Over(m, v)
  PROVE  Includes(m, v)
<1> DEFINE Path(p) == \E T : p \in Seq(T)
           Found(p) == Path(p) /\ Over(GetAt(m, p), GetAt(v, p))
<1>1. ASSUME NEW p, Found(p), Is(GetAt(v, p), "object"), NEW k \in DOMAIN GetAt(v, p)[2]
      PROVE  Found(Append(p, k))
  <2>1. PICK T : p \in Seq(T)
    BY <1>1
  <2> DEFINE U == T \cup {k}
  <2>2. p \in Seq(U) /\ k \in U
    <3>1. T \in SUBSET U /\ k \in U
      OBVIOUS
    <3> HIDE DEF U
    <3>2. QED
      BY <2>1, <3>1
  <2> HIDE DEF U
  <2>3. /\ GetAt(v, Append(p, k)) = Below(GetAt(v, p), k)
        /\ GetAt(m, Append(p, k)) = Below(GetAt(m, p), k)
    BY <2>2, GetAtNext
  <2>4. Append(p, k) \in Seq(U)
    BY <2>2
  <2>5. PICK a : a = GetAt(m, p)
    OBVIOUS
  <2>6. PICK o : o = GetAt(v, p)
    OBVIOUS
  <2>7. Over(a, o) /\ Is(o, "object") /\ k \in DOMAIN o[2]
    BY <1>1, <2>5, <2>6
  <2>8. Is(a, "object") /\ k \in DOMAIN a[2] /\ Over(a[2][k], o[2][k])
    BY <2>7, OverMembers
  <2>9. Below(a, k) = a[2][k] /\ Below(o, k) = o[2][k]
    BY <2>7, <2>8 DEF Below, Is
  <2>10. Over(GetAt(m, Append(p, k)), GetAt(v, Append(p, k)))
    BY <2>3, <2>5, <2>6, <2>8, <2>9
  <2>11. QED
    BY <2>4, <2>10
<1>2. Found(<<>>)
  <2>1. <<>> \in Seq({})
    OBVIOUS
  <2>2. QED
    BY <2>1, GetAtNowhere
<1> HIDE DEF Found
<1>3. ASSUME NEW N \in Nat, NEW p \in MemberPaths(v, N)
      PROVE  Found(p)
  <2>1. PICK f : Deepening(v, f, N) /\ MemberPaths(v, N) = f[N]
    BY MemberPathsAre
  <2> DEFINE T == {n \in Nat : n <= N => \A q \in f[n] : Found(q)}
  <2>2. f[0] = {<<>>} /\ \A n \in 1..N : f[n] = UNION {Next2(v, q) : q \in f[n - 1]}
    BY <2>1 DEF Deepening, Deeper
  <2>3. 0 \in T
    BY <1>2, <2>2
  <2>4. ASSUME NEW n \in T
        PROVE  n + 1 \in T
    <3> SUFFICES ASSUME n + 1 <= N, NEW q \in f[n + 1]
                 PROVE  Found(q)
      OBVIOUS
    <3>1. n + 1 \in 1..N /\ (n + 1) - 1 = n /\ n <= N
      OBVIOUS
    <3>2. \A u \in f[n] : Found(u)
      BY <3>1
    <3>3. PICK u \in f[n] : q \in Next2(v, u)
      BY <2>2, <3>1
    <3>4. PICK w : w = GetAt(v, u)
      OBVIOUS
    <3>5. Is(w, "object") /\ \E k \in DOMAIN w[2] : q = Append(u, k)
      BY <3>3, <3>4 DEF Next2
    <3>6. QED
      BY <1>1, <3>2, <3>4, <3>5
  <2>5. T = Nat
    <3> HIDE DEF T
    <3>1. T \in SUBSET Nat
      BY DEF T
    <3>2. QED
      BY <2>3, <2>4, <3>1, AllNaturals
  <2>6. N \in T /\ N <= N
    BY <2>5
  <2>7. QED
    BY <2>1, <2>6
<1>4. ASSUME NEW p, Found(p)
      PROVE  Agree(GetAt(m, p), GetAt(v, p))
  <2>1. PICK a : a = GetAt(m, p)
    OBVIOUS
  <2>2. PICK o : o = GetAt(v, p)
    OBVIOUS
  <2>3. Over(a, o)
    BY <1>4, <2>1, <2>2 DEF Found
  <2>4. Agree(a, o)
    BY <2>3, OverMembers DEF Agree, Over
  <2>5. QED
    BY <2>1, <2>2, <2>4
<1>5. QED
  BY <1>3, <1>4, DepthAssumption DEF Includes

\* What a key leaves alone, up to where the other parts from it.
Alone(doc, c) ==
  \A j \in 0..Len(c) :
    \/ GetAt(doc, Upto(c, j)) = Absent
    \/ /\ Is(GetAt(doc, Upto(c, j)), "object") /\ j < Len(c)
       /\ j = 0 \/ Index(c[j + 1]) = -1

LEMMA PlacedByName ==
  ASSUME NEW a, a = Absent \/ Is(a, "object"), NEW name, Index(name) = -1, NEW y, NEW w, w = Placed(a, name, y)
  PROVE  /\ Is(w, "object")
         /\ \A other : other # name => Below(w, other) = Below(a, other)
<1>1. PICK members : members = IF Is(a, "object") THEN a[2] ELSE <<>>
  OBVIOUS
<1>2. PICK g : g = [k \in DOMAIN members \cup {name} |-> IF k = name THEN y ELSE members[k]]
  OBVIOUS
<1>3. w = Obj(g)
  BY <1>1, <1>2 DEF Placed
<1>4. Is(w, "object") /\ w[2] = g
  BY <1>3 DEF Is, Obj
<1>5. ASSUME NEW other, other # name
      PROVE  Below(w, other) = Below(a, other)
  <2>1. other \in DOMAIN g <=> other \in DOMAIN members
    BY <1>2, <1>5
  <2>2. other \in DOMAIN members => g[other] = members[other]
    BY <1>2, <1>5
  <2>3. Below(w, other) = IF other \in DOMAIN members THEN members[other] ELSE Absent
    <3>1. CASE other \in DOMAIN members
      BY <1>4, <2>1, <2>2, <3>1 DEF Below, Is
    <3>2. CASE other \notin DOMAIN members
      BY <1>4, <2>1, <3>2 DEF Below, Is
    <3>3. QED
      BY <3>1, <3>2
  <2>4. CASE Is(a, "object")
    <3>1. members = a[2]
      BY <1>1, <2>4
    <3>2. CASE other \in DOMAIN members
      BY <2>3, <2>4, <3>1, <3>2 DEF Below, Is
    <3>3. CASE other \notin DOMAIN members
      BY <2>3, <2>4, <3>1, <3>3 DEF Below, Is
    <3>4. QED
      BY <3>2, <3>3
  <2>5. CASE ~Is(a, "object")
    <3>1. a = Absent /\ members = <<>>
      BY <1>1, <2>5
    <3>2. other \notin DOMAIN members
      BY <3>1
    <3>3. QED
      BY <2>3, <3>1, <3>2, NothingBelow
  <2>6. QED
    BY <2>4, <2>5
<1>6. QED
  BY <1>4, <1>5

LEMMA AloneAgain ==
  ASSUME NEW c \in Seq(STRING), NEW p \in Seq(STRING), NEW k, Part(p, c, k),
         \A j \in 1..k : Index(p[j]) = -1 /\ Index(c[j]) = -1,
         NEW doc, Alone(doc, c), NEW x, NEW new, new = SetAt(doc, p, x)
  PROVE  Alone(new, c)
<1>0. /\ Len(c) \in Nat /\ Len(p) \in Nat /\ k \in 1..Len(p) /\ k \in 1..Len(c) /\ k \in Nat
      /\ p[k] # c[k] /\ \A j \in 1..k - 1 : p[j] = c[j]
  BY DEF Part
<1>1. /\ \A n \in 0..Len(c) : Upto(c, n) \in Seq(STRING)
      /\ \A n \in 1..Len(c) : c[n] \in STRING /\ Upto(c, n) = Append(Upto(c, n - 1), c[n])
  BY UptoFacts
<1>2. \A m \in 0..k - 1 : Upto(p, m) = Upto(c, m)
  <2> SUFFICES ASSUME NEW m \in 0..k - 1
               PROVE  Upto(p, m) = Upto(c, m)
    OBVIOUS
  <2>1. m \in 0..Len(p) /\ m \in 0..Len(c)
    BY <1>0
  <2>2. \A j \in 1..m : p[j] = c[j]
    BY <1>0
  <2>3. QED
    BY <2>1, <2>2 DEF Upto
<1> DEFINE at0(j) == GetAt(doc, Upto(c, j))
           at1(j) == GetAt(new, Upto(c, j))
<1>3. ASSUME NEW j \in 0..k - 1
      PROVE  \E y : at1(j) = Placed(at0(j), p[j + 1], y)
  <2>1. j + 1 \in 1..Len(p) /\ (j + 1) - 1 = j
    BY <1>0
  <2>2. \E y : GetAt(SetAt(doc, p, x), Upto(p, (j + 1) - 1)) = Placed(GetAt(doc, Upto(p, (j + 1) - 1)), p[j + 1], y)
    BY <2>1, SetAtThrough
  <2>3. Upto(p, j) = Upto(c, j)
    BY <1>2
  <2>4. QED
    BY <2>1, <2>2, <2>3
<1>4. ASSUME NEW j \in 0..k - 1
      PROVE  /\ at0(j) = Absent \/ Is(at0(j), "object")
             /\ Is(at1(j), "object")
             /\ \A other : other # p[j + 1] => Below(at1(j), other) = Below(at0(j), other)
  <2>1. j \in 0..Len(c) /\ j + 1 \in 1..k
    BY <1>0
  <2>2. at0(j) = Absent \/ Is(at0(j), "object")
    BY <2>1 DEF Alone
  <2>3. PICK a : a = at0(j)
    OBVIOUS
  <2>4. PICK w : w = at1(j)
    OBVIOUS
  <2>5. PICK y : w = Placed(a, p[j + 1], y)
    BY <1>3, <2>3, <2>4
  <2>6. Index(p[j + 1]) = -1
    BY <2>1
  <2>7. Is(w, "object") /\ \A other : other # p[j + 1] => Below(w, other) = Below(a, other)
    BY <2>2, <2>3, <2>5, <2>6, PlacedByName
  <2>8. QED
    BY <2>2, <2>3, <2>4, <2>7
<1> DEFINE U == {n \in Nat : k + n <= Len(c) => at1(k + n) = at0(k + n)}
<1>5. ASSUME NEW n \in 1..Len(c)
      PROVE  at1(n) = Below(at1(n - 1), c[n]) /\ at0(n) = Below(at0(n - 1), c[n])
  <2>1. n - 1 \in 0..Len(c)
    BY <1>0
  <2>2. PICK q : q = Upto(c, n - 1)
    OBVIOUS
  <2>3. q \in Seq(STRING) /\ c[n] \in STRING /\ Upto(c, n) = Append(q, c[n])
    BY <1>1, <2>1, <2>2
  <2>4. QED
    BY <2>2, <2>3, GetAtNext
<1> HIDE DEF at0, at1
<1>6. 0 \in U
  <2>1. k - 1 \in 0..k - 1 /\ (k - 1) + 1 = k /\ k + 0 = k
    BY <1>0
  <2>2. Below(at1(k - 1), c[k]) = Below(at0(k - 1), c[k])
    BY <1>0, <1>4, <2>1
  <2>3. at1(k) = at0(k)
    BY <1>0, <1>5, <2>2
  <2>4. QED
    BY <2>1, <2>3
<1>7. ASSUME NEW n \in U
      PROVE  n + 1 \in U
  <2> SUFFICES ASSUME k + (n + 1) <= Len(c)
               PROVE  at1(k + (n + 1)) = at0(k + (n + 1))
    OBVIOUS
  <2>1. n \in Nat /\ k + (n + 1) \in 1..Len(c) /\ (k + (n + 1)) - 1 = k + n /\ k + n <= Len(c)
    BY <1>0
  <2>2. at1(k + n) = at0(k + n)
    BY <2>1
  <2>3. QED
    BY <1>5, <2>1, <2>2
<1>8. U = Nat
  <2> HIDE DEF U
  <2>1. U \in SUBSET Nat
    BY DEF U
  <2>2. QED
    BY <1>6, <1>7, <2>1, AllNaturals
<1>9. ASSUME NEW j \in 0..Len(c)
      PROVE  at1(j) = Absent \/ (Is(at1(j), "object") /\ j < Len(c) /\ (j = 0 \/ Index(c[j + 1]) = -1))
  <2>1. CASE j <= k - 1
    <3>1. j \in 0..k - 1 /\ j + 1 \in 1..k /\ j < Len(c)
      BY <1>0, <2>1
    <3>2. Index(c[j + 1]) = -1
      BY <3>1
    <3>3. Is(at1(j), "object")
      BY <1>4, <3>1
    <3>4. QED
      BY <3>1, <3>2, <3>3
  <2>2. CASE j >= k
    <3>1. j - k \in Nat /\ k + (j - k) = j /\ j <= Len(c)
      BY <1>0, <2>2
    <3>2. j - k \in U
      BY <1>8, <3>1
    <3>3. at1(j) = at0(j)
      BY <3>1, <3>2
    <3>4. at0(j) = Absent \/ (Is(at0(j), "object") /\ j < Len(c) /\ (j = 0 \/ Index(c[j + 1]) = -1))
      BY DEF at0, Alone
    <3>5. QED
      BY <3>3, <3>4
  <2>3. QED
    BY <1>0, <2>1, <2>2
<1>10. QED
  BY <1>9 DEF at1, Alone

LEMMA FillAlone ==
  ASSUME NEW kes, Keys(kes), kes # <<>>, \A i \in DOMAIN kes : kes[i].key # <<>>,
         NEW U, NEW doc, doc = Fill(kes, U), ~Bad(doc)
  PROVE  /\ Is(doc, "object")
         /\ \A c \in Seq(STRING) :
              c # <<>> /\ (\A i \in DOMAIN kes : Aside([key |-> c], {kes[i]}) /\ ByNames(kes[i].key, c))
              => Alone(doc, c)
<1>1. PICK in : in = Ordered(kes)
  OBVIOUS
<1>2. PICK N : N = Len(kes)
  OBVIOUS
<1>3. N \in Nat /\ Arranged(kes, in, N) /\ N # 0
  <2>1. Len(kes) \in 1..Len(kes)
    BY LastIsLeaf
  <2>2. QED
    BY <1>1, <1>2, <2>1, KeysFacts, OrderedIs
<1>4. PICK f : Filling(in, U, f, N) /\ doc = f[N]
  BY <1>1, <1>2, FillIs
<1>5. f[0] = Obj(<<>>) /\ \A m \in 1..N : f[m] = Filled(in[m], f[m - 1], U)
  BY <1>3, <1>4 DEF Filling
<1>6. ASSUME NEW m \in 1..N
      PROVE  in[m].key \in Seq(STRING) /\ in[m].key # <<>> /\ \E i \in DOMAIN kes : in[m] = kes[i]
  <2>1. PICK i \in Firsts(kes) : in[m] = kes[i]
    BY <1>3 DEF Arranged
  <2>2. i \in DOMAIN kes
    BY DEF Firsts
  <2>3. kes[i].key \in Seq(STRING)
    BY <2>2, KeysFacts
  <2>4. QED
    BY <2>1, <2>2, <2>3
<1>7. ASSUME NEW m \in 1..N, ~Bad(f[m])
      PROVE  ~Bad(f[m - 1]) /\ \E x : f[m] = SetAt(f[m - 1], in[m].key, x)
  BY <1>5, <1>7 DEF Filled
<1>8. Is(doc, "object")
  <2> DEFINE T == {m \in Nat : m <= N => Bad(f[m]) \/ Is(f[m], "object")}
  <2>1. 0 \in T
    BY <1>5 DEF Is, Obj
  <2>2. ASSUME NEW m \in T
        PROVE  m + 1 \in T
    <3> SUFFICES ASSUME m + 1 <= N, ~Bad(f[m + 1])
                 PROVE  Is(f[m + 1], "object")
      OBVIOUS
    <3>1. m \in Nat /\ m + 1 \in 1..N /\ (m + 1) - 1 = m /\ m <= N
      BY <1>3
    <3>2. PICK x : ~Bad(f[m]) /\ f[m + 1] = SetAt(f[m], in[m + 1].key, x)
      BY <1>7, <3>1
    <3>3. Is(f[m], "object")
      BY <3>1, <3>2
    <3>4. PICK p : p = in[m + 1].key
      OBVIOUS
    <3>5. PICK d : d = f[m]
      OBVIOUS
    <3>6. p \in Seq(STRING) /\ p # <<>>
      BY <1>6, <3>1, <3>4
    <3>7. PICK y : SetAt(d, p, x) = Placed(d, p[1], y)
      BY <3>6, SetAtFirst
    <3>8. \E g : Placed(d, p[1], y) = Obj(g)
      BY <3>3, <3>5 DEF Placed
    <3>9. QED
      BY <3>2, <3>4, <3>5, <3>7, <3>8 DEF Is, Obj
  <2>3. T = Nat
    <3> HIDE DEF T
    <3>1. T \in SUBSET Nat
      BY DEF T
    <3>2. QED
      BY <2>1, <2>2, <3>1, AllNaturals
  <2>4. N \in T /\ N <= N
    BY <1>3, <2>3
  <2>5. QED
    BY <1>4, <2>4
<1>9. ASSUME NEW c \in Seq(STRING), c # <<>>,
             \A i \in DOMAIN kes : Aside([key |-> c], {kes[i]}) /\ ByNames(kes[i].key, c)
      PROVE  Alone(doc, c)
  <2> DEFINE T == {m \in Nat : m <= N => Bad(f[m]) \/ Alone(f[m], c)}
  <2>1. Alone(f[0], c)
    <3> DEFINE e == Obj(<<>>)
    <3>1. Len(c) \in Nat /\ Len(c) # 0 /\ Upto(c, 0) = <<>>
      BY <1>9, UptoFacts
    <3>2. GetAt(e, Upto(c, 0)) = e /\ Is(e, "object") /\ \A k : Below(e, k) = Absent
      <4>1. \A k : Below(e, k) = Absent
        BY DEF Below, Is, Obj
      <4>2. Is(e, "object")
        BY DEF Is, Obj
      <4>3. QED
        BY <3>1, <4>1, <4>2, GetAtNowhere
    <3> HIDE DEF e
    <3> DEFINE V == {n \in Nat : n + 1 <= Len(c) => GetAt(e, Upto(c, n + 1)) = Absent}
    <3>3. ASSUME NEW n \in 1..Len(c)
          PROVE  GetAt(e, Upto(c, n)) = Below(GetAt(e, Upto(c, n - 1)), c[n])
      <4>1. n - 1 \in 0..Len(c)
        BY <3>1
      <4>2. PICK q : q = Upto(c, n - 1)
        OBVIOUS
      <4>3. q \in Seq(STRING) /\ c[n] \in STRING /\ Upto(c, n) = Append(q, c[n])
        BY <4>1, <4>2, UptoFacts
      <4>4. QED
        BY <4>2, <4>3, GetAtNext
    <3>4. 0 \in V
      <4>1. 1 \in 1..Len(c) /\ 1 - 1 = 0 /\ 0 + 1 = 1
        BY <3>1
      <4>2. GetAt(e, Upto(c, 1)) = Below(GetAt(e, Upto(c, 0)), c[1])
        BY <3>3, <4>1
      <4>3. QED
        BY <3>2, <4>1, <4>2
    <3>5. ASSUME NEW n \in V
          PROVE  n + 1 \in V
      <4> SUFFICES ASSUME (n + 1) + 1 <= Len(c)
                   PROVE  GetAt(e, Upto(c, (n + 1) + 1)) = Absent
        OBVIOUS
      <4>1. n \in Nat /\ (n + 1) + 1 \in 1..Len(c) /\ ((n + 1) + 1) - 1 = n + 1 /\ n + 1 <= Len(c)
        BY <3>1
      <4>2. GetAt(e, Upto(c, n + 1)) = Absent
        BY <4>1
      <4>3. QED
        BY <3>3, <4>1, <4>2, NothingBelow
    <3>6. V = Nat
      <4> HIDE DEF V
      <4>1. V \in SUBSET Nat
        BY DEF V
      <4>2. QED
        BY <3>4, <3>5, <4>1, AllNaturals
    <3>7. ASSUME NEW j \in 0..Len(c), j # 0
          PROVE  GetAt(e, Upto(c, j)) = Absent
      <4>1. j - 1 \in Nat /\ (j - 1) + 1 = j /\ j <= Len(c)
        BY <3>1, <3>7
      <4>2. j - 1 \in V
        BY <3>6, <4>1
      <4>3. QED
        BY <4>1, <4>2
    <3>8. Alone(e, c)
      <4> SUFFICES ASSUME NEW j \in 0..Len(c)
                   PROVE  \/ GetAt(e, Upto(c, j)) = Absent
                          \/ /\ Is(GetAt(e, Upto(c, j)), "object") /\ j < Len(c)
                             /\ j = 0 \/ Index(c[j + 1]) = -1
        BY DEF Alone
      <4>1. CASE j = 0
        BY <3>1, <3>2, <4>1
      <4>2. CASE j # 0
        BY <3>7, <4>2
      <4>3. QED
        BY <4>1, <4>2
    <3>9. QED
      BY <1>5, <3>8 DEF e
  <2>2. ASSUME NEW m \in T
        PROVE  m + 1 \in T
    <3> SUFFICES ASSUME m + 1 <= N, ~Bad(f[m + 1])
                 PROVE  Alone(f[m + 1], c)
      OBVIOUS
    <3>1. m \in Nat /\ m + 1 \in 1..N /\ (m + 1) - 1 = m /\ m <= N
      BY <1>3
    <3>2. PICK x : ~Bad(f[m]) /\ f[m + 1] = SetAt(f[m], in[m + 1].key, x)
      BY <1>7, <3>1
    <3>3. Alone(f[m], c)
      BY <3>1, <3>2
    <3>4. PICK p : p = in[m + 1].key
      OBVIOUS
    <3>5. PICK d : d = f[m]
      OBVIOUS
    <3>6. PICK i \in DOMAIN kes : in[m + 1] = kes[i]
      BY <1>6, <3>1
    <3>7. p \in Seq(STRING) /\ p = kes[i].key
      BY <1>6, <3>1, <3>4, <3>6
    <3>8. Aside([key |-> c], {kes[i]}) /\ ByNames(p, c)
      BY <1>9, <3>7
    <3>9. ~IsPrefix(p, c) /\ ~IsPrefix(c, p)
      BY <3>7, <3>8 DEF Aside
    <3>10. PICK k : Part(p, c, k)
      BY <3>7, <3>9, PathsPart
    <3>11. \A j \in 1..k : Index(p[j]) = -1 /\ Index(c[j]) = -1
      <4>1. k \in 1..Len(p)
        BY <3>10 DEF Part
      <4>2. QED
        BY <3>8, <3>10, <4>1 DEF ByNames
    <3>12. Alone(SetAt(d, p, x), c)
      BY <3>3, <3>5, <3>7, <3>10, <3>11, AloneAgain
    <3>13. QED
      BY <3>2, <3>4, <3>5, <3>12
  <2>3. T = Nat
    <3> HIDE DEF T
    <3>1. 0 \in T
      BY <2>1 DEF T
    <3>2. T \in SUBSET Nat
      BY DEF T
    <3>3. QED
      BY <2>2, <3>1, <3>2, AllNaturals
  <2>4. N \in T /\ N <= N
    BY <1>3, <2>3
  <2>5. QED
    BY <1>4, <2>4
<1>10. QED
  BY <1>8, <1>9

\* A key of the template that those of the block leave alone keeps its value.
LEMMA MergedAlone ==
  ASSUME MergesOnce, NEW t, Json(t), Is(t, "object"), NEW o, Json(o), Is(o, "object"),
         NEW c \in Seq(STRING), Alone(o, c), GetAt(t, c) # Absent, NEW m, m = Merge(t, o)
  PROVE  GetAt(m, c) = GetAt(t, c)
<1>1. /\ Len(c) \in Nat /\ Upto(c, 0) = <<>> /\ Upto(c, Len(c)) = c
      /\ \A n \in 0..Len(c) : Upto(c, n) \in Seq(STRING)
      /\ \A n \in 1..Len(c) : c[n] \in STRING /\ Upto(c, n) = Append(Upto(c, n - 1), c[n])
  BY UptoFacts
<1> DEFINE T(j) == GetAt(t, Upto(c, j))
           O(j) == GetAt(o, Upto(c, j))
           M(j) == GetAt(m, Upto(c, j))
<1>2. T(0) = t /\ O(0) = o /\ M(0) = m /\ T(Len(c)) = GetAt(t, c) /\ M(Len(c)) = GetAt(m, c)
  BY <1>1, GetAtNowhere
<1>3. ASSUME NEW n \in 1..Len(c)
      PROVE  T(n) = Below(T(n - 1), c[n]) /\ O(n) = Below(O(n - 1), c[n]) /\ M(n) = Below(M(n - 1), c[n])
  <2>1. n - 1 \in 0..Len(c)
    BY <1>1
  <2>2. PICK q : q = Upto(c, n - 1)
    OBVIOUS
  <2>3. q \in Seq(STRING) /\ c[n] \in STRING /\ Upto(c, n) = Append(q, c[n])
    BY <1>1, <2>1, <2>2
  <2>4. QED
    BY <2>2, <2>3, GetAtNext
<1>4. ASSUME NEW n \in 0..Len(c)
      PROVE  /\ JsonOrNone(T(n)) /\ JsonOrNone(O(n))
             /\ O(n) = Absent \/ (Is(O(n), "object") /\ n < Len(c) /\ (n = 0 \/ Index(c[n + 1]) = -1))
  BY JsonAt DEF Alone
<1> HIDE DEF T, O, M
<1> DEFINE To(j) == \/ T(j) = Absent \/ M(j) = T(j)
                    \/ Is(T(j), "object") /\ Is(O(j), "object") /\ M(j) = Merge(T(j), O(j))
                    \/ j < Len(c) /\ Below(T(j), c[j + 1]) = Absent
           U == {n \in Nat : n <= Len(c) => To(n)}
<1>5. 0 \in U
  BY <1>2
<1>6. ASSUME NEW n \in U
      PROVE  n + 1 \in U
  <2> SUFFICES ASSUME n + 1 <= Len(c)
               PROVE  To(n + 1)
    OBVIOUS
  <2>1. /\ n \in Nat /\ n + 1 \in 1..Len(c) /\ (n + 1) - 1 = n /\ n <= Len(c)
        /\ n \in 0..Len(c) /\ n + 1 \in 0..Len(c) /\ n + 1 # 0
    BY <1>1
  <2>2. PICK k : k = c[n + 1]
    OBVIOUS
  <2>3. T(n + 1) = Below(T(n), k) /\ O(n + 1) = Below(O(n), k) /\ M(n + 1) = Below(M(n), k)
    BY <1>3, <2>1, <2>2
  <2>4. CASE T(n) = Absent \/ M(n) = T(n) \/ Below(T(n), k) = Absent
    BY <2>3, <2>4, NothingBelow
  <2>5. CASE Is(T(n), "object") /\ Is(O(n), "object") /\ M(n) = Merge(T(n), O(n))
    <3>1. PICK a : a = T(n)
      OBVIOUS
    <3>2. PICK b : b = O(n)
      OBVIOUS
    <3>3. PICK w : w = M(n)
      OBVIOUS
    <3>4. /\ Is(w, "object") /\ DOMAIN w[2] = DOMAIN a[2] \cup DOMAIN b[2]
          /\ \A x \in DOMAIN a[2] : x \notin DOMAIN b[2] => w[2][x] = a[2][x]
          /\ \A x \in DOMAIN b[2] : x \in DOMAIN a[2] /\ Is(a[2][x], "object") /\ Is(b[2][x], "object") =>
               w[2][x] = Merge(a[2][x], b[2][x])
      BY <2>5, <3>1, <3>2, <3>3, MergedObject
    <3>5. CASE k \notin DOMAIN a[2]
      <4>1. Below(a, k) = Absent
        BY <2>5, <3>1, <3>5 DEF Below, Is
      <4>2. QED
        BY <2>3, <3>1, <4>1
    <3>6. CASE k \in DOMAIN a[2] /\ k \notin DOMAIN b[2]
      <4>1. Below(a, k) = a[2][k] /\ Below(w, k) = w[2][k]
        BY <2>5, <3>1, <3>4, <3>6 DEF Below, Is
      <4>2. w[2][k] = a[2][k]
        BY <3>4, <3>6
      <4>3. QED
        BY <2>3, <3>1, <3>3, <4>1, <4>2
    <3>7. CASE k \in DOMAIN a[2] /\ k \in DOMAIN b[2]
      <4>1. Below(a, k) = a[2][k] /\ Below(b, k) = b[2][k] /\ Below(w, k) = w[2][k]
        BY <2>5, <3>1, <3>2, <3>4, <3>7 DEF Below, Is
      <4>2. Json(a) /\ Json(b)
        BY <1>4, <2>1, <2>5, <3>1, <3>2 DEF JsonOrNone, Is, Absent
      <4>3. Json(a[2][k]) /\ Json(b[2][k])
        BY <2>5, <3>1, <3>2, <3>7, <4>2, JsonMembers
      <4>4. O(n + 1) # Absent
        BY <2>3, <3>2, <4>1, <4>3, JsonHas
      <4>5. Is(O(n + 1), "object") /\ n + 1 < Len(c) /\ Index(c[(n + 1) + 1]) = -1
        BY <1>4, <2>1, <4>4
      <4>6. CASE Is(T(n + 1), "object")
        <5>1. M(n + 1) = Merge(T(n + 1), O(n + 1))
          BY <2>3, <3>1, <3>2, <3>3, <3>4, <3>7, <4>1, <4>5, <4>6
        <5>2. QED
          BY <4>5, <4>6, <5>1
      <4>7. CASE ~Is(T(n + 1), "object")
        <5>1. PICK z : z = T(n + 1)
          OBVIOUS
        <5>2. Json(z)
          BY <2>3, <3>1, <4>1, <4>3, <5>1
        <5>3. Below(z, c[(n + 1) + 1]) = Absent
          <6>1. CASE Is(z, "array")
            <7>1. Listed(z[2])
              BY <5>2, <6>1, JsonElements
            <7>2. 0 \notin DOMAIN z[2]
              BY <7>1 DEF Listed
            <7>3. Index(c[(n + 1) + 1]) + 1 = 0
              BY <4>5
            <7>4. QED
              BY <4>7, <5>1, <7>2, <7>3 DEF Below
          <6>2. CASE ~Is(z, "array")
            BY <4>7, <5>1, <6>2 DEF Below
          <6>3. QED
            BY <6>1, <6>2
        <5>4. QED
          BY <4>5, <5>1, <5>3
      <4>8. QED
        BY <4>6, <4>7
    <3>8. QED
      BY <3>5, <3>6, <3>7
  <2>6. QED
    BY <2>1, <2>2, <2>4, <2>5
<1>7. U = Nat
  <2> HIDE DEF U
  <2>1. U \in SUBSET Nat
    BY DEF U
  <2>2. QED
    BY <1>5, <1>6, <2>1, AllNaturals
<1>8. To(Len(c))
  <2> HIDE DEF To
  <2>1. Len(c) \in U
    BY <1>1, <1>7
  <2>2. QED
    BY <1>1, <2>1
<1>9. ~Is(O(Len(c)), "object")
  <2>1. Len(c) \in 0..Len(c) /\ ~(Len(c) < Len(c))
    BY <1>1
  <2>2. O(Len(c)) = Absent
    BY <1>4, <2>1
  <2>3. QED
    BY <2>2 DEF Is, Absent
<1>10. ~(Len(c) < Len(c))
  BY <1>1
<1>11. QED
  BY <1>2, <1>8, <1>9, <1>10

\* What a key's expressions come to.
Filled1(doc, values) ==
  \A c \in values : c.key \in Seq(STRING) /\ c.v # Absent /\ GetAt(doc, c.key) = c.v

LEMMA BodyFill ==
  ASSUME NEW kes, Keys(kes), KeysAgree(kes), kes # <<>>, AllUnread(kes), GiveJson(kes),
         NEW n \in Nat, NEW Q, JsonScopes(Q, n), NEW U, FieldsOnly(U, Q),
         NEW doc, doc = Fill(kes, U), Json(doc), [key |-> <<>>, v |-> Null] \notin ValuesOf(kes, Q)
  PROVE  doc # Null /\ Filled1(doc, ValuesOf(kes, Q)) /\ ValuesOf(kes, Q) # {}
<1>1. ~Bad(doc)
  BY JsonHas
<1>2. ValuesOf(kes, U) = ValuesOf(kes, Q)
  BY ValuesStay
<1>3. /\ \A ke \in Leaves(kes) : GetAt(doc, ke.key) = Evaluate(ke.expr, U)
      /\ doc = Null => Ordered(kes)[Len(kes)].key = <<>>
  BY <1>1, FillFacts
<1>4. Ordered(kes)[Len(kes)] \in Leaves(kes)
  BY LastIsLeaf
<1>5. \A ke \in Leaves(kes) : ke.key \in Seq(STRING) /\ \E i \in DOMAIN kes : ke = kes[i]
  BY KeysFacts DEF Leaves, Firsts
<1>6. ASSUME NEW c \in ValuesOf(kes, Q)
      PROVE  c.key \in Seq(STRING) /\ c.v # Absent /\ GetAt(doc, c.key) = c.v
  <2>1. PICK ke \in Leaves(kes) : c = [key |-> ke.key, v |-> Evaluate(ke.expr, U)]
    BY <1>2 DEF ValuesOf
  <2>2. PICK e \in Leaves(kes) : c = [key |-> e.key, v |-> Evaluate(e.expr, Q)]
    BY DEF ValuesOf
  <2>3. c.key = ke.key /\ c.v = Evaluate(ke.expr, U) /\ c.v = Evaluate(e.expr, Q)
    BY <2>1, <2>2
  <2>4. PICK i \in DOMAIN kes : e = kes[i]
    BY <1>5
  <2>5. Bad(c.v) \/ Json(c.v)
    BY <2>3, <2>4 DEF GiveJson, Gives
  <2>6. ~Bad(Absent) /\ ~Json(Absent)
    <3>1. ~Bad(Absent)
      BY DEF Bad, Absent, Failure, Crash
    <3>2. QED
      BY <3>1, JsonHas
  <2>7. QED
    BY <1>3, <1>5, <2>3, <2>5, <2>6
<1>7. doc # Null
  <2> SUFFICES ASSUME doc = Null
               PROVE  FALSE
    OBVIOUS
  <2>1. PICK ke \in Leaves(kes) : ke.key = <<>>
    BY <1>3, <1>4
  <2>2. GetAt(doc, <<>>) = Evaluate(ke.expr, U)
    BY <1>3, <2>1
  <2>3. Evaluate(ke.expr, U) = Null
    BY <2>2, GetAtNowhere
  <2>4. [key |-> <<>>, v |-> Null] \in ValuesOf(kes, U)
    BY <2>1, <2>3 DEF ValuesOf
  <2>5. QED
    BY <1>2, <2>4
<1>8. ValuesOf(kes, Q) # {}
  BY <1>4 DEF ValuesOf
<1>9. QED
  BY <1>6, <1>7, <1>8 DEF Filled1

LEMMA FilledHasAll ==
  ASSUME MergesOnce, NEW doc, NEW values, Filled1(doc, values)
  PROVE  HasAll(doc, values)
<1>1. \A v : Over(v, v)
  BY DEF Over
<1>2. \A v : Includes(v, v)
  BY <1>1, OverIncludes
<1>3. QED
  BY <1>2 DEF Filled1, HasAll

LEMMA BodyMeant ==
  ASSUME MergesOnce, NEW own, NEW template, Keys(own), Keys(template), BodiesJoin(own, template),
         AllUnread(own), AllUnread(template), GiveJson(own), GiveJson(template),
         NEW n \in Nat, NEW Q, JsonScopes(Q, n), NEW U, FieldsOnly(U, Q), NEW V, FieldsOnly(V, Q),
         NEW o, o = Fill(own, U), Json(o), NEW t, t = Fill(template, V), Json(t),
         NEW VO, VO = ValuesOf(own, Q), NEW VT, VT = ValuesOf(template, Q),
         [key |-> <<>>, v |-> Null] \notin VO \cup VT,
         NEW h, h = Seen(t, o), NEW C, C = Both(VO, VT)
  PROVE  IF C = {} THEN h = Absent ELSE HasAll(h, C)
<1>1. KeysAgree(own) /\ KeysAgree(template)
  BY DEF BodiesJoin
<1>2. own # <<>> => o # Null /\ Filled1(o, VO) /\ VO # {}
  BY <1>1, BodyFill
<1>3. template # <<>> => t # Null /\ Filled1(t, VT) /\ VT # {}
  BY <1>1, BodyFill
<1>4. CASE own = <<>>
  <2>1. o = Null /\ VO = {} /\ C = VT
    BY <1>4, NoKeysNoDocument, NothingToFill DEF Both, Aside
  <2>2. CASE template = <<>>
    <3>1. t = Null /\ VT = {}
      BY <2>2, NoKeysNoDocument, NothingToFill
    <3>2. QED
      BY <2>1, <3>1 DEF Seen
  <2>3. CASE template # <<>>
    <3>1. h = t
      BY <1>3, <2>1, <2>3 DEF Seen
    <3>2. QED
      BY <1>3, <2>1, <2>3, <3>1, FilledHasAll
  <2>4. QED
    BY <2>2, <2>3
<1>5. CASE own # <<>> /\ template = <<>>
  <2>1. t = Null /\ VT = {} /\ C = VO
    BY <1>5, NoKeysNoDocument, NothingToFill DEF Both
  <2>2. h = o
    BY <1>2, <1>5, <2>1 DEF Seen
  <2>3. QED
    BY <1>2, <1>5, <2>1, <2>2, FilledHasAll
<1>6. CASE own # <<>> /\ template # <<>>
  <2>1. h = Merge(t, o)
    BY <1>2, <1>3, <1>6 DEF Seen
  <2>2. (\A i \in DOMAIN own : own[i].key # <<>>) /\ (\A i \in DOMAIN template : template[i].key # <<>>)
    BY <1>6 DEF BodiesJoin
  <2>3. ~Bad(o) /\ ~Bad(t)
    BY JsonHas
  <2>4. /\ Is(o, "object") /\ Is(t, "object")
        /\ \A c \in Seq(STRING) :
             c # <<>> /\ (\A i \in DOMAIN own : Aside([key |-> c], {own[i]}) /\ ByNames(own[i].key, c))
             => Alone(o, c)
    BY <1>6, <2>2, <2>3, FillAlone
  <2>5. Over(h, o)
    BY <2>1, <2>4 DEF Over
  <2>6. C # {}
    BY <1>2, <1>6 DEF Both
  <2>7. ASSUME NEW c \in VO
        PROVE  Includes(GetAt(h, c.key), c.v)
    <3>1. c.key \in Seq(STRING) /\ c.v # Absent /\ GetAt(o, c.key) = c.v
      BY <1>2, <1>6 DEF Filled1
    <3>2. Over(GetAt(h, c.key), GetAt(o, c.key))
      BY <2>5, <3>1, OverAlong
    <3>3. QED
      BY <3>1, <3>2, OverIncludes
  <2>8. ASSUME NEW c \in VT, Aside(c, VO)
        PROVE  Includes(GetAt(h, c.key), c.v)
    <3>1. c.key \in Seq(STRING) /\ c.v # Absent /\ GetAt(t, c.key) = c.v
      BY <1>3, <1>6 DEF Filled1
    <3>2. PICK ke \in Leaves(template) : c = [key |-> ke.key, v |-> Evaluate(ke.expr, Q)]
      BY DEF ValuesOf
    <3>3. c.key = ke.key /\ ke.key # <<>>
      BY <2>2, <3>2 DEF Leaves, Firsts
    <3>4. Aside(ke, Leaves(own))
      <4> SUFFICES ASSUME NEW e \in Leaves(own)
                   PROVE  ~IsPrefix(e.key, ke.key) /\ ~IsPrefix(ke.key, e.key)
        BY DEF Aside
      <4>1. PICK w : w = [key |-> e.key, v |-> Evaluate(e.expr, Q)]
        OBVIOUS
      <4>2. w \in VO /\ w.key = e.key
        BY <4>1 DEF ValuesOf
      <4>3. QED
        BY <2>8, <3>3, <4>2 DEF Aside
    <3>5. \A i \in DOMAIN own : Aside(ke, {own[i]}) /\ ByNames(own[i].key, ke.key)
      BY <3>4 DEF BodiesJoin, LeavesAlone
    <3>6. \A i \in DOMAIN own : Aside([key |-> c.key], {own[i]}) /\ ByNames(own[i].key, c.key)
      BY <3>3, <3>5 DEF Aside
    <3>7. Alone(o, c.key)
      BY <2>4, <3>1, <3>3, <3>6
    <3>8. GetAt(h, c.key) = GetAt(t, c.key)
      BY <2>1, <2>4, <3>1, <3>7, MergedAlone
    <3>9. Over(GetAt(h, c.key), c.v)
      BY <3>1, <3>8 DEF Over
    <3>10. QED
      BY <3>9, OverIncludes
  <2>9. \A c \in C : c \in VO \/ (c \in VT /\ Aside(c, VO))
    BY DEF Both
  <2>10. HasAll(h, C)
    BY <2>7, <2>8, <2>9 DEF HasAll
  <2>11. QED
    BY <2>6, <2>10
<1>7. QED
  BY <1>4, <1>5, <1>6

-----------------------------------------------------------------------------
(* The messages.                                                           *)

\* A block whose expressions read no field of a request.
Blind(b) ==
  /\ AllUnread(b.header) /\ AllUnread(b.query) /\ AllUnread(b.body)
  /\ "http_uri" \in DOMAIN b.sets => Unread(b.sets["http_uri"])
  /\ \A i \in DOMAIN b.cmds : \A j \in DOMAIN b.cmds[i].arg : Unread(b.cmds[i].arg[j])
BlocksOf(b) == {b} \cup ToSet(b.include)

LEMMA TemplateIs ==
  ASSUME NEW b, Included(b), Asking(b), \A d \in BlocksOf(b) : Blind(d), NEW x \in Docs,
         NEW kes \in {DocKeys(b, x), TemplateKeys(b, x)}
  PROVE  Keys(kes) /\ GiveJson(kes) /\ AllUnread(kes)
<1>1. ASSUME NEW d \in BlocksOf(b)
      PROVE  Keys(DocKeys(d, x)) /\ GiveJson(DocKeys(d, x)) /\ AllUnread(DocKeys(d, x))
  <2>1. Asking(d) /\ Blind(d)
    <3>1. d = b \/ \E i \in DOMAIN b.include : d = b.include[i]
      BY DEF BlocksOf, ToSet
    <3>2. QED
      BY <3>1 DEF Included, ListOf
  <2>2. QED
    BY <2>1 DEF Asking, Asks, AskGives, Blind, DocKeys
<1>2. b \in BlocksOf(b)
  BY DEF BlocksOf
<1>3. CASE kes = DocKeys(b, x)
  BY <1>1, <1>2, <1>3
<1>4. CASE kes = TemplateKeys(b, x)
  <2>1. CASE b.include = <<>>
    <3>1. kes = <<>>
      BY <1>4, <2>1 DEF TemplateKeys
    <3>2. QED
      BY <3>1, NothingAnswered DEF Keys, ListOf, GiveJson, AllUnread
  <2>2. CASE b.include # <<>>
    <3>1. 1 \in DOMAIN b.include
      <4>1. Len(b.include) \in Nat /\ b.include = [i \in 1..Len(b.include) |-> b.include[i]]
        BY DEF Included, ListOf, Listed
      <4>2. Len(b.include) # 0
        BY <2>2, <4>1
      <4>3. QED
        BY <4>1, <4>2
    <3>2. b.include[1] \in BlocksOf(b)
      BY <3>1 DEF BlocksOf, ToSet
    <3>3. kes = DocKeys(b.include[1], x)
      BY <1>4, <2>2 DEF TemplateKeys
    <3>4. QED
      BY <1>1, <3>2, <3>3
  <2>3. QED
    BY <2>1, <2>2
<1>5. QED
  BY <1>3, <1>4

LEMMA FlatMeant ==
  ASSUME MergesOnce, NEW b, Included(b), Asking(b), \A d \in BlocksOf(b) : Blind(d),
         NEW n \in Nat, NEW Q, Requested(Q, b, n), NEW x \in Docs,
         NEW own, own = DocKeys(b, x), NEW template, template = TemplateKeys(b, x),
         Named(own), Named(template), Texts(ValuesOf(own, Q)), Texts(ValuesOf(template, Q)),
         NEW C, C = Both(ValuesOf(own, Q), ValuesOf(template, Q)),
         NEW w, w = Written(Lookup(Q, x))
  PROVE  /\ AsText(w, C)
         /\ ("Content-Type" \in DOMAIN w /\ w["Content-Type"] = JsonType) <=> AsksJson(C)
<1>1. /\ Listed(Q) /\ 1 \in DOMAIN Q /\ OwnOnly(Q, x) /\ DocAsked(Q, b, x, n)
  BY DEF Requested, JsonScopes
<1>2. PICK U, V : /\ FieldsOnly(U, Q) /\ FieldsOnly(V, Q)
                  /\ Json(Fill(own, U)) /\ Json(Fill(template, V))
                  /\ Joined(Q, x, Fill(template, V), Fill(own, U))
  BY <1>1 DEF DocAsked
<1>3. PICK o : o = Fill(own, U)
  OBVIOUS
<1>4. PICK t : t = Fill(template, V)
  OBVIOUS
<1>5. Keys(own) /\ AllUnread(own) /\ Keys(template) /\ AllUnread(template)
  BY TemplateIs
<1>6. PICK VO : VO = ValuesOf(own, Q)
  OBVIOUS
<1>7. PICK VT : VT = ValuesOf(template, Q)
  OBVIOUS
<1>8. Flat(o, VO) /\ Flat(t, VT)
  BY <1>2, <1>3, <1>4, <1>5, <1>6, <1>7, FlatFill
<1>9. PICK h : h = Lookup(Q, x)
  OBVIOUS
<1>10. h = Seen(t, o)
  BY <1>1, <1>2, <1>3, <1>4, <1>9, JoinedSeen
<1>11. Texts(VO) /\ Texts(VT) /\ C = Both(VO, VT)
  BY <1>6, <1>7
<1>12. IF C = {} THEN h = Absent ELSE Is(h, "object") /\ FlatMembers(h[2], C)
  BY <1>8, <1>10, <1>11, FlatJoined
<1>13. Texts(C)
  BY <1>11 DEF Texts, Both
<1>14. w = Written(h)
  BY <1>9
<1>15. QED
  BY <1>12, <1>13, <1>14, FlatText

\* The fields of a request, as they are configured.
FieldsMeant(Q, b) ==
  /\ \A w \in {Written(Lookup(Q, "http_header"))} :
       /\ AsText(w, Expected(b, "header", Q))
       /\ ("Content-Type" \in DOMAIN w /\ w["Content-Type"] = JsonType) <=> AsksJson(Expected(b, "header", Q))
  /\ AsText(Written(Lookup(Q, "http_query")), Expected(b, "query", Q))
  /\ IF Expected(b, "body", Q) = {} THEN Lookup(Q, "http_body") = Absent
     ELSE HasAll(Lookup(Q, "http_body"), Expected(b, "body", Q))
  /\ Lookup(Q, "http_uri") # Absent => Lookup(Q, "http_uri")[2] \in Uris(b)

LEMMA FieldsAreMeant ==
  ASSUME MergesOnce, NEW b, Included(b), Asking(b), \A d \in BlocksOf(b) : Blind(d), BlocksJoin(b),
         NEW n \in Nat, NEW Q, Requested(Q, b, n), NEW kind, PlainIn(kind, b, Q)
  PROVE  FieldsMeant(Q, b)
<1>1. /\ \A d \in BlocksOf(b) : /\ Texts(ValuesOf(d.header, Q)) /\ Texts(ValuesOf(d.query, Q))
                                /\ [key |-> <<>>, v |-> Null] \notin ValuesOf(d.body, Q)
      /\ \A d \in BlocksOf(b) : "http_uri" \in DOMAIN d.sets =>
           Evaluate(d.sets["http_uri"], Q) = d.sets["http_uri"].v
  BY DEF PlainIn, BlocksOf
<1>2. b \in BlocksOf(b)
  BY DEF BlocksOf
<1>3. /\ \A field \in {"header", "query", "body"} :
           TemplateOf(b, field) = <<>> \/ \E d \in BlocksOf(b) : TemplateOf(b, field) = d[field]
  <2>1. CASE b.include = <<>>
    BY <2>1 DEF TemplateOf
  <2>2. CASE b.include # <<>>
    <3>1. 1 \in DOMAIN b.include
      <4>1. Len(b.include) \in Nat /\ b.include = [i \in 1..Len(b.include) |-> b.include[i]]
        BY DEF Included, ListOf, Listed
      <4>2. Len(b.include) # 0
        BY <2>2, <4>1
      <4>3. QED
        BY <4>1, <4>2
    <3>2. PICK d : d = b.include[1]
      OBVIOUS
    <3>3. d \in BlocksOf(b)
      BY <3>1, <3>2 DEF BlocksOf, ToSet
    <3>4. \A field : TemplateOf(b, field) = d[field]
      BY <2>2, <3>2 DEF TemplateOf
    <3>5. QED
      BY <3>3, <3>4
  <2>3. QED
    BY <2>1, <2>2
<1>4. /\ DocKeys(b, "http_header") = b.header /\ TemplateKeys(b, "http_header") = TemplateOf(b, "header")
      /\ DocKeys(b, "http_query") = b.query /\ TemplateKeys(b, "http_query") = TemplateOf(b, "query")
      /\ DocKeys(b, "http_body") = b.body /\ TemplateKeys(b, "http_body") = TemplateOf(b, "body")
  BY DEF DocKeys, TemplateKeys, TemplateOf
<1>5. ValuesOf(<<>>, Q) = {} /\ Texts({})
  BY NothingToFill DEF Texts
<1>6. Texts(ValuesOf(TemplateOf(b, "header"), Q)) /\ Texts(ValuesOf(TemplateOf(b, "query"), Q))
  BY <1>1, <1>3, <1>5
<1>7. [key |-> <<>>, v |-> Null] \notin ValuesOf(TemplateOf(b, "body"), Q)
  BY <1>1, <1>3, <1>5
<1>8. ASSUME NEW w, w = Written(Lookup(Q, "http_header"))
      PROVE  /\ AsText(w, Expected(b, "header", Q))
             /\ ("Content-Type" \in DOMAIN w /\ w["Content-Type"] = JsonType) <=> AsksJson(Expected(b, "header", Q))
  <2>1. PICK own : own = b.header
    OBVIOUS
  <2>2. PICK template : template = TemplateOf(b, "header")
    OBVIOUS
  <2>3. PICK C : C = Both(ValuesOf(own, Q), ValuesOf(template, Q))
    OBVIOUS
  <2>4. C = Expected(b, "header", Q)
    BY <2>1, <2>2, <2>3 DEF Expected
  <2>5. Named(own) /\ Named(template)
    BY <2>1, <2>2 DEF BlocksJoin
  <2>6. Texts(ValuesOf(own, Q)) /\ Texts(ValuesOf(template, Q))
    BY <1>1, <1>2, <1>6, <2>1, <2>2
  <2>7. PICK x \in Docs : x = "http_header"
    BY DEF Docs
  <2>8. own = DocKeys(b, x) /\ template = TemplateKeys(b, x) /\ w = Written(Lookup(Q, x))
    BY <1>4, <1>8, <2>1, <2>2, <2>7
  <2>9. /\ AsText(w, C)
        /\ ("Content-Type" \in DOMAIN w /\ w["Content-Type"] = JsonType) <=> AsksJson(C)
    BY <2>3, <2>5, <2>6, <2>8, FlatMeant
  <2>10. QED
    BY <2>4, <2>9
<1>9. AsText(Written(Lookup(Q, "http_query")), Expected(b, "query", Q))
  <2>1. PICK own : own = b.query
    OBVIOUS
  <2>2. PICK template : template = TemplateOf(b, "query")
    OBVIOUS
  <2>3. PICK C : C = Both(ValuesOf(own, Q), ValuesOf(template, Q))
    OBVIOUS
  <2>4. C = Expected(b, "query", Q)
    BY <2>1, <2>2, <2>3 DEF Expected
  <2>5. Named(own) /\ Named(template)
    BY <2>1, <2>2 DEF BlocksJoin
  <2>6. Texts(ValuesOf(own, Q)) /\ Texts(ValuesOf(template, Q))
    BY <1>1, <1>2, <1>6, <2>1, <2>2
  <2>7. PICK x \in Docs : x = "http_query"
    BY DEF Docs
  <2>8. PICK w : w = Written(Lookup(Q, x))
    OBVIOUS
  <2>9. own = DocKeys(b, x) /\ template = TemplateKeys(b, x)
    BY <1>4, <2>1, <2>2, <2>7
  <2>10. AsText(w, C)
    BY <2>3, <2>5, <2>6, <2>8, <2>9, FlatMeant
  <2>11. QED
    BY <2>4, <2>7, <2>8, <2>10
<1>10. IF Expected(b, "body", Q) = {} THEN Lookup(Q, "http_body") = Absent
       ELSE HasAll(Lookup(Q, "http_body"), Expected(b, "body", Q))
  <2>1. PICK own : own = b.body
    OBVIOUS
  <2>2. PICK template : template = TemplateOf(b, "body")
    OBVIOUS
  <2>3. PICK x \in Docs : x = "http_body"
    BY DEF Docs
  <2>4. own = DocKeys(b, x) /\ template = TemplateKeys(b, x)
    BY <1>4, <2>1, <2>2, <2>3
  <2>5. /\ Keys(own) /\ GiveJson(own) /\ AllUnread(own)
        /\ Keys(template) /\ GiveJson(template) /\ AllUnread(template)
    BY <2>4, TemplateIs
  <2>6. Listed(Q) /\ 1 \in DOMAIN Q /\ OwnOnly(Q, x) /\ DocAsked(Q, b, x, n) /\ JsonScopes(Q, n)
    BY DEF Requested, JsonScopes
  <2>7. PICK U, V : /\ FieldsOnly(U, Q) /\ FieldsOnly(V, Q)
                    /\ Json(Fill(own, U)) /\ Json(Fill(template, V))
                    /\ Joined(Q, x, Fill(template, V), Fill(own, U))
    BY <2>4, <2>6 DEF DocAsked
  <2>8. PICK o : o = Fill(own, U)
    OBVIOUS
  <2>9. PICK t : t = Fill(template, V)
    OBVIOUS
  <2>10. PICK h : h = Lookup(Q, x)
    OBVIOUS
  <2>11. h = Seen(t, o)
    BY <2>6, <2>7, <2>8, <2>9, <2>10, JoinedSeen
  <2>12. PICK VO : VO = ValuesOf(own, Q)
    OBVIOUS
  <2>13. PICK VT : VT = ValuesOf(template, Q)
    OBVIOUS
  <2>14. PICK C : C = Both(VO, VT)
    OBVIOUS
  <2>15. [key |-> <<>>, v |-> Null] \notin VO \cup VT
    BY <1>1, <1>2, <1>7, <2>1, <2>2, <2>12, <2>13
  <2>16. BodiesJoin(own, template)
    BY <2>1, <2>2 DEF BlocksJoin
  <2>17. Json(o) /\ Json(t)
    BY <2>7, <2>8, <2>9
  <2>18. IF C = {} THEN h = Absent ELSE HasAll(h, C)
    BY <2>5, <2>6, <2>7, <2>8, <2>9, <2>11, <2>12, <2>13, <2>14, <2>15, <2>16, <2>17, BodyMeant
  <2>19. C = Expected(b, "body", Q)
    BY <2>1, <2>2, <2>12, <2>13, <2>14 DEF Expected
  <2>20. QED
    BY <2>3, <2>10, <2>18, <2>19
<1>11. ASSUME Lookup(Q, "http_uri") # Absent
       PROVE  Lookup(Q, "http_uri")[2] \in Uris(b)
  <2>1. Listed(Q) /\ 1 \in DOMAIN Q /\ OwnOnly(Q, "http_uri") /\ UriAsked(Q, b)
    BY DEF Requested, JsonScopes
  <2>2. "http_uri" \in DOMAIN Q[1] /\ Lookup(Q, "http_uri") = Q[1]["http_uri"]
    BY <1>11, <2>1, LookupOwn
  <2>3. PICK d \in BlocksOf(b) : \E U : /\ FieldsOnly(U, Q) /\ "http_uri" \in DOMAIN d.sets
                                       /\ Q[1]["http_uri"] = Evaluate(d.sets["http_uri"], U)
    BY <2>1, <2>2 DEF UriAsked, BlocksOf
  <2>4. PICK U : /\ FieldsOnly(U, Q) /\ "http_uri" \in DOMAIN d.sets
                 /\ Q[1]["http_uri"] = Evaluate(d.sets["http_uri"], U)
    BY <2>3
  <2>5. Unread(d.sets["http_uri"])
    BY <2>4 DEF Blind
  <2>6. Q[1]["http_uri"] = d.sets["http_uri"].v
    BY <1>1, <2>4, <2>5 DEF Unread
  <2>7. d.sets["http_uri"].v[2] \in Uris(b)
    BY <2>4 DEF Uris, BlocksOf
  <2>8. QED
    BY <2>2, <2>6, <2>7
<1>12. QED
  BY <1>8, <1>9, <1>10, <1>11 DEF FieldsMeant

\* A message is its URI, its query and its body with the same method and header.
MessagesAre(Q, json, a, h) ==
  \A v, w, x : Message(Q, v, w, x) = [method |-> a, uri |-> v, header |-> h, query |-> w,
                                      body |-> IF json THEN x ELSE Absent]

LEMMA MessageIs ==
  ASSUME NEW b, NEW Q, FieldsMeant(Q, b), NEW u, NEW q, NEW y, NEW m, m = Message(Q, u, q, y)
  PROVE  /\ m.uri = u /\ m.query = q /\ AsText(m.header, Expected(b, "header", Q))
         /\ m.body = IF AsksJson(Expected(b, "header", Q)) THEN y ELSE Absent
         /\ \E a, h : MessagesAre(Q, AsksJson(Expected(b, "header", Q)), a, h)
<1>1. PICK h : h = Written(Lookup(Q, "http_header"))
  OBVIOUS
<1>2. PICK H : H = Expected(b, "header", Q)
  OBVIOUS
<1>3. AsText(h, H) /\ (("Content-Type" \in DOMAIN h /\ h["Content-Type"] = JsonType) <=> AsksJson(H))
  BY <1>1, <1>2 DEF FieldsMeant
<1>4. PICK a : a = IF Lookup(Q, "http_method") = Word("post") THEN "POST" ELSE "GET"
  OBVIOUS
<1>5. MessagesAre(Q, AsksJson(H), a, h)
  BY <1>1, <1>3, <1>4 DEF Message, MessagesAre
<1>6. m = [method |-> a, uri |-> u, header |-> h, query |-> q, body |-> IF AsksJson(H) THEN y ELSE Absent]
  BY <1>5 DEF MessagesAre
<1>7. m.uri = u /\ m.query = q /\ m.header = h /\ m.body = IF AsksJson(H) THEN y ELSE Absent
  BY <1>6
<1>8. QED
  BY <1>2, <1>3, <1>5, <1>7

LEMMA HttpSent ==
  ASSUME NEW b, NEW Q, FieldsMeant(Q, b), NEW kind, NEW messages, messages = HttpMessages(kind, Q).sent,
         NEW j \in DOMAIN messages
  PROVE  MessageMeant(messages[j], Expected(b, "header", Q), Expected(b, "query", Q),
                      Expected(b, "body", Q), Uris(b), "none")
<1>1. PICK q : q = Written(Lookup(Q, "http_query"))
  OBVIOUS
<1>2. PICK y : y = Lookup(Q, "http_body")
  OBVIOUS
<1>3. PICK u : u = Lookup(Q, "http_uri")[2]
  OBVIOUS
<1>4. PICK m : m = Message(Q, u, q, y)
  OBVIOUS
<1>5. \/ ~Wants(Q, {"http_uri", "http_method"}) /\ messages = <<>>
      \/ messages = <<>>
      \/ Wants(Q, {"http_uri", "http_method"}) /\ messages = <<m>>
  BY <1>1, <1>2, <1>3, <1>4 DEF HttpMessages, NotSent, Send
<1>6. messages = <<m>> /\ Lookup(Q, "http_uri") # Absent
  BY <1>5 DEF Wants
<1>7. messages[j] = m
  BY <1>6
<1>8. PICK H : H = Expected(b, "header", Q)
  OBVIOUS
<1>9. m.uri = u /\ m.query = q /\ AsText(m.header, H) /\ m.body = IF AsksJson(H) THEN y ELSE Absent
  BY <1>4, <1>8, MessageIs
<1>10. /\ AsText(q, Expected(b, "query", Q)) /\ u \in Uris(b)
       /\ IF Expected(b, "body", Q) = {} THEN y = Absent ELSE HasAll(y, Expected(b, "body", Q))
  BY <1>1, <1>2, <1>3, <1>6 DEF FieldsMeant
<1>11. MessageMeant(m, H, Expected(b, "query", Q), Expected(b, "body", Q), Uris(b), "none")
  BY <1>9, <1>10 DEF MessageMeant, AsksJson
<1>12. QED
  BY <1>7, <1>8, <1>11

\* The name of the argument.
ArgumentName(Q) == CHOOSE k \in DOMAIN Lookup(Q, "dynamic_args")[2] : TRUE

\* What a dynamic service sends for an element of its argument.
Placing(Q, name, v) ==
  LET node == Lookup(Q, "dynamic_args_node")
      uri == Lookup(Q, "http_uri")[2]
      query == Written(Lookup(Q, "http_query"))
      body == Lookup(Q, "http_body")
  IN  CASE node = Word("uri") -> Message(Q, Concat(uri, Text(v)), query, body)
        [] node = Word("query") -> Message(Q, uri, [k \in DOMAIN query \cup {name} |->
                                                        IF k = name THEN Text(v) ELSE query[k]], body)
        [] node = Word("body") ->
             Message(Q, uri, query, SetAt(IF body = Absent THEN Null ELSE body, Lookup(Q, "dynamic_args_path")[2], v))
        [] OTHER -> Message(Q, uri, query, body)

PlacingAll(Q, name, list) == [i \in DOMAIN list |-> Placing(Q, name, list[i])]

LEMMA DynamicIs ==
  ASSUME NEW Q, NEW n, JsonScopes(Q, n), Is(Lookup(Q, "dynamic_args"), "object"),
         NEW args, args = Lookup(Q, "dynamic_args")[2], DOMAIN args # {}, NEW name, name = ArgumentName(Q),
         NEW messages, messages = DynamicMessages(Q).sent, messages # <<>>
  PROVE  /\ Lookup(Q, "http_uri") # Absent
         /\ Lookup(Q, "dynamic_args_node") = Word("body") => Is(Lookup(Q, "dynamic_args_path"), "string")
         /\ args[name] # Null /\ Listed(args[name][2])
         /\ messages = PlacingAll(Q, name, args[name][2])
<1>1. PICK list : list = args[name]
  OBVIOUS
<1>2. PICK path : path = Lookup(Q, "dynamic_args_path")
  OBVIOUS
<1>3. PICK node : node = Lookup(Q, "dynamic_args_node")
  OBVIOUS
<1>4. PICK all : all = [i \in DOMAIN list[2] |-> Placing(Q, name, list[2][i])]
  OBVIOUS
<1>5. messages =
        IF ~Wants(Q, {"dynamic_args_node", "http_method", "http_uri", "dynamic_args"}) THEN <<>>
        ELSE IF list = Null THEN <<>>
        ELSE IF ~Is(list, "array") THEN <<>>
        ELSE IF node = Word("body") /\ list[2] # <<>> /\ ~Is(path, "string") THEN <<>>
        ELSE all
  BY <1>1, <1>2, <1>3, <1>4 DEF DynamicMessages, Send, NotSent, Placing, ArgumentName
<1>6. /\ Wants(Q, {"dynamic_args_node", "http_method", "http_uri", "dynamic_args"})
      /\ list # Null /\ Is(list, "array") /\ messages = all
      /\ ~(node = Word("body") /\ list[2] # <<>> /\ ~Is(path, "string"))
  BY <1>5
<1>7. list[2] # <<>>
  <2> SUFFICES ASSUME list[2] = <<>>
               PROVE  FALSE
    OBVIOUS
  <2>1. DOMAIN list[2] = {}
    OBVIOUS
  <2>2. all = <<>>
    BY <1>4, <2>1
  <2>3. QED
    BY <1>6, <2>2
<1>8. Lookup(Q, "http_uri") # Absent /\ Lookup(Q, "dynamic_args") # Absent
  BY <1>6 DEF Wants
<1>9. Json(Lookup(Q, "dynamic_args"))
  BY <1>8, JsonLookup DEF JsonOrNone
<1>10. \A k \in DOMAIN args : Json(args[k])
  BY <1>9, JsonMembers
<1>11. Listed(list[2])
  <2>1. name \in DOMAIN args
    BY DEF ArgumentName
  <2>2. QED
    BY <1>1, <1>6, <1>10, <2>1, JsonElements
<1>12. messages = PlacingAll(Q, name, list[2])
  BY <1>4, <1>6 DEF PlacingAll
<1>13. QED
  BY <1>1, <1>2, <1>3, <1>6, <1>7, <1>8, <1>11, <1>12

LEMMA WithName ==
  ASSUME NEW q, NEW name, NEW x, NEW f, f = [k \in DOMAIN q \cup {name} |-> IF k = name THEN x ELSE q[k]]
  PROVE  /\ name \in DOMAIN f /\ f[name] = x
         /\ [f EXCEPT ![name] = <<>>] = [k \in DOMAIN q \cup {name} |-> IF k = name THEN <<>> ELSE q[k]]
  OBVIOUS

\* The element in its place, and the rest of a message.
InPlace(Q, m, v) ==
  LET name == ArgumentName(Q)
      node == Lookup(Q, "dynamic_args_node")
  IN  CASE node = Word("uri") -> m.uri = Concat(Lookup(Q, "http_uri")[2], Text(v))
        [] node = Word("query") -> m.query[name] = Text(v)
        [] OTHER -> m.body # Absent => GetAt(m.body, Lookup(Q, "dynamic_args_path")[2]) = v
RestOf(Q, m) ==
  LET name == ArgumentName(Q)
      node == Lookup(Q, "dynamic_args_node")
  IN  CASE node = Word("uri") -> [m EXCEPT !.uri = <<>>]
        [] node = Word("query") -> [m EXCEPT !.query[name] = <<>>]
        [] OTHER -> [m EXCEPT !.body = Absent]
ListIn(Q) ==
  LET args == Lookup(Q, "dynamic_args")[2]
      name == ArgumentName(Q)
  IN  IF args[name] = Null THEN <<>> ELSE args[name][2]

WithoutUri(m) == [m EXCEPT !.uri = <<>>]
WithoutQuery(m, name) == [m EXCEPT !.query[name] = <<>>]
WithoutBody(m) == [m EXCEPT !.body = Absent]

LEMMA PlacesAre ==
  ASSUME NEW Q, NEW name, name = ArgumentName(Q), NEW m, NEW v
  PROVE  /\ Lookup(Q, "dynamic_args_node") = Word("uri") =>
              /\ InPlace(Q, m, v) <=> (m.uri = Concat(Lookup(Q, "http_uri")[2], Text(v)))
              /\ RestOf(Q, m) = WithoutUri(m)
         /\ Lookup(Q, "dynamic_args_node") = Word("query") =>
              /\ InPlace(Q, m, v) <=> (m.query[name] = Text(v))
              /\ RestOf(Q, m) = WithoutQuery(m, name)
         /\ Lookup(Q, "dynamic_args_node") = Word("body") =>
              /\ InPlace(Q, m, v) <=> (m.body # Absent => GetAt(m.body, Lookup(Q, "dynamic_args_path")[2]) = v)
              /\ RestOf(Q, m) = WithoutBody(m)
<1>1. Word("uri") # Word("query") /\ Word("uri") # Word("body") /\ Word("query") # Word("body")
  BY DEF Word, Str
<1>2. PICK node : node = Lookup(Q, "dynamic_args_node")
  OBVIOUS
<1>3. CASE node = Word("uri")
  BY <1>1, <1>2, <1>3 DEF InPlace, RestOf, WithoutUri
<1>4. CASE node = Word("query")
  BY <1>1, <1>2, <1>4 DEF InPlace, RestOf, WithoutQuery
<1>5. CASE node = Word("body")
  BY <1>1, <1>2, <1>5 DEF InPlace, RestOf, WithoutBody
<1>6. QED
  BY <1>2, <1>3, <1>4, <1>5

LEMMA PlacingIs ==
  ASSUME NEW Q, NEW name, NEW v
  PROVE  /\ Lookup(Q, "dynamic_args_node") = Word("uri") =>
              Placing(Q, name, v) = Message(Q, Concat(Lookup(Q, "http_uri")[2], Text(v)),
                                            Written(Lookup(Q, "http_query")), Lookup(Q, "http_body"))
         /\ Lookup(Q, "dynamic_args_node") = Word("query") =>
              \A q : q = Written(Lookup(Q, "http_query")) =>
                Placing(Q, name, v) =
                  Message(Q, Lookup(Q, "http_uri")[2],
                          [k \in DOMAIN q \cup {name} |-> IF k = name THEN Text(v) ELSE q[k]], Lookup(Q, "http_body"))
         /\ Lookup(Q, "dynamic_args_node") = Word("body") =>
              \A y : y = Lookup(Q, "http_body") =>
                Placing(Q, name, v) =
                  Message(Q, Lookup(Q, "http_uri")[2], Written(Lookup(Q, "http_query")),
                          SetAt(IF y = Absent THEN Null ELSE y, Lookup(Q, "dynamic_args_path")[2], v))
<1>1. Word("uri") # Word("query") /\ Word("uri") # Word("body") /\ Word("query") # Word("body")
  BY DEF Word, Str
<1>2. PICK node : node = Lookup(Q, "dynamic_args_node")
  OBVIOUS
<1>3. CASE node = Word("uri")
  BY <1>1, <1>2, <1>3 DEF Placing
<1>4. CASE node = Word("query")
  BY <1>1, <1>2, <1>4 DEF Placing
<1>5. CASE node = Word("body")
  BY <1>1, <1>2, <1>5 DEF Placing
<1>6. QED
  BY <1>2, <1>3, <1>4, <1>5

LEMMA ArgumentsAre ==
  ASSUME NEW messages, NEW Q, Len(messages) = Len(ListIn(Q)),
         \A i \in DOMAIN ListIn(Q) : InPlace(Q, messages[i], ListIn(Q)[i]) /\ RestOf(Q, messages[i]) = RestOf(Q, messages[1])
  PROVE  ArgumentsMeant(messages, Q)
  BY DEF ArgumentsMeant, InPlace, RestOf, ListIn, ArgumentName

\* The messages of a dynamic service: the header, and what the argument is not put into, are
\* as configured; the elements are in their places, and nothing else differs.
LEMMA DynamicSent ==
  ASSUME NEW b, NEW Q, FieldsMeant(Q, b), NEW n, JsonScopes(Q, n), PlainIn("dynamic", b, Q),
         NEW messages, messages = DynamicMessages(Q).sent, messages # <<>>
  PROVE  /\ \A j \in DOMAIN messages :
              MessageMeant(messages[j], Expected(b, "header", Q), Expected(b, "query", Q),
                           Expected(b, "body", Q), Uris(b), Lookup(Q, "dynamic_args_node")[2][1])
         /\ ArgumentsMeant(messages, Q)
<1>1. PICK args : args = Lookup(Q, "dynamic_args")[2]
  OBVIOUS
<1>2. PICK name : name = ArgumentName(Q)
  OBVIOUS
<1>3. PICK list : list = args[name][2]
  OBVIOUS
<1>4. PICK node : node = Lookup(Q, "dynamic_args_node")
  OBVIOUS
<1>5. PICK u : u = Lookup(Q, "http_uri")[2]
  OBVIOUS
<1>6. PICK q : q = Written(Lookup(Q, "http_query"))
  OBVIOUS
<1>7. PICK y : y = Lookup(Q, "http_body")
  OBVIOUS
<1>8. PICK path : path = Lookup(Q, "dynamic_args_path")
  OBVIOUS
<1>9. PICK H : H = Expected(b, "header", Q)
  OBVIOUS
<1>10. /\ Is(Lookup(Q, "dynamic_args"), "object") /\ DOMAIN args # {}
       /\ node \in {Word("uri"), Word("query"), Word("body")}
       /\ path = Absent \/ (Is(path, "string") /\ path[2] \in Seq(STRING))
  BY <1>1, <1>4, <1>8 DEF PlainIn
<1>11. /\ Lookup(Q, "http_uri") # Absent /\ (node = Word("body") => Is(path, "string"))
       /\ args[name] # Null /\ Listed(list)
       /\ messages = [i \in DOMAIN list |-> Placing(Q, name, list[i])]
  <2>1. /\ Lookup(Q, "http_uri") # Absent
        /\ Lookup(Q, "dynamic_args_node") = Word("body") => Is(Lookup(Q, "dynamic_args_path"), "string")
        /\ args[name] # Null /\ Listed(args[name][2])
        /\ messages = PlacingAll(Q, name, args[name][2])
    BY <1>1, <1>2, <1>10, DynamicIs
  <2>2. messages = PlacingAll(Q, name, list)
    BY <1>3, <2>1
  <2>3. QED
    BY <1>3, <1>4, <1>8, <2>1, <2>2 DEF PlacingAll
<1>12. AsText(q, Expected(b, "query", Q)) /\ u \in Uris(b)
  BY <1>5, <1>6, <1>11 DEF FieldsMeant
<1>13. PICK a, h : MessagesAre(Q, AsksJson(H), a, h)
  BY <1>9, MessageIs
<1>14. AsText(h, H)
  <2>1. PICK m : m = Message(Q, u, q, y)
    OBVIOUS
  <2>2. AsText(m.header, H)
    BY <1>9, <2>1, MessageIs
  <2>3. m.header = h
    BY <1>13, <2>1 DEF MessagesAre
  <2>4. QED
    BY <2>2, <2>3
<1>15. /\ Word("uri")[2][1] = "uri" /\ Word("query")[2][1] = "query" /\ Word("body")[2][1] = "body"
       /\ Word("uri") # Word("query") /\ Word("uri") # Word("body") /\ Word("query") # Word("body")
  BY DEF Word, Str
<1>16. DOMAIN messages = DOMAIN list /\ Len(messages) = Len(list)
  <2>1. Len(list) \in Nat /\ DOMAIN list = 1..Len(list)
    BY <1>11 DEF Listed
  <2>2. messages = [i \in 1..Len(list) |-> Placing(Q, name, list[i])]
    BY <1>11, <2>1
  <2>3. QED
    BY <2>1, <2>2
<1> DEFINE Rec(v, w, x) == [method |-> a, uri |-> v, header |-> h, query |-> w, body |-> x]
           body1 == IF AsksJson(H) THEN y ELSE Absent
           Goal(m, z) == MessageMeant(m, H, Expected(b, "query", Q), Expected(b, "body", Q), Uris(b), z)
<1>17. \E rest : \A i \in DOMAIN list :
         Goal(messages[i], node[2][1]) /\ InPlace(Q, messages[i], list[i]) /\ RestOf(Q, messages[i]) = rest
  <2>1. CASE node = Word("uri")
    <3>1. ASSUME NEW i \in DOMAIN list
          PROVE  /\ Goal(messages[i], node[2][1]) /\ InPlace(Q, messages[i], list[i])
                 /\ RestOf(Q, messages[i]) = Rec(<<>>, q, body1)
      <4>1. PICK v : v = Concat(u, Text(list[i]))
        OBVIOUS
      <4>2. PICK m : m = messages[i]
        OBVIOUS
      <4>3. m = Message(Q, v, q, y)
        <5>1. m = Placing(Q, name, list[i])
          BY <1>11, <4>2
        <5>2. QED
          BY <1>4, <1>5, <1>6, <1>7, <2>1, <4>1, <5>1, PlacingIs
      <4>4. m = Rec(v, q, body1)
        BY <1>13, <4>3 DEF MessagesAre
      <4>5. m.uri = v /\ m.query = q /\ m.header = h /\ m.body = body1
        BY <4>4
      <4>6. InPlace(Q, m, list[i])
        BY <1>1, <1>2, <1>4, <1>5, <2>1, <4>1, <4>5, PlacesAre
      <4>7. RestOf(Q, m) = Rec(<<>>, q, body1)
        <5>1. RestOf(Q, m) = WithoutUri(m)
          BY <1>1, <1>2, <1>4, <2>1, PlacesAre
        <5>2. QED
          BY <4>4, <5>1 DEF WithoutUri
      <4>8. Goal(m, "uri")
        BY <1>12, <1>14, <4>5 DEF MessageMeant, AsksJson
      <4>9. QED
        BY <1>15, <2>1, <4>2, <4>6, <4>7, <4>8
    <3>2. QED
      BY <3>1
  <2>2. CASE node = Word("query")
    <3>1. PICK c : c = [k \in DOMAIN q \cup {name} |-> IF k = name THEN <<>> ELSE q[k]]
      OBVIOUS
    <3>2. ASSUME NEW i \in DOMAIN list
          PROVE  /\ Goal(messages[i], node[2][1]) /\ InPlace(Q, messages[i], list[i])
                 /\ RestOf(Q, messages[i]) = Rec(u, c, body1)
      <4>1. PICK w : w = [k \in DOMAIN q \cup {name} |-> IF k = name THEN Text(list[i]) ELSE q[k]]
        OBVIOUS
      <4>2. PICK m : m = messages[i]
        OBVIOUS
      <4>3. m = Message(Q, u, w, y)
        <5>1. m = Placing(Q, name, list[i])
          BY <1>11, <4>2
        <5>2. QED
          BY <1>4, <1>5, <1>6, <1>7, <2>2, <4>1, <5>1, PlacingIs
      <4>4. m = Rec(u, w, body1)
        BY <1>13, <4>3 DEF MessagesAre
      <4>5. m.uri = u /\ m.query = w /\ m.header = h /\ m.body = body1
        BY <4>4
      <4>6. w[name] = Text(list[i]) /\ [w EXCEPT ![name] = <<>>] = c
        BY <3>1, <4>1, WithName
      <4>7. InPlace(Q, m, list[i])
        BY <1>1, <1>2, <1>4, <2>2, <4>5, <4>6, PlacesAre
      <4>8. RestOf(Q, m) = Rec(u, c, body1)
        <5>1. RestOf(Q, m) = WithoutQuery(m, name)
          <6>1. name = ArgumentName(Q) /\ Lookup(Q, "dynamic_args_node") = Word("query")
            BY <1>2, <1>4, <2>2
          <6>2. QED
            BY ONLY <6>1, PlacesAre
        <5>2. WithoutQuery(m, name) = [m EXCEPT !.query = [m.query EXCEPT ![name] = <<>>]]
          BY DEF WithoutQuery
        <5>3. [m EXCEPT !.query = c] = Rec(u, c, body1)
          BY <4>4
        <5>4. QED
          BY <4>5, <4>6, <5>1, <5>2, <5>3
      <4>9. Goal(m, "query")
        BY <1>12, <1>14, <4>5 DEF MessageMeant, AsksJson
      <4>10. QED
        BY <1>15, <2>2, <4>2, <4>7, <4>8, <4>9
    <3>3. QED
      BY <3>2
  <2>3. CASE node = Word("body")
    <3>1. ASSUME NEW i \in DOMAIN list
          PROVE  /\ Goal(messages[i], node[2][1]) /\ InPlace(Q, messages[i], list[i])
                 /\ RestOf(Q, messages[i]) = Rec(u, q, Absent)
      <4>1. PICK x : x = SetAt(IF y = Absent THEN Null ELSE y, path[2], list[i])
        OBVIOUS
      <4>2. PICK m : m = messages[i]
        OBVIOUS
      <4>3. m = Message(Q, u, q, x)
        <5>1. m = Placing(Q, name, list[i])
          BY <1>11, <4>2
        <5>2. QED
          BY <1>4, <1>5, <1>6, <1>7, <1>8, <2>3, <4>1, <5>1, PlacingIs
      <4>4. m = Rec(u, q, IF AsksJson(H) THEN x ELSE Absent)
        BY <1>13, <4>3 DEF MessagesAre
      <4>5. m.uri = u /\ m.query = q /\ m.header = h /\ m.body = IF AsksJson(H) THEN x ELSE Absent
        BY <4>4
      <4>6. GetAt(x, path[2]) = list[i]
        <5>1. path[2] \in Seq(STRING)
          BY <1>10, <1>11, <2>3 DEF Is, Absent
        <5>2. QED
          BY <4>1, <5>1, GetWhatIsSet
      <4>7. InPlace(Q, m, list[i])
        BY <1>1, <1>2, <1>4, <1>8, <2>3, <4>5, <4>6, PlacesAre
      <4>8. RestOf(Q, m) = Rec(u, q, Absent)
        <5>1. RestOf(Q, m) = WithoutBody(m)
          BY <1>1, <1>2, <1>4, <2>3, PlacesAre
        <5>2. QED
          BY <4>4, <5>1 DEF WithoutBody
      <4>9. Goal(m, "body")
        BY <1>12, <1>14, <4>5 DEF MessageMeant, AsksJson
      <4>10. QED
        BY <1>15, <2>3, <4>2, <4>7, <4>8, <4>9
    <3>2. QED
      BY <3>1
  <2>4. QED
    BY <1>10, <2>1, <2>2, <2>3
<1>18. PICK rest : \A i \in DOMAIN list :
         Goal(messages[i], node[2][1]) /\ InPlace(Q, messages[i], list[i]) /\ RestOf(Q, messages[i]) = rest
  BY <1>17
<1>19. \A j \in DOMAIN messages :
         MessageMeant(messages[j], Expected(b, "header", Q), Expected(b, "query", Q),
                      Expected(b, "body", Q), Uris(b), Lookup(Q, "dynamic_args_node")[2][1])
  BY <1>4, <1>9, <1>16, <1>18
<1>20. ListIn(Q) = list
  BY <1>1, <1>2, <1>3, <1>11 DEF ListIn
<1>21. ArgumentsMeant(messages, Q)
  <2>1. 1 \in DOMAIN list \/ list = <<>>
    BY <1>11 DEF Listed
  <2>2. \A i \in DOMAIN list : InPlace(Q, messages[i], list[i]) /\ RestOf(Q, messages[i]) = RestOf(Q, messages[1])
    BY <1>18, <2>1
  <2>3. QED
    BY <1>16, <1>20, <2>2, ArgumentsAre
<1>22. QED
  BY <1>19, <1>21

\* The commands of a Redis service, as its variable has them.
CommandValue(c, R) ==
  Obj([op |-> c.op, arg |-> Arr([j \in DOMAIN c.arg |-> Str(Text(Evaluate(c.arg[j], R)))])])
CommandValues(cmds, R) == Arr([i \in DOMAIN cmds |-> CommandValue(cmds[i], R)])

LEMMA FirstIs ==
  ASSUME NEW vs, Listed(vs), NEW result, ~Bad(First(vs, result))
  PROVE  First(vs, result) = result /\ \A i \in DOMAIN vs : ~Bad(vs[i])
<1> DEFINE bad == {i \in DOMAIN vs : Bad(vs[i])}
           least == CHOOSE i \in bad : \A j \in bad : i <= j
<1>1. First(vs, result) = IF bad = {} THEN result ELSE vs[least]
  BY DEF First
<1>2. CASE bad = {}
  BY <1>1, <1>2
<1>3. CASE bad # {}
  <2>1. bad \in SUBSET Nat
    BY DEF Listed
  <2>2. least \in bad
    <3> HIDE DEF bad
    <3>1. \E i \in bad : \A j \in bad : i <= j
      BY <1>3, <2>1, LeastExists
    <3>2. QED
      BY <3>1
  <2> HIDE DEF least
  <2>3. QED
    BY <1>1, <1>3, <2>2
<1>4. QED
  BY <1>2, <1>3

\* Commands that are evaluated without an error.
LEMMA RedisRan ==
  ASSUME NEW r, NEW b, ListOf(b.cmds, Command1), NEW w, w = RedisFields(b, r), ~Bad(w.v)
  PROVE  ~Bad(r.v) /\ w = Ok(SetVar(r.S, "redis_cmd", CommandValues(b.cmds, r.S)))
<1>1. PICK vs : vs = [i \in DOMAIN b.cmds |-> Command(b.cmds[i].op, EvaluateAll(b.cmds[i].arg, r.S))]
  OBVIOUS
<1>2. PICK v : v = AllOf(vs)
  OBVIOUS
<1>3. w = With(r, v, SetVar(r.S, "redis_cmd", v))
  BY <1>1, <1>2 DEF RedisFields, SetTo
<1>4. ~Bad(r.v)
  BY <1>3 DEF With
<1>5. ~Bad(v)
  <2> SUFFICES ASSUME Bad(v)
               PROVE  FALSE
    OBVIOUS
  <2>1. w = [r EXCEPT !.v = v]
    BY <1>3, <1>4 DEF With
  <2>2. PICK d : d = [r EXCEPT !.v = v]
    OBVIOUS
  <2>3. QED
    BY <2>1, <2>2
<1>6. w = Ok(SetVar(r.S, "redis_cmd", v))
  BY <1>3, <1>4, <1>5 DEF With
<1>7. Len(b.cmds) \in Nat /\ DOMAIN b.cmds = 1..Len(b.cmds) /\ \A i \in DOMAIN b.cmds : Listed(b.cmds[i].arg)
  BY DEF ListOf, Listed, Command1
<1>8. Listed(vs) /\ DOMAIN vs = DOMAIN b.cmds
  BY <1>1, <1>7 DEF Listed
<1>9. v = Arr(vs) /\ \A i \in DOMAIN vs : ~Bad(vs[i])
  BY <1>2, <1>5, <1>8, FirstIs DEF AllOf
<1>10. ASSUME NEW i \in DOMAIN vs
       PROVE  vs[i] = CommandValue(b.cmds[i], r.S)
  <2>1. PICK c : c = b.cmds[i]
    OBVIOUS
  <2>2. PICK es : es = EvaluateAll(c.arg, r.S)
    OBVIOUS
  <2>3. es = [j \in DOMAIN c.arg |-> Evaluate(c.arg[j], r.S)]
    BY <2>2 DEF EvaluateAll
  <2>4. PICK o : o = Obj([op |-> c.op, arg |-> Arr([j \in DOMAIN es |-> Str(Text(es[j]))])])
    OBVIOUS
  <2>5. vs[i] = First(es, o)
    BY <1>1, <1>8, <2>1, <2>2, <2>4 DEF Command
  <2>6. Listed(es)
    <3>1. Listed(c.arg)
      BY <1>7, <1>8, <2>1
    <3>2. QED
      BY <2>3, <3>1 DEF Listed
  <2>7. vs[i] = o
    BY <1>9, <2>5, <2>6, FirstIs
  <2>8. [j \in DOMAIN es |-> Str(Text(es[j]))] = [j \in DOMAIN c.arg |-> Str(Text(Evaluate(c.arg[j], r.S)))]
    BY <2>3
  <2>9. o = CommandValue(c, r.S)
    BY <2>4, <2>8 DEF CommandValue
  <2>10. QED
    BY <2>1, <2>7, <2>9
<1>11. vs = [i \in DOMAIN b.cmds |-> CommandValue(b.cmds[i], r.S)]
  BY <1>1, <1>8, <1>10
<1>12. QED
  BY <1>4, <1>6, <1>9, <1>11 DEF CommandValues

\* The commands that count: the template's, if there is one.
CommandsOf(b) == IF b.include = <<>> THEN b.cmds ELSE b.include[1].cmds

\* Nothing of Redis there yet.
NoCommands(R) == \A i \in DOMAIN R : "redis_cmd" \notin DOMAIN R[i]

LEMMA DefinedCommands ==
  ASSUME NEW r, Run(r), NoCommands(r.S), NEW b, Asks(b), NEW d, d = Defined(b.def, r)
  PROVE  Run(d) /\ NoCommands(d.S)
<1>1. DefinesNoKeyword(b.def)
  BY DEF Asks
<1>2. Run(d) /\ Keeps(d.S, r.S)
  BY <1>1, DefinedRuns
<1>3. "redis_cmd" \in Preserved
  BY DEF Preserved, Keywords
<1>4. NoCommands(d.S)
  <2> HIDE DEF Preserved
  <2>1. "redis_cmd" \notin DOMAIN d.S[1]
    <3>1. 1 \in DOMAIN r.S
      BY DEF Run
    <3>2. QED
      BY <1>2, <1>3, <3>1 DEF Keeps, NoCommands
  <2>2. QED
    BY <1>2, <2>1 DEF Keeps, NoCommands
<1>5. QED
  BY <1>2, <1>4

\* The variable in the end, whatever scopes the commands were evaluated in.
CommandsAsked(Q, b) ==
  \E R : /\ FieldsOnly(R, Q) /\ Lookup(Q, "redis_cmd") = CommandValues(CommandsOf(b), R)

LEMMA CommandsSet ==
  ASSUME NEW R, Listed(R), 1 \in DOMAIN R, NoCommands(R), NEW v, NEW w, w = SetVar(R, "redis_cmd", v)
  PROVE  /\ Listed(w) /\ 1 \in DOMAIN w /\ FieldsOnly(R, w) /\ Lookup(w, "redis_cmd") = v
         /\ \A u : \A z : z = SetVar(w, "redis_cmd", u) => FieldsOnly(R, z) /\ Lookup(z, "redis_cmd") = v
<1>1. Touches(w, R, "redis_cmd") /\ "redis_cmd" \in DOMAIN w[1]
      /\ w[1]["redis_cmd"] = IF "redis_cmd" \in DOMAIN R[1] THEN R[1]["redis_cmd"] ELSE v
  BY SetVarIs
<1>2. w[1]["redis_cmd"] = v
  BY <1>1 DEF NoCommands
<1>3. "redis_cmd" \in FieldNames
  BY DEF FieldNames
<1>4. FieldsOnly(w, R)
  BY <1>1, <1>3, TouchesField
<1>5. Listed(w) /\ 1 \in DOMAIN w
  BY <1>4 DEF FieldsOnly, SameBelow
<1>6. FieldsOnly(R, w)
  BY <1>4, FieldsBack
<1>7. Lookup(w, "redis_cmd") = v
  BY <1>1, <1>2, <1>5, LookupTop
<1>8. ASSUME NEW u, NEW z, z = SetVar(w, "redis_cmd", u)
      PROVE  FieldsOnly(R, z) /\ Lookup(z, "redis_cmd") = v
  <2>1. z = w
    BY <1>1, <1>8 DEF SetVar
  <2>2. QED
    BY <1>6, <1>7, <2>1
<1>9. QED
  BY <1>5, <1>6, <1>7, <1>8

LEMMA RedisRequestIs ==
  ASSUME NEW R, Listed(R), NoCommands(R), NEW b, Asks(b), ListOf(b.include, Asks), Len(b.include) <= 1,
         NEW w, w = RunRequest("redis", b, <<<<>>>> \o R), ~Bad(w.v)
  PROVE  CommandsAsked(w.S, b)
<1>1. PICK T : T = <<<<>>>> \o R
  OBVIOUS
<1>2. Listed(T) /\ 1 \in DOMAIN T /\ NoCommands(T)
  <2>1. Atop(T, <<>>, R)
    BY <1>1, OnTop
  <2>2. T[1] = <<>> /\ \A i \in DOMAIN T : i = 1 \/ (i - 1 \in DOMAIN R /\ T[i] = R[i - 1])
    BY <2>1 DEF Atop
  <2>3. QED
    BY <2>1, <2>2 DEF Atop, NoCommands
<1>3. PICK r0 : r0 = Ok(T)
  OBVIOUS
<1>4. Run(r0) /\ NoCommands(r0.S)
  BY <1>2, <1>3, OkRuns
<1>5. PICK r : r = Defined(b.def, r0)
  OBVIOUS
<1>6. Run(r) /\ NoCommands(r.S)
  BY <1>4, <1>5, DefinedCommands
<1>7. ListOf(b.cmds, Command1)
  BY DEF Asks
<1>8. CASE b.include = <<>>
  <2>1. w = RedisFields(b, r)
    BY <1>1, <1>3, <1>5, <1>8 DEF RunRequest, Fields
  <2>2. w = Ok(SetVar(r.S, "redis_cmd", CommandValues(b.cmds, r.S)))
    BY <1>7, <2>1, RedisRan
  <2>3. w.S = SetVar(r.S, "redis_cmd", CommandValues(b.cmds, r.S))
    BY <2>2 DEF Ok
  <2>4. FieldsOnly(r.S, w.S) /\ Lookup(w.S, "redis_cmd") = CommandValues(b.cmds, r.S)
    BY <1>6, <2>3, CommandsSet DEF Run
  <2>5. CommandsOf(b) = b.cmds
    BY <1>8 DEF CommandsOf
  <2>6. QED
    BY <2>4, <2>5 DEF CommandsAsked
<1>9. CASE b.include # <<>>
  <2>1. PICK t : t = b.include[1]
    OBVIOUS
  <2>2. 1 \in DOMAIN b.include
    <3>1. Len(b.include) \in Nat /\ b.include = [i \in 1..Len(b.include) |-> b.include[i]]
      BY DEF ListOf, Listed
    <3>2. Len(b.include) # 0
      BY <1>9, <3>1
    <3>3. QED
      BY <3>1, <3>2
  <2>3. Asks(t)
    BY <2>1, <2>2 DEF ListOf
  <2>4. PICK d : d = Defined(t.def, r)
    OBVIOUS
  <2>5. Run(d) /\ NoCommands(d.S)
    BY <1>6, <2>3, <2>4, DefinedCommands
  <2>6. PICK f : f = RedisFields(t, d)
    OBVIOUS
  <2>7. w = RedisFields(b, f)
    BY <1>1, <1>3, <1>5, <1>9, <2>1, <2>4, <2>6 DEF RunRequest, WithFields, Fields
  <2>8. ~Bad(f.v) /\ w = Ok(SetVar(f.S, "redis_cmd", CommandValues(b.cmds, f.S)))
    BY <1>7, <2>7, RedisRan
  <2>9. ListOf(t.cmds, Command1)
    BY <2>3 DEF Asks
  <2>10. f = Ok(SetVar(d.S, "redis_cmd", CommandValues(t.cmds, d.S)))
    BY <2>6, <2>8, <2>9, RedisRan
  <2>11. f.S = SetVar(d.S, "redis_cmd", CommandValues(t.cmds, d.S))
    BY <2>10 DEF Ok
  <2>12. w.S = SetVar(f.S, "redis_cmd", CommandValues(b.cmds, f.S))
    BY <2>8 DEF Ok
  <2>13. FieldsOnly(d.S, w.S) /\ Lookup(w.S, "redis_cmd") = CommandValues(t.cmds, d.S)
    BY <2>5, <2>11, <2>12, CommandsSet DEF Run
  <2>14. CommandsOf(b) = t.cmds
    BY <1>9, <2>1 DEF CommandsOf
  <2>15. QED
    BY <2>13, <2>14 DEF CommandsAsked
<1>10. QED
  BY <1>8, <1>9

\* The components of a command; what is meant by commands.
LineOf(c, Q) == <<c.op>> \o [j \in DOMAIN c.arg |-> Str(Text(Evaluate(c.arg[j], Q)))]

LEMMA LinesAreMeant ==
  ASSUME NEW Q, NEW b, NEW cmds, cmds = CommandsOf(b), NEW all, Len(all) = Len(cmds),
         \A i \in DOMAIN cmds : all[i] = LineOf(cmds[i], Q)
  PROVE  CommandsMeant(b, all, Q)
<1>1. CASE b.include = <<>>
  <2>1. b.cmds = cmds
    BY <1>1 DEF CommandsOf
  <2>2. QED
    BY <1>1, <2>1 DEF CommandsMeant, LineOf
<1>2. CASE b.include # <<>>
  <2>1. b.include[1].cmds = cmds
    BY <1>2 DEF CommandsOf
  <2>2. QED
    BY <1>2, <2>1 DEF CommandsMeant, LineOf
<1>3. QED
  BY <1>1, <1>2

LEMMA CommandsStay ==
  ASSUME NEW cmds, \A i \in DOMAIN cmds : \A j \in DOMAIN cmds[i].arg : Unread(cmds[i].arg[j]),
         NEW R, NEW Q, FieldsOnly(R, Q)
  PROVE  CommandValues(cmds, R) = CommandValues(cmds, Q)
<1>1. ASSUME NEW i \in DOMAIN cmds
      PROVE  CommandValue(cmds[i], R) = CommandValue(cmds[i], Q)
  <2>1. PICK c : c = cmds[i]
    OBVIOUS
  <2>2. \A j \in DOMAIN c.arg : Evaluate(c.arg[j], R) = Evaluate(c.arg[j], Q)
    BY <2>1 DEF Unread
  <2>3. [j \in DOMAIN c.arg |-> Str(Text(Evaluate(c.arg[j], R)))]
          = [j \in DOMAIN c.arg |-> Str(Text(Evaluate(c.arg[j], Q)))]
    BY <2>2
  <2>4. QED
    BY <2>1, <2>3 DEF CommandValue
<1>2. [i \in DOMAIN cmds |-> CommandValue(cmds[i], R)] = [i \in DOMAIN cmds |-> CommandValue(cmds[i], Q)]
  BY <1>1
<1>3. QED
  BY <1>2 DEF CommandValues

\* What is sent to Redis.
LEMMA RedisSent ==
  ASSUME NEW Q, NEW b, ListOf(CommandsOf(b), Command1), CommandsAsked(Q, b),
         \A i \in DOMAIN CommandsOf(b) : \A j \in DOMAIN CommandsOf(b)[i].arg : Unread(CommandsOf(b)[i].arg[j]),
         NEW messages, messages = RedisMessages(Q).sent, messages # <<>>
  PROVE  CommandsMeant(b, messages[1], Q)
<1>1. PICK cmds : cmds = CommandsOf(b)
  OBVIOUS
<1>2. PICK R : FieldsOnly(R, Q) /\ Lookup(Q, "redis_cmd") = CommandValues(cmds, R)
  BY <1>1 DEF CommandsAsked
<1>3. Lookup(Q, "redis_cmd") = CommandValues(cmds, Q)
  BY <1>1, <1>2, CommandsStay
<1>4. PICK cs : cs = [i \in DOMAIN cmds |-> CommandValue(cmds[i], Q)]
  OBVIOUS
<1>5. Lookup(Q, "redis_cmd")[2] = cs
  BY <1>3, <1>4 DEF CommandValues, Arr
<1>6. PICK all : all = [i \in DOMAIN cs |-> <<cs[i][2].op>> \o cs[i][2].arg[2]]
  OBVIOUS
<1>7. messages = <<>> \/ messages = <<all>>
  BY <1>5, <1>6 DEF RedisMessages, NotSent, Send
<1>8. messages[1] = all
  BY <1>7
<1>9. Len(cmds) \in Nat /\ DOMAIN cmds = 1..Len(cmds)
  BY <1>1 DEF ListOf, Listed
<1>10. ASSUME NEW i \in DOMAIN cmds
       PROVE  all[i] = LineOf(cmds[i], Q)
  <2>1. PICK c : c = cmds[i]
    OBVIOUS
  <2>2. PICK a : a = [j \in DOMAIN c.arg |-> Str(Text(Evaluate(c.arg[j], Q)))]
    OBVIOUS
  <2>3. cs[i] = Obj([op |-> c.op, arg |-> Arr(a)])
    BY <1>4, <2>1, <2>2 DEF CommandValue
  <2>4. cs[i][2].op = c.op /\ cs[i][2].arg[2] = a
    BY <2>3 DEF Obj, Arr
  <2>5. all[i] = <<c.op>> \o a
    BY <1>4, <1>6, <2>4
  <2>6. QED
    BY <2>1, <2>2, <2>5 DEF LineOf
<1>11. Len(all) = Len(cmds)
  BY <1>4, <1>6, <1>9
<1>12. QED
  BY <1>1, <1>8, <1>10, <1>11, LinesAreMeant

-----------------------------------------------------------------------------
(* What is sent is what is configured.                                     *)

\* What the services of a node are asked with: expressions that give JSON or an error, and
\* read no field of a request.
RequestsGive ==
  \A s \in Setups : \A i \in DOMAIN s.services :
    \A d \in BlocksOf(s.services[i].request) : AskGives(d) /\ Blind(d)

\* No field of a request is in the scopes of a node.
Blank(R) ==
  \A i \in DOMAIN R : \A x \in Docs \cup {"http_uri", "redis_cmd"} : x \notin DOMAIN R[i]

LEMMA SentIsMeant ==
  ASSUME MergesOnce, NEW R, JsonScopes(R, 2), Blank(R), NEW kind, NEW b,
         Asks(b), ListOf(b.include, Asks), Len(b.include) <= 1,
         \A d \in BlocksOf(b) : AskGives(d) /\ Blind(d), BlocksJoin(b),
         NEW messages, messages = Messages(kind, b, R).sent, messages # <<>>,
         NEW Q, Q = RunRequest(kind, b, <<<<>>>> \o R).S, kind # "redis" => PlainIn(kind, b, Q)
  PROVE  IF kind = "redis" THEN CommandsMeant(b, messages[1], Q)
         ELSE /\ \A j \in DOMAIN messages :
                   MessageMeant(messages[j], Expected(b, "header", Q), Expected(b, "query", Q),
                                Expected(b, "body", Q), Uris(b),
                                IF kind = "dynamic" THEN Lookup(Q, "dynamic_args_node")[2][1] ELSE "none")
              /\ kind = "dynamic" => ArgumentsMeant(messages, Q)
<1>1. PICK w : w = RunRequest(kind, b, <<<<>>>> \o R)
  OBVIOUS
<1>2. w.S = Q /\ messages = MessagesOf(kind, w).sent
  BY <1>1 DEF Messages
<1>3. ~Bad(w.v)
  BY <1>2 DEF MessagesOf, NotSent
<1>4. Listed(R)
  BY DEF JsonScopes
<1>5. b \in BlocksOf(b) /\ \A i \in DOMAIN b.include : b.include[i] \in BlocksOf(b)
  BY DEF BlocksOf, ToSet
<1>6. CASE kind = "redis"
  <2>1. NoCommands(R)
    BY DEF NoCommands, Blank
  <2>2. PICK k : k = "redis"
    OBVIOUS
  <2>3. CommandsAsked(w.S, b)
    BY <1>1, <1>3, <1>4, <1>6, <2>1, RedisRequestIs
  <2>4. messages = RedisMessages(Q).sent
    BY <1>2, <1>3, <1>6 DEF MessagesOf
  <2>5. PICK d \in BlocksOf(b) : CommandsOf(b) = d.cmds /\ Asks(d)
    <3>1. CASE b.include = <<>>
      BY <1>5, <3>1 DEF CommandsOf
    <3>2. CASE b.include # <<>>
      <4>1. 1 \in DOMAIN b.include
        <5>1. Len(b.include) \in Nat /\ b.include = [i \in 1..Len(b.include) |-> b.include[i]]
          BY DEF ListOf, Listed
        <5>2. Len(b.include) # 0
          BY <3>2, <5>1
        <5>3. QED
          BY <5>1, <5>2
      <4>2. PICK d : d = b.include[1]
        OBVIOUS
      <4>3. d \in BlocksOf(b) /\ Asks(d)
        BY <1>5, <4>1, <4>2 DEF ListOf
      <4>4. CommandsOf(b) = d.cmds
        BY <3>2, <4>2 DEF CommandsOf
      <4>5. QED
        BY <4>3, <4>4
    <3>3. QED
      BY <3>1, <3>2
  <2>6. PICK cmds : cmds = CommandsOf(b)
    OBVIOUS
  <2>7. ListOf(cmds, Command1)
    BY <2>5, <2>6 DEF Asks
  <2>8. \A i \in DOMAIN cmds : \A j \in DOMAIN cmds[i].arg : Unread(cmds[i].arg[j])
    BY <2>5, <2>6 DEF Blind
  <2>9. CommandsMeant(b, messages[1], Q)
    BY <1>2, <2>3, <2>4, <2>6, <2>7, <2>8, RedisSent
  <2>10. QED
    BY <1>6, <2>9
<1>7. CASE kind # "redis"
  <2>1. Asking(b) /\ Included(b)
    <3>1. Asking(b)
      BY <1>5 DEF Asking
    <3>2. \A i \in DOMAIN b.include : Asking(b.include[i])
      BY <1>5 DEF Asking, ListOf
    <3>3. QED
      BY <3>1, <3>2 DEF Included, ListOf
  <2>2. \A x \in Docs \cup {"http_uri"} : Free(R, x)
    BY DEF Blank, Free
  <2>3. PICK n \in Nat : n = 2
    OBVIOUS
  <2>4. Requested(Q, b, n + 1)
    <3>1. JsonScopes(R, n)
      BY <2>3
    <3>2. Requested(w.S, b, n + 1)
      BY <1>1, <1>3, <1>7, <2>1, <2>2, <3>1, RequestIs
    <3>3. QED
      BY <1>2, <3>2
  <2>5. PICK m \in Nat : m = n + 1
    OBVIOUS
  <2>6. Requested(Q, b, m) /\ JsonScopes(Q, m)
    BY <2>4, <2>5 DEF Requested
  <2>7. FieldsMeant(Q, b)
    BY <1>7, <2>1, <2>6, FieldsAreMeant
  <2>8. CASE kind # "dynamic"
    <3>1. messages = HttpMessages(kind, Q).sent
      BY <1>2, <1>3, <1>7, <2>8 DEF MessagesOf
    <3>2. ASSUME NEW j \in DOMAIN messages
          PROVE  MessageMeant(messages[j], Expected(b, "header", Q), Expected(b, "query", Q),
                              Expected(b, "body", Q), Uris(b), "none")
      BY <2>7, <3>1, HttpSent
    <3>3. QED
      BY <1>7, <2>8, <3>2
  <2>9. CASE kind = "dynamic"
    <3>1. messages = DynamicMessages(Q).sent
      BY <1>2, <1>3, <2>9 DEF MessagesOf
    <3>2. PlainIn("dynamic", b, Q)
      BY <2>9
    <3>3. /\ \A j \in DOMAIN messages :
               MessageMeant(messages[j], Expected(b, "header", Q), Expected(b, "query", Q),
                            Expected(b, "body", Q), Uris(b), Lookup(Q, "dynamic_args_node")[2][1])
          /\ ArgumentsMeant(messages, Q)
      BY <2>6, <2>7, <3>1, <3>2, DynamicSent
    <3>4. QED
      BY <2>9, <3>3
  <2>10. QED
    BY <2>8, <2>9
<1>8. QED
  BY <1>6, <1>7

\* The inductive invariant: until the first answer is parsed the scopes are as they were
\* when the messages were made, and have no field of a request.
AskingNow == pc \in {"define", "build"} \/ (pc = "parse" /\ at = 1)
SentHeld ==
  /\ pc = "parse" => at \in Nat \ {0}
  /\ AskingNow =>
       /\ Stored /\ Blank(S)
       /\ \A i \in DOMAIN sent :
            sent[i] = Messages(setup.services[i].kind, setup.services[i].request, S).sent

LEMMA SentInit == ASSUME AllGive, Init PROVE SentHeld
<1>1. Stored
  BY StoredInit
<1>2. PICK scope : scope = [request |-> setup.request, backend |-> Obj(<<>>), result |-> Obj(<<>>)]
  OBVIOUS
<1>3. PICK none : none = <<>>
  OBVIOUS
<1>4. S = <<none, scope>> /\ DOMAIN none = {} /\ DOMAIN scope = {"request", "backend", "result"}
  BY <1>2, <1>3 DEF Init
<1>5. DOMAIN S = 1..2 /\ S[1] = none /\ S[2] = scope
  BY <1>4
<1>6. Blank(S)
  <2>1. \A i \in DOMAIN S : i = 1 \/ i = 2
    BY <1>5
  <2>2. \A x \in Docs \cup {"http_uri", "redis_cmd"} : x \notin DOMAIN none /\ x \notin DOMAIN scope
    BY <1>4 DEF Docs
  <2>3. QED
    BY <1>5, <2>1, <2>2 DEF Blank
<1>7. DOMAIN sent = {} /\ pc = "define"
  BY DEF Init
<1>8. QED
  BY <1>1, <1>6, <1>7 DEF SentHeld

LEMMA SentDefine == ASSUME AllGive, SentHeld, Define PROVE SentHeld'
<1>1. Stored /\ Blank(S) /\ pc = "define"
  BY DEF SentHeld, AskingNow, Define
<1>2. Stored'
  BY <1>1, StoredDefine
<1>3. PICK q : q = Defined(setup.def, Ok(S))
  OBVIOUS
<1>4. PICK r : r = Defined(setup.def, q)
  OBVIOUS
<1>5. S' = r.S /\ UNCHANGED <<at, sent>> /\ pc' # "parse"
  BY <1>3, <1>4 DEF Define, Outcome
<1>6. JsonScopes(S, 2) /\ DefinesNoKeyword(setup.def) /\ sent = <<>>
  BY <1>1, SetupFacts DEF Stored, StoredJson, Counted
<1>7. Keeps(r.S, S)
  <2>1. Run(Ok(S)) /\ Ok(S).S = S
    BY <1>6, OkRuns DEF JsonScopes
  <2>2. Run(q) /\ Keeps(q.S, S)
    BY <1>3, <1>6, <2>1, DefinedRuns
  <2>3. Keeps(r.S, q.S)
    BY <1>4, <1>6, <2>2, DefinedRuns
  <2>4. 1 \in DOMAIN S
    BY <1>6 DEF JsonScopes
  <2>5. QED
    BY <2>2, <2>3, <2>4, KeepsOn
<1>8. PICK T : T = r.S
  OBVIOUS
<1>9. Blank(T)
  <2>1. Docs \cup {"http_uri", "redis_cmd"} \subseteq Preserved
    BY DEF Docs, Preserved, Keywords
  <2> HIDE DEF Preserved
  <2>2. \A i \in DOMAIN T : i \in DOMAIN S /\ (i # 1 => T[i] = S[i])
    BY <1>7, <1>8 DEF Keeps
  <2>3. \A x \in Docs \cup {"http_uri", "redis_cmd"} : x \in DOMAIN T[1] <=> x \in DOMAIN S[1]
    BY <1>7, <1>8, <2>1 DEF Keeps
  <2>4. QED
    BY <1>1, <2>2, <2>3 DEF Blank
<1>10. DOMAIN sent' = {}
  BY <1>5, <1>6
<1>11. QED
  BY <1>2, <1>5, <1>8, <1>9, <1>10 DEF SentHeld

LEMMA SentBuild == ASSUME SentHeld, Build PROVE SentHeld'
<1>1. /\ Stored /\ Blank(S) /\ pc = "build"
      /\ \A i \in DOMAIN sent :
           sent[i] = Messages(setup.services[i].kind, setup.services[i].request, S).sent
  BY DEF SentHeld, AskingNow, Build
<1>2. Stored'
  BY <1>1, StoredBuild
<1>3. Listed(sent) /\ Len(sent) = at - 1 /\ at \in Nat \ {0}
  BY <1>1 DEF Stored, StoredJson, Counted
<1>4. PICK m : m = Messages(setup.services[at].kind, setup.services[at].request, S).sent
  OBVIOUS
<1>5. sent' = Append(sent, m) /\ UNCHANGED <<setup, S>>
  BY <1>4 DEF Build
<1>6. /\ sent'[Len(sent) + 1] = m /\ \A i \in DOMAIN sent : sent'[i] = sent[i]
      /\ Listed(sent') /\ Len(sent') = Len(sent) + 1
  <2>1. PICK s : s = sent
    OBVIOUS
  <2>2. PICK t : t = Append(s, m)
    OBVIOUS
  <2>3. Listed(s)
    BY <1>3, <2>1
  <2>4. /\ t[Len(s) + 1] = m /\ \A i \in DOMAIN s : t[i] = s[i]
        /\ Listed(t) /\ Len(t) = Len(s) + 1
    <3>1. Listed(t) /\ Len(t) = Len(s) + 1
      BY ONLY <2>2, <2>3, AppendListed
    <3>2. t[Len(s) + 1] = m
      BY ONLY <2>2, <2>3, AppendListed
    <3>3. \A i \in DOMAIN s : t[i] = s[i]
      BY ONLY <2>2, <2>3, AppendListed
    <3>4. QED
      BY <3>1, <3>2, <3>3
  <2>5. t = sent'
    BY <1>5, <2>1, <2>2
  <2>6. QED
    BY <2>1, <2>4, <2>5
<1>7. ASSUME NEW i \in DOMAIN sent'
      PROVE  sent'[i] = Messages(setup.services[i].kind, setup.services[i].request, S).sent
  <2>1. i \in DOMAIN sent \/ i = at
    BY <1>3, <1>6 DEF Listed
  <2>2. sent'[at] = m
    BY <1>3, <1>6
  <2>3. QED
    BY <1>1, <1>4, <1>6, <2>1, <2>2
<1>8. at' \in Nat \ {0}
  BY <1>2 DEF Stored, StoredJson
<1>9. QED
  BY <1>1, <1>2, <1>5, <1>7, <1>8 DEF SentHeld

LEMMA SentNext == ASSUME AllGive, SentHeld, [Next]_vars PROVE SentHeld'
<1>1. CASE UNCHANGED vars
  <2>1. UNCHANGED <<setup, pc, at, S, part, block, input, collected, sent, answered>>
    BY <1>1 DEF vars, rankVars
  <2>2. Stored => Stored'
    BY <1>1, StoredStop
  <2>3. QED
    BY <2>1, <2>2 DEF SentHeld, AskingNow
<1>2. CASE Define
  BY <1>2, SentDefine
<1>3. CASE Build
  BY <1>3, SentBuild
<1>4. CASE Parse
  <2>1. at' = at + 1 /\ at \in Nat \ {0} /\ pc' \in {"crashed", "recalled", "parse"}
    BY <1>4 DEF Parse, SentHeld
  <2>2. at' \in Nat \ {0} /\ at' # 1
    BY <2>1
  <2>3. QED
    BY <2>1, <2>2 DEF SentHeld, AskingNow
<1>5. CASE Recalled
  BY <1>5 DEF Recalled, SentHeld, AskingNow
<1>6. CASE RankOnly
  <2>1. pc' \notin {"define", "build", "parse"}
    BY <1>6 DEF RankOnly, RankStep, Input, Collect, CandidateOver, AllCollected, Sort, Outcome
  <2>2. QED
    BY <2>1 DEF SentHeld, AskingNow
<1>7. CASE Finish
  BY <1>7 DEF Finish, Outcome, SentHeld, AskingNow
<1>8. CASE Stop
  BY <1>1, <1>8 DEF Stop
<1>9. QED
  BY <1>1, <1>2, <1>3, <1>4, <1>5, <1>6, <1>7, <1>8 DEF Next

LEMMA SentHeldIsMeant ==
  ASSUME MergesOnce, RequestsGive, RequestsJoin, SentHeld, AskedPlainly
  PROVE  SentAsConfigured
<1> SUFFICES ASSUME pc = "parse", at = 1, NEW i \in DOMAIN sent, sent[i] # <<>>,
                    NEW b, b = setup.services[i].request, NEW kind, kind = setup.services[i].kind,
                    NEW Q, Q = RunRequest(kind, b, <<<<>>>> \o S).S
             PROVE  IF kind = "redis" THEN CommandsMeant(b, sent[i][1], Q)
                    ELSE /\ \A j \in DOMAIN sent[i] :
                              MessageMeant(sent[i][j], Expected(b, "header", Q), Expected(b, "query", Q),
                                           Expected(b, "body", Q), Uris(b),
                                           IF kind = "dynamic" THEN Lookup(Q, "dynamic_args_node")[2][1]
                                           ELSE "none")
                         /\ kind = "dynamic" => ArgumentsMeant(sent[i], Q)
  BY DEF SentAsConfigured
<1>1. Stored /\ Blank(S) /\ sent[i] = Messages(kind, b, S).sent
  BY DEF SentHeld, AskingNow
<1>2. setup \in Setups /\ JsonScopes(S, 2) /\ Listed(sent) /\ Len(sent) = Len(setup.services)
  BY <1>1 DEF Stored, StoredJson, Counted
<1>3. i \in DOMAIN setup.services
  BY <1>2, SetupFacts DEF Listed
<1>4. PICK service : service = setup.services[i]
  OBVIOUS
<1>5. Serves(service) /\ b = service.request
  BY <1>2, <1>3, <1>4, SetupFacts
<1>6. Asks(b) /\ ListOf(b.include, Asks) /\ Len(b.include) <= 1
  BY <1>5 DEF Serves
<1>7. (\A d \in BlocksOf(b) : AskGives(d) /\ Blind(d)) /\ BlocksJoin(b)
  BY <1>2, <1>3 DEF RequestsGive, RequestsJoin
<1>8. kind # "redis" => PlainIn(kind, b, Q)
  BY DEF AskedPlainly
<1>9. PICK messages : messages = sent[i]
  OBVIOUS
<1>10. PICK R : R = S
  OBVIOUS
<1>11. /\ JsonScopes(R, 2) /\ Blank(R) /\ messages = Messages(kind, b, R).sent /\ messages # <<>>
       /\ Q = RunRequest(kind, b, <<<<>>>> \o R).S
  BY <1>1, <1>2, <1>9, <1>10
<1>12. IF kind = "redis" THEN CommandsMeant(b, messages[1], Q)
       ELSE /\ \A j \in DOMAIN messages :
                 MessageMeant(messages[j], Expected(b, "header", Q), Expected(b, "query", Q),
                              Expected(b, "body", Q), Uris(b),
                              IF kind = "dynamic" THEN Lookup(Q, "dynamic_args_node")[2][1] ELSE "none")
            /\ kind = "dynamic" => ArgumentsMeant(messages, Q)
  BY <1>6, <1>7, <1>8, <1>11, SentIsMeant
<1>13. QED
  BY <1>9, <1>12

\* Whatever its services are configured with: what a node sends for one is what the block
\* and the template it includes say, header and query as text and of just the members that
\* are not null, the body with every key under its content type, the block's own before the
\* template's, to a configured URI; of a dynamic service one message for each element of
\* the argument, each in its place, and of Redis every command in order.  Of the blocks it
\* asks that no definition or expression meddles with the fields of a request, that keys of
\* a template are not on the way of those of its block, and of values that they have a text.
THEOREM SentIsConfigured ==
  ASSUME AllGive, RequestsGive, RequestsJoin, MergesOnce
  PROVE  Spec /\ []AskedPlainly => []SentAsConfigured
<1>1. Init => SentHeld
  BY SentInit
<1>2. SentHeld /\ [Next]_vars => SentHeld'
  BY SentNext
<1>3. SentHeld /\ AskedPlainly => SentAsConfigured
  BY SentHeldIsMeant
<1>4. QED
  BY <1>1, <1>2, <1>3, PTL DEF Spec
=============================================================================

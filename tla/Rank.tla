-------------------------------- MODULE Rank --------------------------------
(***************************************************************************)
(* The rank blocks of a flow node: FlowConfig::rank runs them in order,    *)
(* each evaluates its input, ranks it by a rule of the rank engine and     *)
(* leaves the best top_k names in `rank'.  RankConfig::run collects a      *)
(* list of features for every candidate, or for every element of an answer *)
(* that is an array, and sorts by them.                                    *)
(*                                                                         *)
(* Everything is JSON in the scopes of the node: the answers in `backend', *)
(* the names in `recall' and `rank', the item the sort_by expressions see. *)
(* The node around it is in Node.                                          *)
(***************************************************************************)
EXTENDS Values

CONSTANTS
  Services,             \* names of services
  Setups                \* the nodes to consider

\* A rank block: whether the rank engine knows its rule, the rule's order, from the
\* first group of services on, and sort_by list, the input, top_k (0 keeps all).
BlockAssumption(b) ==
  /\ b.known \in BOOLEAN
  /\ b.order \in Seq(SUBSET Services)
  /\ b.sortBy \in Seq(ToSet(b.sortBy))
  /\ \A i \in DOMAIN b.sortBy : b.sortBy[i].desc \in BOOLEAN
  /\ b.top \in Nat

ASSUME RankAssumption ==
  \A s \in Setups : /\ s.rank \in Seq(ToSet(s.rank))
                   /\ \A n \in DOMAIN s.rank : BlockAssumption(s.rank[n])

VARIABLES
  setup,        \* the configuration, which no step changes
  pc,           \* where it is
  at,           \* the service, or the candidate, it looks at
  part,         \* the element of the candidate's answer, if it is an array
  S,            \* the scopes: the node's, and the request's
  block,        \* the rank block it runs
  input,        \* the candidates of the block
  collected     \* the features of the names collected

rankVars == <<part, block, input, collected>>

Block == setup.rank[block]

\* A name in a list of candidates: a service, or the string "service/index".
Element(s, i) == Str(<<s, Numerals[i]>>)

\* Where a node begins to rank: it has recalled some services, has answers of some in
\* `backend', and nothing is ranked yet.
Answers == Lookup(S, "backend")[2]
RankInit ==
  /\ setup \in Setups /\ setup.rank # <<>>
  /\ pc = "input" /\ block = 1
  /\ S \in Seq(ToSet(S)) /\ S # <<>> /\ Lookup(S, "rank") = Absent
  /\ Is(Lookup(S, "recall"), "array")
  /\ Lookup(S, "recall")[2] \in Seq({Word(s) : s \in Services})
  /\ Is(Lookup(S, "backend"), "object")
  /\ \A s \in DOMAIN Answers :
       /\ Answers[s] # Absent
       /\ Is(Answers[s], "array") =>
            /\ Answers[s][2] \in Seq(ToSet(Answers[s][2]) \ {Absent})
            /\ Len(Answers[s][2]) <= Len(Numerals)

-----------------------------------------------------------------------------
(* One block: its input, its features.                                     *)

\* Where a step that may come to an error goes.
Outcome(v, to) == CASE v = Crash -> "crashed" [] v = Failure -> "failed" [] OTHER -> to

\* The input, then the rule is looked up.  Candidates that are not a list of strings
\* are read as one.
Candidates(v) == Is(v, "array") /\ \A i \in DOMAIN v[2] : Is(v[2][i], "string")
Input ==
  /\ pc = "input"
  /\ \E v \in {Evaluate(Block.input, S)} :
       LET u == IF Bad(v) THEN v ELSE IF ~Block.known THEN Failure
                ELSE IF ~Candidates(v) THEN Crash ELSE v
       IN  /\ pc' = Outcome(u, "collect")
           /\ input' = IF Bad(u) THEN <<>> ELSE u[2]
  /\ at' = 1 /\ part' = 1
  /\ collected' = <<>>
  /\ UNCHANGED <<setup, S, block>>

\* The number of features a name must have.
Required(b) == (IF b.order = <<>> THEN 0 ELSE 1) + Len(b.sortBy)

\* Whether the feature at a position is ranked from the greatest on: the order's is.
\* (Mutant: the order has no place of its own in the list.)
DescShifted(b, i) == i > Len(b.sortBy) \/ b.sortBy[i].desc
Desc(b, i) ==
  IF b.order = <<>> THEN b.sortBy[i].desc ELSE i = 1 \/ b.sortBy[i - 1].desc

\* The order's feature of a service, the greatest for the first group; a service
\* that the order does not name has none.  A service keeps its first group.
OrderFeature(b, s) ==
  LET groups == {i \in DOMAIN b.order : \E t \in b.order[i] : Word(t) = s} IN
  IF groups = {} THEN <<>>
  ELSE <<Num(Len(b.order) - (CHOOSE i \in groups : \A j \in groups : i <= j) + 1)>>

\* The variable `item' is the node's, and stays.
WithItem(it) == Reset(S, "item", it)

SortValues(b, it) ==
  AllOf([i \in DOMAIN b.sortBy |-> Evaluate(b.sortBy[i].expr, WithItem(it))])

\* The features of an item, if every expression evaluates and none is missing.  (Mutant:
\* an expression that fails leaves its error among them.)
WithFeatures(b, name, features) ==
  IF Len(features) = Required(b) THEN <<[name |-> name, features |-> features]>> ELSE <<>>
WithErrors(b, name, s, it) ==
  WithFeatures(b, name, OrderFeature(b, s) \o
                 [i \in DOMAIN b.sortBy |-> Evaluate(b.sortBy[i].expr, WithItem(it))])
Collected(b, name, s, it) ==
  IF Bad(SortValues(b, it)) THEN <<>>
  ELSE WithFeatures(b, name, OrderFeature(b, s) \o SortValues(b, it)[2])

\* What a candidate is ranked by: its answer, or each element of one that is an array.  A
\* name that is no service's, as "service/0", is not in `backend'.
Answer(name) == Member(Lookup(S, "backend"), name[2])
Items(name) ==
  LET answer == Answer(name)
  IN  IF answer = Absent THEN <<>> ELSE IF Is(answer, "array") THEN answer[2] ELSE <<answer>>
Name(name, i) == IF Is(Answer(name), "array") THEN Element(name[2][1], i) ELSE name

Collect ==
  /\ pc = "collect" /\ at <= Len(input) /\ part <= Len(Items(input[at]))
  /\ \E it \in {Items(input[at])[part]} :
       IF SortValues(Block, it) = Crash
       THEN pc' = "crashed" /\ UNCHANGED <<collected, S, part>>
       ELSE /\ collected' = collected \o Collected(Block, Name(input[at], part), input[at], it)
            /\ S' = WithItem(it)
            /\ part' = part + 1
            /\ UNCHANGED pc
  /\ UNCHANGED <<setup, at, block, input>>

CandidateOver ==
  /\ pc = "collect" /\ at <= Len(input) /\ part > Len(Items(input[at]))
  /\ at' = at + 1 /\ part' = 1
  /\ UNCHANGED <<setup, pc, S, block, input, collected>>

AllCollected ==
  /\ pc = "collect" /\ at > Len(input)
  /\ pc' = "sort"
  /\ UNCHANGED <<setup, at, S, rankVars>>

-----------------------------------------------------------------------------
(* Sorting.                                                                *)

\* Compare: whether a goes before b.  The first position decides at which both are
\* null (then neither does) or the numbers differ, null being 0.  (Mutant: equals go
\* before each other.)
Number(v) == IF v = Null THEN 0 ELSE v[2]
LessOrSame(b, f, g) ==
  LET decides == {i \in DOMAIN f : Number(f[i]) # Number(g[i])}
      i == CHOOSE i \in decides : \A j \in decides : i <= j
  IN  decides = {} \/ (Number(f[i]) < Number(g[i]) <=> ~Desc(b, i))
Less(b, f, g) ==
  LET decides == {i \in DOMAIN f : {f[i], g[i]} = {Null} \/ Number(f[i]) # Number(g[i])}
      i == CHOOSE i \in decides : \A j \in decides : i <= j
  IN  /\ decides # {}
      /\ {f[i], g[i]} # {Null}
      /\ Number(f[i]) < Number(g[i]) <=> ~Desc(b, i)

\* What std::sort asks of a comparison, on the features given.
Same(b, f, g) == ~Less(b, f, g) /\ ~Less(b, g, f)
StrictWeak(b, F) ==
  \A f, g, h \in F :
    /\ ~Less(b, f, f)
    /\ Less(b, f, g) /\ Less(b, g, h) => Less(b, f, h)
    /\ Same(b, f, g) /\ Same(b, g, h) => Same(b, f, h)

FeatureSet == {collected[i].features : i \in DOMAIN collected}

\* The orders std::sort may leave: it is not stable, and without a strict weak
\* order nothing is said of it.
Sortings(b, c) ==
  {p \in Bijection(DOMAIN c, DOMAIN c) :
     StrictWeak(b, FeatureSet) =>
       \A i, j \in DOMAIN c : i < j => ~Less(b, c[p[j]].features, c[p[i]].features)}

\* top_k.  (Mutant: the last of them.)
LastOf(b, names) ==
  IF b.top > 0 /\ Len(names) > b.top
  THEN SubSeq(names, Len(names) - b.top + 1, Len(names)) ELSE names
TopOf(b, names) ==
  IF b.top > 0 /\ Len(names) > b.top THEN SubSeq(names, 1, b.top) ELSE names

\* `rank' is erased and set anew.
Sort ==
  /\ pc = "sort"
  /\ \E p \in Sortings(Block, collected) :
       LET names == [i \in DOMAIN collected |-> collected[p[i]].name]
       IN  S' = Reset(S, "rank", Arr(TopOf(Block, names)))
  /\ block' = block + 1
  /\ pc' = IF block = Len(setup.rank) THEN "output" ELSE "input"
  /\ UNCHANGED <<setup, at, part, input, collected>>

RankStep == Input \/ Collect \/ CandidateOver \/ AllCollected \/ Sort

\* Ranking by itself, as it is in a node.
RankSpec == RankInit /\ [][RankStep]_<<setup, pc, at, S, rankVars>>

-----------------------------------------------------------------------------
(* Properties, about the block that has just ended and what `rank' holds.  *)

Ended == pc \in {"input", "output"} /\ block > 1
JustRun == setup.rank[block - 1]
Ranking == Lookup(S, "rank")[2]
Ranked == ToSet(Ranking)

\* "The order from top to bottom lowers the priority", services in one group having
\* the same, and has the highest place in the result (docs/config.md:241); then
\* sort_by by sort_by, from the greatest on or, if desc is 0, from the least on.
Group(b, s) ==
  IF b.order = <<>> THEN 0
  ELSE CHOOSE i \in DOMAIN b.order : s \in b.order[i] /\ \A j \in 1..i - 1 : s \notin b.order[j]

\* The item of a name, an answer or an element of one, and its value under a sort_by
\* expression.
Item(name) ==
  LET answer == Member(Lookup(S, "backend"), <<name[2][1]>>)
  IN  IF Len(name[2]) = 1 \/ answer = Absent THEN answer
      ELSE answer[2][CHOOSE i \in DOMAIN Numerals : Numerals[i] = name[2][2]]
Value(b, i, name) == Evaluate(b.sortBy[i].expr, WithItem(Item(name)))
Before(b, x, y) ==
  \/ Group(b, x[2][1]) < Group(b, y[2][1])
  \/ /\ Group(b, x[2][1]) = Group(b, y[2][1])
     /\ \E i \in DOMAIN b.sortBy :
          /\ \A j \in 1..i - 1 : Number(Value(b, j, x)) = Number(Value(b, j, y))
          /\ LET m == Number(Value(b, i, x))
                 n == Number(Value(b, i, y))
             IN  IF b.sortBy[i].desc THEN m > n ELSE m < n

\* What a block is to rank: a candidate that has been answered, each element of an
\* answer that is an array, if the order has the service and every expression a value.
Meant(b) ==
  {x \in UNION {IF Is(Item(c), "array")
                THEN {Element(c[2][1], i) : i \in DOMAIN Item(c)[2]}
                ELSE {c} : c \in ToSet(input)} :
     /\ Item(x) # Absent
     /\ b.order = <<>> \/ \E i \in DOMAIN b.order : x[2][1] \in b.order[i]
     /\ \A i \in DOMAIN b.sortBy : ~Bad(Value(b, i, x))}

\* No name stands before one that the rule puts before it.
RankIsSorted ==
  Ended => \A i, j \in DOMAIN Ranking : i < j => ~Before(JustRun, Ranking[j], Ranking[i])

\* Nothing is left out that belongs before anything in, and nothing at all but for
\* top_k; no name is there twice.  This is also what ranking roughly first and finely
\* afterwards (docs/config.md:313) asks: a second block ranks what the first has left.
TopIsBest ==
  Ended =>
    /\ Ranked \subseteq Meant(JustRun) /\ IsInjective(Ranking)
    /\ \A x \in Meant(JustRun) \ Ranked :
         /\ JustRun.top > 0 /\ Len(Ranking) = JustRun.top
         /\ \A y \in Ranked : ~Before(JustRun, x, y)

\* The comparison is one that std::sort accepts, on whatever is collected.
SortIsDefined == pc = "sort" => StrictWeak(Block, FeatureSet)
=============================================================================

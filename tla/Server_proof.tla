---------------------------- MODULE Server_proof ----------------------------
(***************************************************************************)
(* Proofs about Server, for any number of concurrent requests, any pool of *)
(* thread data, any requests and any configurations.                       *)
(***************************************************************************)
EXTENDS Server, TLAPS, SequenceTheorems

(***************************************************************************)
(* The inductive invariant.                                                *)
(***************************************************************************)

\* A request has an object of thread data from its start to its end.
Serving(r) == pc[r] \notin {"start", "done"}
DataHeld == \A r \in Requests : Serving(r) <=> td[r] \in Data

\* An object has the entries of the request that holds it, and of no other.
EntriesHeld ==
  /\ \A d \in Data, r \in Requests : r \in entries[d] => td[r] = d
  /\ \A r \in Requests : Serving(r) /\ pc[r] # "parse" => r \in entries[td[r]]
  /\ \A r \in Requests : pc[r] = "done" => logged[r].entries = {r}

\* The requests that asked for their logid themselves, and those that have it.
AsksAt(i) == setup.params[i].name = "logid"
Asks == \E i \in DOMAIN setup.params : AsksAt(i)
LogidIsOwn(r) == logid[td[r]] = {r}

\* The logid of a request is in its object from where it set it.
LogidHeld ==
  \A r \in Requests :
    /\ pc[r] = "params" => \A i \in DOMAIN setup.params : i < at[r] /\ AsksAt(i) => LogidIsOwn(r)
    /\ Serving(r) /\ pc[r] \notin {"parse", "params"} /\ FirstError(kind[r]) = OK =>
         /\ Asks => LogidIsOwn(r)
         /\ kind[r].header /\ pc[r] # "header" => LogidIsOwn(r)
    /\ pc[r] = "done" /\ FirstError(kind[r]) = OK /\ (kind[r].header \/ Asks) =>
         logged[r].logid = {r}

\* What a thread has found out about its request.
FirstErrorHeld ==
  \A r \in Requests :
    /\ pc[r] \in {"start", "parse"} => at[r] = 1
    /\ pc[r] = "params" =>
         /\ kind[r].json
         /\ \A i \in DOMAIN setup.params : i < at[r] => Outcome(kind[r], setup.params[i]) = OK
    /\ Serving(r) /\ pc[r] \notin {"parse", "params", "log"} => FirstError(kind[r]) = OK

-----------------------------------------------------------------------------
(* Type correctness.                                                       *)

LEMMA NoDataFact == NoData \notin Data
  BY ServerAssumption

\* What a required parameter may come to.
LEMMA OutcomeType ==
  ASSUME TypeOK, NEW r \in Requests, NEW i \in DOMAIN setup.params
  PROVE  Outcome(kind[r], setup.params[i]) \in {OK, MISSING_PARAM, INVALID_JSON}
<1>1. setup \in Setups /\ kind[r] \in Kinds
  BY DEF TypeOK
<1>2. setup.params[i] \in Params
  BY <1>1, ServerAssumption, ElementOfSeq, LenProperties DEF SetupAssumption
<1>3. kind[r].params[setup.params[i].name] \in {"string", "missing", "other"}
  <2>1. setup.params[i].name \in DOMAIN kind[r].params
    BY <1>1, ServerAssumption
  <2>2. kind[r].params \in [DOMAIN kind[r].params -> {"string", "missing", "other"}]
    BY <1>1, ServerAssumption DEF KindAssumption
  <2>3. QED
    BY <2>1, <2>2
<1>4. setup.params[i].from \in {"default", "path", "expr", "member"}
  BY <1>2 DEF Params
<1>5. QED
  BY <1>3, <1>4 DEF Outcome

LEMMA AnswerTypes ==
  ASSUME TypeOK
  PROVE  /\ \A c \in {INVALID_JSON, MISSING_PARAM, USID_NOT_FOUND, INTERNAL_SERVER_ERROR} :
              Error(c) \in Answers
         /\ \A r \in Requests : Result(kind[r].code) \in Answers
<1>1. \A c \in {INVALID_JSON, MISSING_PARAM, USID_NOT_FOUND, INTERNAL_SERVER_ERROR} :
        Status(c) \in {200, 400, 500} /\ c \in Int
  BY DEF Status, OK, INVALID_JSON, MISSING_PARAM, USID_NOT_FOUND, INTERNAL_SERVER_ERROR
<1>2. Status(OK) \in {200, 400, 500}
  BY DEF Status
<1>3. \A r \in Requests : kind[r].code \in Int
  BY ServerAssumption DEF TypeOK, KindAssumption
<1>4. QED
  BY <1>1, <1>2, <1>3 DEF Error, Result, Answers

\* Sending appends to the answers of one request.
LEMMA SendType ==
  ASSUME TypeOK, NEW r \in Requests, NEW a \in Answers, Send(r, a)
  PROVE  /\ sent' \in [Requests -> Seq(Answers)]
         /\ pc' \in [Requests -> States]
<1>1. sent[r] \in Seq(Answers)
  BY DEF TypeOK
<1>2. Append(sent[r], a) \in Seq(Answers)
  BY <1>1
<1>3. sent' = [sent EXCEPT ![r] = Append(sent[r], a)]
  BY DEF Send
<1>4. QED
  BY <1>2, <1>3, Zenon DEF Send, Goto, TypeOK, States


LEMMA TypeInit == Init => TypeOK
<1>1. \A p \in Setups : Rooted(p.path) \in Paths
  BY DEF Rooted, Paths
<1>2. [d \in Data |-> {}] \in [Data -> SUBSET Requests]
  OBVIOUS
<1>3. [r \in Requests |-> <<>>] \in [Requests -> Seq(Answers)]
  OBVIOUS
<1>4. [r \in Requests |-> "start"] \in [Requests -> States]
  BY DEF States
<1> SUFFICES ASSUME Init PROVE TypeOK
  OBVIOUS
<1>5. host \in [Channels -> SUBSET Requests] /\ went \in [Requests -> SUBSET Requests]
  BY DEF Init
<1>6. logged \in [Requests -> [logid : SUBSET Requests, entries : SUBSET Requests]]
  BY DEF Init
<1>7. path \in Paths /\ pointer \in [Requests -> Paths]
  BY <1>1 DEF Init, Paths
<1>8. setup \in Setups /\ kind \in [Requests -> Kinds]
  BY DEF Init
<1>11. at \in [Requests -> Nat \ {0}]
  <2>1. at = [r \in Requests |-> 1]
    BY DEF Init
  <2>2. QED
    BY <2>1
<1>9. td \in [Requests -> Data \cup {NoData}] /\ \A r \in Requests : td[r] = NoData
  BY DEF Init
<1>10. QED
  BY <1>9, <1>11, <1>2, <1>3, <1>4, <1>5, <1>6, <1>7, <1>8 DEF Init, TypeOK

LEMMA TypeStep ==
  ASSUME TypeOK, DataHeld, [Next]_vars
  PROVE  TypeOK'
<1> USE DEF TypeOK
<1>1. ASSUME NEW r \in Requests, Start(r) PROVE TypeOK'
  <2>1. PICK d \in Data : (\A q \in Requests : td[q] # d) /\ td' = [td EXCEPT ![r] = d]
    BY <1>1 DEF Start
  <2>2. td' \in [Requests -> Data \cup {NoData}]
    BY <2>1
  <2>3. \A p, q \in Requests : p # q /\ td'[p] = td'[q] => td'[p] = NoData
    BY <2>1
  <2>4. pc' \in [Requests -> States]
    BY <1>1 DEF Start, Goto, States
  <2>5. QED
    BY <1>1, <2>2, <2>3, <2>4 DEF Start, hostVars, Channels
<1>2. ASSUME NEW r \in Requests, Parse(r) PROVE TypeOK'
  <2>1. entries' \in [Data -> SUBSET Requests]
    BY <1>2 DEF Parse, AddEntry
  <2>2. sent' \in [Requests -> Seq(Answers)] /\ pc' \in [Requests -> States]
    BY <1>2, AnswerTypes, SendType DEF Parse, Goto, States
  <2>3. QED
    BY <1>2, <2>1, <2>2 DEF Parse, hostVars, Channels
<1>3. ASSUME NEW r \in Requests, ParamFails(r) PROVE TypeOK'
  <2>1. at[r] \in DOMAIN setup.params
    BY <1>3, ServerAssumption, LenProperties DEF ParamFails, ParamsDone, SetupAssumption
  <2>2. Outcome(kind[r], Param(r)) \in {MISSING_PARAM, INVALID_JSON}
    BY <1>3, <2>1, OutcomeType DEF ParamFails, Param
  <2>3. sent' \in [Requests -> Seq(Answers)] /\ pc' \in [Requests -> States]
    BY <1>3, <2>2, AnswerTypes, SendType DEF ParamFails
  <2>4. QED
    BY <1>3, <2>3 DEF ParamFails, dataVars, hostVars, Channels
<1>4. ASSUME NEW r \in Requests, TakeParam(r) PROVE TypeOK'
  <2>1. logid' \in [Data -> SUBSET Requests] /\ entries' \in [Data -> SUBSET Requests]
    <3>1. CASE logid' = [logid EXCEPT ![td[r]] = {r}] /\ UNCHANGED entries
      BY <3>1, Zenon
    <3>2. CASE AddEntry(r) /\ UNCHANGED logid
      BY <3>2 DEF AddEntry
    <3>3. QED
      BY <1>4, <3>1, <3>2 DEF TakeParam
  <2>2. at' \in [Requests -> Nat \ {0}]
    BY <1>4 DEF TakeParam
  <2>3. QED
    BY <1>4, <2>1, <2>2 DEF TakeParam, hostVars, Channels
<1>5. ASSUME NEW r \in Requests, Parsed(r) \/ Found(r) \/ Stateless(r) \/ RunFlow(r)
      PROVE  TypeOK'
  <2>1. pc' \in [Requests -> States]
    BY <1>5 DEF Parsed, Found, Stateless, RunFlow, Goto, States
  <2>2. QED
    BY <1>5, <2>1 DEF Parsed, Found, Stateless, RunFlow, dataVars, hostVars, Channels
<1>6. ASSUME NEW r \in Requests, Header(r) PROVE TypeOK'
  <2>1. logid' \in [Data -> SUBSET Requests]
    BY <1>6 DEF Header
  <2>2. pc' \in [Requests -> States]
    BY <1>6 DEF Header, Goto, States
  <2>3. QED
    BY <1>6, <2>1, <2>2 DEF Header, hostVars, Channels
<1>7. ASSUME NEW r \in Requests, NotFound(r) \/ Load(r) \/ Answer(r) PROVE TypeOK'
  <2>1. sent' \in [Requests -> Seq(Answers)] /\ pc' \in [Requests -> States]
    BY <1>7, AnswerTypes, SendType DEF NotFound, Load, Answer, Goto, States
  <2>2. QED
    BY <1>7, <2>1 DEF NotFound, Load, Answer, dataVars, hostVars, Channels
<1>8. ASSUME NEW r \in Requests, RootPath(r) \/ MakePointer(r) PROVE TypeOK'
  <2>1. path' \in Paths /\ pointer' \in [Requests -> Paths]
    <3>1. CASE RootPath(r)
      BY <3>1 DEF RootPath, Paths
    <3>2. CASE MakePointer(r)
      BY <3>2 DEF MakePointer
    <3>3. QED
      BY <1>8, <3>1, <3>2
  <2>2. pc' \in [Requests -> States]
    BY <1>8 DEF RootPath, MakePointer, Goto, States
  <2>3. QED
    BY <1>8, <2>1, <2>2 DEF RootPath, MakePointer, dataVars, hostVars, Channels
<1>9. ASSUME NEW r \in Requests, InitChannel(r) PROVE TypeOK'
  <2>1. host' \in [Channels -> SUBSET Requests] /\ UNCHANGED went
    BY <1>9, Zenon DEF InitChannel
  <2>2. pc' \in [Requests -> States]
    BY <1>9 DEF InitChannel, Goto, States
  <2>3. QED
    BY <1>9, <2>1, <2>2 DEF InitChannel, dataVars, Channels
<1>10. ASSUME NEW r \in Requests, CallMethod(r) PROVE TypeOK'
  <2>1. Channel(r) \in Channels
    BY DEF Channel, Channels, Loaded
  <2>2. went' \in [Requests -> SUBSET Requests] /\ UNCHANGED host
    BY <1>10, <2>1 DEF CallMethod
  <2>3. pc' \in [Requests -> States]
    BY <1>10 DEF CallMethod, Goto, States
  <2>4. QED
    BY <1>10, <2>2, <2>3 DEF CallMethod, dataVars, Channels
<1>11. ASSUME NEW r \in Requests, Finish(r) PROVE TypeOK'
  <2>1. td[r] \in Data
    BY <1>11 DEF Finish, DataHeld, Serving
  <2>2. [logid |-> logid[td[r]], entries |-> entries[td[r]]]
          \in [logid : SUBSET Requests, entries : SUBSET Requests]
    BY <2>1
  <2>3. logged' \in [Requests -> [logid : SUBSET Requests, entries : SUBSET Requests]]
    BY <1>11, <2>2, Zenon DEF Finish, Log
  <2>4. entries' \in [Data -> SUBSET Requests]
    BY <1>11 DEF Finish
  <2>5. td' \in [Requests -> Data \cup {NoData}]
    BY <1>11 DEF Finish
  <2>6. \A p, q \in Requests : p # q /\ td'[p] = td'[q] => td'[p] = NoData
    BY <1>11 DEF Finish
  <2>7. pc' \in [Requests -> States]
    BY <1>11 DEF Finish, Goto, States
  <2>8. QED
    BY <1>11, <2>3, <2>4, <2>5, <2>6, <2>7 DEF Finish, hostVars, Channels
<1>12. CASE UNCHANGED vars
  BY <1>12 DEF vars, Channels
<1>13. QED
  BY <1>1, <1>2, <1>3, <1>4, <1>5, <1>6, <1>7, <1>8, <1>9, <1>10, <1>11, <1>12
  DEF Next, Step, Stop

LEMMA DataStep ==
  ASSUME TypeOK, DataHeld, [Next]_vars
  PROVE  DataHeld'
<1> SUFFICES ASSUME NEW q \in Requests PROVE (Serving(q) <=> td[q] \in Data)'
  BY DEF DataHeld
<1>0. Serving(q) <=> td[q] \in Data
  BY DEF DataHeld
<1>1. ASSUME NEW r \in Requests, Start(r) PROVE (Serving(q) <=> td[q] \in Data)'
  BY <1>0, <1>1 DEF Start, Goto, Serving, TypeOK
<1>2. ASSUME NEW r \in Requests, Step(r), ~Start(r), ~Finish(r)
      PROVE  (Serving(q) <=> td[q] \in Data)'
  <2>1. UNCHANGED td
    BY <1>2
    DEF Step, Parse, ParamFails, TakeParam, Parsed, Header, Found, NotFound, Stateless, RootPath,
        MakePointer, Load, InitChannel, CallMethod, RunFlow, Answer, dataVars
  <2>2. pc[r] \notin {"start", "done"}
    BY <1>2
    DEF Step, Parse, ParamFails, TakeParam, Parsed, Header, Found, NotFound, Stateless, RootPath,
        MakePointer, Load, InitChannel, CallMethod, RunFlow, Answer
  <2>3. pc'[r] \notin {"start", "done"} /\ (q # r => pc'[q] = pc[q])
    BY <1>2, <2>2
    DEF Step, Parse, ParamFails, TakeParam, Parsed, Header, Found, NotFound, Stateless, RootPath,
        MakePointer, Load, InitChannel, CallMethod, RunFlow, Answer, Send, Goto, TypeOK
  <2>4. QED
    BY <1>0, <2>1, <2>2, <2>3 DEF Serving
<1>3. ASSUME NEW r \in Requests, Finish(r) PROVE (Serving(q) <=> td[q] \in Data)'
  BY <1>0, <1>3, NoDataFact DEF Finish, Goto, Serving, TypeOK
<1>4. CASE UNCHANGED vars
  BY <1>0, <1>4 DEF vars, Serving
<1>5. QED
  BY <1>1, <1>2, <1>3, <1>4 DEF Next, Stop

\* Every variable keeps its type; in particular no two requests ever have the same
\* object of thread data, and only statuses 200, 400 and 500 are answered.
THEOREM TypeCorrect == Spec => []TypeOK
<1>1. Init => TypeOK /\ DataHeld
  <2> SUFFICES ASSUME Init PROVE TypeOK /\ DataHeld
    OBVIOUS
  <2>1. \A r \in Requests : pc[r] = "start" /\ td[r] \notin Data
    BY NoDataFact DEF Init
  <2>2. QED
    BY <2>1, TypeInit DEF DataHeld, Serving
<1>2. TypeOK /\ DataHeld /\ [Next]_vars => (TypeOK /\ DataHeld)'
  BY TypeStep, DataStep
<1>3. QED
  BY <1>1, <1>2, PTL DEF Spec

-----------------------------------------------------------------------------
(* What a step of one request leaves alone.                                *)

\* Another request's thread stays as it is, and so does what is in the object of
\* thread data that it has.
Same(q) ==
  /\ pc'[q] = pc[q] /\ at'[q] = at[q] /\ pointer'[q] = pointer[q] /\ td'[q] = td[q]
  /\ sent'[q] = sent[q] /\ logged'[q] = logged[q] /\ went'[q] = went[q]

SameData(d) == logid'[d] = logid[d] /\ entries'[d] = entries[d]

LEMMA StepIsLocal ==
  ASSUME TypeOK, DataHeld, NEW r \in Requests, Step(r)
  PROVE  /\ UNCHANGED <<setup, kind>>
         /\ \A q \in Requests \ {r} : Same(q)
         /\ \A d \in Data : d # td[r] => SameData(d)
<1> USE DEF TypeOK
<1>1. CASE Start(r)
  BY <1>1 DEF Start, Goto, Same, SameData, hostVars
<1>2. CASE Parse(r)
  BY <1>2 DEF Parse, AddEntry, Send, Goto, Same, SameData, hostVars
<1>3. CASE TakeParam(r)
  BY <1>3 DEF TakeParam, AddEntry, Same, SameData, hostVars
<1>4. CASE Header(r)
  BY <1>4 DEF Header, Goto, Same, SameData, hostVars
<1>5. CASE ParamFails(r) \/ NotFound(r) \/ Load(r) \/ Answer(r)
  BY <1>5 DEF ParamFails, NotFound, Load, Answer, Send, Goto, Same, SameData, dataVars, hostVars
<1>6. CASE Parsed(r) \/ Found(r) \/ Stateless(r) \/ RunFlow(r)
  BY <1>6 DEF Parsed, Found, Stateless, RunFlow, Goto, Same, SameData, dataVars, hostVars
<1>7. CASE RootPath(r) \/ MakePointer(r)
  BY <1>7 DEF RootPath, MakePointer, Goto, Same, SameData, dataVars, hostVars
<1>8. CASE InitChannel(r) \/ CallMethod(r)
  BY <1>8 DEF InitChannel, CallMethod, Goto, Same, SameData, dataVars, hostVars
<1>9. CASE Finish(r)
  BY <1>9 DEF Finish, Log, Goto, Same, SameData, hostVars
<1>10. QED
  BY <1>1, <1>2, <1>3, <1>4, <1>5, <1>6, <1>7, <1>8, <1>9 DEF Step

\* The steps of a request that is on its way, but for the first and the last.
Inner(r) ==
  \/ ParamFails(r) \/ Parsed(r) \/ Header(r) \/ Found(r) \/ NotFound(r) \/ Stateless(r)
  \/ RootPath(r) \/ MakePointer(r) \/ Load(r) \/ InitChannel(r) \/ CallMethod(r)
  \/ RunFlow(r) \/ Answer(r)

LEMMA InnerStays ==
  ASSUME TypeOK, NEW r \in Requests, Inner(r)
  PROVE  /\ pc[r] \notin {"start", "parse", "done"} /\ pc'[r] \notin {"start", "parse", "params", "done"}
         /\ UNCHANGED <<td, entries, logged>>
<1> USE DEF TypeOK
<1>1. CASE Header(r)
  BY <1>1 DEF Header, Goto
<1>2. CASE ParamFails(r) \/ NotFound(r) \/ Load(r) \/ Answer(r)
  BY <1>2 DEF ParamFails, NotFound, Load, Answer, Send, Goto, dataVars
<1>3. CASE Parsed(r) \/ Found(r) \/ Stateless(r) \/ RunFlow(r)
  BY <1>3 DEF Parsed, Found, Stateless, RunFlow, Goto, dataVars
<1>4. CASE RootPath(r) \/ MakePointer(r)
  BY <1>4 DEF RootPath, MakePointer, Goto, dataVars
<1>5. CASE InitChannel(r) \/ CallMethod(r)
  BY <1>5 DEF InitChannel, CallMethod, Goto, dataVars
<1>6. QED
  BY <1>1, <1>2, <1>3, <1>4, <1>5 DEF Inner

\* No two requests have the same object.
LEMMA OwnObject ==
  ASSUME TypeOK, DataHeld, NEW r \in Requests, Serving(r)
  PROVE  td[r] \in Data /\ \A q \in Requests : q # r => td[q] # td[r]
  BY NoDataFact DEF TypeOK, DataHeld

-----------------------------------------------------------------------------
(* The entries of a log line.                                              *)

LEMMA EntriesStep ==
  ASSUME TypeOK, DataHeld, EntriesHeld, [Next]_vars
  PROVE  EntriesHeld'
<1> USE DEF TypeOK, EntriesHeld
<1>1. ASSUME NEW r \in Requests, Start(r) PROVE EntriesHeld'
  <2>1. /\ td[r] \notin Data /\ pc[r] = "start"
        /\ \A q \in Requests : q # r => td'[q] = td[q] /\ pc'[q] = pc[q]
        /\ pc'[r] = "parse" /\ UNCHANGED <<entries, logged>>
    BY <1>1 DEF Start, Goto, DataHeld, Serving
  <2>2. \A d \in Data, q \in Requests : q \in entries'[d] => td'[q] = d
    BY <2>1
  <2>3. \A q \in Requests : Serving(q)' /\ pc'[q] # "parse" => q \in entries'[td'[q]]
    BY <2>1 DEF Serving
  <2>4. \A q \in Requests : pc'[q] = "done" => logged'[q].entries = {q}
    BY <2>1
  <2>5. QED
    BY <2>2, <2>3, <2>4
<1>2. ASSUME NEW r \in Requests, Step(r), Parse(r) \/ TakeParam(r) PROVE EntriesHeld'
  <2>1. td[r] \in Data /\ Serving(r) /\ UNCHANGED <<td, logged>>
    BY <1>2, OwnObject DEF Parse, TakeParam, Serving
  <2>2. \A d \in Data : d # td[r] => entries'[d] = entries[d]
    BY <1>2, StepIsLocal DEF SameData
  <2>3. entries'[td[r]] \in {entries[td[r]], entries[td[r]] \cup {r}}
    BY <1>2, <2>1 DEF Parse, TakeParam, AddEntry
  <2>4. Parse(r) => r \in entries'[td[r]]
    BY <2>1 DEF Parse, AddEntry
  <2>5. \A q \in Requests : q # r => pc'[q] = pc[q]
    BY <1>2, StepIsLocal DEF Same
  <2>6. pc'[r] \in {"params", "log"} /\ (TakeParam(r) => pc[r] = "params" /\ UNCHANGED pc)
    BY <1>2 DEF Parse, TakeParam, Send, Goto
  <2>7. \A q \in Requests : Serving(q) => td[q] \in Data
    BY OwnObject
  <2>8. \A d \in Data, q \in Requests : q \in entries'[d] => td'[q] = d
    BY <2>1, <2>2, <2>3
  <2>9. ASSUME NEW q \in Requests, Serving(q)', pc'[q] # "parse" PROVE q \in entries'[td'[q]]
    <3>1. CASE q = r
      BY <1>2, <2>1, <2>3, <2>4, <2>6, <3>1 DEF Serving
    <3>2. CASE q # r
      <4>1. q \in entries[td[q]] /\ td[q] \in Data
        BY <2>5, <2>7, <2>9, <3>2 DEF Serving
      <4>2. entries[td[q]] \subseteq entries'[td[q]]
        BY <2>2, <2>3, <4>1
      <4>3. QED
        BY <2>1, <4>1, <4>2
    <3>3. QED
      BY <3>1, <3>2
  <2>10. \A q \in Requests : pc'[q] = "done" => logged'[q].entries = {q}
    BY <2>1, <2>5, <2>6
  <2>11. QED
    BY <2>8, <2>9, <2>10
<1>3. ASSUME NEW r \in Requests, Finish(r) PROVE EntriesHeld'
  <2>1. Serving(r) /\ pc[r] = "log"
    BY <1>3 DEF Finish, Serving
  <2>2. entries[td[r]] = {r}
    BY <2>1, OwnObject
  <2>3. /\ td[r] \in Data /\ entries'[td[r]] = {}
        /\ \A d \in Data : d # td[r] => entries'[d] = entries[d]
    BY <1>3, <2>1, OwnObject DEF Finish
  <2>4. /\ pc'[r] = "done" /\ logged'[r].entries = {r}
        /\ \A q \in Requests : q # r => pc'[q] = pc[q] /\ td'[q] = td[q] /\ logged'[q] = logged[q]
    BY <1>3, <2>2 DEF Finish, Log, Goto
  <2>5. \A q \in Requests : q # r => td[q] # td[r]
    BY <2>1, OwnObject
  <2>6. \A q \in Requests : Serving(q) => td[q] \in Data
    BY OwnObject
  <2>7. ASSUME NEW d \in Data, NEW q \in Requests, q \in entries'[d] PROVE td'[q] = d
    <3>1. d # td[r] /\ q \in entries[d]
      BY <2>3, <2>7
    <3>2. td[q] = d
      BY <3>1
    <3>3. QED
      BY <2>4, <3>1, <3>2
  <2>8. ASSUME NEW q \in Requests, Serving(q)', pc'[q] # "parse" PROVE q \in entries'[td'[q]]
    <3>1. q # r
      BY <2>4, <2>8 DEF Serving
    <3>2. Serving(q) /\ pc[q] # "parse" /\ td'[q] = td[q]
      BY <2>4, <2>8, <3>1 DEF Serving
    <3>3. q \in entries[td[q]] /\ td[q] \in Data /\ td[q] # td[r]
      BY <2>5, <2>6, <3>1, <3>2
    <3>4. QED
      BY <2>3, <3>2, <3>3
  <2>9. \A q \in Requests : pc'[q] = "done" => logged'[q].entries = {q}
    BY <2>4
  <2>10. QED
    BY <2>7, <2>8, <2>9
<1>4. ASSUME NEW r \in Requests, Inner(r) PROVE EntriesHeld'
  <2>1. /\ UNCHANGED <<td, entries, logged>>
        /\ pc[r] \notin {"start", "parse", "done"} /\ pc'[r] \notin {"start", "parse", "done"}
    BY <1>4, InnerStays
  <2>2. \A q \in Requests : q # r => pc'[q] = pc[q]
    BY <1>4, StepIsLocal DEF Inner, Step, Same
  <2>3. QED
    BY <2>1, <2>2 DEF Serving
<1>5. CASE UNCHANGED vars
  BY <1>5 DEF vars, Serving
<1>6. QED
  BY <1>1, <1>2, <1>3, <1>4, <1>5 DEF Next, Step, Inner, Stop

-----------------------------------------------------------------------------
(* The first error of a request.                                           *)

LEMMA ParamsDomain ==
  ASSUME TypeOK
  PROVE  DOMAIN setup.params = 1..Len(setup.params) /\ Len(setup.params) \in Nat
<1>1. setup.params \in Seq(Params)
  BY ServerAssumption DEF TypeOK, SetupAssumption
<1>2. QED
  BY <1>1, LenProperties

\* The first parameter that cannot be had decides.
LEMMA FirstErrorIs ==
  ASSUME TypeOK, NEW r \in Requests, kind[r].json, NEW i \in DOMAIN setup.params,
         \A j \in DOMAIN setup.params : j < i => Outcome(kind[r], setup.params[j]) = OK,
         Outcome(kind[r], setup.params[i]) # OK
  PROVE  FirstError(kind[r]) = Outcome(kind[r], setup.params[i])
<1> DEFINE bad == {j \in DOMAIN setup.params : Outcome(kind[r], setup.params[j]) # OK}
<1>1. i \in bad /\ bad \subseteq Nat /\ \A j \in bad : i <= j
  BY ParamsDomain
<1>2. \A j \in bad : (\A k \in bad : j <= k) => j = i
  BY <1>1
<1>3. (CHOOSE j \in bad : \A k \in bad : j <= k) = i
  BY <1>1, <1>2
<1>4. FirstError(kind[r]) = Outcome(kind[r], setup.params[CHOOSE j \in bad : \A k \in bad : j <= k])
  BY <1>1 DEF FirstError
<1>5. QED
  BY <1>3, <1>4

LEMMA NoErrorIs ==
  ASSUME NEW k, k.json, \A i \in DOMAIN setup.params : Outcome(k, setup.params[i]) = OK
  PROVE  FirstError(k) = OK
<1>1. {i \in DOMAIN setup.params : Outcome(k, setup.params[i]) # OK} = {}
  OBVIOUS
<1>2. QED
  BY <1>1 DEF FirstError

LEMMA FirstErrorStep ==
  ASSUME TypeOK, DataHeld, FirstErrorHeld, [Next]_vars
  PROVE  FirstErrorHeld'
<1> USE DEF TypeOK
<1>1. ASSUME NEW r \in Requests, Step(r) PROVE FirstErrorHeld'
  <2>1. UNCHANGED <<setup, kind>> /\ \A q \in Requests \ {r} : Same(q)
    BY <1>1, StepIsLocal
  <2> DEFINE
    Held(q) ==
      /\ pc[q] \in {"start", "parse"} => at[q] = 1
      /\ pc[q] = "params" =>
           /\ kind[q].json
           /\ \A i \in DOMAIN setup.params : i < at[q] => Outcome(kind[q], setup.params[i]) = OK
      /\ Serving(q) /\ pc[q] \notin {"parse", "params", "log"} => FirstError(kind[q]) = OK
  <2>2. \A q \in Requests : Held(q)
    BY DEF FirstErrorHeld
  <2>3. ASSUME NEW q \in Requests \ {r} PROVE Held(q)'
    <3>1. /\ pc'[q] = pc[q] /\ at'[q] = at[q] /\ kind'[q] = kind[q] /\ setup' = setup
          /\ Serving(q)' = Serving(q) /\ FirstError(kind[q])' = FirstError(kind[q])
      BY <2>1 DEF Same, Serving, FirstError
    <3>2. Held(q)
      BY <2>2
    <3>3. QED
      BY <3>1, <3>2
  <2>4. Held(r)'
    <3>1. CASE Start(r)
      BY <2>2, <3>1 DEF Start, Goto, Serving
    <3>2. CASE Parse(r)
      <4>1. pc'[r] = (IF kind[r].json THEN "params" ELSE "log") /\ at'[r] = 1
        BY <2>2, <3>2 DEF Parse, Send, Goto
      <4>2. \A i \in DOMAIN setup.params : ~(i < at'[r])
        BY <4>1, ParamsDomain
      <4>3. QED
        BY <2>1, <4>1, <4>2 DEF Serving
    <3>3. CASE TakeParam(r)
      <4>1. pc'[r] = "params" /\ pc[r] = "params" /\ at'[r] = at[r] + 1 /\ at[r] \in Nat
        BY <3>3 DEF TakeParam
      <4>2. Outcome(kind[r], setup.params[at[r]]) = OK
        BY <3>3 DEF TakeParam, Param
      <4>3. \A i \in DOMAIN setup.params : i < at'[r] => i < at[r] \/ i = at[r]
        BY <4>1, ParamsDomain
      <4>4. kind[r].json
        BY <2>2, <4>1
      <4>5. \A i \in DOMAIN setup.params : i < at'[r] => Outcome(kind[r], setup.params[i]) = OK
        BY <2>2, <4>1, <4>2, <4>3
      <4>6. QED
        BY <2>1, <4>1, <4>4, <4>5
    <3>4. CASE Parsed(r)
      <4>1. pc'[r] = "header" /\ pc[r] = "params" /\ at[r] > Len(setup.params)
        BY <3>4 DEF Parsed, ParamsDone, Goto
      <4>2. \A i \in DOMAIN setup.params : i < at[r]
        BY <4>1, ParamsDomain
      <4>3. FirstError(kind[r]) = OK
        BY <2>2, <4>1, <4>2, NoErrorIs
      <4>4. FirstError(kind[r])' = OK
        BY <2>1, <4>3 DEF FirstError
      <4>5. QED
        BY <4>1, <4>4
    <3>5. CASE ParamFails(r) \/ Finish(r)
      <4>1. pc'[r] \in {"log", "done"}
        BY <3>5 DEF ParamFails, Finish, Send, Goto
      <4>2. QED
        BY <4>1 DEF Serving
    <3>6. CASE Inner(r) /\ ~Parsed(r) /\ ~ParamFails(r)
      <4>1. pc'[r] \notin {"start", "parse", "params", "done"} /\ Serving(r) /\ pc[r] # "parse"
        BY <3>6, InnerStays DEF Serving
      <4>2. pc[r] \notin {"params", "log"}
        BY <3>6
        DEF Inner, Header, Found, NotFound, Stateless, RootPath, MakePointer, Load, InitChannel,
            CallMethod, RunFlow, Answer
      <4>3. FirstError(kind[r]) = OK
        BY <2>2, <4>1, <4>2
      <4>4. FirstError(kind[r])' = OK
        BY <2>1, <4>3 DEF FirstError
      <4>5. QED
        BY <4>1, <4>4
    <3>7. QED
      BY <1>1, <3>1, <3>2, <3>3, <3>4, <3>5, <3>6 DEF Step, Inner
  <2>5. QED
    BY <2>3, <2>4 DEF FirstErrorHeld
<1>2. CASE UNCHANGED vars
  <2>1. UNCHANGED <<setup, kind, pc, at>>
    BY <1>2 DEF vars
  <2>2. \A q \in Requests : FirstError(kind[q])' = FirstError(kind[q]) /\ Serving(q)' = Serving(q)
    BY <2>1 DEF FirstError, Serving
  <2>3. QED
    BY <2>1, <2>2 DEF FirstErrorHeld
<1>3. QED
  BY <1>1, <1>2 DEF Next, Stop

-----------------------------------------------------------------------------
(* The logid of a log line.                                                *)

LEMMA LogidStep ==
  ASSUME TypeOK, DataHeld, FirstErrorHeld, LogidHeld, [Next]_vars
  PROVE  LogidHeld'
<1> USE DEF TypeOK
<1> DEFINE
  Set(q) ==
    pc[q] = "params" => \A i \in DOMAIN setup.params : i < at[q] /\ AsksAt(i) => LogidIsOwn(q)
  Kept(q) ==
    Serving(q) /\ pc[q] \notin {"parse", "params"} /\ FirstError(kind[q]) = OK =>
      /\ Asks => LogidIsOwn(q)
      /\ kind[q].header /\ pc[q] # "header" => LogidIsOwn(q)
  Line(q) ==
    pc[q] = "done" /\ FirstError(kind[q]) = OK /\ (kind[q].header \/ Asks) => logged[q].logid = {q}
<1>0. \A q \in Requests : Set(q) /\ Kept(q) /\ Line(q)
  BY DEF LogidHeld
<1>1. ASSUME NEW r \in Requests, Step(r) PROVE LogidHeld'
  <2>1. /\ UNCHANGED <<setup, kind>> /\ \A q \in Requests \ {r} : Same(q)
        /\ \A d \in Data : d # td[r] => logid'[d] = logid[d]
    BY <1>1, StepIsLocal DEF SameData
  <2>2. /\ Asks' = Asks /\ \A i : AsksAt(i)' = AsksAt(i)
        /\ \A q \in Requests : FirstError(kind[q])' = FirstError(kind[q])
    BY <2>1 DEF Asks, AsksAt, FirstError
  <2>3. ASSUME NEW q \in Requests \ {r} PROVE Set(q)' /\ Kept(q)' /\ Line(q)'
    <3>1. /\ pc'[q] = pc[q] /\ at'[q] = at[q] /\ kind'[q] = kind[q] /\ setup' = setup
          /\ Serving(q)' = Serving(q) /\ logged'[q] = logged[q] /\ td'[q] = td[q]
      BY <2>1 DEF Same, Serving
    <3>2. ASSUME Serving(q) PROVE LogidIsOwn(q)' = LogidIsOwn(q)
      <4>1. td[q] \in Data /\ td[q] # td[r]
        BY <3>2, OwnObject
      <4>2. logid'[td[q]] = logid[td[q]]
        BY <2>1, <4>1
      <4>3. QED
        BY <3>1, <4>2 DEF LogidIsOwn
    <3>3. pc[q] = "params" => Serving(q)
      BY DEF Serving
    <3>4. Set(q) /\ Kept(q) /\ Line(q)
      BY <1>0
    <3>5. Set(q)'
      BY <2>2, <3>1, <3>2, <3>3, <3>4
    <3>6. Kept(q)'
      BY <2>2, <3>1, <3>2, <3>4
    <3>7. Line(q)'
      BY <2>2, <3>1, <3>4
    <3>8. QED
      BY <3>5, <3>6, <3>7
  <2>4. Set(r)' /\ Kept(r)' /\ Line(r)'
    <3>1. CASE Start(r)
      BY <3>1 DEF Start, Goto
    <3>2. CASE Parse(r)
      <4>1. CASE kind[r].json
        <5>1. pc'[r] = "params" /\ at'[r] = 1
          BY <3>2, <4>1 DEF Parse, Goto, FirstErrorHeld
        <5>2. \A i \in DOMAIN setup.params : ~(i < at'[r])
          BY <5>1, ParamsDomain
        <5>3. Set(r)'
          BY <2>1, <5>2
        <5>4. Kept(r)' /\ Line(r)'
          BY <5>1
        <5>5. QED
          BY <5>3, <5>4
      <4>2. CASE ~kind[r].json
        <5>1. pc'[r] = "log"
          BY <3>2, <4>2 DEF Parse, Send, Goto
        <5>2. FirstError(kind[r]) = INVALID_JSON
          BY <4>2 DEF FirstError
        <5>3. FirstError(kind[r])' # OK
          BY <2>2, <5>2 DEF OK, INVALID_JSON
        <5>4. QED
          BY <5>1, <5>3
      <4>3. QED
        BY <4>1, <4>2
    <3>3. CASE ParamFails(r)
      <4>1. /\ pc'[r] = "log" /\ pc[r] = "params" /\ at[r] \in DOMAIN setup.params
            /\ Outcome(kind[r], setup.params[at[r]]) # OK
        BY <3>3, ParamsDomain DEF ParamFails, ParamsDone, Param, Send, Goto
      <4>2. FirstError(kind[r]) # OK
        BY <4>1, FirstErrorIs DEF FirstErrorHeld
      <4>3. QED
        BY <2>2, <4>1, <4>2
    <3>4. CASE TakeParam(r)
      <4>1. /\ pc'[r] = "params" /\ pc[r] = "params" /\ at'[r] = at[r] + 1 /\ at[r] \in Nat
            /\ UNCHANGED td
        BY <3>4 DEF TakeParam
      <4>2. td[r] \in Data
        BY <4>1, OwnObject DEF Serving
      <4>3. AsksAt(at[r]) => LogidIsOwn(r)'
        BY <3>4, <4>1, <4>2 DEF TakeParam, Param, AsksAt, LogidIsOwn
      <4>4. LogidIsOwn(r) => LogidIsOwn(r)'
        BY <3>4, <4>1, <4>2 DEF TakeParam, LogidIsOwn
      <4>5. \A i \in DOMAIN setup.params : i < at'[r] => i < at[r] \/ i = at[r]
        BY <4>1, ParamsDomain
      <4>6. \A i \in DOMAIN setup.params : i < at'[r] /\ AsksAt(i) => LogidIsOwn(r)'
        BY <1>0, <4>1, <4>3, <4>4, <4>5
      <4>7. QED
        BY <2>1, <2>2, <4>1, <4>6
    <3>5. CASE Parsed(r)
      <4>1. /\ pc'[r] = "header" /\ pc[r] = "params" /\ at[r] > Len(setup.params)
            /\ UNCHANGED <<td, logid>>
        BY <3>5 DEF Parsed, ParamsDone, Goto, dataVars
      <4>2. \A i \in DOMAIN setup.params : i < at[r]
        BY <4>1, ParamsDomain
      <4>3. Asks => LogidIsOwn(r)
        BY <1>0, <4>1, <4>2 DEF Asks
      <4>4. Asks' => LogidIsOwn(r)'
        BY <2>2, <4>1, <4>3 DEF LogidIsOwn
      <4>5. QED
        BY <4>1, <4>4
    <3>6. CASE Header(r)
      <4>1. pc'[r] = "find" /\ pc[r] = "header" /\ UNCHANGED td /\ Serving(r)
        BY <3>6 DEF Header, Goto, Serving
      <4>2. td[r] \in Data
        BY <4>1, OwnObject
      <4>3. kind[r].header => LogidIsOwn(r)'
        BY <3>6, <4>1, <4>2 DEF Header, LogidIsOwn
      <4>4. ~kind[r].header => LogidIsOwn(r)' = LogidIsOwn(r)
        BY <3>6, <4>1 DEF Header, LogidIsOwn
      <4>5. FirstError(kind[r]) = OK /\ Asks => LogidIsOwn(r)
        BY <1>0, <4>1
      <4>6. kind'[r] = kind[r]
        BY <2>1
      <4>7. QED
        BY <2>2, <4>1, <4>3, <4>4, <4>5, <4>6
    <3>7. CASE Finish(r)
      <4>1. pc'[r] = "done" /\ pc[r] = "log" /\ Serving(r)
        BY <3>7 DEF Finish, Goto, Serving
      <4>2. logged'[r].logid = logid[td[r]]
        BY <3>7 DEF Finish, Log
      <4>3. FirstError(kind[r]) = OK /\ (kind[r].header \/ Asks) => LogidIsOwn(r)
        BY <1>0, <4>1
      <4>4. kind'[r] = kind[r]
        BY <2>1
      <4>5. Line(r)'
        BY <2>2, <4>2, <4>3, <4>4 DEF LogidIsOwn
      <4>6. QED
        BY <4>1, <4>5 DEF Serving
    <3>8. CASE Inner(r) /\ ~Parsed(r) /\ ~ParamFails(r) /\ ~Header(r)
      <4>1. pc'[r] \notin {"start", "parse", "params", "done"} /\ Serving(r) /\ pc[r] # "parse"
        BY <3>8, InnerStays DEF Serving
      <4>2. pc[r] \notin {"params", "header"} /\ UNCHANGED <<td, logid>>
        BY <3>8
        DEF Inner, Found, NotFound, Stateless, RootPath, MakePointer, Load, InitChannel,
            CallMethod, RunFlow, Answer, dataVars
      <4>3. FirstError(kind[r]) = OK /\ (Asks \/ kind[r].header) => LogidIsOwn(r)
        BY <1>0, <4>1, <4>2
      <4>4. LogidIsOwn(r)' = LogidIsOwn(r) /\ kind'[r] = kind[r]
        BY <2>1, <4>2 DEF LogidIsOwn
      <4>5. QED
        BY <2>2, <4>1, <4>3, <4>4
    <3>9. QED
      BY <1>1, <3>1, <3>2, <3>3, <3>4, <3>5, <3>6, <3>7, <3>8 DEF Step, Inner
  <2>5. QED
    BY <2>3, <2>4 DEF LogidHeld
<1>2. CASE UNCHANGED vars
  <2>1. UNCHANGED <<setup, kind, pc, at, td, logid, logged>>
    BY <1>2 DEF vars
  <2>2. /\ Asks' = Asks /\ \A i : AsksAt(i)' = AsksAt(i)
        /\ \A q \in Requests :
             /\ FirstError(kind[q])' = FirstError(kind[q]) /\ Serving(q)' = Serving(q)
             /\ LogidIsOwn(q)' = LogidIsOwn(q)
    BY <2>1 DEF Asks, AsksAt, FirstError, Serving, LogidIsOwn
  <2>3. QED
    BY <2>1, <2>2 DEF LogidHeld
<1>3. QED
  BY <1>1, <1>2 DEF Next, Stop

LoggedInv == TypeOK /\ DataHeld /\ EntriesHeld /\ FirstErrorHeld /\ LogidHeld

LEMMA LoggedInit == Init => LoggedInv
<1> SUFFICES ASSUME Init PROVE LoggedInv
  OBVIOUS
<1>1. TypeOK
  BY TypeInit
<1>2. \A r \in Requests : pc[r] = "start" /\ at[r] = 1 /\ td[r] = NoData
  BY DEF Init
<1>3. \A d \in Data : entries[d] = {}
  BY DEF Init
<1>4. DataHeld /\ EntriesHeld
  BY <1>2, <1>3, NoDataFact DEF DataHeld, EntriesHeld, Serving
<1>5. FirstErrorHeld /\ LogidHeld
  BY <1>2 DEF FirstErrorHeld, LogidHeld, Serving
<1>6. QED
  BY <1>1, <1>4, <1>5 DEF LoggedInv

THEOREM LoggedInvariant == Spec => []LoggedInv
<1>1. LoggedInv /\ [Next]_vars => LoggedInv'
  BY TypeStep, DataStep, EntriesStep, FirstErrorStep, LogidStep DEF LoggedInv
<1>2. QED
  BY <1>1, LoggedInit, PTL DEF Spec

\* The log line of a request has its own entries and, if it came far enough to give
\* one, its own logid, however the objects of thread data pass between requests.
THEOREM LogsAreOwn == Spec => []LoggedOwn
<1>1. LoggedInv => LoggedOwn
  BY DEF LoggedInv, LoggedOwn, EntriesHeld, LogidHeld, Asks, AsksAt
<1>2. QED
  BY <1>1, LoggedInvariant, PTL

-----------------------------------------------------------------------------
(* The answers, for configurations whose path is not the root.             *)

NoRootPath == \A p \in Setups : p.path \notin {"", "/"}

\* What a thread has found out about its scheduler, and what it has answered.
Looked(r) ==
  /\ pc[r] \in {"path", "point", "load"} => ~Loaded(r) /\ path # ""
  /\ pc[r] = "load" => pointer[r] = path
  /\ pc[r] \in {"run", "call", "answer"} => HasScheduler(kind[r])
Sent(r) == sent[r] = IF pc[r] \in {"log", "done"} THEN <<Due(kind[r])>> ELSE <<>>

ServedInv == path = Rooted(setup.path) /\ \A r \in Requests : Looked(r) /\ Sent(r)

LEMMA PathFact ==
  ASSUME NoRootPath, TypeOK, path = Rooted(setup.path)
  PROVE  /\ path # "/" /\ (path = "" <=> setup.path = "unset")
         /\ path # "" => path = ConfigPath
  BY DEF NoRootPath, TypeOK, Rooted, ConfigPath

LEMMA ServedStep ==
  ASSUME NoRootPath, TypeOK, DataHeld, FirstErrorHeld, ServedInv, [Next]_vars
  PROVE  ServedInv'
<1> USE DEF TypeOK
<1>0. path = Rooted(setup.path) /\ \A q \in Requests : Looked(q) /\ Sent(q)
  BY DEF ServedInv
<1>1. ASSUME NEW r \in Requests, Step(r) PROVE ServedInv'
  <2>1. UNCHANGED <<setup, kind>> /\ \A q \in Requests \ {r} : Same(q)
    BY <1>1, StepIsLocal
  <2>2. UNCHANGED path
    BY <1>0, <1>1, PathFact
    DEF Step, Start, Parse, ParamFails, TakeParam, Parsed, Header, Found, NotFound, Stateless,
        RootPath, MakePointer, Load, InitChannel, CallMethod, RunFlow, Answer, Finish
  <2>3. \A q \in Requests :
          /\ Loaded(q)' = Loaded(q) /\ HasScheduler(kind[q])' = HasScheduler(kind[q])
          /\ Due(kind[q])' = Due(kind[q])
    BY <2>1 DEF Loaded, HasScheduler, ConfigPath, Due, FirstError, Result
  <2>4. ASSUME NEW q \in Requests \ {r} PROVE Looked(q)' /\ Sent(q)'
    BY <1>0, <2>1, <2>2, <2>3 DEF Same, Looked, Sent
  <2>5. Looked(r) /\ Sent(r)
    BY <1>0
  <2>6. ASSUME NEW a, Send(r, a), a = Due(kind[r]), pc[r] \notin {"log", "done"}
        PROVE  Looked(r)' /\ Sent(r)'
    <3>1. sent[r] = <<>>
      BY <2>5, <2>6 DEF Sent
    <3>2. pc'[r] = "log" /\ sent'[r] = Append(sent[r], a)
      BY <2>6 DEF Send, Goto
    <3>3. sent'[r] = <<Due(kind[r])>>
      BY <2>6, <3>1, <3>2
    <3>4. QED
      BY <2>3, <3>2, <3>3 DEF Looked, Sent
  <2>7. ASSUME Start(r) \/ TakeParam(r) PROVE Looked(r)' /\ Sent(r)'
    <3>1. pc'[r] \in {"parse", "params"} /\ pc[r] \notin {"log", "done"} /\ sent'[r] = sent[r]
      BY <2>7 DEF Start, TakeParam, Goto
    <3>2. QED
      BY <2>5, <3>1 DEF Looked, Sent
  <2>8. ASSUME Parse(r) PROVE Looked(r)' /\ Sent(r)'
    <3>1. CASE kind[r].json
      <4>1. pc'[r] = "params" /\ pc[r] = "parse" /\ sent'[r] = sent[r]
        BY <2>8, <3>1 DEF Parse, Goto
      <4>2. QED
        BY <2>5, <4>1 DEF Looked, Sent
    <3>2. CASE ~kind[r].json
      <4>1. FirstError(kind[r]) = INVALID_JSON
        BY <3>2 DEF FirstError
      <4>2. Due(kind[r]) = Error(INVALID_JSON)
        BY <4>1 DEF Due, OK, INVALID_JSON
      <4>3. Send(r, Error(INVALID_JSON)) /\ pc[r] = "parse"
        BY <2>8, <3>2 DEF Parse
      <4>4. QED
        BY <2>6, <4>2, <4>3
    <3>3. QED
      BY <3>1, <3>2
  <2>9. ASSUME ParamFails(r) PROVE Looked(r)' /\ Sent(r)'
    <3>1. /\ pc[r] = "params" /\ at[r] \in DOMAIN setup.params
          /\ Outcome(kind[r], setup.params[at[r]]) # OK
          /\ Send(r, Error(Outcome(kind[r], setup.params[at[r]])))
      BY <2>9, ParamsDomain DEF ParamFails, ParamsDone, Param
    <3>2. FirstError(kind[r]) = Outcome(kind[r], setup.params[at[r]])
      BY <3>1, FirstErrorIs DEF FirstErrorHeld
    <3>3. Due(kind[r]) = Error(FirstError(kind[r]))
      BY <3>1, <3>2 DEF Due
    <3>4. QED
      BY <2>6, <3>1, <3>2, <3>3
  <2>10. ASSUME Parsed(r) \/ Header(r) \/ Found(r) \/ Stateless(r) PROVE Looked(r)' /\ Sent(r)'
    <3>1. /\ pc'[r] \in {"header", "find", "run", "path"} /\ pc[r] \in {"params", "header", "find"}
          /\ sent'[r] = sent[r]
          /\ pc'[r] = "run" => Loaded(r)
          /\ pc'[r] = "path" => ~Loaded(r) /\ path # ""
      BY <2>10 DEF Parsed, Header, Found, Stateless, Goto
    <3>2. pc'[r] = "run" => HasScheduler(kind[r])
      BY <3>1 DEF Loaded, HasScheduler
    <3>3. Looked(r)'
      BY <2>2, <2>3, <3>1, <3>2 DEF Looked
    <3>4. Sent(r)'
      BY <2>5, <3>1 DEF Sent
    <3>5. QED
      BY <3>3, <3>4
  <2>11. ASSUME RootPath(r) \/ MakePointer(r) PROVE Looked(r)' /\ Sent(r)'
    <3>1. /\ pc[r] \in {"path", "point"} /\ pc'[r] \in {"point", "load"} /\ sent'[r] = sent[r]
          /\ pc'[r] = "load" => pointer'[r] = path
      BY <2>11 DEF RootPath, MakePointer, Goto
    <3>2. ~Loaded(r) /\ path # ""
      BY <2>5, <3>1 DEF Looked
    <3>3. Looked(r)'
      BY <2>2, <2>3, <3>1, <3>2 DEF Looked
    <3>4. Sent(r)'
      BY <2>5, <3>1 DEF Sent
    <3>5. QED
      BY <3>3, <3>4
  <2>12. ASSUME NotFound(r) PROVE Looked(r)' /\ Sent(r)'
    <3>1. pc[r] = "find" /\ ~Loaded(r) /\ setup.path = "unset" /\ Send(r, Error(USID_NOT_FOUND))
      BY <1>0, <2>12, PathFact DEF NotFound
    <3>2. ~HasScheduler(kind[r])
      BY <3>1 DEF Loaded, HasScheduler
    <3>3. FirstError(kind[r]) = OK
      BY <3>1 DEF FirstErrorHeld, Serving
    <3>4. Due(kind[r]) = Error(USID_NOT_FOUND)
      BY <3>2, <3>3 DEF Due
    <3>5. QED
      BY <2>6, <3>1, <3>4
  <2>13. ASSUME Load(r) PROVE Looked(r)' /\ Sent(r)'
    <3>1. /\ pc[r] = "load" /\ pointer[r] = ConfigPath /\ setup.path # "unset" /\ ~Loaded(r)
          /\ FirstError(kind[r]) = OK
      BY <1>0, <2>5, <2>13, PathFact DEF Load, Looked, FirstErrorHeld, Serving
    <3>2. HasScheduler(kind[r]) <=> kind[r].configAt = pointer[r] /\ kind[r].loads
      BY <3>1 DEF HasScheduler, Loaded
    <3>3. CASE HasScheduler(kind[r])
      <4>1. pc'[r] = "run" /\ sent'[r] = sent[r]
        BY <2>13, <3>2, <3>3 DEF Load, Goto
      <4>2. Looked(r)'
        BY <2>3, <3>3, <4>1 DEF Looked
      <4>3. Sent(r)'
        BY <2>5, <3>1, <4>1 DEF Sent
      <4>4. QED
        BY <4>2, <4>3
    <3>4. CASE ~HasScheduler(kind[r])
      <4>1. Send(r, Error(USID_NOT_FOUND))
        BY <2>13, <3>2, <3>4 DEF Load
      <4>2. Due(kind[r]) = Error(USID_NOT_FOUND)
        BY <3>1, <3>4 DEF Due
      <4>3. QED
        BY <2>6, <3>1, <4>1, <4>2
    <3>5. QED
      BY <3>3, <3>4
  <2>14. ASSUME InitChannel(r) \/ CallMethod(r) \/ RunFlow(r) PROVE Looked(r)' /\ Sent(r)'
    <3>1. /\ pc[r] \in {"run", "call"} /\ pc'[r] \in {"call", "answer"} /\ sent'[r] = sent[r]
      BY <2>14 DEF InitChannel, CallMethod, RunFlow, Goto
    <3>2. HasScheduler(kind[r])
      BY <2>5, <3>1 DEF Looked
    <3>3. Looked(r)'
      BY <2>3, <3>1, <3>2 DEF Looked
    <3>4. Sent(r)'
      BY <2>5, <3>1 DEF Sent
    <3>5. QED
      BY <3>3, <3>4
  <2>15. ASSUME Answer(r) PROVE Looked(r)' /\ Sent(r)'
    <3>1. pc[r] = "answer" /\ HasScheduler(kind[r]) /\ FirstError(kind[r]) = OK
      BY <2>5, <2>15 DEF Answer, Looked, FirstErrorHeld, Serving
    <3>2. Due(kind[r]) =
            IF kind[r].flowOk THEN Result(kind[r].code) ELSE Error(INTERNAL_SERVER_ERROR)
      BY <3>1 DEF Due
    <3>3. QED
      BY <2>6, <2>15, <3>1, <3>2 DEF Answer
  <2>16. ASSUME Finish(r) PROVE Looked(r)' /\ Sent(r)'
    <3>1. pc[r] = "log" /\ pc'[r] = "done" /\ sent'[r] = sent[r]
      BY <2>16 DEF Finish, Goto
    <3>2. Sent(r)'
      BY <2>3, <2>5, <3>1 DEF Sent
    <3>3. QED
      BY <3>1, <3>2 DEF Looked
  <2>17. Looked(r)' /\ Sent(r)'
    BY <1>1, <2>7, <2>8, <2>9, <2>10, <2>11, <2>12, <2>13, <2>14, <2>15, <2>16 DEF Step
  <2>18. path' = Rooted(setup.path)'
    BY <1>0, <2>1, <2>2
  <2>19. QED
    BY <2>4, <2>17, <2>18 DEF ServedInv
<1>2. CASE UNCHANGED vars
  <2>1. UNCHANGED <<setup, kind, path, pc, pointer, sent>>
    BY <1>2 DEF vars
  <2>2. \A q \in Requests :
          /\ Loaded(q)' = Loaded(q) /\ HasScheduler(kind[q])' = HasScheduler(kind[q])
          /\ Due(kind[q])' = Due(kind[q])
    BY <2>1 DEF Loaded, HasScheduler, ConfigPath, Due, FirstError, Result
  <2>3. QED
    BY <1>0, <2>1, <2>2 DEF ServedInv, Looked, Sent
<1>3. QED
  BY <1>1, <1>2 DEF Next, Stop

\* Every request is answered once, and as if it were alone, whatever the others are
\* and however they interleave, unless input_config_path is the root.
THEOREM EachServedAlone ==
  ASSUME NoRootPath
  PROVE  Spec => []ServedAlone
<1>1. Init => ServedInv
  BY DEF Init, ServedInv, Looked, Sent
<1>2. LoggedInv /\ ServedInv /\ [Next]_vars => ServedInv'
  BY ServedStep DEF LoggedInv
<1>3. ServedInv => ServedAlone
  BY DEF ServedInv, Sent, ServedAlone
<1>4. QED
  BY <1>1, <1>2, <1>3, LoggedInvariant, PTL DEF Spec

-----------------------------------------------------------------------------
(* The hosts, for loaded schedulers that have no host per request.         *)

HostsApart == \A p \in Setups : p.hosts \cap p.loaded = {}

HostInv ==
  \A r \in Requests :
    /\ host[r] \subseteq {r} /\ went[r] \subseteq {r}
    /\ pc[r] = "call" => ~Loaded(r)

LEMMA HostStep ==
  ASSUME HostsApart, TypeOK, DataHeld, HostInv, [Next]_vars
  PROVE  HostInv'
<1> USE DEF TypeOK
<1>1. ASSUME NEW r \in Requests, Step(r) PROVE HostInv'
  <2>1. UNCHANGED <<setup, kind>> /\ \A q \in Requests \ {r} : Same(q)
    BY <1>1, StepIsLocal
  <2>2. \A q \in Requests : Loaded(q)' = Loaded(q)
    BY <2>1 DEF Loaded
  <2>3. CASE InitChannel(r)
    <3>1. ~Loaded(r) /\ Channel(r) = r
      BY <2>3 DEF InitChannel, HostPerRequest, HostsApart, Loaded, Channel
    <3>2. host' = [host EXCEPT ![r] = {r}] /\ UNCHANGED went
      BY <2>3, <3>1 DEF InitChannel
    <3>3. \A q \in Requests : host'[q] \subseteq {q}
      BY <3>2 DEF HostInv, Channels
    <3>4. QED
      BY <2>1, <2>2, <3>1, <3>2, <3>3 DEF HostInv, Same
  <2>4. CASE CallMethod(r)
    <3>1. Channel(r) = r /\ pc'[r] = "answer"
      BY <2>4 DEF CallMethod, HostInv, Channel, Goto
    <3>2. went'[r] \subseteq {r} /\ UNCHANGED host
      BY <2>4, <3>1 DEF CallMethod, HostInv
    <3>3. QED
      BY <2>1, <2>2, <3>1, <3>2 DEF HostInv, Same
  <2>5. CASE ~InitChannel(r) /\ ~CallMethod(r)
    <3>1. UNCHANGED <<host, went>>
      BY <1>1, <2>5
      DEF Step, Start, Parse, ParamFails, TakeParam, Parsed, Header, Found, NotFound, Stateless,
          RootPath, MakePointer, Load, RunFlow, Answer, Finish, hostVars
    <3>2. pc'[r] # "call"
      <4>1. CASE Start(r) \/ Parse(r) \/ TakeParam(r) \/ Finish(r)
        BY <4>1 DEF Start, Parse, TakeParam, Finish, Send, Goto
      <4>2. CASE ParamFails(r) \/ NotFound(r) \/ Load(r) \/ Answer(r)
        BY <4>2 DEF ParamFails, NotFound, Load, Answer, Send, Goto
      <4>3. CASE \/ Parsed(r) \/ Header(r) \/ Found(r) \/ Stateless(r) \/ RootPath(r)
                 \/ MakePointer(r) \/ RunFlow(r)
        BY <4>3 DEF Parsed, Header, Found, Stateless, RootPath, MakePointer, RunFlow, Goto
      <4>4. QED
        BY <1>1, <2>5, <4>1, <4>2, <4>3 DEF Step
    <3>3. QED
      BY <2>1, <2>2, <3>1, <3>2 DEF HostInv, Same
  <2>6. QED
    BY <2>3, <2>4, <2>5
<1>2. CASE UNCHANGED vars
  BY <1>2 DEF vars, HostInv, Loaded
<1>3. QED
  BY <1>1, <1>2 DEF Next, Stop

\* A call goes to the host of its own request where only stateless requests, which
\* have channels of their own, name hosts.
THEOREM HostsAreOwn ==
  ASSUME HostsApart
  PROVE  Spec => []HostIsOwn
<1>1. Init => HostInv
  BY DEF Init, HostInv, Channels
<1>2. LoggedInv /\ HostInv /\ [Next]_vars => HostInv'
  BY HostStep DEF LoggedInv
<1>3. HostInv => HostIsOwn
  BY DEF HostInv, HostIsOwn
<1>4. QED
  BY <1>1, <1>2, <1>3, LoggedInvariant, PTL DEF Spec

=============================================================================

-------------------------- MODULE SyncRecall_proof --------------------------
(***************************************************************************)
(* Proofs about SyncRecall, for every list of services, every priority and *)
(* every cancel order.                                                     *)
(***************************************************************************)
EXTENDS SyncRecall, TLAPS

(***************************************************************************)
(* The inductive invariant: what relates the serving thread's position to  *)
(* the life cycle of the calls.                                            *)
(***************************************************************************)

\* Calls exist once created, and are issued for built services only.
CallsBuilt ==
  /\ pc = "create" => built = {} /\ \A c \in Cntls : call[c] = "none"
  /\ pc # "create" => \A s \in Known : call[s] # "none"
  /\ \A c \in Cntls : call[c] \in {"flight", "locked", "ended"} => Owner(c) \in built
  /\ \A s \in Dynamic : call[s] \in {"none", "idle"}
  /\ pc = "build" => \A s \in built : s < at
  /\ pc \in {"create", "build", "join"} => recalled = {}

\* What the join loop has gone past is over.
JoinedSoFar ==
  /\ pc = "join" => \A s \in Services : s < at => Joinable(s)
  /\ pc \in {"parse", "done"} => \A s \in Services : Joinable(s)

\* Only a call that is ending runs a closure, and a static service's closure
\* cancels only if its own call succeeded.
SweepersEnding ==
  /\ \A c \in Cntls : sweep[c] > 0 => call[c] \in {"locked", "ended"}
  /\ \A c \in Services : sweep[c] > 0 => failed[c] = "no"

IInv ==
  /\ TypeOK
  /\ CallsBuilt
  /\ JoinedSoFar
  /\ SweepersEnding
  /\ CancelJustified
  /\ SweptAreStopped
  /\ RecalledAnswered

-----------------------------------------------------------------------------
(* Type correctness.                                                       *)

LEMMA OwnerKnown ==
  /\ \A c \in Subs : Owner(c) \in Dynamic /\ Owner(c) \in Known
  /\ \A s \in Services : Owner(s) = s
  /\ \A s \in Services : CallsOf(s) \subseteq Cntls
  BY ConfigAssumption DEF Owner, CallsOf, Cntls, Services

\* Every variable keeps its type, in particular the loops stay within the list
\* of services and a closure's sweep within the list of rpc ids.
THEOREM TypeCorrect == Spec => []TypeOK
<1>1. Init => TypeOK
  BY ConfigAssumption DEF Init, TypeOK, Cntls, Services
<1>2. TypeOK /\ [Next]_vars => TypeOK'
  <2> SUFFICES ASSUME TypeOK, [Next]_vars PROVE TypeOK'
    OBVIOUS
  <2> USE ConfigAssumption DEF TypeOK, Services, Cntls, args
  <2>1. CASE Create
    BY <2>1 DEF Create
  <2>2. ASSUME NEW s \in Services, Build(s) PROVE TypeOK'
    <3>1. call' \in [Cntls -> {"none", "idle", "flight", "locked", "ended"}]
      BY <2>2 DEF Build, Issued
    <3>2. at' \in Services /\ pc' \in {"build", "join"} /\ built' \subseteq Known
      BY <2>2 DEF Build, Advance
    <3>3. QED
      BY <2>2, <3>1, <3>2 DEF Build
  <2>3. ASSUME NEW s \in Services, BuildFails(s) PROVE TypeOK'
    BY <2>3 DEF BuildFails, Advance
  <2>4. ASSUME NEW s \in Services, JoinCall(s) PROVE TypeOK'
    BY <2>4 DEF JoinCall, Advance
  <2>5. ASSUME NEW s \in Services, Parse(s) PROVE TypeOK'
    <3>1. at' \in Services /\ pc' \in {"parse", "done"}
      BY <2>5 DEF Parse, Advance
    <3>2. recalled' \subseteq Known
      BY <2>5 DEF Parse
    <3>3. UNCHANGED <<order, prio, built, call, failed, sweep>>
      BY <2>5 DEF Parse
    <3>4. QED
      BY <3>1, <3>2, <3>3
  <2>6. ASSUME NEW c \in Cntls, Reply(c) \/ Fail(c) PROVE TypeOK'
    BY <2>6 DEF Reply, Fail
  <2>7. ASSUME NEW c \in Cntls, SweepBegin(c) PROVE TypeOK'
    BY <2>7 DEF SweepBegin
  <2>8. ASSUME NEW c \in Cntls, SweepStep(c) PROVE TypeOK'
    <3>1. sweep' \in [Cntls -> 0..(N + 1)]
      BY <2>8 DEF SweepStep
    <3>2. /\ call' \in [Cntls -> {"none", "idle", "flight", "locked", "ended"}]
          /\ failed' \in [Cntls -> {"no", "net", "cancel"}]
      <4>1. CASE UNCHANGED <<call, failed>>
        BY <4>1
      <4>2. ASSUME NEW s \in Services, StartCancel(s)
            PROVE  /\ call' \in [Cntls -> {"none", "idle", "flight", "locked", "ended"}]
                   /\ failed' \in [Cntls -> {"no", "net", "cancel"}]
        <5>1. call' \in [Cntls -> {"none", "idle", "flight", "locked", "ended"}]
          BY <4>2, Zenon DEF StartCancel
        <5>2. failed' \in [Cntls -> {"no", "net", "cancel"}]
          BY <4>2, Zenon DEF StartCancel
        <5>3. QED
          BY <5>1, <5>2
      <4>3. QED
        BY <2>8, <4>1, <4>2 DEF SweepStep
    <3>3. QED
      BY <2>8, <3>1, <3>2 DEF SweepStep
  <2>9. ASSUME NEW c \in Cntls, RunReturns(c) PROVE TypeOK'
    BY <2>9 DEF RunReturns
  <2>10. CASE UNCHANGED vars
    BY <2>10 DEF vars
  <2>11. QED
    BY <2>1, <2>2, <2>3, <2>4, <2>5, <2>6, <2>7, <2>8, <2>9, <2>10
    DEF Next, Returned
<1>3. QED
  BY <1>1, <1>2, PTL DEF Spec

-----------------------------------------------------------------------------
(* How a step moves a call: the facts the invariants rest on.              *)

\* A call that is ending stays so and keeps its outcome; one not yet issued that
\* was cancelled is never put in flight; sweeps only go forward.
Move(c) ==
  /\ call[c] = "ended" => call'[c] = "ended"
  /\ call[c] = "locked" => call'[c] \in {"locked", "ended"}
  /\ call[c] \in {"locked", "ended"} => failed'[c] = failed[c]
  /\ call[c] = "idle" /\ failed[c] = "cancel" =>
       call'[c] \in {"idle", "locked"} /\ failed'[c] = "cancel"
  /\ sweep'[c] \in Int /\ sweep'[c] >= sweep[c]

LEMMA SetFacts ==
  /\ Services \subseteq Cntls /\ Subs \subseteq Cntls /\ Services \subseteq Int
  /\ \A c \in Cntls : c \in Services \/ c \in Subs
  /\ \A c \in Subs : c \notin Services
  /\ 1 \in Services /\ Known \subseteq Services /\ Dynamic \subseteq Known
  /\ N \in Services /\ \A s \in Services : 1 <= s /\ s <= N
  BY ConfigAssumption DEF Services, Cntls

LEMMA StepMoves ==
  ASSUME TypeOK, CallsBuilt, [Next]_vars
  PROVE  UNCHANGED <<order, prio>> /\ \A d \in Cntls : Move(d)
<1> SUFFICES ASSUME NEW d \in Cntls PROVE UNCHANGED <<order, prio>> /\ Move(d)
  BY SetFacts
<1> USE DEF TypeOK, args
<1>0. /\ sweep[d] \in Int /\ sweep[d] >= 0
      /\ call[d] \in {"none", "idle", "flight", "locked", "ended"}
  BY ConfigAssumption
<1>1. CASE Create
  <2>1. call[d] = "none" /\ UNCHANGED <<order, prio, sweep>>
    BY <1>1 DEF Create, CallsBuilt
  <2>2. QED
    BY <1>0, <2>1 DEF Move
<1>2. ASSUME NEW s \in Services, Build(s) PROVE UNCHANGED <<order, prio>> /\ Move(d)
  <2>1. PICK cs \in SUBSET CallsOf(s) : call' = Issued(cs)
    BY <1>2 DEF Build
  <2>2. d \in cs => Owner(d) = s
    BY <2>1, SetFacts, OwnerKnown DEF CallsOf, Owner
  <2>3. d \in cs => call[d] \notin {"flight", "locked", "ended"}
    BY <1>2, <2>2, SetFacts DEF CallsBuilt, Build
  <2>4. UNCHANGED <<order, prio, failed, sweep>>
    BY <1>2 DEF Build
  <2>5. call'[d] = IF d \notin cs THEN call[d]
                   ELSE IF failed[d] = "no" THEN "flight" ELSE "locked"
    BY <2>1 DEF Issued
  <2>6. QED
    BY <1>0, <2>3, <2>4, <2>5 DEF Move
<1>3. ASSUME UNCHANGED <<order, prio, call, failed, sweep>>
      PROVE  UNCHANGED <<order, prio>> /\ Move(d)
  BY <1>0, <1>3 DEF Move
<1>4. ASSUME NEW s \in Services, BuildFails(s) \/ JoinCall(s) \/ Parse(s)
      PROVE  UNCHANGED <<order, prio>> /\ Move(d)
  BY <1>3, <1>4 DEF BuildFails, JoinCall, Parse
<1>5. ASSUME NEW c \in Cntls, Reply(c) \/ Fail(c)
      PROVE  UNCHANGED <<order, prio>> /\ Move(d)
  BY <1>0, <1>5 DEF Reply, Fail, Move
<1>6. ASSUME NEW c \in Cntls, SweepBegin(c) \/ RunReturns(c)
      PROVE  UNCHANGED <<order, prio>> /\ Move(d)
  BY <1>0, <1>6 DEF SweepBegin, RunReturns, Move
<1>7. ASSUME NEW c \in Cntls, SweepStep(c)
      PROVE  UNCHANGED <<order, prio>> /\ Move(d)
  <2>1. sweep'[d] \in Int /\ sweep'[d] >= sweep[d]
    BY <1>0, <1>7 DEF SweepStep
  <2>2. \/ call'[d] = call[d] /\ failed'[d] = failed[d]
        \/ call[d] = "idle" /\ call'[d] = "idle" /\ failed'[d] = "cancel"
        \/ call[d] = "flight" /\ call'[d] = "locked" /\ failed'[d] = "cancel"
    BY <1>7 DEF SweepStep, StartCancel
  <2>3. UNCHANGED <<order, prio>>
    BY <1>7 DEF SweepStep
  <2>4. QED
    BY <1>0, <2>1, <2>2, <2>3 DEF Move
<1>8. CASE UNCHANGED vars
  BY <1>3, <1>8 DEF vars
<1>9. QED
  BY <1>1, <1>2, <1>3, <1>4, <1>5, <1>6, <1>7, <1>8 DEF Next, Returned, vars

-----------------------------------------------------------------------------
(* Each part of the inductive invariant is preserved.                      *)

LEMMA CallsBuiltStep ==
  ASSUME TypeOK, CallsBuilt, [Next]_vars
  PROVE  CallsBuilt'
<1> USE SetFacts, OwnerKnown DEF TypeOK, args
<1>1. CASE Create
  <2>1. built' = {} /\ recalled' = {} /\ pc' = "build"
    BY <1>1 DEF Create, CallsBuilt
  <2>2. \A c \in Cntls : call'[c] = IF c \in Known THEN "idle" ELSE "none"
    BY <1>1 DEF Create
  <2>3. QED
    BY <2>1, <2>2 DEF CallsBuilt
<1>2. ASSUME NEW s \in Services, Build(s) PROVE CallsBuilt'
  <2>1. PICK cs \in SUBSET CallsOf(s) :
          (s \notin Dynamic => cs = CallsOf(s) \ Bare) /\ call' = Issued(cs)
    BY <1>2 DEF Build
  <2>2. \A c \in Cntls : call'[c] = IF c \notin cs THEN call[c]
                         ELSE IF failed[c] = "no" THEN "flight" ELSE "locked"
    BY <2>1 DEF Issued
  <2>3. \A c \in cs : Owner(c) = s /\ c \notin Dynamic
    BY <2>1 DEF CallsOf, Owner
  <2>4. /\ pc = "build" /\ at = s /\ built' = built \cup {s} /\ recalled' = recalled
        /\ s \in Known
    BY <1>2 DEF Build
  <2>5. \/ pc' = "build" /\ at' = s + 1
        \/ pc' = "join"
    BY <1>2, <2>4 DEF Build, Advance
  <2>6. \A t \in built' : t < s + 1
    BY <2>4 DEF CallsBuilt
  <2>7. \A c \in Cntls : call'[c] \in {"flight", "locked", "ended"} => Owner(c) \in built'
    BY <2>2, <2>3, <2>4 DEF CallsBuilt
  <2>8. /\ \A t \in Known : call'[t] # "none"
        /\ \A t \in Dynamic : call'[t] \in {"none", "idle"}
    BY <2>2, <2>3, <2>4 DEF CallsBuilt
  <2>9. QED
    BY <2>4, <2>5, <2>6, <2>7, <2>8 DEF CallsBuilt
<1>3. ASSUME NEW s \in Services, BuildFails(s) PROVE CallsBuilt'
  <2>1. /\ pc = "build" /\ at = s /\ UNCHANGED <<built, call, recalled>>
    BY <1>3 DEF BuildFails
  <2>2. \/ pc' = "build" /\ at' = s + 1
        \/ pc' = "join"
    BY <1>3, <2>1 DEF BuildFails, Advance
  <2>3. QED
    BY <2>1, <2>2 DEF CallsBuilt
<1>4. ASSUME NEW s \in Services, JoinCall(s) PROVE CallsBuilt'
  <2>1. /\ pc = "join" /\ pc' \in {"join", "parse"} /\ UNCHANGED <<built, call, recalled>>
    BY <1>4 DEF JoinCall, Advance
  <2>2. QED
    BY <2>1 DEF CallsBuilt
<1>5. ASSUME NEW s \in Services, Parse(s) PROVE CallsBuilt'
  <2>1. /\ pc = "parse" /\ pc' \in {"parse", "done"} /\ UNCHANGED <<built, call>>
    BY <1>5 DEF Parse, Advance
  <2>2. QED
    BY <2>1 DEF CallsBuilt
<1>6. ASSUME NEW c \in Cntls, call[c] \in {"flight", "locked"},
             call' \in [Cntls -> {"none", "idle", "flight", "locked", "ended"}],
             \A d \in Cntls : d # c => call'[d] = call[d],
             call'[c] # "none", UNCHANGED <<pc, at, built, recalled>>
      PROVE  CallsBuilt'
  BY <1>6 DEF CallsBuilt
<1>7. ASSUME NEW c \in Cntls, Reply(c) \/ Fail(c) \/ RunReturns(c) PROVE CallsBuilt'
  BY <1>6, <1>7 DEF Reply, Fail, RunReturns
<1>8. ASSUME UNCHANGED <<pc, at, built, call, recalled>> PROVE CallsBuilt'
  BY <1>8 DEF CallsBuilt
<1>9. ASSUME NEW c \in Cntls, SweepBegin(c) PROVE CallsBuilt'
  BY <1>8, <1>9 DEF SweepBegin
<1>10. ASSUME NEW c \in Cntls, SweepStep(c) PROVE CallsBuilt'
  <2>1. UNCHANGED <<pc, at, built, recalled>> /\ sweep[c] \in Cntls
    BY <1>10 DEF SweepStep
  <2>2. \/ UNCHANGED call
        \/ call[sweep[c]] = "flight" /\ call' = [call EXCEPT ![sweep[c]] = "locked"]
    BY <1>10 DEF SweepStep, StartCancel
  <2>3. QED
    BY <1>6, <1>8, <2>1, <2>2
<1>11. CASE UNCHANGED vars
  BY <1>8, <1>11 DEF vars
<1>12. QED
  BY <1>1, <1>2, <1>3, <1>4, <1>5, <1>7, <1>9, <1>10, <1>11 DEF Next, Returned, vars

LEMMA JoinedStep ==
  ASSUME TypeOK, CallsBuilt, JoinedSoFar, [Next]_vars
  PROVE  JoinedSoFar'
<1> USE SetFacts, OwnerKnown DEF TypeOK, args
<1>1. CASE Create
  BY <1>1 DEF Create, JoinedSoFar
<1>2. ASSUME NEW s \in Services, Build(s) \/ BuildFails(s) PROVE JoinedSoFar'
  <2>1. pc' = "build" \/ (pc' = "join" /\ at' = 1)
    BY <1>2 DEF Build, BuildFails, Advance
  <2>2. QED
    BY <2>1 DEF JoinedSoFar
<1>3. ASSUME NEW s \in Services, JoinCall(s) PROVE JoinedSoFar'
  <2>1. pc = "join" /\ at = s /\ Joinable(s) /\ UNCHANGED <<built, call>>
    BY <1>3 DEF JoinCall
  <2>2. \A t \in Services : Joinable(t) => Joinable(t)'
    BY <2>1 DEF Joinable
  <2>3. \/ s < N /\ pc' = "join" /\ at' = s + 1
        \/ ~(s < N) /\ pc' = "parse"
    BY <1>3, <2>1 DEF JoinCall, Advance
  <2>4. \A t \in Services : t < s => Joinable(t)
    BY <2>1 DEF JoinedSoFar
  <2>5. CASE s < N /\ pc' = "join" /\ at' = s + 1
    <3>1. \A t \in Services : t < at' => t < s \/ t = s
      BY <2>5
    <3>2. QED
      BY <2>1, <2>2, <2>4, <2>5, <3>1 DEF JoinedSoFar
  <2>6. CASE ~(s < N) /\ pc' = "parse"
    <3>1. \A t \in Services : t < s \/ t = s
      BY <2>6
    <3>2. QED
      BY <2>1, <2>2, <2>4, <2>6, <3>1 DEF JoinedSoFar
  <2>7. QED
    BY <2>3, <2>5, <2>6
<1>4. ASSUME NEW s \in Services, Parse(s) PROVE JoinedSoFar'
  <2>1. pc = "parse" /\ pc' \in {"parse", "done"} /\ UNCHANGED <<built, call>>
    BY <1>4 DEF Parse, Advance
  <2>2. \A t \in Services : Joinable(t) => Joinable(t)'
    BY <2>1 DEF Joinable
  <2>3. QED
    BY <2>1, <2>2 DEF JoinedSoFar
<1>5. ASSUME UNCHANGED <<pc, at, built>>,
             \A c \in Cntls : call[c] \in {"none", "ended"} => call'[c] = call[c]
      PROVE  JoinedSoFar'
  <2>1. \A t \in Services : Joinable(t) => Joinable(t)'
    BY <1>5 DEF Joinable
  <2>2. QED
    BY <1>5, <2>1 DEF JoinedSoFar
<1>6. ASSUME NEW c \in Cntls, Reply(c) \/ Fail(c) \/ RunReturns(c) PROVE JoinedSoFar'
  BY <1>5, <1>6 DEF Reply, Fail, RunReturns
<1>7. ASSUME NEW c \in Cntls, SweepBegin(c) \/ SweepStep(c) PROVE JoinedSoFar'
  BY <1>5, <1>7 DEF SweepBegin, SweepStep, StartCancel
<1>8. CASE UNCHANGED vars
  BY <1>5, <1>8 DEF vars
<1>9. QED
  BY <1>1, <1>2, <1>3, <1>4, <1>6, <1>7, <1>8 DEF Next, Returned, vars

LEMMA SweepersStep ==
  ASSUME TypeOK, CallsBuilt, SweepersEnding, [Next]_vars
  PROVE  SweepersEnding'
<1> USE SetFacts, OwnerKnown DEF TypeOK, args
<1>1. \A d \in Cntls : Move(d)
  BY StepMoves
<1> DEFINE Begins(d) == call[d] = "locked" /\ (sweep[d] > 0 \/ failed[Owner(d)] = "no")
<1>2. \A d \in Cntls : sweep'[d] # sweep[d] => Begins(d)
  <2>1. ASSUME NEW c \in Cntls, SweepBegin(c) \/ SweepStep(c), NEW d \in Cntls
        PROVE  sweep'[d] # sweep[d] => Begins(d)
    BY <2>1 DEF SweepBegin, SweepStep
  <2>2. QED
    BY <2>1 DEF Next, Create, Build, BuildFails, JoinCall, Parse, Reply, Fail,
                RunReturns, Returned, vars
<1>3. ASSUME NEW d \in Cntls, sweep'[d] > 0
      PROVE  call[d] \in {"locked", "ended"} /\ (d \in Services => failed[d] = "no")
  BY <1>2, <1>3 DEF SweepersEnding
<1>4. QED
  BY <1>1, <1>3 DEF SweepersEnding, Move

LEMMA JustifiedStep ==
  ASSUME TypeOK, CallsBuilt, SweepersEnding, CancelJustified, [Next]_vars
  PROVE  CancelJustified'
<1> USE SetFacts DEF TypeOK
<1>1. UNCHANGED <<order, prio>> /\ \A d \in Cntls : Move(d)
  BY StepMoves
<1>2. SUFFICES ASSUME NEW s \in Services, failed'[s] = "cancel"
               PROVE  \E c \in Cntls :
                        /\ sweep'[c] > s
                        /\ MayStop(order, Owner(c), s)'
                        /\ c \in Services => failed'[c] = "no" /\ call'[c] \in {"locked", "ended"}
  BY DEF CancelJustified
<1>3. CASE failed[s] = "cancel"
  <2>1. PICK c \in Cntls :
          /\ sweep[c] > s
          /\ MayStop(order, Owner(c), s)
          /\ c \in Services => failed[c] = "no" /\ call[c] \in {"locked", "ended"}
    BY <1>3 DEF CancelJustified
  <2>2. sweep'[c] > s
    <3>1. sweep[c] \in Int /\ s \in Int
      BY ConfigAssumption
    <3>2. QED
      BY <1>1, <2>1, <3>1 DEF Move
  <2>3. MayStop(order, Owner(c), s)'
    BY <1>1, <2>1 DEF MayStop
  <2>4. QED
    BY <1>1, <2>1, <2>2, <2>3 DEF Move
<1>4. CASE failed[s] # "cancel"
  <2>1. \E c \in Cntls : SweepStep(c)
    BY <1>2, <1>4 DEF Next, Create, Build, BuildFails, JoinCall, Parse, Reply, Fail,
                      SweepBegin, RunReturns, Returned, vars
  <2>2. PICK c \in Cntls : SweepStep(c)
    BY <2>1
  <2>3. sweep[c] = s /\ sweep'[c] = s + 1 /\ Cancels(Owner(c), s) /\ call[c] = "locked"
    BY <1>2, <1>4, <2>2 DEF SweepStep, StartCancel
  <2>4. MayStop(order, Owner(c), s)'
    BY <1>1, <2>3 DEF MayStop, Cancels
  <2>5. c \in Services => failed[c] = "no"
    BY <2>3 DEF SweepersEnding
  <2>6. QED
    BY <1>1, <2>3, <2>4, <2>5 DEF Move
<1>5. QED
  BY <1>3, <1>4

LEMMA SweptStep ==
  ASSUME TypeOK, CallsBuilt, SweptAreStopped, [Next]_vars
  PROVE  SweptAreStopped'
<1> USE SetFacts DEF TypeOK
<1>1. UNCHANGED <<order, prio>> /\ \A d \in Cntls : Move(d)
  BY StepMoves
<1>2. SUFFICES ASSUME NEW c \in Cntls, NEW s \in Known \ Dynamic,
                      sweep'[c] > s, MayStop(order, Owner(c), s)'
               PROVE  \/ call'[s] \in {"locked", "ended"}
                      \/ call'[s] = "idle" /\ failed'[s] = "cancel"
  BY DEF SweptAreStopped
<1>3. MayStop(order, Owner(c), s)
  BY <1>1, <1>2 DEF MayStop
<1>4. CASE sweep[c] > s
  BY <1>1, <1>3, <1>4 DEF SweptAreStopped, Move
<1>5. CASE ~(sweep[c] > s)
  <2>1. sweep'[c] # sweep[c] /\ sweep'[c] # 1
    BY <1>2, <1>5
  <2>2. SweepStep(c)
    BY <2>1 DEF Next, Create, Build, BuildFails, JoinCall, Parse, Reply, Fail,
                SweepBegin, SweepStep, RunReturns, Returned, vars
  <2>3. sweep[c] = s /\ call[c] = "locked" /\ sweep[c] \in Known
    BY <1>2, <1>5, <2>2, ConfigAssumption DEF SweepStep
  <2>4. Cancels(Owner(c), s)
    BY <1>3, ConfigAssumption DEF Cancels, MayStop
  <2>5. StartCancel(s)
    BY <2>2, <2>3, <2>4 DEF SweepStep
  <2>6. call[s] # "none"
    BY <2>3 DEF CallsBuilt
  <2>7. call[s] \in {"idle", "flight", "locked", "ended"}
    BY <2>6
  <2>8. QED
    BY <2>5, <2>7 DEF StartCancel
<1>6. QED
  BY <1>4, <1>5

LEMMA AnsweredStep ==
  ASSUME TypeOK, CallsBuilt, JoinedSoFar, RecalledAnswered, [Next]_vars
  PROVE  RecalledAnswered'
<1> USE SetFacts DEF TypeOK
<1>1. \A d \in Cntls : Move(d)
  BY StepMoves
<1>2. SUFFICES ASSUME NEW s \in recalled' \cap built', s \notin Dynamic
               PROVE  call'[s] = "ended" /\ failed'[s] = "no"
  BY DEF RecalledAnswered
<1>3. CASE s \in recalled /\ s \in built
  BY <1>1, <1>2, <1>3 DEF RecalledAnswered, Move
<1>4. CASE s \notin recalled
  <2>1. PICK t \in Services : Parse(t)
    BY <1>2, <1>4 DEF Next, Create, Build, BuildFails, JoinCall, Reply, Fail,
                      SweepBegin, SweepStep, RunReturns, Returned, vars
  <2>2. t = s /\ pc = "parse" /\ failed[s] = "no" /\ UNCHANGED <<built, call, failed>>
    BY <1>2, <1>4, <2>1 DEF Parse
  <2>3. Joinable(s)
    BY <2>2 DEF JoinedSoFar
  <2>4. call[s] = "ended"
    BY <1>2, <2>2, <2>3 DEF Joinable, CallsOf
  <2>5. QED
    BY <2>2, <2>4
<1>5. CASE s \notin built
  <2>1. PICK t \in Services : Build(t)
    BY <1>2, <1>5 DEF Next, Create, BuildFails, JoinCall, Parse, Reply, Fail,
                      SweepBegin, SweepStep, RunReturns, Returned, vars
  <2>2. recalled' = {}
    BY <2>1 DEF Build, CallsBuilt
  <2>3. QED
    BY <1>2, <2>2
<1>6. QED
  BY <1>3, <1>4, <1>5

-----------------------------------------------------------------------------
(* The theorems.                                                           *)

\* IInv is an invariant: every part holds at first and is preserved.
THEOREM IndInvariant == Spec => []IInv
<1>1. Init => IInv
  <2> SUFFICES ASSUME Init PROVE IInv
    OBVIOUS
  <2>1. TypeOK
    BY ConfigAssumption DEF Init, TypeOK, Cntls, Services
  <2>2. CallsBuilt /\ JoinedSoFar
    BY SetFacts DEF Init, CallsBuilt, JoinedSoFar
  <2>3. SweepersEnding /\ CancelJustified
    BY SetFacts DEF Init, SweepersEnding, CancelJustified
  <2>4. SweptAreStopped /\ RecalledAnswered
    BY SetFacts DEF Init, SweptAreStopped, RecalledAnswered
  <2>5. QED
    BY <2>1, <2>2, <2>3, <2>4 DEF IInv
<1>2. IInv /\ TypeOK' /\ [Next]_vars => IInv'
  BY CallsBuiltStep, JoinedStep, SweepersStep, JustifiedStep, SweptStep, AnsweredStep
  DEF IInv
<1>3. QED
  BY <1>1, <1>2, TypeCorrect, PTL DEF Spec

\* While answers are parsed no call is in flight and no closure runs.
LEMMA JoinedImplied == IInv => JoinedBeforeParse
<1> SUFFICES ASSUME IInv, pc \in {"parse", "done"}, NEW c \in Cntls,
                    call[c] \in {"flight", "locked"}
             PROVE  FALSE
  BY DEF JoinedBeforeParse
<1>1. Owner(c) \in built
  BY DEF IInv, CallsBuilt
<1>2. Owner(c) \in Services /\ c \in CallsOf(Owner(c))
  BY SetFacts, OwnerKnown DEF CallsOf, Owner, IInv, CallsBuilt
<1>3. Joinable(Owner(c))
  BY <1>2 DEF IInv, JoinedSoFar
<1>4. QED
  BY <1>1, <1>2, <1>3 DEF Joinable

\* Only a call that succeeded, and that the cancel order lets do so, gets another
\* call cancelled: BaseRPCClosure::Run and the three cancel() overrides.
THEOREM CancelsAreJustified == Spec => []CancelJustified
  BY IndInvariant, PTL DEF IInv

\* What a closure's sweep has passed never comes back to life, calls issued after
\* the cancellation included.
THEOREM SweptStayStopped == Spec => []SweptAreStopped
  BY IndInvariant, PTL DEF IInv

\* run() parses, and returns, with every call and every closure over: no callback
\* outlives the controllers it works on.
THEOREM JoinIsComplete == Spec => []JoinedBeforeParse
  BY IndInvariant, JoinedImplied, PTL

\* A built static service reported as recalled has been answered.
THEOREM RecallIsAnswered == Spec => []RecalledAnswered
  BY IndInvariant, PTL DEF IInv

\* The outcomes the parsing loop reads do not change under it.
THEOREM ParseReadsFrozen == Spec => OutcomesFrozen
<1>1. IInv /\ [Next]_vars => [pc = "parse" => UNCHANGED <<call, failed, sweep>>]_vars
  <2> SUFFICES ASSUME IInv, [Next]_vars, pc = "parse"
               PROVE  UNCHANGED <<call, failed, sweep>>
    OBVIOUS
  <2>1. \A c \in Cntls : call[c] \notin {"flight", "locked"}
    BY JoinedImplied DEF JoinedBeforeParse
  <2>2. QED
    BY <2>1 DEF Next, Create, Build, BuildFails, JoinCall, Parse, Reply, Fail, SweepBegin,
                SweepStep, RunReturns, Returned, vars
<1>2. QED
  BY <1>1, IndInvariant, PTL DEF Spec, OutcomesFrozen

=============================================================================

------------------------------ MODULE SyncRecall ------------------------------
(***************************************************************************)
(* One call of BackendEngine::run(recall_services, context, cancel_order), *)
(* the recall phase of a flow node under the default policy.  The thread   *)
(* serving the request creates one controller per service, issues the      *)
(* calls, joins them and parses the answers.  Meanwhile brpc ends the      *)
(* calls in any order and runs their closures on other threads, and a      *)
(* closure may cancel the peers of its call (the cancel order).            *)
(*                                                                         *)
(* A service is its position in recall_services.  The controllers of a     *)
(* DynamicHTTPController's list ("subs") carry the calls of a dynamic      *)
(* service, whose own brpc controller is created but never issued.         *)
(***************************************************************************)
EXTENDS Integers, FiniteSets

CONSTANTS
  N,            \* length of recall_services
  Known,        \* the positions whose name is in _service_map
  Dynamic,      \* the services whose backend is dynamic
  Bare,         \* the services configured without a request block
  Subs,         \* controllers a dynamic service may put in its list
  SubOwner,     \* the dynamic service a sub belongs to
  Priorities,   \* priorities a configuration may give
  Orders        \* cancel orders a configuration may give

Services == 1..N

AllOrders == {"ALL", "PRIORITY", "HIERACHY", "NONE"}

ASSUME ConfigAssumption ==
  /\ N \in Nat \ {0}
  /\ Known \subseteq Services
  /\ Dynamic \subseteq Known
  /\ Bare \subseteq Known \ Dynamic
  /\ Subs \cap Services = {}
  /\ SubOwner \in [Subs -> Dynamic]
  /\ Priorities \subseteq Int
  /\ Orders \subseteq AllOrders

VARIABLES
  order,      \* cancel_order, an argument of the call
  prio,       \* the priority of each service, an argument of the call
  pc,         \* the loop of run() the serving thread is in
  at,         \* the position that loop is at
  built,      \* build_request_result
  call,       \* the brpc life cycle of every controller's call id
  failed,     \* why Controller::Failed() holds: "no" when it does not
  sweep,      \* how far Run() of a call's closure got: 0 before its first test,
              \* k when rpc id k is the next one to be looked at
  recalled    \* success_recall_services, and the members of "backend"

vars == <<order, prio, pc, at, built, call, failed, sweep, recalled>>
args == <<order, prio>>

Cntls == Services \cup Subs

\* The service a controller works for.
Owner(c) == IF c \in Subs THEN SubOwner[c] ELSE c

\* The controllers whose calls a service's request consists of.
CallsOf(s) == IF s \in Dynamic THEN {c \in Subs : SubOwner[c] = s} ELSE {s}

TypeOK ==
  /\ order \in Orders
  /\ prio \in [Services -> Priorities]
  /\ pc \in {"create", "build", "join", "parse", "done"}
  /\ at \in Services
  /\ built \subseteq Known
  /\ call \in [Cntls -> {"none", "idle", "flight", "locked", "ended"}]
  /\ failed \in [Cntls -> {"no", "net", "cancel"}]
  /\ sweep \in [Cntls -> 0..(N + 1)]
  /\ recalled \subseteq Known

Init ==
  /\ order \in Orders
  /\ prio \in [Services -> Priorities]
  /\ pc = "create"
  /\ at = 1
  /\ built = {}
  /\ call = [c \in Cntls |-> "none"]
  /\ failed = [c \in Cntls |-> "no"]
  /\ sweep = [c \in Cntls |-> 0]
  /\ recalled = {}

-----------------------------------------------------------------------------
(* The serving thread.                                                     *)

\* End of an iteration of the current loop: the next position, or the next loop.
\* (Mutants: one iteration too many; the loop is not left.)
AdvanceTooFar(nextLoop) ==
  IF at <= N THEN at' = at + 1 /\ UNCHANGED pc
             ELSE at' = 1 /\ pc' = nextLoop

AdvanceRound(nextLoop) == at' = (at % N) + 1 /\ UNCHANGED pc

Advance(nextLoop) ==
  IF at < N THEN at' = at + 1 /\ UNCHANGED pc
            ELSE at' = 1 /\ pc' = nextLoop

\* The first loop: a controller per known service, its call id taken (so that
\* the list of ids is complete before any call is issued).
Create ==
  /\ pc = "create"
  /\ pc' = "build"
  /\ call' = [c \in Cntls |-> IF c \in Known THEN "idle" ELSE "none"]
  /\ UNCHANGED <<args, at, built, failed, sweep, recalled>>

\* CallMethod: a call cancelled before it is issued ends at once, as failed.
Issued(cs) ==
  [c \in Cntls |-> IF c \notin cs THEN call[c]
                   ELSE IF failed[c] = "no" THEN "flight" ELSE "locked"]

\* The second loop, build_request succeeding.  A dynamic service issues one call
\* per element of dynamic_args, a service without a request block none.
Build(s) ==
  /\ pc = "build" /\ at = s /\ s \in Known
  /\ built' = built \cup {s}
  /\ \E cs \in SUBSET CallsOf(s) :
       /\ s \notin Dynamic => cs = CallsOf(s) \ Bare
       /\ call' = Issued(cs)
  /\ Advance("join")
  /\ UNCHANGED <<args, failed, sweep, recalled>>

\* build_request failing (nothing is issued), or a service that is not known.
BuildFails(s) ==
  /\ pc = "build" /\ at = s
  /\ s \notin Bare
  /\ Advance("join")
  /\ UNCHANGED <<args, built, call, failed, sweep, recalled>>

\* Join returns once the id is destroyed, that is after done->Run(); the id of
\* a call that was never issued is not destroyed.
\* (Mutants: join() not overridden for dynamic services; waiting for the answer
\* and not for the closure.)
JoinOuterOnly(s) == s \in built => (s \in Dynamic \/ call[s] = "ended")
JoinAnswerOnly(s) == s \in built => \A c \in CallsOf(s) : call[c] # "flight"

Joinable(s) ==
  s \in built => \A c \in CallsOf(s) : call[c] = "ended" \/ (c \in Subs /\ call[c] = "none")

JoinCall(s) ==
  /\ pc = "join" /\ at = s
  /\ Joinable(s)
  /\ Advance("parse")
  /\ UNCHANGED <<args, built, call, failed, sweep, recalled>>

\* The last loop: a controller that has not Failed() is parsed, whatever its
\* answer is; parsing may succeed or not.  (Mutant: Failed() is not looked at.)
ParseAny(s) ==
  /\ pc = "parse" /\ at = s
  /\ \/ UNCHANGED recalled
     \/ s \in Known /\ recalled' = recalled \cup {s}
  /\ Advance("done")
  /\ UNCHANGED <<args, built, call, failed, sweep>>

Parse(s) ==
  /\ pc = "parse" /\ at = s
  /\ \/ UNCHANGED recalled
     \/ /\ s \in Known /\ failed[s] = "no"
        /\ recalled' = recalled \cup {s}
  /\ Advance("done")
  /\ UNCHANGED <<args, built, call, failed, sweep>>

-----------------------------------------------------------------------------
(* brpc, external: calls end in any order.                                 *)

\* The answer (status 200), or an error or the channel's timeout, locks the id.
Reply(c) ==
  /\ call[c] = "flight"
  /\ call' = [call EXCEPT ![c] = "locked"]
  /\ UNCHANGED <<args, pc, at, built, failed, sweep, recalled>>

Fail(c) ==
  /\ call[c] = "flight"
  /\ call' = [call EXCEPT ![c] = "locked"]
  /\ failed' = [failed EXCEPT ![c] = "net"]
  /\ UNCHANGED <<args, pc, at, built, sweep, recalled>>

\* StartCancel on a call id: an issued call fails, one not yet issued is marked;
\* nothing happens to a call that is ending or has ended.
StartCancel(s) ==
  /\ failed' = IF call[s] \in {"idle", "flight"}
               THEN [failed EXCEPT ![s] = "cancel"] ELSE failed
  /\ call' = IF call[s] = "flight" THEN [call EXCEPT ![s] = "locked"] ELSE call

-----------------------------------------------------------------------------
(* The closures.                                                           *)

\* Which ids AllCancelClosure, PriorityClosure and HierarchyClosure cancel.
\* (Mutant: the comparison of the priorities reversed.)
CancelsUpwards(self, s) ==
  \/ order = "ALL"
  \/ order = "PRIORITY" /\ prio[s] >= prio[self]
  \/ order = "HIERACHY" /\ prio[s] = prio[self]

Cancels(self, s) ==
  \/ order = "ALL"
  \/ order = "PRIORITY" /\ prio[s] <= prio[self]
  \/ order = "HIERACHY" /\ prio[s] = prio[self]

\* The test at the start of BaseRPCClosure::Run: on the service's own controller,
\* which for a dynamic service is not the one whose call has ended.
SweepBegin(c) ==
  /\ call[c] = "locked" /\ sweep[c] = 0
  /\ order # "NONE" /\ failed[Owner(c)] = "no"
  /\ sweep' = [sweep EXCEPT ![c] = 1]
  /\ UNCHANGED <<args, pc, at, built, call, failed, recalled>>

\* One iteration of the loop over _rpc_ids, which lists the known services.
\* (Mutant: only calls already issued are cancelled.)
SweepIssuedOnly(c) ==
  /\ call[c] = "locked" /\ sweep[c] \in Services
  /\ IF sweep[c] \in Known /\ Cancels(Owner(c), sweep[c]) /\ call[sweep[c]] # "idle"
     THEN StartCancel(sweep[c]) ELSE UNCHANGED <<call, failed>>
  /\ sweep' = [sweep EXCEPT ![c] = @ + 1]
  /\ UNCHANGED <<args, pc, at, built, recalled>>

SweepStep(c) ==
  /\ call[c] = "locked" /\ sweep[c] \in Services
  /\ IF sweep[c] \in Known /\ Cancels(Owner(c), sweep[c])
     THEN StartCancel(sweep[c]) ELSE UNCHANGED <<call, failed>>
  /\ sweep' = [sweep EXCEPT ![c] = @ + 1]
  /\ UNCHANGED <<args, pc, at, built, recalled>>

\* Run returns, and brpc destroys the id.
RunReturns(c) ==
  /\ call[c] = "locked"
  /\ \/ sweep[c] = N + 1
     \/ sweep[c] = 0 /\ (order = "NONE" \/ failed[Owner(c)] # "no")
  /\ call' = [call EXCEPT ![c] = "ended"]
  /\ UNCHANGED <<args, pc, at, built, failed, sweep, recalled>>

-----------------------------------------------------------------------------
Serving(s) == Build(s) \/ BuildFails(s) \/ JoinCall(s) \/ Parse(s)
Closure(c) == SweepBegin(c) \/ SweepStep(c) \/ RunReturns(c)

\* run() has returned and no closure of it is left.
Returned == pc = "done" /\ UNCHANGED vars

Next ==
  \/ Create
  \/ \E s \in Services : Build(s) \/ BuildFails(s) \/ JoinCall(s) \/ Parse(s)
  \/ \E c \in Cntls : Reply(c) \/ Fail(c)
  \/ \E c \in Cntls : SweepBegin(c) \/ SweepStep(c) \/ RunReturns(c)
  \/ Returned

\* Threads are scheduled, and the channel's timeout ends every issued call.
Fairness ==
  /\ WF_vars(Create)
  /\ \A s \in Services : WF_vars(Serving(s))
  /\ \A c \in Cntls : WF_vars(Closure(c)) /\ WF_vars(Reply(c) \/ Fail(c))

Spec == Init /\ [][Next]_vars /\ Fairness
-----------------------------------------------------------------------------
(* Properties.                                                             *)

\* What docs/config.md promises of each order: the peers a call that has
\* returned may stop.
MayStop(o, winner, loser) ==
  CASE o = "ALL" -> TRUE
    [] o = "PRIORITY" -> prio[loser] <= prio[winner]
    [] o = "HIERACHY" -> prio[loser] = prio[winner]
    [] OTHER -> FALSE

\* A call is only ever cancelled by the closure of a call that the order lets
\* stop it, and that closure's own call has succeeded and can no longer be
\* cancelled (unless it is one of a dynamic service's): two closures never stop
\* each other's calls, so a recall that cancels anything has a winner, and under
\* PRIORITY a winner the loser does not outrank.
CancelJustified ==
  \A s \in Services : failed[s] = "cancel" =>
    \E c \in Cntls :
      /\ sweep[c] > s
      /\ MayStop(order, Owner(c), s)
      /\ c \in Services => failed[c] = "no" /\ call[c] \in {"locked", "ended"}

\* Once a closure that cancels has passed a peer of the kinds that are issued
\* through their own controller, that peer is stopped for good: it is not in
\* flight, and if it was not issued yet it can only end as cancelled.  This is
\* the order's promise, for calls issued before and after the cancellation.
SweptAreStopped ==
  \A c \in Cntls, s \in Known \ Dynamic :
    sweep[c] > s /\ MayStop(order, Owner(c), s) =>
      \/ call[s] \in {"locked", "ended"}
      \/ call[s] = "idle" /\ failed[s] = "cancel"

\* When answers are parsed every call of the recall has ended and its closure
\* has returned: the controllers may be read, and destroyed when run() returns.
JoinedBeforeParse ==
  pc \in {"parse", "done"} => \A c \in Cntls : call[c] \notin {"flight", "locked"}

\* The outcomes the parsing loop reads do not change under it.
OutcomesFrozen == [][pc = "parse" => UNCHANGED <<call, failed, sweep>>]_vars

\* A service whose request was built and that is reported in $recall was
\* answered: its call succeeded (a dynamic service's may have failed).
RecalledAnswered ==
  \A s \in recalled \cap built :
    s \notin Dynamic => call[s] = "ended" /\ failed[s] = "no"

\* The recall returns, if every service's request block issues a call.
RecallReturns == <>(pc = "done")
=============================================================================

----------------------------- MODULE MCAsyncRecall -----------------------------
(* Instances of AsyncRecall for TLC: up to five services, one of them       *)
(* dynamic, and flows of up to three nodes.                                 *)
EXTENDS AsyncRecall

CONSTANTS d1, d2, root

SubsOf(s) == [c \in Subs |-> s]
SubsOf3 == SubsOf(3)
SubsOf5 == SubsOf(5)

NoNext == [s \in Services |-> ""]
Lead(s, n) == [NoNext EXCEPT ![s] = n]
Node(recall, next, order) ==
  [recall |-> recall, intervene |-> 0, toFlow |-> "", next |-> next, order |-> order,
   prio |-> [s \in Services |-> IF s = 1 THEN 1 ELSE 0]]

\* One node.
Flat(recall, order) == [n \in {"start"} |-> Node(recall, NoNext, order)]

\* Services 1 and 2 at the start, each leading to a node of its own.
Branches ==
  [n \in {"start", "left", "right"} |->
     CASE n = "start" -> Node(<<1, 2>>, [NoNext EXCEPT ![1] = "left", ![2] = "right"], "GLOBAL_CANCEL")
       [] n = "left"  -> Node(<<3>>, NoNext, "GLOBAL_CANCEL")
       [] n = "right" -> Node(<<4>>, NoNext, "GLOBAL_CANCEL")]

\* Services 1 and 2 at the start; 2 leads to a node that recalls 3 and 4.
Fork(order, order2) ==
  [n \in {"start", "more"} |->
     IF n = "start" THEN Node(<<1, 2>>, Lead(2, "more"), order)
                    ELSE Node(<<3, 4>>, NoNext, order2)]

\* The same, where an intervention may lead on from the second node.
Led(flow) == [flow EXCEPT !["more"].toFlow = "start"]

\* Quit conditions, as the results they are true of: service 1 has answered; and
\* one that further answers may make false again.
Has1 == {Q \in SUBSET Services : 1 \in Q}
Fickle == {{1, 2}, {1, 3}, {1, 2, 3, 4}}

Global(flow, when, timeouts) ==
  [flow |-> flow, hasIds |-> TRUE, quitWhen |-> when, quitFails |-> {}, timeouts |-> timeouts]
Recurrent(flow) ==
  [flow |-> flow, hasIds |-> FALSE, quitWhen |-> {}, quitFails |-> {}, timeouts |-> FALSE]

\* Static branches, whether or not calls have timeouts; and a node with a dynamic
\* service, whose calls may be registered after the request has quit.
GlobalSetups ==
  {Global(Branches, Fickle, t) : t \in BOOLEAN}
    \cup {Global(Flat(<<1, 5>>, "GLOBAL_CANCEL"), Has1, TRUE)}

\* Cancellation inside a node, with the ids or without, next to a dynamic service; a node
\* whose services are replaced by a dynamic one.
LocalSetups ==
  {Global(Fork("PRIORITY", "HIERACHY"), {}, TRUE), Global(Flat(<<1, 3, 2>>, "ALL"), {}, TRUE),
   Global([Flat(<<1, 2>>, "ALL") EXCEPT !["start"].intervene = 3], {}, TRUE),
   Recurrent(Led(Fork("ALL", "NONE")))}

\* The setups of single findings.
LateSetups == {Global(Flat(<<1, 3>>, "GLOBAL_CANCEL"), Has1, TRUE)}
TwiceSetups == {Global(Flat(<<1, 3>>, "GLOBAL_CANCEL"), {}, TRUE)}
=============================================================================

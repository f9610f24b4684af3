------------------------------ MODULE MCFlowRun ------------------------------
(* Instances of FlowRun for TLC: flows of three nodes, one of them with a   *)
(* cycle.                                                                  *)
EXTENDS FlowRun

Node1(services, branches, following) ==
  [recall |-> services, toService |-> "", toFlow |-> "", ifs |-> branches, next |-> following]

\* Three nodes in a row; the first may skip the second or end, and its branch
\* may name a node that is not there.
Chain(r1, r2, r3) ==
  [n \in {"one", "two", "three"} |->
     CASE n = "one" -> Node1(r1, <<"three", "", "nowhere">>, "two")
       [] n = "two" -> Node1(r2, <<>>, "three")
       [] n = "three" -> Node1(r3, <<"">>, "")]

\* The first node led by interventions, one after another, to the last one.
Led == [Chain(<<"a">>, <<"b">>, <<"c">>) EXCEPT !["one"].toFlow = "two", !["two"].toFlow = "three"]

\* A chain that flow_check refuses.
Broken == [Chain(<<"a">>, <<"b">>, <<"c">>) EXCEPT !["two"].next = "nowhere", !["one"].ifs = <<"three">>]

Policy(p, flow) == [policy |-> p, flow |-> flow, start |-> "one"]

\* No service is recalled by two nodes, except under globalcancel, where the ids
\* forbid it; "x" is not defined.
PassSetups ==
  {Policy(p, Chain(<<"a", "b">>, <<"c">>, <<"d">>)) : p \in {"default", "recurrent", "globalcancel"}}
    \cup {Policy("globalcancel", Chain(<<"a">>, <<"b">>, <<"c", "a">>)),
          Policy("globalcancel", [Chain(<<"a">>, <<"b">>, <<"c">>) EXCEPT !["three"].ifs = <<"one">>]),
          Policy("recurrent", Chain(<<"a", "x">>, <<"b">>, <<"c">>)),
          Policy("default", Chain(<<"a", "x">>, <<"b">>, <<"c">>)),
          Policy("recurrent", Led),
          Policy("default", Broken),
          Policy("default", [Chain(<<"a">>, <<"b">>, <<"c">>) EXCEPT !["two"].toService = "d"]),
          Policy("recurrent", [Chain(<<"a">>, <<"b">>, <<"c">>) EXCEPT !["three"].toService = "d"])}

\* The setup of a finding: a node follows one whose service was intervened.
StaleSetups == {Policy("recurrent", [Chain(<<"a">>, <<"b">>, <<"c">>) EXCEPT !["one"].toService = "d"])}
=============================================================================

---------------------------- MODULE MCLevelDeliver ----------------------------
(* Instances of LevelDeliver for TLC: two classifiers, three services they  *)
(* deliver to.                                                              *)
EXTENDS LevelDeliver

Str(n) == [type |-> "string", n |-> n]
Num(n) == [type |-> "number", n |-> n]
True == [type |-> "true", n |-> 0]
False == [type |-> "false", n |-> 0]
List(vs) == [array |-> TRUE, items |-> vs]
Object == [array |-> FALSE, items |-> <<Num(1)>>]

To(s, t) == [service |-> s, threshold |-> t]
Rule(c, ts) == [classifier |-> c, classNum |-> Len(ts) + 1, targets |-> ts]

Deliver(rs, after) == [leads |-> <<>>, delivers |-> rs, after |-> after]
LeadTo(ls, after) == [leads |-> ls, delivers |-> <<>>, after |-> after]
LeadOn(s, n) == [service |-> s, next |-> n]

\* The answers of a classifier of two targets, readable and not.
Answers2 ==
  {List(<<Num(0), v, w>>) : v \in {Str(1), Str(2), Num(1)}, w \in {Num(1), Num(2), Num(3), False}}
    \cup {List(<<Str(1)>>), List(<<Num(1)>>), List(<<>>), List(<<Num(1), Num(2)>>), Object}
Answers1 == {List(<<Num(0), True>>), List(<<Num(0), False>>), List(<<Str(1)>>), Object}
OneAnswer == [s \in Services |-> {Object}]
Given(two, one) == [OneAnswer EXCEPT !["c"] = two, !["d"] = one]

RuleC == Rule("c", <<To("x", Str(1)), To("y", Num(2))>>)
RuleD == Rule("d", <<To("z", True)>>)

Flow1(n) == [m \in {"start"} |-> n]
Flow2(m, n) == [k \in {"start", "more"} |-> IF k = "start" THEN m ELSE n]
Config(flow, answers) == [flow |-> flow, start |-> "start", answers |-> answers]

PassSetups ==
  {\* Two classifiers side by side.
   Config(Flow1(Deliver(<<RuleC, RuleD>>, {""})), Given(Answers2, Answers1)),
   \* One after the other; the second asks for a service the first may have called,
   \* or for one there is no node after.
   Config(Flow2(Deliver(<<RuleC>>, {"more"}), Deliver(<<Rule("d", <<To("x", True)>>)>>, {"", "lost"})),
          Given({List(<<Str(1)>>), List(<<Num(0), Str(2), Num(2)>>)}, Answers1)),
   \* A service that leads to a node of the user's, and one that leads nowhere.
   Config(Flow2(LeadTo(<<LeadOn("c", "more"), LeadOn("d", "")>>, {""}), LeadTo(<<LeadOn("x", ""), LeadOn("y", "")>>, {""})),
          Given({Object, List(<<Num(1)>>), List(<<Str(1)>>)}, {Object})),
   \* A node of the user's that asks for what may have been delivered to before.
   Config(Flow2(Deliver(<<RuleC>>, {"more"}), LeadTo(<<LeadOn("z", ""), LeadOn("y", "")>>, {""})),
          Given({List(<<Str(1)>>), List(<<Num(0), Str(2), Num(2)>>)}, {Object})),
   \* A service that leads to a node that is not there.
   Config(Flow1(LeadTo(<<LeadOn("c", "lost")>>, {""})), OneAnswer)}
    \* Configurations that are refused.
    \cup {Config(f, OneAnswer) :
            f \in {[n \in {"start", "c__NEXT"} |-> Deliver(<<RuleC>>, {""})],
                   Flow1(LeadTo(<<LeadOn("c", "start")>>, {""})),
                   Flow1(Deliver(<<[RuleC EXCEPT !.classNum = 2]>>, {""}))}}
===============================================================================

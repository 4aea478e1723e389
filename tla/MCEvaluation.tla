---------------------------- MODULE MCEvaluation ----------------------------
(* A small instance of Evaluation for TLC: two users, two segments, and the  *)
(* flags that tell the evaluator's ways apart.                               *)
EXTENDS Evaluation, TLC

(* Attribute values are numbers; the operations not needed here never hold,  *)
(* and no regular expression is valid.                                       *)
MCRelates(op, pv, cv) ==
  \/ op = "Equal" /\ pv = cv
  \/ op = "BiggerThan" /\ pv > cv

MCRaises(op, pv, cv) == op = "MatchRegex"

MCPeople ==
  [key : {"ann"}, attributes : [{"level"} -> {1, 3}], bucket : {1, Top}, exptBucket : {1}]
  \cup [key : {"bob"}, attributes : [{"level"} -> {1, 3}], bucket : {0, 2}, exptBucket : {1}]
  \cup [key : {"ann"}, attributes : [{"level"} -> {Absent}], bucket : {1}, exptBucket : {Top}]

(* The last has no name. *)
MCUsers ==
  {p @@ [valid |-> TRUE] : p \in MCPeople}
  \cup {p @@ [valid |-> FALSE] : p \in {q \in MCPeople : q.exptBucket = Top}}

On(op, property, value) == [op |-> op, property |-> property, value |-> value]
InS1  == On(InSegment, "none", <<"s1">>)
OutS1 == On(NotInSegment, "none", <<"s1">>)
Invalid == On("NotMatchRegex", "level", "(")
High  == On("BiggerThan", "level", 2)
Other == On("NotEqual", "level", 3)

Option(variation, from, to) ==
  [variation |-> variation, from |-> from, to |-> to, expt |-> 1]
To(options) == [options |-> options, inExpt |-> TRUE]
Whole(variation) == To(<<Option(variation, 0, Top)>>)
Split(at) == To(<<Option("on", 0, at), Option("off", at, Top)>>)

Rule(conditions, serve) == [conditions |-> conditions, serve |-> serve]

Flag(enabled, targets, rules, fallthrough) ==
  [present |-> TRUE, variations |-> {"on", "off", "other"}, enabled |-> enabled,
   disabled |-> "off", targets |-> targets, rules |-> rules, fallthrough |-> fallthrough,
   allInExpt |-> FALSE]

Ann == <<[keys |-> {"ann"}, variation |-> "other"]>>

MCFlags ==
  [f1 |->
     {Flag(FALSE, Ann, <<>>, Whole("on")),
      Flag(TRUE, Ann, <<Rule(<<InS1>>, Whole("on"))>>, Whole("off")),
      Flag(TRUE, <<>>, <<Rule(<<InS1>>, Whole("on")), Rule(<<OutS1>>, Whole("other"))>>, Whole("off")),
      Flag(TRUE, <<>>, <<Rule(<<High, InS1>>, Split(2)), Rule(<<Other>>, Whole("other"))>>, Split(1)),
      Flag(TRUE, <<>>, <<Rule(<<Other>>, To(<<Option("on", 0, 1)>>))>>, Split(2)),
      Flag(TRUE, <<>>, <<Rule(<<OutS1, Invalid>>, Whole("on"))>>, Whole("gone"))},
   f2 |->
     {Flag(TRUE, <<>>, <<Rule(<<OutS1>>, Whole("on"))>>, Split(2)),
      Flag(TRUE, <<>>, <<>>, To(<<Option("on", 0, 1)>>))}]

(* A complete rollout of two options. *)
MCCompleteFlags == [k \in {"f1", "f2"} |-> {Flag(TRUE, <<>>, <<>>, Split(2))}]

Missing == [present |-> FALSE]
Segment(included, excluded, rules) ==
  [present |-> TRUE, included |-> included, excluded |-> excluded, rules |-> rules]

(* The first segment may contain the second, or itself. *)
MCSegmentData ==
  {[s1 |-> a, s2 |-> b] :
     a \in {Missing,
            Segment({"ann"}, {}, <<>>),
            Segment({"ann"}, {"ann"}, <<<<High>>>>),
            Segment({}, {}, <<<<On(InSegment, "none", <<"s1", "s2">>)>>>>)},
     b \in {Missing, Segment({"bob"}, {}, <<<<Invalid>>>>)}}
=============================================================================

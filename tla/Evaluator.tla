----------------------------- MODULE Evaluator -----------------------------
(***************************************************************************)
(* Evaluator (fbclient/evaluator.py) and VariationSplittingAlgorithm       *)
(* (fbclient/utils/variation_splitting_algorithm.py) as operators: what a  *)
(* condition, a rule and a rollout say of one user.                        *)
(*                                                                         *)
(* A user is the values of the attributes, and where the hashes of the     *)
(* user's dispatch key fall: bucket b of 0..Top stands for the percentage  *)
(* b / Top; Top, the percentage 1.0, is what the smallest 32-bit integer   *)
(* hashes to.  The string operations of Python are given by Relates.       *)
(***************************************************************************)
EXTENDS Integers, Sequences, FiniteSetsExt

CONSTANTS
  Top,             \* the number of buckets below 1.0
  MaxDepth,        \* how deep segments nest before Python's recursion limit
  Absent,          \* the value of an attribute the user does not have
  Relates(_, _, _), \* Relates(op, pv, cv): what a comparison or string test says
  Raises(_, _, _)  \* Raises(op, pv, cv): it raises, as an invalid expression does

ASSUME TopAssumption == Top \in Nat \ {0} /\ MaxDepth \in Nat

None == [variation |-> "none", reason |-> "none", sendToExpt |-> FALSE]

(* In place of a result: an exception has been raised. *)
Raised == [variation |-> "none", reason |-> "raised", sendToExpt |-> FALSE]

Result(variation, reason, sendToExpt) ==
  [variation |-> variation, reason |-> reason, sendToExpt |-> sendToExpt]

-----------------------------------------------------------------------------
(* Conditions *)

Compared == {"BiggerEqualThan", "BiggerThan", "LessEqualThan", "LessThan", "Equal",
             "Contains", "IsOneOf", "StartsWith", "EndsWith", "IsTrue", "IsFalse",
             "MatchRegex"}

(* The operations that are the denial of another. *)
Denied == [NotEqual |-> "Equal", NotContain |-> "Contains",
           NotOneOf |-> "IsOneOf", NotMatchRegex |-> "MatchRegex"]

InSegment == "User is in segment"
NotInSegment == "User is not in segment"

(* Every positive test of an attribute the user does not have fails. *)
Test(user, op, c) ==
  /\ user.attributes[c.property] # Absent
  /\ Relates(op, user.attributes[c.property], c.value)

ConditionRaises(user, c) ==
  /\ c.op \in Compared \cup DOMAIN Denied
  /\ user.attributes[c.property] # Absent
  /\ Raises(IF c.op \in Compared THEN c.op ELSE Denied[c.op],
            user.attributes[c.property], c.value)

(* _in_segment: one of the listed segments has the user, and none before it  *)
(* raises, which counts as not being in any.                                 *)
InOneOf(list, having) ==
  \E i \in 1..Len(list) :
    list[i] \in having.has /\ \A h \in 1..(i - 1) : list[h] \notin having.raise

(* _process_condition returns true, for what having says of the segments; an *)
(* unknown operation never holds.  A value that is no list of segments       *)
(* counts as the empty list.                                                 *)
ConditionHolds(user, c, having) ==
  /\ ~ConditionRaises(user, c)
  /\ \/ c.op \in Compared /\ Test(user, c.op, c)
     \/ c.op \in DOMAIN Denied /\ ~Test(user, Denied[c.op], c)
     \/ c.op = InSegment /\ InOneOf(c.value, having)
     \/ c.op = NotInSegment /\ ~InOneOf(c.value, having)

RuleMatches(user, conditions, having) ==
  \A j \in 1..Len(conditions) : ConditionHolds(user, conditions[j], having)

(* A condition raises, and those before it hold. *)
RuleRaises(user, conditions, having) ==
  \E j \in 1..Len(conditions) :
    /\ ConditionRaises(user, conditions[j])
    /\ \A h \in 1..(j - 1) : ConditionHolds(user, conditions[h], having)

(* match_segment goes through the rules of a segment the store has, unless   *)
(* its lists have the user. *)
ByRules(user, segment) ==
  segment.present /\ user.key \notin segment.excluded \cup segment.included

SegmentHas(user, segment, having) ==
  \/ segment.present /\ user.key \in segment.included \ segment.excluded
  \/ /\ ByRules(user, segment)
     /\ \E i \in 1..Len(segment.rules) :
          /\ RuleMatches(user, segment.rules[i], having)
          /\ \A h \in 1..(i - 1) : ~RuleRaises(user, segment.rules[h], having)

SegmentRaises(user, segment, having) ==
  /\ ByRules(user, segment)
  /\ \E i \in 1..Len(segment.rules) :
       /\ RuleRaises(user, segment.rules[i], having)
       /\ \A h \in 1..(i - 1) : ~RuleMatches(user, segment.rules[h], having)

(* The segments that have the user, and those that raise: a segment's rules  *)
(* may be about other segments, which are looked at one level deeper.        *)
Having(user, segments) ==
  LET having[depth \in 0..MaxDepth] ==
        IF depth = 0 THEN [has |-> {}, raise |-> {}]
        ELSE LET deeper == having[depth - 1]
             IN  [has |-> {s \in DOMAIN segments : SegmentHas(user, segments[s], deeper)},
                  raise |-> {s \in DOMAIN segments : SegmentRaises(user, segments[s], deeper)}]
  IN  having[MaxDepth]

-----------------------------------------------------------------------------
(* Rollout *)

(* Mutant of Within: the upper end belongs to the range, the lower does not. *)
WithinAbove(bucket, from, to) ==
  (from = 0 /\ to = Top) \/ (bucket > from /\ bucket <= to)

(* is_key_belongs_to_percentage: [from, to), but the whole range has no end. *)
Within(bucket, from, to) ==
  (from = 0 /\ to = Top) \/ (from <= bucket /\ bucket < to)

(* The bucket of the experiment's own hash lies below the share of the       *)
(* option's users that the experiment takes: expt / (to - from), at most 1.  *)
SentToExperiment(user, option, serve, all) ==
  \/ all
  \/ /\ serve.inExpt
     /\ option.expt > 0 /\ option.to > option.from
     /\ \/ option.expt >= option.to - option.from
        \/ user.exptBucket * (option.to - option.from) < option.expt * Top

(* What the flag's map of variations does not have raises KeyError. *)
Given(flag, variation, reason, sendToExpt) ==
  IF variation \in flag.variations THEN Result(variation, reason, sendToExpt) ELSE Raised

Covers(user, serve, i) ==
  Within(user.bucket, serve.options[i].from, serve.options[i].to)

(* _get_rollout_variation_option: the first option whose range has the user, *)
(* or none.                                                                  *)
Serve(user, flag, serve, reason) ==
  LET covering == {i \in 1..Len(serve.options) : Covers(user, serve, i)}
      option   == serve.options[Min(covering)]
  IN  IF covering = {} THEN None
      ELSE Given(flag, option.variation, reason,
                 SentToExperiment(user, option, serve, flag.allInExpt))

(* _match_targeted_user_variation: the first target that names the user. *)
Targeted(user, flag) ==
  LET naming == {i \in 1..Len(flag.targets) : user.key \in flag.targets[i].keys}
  IN  IF naming = {} THEN None
      ELSE Given(flag, flag.targets[Min(naming)].variation, "target match", flag.allInExpt)

Off(flag) == Given(flag, flag.disabled, "flag off", FALSE)

=============================================================================

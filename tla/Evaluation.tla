----------------------------- MODULE Evaluation -----------------------------
(***************************************************************************)
(* FBClient._evaluate_internal and get_all_latest_flag_variations          *)
(* (fbclient/client.py) with the evaluator, while the store they read from *)
(* is updated.  A call reads its flag, or all flags, once; each condition  *)
(* on segments reads those segments when its turn comes, so that a message *)
(* stored in between is seen by some conditions and flags and not by       *)
(* others.  One condition is one step: the segments it nests are read at   *)
(* one moment here.  The evaluator may raise: a call for one flag then     *)
(* returns the caller's default, a call for all flags fails as a whole.    *)
(***************************************************************************)
EXTENDS Evaluator

CONSTANTS
  Users,         \* whom evaluations are for, one in each behaviour
  FlagKeys,
  Flags,         \* Flags[k]: what may be stored under the key k
  SegmentIds,
  SegmentData,   \* what may be stored for the segments
  MaxUpdates     \* bound: messages stored

ASSUME UpdatesAssumption == MaxUpdates \in Nat

(* Percentages are between 0 and 1.                                          *)
ASSUME PercentageAssumption ==
  /\ \A u \in Users : u.bucket \in 0..Top
  /\ \A k \in FlagKeys : \A f \in Flags[k] :
       LET options == f.fallthrough.options
       IN  /\ Len(options) \in Nat
           /\ \A i \in 1..Len(options) :
                options[i].from \in 0..Top /\ options[i].to \in 0..Top

ASSUME FlagsAssumption ==
  \A k \in FlagKeys : \A f \in Flags[k] :
    /\ f.present
    /\ Len(f.rules) \in Nat
    /\ \A i \in 1..Len(f.rules) : Len(f.rules[i].conditions) \in Nat
    /\ Len(f.targets) \in Nat

VARIABLES
  user,
  initialized,   \* the store has been filled
  flags,         \* the flags stored, NoFlag where there is none, or an archived one
  segments,      \* the segments stored
  pc,            \* where the call is
  key,           \* the key of the flag that is being evaluated
  seen,          \* that flag as it was read
  rule, cond,    \* the rule, and the condition in it, it looks at next
  answer,        \* what the evaluation is about to return
  all_flags,     \* the flags that a call for all of them has read, or NoFlags
  details,       \* what it has got for the flags it has evaluated, None for others
  outcome,       \* what it is about to return: "OK" or why it failed
  held,          \* history: the segments' data held since the call began
  updates

storeVars   == <<initialized, flags, segments>>
readVars    == <<key, seen, rule, cond>>
bulkVars    == <<all_flags, details, outcome>>
historyVars == <<held, updates>>
vars == <<user, storeVars, pc, readVars, answer, bulkVars, historyVars>>

NoFlag == [present |-> FALSE]
NoFlags == [k \in FlagKeys |-> NoFlag]
NoDetails == [k \in FlagKeys |-> None]
NoKey == "none"

(* _EvalResult.error: the caller's default value. *)
Default(reason) == Result("default", reason, FALSE)

FlagsOf(k) == Flags[k] \cup {NoFlag}
StoredFlags ==
  {fs \in [FlagKeys -> UNION {FlagsOf(k) : k \in FlagKeys}] :
     \A k \in FlagKeys : fs[k] \in FlagsOf(k)}

Init ==
  /\ user \in Users
  /\ initialized = FALSE
  /\ flags = NoFlags
  /\ segments \in {d \in SegmentData : \A s \in SegmentIds : ~d[s].present}
  /\ pc = "idle"
  /\ key = NoKey /\ seen = NoFlag
  /\ rule = 1 /\ cond = 1
  /\ answer = None
  /\ all_flags = NoFlags /\ details = NoDetails /\ outcome = "none"
  /\ held = {}
  /\ updates = 0

-----------------------------------------------------------------------------

(* The streaming thread stores a message, see DataSync: first all there is.  *)
(* A call reads flags at one moment only, so that it does not matter whether *)
(* a later message brings a flag and segments together.                      *)
StoreAll(fs, data) ==
  /\ updates < MaxUpdates
  /\ updates' = updates + 1
  /\ initialized' = TRUE
  /\ flags' = fs
  /\ segments' = data
  /\ held' = IF pc = "idle" THEN {} ELSE held \cup {data}
  /\ UNCHANGED <<user, pc, readVars, answer, bulkVars>>

StoreFlag(k, f) == initialized /\ StoreAll([flags EXCEPT ![k] = f], segments)

StoreSegments(data) == initialized /\ StoreAll(flags, data)

Store ==
  \/ ~initialized /\ \E fs \in StoredFlags, data \in SegmentData : StoreAll(fs, data)
  \/ \E k \in FlagKeys : \E f \in FlagsOf(k) : StoreFlag(k, f)
  \/ \E data \in SegmentData : StoreSegments(data)

-----------------------------------------------------------------------------
(* The evaluation *)

InBulk == all_flags # NoFlags

(* A call for one flag takes an exception of the evaluator for the caller's  *)
(* default; one for all flags ends with it, see NoDetail.                    *)
Caught(result) == IF result = Raised /\ ~InBulk THEN Default("error") ELSE result

Answers(result) ==
  /\ answer' = Caught(result)
  /\ pc' = "return"
  /\ UNCHANGED <<rule, cond>>

(* Mutant of OffOrTargeted: targets are looked at before the switch. *)
TargetedFirst(f) ==
  IF Targeted(user, f) # None THEN Targeted(user, f)
  ELSE IF ~f.enabled THEN Off(f) ELSE None

(* The first two operations of the evaluator, on the flag alone. *)
OffOrTargeted(f) == IF ~f.enabled THEN Off(f) ELSE Targeted(user, f)

(* Evaluator.evaluate begins on a flag of the store.                         *)
Evaluate(k, f) ==
  /\ key' = k /\ seen' = f
  /\ \/ OffOrTargeted(f) # None /\ Answers(OffOrTargeted(f))
     \/ /\ OffOrTargeted(f) = None
        /\ pc' = "rules"
        /\ UNCHANGED <<rule, cond, answer>>

Refused(k, reason) ==
  /\ key' = k /\ UNCHANGED seen
  /\ Answers(Default(reason))

Begin(k) ==
  /\ pc = "idle"
  /\ held' = {segments}
  /\ \/ /\ ~initialized
        /\ Refused(k, "client not ready")
     \/ /\ initialized /\ ~flags[k].present
        /\ Refused(k, "flag not found")
     \/ /\ initialized /\ flags[k].present /\ ~user.valid
        /\ Refused(k, "user not specified")
     \/ /\ initialized /\ flags[k].present /\ user.valid
        /\ Evaluate(k, flags[k])
  /\ UNCHANGED <<user, storeVars, bulkVars, updates>>

MoreRules == rule <= Len(seen.rules)

MoreConditions == cond <= Len(seen.rules[rule].conditions)

NextRule == rule' = rule + 1 /\ cond' = 1

(* Mutant of ConditionFails: the other conditions of the rule still count. *)
SkipCondition ==
  /\ pc = "rules" /\ MoreRules /\ MoreConditions
  /\ ~ConditionRaises(user, seen.rules[rule].conditions[cond])
  /\ ~ConditionHolds(user, seen.rules[rule].conditions[cond], Having(user, segments))
  /\ cond' = cond + 1
  /\ UNCHANGED <<user, storeVars, pc, key, seen, rule, answer, bulkVars, historyVars>>

ConditionFails ==
  /\ pc = "rules" /\ MoreRules /\ MoreConditions
  /\ ~ConditionRaises(user, seen.rules[rule].conditions[cond])
  /\ ~ConditionHolds(user, seen.rules[rule].conditions[cond], Having(user, segments))
  /\ NextRule
  /\ UNCHANGED <<user, storeVars, pc, key, seen, answer, bulkVars, historyVars>>

ConditionHoldsNow ==
  /\ pc = "rules" /\ MoreRules /\ MoreConditions
  /\ ConditionHolds(user, seen.rules[rule].conditions[cond], Having(user, segments))
  /\ cond' = cond + 1
  /\ UNCHANGED <<user, storeVars, pc, key, seen, rule, answer, bulkVars, historyVars>>

(* Nothing between the condition and the call catches the exception.         *)
ConditionErrs ==
  /\ pc = "rules" /\ MoreRules /\ MoreConditions
  /\ ConditionRaises(user, seen.rules[rule].conditions[cond])
  /\ Answers(Raised)
  /\ UNCHANGED <<user, storeVars, key, seen, bulkVars, historyVars>>

RuleResult(i) == Serve(user, seen, seen.rules[i].serve, "rule match")

(* All conditions of the rule held.  When no option of its rollout has the   *)
(* user, _match_condition_user_variation returns None, and so the rules      *)
(* after it are not looked at.                                               *)
RuleServes ==
  /\ pc = "rules" /\ MoreRules /\ ~MoreConditions
  /\ \/ RuleResult(rule) # None /\ Answers(RuleResult(rule))
     \/ /\ RuleResult(rule) = None
        /\ pc' = "default"
        /\ UNCHANGED <<rule, cond, answer>>
  /\ UNCHANGED <<user, storeVars, key, seen, bulkVars, historyVars>>

NoRuleMatches ==
  /\ pc = "rules" /\ ~MoreRules
  /\ pc' = "default"
  /\ UNCHANGED <<user, storeVars, readVars, answer, bulkVars, historyVars>>

(* The default's rollout.  None, when it has no option for the user, is      *)
(* handed on: variation then raises AttributeError.                          *)
FallThrough ==
  /\ pc = "default"
  /\ Answers(Serve(user, seen, seen.fallthrough, "fall through all rules"))
  /\ UNCHANGED <<user, storeVars, key, seen, bulkVars, historyVars>>

(* The evaluation is over.                                                   *)
Forget == key' = NoKey /\ seen' = NoFlag /\ answer' = None /\ rule' = 1 /\ cond' = 1

Return ==
  /\ pc = "return" /\ ~InBulk
  /\ pc' = "idle"
  /\ Forget
  /\ held' = {}
  /\ UNCHANGED <<user, storeVars, bulkVars, updates>>

-----------------------------------------------------------------------------
(* get_all_latest_flag_variations *)

BeginAll ==
  /\ pc = "idle"
  /\ held' = {segments}
  /\ \/ /\ ~initialized
        /\ outcome' = "client not ready" /\ pc' = "returned"
        /\ UNCHANGED all_flags
     \/ /\ initialized /\ ~user.valid
        /\ outcome' = "user not specified" /\ pc' = "returned"
        /\ UNCHANGED all_flags
     \/ /\ initialized /\ user.valid
        /\ all_flags' = flags /\ pc' = "each"
        /\ UNCHANGED outcome
  /\ UNCHANGED <<user, storeVars, readVars, answer, details, updates>>

(* The flags still to be evaluated: archived ones were left out.             *)
Remaining == {k \in FlagKeys : all_flags[k].present /\ details[k] = None}

(* In whatever order the store has them.                                     *)
EvaluateNext(k) ==
  /\ pc = "each" /\ k \in Remaining
  /\ Evaluate(k, all_flags[k])
  /\ UNCHANGED <<user, storeVars, bulkVars, historyVars>>

KeepDetail ==
  /\ pc = "return" /\ InBulk /\ answer \notin {None, Raised}
  /\ details' = [details EXCEPT ![key] = answer]
  /\ pc' = "each"
  /\ Forget
  /\ UNCHANGED <<user, storeVars, all_flags, outcome, historyVars>>

(* A flag without a result ends the loop: its evaluation raised, or          *)
(* to_evail_detail does on None.                                             *)
NoDetail ==
  /\ pc = "return" /\ InBulk /\ answer \in {None, Raised}
  /\ outcome' = "error"
  /\ pc' = "returned"
  /\ Forget
  /\ UNCHANGED <<user, storeVars, all_flags, details, historyVars>>

AllEvaluated ==
  /\ pc = "each" /\ Remaining = {}
  /\ outcome' = "OK"
  /\ pc' = "returned"
  /\ UNCHANGED <<user, storeVars, readVars, answer, all_flags, details, historyVars>>

(* AllFlagStates.get: what the caller finds for a key.                       *)
Get(k) == IF details[k] # None THEN details[k] ELSE Default("flag not found")

ReturnAll ==
  /\ pc = "returned"
  /\ pc' = "idle"
  /\ all_flags' = NoFlags /\ details' = NoDetails /\ outcome' = "none"
  /\ held' = {}
  /\ UNCHANGED <<user, storeVars, readVars, answer, updates>>

-----------------------------------------------------------------------------

Next ==
  \/ Store
  \/ \E k \in FlagKeys : Begin(k) \/ EvaluateNext(k)
  \/ ConditionFails \/ ConditionHoldsNow \/ ConditionErrs
  \/ RuleServes \/ NoRuleMatches
  \/ FallThrough
  \/ Return
  \/ BeginAll \/ KeepDetail \/ NoDetail \/ AllEvaluated \/ ReturnAll

Spec == Init /\ [][Next]_vars

-----------------------------------------------------------------------------
(* Properties *)

(* What a flag means for the user, and the segments' data: the               *)
(* variation for users when it is off; else that of the target that names    *)
(* the user; else that of the first rule all of whose conditions hold; else, *)
(* or when that rule has none for the user, that of the default.  It means   *)
(* an error when that variation is not in its map, or a condition that has   *)
(* to be looked at for this raises.                                          *)
Meaning(f, data) ==
  LET matches(i) == RuleMatches(user, f.rules[i].conditions, Having(user, data))
      raises(i) == RuleRaises(user, f.rules[i].conditions, Having(user, data))
      deciding == {i \in 1..Len(f.rules) : matches(i) \/ raises(i)}
      serve(s, reason) == Serve(user, f, s, reason)
      byRule == IF deciding = {} THEN None
                ELSE IF raises(Min(deciding)) THEN Raised
                ELSE serve(f.rules[Min(deciding)].serve, "rule match")
  IN  IF ~f.enabled THEN Off(f)
      ELSE IF \E i \in 1..Len(f.targets) : user.key \in f.targets[i].keys
        THEN Targeted(user, f)
      ELSE IF byRule # None THEN byRule
      ELSE serve(f.fallthrough, "fall through all rules")

OnSegments(conditions) ==
  {j \in 1..Len(conditions) : conditions[j].op \in {InSegment, NotInSegment}}

(* The segments the conditions of a flag name, each with its place. *)
Reads(f) ==
  UNION {UNION {{<<i, j, f.rules[i].conditions[j].value[n]>> :
                   n \in 1..Len(f.rules[i].conditions[j].value)} :
                  j \in OnSegments(f.rules[i].conditions)} : i \in 1..Len(f.rules)}

(* The flag's meaning did not depend on the moment: it reads at most one     *)
(* segment, and no segment held reads another, or all data held are the same.*)
SettledFor(f) ==
  \/ ~f.present
  \/ \A data, later \in held : data = later
  \/ /\ \A r, other \in Reads(f) : r = other
     /\ \A data \in held : \A s \in SegmentIds :
          data[s].present =>
            \A i \in 1..Len(data[s].rules) : OnSegments(data[s].rules[i]) = {}

(* An evaluation answers what the flag it read meant with the segments' data *)
(* of one moment between its beginning and its end, as long as these did not *)
(* change or it reads one segment only; the default, for an error, if it is  *)
(* called for this flag alone.                                               *)
AnswersMeaning ==
  pc = "return" /\ seen.present /\ SettledFor(seen)
    => \E data \in held : answer = Caught(Meaning(seen, data))

(* The options of a rollout share out all the buckets below 1.0. *)
Complete(serve) ==
  \A b \in 0..(Top - 1) : \E i \in 1..Len(serve.options) :
    serve.options[i].from <= b /\ b < serve.options[i].to

(* The percentage 1.0 is in no range but the whole.                          *)
LeavesOut(f) ==
  \/ ~Complete(f.fallthrough)
  \/ user.bucket = Top /\ Len(f.fallthrough.options) > 1

Served(serve) == {serve.options[i].variation : i \in 1..Len(serve.options)}

(* A variation the flag serves is not in its map, or a condition raises for  *)
(* the user when it is looked at.                                            *)
MayRaise(f) ==
  \/ f.disabled \notin f.variations
  \/ \E i \in 1..Len(f.targets) : f.targets[i].variation \notin f.variations
  \/ ~(Served(f.fallthrough) \subseteq f.variations)
  \/ \E i \in 1..Len(f.rules) :
       \/ ~(Served(f.rules[i].serve) \subseteq f.variations)
       \/ \E j \in 1..Len(f.rules[i].conditions) :
            ConditionRaises(user, f.rules[i].conditions[j])

(* A flag a call for all fails on: its evaluation gave no result, and for a  *)
(* reason that lies in its data.                                             *)
FailsOn(f) ==
  /\ LeavesOut(f) \/ MayRaise(f)
  /\ SettledFor(f) => \E data \in held : Meaning(f, data) \in {None, Raised}

(* A call for all flags that succeeds finds, for each key, what a call for   *)
(* that key alone could have found, messages stored meanwhile or not.  It    *)
(* fails for a user that is not valid, and else only when the default of     *)
(* some flag has no variation for the user or its evaluation raised: a       *)
(* complete rollout has one for every user whose percentage is below 1.0.    *)
BulkIsWhole ==
  pc = "returned" =>
    \/ /\ outcome = "OK"
       /\ \A k \in FlagKeys : SettledFor(all_flags[k]) =>
            \E data \in held :
              Get(k) = IF all_flags[k].present THEN Meaning(all_flags[k], data)
                       ELSE Default("flag not found")
    \/ outcome = "error" /\ \E k \in Remaining : FailsOn(all_flags[k])
    \/ /\ \/ outcome = "client not ready"
          \/ outcome = "user not specified" /\ ~user.valid
       /\ \A k \in FlagKeys : Get(k) = Default("flag not found")

(* What the docstring of FBClient.variation says: it returns one of the      *)
(* flag's values, or the default value if the evaluation fails.              *)
AlwaysAnswers == pc = "return" /\ ~InBulk => answer # None

=============================================================================

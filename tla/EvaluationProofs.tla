-------------------------- MODULE EvaluationProofs --------------------------
(***************************************************************************)
(* Proofs about Evaluation, for any flags, segments, users and number of   *)
(* messages stored while an evaluation is under way.  What a condition on  *)
(* segments says of data is taken as given: the proofs do not depend on    *)
(* how segments nest.                                                      *)
(***************************************************************************)
EXTENDS Evaluation, NaturalsInduction, WellFoundedInduction, TLAPS

-----------------------------------------------------------------------------
(* What the operators of the evaluator return *)

(* The first of some positions.                                              *)
LEMMA LeastIsMin ==
  ASSUME NEW S \in SUBSET Int, NEW i \in S, \A j \in S : i <= j
  PROVE  Min(S) = i
<1> DEFINE Least(m) == \A j \in S : m <= j
<1>1. Min(S) = CHOOSE m \in S : Least(m)
  BY DEF Min
<1>2. i \in S /\ Least(i)
  OBVIOUS
<1> HIDE DEF Least
<1>3. Min(S) \in S /\ Least(Min(S))
  BY <1>1, <1>2
<1>4. Min(S) <= i /\ i <= Min(S)
  BY <1>3 DEF Least
<1>5. Min(S) \in Int /\ i \in Int
  BY <1>3
<1> QED BY <1>4, <1>5

(* A set of positions that is not empty has a first.                         *)
LEMMA FirstOfSome ==
  ASSUME NEW S \in SUBSET Nat, S # {}
  PROVE  Min(S) \in S
<1>1. PICK i \in S : \A j \in S : ~ (<<j, i>> \in OpToRel(<, Nat))
  BY NatLessThanWellFounded, WFMin
<1>2. ASSUME NEW j \in S, j < i PROVE FALSE
  <2>1. <<j, i>> \in Nat \X Nat /\ <<j, i>>[1] < <<j, i>>[2]
    BY <1>2
  <2> QED BY <1>1, <2>1, <1>2 DEF OpToRel
<1>3. \A j \in S : i <= j
  BY <1>2
<1> QED BY <1>3 DEF Min

(* A result that an operation makes, or the exception it raises instead, is  *)
(* never None, which is no result.                                           *)
LEMMA ResultsAreSome ==
  /\ Raised # None
  /\ \A variation, reason, sent : reason # "none" => Result(variation, reason, sent) # None
  /\ \A f, variation, reason, sent : reason # "none" => Given(f, variation, reason, sent) # None
BY DEF Result, None, Raised, Given

LEMMA RaisedIfMissing ==
  ASSUME NEW f, NEW variation, NEW reason, NEW sent, reason # "raised",
         Given(f, variation, reason, sent) = Raised
  PROVE  variation \notin f.variations
BY DEF Given, Raised, Result

(* Who calls for one flag is told of an error only by the default.           *)
LEMMA CaughtSays ==
  ASSUME NEW result
  PROVE  /\ InBulk => Caught(result) = result
         /\ Caught(result) = None => result = None
         /\ Caught(result) = Raised => result = Raised
         /\ result # Raised => Caught(result) = result
BY DEF Caught, Default, Result, None, Raised

(* A condition that names no segment says the same whatever the segments.    *)
Independent(c) == c.op \in {InSegment, NotInSegment} => 1..Len(c.value) = {}

LEMMA IndependentOfSegments ==
  ASSUME NEW u, NEW c, Independent(c), NEW some, NEW others
  PROVE  ConditionHolds(u, c, some) <=> ConditionHolds(u, c, others)
BY DEF ConditionHolds, Independent, InOneOf

LEMMA ReadsOf ==
  ASSUME NEW f, NEW i \in 1..Len(f.rules), NEW j \in 1..Len(f.rules[i].conditions),
         ~Independent(f.rules[i].conditions[j])
  PROVE  \E s : <<i, j, s>> \in Reads(f)
<1>1. j \in OnSegments(f.rules[i].conditions)
  BY DEF OnSegments, Independent
<1>2. PICK n \in 1..Len(f.rules[i].conditions[j].value) : TRUE
  BY DEF Independent
<1>3. PICK s : s = f.rules[i].conditions[j].value[n]
  OBVIOUS
<1>4. <<i, j, s>> \in {<<i, j, f.rules[i].conditions[j].value[m]>> :
                       m \in 1..Len(f.rules[i].conditions[j].value)}
  BY <1>2, <1>3
<1>5. <<i, j, s>> \in Reads(f)
  BY <1>1, <1>4 DEF Reads
<1> QED BY <1>5

LEMMA TargetedSays ==
  ASSUME NEW u, NEW f
  PROVE  Targeted(u, f) = None
           <=> ~ \E i \in 1..Len(f.targets) : u.key \in f.targets[i].keys
<1> DEFINE naming == {i \in 1..Len(f.targets) : u.key \in f.targets[i].keys}
<1>1. Given(f, f.targets[Min(naming)].variation, "target match", f.allInExpt) # None
  BY ResultsAreSome
<1>2. Targeted(u, f) = IF naming = {} THEN None
        ELSE Given(f, f.targets[Min(naming)].variation, "target match", f.allInExpt)
  BY DEF Targeted
<1> QED BY <1>1, <1>2

LEMMA OffOrTargetedSays ==
  ASSUME NEW f
  PROVE  /\ OffOrTargeted(f) # None => \A data : Meaning(f, data) = OffOrTargeted(f)
         /\ OffOrTargeted(f) = None =>
              f.enabled /\ ~ \E i \in 1..Len(f.targets) : user.key \in f.targets[i].keys
<1>1. Off(f) # None
  BY ResultsAreSome DEF Off
<1> QED BY <1>1, TargetedSays DEF OffOrTargeted, Meaning

Known(f) == \E k \in FlagKeys : f \in Flags[k]

Matches(f, i, data) == RuleMatches(user, f.rules[i].conditions, Having(user, data))

(* A condition of the rule is reached, and raises.                           *)
Errs(f, i, data) == RuleRaises(user, f.rules[i].conditions, Having(user, data))

Passed(f, i, data) == ~Matches(f, i, data) /\ ~Errs(f, i, data)

(* The first rule that matches or raises decides, or when it has nothing for *)
(* the user the default.                                                     *)
LEMMA FirstRuleDecides ==
  ASSUME NEW f, Known(f), NEW data, OffOrTargeted(f) = None,
         NEW i \in 1..Len(f.rules), ~Passed(f, i, data),
         \A j \in 1..(i - 1) : Passed(f, j, data)
  PROVE  Meaning(f, data) =
           LET byRule == IF Errs(f, i, data) THEN Raised
                         ELSE Serve(user, f, f.rules[i].serve, "rule match")
           IN  IF byRule # None THEN byRule
               ELSE Serve(user, f, f.fallthrough, "fall through all rules")
<1> DEFINE holding == {j \in 1..Len(f.rules) :
                         \/ RuleMatches(user, f.rules[j].conditions, Having(user, data))
                         \/ RuleRaises(user, f.rules[j].conditions, Having(user, data))}
<1>1. Len(f.rules) \in Nat
  BY FlagsAssumption DEF Known
<1>2. i \in holding /\ \A j \in holding : i <= j
  BY <1>1 DEF Passed, Matches, Errs
<1>3. holding \in SUBSET Int
  BY <1>1
<1>4. Min(holding) = i
  <2> HIDE DEF holding
  <2> QED BY <1>2, <1>3, LeastIsMin
<1>5. f.enabled /\ ~ \E j \in 1..Len(f.targets) : user.key \in f.targets[j].keys
  BY OffOrTargetedSays
<1>6. holding # {}
  BY <1>2
<1> QED BY <1>4, <1>5, <1>6 DEF Meaning, Errs

LEMMA DefaultDecides ==
  ASSUME NEW f, NEW data, OffOrTargeted(f) = None,
         \A j \in 1..Len(f.rules) : Passed(f, j, data)
  PROVE  Meaning(f, data) = Serve(user, f, f.fallthrough, "fall through all rules")
<1> DEFINE holding == {j \in 1..Len(f.rules) :
                         \/ RuleMatches(user, f.rules[j].conditions, Having(user, data))
                         \/ RuleRaises(user, f.rules[j].conditions, Having(user, data))}
<1>1. f.enabled /\ ~ \E j \in 1..Len(f.targets) : user.key \in f.targets[j].keys
  BY OffOrTargetedSays
<1>2. holding = {}
  BY DEF Passed, Matches, Errs
<1> QED BY <1>1, <1>2 DEF Meaning

(* A rollout that has nothing for a user leaves out a range, or the user's   *)
(* percentage is 1.0 and no option has the whole.                            *)
LEMMA NothingForUser ==
  ASSUME user \in Users, NEW f, Known(f), NEW reason, reason # "none",
         Serve(user, f, f.fallthrough, reason) = None
  PROVE  LeavesOut(f)
<1> DEFINE options == f.fallthrough.options
           covering == {i \in 1..Len(options) : Covers(user, f.fallthrough, i)}
<1>1. /\ user.bucket \in 0..Top /\ Top \in Nat \ {0} /\ Len(options) \in Nat
      /\ \A i \in 1..Len(options) : options[i].from \in 0..Top /\ options[i].to \in 0..Top
  BY PercentageAssumption, TopAssumption DEF Known
<1>2. covering = {}
  <2>1. Serve(user, f, f.fallthrough, reason) =
          IF covering = {} THEN None
          ELSE Given(f, options[Min(covering)].variation, reason,
                     SentToExperiment(user, options[Min(covering)], f.fallthrough, f.allInExpt))
    BY DEF Serve
  <2> QED BY <2>1, ResultsAreSome
<1>3. \A i \in 1..Len(options) : ~Within(user.bucket, options[i].from, options[i].to)
  BY <1>2 DEF Covers
<1> SUFFICES ASSUME Complete(f.fallthrough)
             PROVE  user.bucket = Top /\ Len(options) > 1
  BY DEF LeavesOut
<1>4. \A b \in 0..(Top - 1) : \E i \in 1..Len(options) : options[i].from <= b /\ b < options[i].to
  BY DEF Complete
<1> HIDE DEF options, covering
<1>5. user.bucket = Top
  <2>1. SUFFICES ASSUME user.bucket # Top PROVE FALSE
    OBVIOUS
  <2>2. user.bucket \in 0..(Top - 1)
    BY <1>1, <2>1
  <2> QED BY <1>3, <1>4, <2>2 DEF Within
<1>6. Len(options) > 1
  <2>1. SUFFICES ASSUME ~(Len(options) > 1) PROVE FALSE
    OBVIOUS
  <2>2. \A i \in 1..Len(options) : i = 1
    BY <1>1, <2>1
  <2>3. 0 \in 0..(Top - 1) /\ Top - 1 \in 0..(Top - 1)
    BY <1>1
  <2>4. 1 \in 1..Len(options) /\ options[1].from <= 0 /\ Top - 1 < options[1].to
    BY <1>4, <2>2, <2>3
  <2>5. options[1].from = 0 /\ options[1].to = Top
    BY <1>1, <2>4
  <2> QED BY <1>3, <2>4, <2>5 DEF Within
<1> QED BY <1>5, <1>6

(* A raise is about a variation that the flag's map does not have.           *)
LEMMA ServeRaises ==
  ASSUME NEW f, NEW serve, NEW reason, reason # "raised",
         Serve(user, f, serve, reason) = Raised
  PROVE  ~(Served(serve) \subseteq f.variations)
<1> DEFINE covering == {i \in 1..Len(serve.options) : Covers(user, serve, i)}
           option == serve.options[Min(covering)]
<1>1. Serve(user, f, serve, reason) =
        IF covering = {} THEN None
        ELSE Given(f, option.variation, reason, SentToExperiment(user, option, serve, f.allInExpt))
  BY DEF Serve
<1>2. covering # {} /\ option.variation \notin f.variations
  <2> HIDE DEF covering, option
  <2> QED BY <1>1, ResultsAreSome, RaisedIfMissing
<1>3. covering \in SUBSET Nat
  OBVIOUS
<1>4. Min(covering) \in covering
  <2> HIDE DEF covering
  <2> QED BY <1>2, <1>3, FirstOfSome
<1>5. Min(covering) \in 1..Len(serve.options)
  BY <1>4
<1>6. option.variation \in Served(serve)
  BY <1>5 DEF Served
<1> QED BY <1>2, <1>6

LEMMA OffOrTargetedRaises ==
  ASSUME NEW f, OffOrTargeted(f) = Raised
  PROVE  MayRaise(f)
<1>1. CASE ~f.enabled
  BY <1>1, RaisedIfMissing DEF OffOrTargeted, Off, MayRaise
<1>2. CASE f.enabled
  <2> DEFINE naming == {i \in 1..Len(f.targets) : user.key \in f.targets[i].keys}
             variation == f.targets[Min(naming)].variation
  <2>1. Targeted(user, f) = Raised
    BY <1>2 DEF OffOrTargeted
  <2>2. Targeted(user, f) = IF naming = {} THEN None
          ELSE Given(f, variation, "target match", f.allInExpt)
    BY DEF Targeted
  <2>3. naming # {} /\ variation \notin f.variations
    <3> HIDE DEF naming, variation
    <3> QED BY <2>1, <2>2, ResultsAreSome, RaisedIfMissing
  <2>4. naming \in SUBSET Nat
    OBVIOUS
  <2>5. Min(naming) \in naming
    <3> HIDE DEF naming
    <3> QED BY <2>3, <2>4, FirstOfSome
  <2>6. Min(naming) \in 1..Len(f.targets)
    BY <2>5
  <2> QED BY <2>3, <2>6 DEF MayRaise
<1> QED BY <1>1, <1>2

-----------------------------------------------------------------------------
(* Where a call is *)

Evaluating == pc \in {"rules", "default", "return"}

Shape ==
  /\ user \in Users
  /\ flags \in StoredFlags /\ all_flags \in StoredFlags
  /\ \E S : details \in [FlagKeys -> S]
  /\ rule \in Nat /\ rule >= 1 /\ cond \in Nat /\ cond >= 1
  /\ Evaluating \/ pc \in {"idle", "each", "returned"}

(* Between evaluations nothing is left of one; the segments' present data    *)
(* are among those held since the call began.                                *)
Place ==
  /\ ~Evaluating => seen = NoFlag /\ rule = 1 /\ cond = 1 /\ answer = None
  /\ pc \in {"rules", "default"} => Known(seen)
  /\ pc = "return" => seen = NoFlag \/ Known(seen)
  /\ pc # "idle" => segments \in held

(* A call for all flags evaluates one it has read and has nothing for yet.   *)
BulkPlace ==
  /\ pc = "idle" => ~InBulk
  /\ InBulk /\ Evaluating => key \in Remaining /\ seen = all_flags[key]
  /\ ~InBulk => details = NoDetails
  /\ \A k \in FlagKeys : details[k] # None => all_flags[k].present

LEMMA AllStored ==
  ASSUME NEW fs
  PROVE  fs \in StoredFlags <=> /\ fs = [k \in FlagKeys |-> fs[k]]
                                /\ \A k \in FlagKeys : fs[k] \in FlagsOf(k)
<1>1. ASSUME fs = [k \in FlagKeys |-> fs[k]], \A k \in FlagKeys : fs[k] \in FlagsOf(k)
      PROVE  fs \in StoredFlags
  <2>1. fs \in [FlagKeys -> UNION {FlagsOf(k) : k \in FlagKeys}]
    BY <1>1
  <2> QED BY <1>1, <2>1 DEF StoredFlags
<1>2. ASSUME fs \in StoredFlags
      PROVE  fs = [k \in FlagKeys |-> fs[k]] /\ \A k \in FlagKeys : fs[k] \in FlagsOf(k)
  BY <1>2 DEF StoredFlags
<1> QED BY <1>1, <1>2

LEMMA NothingStored == NoFlags \in StoredFlags
<1>1. \A k \in FlagKeys : NoFlags[k] \in FlagsOf(k)
  BY DEF NoFlags, FlagsOf
<1>2. NoFlags = [k \in FlagKeys |-> NoFlags[k]]
  BY DEF NoFlags
<1> QED BY <1>1, <1>2, AllStored

(* What is present in the store is a flag.                                   *)
LEMMA PresentIsKnown ==
  ASSUME NEW fs \in StoredFlags, NEW k \in FlagKeys
  PROVE  /\ fs[k].present => Known(fs[k])
         /\ ~fs[k].present => fs[k] = NoFlag
<1>1. fs[k] \in Flags[k] \/ fs[k] = NoFlag
  BY AllStored DEF FlagsOf
<1>2. ~NoFlag.present
  BY DEF NoFlag
<1>3. fs[k] \in Flags[k] => fs[k].present
  BY FlagsAssumption
<1> QED BY <1>1, <1>2, <1>3 DEF Known

LEMMA KnownIsPresent == ASSUME NEW f, Known(f) PROVE f.present
BY FlagsAssumption DEF Known

LEMMA StoreIsStoreAll ==
  ASSUME Shape, Store
  PROVE  \E fs \in StoredFlags : \E data : StoreAll(fs, data)
<1>1. CASE \E fs \in StoredFlags, data \in SegmentData : StoreAll(fs, data)
  BY <1>1
<1>2. ASSUME NEW k \in FlagKeys, NEW f \in FlagsOf(k), StoreFlag(k, f)
      PROVE  \E fs \in StoredFlags : \E data : StoreAll(fs, data)
  <2> DEFINE fs == [flags EXCEPT ![k] = f]
  <2>1. flags = [j \in FlagKeys |-> flags[j]] /\ \A j \in FlagKeys : flags[j] \in FlagsOf(j)
    BY AllStored DEF Shape
  <2>2. fs = [j \in FlagKeys |-> fs[j]] /\ \A j \in FlagKeys : fs[j] \in FlagsOf(j)
    BY <2>1
  <2>3. fs \in StoredFlags
    BY <2>2, AllStored
  <2> QED BY <1>2, <2>3 DEF StoreFlag
<1>3. ASSUME NEW data \in SegmentData, StoreSegments(data)
      PROVE  \E fs \in StoredFlags : \E d : StoreAll(fs, d)
  BY <1>3 DEF StoreSegments, Shape
<1> QED BY <1>1, <1>2, <1>3 DEF Store

(* The moves of an evaluation within a flag's rules and default.             *)
Moves ==
  \/ ConditionFails \/ ConditionHoldsNow \/ ConditionErrs
  \/ RuleServes \/ NoRuleMatches
  \/ FallThrough

LEMMA InitPlaces == Init => Shape /\ Place /\ BulkPlace
<1> SUFFICES ASSUME Init PROVE Shape /\ Place /\ BulkPlace
  OBVIOUS
<1>1. Shape
  <2>1. details \in [FlagKeys -> {None}]
    BY DEF Init, NoDetails
  <2>2. \E S : details \in [FlagKeys -> S]
    BY <2>1
  <2> QED BY <2>2, NothingStored DEF Init, Shape, Evaluating
<1>2. Place
  BY DEF Init, Place, Evaluating
<1>3. BulkPlace
  BY DEF Init, BulkPlace, InBulk, NoDetails
<1> QED BY <1>1, <1>2, <1>3

LEMMA StepShape ==
  ASSUME Shape, [Next]_vars
  PROVE  Shape'
<1> USE DEF Shape, Evaluating, storeVars, readVars, bulkVars, historyVars, Answers, NextRule,
            Forget, Evaluate, Refused
<1>1. PICK S : details \in [FlagKeys -> S]
  OBVIOUS
<1>2. CASE Store
  <2>0. PICK fs \in StoredFlags : \E data : StoreAll(fs, data)
    BY <1>2, StoreIsStoreAll
  <2>1. PICK data : StoreAll(fs, data)
    BY <2>0
  <2> QED BY <1>1, <2>1 DEF StoreAll
<1>3. ASSUME NEW k \in FlagKeys, Begin(k) \/ EvaluateNext(k) PROVE Shape'
  <2>1. UNCHANGED <<user, flags, all_flags, details, rule, cond>> /\ pc' \in {"rules", "return"}
    BY <1>3 DEF Begin, EvaluateNext
  <2> QED BY <1>1, <2>1
<1>4. CASE Moves
  <2>1. /\ UNCHANGED <<user, flags, all_flags, details>>
        /\ pc' \in {"rules", "default", "return"}
        /\ rule' \in {rule, rule + 1} /\ cond' \in {cond, cond + 1, 1}
    BY <1>4 DEF Moves, ConditionFails, ConditionHoldsNow, ConditionErrs, RuleServes,
                NoRuleMatches, FallThrough
  <2> QED BY <1>1, <2>1
<1>5. CASE Return \/ NoDetail \/ AllEvaluated
  BY <1>1, <1>5 DEF Return, NoDetail, AllEvaluated
<1>6. CASE KeepDetail
  <2>1. details' \in [FlagKeys -> S \cup {answer}]
    BY <1>1, <1>6 DEF KeepDetail
  <2>2. UNCHANGED <<user, flags, all_flags>> /\ pc' = "each" /\ rule' = 1 /\ cond' = 1
    BY <1>6 DEF KeepDetail
  <2>3. \E T : details' \in [FlagKeys -> T]
    BY <2>1
  <2> QED BY <2>2, <2>3
<1>7. CASE BeginAll
  BY <1>1, <1>7 DEF BeginAll
<1>8. CASE ReturnAll
  <2>1. details' \in [FlagKeys -> {None}] /\ all_flags' \in StoredFlags
    BY <1>8, NothingStored DEF ReturnAll, NoDetails
  <2>2. UNCHANGED <<user, flags, rule, cond>> /\ pc' = "idle"
    BY <1>8 DEF ReturnAll
  <2>3. \E T : details' \in [FlagKeys -> T]
    BY <2>1
  <2> QED BY <2>1, <2>2, <2>3
<1>9. CASE UNCHANGED vars
  BY <1>1, <1>9 DEF vars
<1> QED BY <1>2, <1>3, <1>4, <1>5, <1>6, <1>7, <1>8, <1>9 DEF Next, Moves

LEMMA StepPlace ==
  ASSUME Shape, Place, BulkPlace, [Next]_vars
  PROVE  Place'
<1> USE DEF Place, Evaluating, storeVars, readVars, bulkVars, historyVars, Answers, NextRule,
            Forget, Evaluate, Refused
<1>2. CASE Store
  <2>0. PICK fs \in StoredFlags : \E data : StoreAll(fs, data)
    BY <1>2, StoreIsStoreAll
  <2>1. PICK data : StoreAll(fs, data)
    BY <2>0
  <2>2. UNCHANGED <<seen, rule, cond, answer, pc>> /\ segments' = data
          /\ (pc # "idle" => held' = held \cup {data})
    BY <2>1 DEF StoreAll
  <2> QED BY <2>2 DEF Known
<1>3. ASSUME NEW k \in FlagKeys, Begin(k) \/ EvaluateNext(k) PROVE Place'
  <2>1. /\ segments' = segments /\ segments \in held'
        /\ pc' \in {"rules", "return"}
    BY <1>3 DEF Begin, EvaluateNext
  <2>2. \/ pc' = "return" /\ seen' = NoFlag
        \/ \E fs \in StoredFlags : fs[k].present /\ seen' = fs[k]
    BY <1>3 DEF Begin, EvaluateNext, Shape, Remaining
  <2>3. (pc' = "return" /\ seen' = NoFlag) \/ Known(seen)'
    BY <2>2, PresentIsKnown DEF Known
  <2> QED BY <2>1, <2>3
<1>4. CASE Moves
  <2>1. /\ UNCHANGED <<seen, segments, held>> /\ pc \in {"rules", "default"}
        /\ pc' \in {"rules", "default", "return"}
    BY <1>4 DEF Moves, ConditionFails, ConditionHoldsNow, ConditionErrs, RuleServes,
                NoRuleMatches, FallThrough
  <2> QED BY <2>1 DEF Known
<1>5. CASE Return \/ NoDetail \/ KeepDetail
  <2>1. pc' \in {"idle", "each", "returned"} /\ seen' = NoFlag /\ rule' = 1 /\ cond' = 1
          /\ answer' = None
    BY <1>5 DEF Return, NoDetail, KeepDetail
  <2>2. pc' # "idle" => segments' \in held'
    BY <1>5 DEF Return, NoDetail, KeepDetail
  <2> QED BY <2>1, <2>2
<1>6. CASE BeginAll \/ ReturnAll \/ AllEvaluated
  BY <1>6 DEF BeginAll, ReturnAll, AllEvaluated
<1>7. CASE UNCHANGED vars
  BY <1>7 DEF vars, Known
<1> QED BY <1>2, <1>3, <1>4, <1>5, <1>6, <1>7 DEF Next, Moves

LEMMA StepBulkPlace ==
  ASSUME Shape, Place, BulkPlace, [Next]_vars
  PROVE  BulkPlace'
<1> USE DEF BulkPlace, Evaluating, storeVars, readVars, bulkVars, historyVars, Answers, NextRule,
            Forget, Evaluate, Refused
<1>1. \A k \in FlagKeys : all_flags[k].present => InBulk
  BY DEF InBulk, NoFlags, NoFlag
<1>2. CASE Store
  <2>0. PICK fs \in StoredFlags : \E data : StoreAll(fs, data)
    BY <1>2, StoreIsStoreAll
  <2>1. PICK data : StoreAll(fs, data)
    BY <2>0
  <2> QED BY <2>1 DEF StoreAll, InBulk, Remaining
<1>3. ASSUME NEW k \in FlagKeys, Begin(k) PROVE BulkPlace'
  <2>1. pc = "idle" /\ pc' # "idle" /\ UNCHANGED <<all_flags, details>>
    BY <1>3 DEF Begin
  <2> QED BY <2>1 DEF InBulk
<1>4. ASSUME NEW k \in FlagKeys, EvaluateNext(k) PROVE BulkPlace'
  <2>1. pc' # "idle" /\ UNCHANGED <<all_flags, details>> /\ key' = k /\ seen' = all_flags[k]
          /\ k \in Remaining
    BY <1>4 DEF EvaluateNext
  <2> QED BY <1>1, <2>1 DEF InBulk, Remaining
<1>5. CASE Moves
  <2>1. /\ UNCHANGED <<seen, key, all_flags, details>> /\ pc \in {"rules", "default"}
        /\ pc' # "idle"
    BY <1>5 DEF Moves, ConditionFails, ConditionHoldsNow, ConditionErrs, RuleServes,
                NoRuleMatches, FallThrough
  <2> QED BY <2>1 DEF InBulk, Remaining
<1>6. CASE Return
  BY <1>6 DEF Return, InBulk
<1>7. CASE KeepDetail
  <2>1. /\ pc = "return" /\ InBulk /\ details' = [details EXCEPT ![key] = answer]
        /\ pc' = "each" /\ UNCHANGED all_flags
    BY <1>7 DEF KeepDetail
  <2>2. key \in FlagKeys /\ all_flags[key].present
    BY <2>1 DEF Remaining
  <2>3. \A k \in FlagKeys : details'[k] # None => k = key \/ details[k] # None
    BY <2>1 DEF Shape
  <2> QED BY <2>1, <2>2, <2>3 DEF InBulk
<1>8. CASE NoDetail \/ AllEvaluated
  BY <1>8 DEF NoDetail, AllEvaluated, InBulk
<1>9. CASE BeginAll
  <2>1. pc = "idle" /\ details = NoDetails /\ UNCHANGED details /\ pc' \in {"each", "returned"}
    BY <1>9 DEF BeginAll
  <2> QED BY <2>1 DEF NoDetails
<1>10. CASE ReturnAll
  BY <1>10 DEF ReturnAll, InBulk, NoDetails
<1>11. CASE UNCHANGED vars
  BY <1>11 DEF vars, InBulk, Remaining
<1> QED BY <1>2, <1>3, <1>4, <1>5, <1>6, <1>7, <1>8, <1>9, <1>10, <1>11 DEF Next, Moves

-----------------------------------------------------------------------------
(* What has been found out so far *)

(* With the segments' data of one moment of the call, no rule before the     *)
(* present one matches or raises, and of that one all conditions before the  *)
(* present one hold.                                                         *)
SoFar(data) ==
  /\ \A i \in 1..Len(seen.rules) : i < rule => Passed(seen, i, data)
  /\ MoreRules => \A j \in 1..Len(seen.rules[rule].conditions) : j < cond =>
       ConditionHolds(user, seen.rules[rule].conditions[j], Having(user, data))

ByDefault(f) == Serve(user, f, f.fallthrough, "fall through all rules")

Progress ==
  /\ pc \in {"rules", "default"} => OffOrTargeted(seen) = None
  /\ pc = "rules" /\ SettledFor(seen) => \E data \in held : SoFar(data)
  /\ pc = "default" /\ SettledFor(seen) => \E data \in held : Meaning(seen, data) = ByDefault(seen)
  /\ pc = "return" /\ Known(seen) =>
       /\ SettledFor(seen) => \E data \in held : answer = Caught(Meaning(seen, data))
       /\ answer = None => LeavesOut(seen)
       /\ answer = Raised => MayRaise(seen)

LEMMA SettledEarlier ==
  ASSUME held \subseteq held', NEW f, SettledFor(f)'
  PROVE  SettledFor(f)
BY DEF SettledFor

LEMMA SameUserSameMeaning ==
  ASSUME UNCHANGED user, NEW f
  PROVE  /\ \A data : Meaning(f, data)' = Meaning(f, data)
         /\ OffOrTargeted(f)' = OffOrTargeted(f)
         /\ LeavesOut(f)' <=> LeavesOut(f)
         /\ MayRaise(f)' <=> MayRaise(f)
         /\ ByDefault(f)' = ByDefault(f)
         /\ \A i, data : Passed(f, i, data)' <=> Passed(f, i, data)
BY DEF Meaning, OffOrTargeted, LeavesOut, MayRaise, ByDefault, Passed, Matches, Errs

(* There is a moment that saw all other conditions as an earlier one did and *)
(* this condition as it is now: either the segments have not changed, or     *)
(* only one condition reads any.                                             *)
LEMMA OneMoment ==
  ASSUME NEW f, Known(f), SettledFor(f), segments \in held, NEW data \in held,
         NEW i \in 1..Len(f.rules), NEW j \in 1..Len(f.rules[i].conditions)
  PROVE  \E w \in held :
           /\ ConditionHolds(user, f.rules[i].conditions[j], Having(user, w))
                <=> ConditionHolds(user, f.rules[i].conditions[j], Having(user, segments))
           /\ \A k \in 1..Len(f.rules) : \A m \in 1..Len(f.rules[k].conditions) :
                <<k, m>> # <<i, j>> =>
                  (ConditionHolds(user, f.rules[k].conditions[m], Having(user, w))
                     <=> ConditionHolds(user, f.rules[k].conditions[m], Having(user, data)))
<1>1. CASE \A some, later \in held : some = later
  <2>1. data = segments
    BY <1>1
  <2> QED BY <2>1
<1>2. CASE Independent(f.rules[i].conditions[j])
  BY <1>2, IndependentOfSegments
<1>3. CASE (\A r, other \in Reads(f) : r = other) /\ ~Independent(f.rules[i].conditions[j])
  <2>1. PICK s : <<i, j, s>> \in Reads(f)
    BY <1>3, ReadsOf
  <2>2. ASSUME NEW k \in 1..Len(f.rules), NEW m \in 1..Len(f.rules[k].conditions),
               <<k, m>> # <<i, j>>
        PROVE  Independent(f.rules[k].conditions[m])
    <3>1. SUFFICES ASSUME ~Independent(f.rules[k].conditions[m]) PROVE FALSE
      OBVIOUS
    <3>2. PICK t : <<k, m, t>> \in Reads(f)
      BY <3>1, ReadsOf
    <3>3. <<k, m, t>> = <<i, j, s>>
      BY <1>3, <2>1, <3>2
    <3> QED BY <2>2, <3>3
  <2>3. ASSUME NEW k \in 1..Len(f.rules), NEW m \in 1..Len(f.rules[k].conditions),
               <<k, m>> # <<i, j>>
        PROVE  ConditionHolds(user, f.rules[k].conditions[m], Having(user, segments))
                 <=> ConditionHolds(user, f.rules[k].conditions[m], Having(user, data))
    BY <2>2, <2>3, IndependentOfSegments
  <2> QED BY <2>3
<1>4. f.present
  BY KnownIsPresent
<1> QED BY <1>1, <1>2, <1>3, <1>4 DEF SettledFor

(* Whether a rule is passed depends only on which of its conditions hold.    *)
LEMMA SameHoldsSamePassed ==
  ASSUME NEW f, NEW k, NEW some, NEW others, Len(f.rules[k].conditions) \in Nat,
         \A m \in 1..Len(f.rules[k].conditions) :
           ConditionHolds(user, f.rules[k].conditions[m], Having(user, some))
             <=> ConditionHolds(user, f.rules[k].conditions[m], Having(user, others)),
         Passed(f, k, others)
  PROVE  Passed(f, k, some)
<1>1. ~Matches(f, k, some)
  BY DEF Passed, Matches, RuleMatches
<1>2. ASSUME NEW m \in 1..Len(f.rules[k].conditions),
             ConditionRaises(user, f.rules[k].conditions[m]),
             \A h \in 1..(m - 1) :
               ConditionHolds(user, f.rules[k].conditions[h], Having(user, some))
      PROVE  FALSE
  <2>1. \A h \in 1..(m - 1) : h \in 1..Len(f.rules[k].conditions)
    OBVIOUS
  <2>2. \A h \in 1..(m - 1) :
          ConditionHolds(user, f.rules[k].conditions[h], Having(user, others))
    BY <1>2, <2>1
  <2> QED BY <1>2, <2>2 DEF Passed, Errs, RuleRaises
<1> QED BY <1>1, <1>2 DEF Passed, Errs, RuleRaises

(* A condition has been looked at.                                           *)
LEMMA ConditionStep ==
  ASSUME Shape, Place, Progress, SettledFor(seen), ConditionFails \/ ConditionHoldsNow
  PROVE  \E data \in held : SoFar(data)'
<1> USE DEF storeVars, historyVars
<1>1. PICK f : f = seen
  OBVIOUS
<1>2. pc = "rules" /\ Known(f) /\ segments \in held /\ UNCHANGED <<user, seen, held>>
        /\ rule \in 1..Len(f.rules) /\ cond \in 1..Len(f.rules[rule].conditions)
  <2>1. pc = "rules" /\ UNCHANGED <<user, seen, held>> /\ MoreRules /\ MoreConditions
    BY DEF ConditionFails, ConditionHoldsNow
  <2>2. Known(f) /\ segments \in held
    BY <1>1, <2>1 DEF Place
  <2>3. Len(f.rules) \in Nat /\ \A i \in 1..Len(f.rules) : Len(f.rules[i].conditions) \in Nat
    BY <2>2, FlagsAssumption DEF Known
  <2>4. rule \in 1..Len(f.rules)
    BY <1>1, <2>1, <2>3 DEF MoreRules, Shape
  <2>5. cond \in 1..Len(f.rules[rule].conditions)
    BY <1>1, <2>1, <2>3, <2>4 DEF MoreConditions, Shape
  <2> QED BY <2>1, <2>2, <2>4, <2>5
<1>3a. PICK i \in 1..Len(f.rules) : i = rule
  BY <1>2
<1>3b. PICK j \in 1..Len(f.rules[i].conditions) : j = cond
  BY <1>2, <1>3a
<1>3. i = rule /\ j = cond /\ SettledFor(f) /\ Known(f) /\ segments \in held
  BY <1>1, <1>2, <1>3a, <1>3b
<1>4. PICK data \in held : SoFar(data)
  BY <1>2 DEF Progress
<1>5. PICK w \in held :
        /\ ConditionHolds(user, f.rules[i].conditions[j], Having(user, w))
             <=> ConditionHolds(user, f.rules[i].conditions[j], Having(user, segments))
        /\ \A k \in 1..Len(f.rules) : \A m \in 1..Len(f.rules[k].conditions) :
             <<k, m>> # <<i, j>> =>
               (ConditionHolds(user, f.rules[k].conditions[m], Having(user, w))
                  <=> ConditionHolds(user, f.rules[k].conditions[m], Having(user, data)))
  BY <1>3, OneMoment
<1>6. \A k \in 1..Len(f.rules) : k < i => Passed(f, k, w)
  <2>1. SUFFICES ASSUME NEW k \in 1..Len(f.rules), k < i PROVE Passed(f, k, w)
    OBVIOUS
  <2>2. k # i /\ Passed(f, k, data)
    BY <1>1, <1>3, <1>4, <2>1 DEF SoFar
  <2>3. \A m \in 1..Len(f.rules[k].conditions) :
          ConditionHolds(user, f.rules[k].conditions[m], Having(user, w))
            <=> ConditionHolds(user, f.rules[k].conditions[m], Having(user, data))
    BY <1>5, <2>1, <2>2
  <2>4. Len(f.rules[k].conditions) \in Nat
    BY <1>3, FlagsAssumption DEF Known
  <2> QED BY <2>2, <2>3, <2>4, SameHoldsSamePassed
<1>7. \A m \in 1..Len(f.rules[i].conditions) : m < j =>
        ConditionHolds(user, f.rules[i].conditions[m], Having(user, w))
  <2>1. MoreRules
    BY DEF ConditionFails, ConditionHoldsNow
  <2>2. \A m \in 1..Len(f.rules[i].conditions) : m < j =>
          ConditionHolds(user, f.rules[i].conditions[m], Having(user, data))
    BY <1>1, <1>3, <1>4, <2>1 DEF SoFar
  <2>3. \A m \in 1..Len(f.rules[i].conditions) : m < j => <<i, m>> # <<i, j>>
    OBVIOUS
  <2> QED BY <1>5, <2>2, <2>3
<1> DEFINE c == f.rules[i].conditions[j]
<1>8. CASE ConditionFails
  <2>1. rule' = i + 1 /\ cond' = 1
    BY <1>3, <1>8 DEF ConditionFails, NextRule
  <2>2. Passed(f, i, w)
    <3>1. ~ConditionHolds(user, c, Having(user, w)) /\ ~ConditionRaises(user, c)
      BY <1>1, <1>3, <1>5, <1>8 DEF ConditionFails
    <3>2. ~Matches(f, i, w)
      BY <3>1 DEF Matches, RuleMatches
    <3>3. ASSUME NEW m \in 1..Len(f.rules[i].conditions),
                 ConditionRaises(user, f.rules[i].conditions[m]),
                 \A h \in 1..(m - 1) :
                   ConditionHolds(user, f.rules[i].conditions[h], Having(user, w))
          PROVE  FALSE
      <4>1. CASE m < j
        BY <1>7, <3>3, <4>1 DEF ConditionHolds
      <4>2. CASE m = j
        BY <3>1, <3>3, <4>2
      <4>3. CASE m > j
        <5>1. j \in 1..(m - 1)
          BY <4>3
        <5> QED BY <3>1, <3>3, <5>1
      <4> QED BY <4>1, <4>2, <4>3
    <3> QED BY <3>2, <3>3 DEF Passed, Errs, RuleRaises
  <2>3. \A k \in 1..Len(f.rules) : k < i + 1 => Passed(f, k, w)
    <3>1. \A k \in 1..Len(f.rules) : k < i + 1 => k < i \/ k = i
      OBVIOUS
    <3> QED BY <1>6, <2>2, <3>1
  <2>4. \A k \in 1..Len(seen'.rules) : k < rule' => Passed(seen, k, w)'
    BY <1>1, <1>2, <2>1, <2>3 DEF Passed, Matches, Errs
  <2>5. MoreRules' => \A m \in 1..Len(seen'.rules[rule'].conditions) : ~(m < cond')
    <3>1. MoreRules' => rule' \in 1..Len(f.rules)
      BY <1>1, <1>2, <2>1, FlagsAssumption DEF MoreRules, Known
    <3>2. \A k \in 1..Len(f.rules) : Len(f.rules[k].conditions) \in Nat
      BY <1>2, FlagsAssumption DEF Known
    <3> QED BY <1>1, <1>2, <2>1, <3>1, <3>2
  <2>6. SoFar(w)'
    BY <2>4, <2>5 DEF SoFar
  <2> QED BY <2>6
<1>9. CASE ConditionHoldsNow
  <2>1. rule' = i /\ cond' = j + 1
    BY <1>3, <1>9 DEF ConditionHoldsNow
  <2>2. ConditionHolds(user, c, Having(user, w))
    BY <1>1, <1>3, <1>5, <1>9 DEF ConditionHoldsNow
  <2>3. \A k \in 1..Len(seen'.rules) : k < rule' => Passed(seen, k, w)'
    BY <1>1, <1>2, <1>6, <2>1 DEF Passed, Matches, Errs
  <2>4. \A m \in 1..Len(seen'.rules[rule'].conditions) : m < cond' =>
          ConditionHolds(user', seen'.rules[rule'].conditions[m], Having(user', w))
    <3>1. \A m \in 1..Len(f.rules[i].conditions) : m < j + 1 => m < j \/ m = j
      BY <1>3
    <3> QED BY <1>1, <1>2, <1>7, <2>1, <2>2, <3>1
  <2>5. SoFar(w)'
    BY <2>3, <2>4 DEF SoFar
  <2> QED BY <2>5
<1> QED BY <1>8, <1>9

(* Time passes, and messages are stored.                                     *)
LEMMA ProgressStays ==
  ASSUME Progress, UNCHANGED <<user, seen, rule, cond, answer, pc, all_flags>>,
         held \subseteq held'
  PROVE  Progress'
<1>1. PICK f : f = seen
  OBVIOUS
<1>2. SettledFor(seen)' => SettledFor(f)'
  BY <1>1 DEF SettledFor
<1>3. SettledFor(seen)' => SettledFor(f)
  BY <1>2, SettledEarlier
<1>4. \A data : SoFar(data)' <=> SoFar(data)
  BY DEF SoFar, MoreRules, Passed, Matches, Errs
<1>5. /\ OffOrTargeted(seen)' = OffOrTargeted(f)
      /\ \A data : Meaning(seen, data)' = Meaning(f, data)
      /\ \A data : Caught(Meaning(seen, data))' = Caught(Meaning(f, data))
      /\ ByDefault(seen)' = ByDefault(f)
      /\ LeavesOut(seen)' <=> LeavesOut(f)
      /\ MayRaise(seen)' <=> MayRaise(f)
  BY <1>1 DEF OffOrTargeted, Meaning, Caught, InBulk, ByDefault, LeavesOut, MayRaise
<1>6. (pc \in {"rules", "default"} => OffOrTargeted(seen) = None)'
  BY <1>1, <1>5 DEF Progress
<1>7. (pc = "rules" /\ SettledFor(seen) => \E data \in held : SoFar(data))'
  BY <1>1, <1>3, <1>4 DEF Progress
<1>8. (pc = "default" /\ SettledFor(seen) =>
         \E data \in held : Meaning(seen, data) = ByDefault(seen))'
  BY <1>1, <1>3, <1>5 DEF Progress
<1>9. (pc = "return" /\ Known(seen) =>
         /\ SettledFor(seen) => \E data \in held : answer = Caught(Meaning(seen, data))
         /\ answer = None => LeavesOut(seen)
         /\ answer = Raised => MayRaise(seen))'
  <2>1. Known(seen)' => Known(f)
    BY <1>1 DEF Known
  <2> QED BY <1>1, <1>3, <1>5, <2>1 DEF Progress
<1> QED BY <1>6, <1>7, <1>8, <1>9 DEF Progress

(* A flag is read: it is off or has a target, or its first rule is next.     *)
LEMMA ProgressBegins ==
  ASSUME NEW f, Known(f), seen' = f, UNCHANGED <<user, all_flags>>, segments \in held',
         rule' = 1, cond' = 1,
         \/ OffOrTargeted(f) # None /\ pc' = "return" /\ answer' = Caught(OffOrTargeted(f))
         \/ OffOrTargeted(f) = None /\ pc' = "rules"
  PROVE  Progress'
<1>1. /\ OffOrTargeted(seen)' = OffOrTargeted(f)
      /\ \A data : Caught(Meaning(seen, data))' = Caught(Meaning(f, data))
      /\ MayRaise(seen)' <=> MayRaise(f)
  BY DEF OffOrTargeted, Meaning, Caught, InBulk, MayRaise
<1>2. CASE OffOrTargeted(f) # None
  <2>1. \A data : Meaning(f, data) = OffOrTargeted(f)
    BY <1>2, OffOrTargetedSays
  <2>2. answer' # None /\ (answer' = Raised => MayRaise(f))
    BY <1>2, CaughtSays, OffOrTargetedRaises
  <2> QED BY <1>1, <1>2, <2>1, <2>2 DEF Progress
<1>3. CASE OffOrTargeted(f) = None
  <2>1. \A i \in 1..Len(f.rules) : ~(i < 1)
    BY FlagsAssumption DEF Known
  <2>2. MoreRules' => 1 \in 1..Len(f.rules)
    BY FlagsAssumption DEF Known, MoreRules
  <2>3. MoreRules' => \A j \in 1..Len(f.rules[1].conditions) : ~(j < 1)
    BY <2>2, FlagsAssumption DEF Known
  <2>4. PICK w \in held' : w = segments
    OBVIOUS
  <2>5. SoFar(w)'
    BY <2>1, <2>3 DEF SoFar
  <2>6. \E data \in held' : SoFar(data)'
    BY <2>5
  <2> QED BY <1>1, <1>3, <2>6 DEF Progress
<1> QED BY <1>2, <1>3

(* The rule whose conditions all held, or the default, decides.              *)
LEMMA RulesDecide ==
  ASSUME Shape, Place, Progress, pc = "rules", SettledFor(seen)
  PROVE  /\ MoreRules /\ ~MoreConditions =>
              \E data \in held : Meaning(seen, data) =
                IF RuleResult(rule) # None THEN RuleResult(rule) ELSE ByDefault(seen)
         /\ ~MoreRules => \E data \in held : Meaning(seen, data) = ByDefault(seen)
<1>1. PICK f : f = seen
  OBVIOUS
<1>2. PICK data \in held : SoFar(data)
  BY DEF Progress
<1>3. Known(f) /\ OffOrTargeted(f) = None
  BY <1>1 DEF Place, Progress
<1>4. Len(f.rules) \in Nat /\ \A i \in 1..Len(f.rules) : Len(f.rules[i].conditions) \in Nat
  BY <1>3, FlagsAssumption DEF Known
<1>5. ASSUME MoreRules, ~MoreConditions
      PROVE  Meaning(f, data) = IF RuleResult(rule) # None THEN RuleResult(rule) ELSE ByDefault(f)
  <2>1. PICK i \in 1..Len(f.rules) : i = rule
    BY <1>1, <1>4, <1>5 DEF MoreRules, Shape
  <2>2. \A j \in 1..Len(f.rules[i].conditions) : j < cond
    BY <1>1, <1>4, <1>5, <2>1 DEF MoreConditions, Shape
  <2>3. \A j \in 1..Len(f.rules[i].conditions) :
          ConditionHolds(user, f.rules[i].conditions[j], Having(user, data))
    BY <1>1, <1>2, <1>5, <2>1, <2>2 DEF SoFar
  <2>4. Matches(f, i, data) /\ ~Errs(f, i, data)
    BY <2>3 DEF Matches, RuleMatches, Errs, RuleRaises, ConditionHolds
  <2>5. \A j \in 1..(i - 1) : Passed(f, j, data)
    BY <1>1, <1>2, <1>4, <2>1 DEF SoFar
  <2>6. ~Passed(f, i, data)
    BY <2>4 DEF Passed
  <2> QED BY <1>1, <1>3, <2>1, <2>4, <2>5, <2>6, FirstRuleDecides DEF RuleResult, ByDefault
<1>6. ASSUME ~MoreRules
      PROVE  Meaning(f, data) = ByDefault(f)
  <2>1. \A i \in 1..Len(f.rules) : i < rule
    BY <1>1, <1>4, <1>6 DEF MoreRules, Shape
  <2>2. \A i \in 1..Len(f.rules) : Passed(f, i, data)
    BY <1>1, <1>2, <2>1 DEF SoFar
  <2> QED BY <1>3, <2>2, DefaultDecides DEF ByDefault
<1> QED BY <1>1, <1>5, <1>6

(* The condition that is looked at raises, and so does the meaning.          *)
LEMMA ErrDecides ==
  ASSUME Shape, Place, Progress, ConditionErrs
  PROVE  /\ SettledFor(seen) => \E data \in held : Meaning(seen, data) = Raised
         /\ MayRaise(seen)
<1>1. PICK f : f = seen
  OBVIOUS
<1>2. pc = "rules" /\ MoreRules /\ MoreConditions
        /\ ConditionRaises(user, seen.rules[rule].conditions[cond])
  BY DEF ConditionErrs
<1>3. Known(f) /\ OffOrTargeted(f) = None
  BY <1>1, <1>2 DEF Place, Progress
<1>4. Len(f.rules) \in Nat /\ \A i \in 1..Len(f.rules) : Len(f.rules[i].conditions) \in Nat
  BY <1>3, FlagsAssumption DEF Known
<1>5. PICK i \in 1..Len(f.rules) : i = rule
  BY <1>1, <1>2, <1>4 DEF MoreRules, Shape
<1>6. PICK j \in 1..Len(f.rules[i].conditions) : j = cond
  BY <1>1, <1>2, <1>4, <1>5 DEF MoreConditions, Shape
<1>7. ConditionRaises(user, f.rules[i].conditions[j])
  BY <1>1, <1>2, <1>5, <1>6
<1>8. ASSUME SettledFor(seen)
      PROVE  \E data \in held : Meaning(f, data) = Raised
  <2>1. PICK data \in held : SoFar(data)
    BY <1>2, <1>8 DEF Progress
  <2>2. \A h \in 1..(j - 1) :
          ConditionHolds(user, f.rules[i].conditions[h], Having(user, data))
    <3>1. \A h \in 1..Len(f.rules[i].conditions) : h < j =>
            ConditionHolds(user, f.rules[i].conditions[h], Having(user, data))
      BY <1>1, <1>2, <1>5, <1>6, <2>1 DEF SoFar
    <3>2. \A h \in 1..(j - 1) : h \in 1..Len(f.rules[i].conditions) /\ h < j
      BY <1>4
    <3> QED BY <3>1, <3>2
  <2>3. Errs(f, i, data)
    BY <1>7, <2>2 DEF Errs, RuleRaises
  <2>4. \A k \in 1..(i - 1) : Passed(f, k, data)
    BY <1>1, <1>4, <1>5, <2>1 DEF SoFar
  <2>5. ~Passed(f, i, data)
    BY <2>3 DEF Passed
  <2>6. Meaning(f, data) = Raised
    BY <1>3, <2>3, <2>4, <2>5, FirstRuleDecides, ResultsAreSome
  <2> QED BY <2>6
<1>9. MayRaise(f)
  BY <1>7 DEF MayRaise
<1> QED BY <1>1, <1>8, <1>9

LEMMA MovesProgress ==
  ASSUME Shape, Place, Progress, Moves
  PROVE  Progress'
<1> USE DEF storeVars, readVars, bulkVars, historyVars, Answers
<1>1. PICK f : f = seen
  OBVIOUS
<1>2. /\ UNCHANGED <<user, seen, held, all_flags>>
      /\ pc \in {"rules", "default"}
  BY DEF Moves, ConditionFails, ConditionHoldsNow, ConditionErrs, RuleServes,
         NoRuleMatches, FallThrough, NextRule
<1>3. Known(f) /\ user \in Users /\ OffOrTargeted(f) = None
  BY <1>1, <1>2 DEF Place, Shape, Progress
<1>4. SettledFor(seen)' <=> SettledFor(f)
  BY <1>1, <1>2 DEF SettledFor
<1>5. /\ OffOrTargeted(seen)' = None
      /\ \A data : Meaning(seen, data)' = Meaning(f, data)
      /\ ByDefault(seen)' = ByDefault(f)
      /\ \A data : Caught(Meaning(seen, data))' = Caught(Meaning(f, data))
      /\ LeavesOut(seen)' <=> LeavesOut(f)
      /\ MayRaise(seen)' <=> MayRaise(f)
  BY <1>1, <1>2, <1>3 DEF OffOrTargeted, Meaning, Caught, InBulk, ByDefault, LeavesOut, MayRaise
<1>6. CASE ConditionFails \/ ConditionHoldsNow
  <2>1. pc' = "rules"
    BY <1>6 DEF ConditionFails, ConditionHoldsNow
  <2>2. SettledFor(seen)' => \E data \in held : SoFar(data)'
    BY <1>1, <1>4, <1>6, ConditionStep
  <2> QED BY <1>2, <1>5, <2>1, <2>2 DEF Progress
<1>7. CASE RuleServes
  <2>1. pc = "rules" /\ MoreRules /\ ~MoreConditions
    BY <1>7 DEF RuleServes
  <2>2. SettledFor(f) => \E data \in held : Meaning(f, data) =
          IF RuleResult(rule) # None THEN RuleResult(rule) ELSE ByDefault(f)
    BY <1>1, <2>1, RulesDecide
  <2>3. CASE RuleResult(rule) # None /\ answer' = Caught(RuleResult(rule)) /\ pc' = "return"
    <3>1. answer' # None
      BY <2>3, CaughtSays
    <3>2. answer' = Raised => MayRaise(f)
      <4>1. SUFFICES ASSUME answer' = Raised PROVE MayRaise(f)
        OBVIOUS
      <4>2. RuleResult(rule) = Raised
        BY <2>3, <4>1, CaughtSays
      <4>3. Len(f.rules) \in Nat
        BY <1>3, FlagsAssumption DEF Known
      <4>4. rule \in 1..Len(f.rules)
        BY <1>1, <2>1, <4>3 DEF MoreRules, Shape
      <4>5. ~(Served(f.rules[rule].serve) \subseteq f.variations)
        BY <1>1, <4>2, ServeRaises DEF RuleResult
      <4> QED BY <4>4, <4>5 DEF MayRaise
    <3>3. SettledFor(f) => \E data \in held : answer' = Caught(Meaning(f, data))
      BY <2>2, <2>3
    <3> QED BY <1>2, <1>4, <1>5, <2>3, <3>1, <3>2, <3>3 DEF Progress
  <2>4. CASE RuleResult(rule) = None /\ pc' = "default"
    BY <1>2, <1>4, <1>5, <2>2, <2>4 DEF Progress
  <2> QED BY <1>7, <2>3, <2>4 DEF RuleServes
<1>8. CASE NoRuleMatches
  <2>1. pc = "rules" /\ ~MoreRules /\ pc' = "default"
    BY <1>8 DEF NoRuleMatches
  <2>2. SettledFor(f) => \E data \in held : Meaning(f, data) = ByDefault(f)
    BY <1>1, <2>1, RulesDecide
  <2> QED BY <1>2, <1>4, <1>5, <2>1, <2>2 DEF Progress
<1>9. CASE FallThrough
  <2>1. pc = "default" /\ pc' = "return" /\ answer' = Caught(ByDefault(f))
    BY <1>1, <1>9 DEF FallThrough, ByDefault
  <2>2. SettledFor(f) => \E data \in held : Meaning(f, data) = ByDefault(f)
    BY <1>1, <2>1 DEF Progress
  <2>3. answer' = None => LeavesOut(f)
    BY <1>3, <2>1, CaughtSays, NothingForUser DEF ByDefault
  <2>4. answer' = Raised => MayRaise(f)
    <3>1. SUFFICES ASSUME answer' = Raised PROVE MayRaise(f)
      OBVIOUS
    <3>2. ByDefault(f) = Raised
      BY <2>1, <3>1, CaughtSays
    <3> QED BY <3>2, ServeRaises DEF ByDefault, MayRaise
  <2>5. SettledFor(f) => \E data \in held : answer' = Caught(Meaning(f, data))
    BY <2>1, <2>2
  <2> QED BY <1>2, <1>4, <1>5, <2>1, <2>3, <2>4, <2>5 DEF Progress
<1>10. CASE ConditionErrs
  <2>1. pc' = "return" /\ answer' = Caught(Raised)
    BY <1>10 DEF ConditionErrs
  <2>2. SettledFor(f) => \E data \in held : answer' = Caught(Meaning(f, data))
    BY <1>1, <1>10, <2>1, ErrDecides
  <2>3. answer' # None /\ MayRaise(f)
    BY <1>1, <1>10, <2>1, ErrDecides, CaughtSays, ResultsAreSome
  <2> QED BY <1>2, <1>4, <1>5, <2>1, <2>2, <2>3 DEF Progress
<1> QED BY <1>6, <1>7, <1>8, <1>9, <1>10 DEF Moves

LEMMA StepProgress ==
  ASSUME Shape, Place, BulkPlace, Progress, [Next]_vars
  PROVE  Progress'
<1> USE DEF storeVars, readVars, bulkVars, historyVars, Answers
<1>1. CASE Store
  <2>0. PICK fs \in StoredFlags : \E data : StoreAll(fs, data)
    BY <1>1, StoreIsStoreAll
  <2>1. PICK data : StoreAll(fs, data)
    BY <2>0
  <2>2. CASE pc = "idle"
    BY <2>1, <2>2 DEF StoreAll, Progress
  <2>3. CASE pc # "idle"
    <3>1. UNCHANGED <<user, seen, rule, cond, answer, pc, all_flags>> /\ held \subseteq held'
      BY <2>1, <2>3 DEF StoreAll
    <3> QED BY <3>1, ProgressStays
  <2> QED BY <2>2, <2>3
<1>2. ASSUME NEW k \in FlagKeys, Begin(k) PROVE Progress'
  <2>1. /\ rule = 1 /\ cond = 1 /\ seen = NoFlag /\ UNCHANGED <<user, rule, cond, all_flags>>
        /\ segments \in held'
    BY <1>2 DEF Begin, Place, Evaluating, Evaluate, Refused
  <2>2. CASE seen' = NoFlag /\ pc' = "return"
    <3>1. ~Known(seen)'
      <4>1. ~NoFlag.present
        BY DEF NoFlag
      <4>2. ~Known(NoFlag)
        BY <4>1, KnownIsPresent
      <4> QED BY <2>2, <4>2 DEF Known
    <3> QED BY <2>2, <3>1 DEF Progress
  <2>3. CASE flags[k].present /\ Evaluate(k, flags[k])
    <3>1. PICK f : f = flags[k]
      OBVIOUS
    <3>2. Known(f)
      BY <2>3, <3>1, PresentIsKnown DEF Shape
    <3>3. /\ seen' = f
          /\ \/ OffOrTargeted(f) # None /\ pc' = "return" /\ answer' = Caught(OffOrTargeted(f))
             \/ OffOrTargeted(f) = None /\ pc' = "rules"
      BY <2>3, <3>1 DEF Evaluate
    <3> QED BY <2>1, <3>2, <3>3, ProgressBegins
  <2> QED BY <1>2, <2>1, <2>2, <2>3 DEF Begin, Refused
<1>3. ASSUME NEW k \in FlagKeys, EvaluateNext(k) PROVE Progress'
  <2>1. PICK f : f = all_flags[k]
    OBVIOUS
  <2>2. Known(f)
    BY <1>3, <2>1, PresentIsKnown DEF EvaluateNext, Remaining, Shape
  <2>3. /\ seen' = f
        /\ \/ OffOrTargeted(f) # None /\ pc' = "return" /\ answer' = Caught(OffOrTargeted(f))
           \/ OffOrTargeted(f) = None /\ pc' = "rules"
    BY <1>3, <2>1 DEF EvaluateNext, Evaluate
  <2>4. rule' = 1 /\ cond' = 1 /\ UNCHANGED <<user, all_flags>> /\ segments \in held'
    BY <1>3 DEF EvaluateNext, Evaluate, Place, Evaluating
  <2> QED BY <2>2, <2>3, <2>4, ProgressBegins
<1>4. CASE Moves
  BY <1>4, MovesProgress
<1>5. CASE Return \/ BeginAll \/ KeepDetail \/ NoDetail \/ AllEvaluated \/ ReturnAll
  <2>1. pc' \in {"idle", "each", "returned"}
    BY <1>5 DEF Return, BeginAll, KeepDetail, NoDetail, AllEvaluated, ReturnAll
  <2> QED BY <2>1 DEF Progress
<1>6. CASE UNCHANGED vars
  BY <1>6, ProgressStays DEF vars
<1> QED BY <1>1, <1>2, <1>3, <1>4, <1>5, <1>6 DEF Next, Moves

-----------------------------------------------------------------------------
(* The call for all flags *)

(* What it has kept is what the flags mean, and why it is over.              *)
Kept ==
  \A k \in FlagKeys : details[k] # None /\ SettledFor(all_flags[k]) =>
    \E data \in held : details[k] = Meaning(all_flags[k], data)

Ended ==
  pc = "returned" =>
    \/ outcome = "OK" /\ Remaining = {}
    \/ outcome = "error" /\ \E k \in Remaining : FailsOn(all_flags[k])
    \/ /\ outcome = "client not ready" \/ (outcome = "user not specified" /\ ~user.valid)
       /\ details = NoDetails

LEMMA KeptStays ==
  ASSUME Kept, UNCHANGED <<user, details, all_flags>>, held \subseteq held'
  PROVE  Kept'
<1> SUFFICES ASSUME NEW k \in FlagKeys, details'[k] # None, SettledFor(all_flags[k])'
             PROVE  \E data \in held' : details'[k] = Meaning(all_flags[k], data)'
  BY DEF Kept
<1>1. PICK f : f = all_flags[k]
  OBVIOUS
<1>2. SettledFor(f)'
  BY <1>1 DEF SettledFor
<1>3. SettledFor(f)
  BY <1>2, SettledEarlier
<1>4. PICK data \in held : details[k] = Meaning(f, data)
  BY <1>1, <1>3 DEF Kept
<1>5. Meaning(all_flags[k], data)' = Meaning(f, data)
  BY <1>1 DEF Meaning
<1>6. data \in held' /\ details'[k] = Meaning(all_flags[k], data)'
  BY <1>4, <1>5
<1> QED BY <1>6

LEMMA StepKept ==
  ASSUME Shape, Place, BulkPlace, Progress, Kept, [Next]_vars
  PROVE  Kept'
<1> USE DEF storeVars, readVars, bulkVars, historyVars, Answers
<1>1. CASE Store
  <2>0. PICK fs \in StoredFlags : \E data : StoreAll(fs, data)
    BY <1>1, StoreIsStoreAll
  <2>1. PICK data : StoreAll(fs, data)
    BY <2>0
  <2>2. CASE pc = "idle"
    <3>1. details' = NoDetails
      BY <2>1, <2>2 DEF StoreAll, BulkPlace
    <3> QED BY <3>1 DEF Kept, NoDetails
  <2>3. CASE pc # "idle"
    BY <2>1, <2>3, KeptStays DEF StoreAll
  <2> QED BY <2>2, <2>3
<1>2. ASSUME NEW k \in FlagKeys, Begin(k) PROVE Kept'
  <2>1. details' = NoDetails
    BY <1>2 DEF Begin, BulkPlace
  <2> QED BY <2>1 DEF Kept, NoDetails
<1>3. ASSUME NEW k \in FlagKeys, EvaluateNext(k) PROVE Kept'
  BY <1>3, KeptStays DEF EvaluateNext
<1>4. CASE Moves
  BY <1>4, KeptStays DEF Moves, ConditionFails, ConditionHoldsNow, ConditionErrs, RuleServes,
                         NoRuleMatches, FallThrough, NextRule
<1>5. CASE Return \/ BeginAll \/ ReturnAll
  <2>1. details' = NoDetails
    BY <1>5 DEF Return, BeginAll, ReturnAll, BulkPlace
  <2> QED BY <2>1 DEF Kept, NoDetails
<1>6. CASE NoDetail \/ AllEvaluated
  BY <1>6, KeptStays DEF NoDetail, AllEvaluated
<1>7. CASE KeepDetail
  <2>1. /\ pc = "return" /\ InBulk /\ details' = [details EXCEPT ![key] = answer]
        /\ UNCHANGED <<user, all_flags, held>>
    BY <1>7 DEF KeepDetail
  <2>2. key \in FlagKeys /\ all_flags[key].present /\ seen = all_flags[key]
    BY <2>1 DEF BulkPlace, Remaining, Evaluating
  <2>3. Known(seen)
    BY <2>2, PresentIsKnown DEF Shape
  <2> SUFFICES ASSUME NEW k \in FlagKeys, details'[k] # None, SettledFor(all_flags[k])'
               PROVE  \E data \in held' : details'[k] = Meaning(all_flags[k], data)'
    BY DEF Kept
  <2>4. PICK f : f = all_flags[k]
    OBVIOUS
  <2>5. SettledFor(f)
    BY <2>1, <2>4 DEF SettledFor
  <2>6. \A data : Meaning(all_flags[k], data)' = Meaning(f, data)
    BY <2>1, <2>4 DEF Meaning
  <2>7. CASE k = key
    <3>1. details'[k] = answer
      BY <2>1, <2>7 DEF Shape
    <3>2. \E data \in held : answer = Caught(Meaning(f, data))
      BY <2>1, <2>2, <2>3, <2>4, <2>5, <2>7 DEF Progress
    <3>3. \E data \in held : answer = Meaning(f, data)
      BY <2>1, <3>2, CaughtSays
    <3> QED BY <2>1, <2>6, <3>1, <3>3
  <2>8. CASE k # key
    <3>1. details'[k] = details[k]
      BY <2>1, <2>8 DEF Shape
    <3>2. \E data \in held : details[k] = Meaning(f, data)
      BY <2>4, <2>5, <3>1 DEF Kept
    <3> QED BY <2>1, <2>6, <3>1, <3>2
  <2> QED BY <2>7, <2>8
<1>8. CASE UNCHANGED vars
  BY <1>8, KeptStays DEF vars
<1> QED BY <1>1, <1>2, <1>3, <1>4, <1>5, <1>6, <1>7, <1>8 DEF Next, Moves

LEMMA FailureStays ==
  ASSUME NEW f, FailsOn(f), UNCHANGED user, held \subseteq held'
  PROVE  FailsOn(f)'
<1>1. \A data : Meaning(f, data)' = Meaning(f, data)
  BY DEF Meaning
<1>2. (LeavesOut(f) \/ MayRaise(f))'
  BY DEF FailsOn, LeavesOut, MayRaise
<1>3. ASSUME SettledFor(f)' PROVE \E data \in held' : Meaning(f, data)' \in {None, Raised}
  <2>1. SettledFor(f)
    BY <1>3, SettledEarlier
  <2>2. PICK data \in held : Meaning(f, data) \in {None, Raised}
    BY <2>1 DEF FailsOn
  <2>3. Meaning(f, data)' \in {None, Raised}
    BY <1>1, <2>2
  <2> QED BY <2>2, <2>3
<1> QED BY <1>2, <1>3 DEF FailsOn

LEMMA StepEnded ==
  ASSUME Shape, Place, BulkPlace, Progress, Ended, [Next]_vars
  PROVE  Ended'
<1> USE DEF storeVars, readVars, bulkVars, historyVars, Answers
<1>1. ASSUME UNCHANGED <<user, pc, outcome, details, all_flags>>,
             pc = "returned" => held \subseteq held'
      PROVE  Ended'
  <2>1. CASE pc = "returned" /\ outcome = "error"
    <3>1. PICK k \in Remaining : FailsOn(all_flags[k])
      BY <2>1 DEF Ended, NoDetails
    <3>2. PICK f : f = all_flags[k]
      OBVIOUS
    <3>3. FailsOn(f)'
      BY <1>1, <2>1, <3>1, <3>2, FailureStays
    <3>4. k \in Remaining' /\ f = all_flags'[k]
      BY <1>1, <3>1, <3>2 DEF Remaining
    <3>5. FailsOn(all_flags[k])'
      BY <3>3, <3>4 DEF FailsOn, LeavesOut, MayRaise, SettledFor, Meaning
    <3>6. \E m \in Remaining' : FailsOn(all_flags[m])'
      BY <3>4, <3>5
    <3> QED BY <1>1, <2>1, <3>6 DEF Ended
  <2>2. CASE ~(pc = "returned" /\ outcome = "error")
    BY <1>1, <2>2 DEF Ended, Remaining
  <2> QED BY <2>1, <2>2
<1>2. ASSUME pc' # "returned" PROVE Ended'
  BY <1>2 DEF Ended
<1>3. CASE Store
  <2>1. PICK fs \in StoredFlags : \E data : StoreAll(fs, data)
    BY <1>3, StoreIsStoreAll
  <2> QED BY <1>1, <2>1 DEF StoreAll
<1>4. ASSUME NEW k \in FlagKeys, Begin(k) \/ EvaluateNext(k) PROVE Ended'
  BY <1>2, <1>4 DEF Begin, EvaluateNext, Evaluate, Refused
<1>5. CASE Moves \/ Return \/ KeepDetail \/ ReturnAll
  <2>1. pc' # "returned"
    BY <1>5 DEF Moves, ConditionFails, ConditionHoldsNow, ConditionErrs, RuleServes,
                NoRuleMatches, FallThrough, Return, KeepDetail, ReturnAll
  <2> QED BY <1>2, <2>1
<1>6. CASE BeginAll
  <2>1. details' = NoDetails
    BY <1>6 DEF BeginAll, BulkPlace
  <2> QED BY <1>6, <2>1 DEF BeginAll, Ended, NoDetails
<1>7. CASE NoDetail
  <2>1. /\ pc = "return" /\ InBulk /\ answer \in {None, Raised} /\ outcome' = "error"
        /\ UNCHANGED <<user, all_flags, details, held>>
    BY <1>7 DEF NoDetail
  <2>2. key \in Remaining /\ seen = all_flags[key]
    BY <2>1 DEF BulkPlace, Evaluating
  <2>3. Known(seen)
    BY <2>1, <2>2, PresentIsKnown DEF Shape, Remaining
  <2>4. FailsOn(seen)
    <3>1. LeavesOut(seen) \/ MayRaise(seen)
      BY <2>1, <2>3 DEF Progress
    <3>2. SettledFor(seen) => \E data \in held : answer = Caught(Meaning(seen, data))
      BY <2>1, <2>3 DEF Progress
    <3>3. SettledFor(seen) => \E data \in held : Meaning(seen, data) \in {None, Raised}
      BY <2>1, <3>2, CaughtSays
    <3> QED BY <3>1, <3>3 DEF FailsOn
  <2>5. PICK k, f : k = key /\ f = seen
    OBVIOUS
  <2>6. FailsOn(f)'
    BY <2>1, <2>4, <2>5, FailureStays
  <2>7. k \in Remaining' /\ f = all_flags'[k]
    BY <2>1, <2>2, <2>5 DEF Remaining
  <2>8. FailsOn(all_flags[k])'
    BY <2>6, <2>7 DEF FailsOn, LeavesOut, MayRaise, SettledFor, Meaning
  <2>9. \E m \in Remaining' : FailsOn(all_flags[m])'
    BY <2>7, <2>8
  <2> QED BY <2>1, <2>9 DEF Ended
<1>8. CASE AllEvaluated
  BY <1>8 DEF AllEvaluated, Ended, Remaining
<1>9. CASE UNCHANGED vars
  BY <1>1, <1>9 DEF vars
<1> QED BY <1>3, <1>4, <1>5, <1>6, <1>7, <1>8, <1>9 DEF Next, Moves

-----------------------------------------------------------------------------
(* Theorems *)

EvalInv == Shape /\ Place /\ BulkPlace /\ Progress /\ Kept /\ Ended

(* Where a call is, what it has found out so far, and what it has kept: this *)
(* holds whatever is stored while the call is under way.                     *)
THEOREM EvaluationInvariant == Spec => []EvalInv
<1>1. Init => EvalInv
  BY InitPlaces DEF Init, EvalInv, Progress, Kept, Ended, NoDetails
<1>2. EvalInv /\ [Next]_vars => EvalInv'
  BY StepShape, StepPlace, StepBulkPlace, StepProgress, StepKept, StepEnded DEF EvalInv
<1> QED BY <1>1, <1>2, PTL DEF Spec

(* An evaluation, alone or within a call for all flags, answers what the     *)
(* flag it read meant for the user at one moment of the call: the steps of   *)
(* Evaluator.evaluate decide as the flag's definition does.                  *)
THEOREM EvaluationAnswersMeaning == Spec => []AnswersMeaning
<1>1. EvalInv => AnswersMeaning
  <2> SUFFICES ASSUME EvalInv, pc = "return", seen.present, SettledFor(seen)
               PROVE  \E data \in held : answer = Caught(Meaning(seen, data))
    BY DEF AnswersMeaning
  <2>1. ~NoFlag.present
    BY DEF NoFlag
  <2>2. Known(seen)
    BY <2>1 DEF EvalInv, Place
  <2> QED BY <2>2 DEF EvalInv, Progress
<1> QED BY <1>1, EvaluationInvariant, PTL

(* get_all_latest_flag_variations finds for each key what a call for that    *)
(* key could have found.  It fails as a whole only before the store is       *)
(* filled, for a user that is not valid, or because of a flag with no result *)
(* for the user: its default leaves the user out, or its data made the       *)
(* evaluation raise.                                                         *)
THEOREM CallForAllIsWhole == Spec => []BulkIsWhole
<1>1. EvalInv => BulkIsWhole
  <2> SUFFICES ASSUME EvalInv, pc = "returned" PROVE BulkIsWhole
    BY DEF BulkIsWhole
  <2>1. CASE outcome = "OK" /\ Remaining = {}
    <3> SUFFICES ASSUME NEW k \in FlagKeys, SettledFor(all_flags[k])
                 PROVE  \E data \in held :
                          Get(k) = IF all_flags[k].present THEN Meaning(all_flags[k], data)
                                   ELSE Default("flag not found")
      BY <2>1 DEF BulkIsWhole
    <3>1. CASE all_flags[k].present
      <4>1. details[k] # None /\ Get(k) = details[k]
        BY <2>1, <3>1 DEF Remaining, Get
      <4>2. PICK data \in held : details[k] = Meaning(all_flags[k], data)
        BY <4>1 DEF EvalInv, Kept
      <4> QED BY <3>1, <4>1, <4>2
    <3>2. CASE ~all_flags[k].present
      <4>1. details[k] = None
        BY <3>2 DEF EvalInv, BulkPlace
      <4>2. Get(k) = Default("flag not found")
        BY <4>1 DEF Get
      <4>3. segments \in held
        BY DEF EvalInv, Place
      <4> QED BY <3>2, <4>2, <4>3
    <3> QED BY <3>1, <3>2
  <2>2. CASE outcome = "error" /\ \E k \in Remaining : FailsOn(all_flags[k])
    BY <2>2 DEF BulkIsWhole
  <2>3. CASE /\ outcome = "client not ready" \/ (outcome = "user not specified" /\ ~user.valid)
             /\ details = NoDetails
    BY <2>3 DEF BulkIsWhole, Get, NoDetails
  <2> QED BY <2>1, <2>2, <2>3 DEF EvalInv, Ended
<1> QED BY <1>1, EvaluationInvariant, PTL

=============================================================================

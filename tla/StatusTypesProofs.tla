------------------------- MODULE StatusTypesProofs -------------------------
(* Lemmas about the rule of StatusTypes, for the proofs about the modules    *)
(* that report states.                                                       *)
EXTENDS StatusTypes, TLAPS

(* Everything the SDK passes to update_state is a state.                     *)
LEMMA RequestsAreStates == Requests \subseteq State /\ IntializingState \in State
<1>1. OkState \in State /\ InterruptedState \in State
  BY DEF State, StateType, OkState, InterruptedState
<1>2. NormalOffState \in State /\ ErrorOffState \in State
  BY DEF State, StateType, NormalOffState, ErrorOffState
<1>3. IntializingState \in State
  BY DEF State, StateType, IntializingState
<1> QED BY <1>1, <1>2, <1>3 DEF Requests

(* What a request leaves behind is a state.                                  *)
LEMMA AfterUpdateType ==
  ASSUME NEW c \in State, NEW request \in State
  PROVE  AfterUpdate(c, request) \in State
<1>1. EffectiveType(c.type, request.type) \in StateType
  BY DEF EffectiveType, State, StateType
<1> QED BY <1>1 DEF AfterUpdate, State

(* A request for OFF with an error is always granted.                        *)
LEMMA ErrorOffCounts ==
  ASSUME NEW c \in State
  PROVE  AfterUpdate(c, ErrorOffState).type = "OFF"
BY DEF AfterUpdate, Counts, EffectiveType, ErrorOffState, State
=============================================================================

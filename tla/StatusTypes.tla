---------------------------- MODULE StatusTypes ----------------------------
(***************************************************************************)
(* The states of data update processing (fbclient/status_types.py) and     *)
(* the rule by which the status provider moves from one to the next        *)
(* (DataUpdateStatusProviderImpl.update_state in fbclient/status.py).      *)
(* The time stamp of a state is left out, and the error it carries is      *)
(* reduced to whether there is one: that is all the code branches on.      *)
(***************************************************************************)

StateType == {"INITIALIZING", "OK", "INTERRUPTED", "OFF"}

State == [type : StateType, error : BOOLEAN]

(* The factories of class State. *)
IntializingState == [type |-> "INITIALIZING", error |-> FALSE]
OkState          == [type |-> "OK",           error |-> FALSE]
InterruptedState == [type |-> "INTERRUPTED",  error |-> TRUE]
NormalOffState   == [type |-> "OFF",          error |-> FALSE]
ErrorOffState    == [type |-> "OFF",          error |-> TRUE]

(* The states some part of the SDK passes to update_state. *)
Requests == {OkState, InterruptedState, NormalOffState, ErrorOffState}

Final == {"OK", "OFF"}

AsRequested(old, new) == new    \* mutant of EffectiveType: no special case

(* INTERRUPTED is turned into INITIALIZING as long as nothing was received. *)
EffectiveType(old, new) ==
  IF new = "INTERRUPTED" /\ old = "INITIALIZING" THEN "INITIALIZING" ELSE new

(* A request counts when it changes the type or reports an error. *)
Counts(current, request) ==
  \/ EffectiveType(current.type, request.type) # current.type
  \/ request.error

(* Mutant of AfterUpdate: the error is not carried over. *)
AfterUpdateNoError(current, request) ==
  [type |-> EffectiveType(current.type, request.type)]

AfterUpdate(current, request) ==
  IF Counts(current, request)
    THEN [type  |-> EffectiveType(current.type, request.type),
          error |-> request.error]
    ELSE current

=============================================================================

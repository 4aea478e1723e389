-------------------------- MODULE StreamingProofs --------------------------
(***************************************************************************)
(* Proofs about Streaming, for any number of faults and any exponent at    *)
(* which the backoff overflows, and about StreamingHost: every step of it  *)
(* is one of Streaming or leaves its variables alone, so that what is      *)
(* proved of Streaming holds there; and the timeout is given back.         *)
(***************************************************************************)
EXTENDS StreamingHost, StatusTypesProofs

(* What a connection that ended may say of itself.                           *)
Closed == [is : BOOLEAN, reconn : BOOLEAN, state : SUBSET State]

LEMMA ClosedTypes ==
  /\ NotSelfClosed \in Closed
  /\ RefusedClose \in Closed
  /\ InvalidClose \in Closed
  /\ SelfClosed(TRUE, {InterruptedState}) \in Closed
  /\ SelfClosed(FALSE, {NormalOffState}) \in Closed
<1>1. {} \in SUBSET State
  OBVIOUS
<1>2. {ErrorOffState} \in SUBSET State /\ {InterruptedState} \in SUBSET State
        /\ {NormalOffState} \in SUBSET State
  BY RequestsAreStates DEF Requests
<1>3. \A b \in BOOLEAN, s \in SUBSET State : SelfClosed(b, s) \in Closed
  BY DEF SelfClosed, Closed
<1>4. NotSelfClosed \in Closed
  BY <1>1 DEF NotSelfClosed, Closed
<1> QED BY <1>1, <1>2, <1>3, <1>4 DEF RefusedClose, InvalidClose

-----------------------------------------------------------------------------
(* Type correctness *)

LEMMA InitType == Init => TypeOK
<1> SUFFICES ASSUME Init PROVE TypeOK
  OBVIOUS
<1>1. status \in State
  BY RequestsAreStates DEF Init
<1>2. selfClosed \in Closed
  BY ClosedTypes DEF Init
<1>3. pc \in ThreadPc /\ stopPc \in StopPc /\ cause \in {"none"}
  BY DEF Init, ThreadPc, StopPc
<1>4. retries \in Nat /\ faults \in 0..MaxFaults /\ lateStarts \in Nat
  BY BoundsAssumption DEF Init
<1>5. forceClose \in BOOLEAN /\ running \in BOOLEAN /\ app \in BOOLEAN
        /\ closeAsked \in BOOLEAN /\ closedByError \in BOOLEAN
        /\ ready \in BOOLEAN /\ goodRun \in BOOLEAN
  BY DEF Init
<1> QED BY <1>1, <1>2, <1>3, <1>4, <1>5 DEF TypeOK, Closed

(* The states a step may report. *)
LEMMA ReportsType ==
  ASSUME TypeOK
  PROVE  /\ AfterUpdate(status, OkState) \in State
         /\ AfterUpdate(status, InterruptedState) \in State
         /\ AfterUpdate(status, NormalOffState) \in State
         /\ \A state \in StateOf : AfterUpdate(status, state) \in State
<1>1. status \in State
  BY DEF TypeOK
<1>2. {OkState, InterruptedState, NormalOffState, ErrorOffState} \subseteq State
  BY RequestsAreStates DEF Requests
<1>3. StateOf \subseteq State
  BY <1>2 DEF StateOf, TypeOK
<1> QED BY <1>1, <1>2, <1>3, AfterUpdateType

LEMMA FaultType == TypeOK /\ Fault => faults' \in 0..MaxFaults
BY BoundsAssumption DEF TypeOK, Fault

LEMMA NextDelayType ==
  ASSUME TypeOK, NEW n \in {0, retries}, NextDelay(n)
  PROVE  retries' \in Nat /\ goodRun' \in BOOLEAN
<1>1. n \in Nat
  BY DEF TypeOK
<1>2. n + 1 \in Nat
  BY <1>1
<1>3. retries' = n + 1 /\ goodRun' = FALSE
  BY DEF NextDelay
<1> QED BY <1>2, <1>3, Zenon

LEMMA StepType == TypeOK /\ [Next]_vars => TypeOK'
<1> SUFFICES ASSUME TypeOK, [Next]_vars PROVE TypeOK'
  OBVIOUS
<1> USE DEF ThreadPc, StopPc, connVars, reportVars, backoffVars, countVars
<1>1. CASE Check
  <2>1. pc' \in ThreadPc
    BY <1>1 DEF Check
  <2>2. ready' \in BOOLEAN
    BY <1>1 DEF TypeOK, Check
  <2> QED BY <1>1, <2>1, <2>2 DEF TypeOK, Check
<1>2. CASE Start
  <2>1. app' \in BOOLEAN /\ pc' \in ThreadPc
    BY <1>2 DEF Start
  <2> QED BY <1>2, <2>1 DEF TypeOK, Start
<1>25. CASE RunForever
  <2>1. lateStarts' \in Nat
    BY <1>25 DEF TypeOK, RunForever
  <2>2. closeAsked' \in BOOLEAN
    BY <1>25 DEF RunForever
  <2>3. pc' \in ThreadPc /\ cause' \in {"none"}
    BY <1>25 DEF RunForever
  <2> QED BY <1>25, <2>1, <2>2, <2>3 DEF TypeOK, RunForever
<1>3. CASE StartFails
  BY <1>3, FaultType DEF TypeOK, StartFails
<1>4. CASE Opened
  BY <1>4 DEF TypeOK, Opened
<1>5. ASSUME NEW error \in Errors, ConnectionFails(error) PROVE TypeOK'
  BY <1>5, FaultType DEF TypeOK, ConnectionFails
<1>6. ASSUME NEW code \in CloseCodes, ServerCloses(code) PROVE TypeOK'
  BY <1>6, FaultType DEF TypeOK, ServerCloses
<1>7. CASE CloseTakesEffect
  BY <1>7 DEF TypeOK, CloseTakesEffect
<1>8. CASE MessageArrives
  BY <1>8 DEF TypeOK, MessageArrives
<1>9. CASE MessageTaken
  BY <1>9, ReportsType DEF TypeOK, MessageTaken
<1>10. CASE MessageRefused
  <2>1. status' \in State
    BY <1>10, ReportsType DEF TypeOK, MessageRefused
  <2> QED BY <1>10, <2>1, FaultType, ClosedTypes DEF TypeOK, MessageRefused, Closed
<1>11. CASE MessageInvalid
  BY <1>11, FaultType, ClosedTypes DEF TypeOK, MessageInvalid, Closed
<1>12. CASE OnError
  BY <1>12, ClosedTypes DEF TypeOK, OnError, Closed
<1>13. CASE ReportError
  BY <1>13, ReportsType DEF TypeOK, ReportError
<1>14. CASE OnClose
  <2>1. running' \in BOOLEAN /\ pc' \in ThreadPc
    BY <1>14 DEF TypeOK, OnClose
  <2>2. cause' \in Errors \cup CloseCodes \cup {"none"}
    BY <1>14 DEF TypeOK, OnClose, CloseCodes
  <2> QED BY <1>14, <2>1, <2>2 DEF TypeOK, OnClose
<1>15. CASE ReportClose
  BY <1>15, ReportsType DEF TypeOK, ReportClose
<1>16. CASE Finish
  <2>1. retries' \in Nat /\ goodRun' \in BOOLEAN
    BY <1>16, NextDelayType DEF TypeOK, Finish, DelayOverflows
  <2> QED BY <1>16, <2>1 DEF TypeOK, Finish
<1>17. CASE HandleException
  <2>1. retries' \in Nat /\ goodRun' \in BOOLEAN
    BY <1>17, NextDelayType DEF TypeOK, HandleException, DelayOverflows
  <2>2. status' \in State
    BY <1>17, ReportsType DEF HandleException
  <2> QED BY <1>17, <2>1, <2>2 DEF TypeOK, HandleException
<1>18. CASE Cleanup
  <2>1. selfClosed' \in Closed
    BY <1>18, ClosedTypes DEF Cleanup, FreshClose
  <2>2. app' \in BOOLEAN /\ closedByError' \in BOOLEAN
    BY <1>18 DEF Cleanup
  <2>3. pc' \in ThreadPc
    BY <1>18 DEF Cleanup
  <2> QED BY <1>18, <2>1, <2>2, <2>3 DEF TypeOK, Cleanup, Closed
<1>19. CASE StopFlags
  <2>1. forceClose' \in BOOLEAN /\ running' \in BOOLEAN
    BY <1>19 DEF StopFlags
  <2>2. stopPc' \in StopPc
    BY <1>19 DEF StopFlags
  <2> QED BY <1>19, <2>1, <2>2 DEF TypeOK, StopFlags
<1>20. CASE StopReports
  BY <1>20, ReportsType DEF TypeOK, StopReports
<1>21. CASE StopLooks
  <2>1. selfClosed' \in Closed
    BY <1>21, ClosedTypes DEF TypeOK, StopLooks, Closed
  <2>2. stopPc' \in StopPc
    BY <1>21 DEF StopLooks
  <2> QED BY <1>21, <2>1, <2>2 DEF TypeOK, StopLooks, Closed
<1>22. CASE StopCloses
  BY <1>22 DEF TypeOK, StopCloses
<1>23. CASE StopJoins
  BY <1>23 DEF TypeOK, StopJoins
<1>24. CASE UNCHANGED vars
  BY <1>24 DEF TypeOK, vars
<1> QED
  BY <1>1, <1>2, <1>3, <1>4, <1>5, <1>6, <1>7, <1>8, <1>9, <1>10, <1>11, <1>12,
     <1>13, <1>14, <1>15, <1>16, <1>17, <1>18, <1>19, <1>20, <1>21, <1>22, <1>23,
     <1>24, <1>25
  DEF Next, Thread, Environment, Stop

(* Every flag, callback state and counter of the streaming thread keeps its  *)
(* type, for any faults and whenever stop is called.                         *)
THEOREM Typing == Spec => []TypeOK
<1> QED BY InitType, StepType, PTL DEF Spec

-----------------------------------------------------------------------------
(* Safety *)

(* Before stop nothing but a message that ended the streaming makes the loop *)
(* stop, and then OFF is reported before the loop looks again.               *)
GivingUp ==
  stopPc = "idle" =>
    /\ ~running => \/ pc = "reportClose" /\ StateOf = {ErrorOffState}
                   \/ /\ pc \in {"finished", "cleanup", "check", "over"}
                      /\ status.type = "OFF"
    /\ selfClosed.is /\ ~selfClosed.reconn => selfClosed.state = {ErrorOffState}

(* Inductive: what the three invariants below rest on.  The second and third *)
(* conjunct tie the flags to the places where the loop reads and resets them. *)
SafetyInv ==
  /\ forceClose <=> stopPc # "idle"
  /\ pc \in {"check", "start", "made", "connecting"} /\ ~forceClose
       => ~selfClosed.is /\ ~closedByError
  /\ ~forceClose \/ pc \in {"start", "made"} => lateStarts = 0
  /\ OneLateStart
  /\ GivingUp
  /\ pc = "over" => ready /\ (stopPc = "idle" => ~running)

LEMMA InitSafety == Init => SafetyInv
BY DEF Init, SafetyInv, OneLateStart, GivingUp, NotSelfClosed

LEMMA StepSafety == TypeOK /\ SafetyInv /\ [Next]_vars => SafetyInv'
<1> SUFFICES ASSUME TypeOK, SafetyInv, [Next]_vars PROVE SafetyInv'
  OBVIOUS
<1> USE DEF SafetyInv, OneLateStart, GivingUp, StateOf,
            connVars, reportVars, backoffVars, countVars
<1>1. CASE Check
  BY <1>1 DEF TypeOK, Check, GoesOn
<1>2. CASE Start
  BY <1>2 DEF TypeOK, Start
<1>25. CASE RunForever
  BY <1>25 DEF TypeOK, RunForever
<1>3. CASE StartFails
  BY <1>3 DEF TypeOK, StartFails
<1>4. CASE Opened
  BY <1>4 DEF TypeOK, Opened
<1>5. ASSUME NEW error \in Errors, ConnectionFails(error) PROVE SafetyInv'
  BY <1>5 DEF TypeOK, ConnectionFails
<1>6. ASSUME NEW code \in CloseCodes, ServerCloses(code) PROVE SafetyInv'
  BY <1>6 DEF TypeOK, ServerCloses
<1>7. CASE CloseTakesEffect
  BY <1>7 DEF TypeOK, CloseTakesEffect
<1>8. CASE MessageArrives
  BY <1>8 DEF TypeOK, MessageArrives
<1>9. CASE MessageTaken
  BY <1>9 DEF TypeOK, MessageTaken
<1>10. CASE MessageRefused
  BY <1>10 DEF TypeOK, MessageRefused, RefusedClose, SelfClosed
<1>11. CASE MessageInvalid
  BY <1>11 DEF TypeOK, MessageInvalid, InvalidClose, SelfClosed
<1>12. CASE OnError
  <2>1. CASE cause = "websocket"
    BY <1>12, <2>1 DEF TypeOK, OnError
  <2>2. CASE cause = "other"
    <3>1. selfClosed'.is /\ selfClosed'.reconn
      BY <1>12, <2>2 DEF OnError, SelfClosed
    <3>2. running' = running /\ (stopPc = "idle" => running)
      BY <1>12, <2>2 DEF OnError
    <3> QED BY <1>12, <2>2, <3>1, <3>2 DEF OnError
  <2> QED BY <1>12, <2>1, <2>2 DEF OnError
<1>13. CASE ReportError
  BY <1>13 DEF TypeOK, ReportError
<1>14. CASE OnClose
  BY <1>14 DEF TypeOK, OnClose
<1>15. CASE ReportClose
  <2>1. ASSUME stopPc = "idle", ~running PROVE status'.type = "OFF"
    <3>1. StateOf = {ErrorOffState}
      BY <1>15, <2>1 DEF ReportClose
    <3>2. status' = AfterUpdate(status, ErrorOffState)
      BY <1>15, <3>1 DEF ReportClose
    <3> QED BY <3>2, ErrorOffCounts DEF TypeOK
  <2> QED BY <1>15, <2>1 DEF ReportClose
<1>16. CASE Finish
  BY <1>16 DEF TypeOK, Finish
<1>17. CASE HandleException
  BY <1>17 DEF TypeOK, HandleException, GoesOn
<1>18. CASE Cleanup
  BY <1>18 DEF TypeOK, Cleanup, FreshClose, NotSelfClosed
<1>19. CASE StopFlags
  BY <1>19 DEF TypeOK, StopFlags
<1>20. CASE StopReports
  BY <1>20 DEF TypeOK, StopReports
<1>21. CASE StopLooks
  BY <1>21 DEF TypeOK, StopLooks, SelfClosed
<1>22. CASE StopCloses
  BY <1>22 DEF TypeOK, StopCloses
<1>23. CASE StopJoins
  BY <1>23 DEF TypeOK, StopJoins
<1>24. CASE UNCHANGED vars
  BY <1>24 DEF vars
<1> QED
  BY <1>1, <1>2, <1>3, <1>4, <1>5, <1>6, <1>7, <1>8, <1>9, <1>10, <1>11, <1>12,
     <1>13, <1>14, <1>15, <1>16, <1>17, <1>18, <1>19, <1>20, <1>21, <1>22, <1>23,
     <1>24, <1>25
  DEF Next, Thread, Environment, Stop

LEMMA Safety == Spec => [](TypeOK /\ SafetyInv)
<1>1. Init => TypeOK /\ SafetyInv
  BY InitType, InitSafety
<1>2. TypeOK /\ SafetyInv /\ [Next]_vars => (TypeOK /\ SafetyInv)'
  BY StepType, StepSafety
<1> QED BY <1>1, <1>2, PTL DEF Spec

(* Once stop has raised __force_close at most one more connection is begun:  *)
(* that of a loop that had read it before.                                   *)
THEOREM AtMostOneLateStart == Spec => []OneLateStart
<1>1. SafetyInv => OneLateStart
  BY DEF SafetyInv
<1> QED BY <1>1, Safety, PTL

(* As long as stop is not called, no connection begins with the close reason *)
(* or the error of one before it.                                            *)
THEOREM SlateIsClean == Spec => []CleanSlate
<1>1. SafetyInv => CleanSlate
  BY DEF SafetyInv, CleanSlate
<1> QED BY <1>1, Safety, PTL

(* The thread leaves its loop with ready set, and unless stop was called it  *)
(* leaves it only after OFF was reported.                                    *)
THEOREM GivesUpRightly == Spec => []GivesUpOnlyWhenOff
<1>1. SafetyInv => GivesUpOnlyWhenOff
  BY DEF SafetyInv, GivingUp, GivesUpOnlyWhenOff
<1> QED BY <1>1, Safety, PTL

-----------------------------------------------------------------------------
(* The streaming thread among other clients *)

LEMMA HostSteps == [HostNext]_allVars => [Next]_vars
<1> SUFFICES ASSUME [HostNext]_allVars PROVE [Next]_vars
  OBVIOUS
<1>1. CASE ThreadHere
  BY <1>1 DEF ThreadHere, Next, Thread
<1>2. CASE OpenedHere
  BY <1>2 DEF OpenedHere, Next
<1>3. CASE StartFailsHere
  BY <1>3 DEF StartFailsHere, Next, Environment
<1>4. CASE EnvironmentHere
  BY <1>4 DEF EnvironmentHere, Next
<1>5. CASE StopHere
  BY <1>5 DEF StopHere, StopPing, Next, Stop
<1>6. CASE Ping
  BY <1>6 DEF Ping, PingLooks, PingSends
<1>7. CASE OtherTakes \/ OtherRestores \/ \E t \in Chosen : AppSets(t)
  BY <1>7 DEF OtherTakes, OtherRestores, AppSets
<1>8. CASE UNCHANGED allVars
  BY <1>8 DEF allVars
<1> QED BY <1>1, <1>2, <1>3, <1>4, <1>5, <1>6, <1>7, <1>8 DEF HostNext

(* The composition behaves as Streaming says: sharing the timeout and the    *)
(* connection with others takes nothing from the streaming thread's safety.  *)
THEOREM HostImplementsStreaming == HostSpec => Spec
<1>1. HostInit => Init
  BY DEF HostInit
<1> QED BY <1>1, HostSteps, PTL DEF HostSpec, Spec

(* After stop has raised its flag at most one more connection is begun, no   *)
(* connection begins with the state of another before that, and the thread   *)
(* gives up only when it should, also among other clients.                   *)
COROLLARY HostIsSafe ==
  HostSpec => [](TypeOK /\ OneLateStart /\ CleanSlate /\ GivesUpOnlyWhenOff)
<1> QED
  BY HostImplementsStreaming, Typing, AtMostOneLateStart, SlateIsClean,
     GivesUpRightly, PTL

-----------------------------------------------------------------------------
(* The timeout *)

Takers == {"this", "other"}

(* Inductive: who holds the lock has kept a timeout of the application's.    *)
TimeoutInv ==
  /\ lock \in Takers \cup {"free"}
  /\ previous \in [Takers -> Chosen \cup {"this", "other", Unset}]
  /\ lock = "free" => timeout \in Chosen
  /\ lock # "free" => previous[lock] \in Chosen

LEMMA InitTimeout == HostInit => TimeoutInv
BY DEF HostInit, TimeoutInv, Takers, Unset

LEMMA TakeKeeps ==
  ASSUME TimeoutInv, NEW c \in Takers, Take(c)
  PROVE  TimeoutInv'
<1>1. lock' = c /\ timeout \in Chosen
  BY DEF TimeoutInv, Take
<1>2. previous' = [previous EXCEPT ![c] = timeout]
  BY DEF Take
<1>3. previous'[c] = timeout /\ previous' \in [Takers -> Chosen \cup {"this", "other", Unset}]
  BY <1>1, <1>2 DEF TimeoutInv
<1> QED BY <1>1, <1>3 DEF TimeoutInv, Takers

LEMMA GiveBackKeeps ==
  ASSUME TimeoutInv, NEW c \in Takers, lock = c, GiveBack(c)
  PROVE  TimeoutInv'
<1>1. lock' = "free" /\ timeout' \in Chosen
  BY DEF TimeoutInv, GiveBack, Takers
<1>2. previous' \in [Takers -> Chosen \cup {"this", "other", Unset}]
  BY DEF TimeoutInv, GiveBack
<1> QED BY <1>1, <1>2 DEF TimeoutInv

LEMMA UnchangedKeeps == TimeoutInv /\ UNCHANGED timeoutVars => TimeoutInv'
BY DEF TimeoutInv, timeoutVars

LEMMA StepTimeout == TimeoutInv /\ [HostNext]_allVars => TimeoutInv'
<1> SUFFICES ASSUME TimeoutInv, [HostNext]_allVars PROVE TimeoutInv'
  OBVIOUS
<1>1. CASE Prepare
  BY <1>1, TakeKeeps, UnchangedKeeps DEF Prepare, Takers
<1>2. CASE Restore
  BY <1>2, GiveBackKeeps, UnchangedKeeps DEF Restore, Holds, Takers
<1>3. CASE UNCHANGED timeoutVars
  BY <1>3, UnchangedKeeps
<1>4. CASE OtherTakes
  BY <1>4, TakeKeeps DEF OtherTakes, Takers
<1>5. CASE OtherRestores
  BY <1>5, GiveBackKeeps DEF OtherRestores, Takers
<1>6. ASSUME NEW t \in Chosen, AppSets(t) PROVE TimeoutInv'
  BY <1>6 DEF AppSets, TimeoutInv
<1>7. CASE StopHere \/ Ping \/ UNCHANGED allVars
  BY <1>7, <1>3 DEF StopHere, StopPing, Ping, PingLooks, PingSends, hostVars, allVars
<1> QED
  BY <1>1, <1>2, <1>3, <1>4, <1>5, <1>6, <1>7
  DEF HostNext, ThreadHere, OpenedHere, StartFailsHere, EnvironmentHere

(* However the connection attempts of several clients overlap and fail, the  *)
(* process's timeout is one the application chose whenever no attempt is     *)
(* under way.                                                                *)
THEOREM TimeoutIsRestored == HostSpec => []TimeoutRestored
<1>1. TimeoutInv => TimeoutRestored
  BY DEF TimeoutInv, TimeoutRestored
<1> QED BY <1>1, InitTimeout, StepTimeout, PTL DEF HostSpec

-----------------------------------------------------------------------------
(* Types of what is shared *)

HostPart ==
  /\ timeout \in Chosen \cup {"this", "other"}
  /\ ping \in {"waiting", "found", "ended"}
  /\ pingStop \in BOOLEAN
  /\ turns \in 0..MaxTurns

LEMMA InitHostPart == HostInit => HostPart
<1> SUFFICES ASSUME HostInit PROVE HostPart
  OBVIOUS
<1>1. turns \in 0..MaxTurns
  BY TurnsAssumption DEF HostInit
<1>2. pingStop \in BOOLEAN
  BY DEF HostInit
<1> QED BY <1>1, <1>2 DEF HostInit, HostPart

LEMMA TurnType == HostPart /\ Turn => turns' \in 0..MaxTurns
BY TurnsAssumption DEF HostPart, Turn

LEMMA StepHostPart == TimeoutInv /\ HostPart /\ [HostNext]_allVars => HostPart'
<1> SUFFICES ASSUME TimeoutInv, HostPart, [HostNext]_allVars PROVE HostPart'
  OBVIOUS
<1>1. timeout' \in Chosen \cup {"this", "other"}
  <2>1. ASSUME NEW c \in Takers, Take(c) PROVE timeout' \in {"this", "other"}
    BY <2>1 DEF Take, Takers
  <2>2. ASSUME NEW c \in Takers, lock = c, GiveBack(c) PROVE timeout' \in Chosen
    BY <2>2 DEF GiveBack, TimeoutInv, Takers
  <2>3. CASE Prepare
    BY <2>1, <2>3 DEF Prepare, Takers, HostPart, timeoutVars
  <2>4. CASE Restore
    BY <2>2, <2>4 DEF Restore, Holds, Takers, HostPart, timeoutVars
  <2>5. CASE UNCHANGED timeoutVars
    BY <2>5 DEF HostPart, timeoutVars
  <2>6. CASE OtherTakes \/ OtherRestores \/ \E t \in Chosen : AppSets(t)
    BY <2>1, <2>2, <2>6 DEF OtherTakes, OtherRestores, AppSets, Takers
  <2>7. CASE StopHere \/ Ping \/ UNCHANGED allVars
    BY <2>5, <2>7
    DEF StopHere, StopPing, Ping, PingLooks, PingSends, hostVars, allVars
  <2> QED
    BY <2>3, <2>4, <2>5, <2>6, <2>7
    DEF HostNext, ThreadHere, OpenedHere, StartFailsHere, EnvironmentHere
<1>2. ping' \in {"waiting", "found", "ended"} /\ pingStop' \in BOOLEAN
  <2>1. CASE StopHere \/ Ping
    BY <2>1 DEF HostPart, StopHere, StopPing, Ping, PingLooks, PingSends, AfterPing,
                hostVars, pingVars
  <2>2. CASE UNCHANGED pingVars
    BY <2>2 DEF HostPart, pingVars
  <2> QED
    BY <2>1, <2>2 DEF HostNext, OtherTakes, OtherRestores, AppSets, hostVars, allVars
<1>3. turns' \in 0..MaxTurns
  <2>1. CASE Turn
    BY <2>1, TurnType
  <2>2. CASE UNCHANGED turns
    BY <2>2 DEF HostPart
  <2> QED
    BY <2>1, <2>2
    DEF HostNext, StopHere, StopPing, Ping, PingLooks, PingSends, OtherTakes,
        OtherRestores, AppSets, hostVars, allVars
<1> QED BY <1>1, <1>2, <1>3 DEF HostPart

(* The streaming thread, the timeout and the ping task keep their types, for *)
(* any number of faults and of attempts of other clients.                    *)
THEOREM HostTyping == HostSpec => []HostTypeOK
<1>1. HostInit => TimeoutInv /\ HostPart
  BY InitTimeout, InitHostPart
<1>2. TimeoutInv /\ HostPart /\ [HostNext]_allVars => (TimeoutInv /\ HostPart)'
  BY StepTimeout, StepHostPart
<1>3. TypeOK /\ TimeoutInv /\ HostPart => HostTypeOK
  BY DEF TimeoutInv, HostPart, HostTypeOK, Takers
<1> QED BY <1>1, <1>2, <1>3, HostImplementsStreaming, Typing, PTL DEF HostSpec
=============================================================================

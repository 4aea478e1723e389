----------------------------- MODULE Streaming -----------------------------
(***************************************************************************)
(* The streaming thread (Streaming in fbclient/streaming.py): its loop     *)
(* over connections, the callbacks that websocket-client makes on it, and  *)
(* stop(), which another thread executes meanwhile.  They share flags that *)
(* no lock protects; every action is a stretch of code between two points  *)
(* where the other thread can make a difference.                           *)
(*                                                                         *)
(* websocket-client is modelled from how the callbacks use it: a failure   *)
(* calls on_error, every connection ends with on_close, both on the        *)
(* streaming thread; close() makes the connection end.  What a message     *)
(* contains is the subject of module DataSync.                             *)
(***************************************************************************)
EXTENDS StatusTypes, Integers

CONSTANTS
  MaxFaults,     \* bound: connections that fail, or end over a message
  MaxExponent    \* largest n for which the delay 1.0 * 2**n is a float

ASSUME BoundsAssumption == MaxFaults \in Nat /\ MaxExponent \in Nat

VARIABLES
  pc,            \* where the streaming thread is
  stopPc,        \* where the thread that calls stop is
  forceClose,    \* __force_close (and __stop_event, set together with it)
  running,       \* __running
  app,           \* __wsapp is not None
  closeAsked,    \* close() was called on the current app
  selfClosed,    \* __self_closed
  closedByError, \* __closed_by_error
  cause,         \* why the connection is ending: an error, a close code
  status,        \* the provider's current state
  ready,         \* the event that lets the client's constructor go on
  retries,       \* __retry_times of the backoff strategy
  goodRun,       \* a connection was opened since the last delay
  faults,        \* how many there were
  lateStarts     \* history: connections begun after force_close was set

connVars    == <<app, closeAsked, selfClosed, closedByError, cause>>
reportVars  == <<status, ready>>
backoffVars == <<retries, goodRun>>
countVars   == <<faults, lateStarts>>
vars == <<pc, stopPc, forceClose, running, connVars, reportVars, backoffVars,
          countVars>>

ThreadPc == {"check", "start", "made", "connecting", "open", "handling",
             "erring", "reportError", "closing", "reportClose", "finished",
             "failed", "cleanup", "dying", "over", "dead"}

StopPc == {"idle", "flagged", "published", "found", "joining", "returned"}

(* _SelfClosed; a state of {} stands for None. *)
NoState == [is |-> FALSE, reconn |-> FALSE]    \* mutant of NotSelfClosed: no state

NotSelfClosed == [is |-> FALSE, reconn |-> FALSE, state |-> {}]
SelfClosed(reconn, state) == [is |-> TRUE, reconn |-> reconn, state |-> state]

Errors == {"websocket", "other"}
CloseCodes == {"invalid request", "unknown"}

TypeOK ==
  /\ pc \in ThreadPc
  /\ stopPc \in StopPc
  /\ forceClose \in BOOLEAN /\ running \in BOOLEAN
  /\ app \in BOOLEAN /\ closeAsked \in BOOLEAN /\ closedByError \in BOOLEAN
  /\ selfClosed \in [is : BOOLEAN, reconn : BOOLEAN, state : SUBSET State]
  /\ cause \in Errors \cup CloseCodes \cup {"none"}
  /\ status \in State
  /\ ready \in BOOLEAN
  /\ retries \in Nat
  /\ goodRun \in BOOLEAN
  /\ faults \in 0..MaxFaults
  /\ lateStarts \in Nat

Init ==
  /\ pc = "check"
  /\ stopPc = "idle"
  /\ forceClose = FALSE
  /\ running = TRUE
  /\ app = FALSE
  /\ closeAsked = FALSE
  /\ selfClosed = NotSelfClosed
  /\ closedByError = FALSE
  /\ cause = "none"
  /\ status = IntializingState
  /\ ready = FALSE
  /\ retries = 0
  /\ goodRun = FALSE
  /\ faults = 0
  /\ lateStarts = 0

Fault == faults < MaxFaults /\ faults' = faults + 1

-----------------------------------------------------------------------------
(* run: the loop and the connection's beginning *)

RunningGoesOn == running    \* mutant of GoesOn: force_close is not looked at

GoesOn == ~forceClose /\ running

Check ==
  /\ pc = "check"
  /\ \/ GoesOn /\ pc' = "start" /\ UNCHANGED ready
     \/ ~GoesOn /\ pc' = "over" /\ ready' = TRUE
  /\ UNCHANGED <<stopPc, forceClose, running, connVars, status, backoffVars,
                 countVars>>

(* _init_wsapp makes the app ... *)
Start ==
  /\ pc = "start"
  /\ app' = TRUE
  /\ pc' = "made"
  /\ UNCHANGED <<stopPc, forceClose, running, closeAsked, selfClosed,
                 closedByError, cause, reportVars, backoffVars, countVars>>

(* ... and run_forever starts to connect.  It begins by setting keep_running, *)
(* which close() has reset: a close of the app before this is lost.          *)
RunForever ==
  /\ pc = "made"
  /\ closeAsked' = FALSE
  /\ cause' = "none"
  /\ lateStarts' = IF forceClose THEN lateStarts + 1 ELSE lateStarts
  /\ pc' = "connecting"
  /\ UNCHANGED <<stopPc, forceClose, running, app, selfClosed, closedByError,
                 reportVars, backoffVars, faults>>

(* Making the app may raise. *)
StartFails ==
  /\ pc = "start"
  /\ Fault
  /\ pc' = "failed"
  /\ UNCHANGED <<stopPc, forceClose, running, connVars, reportVars, backoffVars,
                 lateStarts>>

(* _on_open *)
Opened ==
  /\ pc = "connecting"
  /\ ~closeAsked
  /\ goodRun' = TRUE
  /\ pc' = "open"
  /\ UNCHANGED <<stopPc, forceClose, running, connVars, reportVars, retries,
                 countVars>>

ConnectionFails(error) ==
  /\ pc \in {"connecting", "open"}
  /\ Fault
  /\ cause' = error
  /\ pc' = "erring"
  /\ UNCHANGED <<stopPc, forceClose, running, app, closeAsked, selfClosed,
                 closedByError, reportVars, backoffVars, lateStarts>>

ServerCloses(code) ==
  /\ pc = "open"
  /\ Fault
  /\ cause' = code
  /\ pc' = "closing"
  /\ UNCHANGED <<stopPc, forceClose, running, app, closeAsked, selfClosed,
                 closedByError, reportVars, backoffVars, lateStarts>>

(* A close the client asked for while the app runs (see RunForever for one   *)
(* before).  One that stop asked for, on its own thread, may break into a    *)
(* read and show as an error.                                                *)
CloseTakesEffect ==
  /\ pc \in {"connecting", "open"}
  /\ closeAsked
  /\ \/ cause' = "none" /\ pc' = "closing"
     \/ forceClose /\ pc' = "erring" /\ \E error \in Errors : cause' = error
  /\ UNCHANGED <<stopPc, forceClose, running, app, closeAsked, selfClosed,
                 closedByError, reportVars, backoffVars, countVars>>

-----------------------------------------------------------------------------
(* _on_message *)

MessageArrives ==
  /\ pc = "open"
  /\ ~closeAsked
  /\ pc' = "handling"
  /\ UNCHANGED <<stopPc, forceClose, running, connVars, reportVars, backoffVars,
                 countVars>>

MessageTaken ==
  /\ pc = "handling"
  /\ ready' = TRUE
  /\ status' = AfterUpdate(status, OkState)
  /\ pc' = "open"
  /\ UNCHANGED <<stopPc, forceClose, running, connVars, backoffVars, countVars>>

(* Mutant of RefusedClose: is_reconn is left at its default. *)
RefusedCloseForGood == SelfClosed(FALSE, {})

RefusedClose == SelfClosed(TRUE, {})

(* The store refuses the data, or raises, which the provider reports. *)
MessageRefused ==
  /\ pc = "handling"
  /\ Fault
  /\ status' \in {status, AfterUpdate(status, InterruptedState)}
  /\ selfClosed' = RefusedClose
  /\ closeAsked' = TRUE
  /\ pc' = "open"
  /\ UNCHANGED <<stopPc, forceClose, running, app, closedByError, cause, ready,
                 backoffVars, lateStarts>>

(* Mutant of InvalidClose: the state is left at its default. *)
InvalidCloseInSilence == SelfClosed(FALSE, {})

InvalidClose == SelfClosed(FALSE, {ErrorOffState})

(* The message is malformed, or handling it raises. *)
MessageInvalid ==
  /\ pc = "handling"
  /\ Fault
  /\ selfClosed' = InvalidClose
  /\ closeAsked' = TRUE
  /\ pc' = "open"
  /\ UNCHANGED <<stopPc, forceClose, running, app, closedByError, cause,
                 reportVars, backoffVars, lateStarts>>

-----------------------------------------------------------------------------
(* _on_error and _on_close; the report to the provider is a step of its own *)

OnError ==
  /\ pc = "erring"
  /\ \/ /\ cause = "websocket"
        /\ running' = TRUE
        /\ closedByError' = TRUE
        /\ pc' = "reportError"
        /\ UNCHANGED <<selfClosed, closeAsked>>
     \/ /\ cause = "other"
        /\ selfClosed' = SelfClosed(TRUE, {InterruptedState})
        /\ closeAsked' = TRUE
        /\ pc' = "closing"
        /\ UNCHANGED <<running, closedByError>>
  /\ UNCHANGED <<stopPc, forceClose, app, cause, reportVars, backoffVars,
                 countVars>>

ReportError ==
  /\ pc = "reportError"
  /\ status' = AfterUpdate(status, InterruptedState)
  /\ pc' = "closing"
  /\ UNCHANGED <<stopPc, forceClose, running, connVars, ready, backoffVars,
                 countVars>>

(* The states to report: what the branches of _on_close assign to state, and *)
(* nothing for None and after an error.  stop() may change __self_closed     *)
(* between the decision and the report, so the decision is kept in cause.    *)
OnClose ==
  /\ pc = "closing"
  /\ \/ /\ selfClosed.is
        /\ running' = selfClosed.reconn
        /\ pc' = IF selfClosed.state = {} THEN "finished" ELSE "reportClose"
        /\ cause' = "none"
     \/ /\ ~selfClosed.is
        /\ closedByError
        /\ pc' = "finished"
        /\ UNCHANGED <<running, cause>>
     \/ /\ ~selfClosed.is
        /\ ~closedByError
        /\ running' = (cause # "invalid request")
        /\ cause' = IF cause = "invalid request" THEN cause ELSE "unknown"
        /\ pc' = "reportClose"
  /\ UNCHANGED <<stopPc, forceClose, app, closeAsked, selfClosed, closedByError,
                 reportVars, backoffVars, countVars>>

StateOf ==
  IF cause = "none" THEN selfClosed.state
  ELSE IF cause = "invalid request" THEN {ErrorOffState}
  ELSE {InterruptedState}

ReportClose ==
  /\ pc = "reportClose"
  /\ \E state \in StateOf : status' = AfterUpdate(status, state)
  /\ pc' = "finished"
  /\ UNCHANGED <<stopPc, forceClose, running, connVars, ready, backoffVars,
                 countVars>>

-----------------------------------------------------------------------------
(* run: after the connection *)

(* next_delay, with the exponent it uses: a connection that was good for     *)
(* longer than the reset interval resets it.                                 *)
NextDelay(exponent) ==
  /\ exponent = retries \/ (goodRun /\ exponent = 0)
  /\ exponent <= MaxExponent
  /\ retries' = exponent + 1
  /\ goodRun' = FALSE

DelayOverflows ==
  /\ retries > MaxExponent
  /\ UNCHANGED backoffVars

(* run_forever has returned.  The wait that follows ends by itself.  An      *)
(* overflow is an exception like any other in the body of the loop.          *)
Finish ==
  /\ pc = "finished"
  /\ \/ running /\ pc' = "cleanup" /\ \E n \in {0, retries} : NextDelay(n)
     \/ running /\ pc' = "failed" /\ DelayOverflows
     \/ ~running /\ pc' = "cleanup" /\ UNCHANGED backoffVars
  /\ UNCHANGED <<stopPc, forceClose, running, connVars, reportVars, countVars>>

(* The except clause of the loop, where an overflow ends the thread. *)
HandleException ==
  /\ pc = "failed"
  /\ status' = AfterUpdate(status, InterruptedState)
  /\ \/ GoesOn /\ pc' = "cleanup" /\ \E n \in {0, retries} : NextDelay(n)
     \/ GoesOn /\ pc' = "dying" /\ DelayOverflows
     \/ ~GoesOn /\ pc' = "cleanup" /\ UNCHANGED backoffVars
  /\ UNCHANGED <<stopPc, forceClose, running, connVars, ready, countVars>>

StaleClose == selfClosed    \* mutant of FreshClose: not reset between connections

FreshClose == NotSelfClosed

(* The finally clause. *)
Cleanup ==
  /\ pc \in {"cleanup", "dying"}
  /\ app' = FALSE
  /\ selfClosed' = FreshClose
  /\ closedByError' = FALSE
  /\ pc' = IF pc = "cleanup" THEN "check" ELSE "dead"
  /\ UNCHANGED <<stopPc, forceClose, running, closeAsked, cause, reportVars,
                 backoffVars, countVars>>

-----------------------------------------------------------------------------
(* stop, by another thread *)

StopFlags ==
  /\ stopPc = "idle"
  /\ forceClose' = TRUE
  /\ running' = FALSE
  /\ stopPc' = "flagged"
  /\ UNCHANGED <<pc, connVars, reportVars, backoffVars, countVars>>

StopReports ==
  /\ stopPc = "flagged"
  /\ status' = AfterUpdate(status, NormalOffState)
  /\ stopPc' = "published"
  /\ UNCHANGED <<pc, forceClose, running, connVars, ready, backoffVars, countVars>>

(* if self.__wsapp: it is to be closed. *)
StopLooks ==
  /\ stopPc = "published"
  /\ \/ /\ app
        /\ selfClosed' = SelfClosed(FALSE, {NormalOffState})
        /\ stopPc' = "found"
     \/ /\ ~app
        /\ stopPc' = "joining"
        /\ UNCHANGED selfClosed
  /\ UNCHANGED <<pc, forceClose, running, app, closeAsked, closedByError, cause,
                 reportVars, backoffVars, countVars>>

(* close() on the app, or AttributeError when it has become None. *)
StopCloses ==
  /\ stopPc = "found"
  /\ closeAsked' = (closeAsked \/ app)
  /\ stopPc' = "joining"
  /\ UNCHANGED <<pc, forceClose, running, app, selfClosed, closedByError, cause,
                 reportVars, backoffVars, countVars>>

(* The thread has ended, or the timeout of the join has passed. *)
StopJoins ==
  /\ stopPc = "joining"
  /\ stopPc' = "returned"
  /\ UNCHANGED <<pc, forceClose, running, connVars, reportVars, backoffVars,
                 countVars>>

-----------------------------------------------------------------------------

(* What the streaming thread does when it is its turn. *)
Thread ==
  \/ Check \/ Start \/ RunForever
  \/ CloseTakesEffect
  \/ MessageTaken
  \/ OnError \/ ReportError \/ OnClose \/ ReportClose
  \/ Finish \/ HandleException \/ Cleanup

(* What the network, the server and the store do. *)
Environment ==
  \/ StartFails
  \/ \E error \in Errors : ConnectionFails(error)
  \/ \E code \in CloseCodes : ServerCloses(code)
  \/ MessageArrives
  \/ MessageRefused \/ MessageInvalid

Stop == StopFlags \/ StopReports \/ StopLooks \/ StopCloses \/ StopJoins

Next == Thread \/ Opened \/ Environment \/ Stop

Spec == Init /\ [][Next]_vars

(* The threads run, a connection attempt succeeds unless it fails, and stop, *)
(* once called, goes on.  The server need not send or close anything.        *)
Fairness ==
  /\ WF_vars(Thread)
  /\ WF_vars(Opened)
  /\ WF_vars(stopPc # "idle" /\ Stop)

FairSpec == Spec /\ Fairness

-----------------------------------------------------------------------------
(* Properties *)

(* After stop has raised its flag at most one more connection is begun: the  *)
(* one whose loop condition was read before.                                 *)
OneLateStart == lateStarts <= 1

(* A connection begins with a clean slate: no close or error of an earlier   *)
(* one decides what its own end means.                                       *)
CleanSlate ==
  pc = "connecting" /\ ~forceClose => ~selfClosed.is /\ ~closedByError

(* Without stop, the thread leaves its loop only in state OFF, and it does   *)
(* not leave the client's constructor waiting then.  (A thread that dies of  *)
(* an overflowing delay, see DelayOverflows, does not get there.)            *)
GivesUpOnlyWhenOff ==
  pc = "over" => ready /\ (stopPc = "idle" => status.type = "OFF")

(* An interrupted connection is made again, unless stop was called or the    *)
(* state is OFF.                                                             *)
Resumes ==
  (pc = "check" /\ status.type # "OFF") ~> (pc = "open" \/ forceClose)

(* stop ends the thread when it has found an app that runs; see              *)
(* StreamingHost.  (An app that is made but does not run yet when stop       *)
(* closes it connects all the same, and the thread lives on until that       *)
(* connection ends.)                                                         *)
StopEndsFoundConnection == (stopPc = "found" /\ pc # "made") ~> pc = "over"

=============================================================================

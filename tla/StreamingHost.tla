--------------------------- MODULE StreamingHost ---------------------------
(***************************************************************************)
(* What the streaming thread of module Streaming shares with others: the   *)
(* connection timeout of websocket-client, which all clients of a process  *)
(* and the application set, and the connection itself, which the ping task *)
(* (RepeatableTask in fbclient/utils/repeatable_task.py) looks at.  Every  *)
(* step of Streaming is one of this module, with what it does to these.    *)
(***************************************************************************)
EXTENDS Streaming

CONSTANTS
  Chosen,      \* the timeouts the application may set
  MaxTurns     \* bound: what another client and the application do

ASSUME TurnsAssumption == MaxTurns \in Nat

VARIABLES
  lock,        \* _WEBSOCKET_TIMEOUT_LOCK; "this": __timeout_lock_held
  timeout,     \* websocket.getdefaulttimeout(): "this", "other" or a chosen one
  previous,    \* previous[c]: __previous_websocket_timeout of client c
  ping,        \* where the ping task is
  pingStop,    \* its _stop_event
  turns

timeoutVars == <<lock, timeout, previous>>
pingVars == <<ping, pingStop>>
hostVars == <<timeoutVars, pingVars, turns>>
allVars == <<vars, hostVars>>

Unset == "none"

HostTypeOK ==
  /\ TypeOK
  /\ lock \in {"free", "this", "other"}
  /\ timeout \in Chosen \cup {"this", "other"}
  /\ previous \in [{"this", "other"} -> Chosen \cup {"this", "other", Unset}]
  /\ ping \in {"waiting", "found", "ended"}
  /\ pingStop \in BOOLEAN
  /\ turns \in 0..MaxTurns

HostInit ==
  /\ Init
  /\ lock = "free"
  /\ timeout \in Chosen
  /\ previous = [c \in {"this", "other"} |-> Unset]
  /\ ping = "waiting"
  /\ pingStop = FALSE
  /\ turns = 0

-----------------------------------------------------------------------------
(* The timeout *)

Take(c) ==
  /\ lock = "free"
  /\ lock' = c
  /\ previous' = [previous EXCEPT ![c] = timeout]
  /\ timeout' = c

(* __prepare_connection_timeout: nobody waits for the lock.                  *)
Prepare == Take("this") \/ (lock # "free" /\ UNCHANGED timeoutVars)

(* Mutant of Holds: it is not looked who has taken the lock.                 *)
Anybody(c) == lock # "free"

Holds(c) == lock = c

GiveBack(c) ==
  /\ timeout' = previous[c]
  /\ previous' = [previous EXCEPT ![c] = Unset]
  /\ lock' = "free"

(* __restore_connection_timeout                                              *)
Restore ==
  \/ Holds("this") /\ GiveBack("this")
  \/ ~Holds("this") /\ UNCHANGED timeoutVars

(* The steps of the streaming thread.  When preparing raises, the timeout is *)
(* restored there.                                                           *)
ThreadHere ==
  \/ Start /\ Prepare
  \/ OnError /\ Restore
  \/ OnClose /\ Restore
  \/ Finish /\ Restore
  \/ Cleanup /\ Restore
  \/ (Check \/ RunForever \/ CloseTakesEffect \/ MessageTaken \/ ReportError \/ ReportClose
        \/ HandleException) /\ UNCHANGED timeoutVars

OpenedHere == Opened /\ Restore

StartFailsHere == StartFails /\ (Prepare \/ UNCHANGED timeoutVars)

EnvironmentHere == (Environment /\ pc # "start") /\ UNCHANGED timeoutVars

Turn == turns < MaxTurns /\ turns' = turns + 1

(* Another client connects, and its attempt ends.                            *)
OtherTakes == Turn /\ Take("other") /\ UNCHANGED <<vars, pingVars>>

OtherRestores == lock = "other" /\ GiveBack("other") /\ UNCHANGED <<vars, pingVars, turns>>

AppSets(t) ==
  /\ Turn
  /\ timeout' = t
  /\ UNCHANGED <<vars, lock, previous, pingVars>>

-----------------------------------------------------------------------------
(* The ping task *)

(* The wait for the next time, or for stop, is over: _on_ping reads the      *)
(* connection once to see that it is there ...                               *)
PingLooks ==
  /\ ping = "waiting"
  /\ \/ pingStop /\ ping' = "ended"
     \/ ~pingStop /\ app /\ ping' = "found"
  /\ UNCHANGED <<vars, timeoutVars, pingStop, turns>>

(* Mutant of AfterPing: an exception ends the task.                          *)
DiesOfException == IF app THEN "waiting" ELSE "ended"

(* ... and again to use it: it raises when that is None or closed meanwhile. *)
AfterPing == "waiting"

PingSends ==
  /\ ping = "found"
  /\ ping' = AfterPing
  /\ UNCHANGED <<vars, timeoutVars, pingStop, turns>>

Ping == PingLooks \/ PingSends

(* stop tells the ping task, and waits for it no longer than 5 s.            *)
StopPing ==
  /\ stopPc = "joining"
  /\ pingStop' = TRUE
  /\ UNCHANGED <<vars, timeoutVars, ping, turns>>

StopHere ==
  \/ StopPing
  \/ (StopFlags \/ StopReports \/ StopLooks \/ StopCloses) /\ UNCHANGED hostVars
  \/ StopJoins /\ pingStop /\ UNCHANGED hostVars

-----------------------------------------------------------------------------

HostNext ==
  \/ /\ ThreadHere \/ OpenedHere \/ StartFailsHere \/ EnvironmentHere
     /\ UNCHANGED <<pingVars, turns>>
  \/ StopHere
  \/ Ping
  \/ OtherTakes \/ OtherRestores \/ \E t \in Chosen : AppSets(t)

(* As in Streaming; the ping task runs, too.                                 *)
HostSpec ==
  /\ HostInit /\ [][HostNext]_allVars
  /\ WF_allVars(ThreadHere /\ UNCHANGED <<pingVars, turns>>)
  /\ WF_allVars(OpenedHere /\ UNCHANGED <<pingVars, turns>>)
  /\ WF_allVars(stopPc # "idle" /\ StopHere)
  /\ WF_allVars(Ping)

-----------------------------------------------------------------------------
(* Properties *)

(* When no client is in the middle of an attempt, the timeout is one that    *)
(* the application chose: however the attempts of two clients overlap and    *)
(* fail, neither leaves its own timeout, or the other's, behind.             *)
TimeoutRestored == lock = "free" => timeout \in Chosen

(* stop ends the thread when it finds a connection that is being made or     *)
(* open, and the ping task in any case; nothing else ends that, although     *)
(* connections vanish while it uses them.                                    *)
StopEndsThreads ==
  /\ StopEndsFoundConnection
  /\ pingStop ~> ping = "ended"
  /\ [](ping = "ended" => pingStop)

=============================================================================

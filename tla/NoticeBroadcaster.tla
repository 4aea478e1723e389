------------------------- MODULE NoticeBroadcaster -------------------------
(***************************************************************************)
(* NoticeBroadcater (fbclient/notice_broadcaster.py): notices of changed   *)
(* flags are queued by the thread that stored the change and handed to the *)
(* listeners by a thread of the broadcaster's own.  There is one type of   *)
(* notice.  An action is a critical section, an operation on the queue, or *)
(* a step between two of them.  Module FlagTracker adds what a listener    *)
(* does when it is called.                                                 *)
(***************************************************************************)
EXTENDS Integers, FiniteSets, SequencesExt

CONSTANTS
  Keys,         \* flags a notice may be about
  Listeners,    \* callables that may be registered
  Stoppers,     \* threads that call stop
  MaxCopies     \* bound: how often one callable is registered at a time

ASSUME BroadcasterAssumption == MaxCopies \in Nat /\ "stop" \notin Keys

VARIABLES
  registered,   \* __listeners, in order of registration
  queue,        \* __notice_queue: keys of flags, and the stop notice
  closed,       \* __closed
  pc,           \* where the broadcaster's thread is
  notice,       \* the notice it is processing, StopNotice when there is none
  toCall,       \* the listeners it still has to call, the next one first
  calling,      \* the listener being called
  stopper,      \* stopper[s]: where s is in stop
  due           \* history: registered ever since the thread looked, not yet called

threadVars  == <<pc, notice, toCall, calling>>
broadcasterVars == <<registered, queue, closed, threadVars, stopper, due>>

StopNotice == "stop"
NoListener == "none"

Self == "thread"    \* the broadcaster's thread, when a listener calls stop
Callers == Stoppers \cup {Self}

(* Where l is in the list, which may have it several times. *)
Places(l, list) == {i \in 1..Len(list) : list[i] = l}

Copies(l, list) == Cardinality(Places(l, list))

BroadcasterTypeOK ==
  /\ registered \in Seq(Listeners)
  /\ \A l \in Listeners : Copies(l, registered) <= MaxCopies
  /\ queue \in Seq(Keys \cup {StopNotice})
  /\ closed \in BOOLEAN
  /\ pc \in {"get", "look", "call", "inside", "dead"}
  /\ notice \in Keys \cup {StopNotice}
  /\ toCall \in Seq(Listeners)
  /\ calling \in Listeners \cup {NoListener}
  /\ stopper \in [Callers -> {"out", "closing"}]
  /\ due \in SUBSET Listeners

BroadcasterInit ==
  /\ registered = <<>>
  /\ queue = <<>>
  /\ closed = FALSE
  /\ pc = "get"
  /\ notice = StopNotice
  /\ toCall = <<>>
  /\ calling = NoListener
  /\ stopper = [s \in Callers |-> "out"]
  /\ due = {}

-----------------------------------------------------------------------------
(* add_listener, remove_listener, broadcast *)

(* Registering a callable again makes it be called once more per notice. *)
AddListener(l) ==
  /\ Copies(l, registered) < MaxCopies
  /\ ~closed
  /\ registered' = Append(registered, l)
  /\ UNCHANGED <<queue, closed, threadVars, stopper, due>>

(* Mutant of RemoveListener: the thread iterates over the list itself, so    *)
(* that one it has called, when removed, moves the others up.                *)
RemoveFromLiveList(l) ==
  /\ Contains(registered, l)
  /\ registered' = RemoveFirst(registered, l)
  /\ due' = IF Contains(registered', l) THEN due ELSE due \ {l}
  /\ toCall' = IF toCall = <<>> \/ Contains(toCall, l) THEN RemoveFirst(toCall, l)
               ELSE Tail(toCall)
  /\ UNCHANGED <<queue, closed, pc, notice, calling, stopper>>

RemoveListener(l) ==
  /\ Contains(registered, l)
  /\ registered' = RemoveFirst(registered, l)
  /\ due' = IF Contains(registered', l) THEN due ELSE due \ {l}
  /\ UNCHANGED <<queue, closed, threadVars, stopper>>

AcceptsAlways == TRUE    \* mutant of Accepts: __closed is not looked at

Accepts == ~closed

Broadcast(k) ==
  /\ queue' = IF Accepts THEN Append(queue, k) ELSE queue
  /\ UNCHANGED <<registered, closed, threadVars, stopper, due>>

-----------------------------------------------------------------------------
(* __run, __notice_process *)

TakeStop ==
  /\ pc = "get"
  /\ queue # <<>> /\ Head(queue) = StopNotice
  /\ queue' = Tail(queue)
  /\ pc' = "dead"
  /\ UNCHANGED <<registered, closed, notice, toCall, calling, stopper, due>>

TakeNotice ==
  /\ pc = "get"
  /\ queue # <<>> /\ Head(queue) # StopNotice
  /\ notice' = Head(queue)
  /\ queue' = Tail(queue)
  /\ pc' = "look"
  /\ UNCHANGED <<registered, closed, toCall, calling, stopper, due>>

(* The locked region: the listeners are copied. *)
LookUp ==
  /\ pc = "look"
  /\ toCall' = registered
  /\ due' = ToSet(registered)
  /\ pc' = "call"
  /\ UNCHANGED <<registered, queue, closed, notice, calling, stopper>>

CallListener(l) ==
  /\ pc = "call"
  /\ toCall # <<>> /\ l = Head(toCall)
  /\ toCall' = Tail(toCall)
  /\ due' = due \ {l}
  /\ calling' = l
  /\ pc' = "inside"
  /\ UNCHANGED <<registered, queue, closed, notice, stopper>>

(* It returns, or raises an Exception: the loop goes on either way. *)
ListenerReturns ==
  /\ pc = "inside"
  /\ stopper[Self] # "closing"
  /\ pc' = "call"
  /\ calling' = NoListener
  /\ UNCHANGED <<registered, queue, closed, notice, toCall, stopper, due>>

AllCalled ==
  /\ pc = "call"
  /\ toCall = <<>>
  /\ pc' = "get"
  /\ notice' = StopNotice
  /\ UNCHANGED <<registered, queue, closed, toCall, calling, stopper, due>>

-----------------------------------------------------------------------------
(* stop, by a thread of the application or by a listener; a stop that finds  *)
(* the broadcaster closed changes nothing                                    *)

StopCloses(s) ==
  /\ ~closed
  /\ s = Self => pc = "inside"
  /\ closed' = TRUE
  /\ stopper' = [stopper EXCEPT ![s] = "closing"]
  /\ UNCHANGED <<registered, queue, threadVars, due>>

(* Mutant of StopPuts: stop by a listener ends before the stop notice is put. *)
OthersPut(s) ==
  /\ stopper[s] = "closing"
  /\ queue' = IF s = Self THEN queue ELSE Append(queue, StopNotice)
  /\ stopper' = [stopper EXCEPT ![s] = "out"]
  /\ UNCHANGED <<registered, closed, threadVars, due>>

(* The join that follows has a timeout, and nothing comes after it. *)
StopPuts(s) ==
  /\ stopper[s] = "closing"
  /\ queue' = Append(queue, StopNotice)
  /\ stopper' = [stopper EXCEPT ![s] = "out"]
  /\ UNCHANGED <<registered, closed, threadVars, due>>

-----------------------------------------------------------------------------
(* Properties *)

(* The thread ends with nothing left: what was accepted lay in front of the  *)
(* stop notice, and was processed.                                           *)
NothingStranded == pc = "dead" => queue = <<>> /\ toCall = <<>>

(* A listener that stays registered while a notice is processed is called    *)
(* with it, whatever other listeners come and go meanwhile.                  *)
NobodySkipped == pc = "get" => due = {}

(* Once stop has begun, the broadcaster's thread ends.                       *)
ThreadEnds == closed ~> pc = "dead"

=============================================================================

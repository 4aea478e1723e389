--------------------------- MODULE StatusProvider ---------------------------
(***************************************************************************)
(* DataUpdateStatusProviderImpl (fbclient/status.py): the current state    *)
(* of data update processing, the threads that wait for OK, and the        *)
(* listeners.                                                              *)
(*                                                                         *)
(* One lock guards everything.  A change of state is recorded and queued   *)
(* under the lock; listeners are called outside it, by the one thread      *)
(* that found no other publisher at work.  A listener may itself call      *)
(* update_state: it is then the publisher, inside a call.  Each action is  *)
(* one critical section or one step between two of them.                   *)
(***************************************************************************)
EXTENDS StatusTypes, Integers, SequencesExt

CONSTANTS
  Updaters,       \* threads that call update_state
  Listeners,      \* callbacks that may be registered
  Waiters,        \* threads that call wait_for_OKState
  TimedWaiters,   \* those of them that give a timeout
  MaxUpdates      \* bound: notifications published in one behaviour

ASSUME TimedAssumption == TimedWaiters \subseteq Waiters
ASSUME BoundAssumption == MaxUpdates \in Nat

VARIABLES
  current,      \* __current_state
  listeners,    \* __listeners, in order of registration
  queue,        \* __notification_queue: [id, to]; id numbers the changes
  publishing,   \* __is_publishing_notifications
  published,    \* how many notifications were queued so far
  pc,           \* pc[u]: where updater u is
  batch,        \* batch[u]: the notification u is delivering, to whom it still must
  waiting,      \* waiting[w]: where waiter w is, or its last answer
  heard         \* heard[l]: the id of the last notification l was called with

feedVars == <<listeners, queue, publishing, published, pc, batch, heard>>
vars == <<current, listeners, queue, publishing, published, pc, batch,
          waiting, heard>>

NoBatch == [id |-> 0, to |-> <<>>]

(* idle: outside update_state; publish: about to take the lock in           *)
(* __publish_pending_notifications; between: before the next listener;      *)
(* inside: in a listener.                                                   *)
UpdaterPc == {"idle", "publish", "between", "inside"}

(* waiting: in Condition.wait; woken, expired: back from it, to look again. *)
Answers == {"none", "true", "false"}
WaiterPc == Answers \cup {"waiting", "woken", "expired"}

Notification == [id : Nat, to : Seq(Listeners)]

TypeOK ==
  /\ current \in State
  /\ listeners \in Seq(Listeners)
  /\ queue \in Seq(Notification)
  /\ publishing \in BOOLEAN
  /\ published \in Nat
  /\ pc \in [Updaters -> UpdaterPc]
  /\ batch \in [Updaters -> Notification]
  /\ waiting \in [Waiters -> WaiterPc]
  /\ heard \in [Listeners -> Nat]

Init ==
  /\ current = IntializingState
  /\ listeners = <<>>
  /\ queue = <<>>
  /\ publishing = FALSE
  /\ published = 0
  /\ pc = [u \in Updaters |-> "idle"]
  /\ batch = [u \in Updaters |-> NoBatch]
  /\ waiting = [w \in Waiters |-> "none"]
  /\ heard = [l \in Listeners |-> 0]

-----------------------------------------------------------------------------
(* update_state *)

NoWakeup == waiting    \* mutant of Woken: notify_all is forgotten

(* notify_all: every waiter is to look at the state again. *)
Woken == [w \in Waiters |-> IF waiting[w] = "waiting" THEN "woken" ELSE waiting[w]]

AlwaysPublishes == TRUE    \* mutant of BecomesPublisher: the flag is not consulted

(* The publisher is the thread that finds the flag down. *)
BecomesPublisher == ~publishing

(* The locked region of update_state, for a request that counts; one that   *)
(* does not leaves everything as it is.  The caller is outside the provider *)
(* or inside a listener that the provider called.                           *)
UpdateState(u, request) ==
  /\ published < MaxUpdates
  /\ pc[u] \in {"idle", "inside"}
  /\ Counts(current, request)
  /\ current' = AfterUpdate(current, request)
  /\ waiting' = Woken
  /\ published' = published + 1
  /\ queue' = Append(queue, [id |-> published + 1, to |-> listeners])
  /\ publishing' = TRUE
  /\ pc' = [pc EXCEPT ![u] = IF BecomesPublisher THEN "publish" ELSE @]
  /\ UNCHANGED <<listeners, batch, heard>>

(* Mutant of TakeNext: it calls whoever is registered when it is delivered. *)
TakeForPresent(u) ==
  /\ pc[u] = "publish"
  /\ queue # <<>>
  /\ batch' = [batch EXCEPT ![u] = [id |-> Head(queue).id, to |-> listeners]]
  /\ queue' = Tail(queue)
  /\ pc' = [pc EXCEPT ![u] = IF listeners = <<>> THEN "publish" ELSE "between"]
  /\ UNCHANGED <<current, listeners, publishing, published, waiting, heard>>

(* The locked region of __publish_pending_notifications, with work to do... *)
TakeNext(u) ==
  /\ pc[u] = "publish"
  /\ queue # <<>>
  /\ batch' = [batch EXCEPT ![u] = Head(queue)]
  /\ queue' = Tail(queue)
  /\ pc' = [pc EXCEPT ![u] = IF Head(queue).to = <<>> THEN "publish" ELSE "between"]
  /\ UNCHANGED <<current, listeners, publishing, published, waiting, heard>>

(* Mutant of StopPublishing: one notification per turn as publisher. *)
StopAfterOne(u) ==
  /\ pc[u] = "publish"
  /\ publishing' = FALSE
  /\ pc' = [pc EXCEPT ![u] = "idle"]
  /\ UNCHANGED <<current, listeners, queue, published, batch, waiting, heard>>

(* ... and with none. *)
StopPublishing(u) ==
  /\ pc[u] = "publish"
  /\ queue = <<>>
  /\ publishing' = FALSE
  /\ pc' = [pc EXCEPT ![u] = "idle"]
  /\ UNCHANGED <<current, listeners, queue, published, batch, waiting, heard>>

CallListener(u) ==
  /\ pc[u] = "between"
  /\ heard' = [heard EXCEPT ![Head(batch[u].to)] = batch[u].id]
  /\ batch' = [batch EXCEPT ![u].to = Tail(@)]
  /\ pc' = [pc EXCEPT ![u] = "inside"]
  /\ UNCHANGED <<current, listeners, queue, publishing, published, waiting>>

(* The listener returns or raises an Exception: the loop goes on either way. *)
ListenerReturns(u) ==
  /\ pc[u] = "inside"
  /\ pc' = [pc EXCEPT ![u] = IF batch[u].to = <<>> THEN "publish" ELSE "between"]
  /\ UNCHANGED <<current, listeners, queue, publishing, published, batch,
                 waiting, heard>>

-----------------------------------------------------------------------------
(* add_listener, remove_listener: by any thread, a listener's included *)

AddListener(l) ==
  /\ ~Contains(listeners, l)
  /\ listeners' = Append(listeners, l)
  /\ UNCHANGED <<current, queue, publishing, published, pc, batch, waiting, heard>>

RemoveListener(l) ==
  /\ \E i \in 1..Len(listeners) :
       listeners[i] = l /\ listeners' = RemoveAt(listeners, i)
  /\ UNCHANGED <<current, queue, publishing, published, pc, batch, waiting, heard>>

-----------------------------------------------------------------------------
(* wait_for_OKState *)

(* Mutant of Look: the deadline is not looked at. *)
LookOnlyAtState(deadlinePassed) ==
  CASE current.type = "OK"  -> "true"
    [] current.type = "OFF" -> "false"
    [] OTHER                -> "waiting"

(* One turn of its loop, under the lock. *)
Look(deadlinePassed) ==
  IF current.type = "OK" THEN "true"
  ELSE IF current.type = "OFF" \/ deadlinePassed THEN "false"
  ELSE "waiting"

CallWait(w) ==
  /\ waiting[w] \in Answers
  /\ waiting' = [waiting EXCEPT ![w] = Look(FALSE)]
  /\ UNCHANGED <<current, feedVars>>

LookAgain(w) ==
  /\ waiting[w] \in {"woken", "expired"}
  /\ waiting' = [waiting EXCEPT ![w] = Look(waiting[w] = "expired")]
  /\ UNCHANGED <<current, feedVars>>

(* The timeout passes, in Condition.wait or on the way back from it. *)
Expire(w) ==
  /\ w \in TimedWaiters
  /\ waiting[w] \in {"waiting", "woken"}
  /\ waiting' = [waiting EXCEPT ![w] = "expired"]
  /\ UNCHANGED <<current, feedVars>>

-----------------------------------------------------------------------------

Publish(u) ==
  \/ TakeNext(u)
  \/ StopPublishing(u)
  \/ CallListener(u)
  \/ ListenerReturns(u)

Next ==
  \/ \E u \in Updaters, request \in Requests : UpdateState(u, request)
  \/ \E u \in Updaters : Publish(u)
  \/ \E l \in Listeners : AddListener(l) \/ RemoveListener(l)
  \/ \E w \in Waiters : CallWait(w) \/ LookAgain(w) \/ Expire(w)

Spec == Init /\ [][Next]_vars

(* Threads that can run do run, a listener returns, and time passes.  No one *)
(* is obliged to update the state, to register or to wait.                   *)
Fairness ==
  /\ \A u \in Updaters : WF_vars(Publish(u))
  /\ \A w \in Waiters : WF_vars(LookAgain(w))
  /\ \A w \in TimedWaiters : WF_vars(Expire(w))

FairSpec == Spec /\ Fairness

-----------------------------------------------------------------------------
(* Properties *)

Publishers == {u \in Updaters : pc[u] # "idle"}

(* The flag is up exactly when one thread publishes, and never are there two *)
(* of them: update_state hands its notification over only to a publisher     *)
(* that will look at the queue again, so none is left behind in it.          *)
OnePublisher ==
  /\ publishing <=> Publishers # {}
  /\ \A u, v \in Publishers : u = v
  /\ queue # <<>> => publishing

(* A thread blocked in wait_for_OKState is blocked for a reason: the state   *)
(* is neither OK nor OFF.  No change of state passes it by unwoken.          *)
NoMissedWakeup ==
  \A w \in Waiters : waiting[w] = "waiting" => current.type \notin Final

(* What the listeners see of it all: l is still to be called with what is in *)
(* a thread's hands or in the queue for it.                                  *)
OwedTo(l) ==
  {batch[u].id : u \in {u \in Updaters : Contains(batch[u].to, l)}}
    \cup {queue[i].id : i \in {i \in 1..Len(queue) : Contains(queue[i].to, l)}}

Feed == INSTANCE NotificationFeed WITH
  subscribed <- ToSet(listeners),
  emitted    <- published,
  owed       <- [l \in Listeners |-> OwedTo(l)],
  heard      <- heard

(* The provider implements the abstract feed: each change of state reaches   *)
(* the listeners registered when it happened, once each and in the order of  *)
(* the changes, whichever threads made them and whichever publishes.         *)
ImplementsFeed == Feed!Spec

(* Every listener eventually hears every change it was registered for.       *)
EventuallyHeard == Feed!EventuallyHeard

(* A caller that gave a timeout gets its answer, whatever the state does;    *)
(* and once the state settles on OK or OFF, nobody waits any more.           *)
WaitersReturn ==
  /\ \A w \in TimedWaiters : waiting[w] \notin Answers ~> waiting[w] \in Answers
  /\ <>[](current.type \in Final) =>
       \A w \in Waiters : []<>(waiting[w] \in Answers)

=============================================================================

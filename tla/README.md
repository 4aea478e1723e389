# A verification project for the FeatBit Python SDK

TLA+ modules that model the concurrent and stateful parts of `src/fbclient`, the
TLC runs that check them on small instances, and TLAPS proofs of their safety
properties. `PROJECT.json` lists the components, the runs, which definition models
which lines, the hazards the properties are aimed at, and the theorems.

Check a run with `tlc -config <cfg> <module>`, a proof module with `tlapm <module>.tla`.

## 1. The system

An `FBClient` (`client.py`) owns the parts below; the arrows are calls and callbacks.

```
 application --variation--> Evaluator --reads--> DataStorage <--writes-- status provider
      |  send_event                                                           ^  |
      v                                                          init, upsert,|  | on state change
 EventProcessor --payloads--> sender (HTTP)                      update_state |  v  listeners
      ^ flush (RepeatableTask)                                         Streaming thread
 FlagTracker <--notices-- NoticeBroadcater <--broadcast--------------------'  ^
                                                            websocket server --'
```

| Part | State | Operations | What makes it correct |
|---|---|---|---|
| Status provider (`status.py`, `status_types.py`) | current state, listeners, queue of notifications, publishing flag | `update_state`, `add_listener`, `remove_listener`, `wait_for_OKState` | each change reaches the listeners of its moment once and in order; a waiter is never left asleep |
| Event processor (`event_processor.py`) | producer gate, bounded inbox, buffer, semaphore of flush permits, pool | `send_event`, `flush`, `stop`; dispatcher loop; flush workers | an accepted event is sent or given up once; shutdown leaves nothing behind and ends |
| Data storage (`data_storage.py`) | items by kind and key, version, initialized | `init`, `upsert`, `get`, `get_all` | items never grow older; the version is the high-water mark of the items |
| Data synchronisation (`streaming.py` `_on_open`, `_on_message`, `_on_process_data`) | the connection's messages | data-sync request, full and patch answers, pushes | the store is what the server had at one moment, converges to the server's data, and changes of flags and of the segments their rules name are announced |
| Streaming thread (`streaming.py` `run`, `_on_error`, `_on_close`, `stop`; `exponential_backoff_jitter_strategy.py`) | unprotected flags shared with `stop`, backoff counter | connection loop, callbacks, `stop` | interrupted connections are resumed, final failures are reported, `stop` ends a thread whose connection runs |
| Its surroundings (`streaming.py` `run`, `_on_ping`; `utils/repeatable_task.py`) | the process-wide timeout of websocket-client; the ping task's event | saving and restoring the timeout; ping, cancel | no client's timeout is left behind; the ping task ends with `stop` and not before |
| Notice broadcaster (`notice_broadcaster.py`) | listeners, queue, closed flag, its thread | `add_listener`, `remove_listener`, `broadcast`, `stop` | accepted notices are delivered to all who stay; the thread ends |
| Flag tracker (`flag_change_notification.py`) | the value each listener knows | add, remove, `on_flag_change` | nobody stays ignorant of a change that is announced to it |
| Evaluator (`evaluator.py`, `variation_splitting_algorithm.py`; `client.py` `_evaluate_internal`, `get_all_latest_flag_variations`) | none | conditions, segments, rules, rollouts, for one flag or for all | an answer is the meaning of the flag at one moment; a call for all flags finds what single calls could have found, or fails for a reason its data show |
| Client (`client.py`) | closed flag, owner of the shutdown, shutdown event | construction, `stop` | every part is stopped once and in order, whoever calls `stop`; every caller returns |
| Singleton (`__init__.py`, `utils/rwlock.py`) | the process-wide client and configuration under a read-write lock | `get`, `set_config` | one client serves, replaced ones leave nothing running, calls return |
| HTTP sender, null implementations, configuration | | | not modelled, or only as the environment of the others |

What is hard in it: four kinds of threads (the application's, the streaming
thread, the dispatcher with its pool, the broadcaster's) share state under several locks
and, in `Streaming`, under none; callbacks run on a thread of the component they call
back into (a status listener that updates the state, a flag listener that calls `stop`,
an event hook that calls `stop` on the dispatcher, a status listener that calls `get` while
`set_config` stops the client); connections are lost and messages
repeated; a storage, `submit`, `json.dumps` or a listener may raise half-way.

## 2. The modules

| Module | Models | Kind |
|---|---|---|
| `StatusTypes` | the states and the rule of `update_state` | operators, used by three modules |
| `StatusProvider` | `DataUpdateStatusProviderImpl` | component |
| `NotificationFeed` | what its listeners may rely on | abstract specification |
| `EventProcessor` | `DefaultEventProcessor`, `EventDispatcher`, `FlushPayloadRunner` | component |
| `EventSink` | what the application may rely on | abstract specification |
| `DataStorage` | `InMemoryDataStorage.init`, `upsert` | operators |
| `DataSync` | the data-sync protocol, composing `DataStorage`, `StatusTypes` and an external server | component |
| `Replica` | a copy that is always the server's data of one moment | abstract specification |
| `Streaming` | the streaming thread, its callbacks, the backoff and `stop` | component |
| `StreamingHost` | the streaming thread among other clients and the application, with its ping task, composing `Streaming` | component |
| `NoticeBroadcaster` | `NoticeBroadcater` | component |
| `FlagTracker` | the listeners on top of it, composing it with the streaming thread's stores | component |
| `Evaluator` | the evaluator and the splitting algorithm | operators |
| `Evaluation` | `_evaluate_internal` and `get_all_latest_flag_variations` while messages are stored | component |
| `ClientLifecycle` | construction and `stop` of clients | component |
| `Singleton` | `get`, `set_config` and the read-write lock, composing `ClientLifecycle` | component |
| `MC*` | values for the constants | instances for TLC |
| `StatusTypesProofs`, `StatusProviderProofs`, `EventProcessorProofs`, `NoticeBroadcasterProofs`, `StreamingProofs`, `DataSyncProofs`, `EvaluationProofs`, `SingletonProofs` | | proofs |

Variables carry the code's names where TLA+ allows it; each is commented with the
attribute it stands for. An action is a critical section, one operation on a queue, or the
code between two points at which another thread can make a difference.

**StatusProvider.** `UpdateState` is the locked region of `update_state` with its
`notify_all`; the thread that finds `__publishing` down becomes the publisher and goes
through `TakeNext`, `CallListener`, `ListenerReturns`, `StopPublishing`. A listener may call
`update_state` from within. `Look`, `LookAgain`, `Expire` are `wait_for_OKState`.
Numbers of notifications (`published`, `heard`) are history. `NotificationFeed` keeps for each listener the set of the
numbers it is owed, of which it hears the least; `OwedTo` finds them in the queue and in the publisher's hands.

**EventProcessor.** The gate's critical sections are `SendEvent`, `Flush`, `CloseGate`; the
shutdown marker enters by `PutShutdown`. The dispatcher drains (`TakeFirst`, `TakeMore`,
`BatchTaken`), processes a batch message by message, hands the buffer to a worker
(`Submit`), and shuts down (`BeginShutdown` to `Exit`). Workers send a payload part by part.
The done callback is two steps, `ReleasePermit` and `NotifyDispatcher`, since the semaphore
is released before the condition is notified. `SubmitFails` is `submit` raising.
Events are atoms: whether they are sendable and serialisable is all that is kept.

**DataSync.** A message is handled in one step: callbacks of one connection run one after
the other on one thread. The server is external; it is modelled from what the client
relies on: increasing time stamps, a full answer to a request from 0 and a patch to any other,
pushes in order. `EarlyPush` and `Archiving` switch on behaviours that not every
property survives. Within a patch the storage may raise at any item, after the ones before it are
stored. A flag depends on the segments that its rules name (`UsedBy`, `Named`) and on those that
the rules of these name in turn (`NestedIn`, `Reached`); a listener that evaluates the flag sees the newest
change of them all (`Recency`), but a change is announced to the flags of the first kind only (`AnnouncedFor`).

**Streaming.** `pc` names the place of the streaming thread, `stopPc` that of the thread in
`stop`; every flag they share unprotected is a variable, and reads and writes of it are in the
steps in which the code makes them. The app is made (`Start`) before it runs (`RunForever`): `run_forever` begins by setting the
flag that `close()` has reset, so that a close between the two is lost. websocket-client is external: a failure calls `on_error`, each
connection ends with `on_close`, `close()` ends it. The exponent of the
backoff is exact, the delay itself only matters when it overflows (`MaxExponent`, 1023 for a
first delay of one second). The jitter is left out.

**StreamingHost.** websocket-client keeps one timeout for the process. `run` saves it, sets its own
for the time of the attempt and restores it, under a class-wide lock; `__connecting` and what it saved are
the variables here. Other clients of the process do the same (`OtherTakes`, `OtherRestores`), and the
application may set a timeout at any time (`AppSets`); both are environment. The ping task is a
`RepeatableTask`: it waits for its event, and `_on_ping` looks at `__wsapp` and then uses
it, with the streaming thread's assignments in between; an exception is logged and the task goes on. Every
step of this module is one of `Streaming` with the same guards and effects, or leaves its variables
alone.

**NoticeBroadcaster, FlagTracker.** One type of notice exists in the SDK. `toCall` is the
tuple copied under the lock. A message is stored item by item (`StoreItems`), and each item may change what its
flags are worth; when it was accepted as a whole (`Taken`) its flags are announced one by one (`Announce`).
Not all that is stored is announced, and so the actions tell what is `named`, a flag or a segment that a rule of the flag
names, from what is `silent`: a segment the flag reaches only through another one, or an archived item. An archived item also stops the
broadcast where it stands and the streaming with it, and a message refused half-way (`Refused`) announces nothing.
`Create` and `Register` are the two steps of adding a listener: the constructor evaluates the flag, then the listener is
registered. `missed` is history: the listeners that a change was never announced to, by one of these ways or because
they registered after it was, and those whose function raised; the next notice for their flag takes them out again. What a
flag is worth for the listener's user is one value here, `NoValue` while the flag is unknown or archived.

**Evaluator, Evaluation.** A user is attribute values and a bucket per hash: bucket `b` of
`0..Top` is the percentage `b / Top`, and `Top` itself is 1.0, which `abs(n / MIN_INT)` gives for
`MIN_INT`. `Relates` stands for Python's comparisons and string operations, and `Raises` for those that raise, as
`re.search` does for an invalid expression. So does a variation that the flag's map lacks (`Given`). Within the rules of a
segment `_in_segment` swallows the exception and says no (`InOneOf`); anywhere else it ends the evaluation
(`ConditionErrs`), for which a call for one flag returns the default (`Caught`) and a call for all flags fails as a whole (`NoDetail`).
The hashed attribute cannot make it raise: `FBUser` keeps every attribute as a string and `get` is given one as the default
(`common_types.py:38-69`). A user without a key or a name is refused before anything is evaluated (`Refused`, `BeginAll`). One condition is
one step, so that a message can be stored between two of them. Within a condition the segments
are read at one moment, which the code does not guarantee for several or nested segments;
`AnswersMeaning` therefore claims nothing about evaluations that read more than one segment
while messages are stored. A call for all
flags (`BeginAll` to `ReturnAll`) copies the flags at one moment, as `get_all` does under the read
lock, and reads segments flag by flag; `Get` is what the application finds in the result. How the
store got its contents is the subject of `DataSync`: here a message replaces the
whole (`StoreAll`), a flag or a segment at any time. `MaxDepth` stands for the recursion limit:
the `RecursionError` of segments that contain each other is caught by the innermost
`_in_segment`, which says no. `Having` is the set of segments that contain the user, each level of nesting found
from the one below.

**ClientLifecycle, Singleton.** A thread is a stack of calls, since `stop` runs listeners that call `stop`,
`get` and `set_config` themselves. A part (update processor, tracker, broadcaster, event processor, flush task)
is an atom that runs or not and whose `stop` may raise; the modules above are about the
parts. `BecomeOwner`, `StopRecursive`, `StopWaits` are the three outcomes of `stop`'s locked
region; `StopPart` goes through the shutdown's list. `Construct` returns, or raises after it has
started some of the parts. The write lock is the mutex of a condition, kept from `WriteLock` to
`ReleaseWriteLock`: this is why readers wait for a writer and why a thread that has it and asks
again waits for itself. `set_config` calls `stop` in it.

## 3. The runs

| Run | Instance | Distinct states | What it shows |
|---|---|---|---|
| `status` | 2 updaters, 1 listener, 2 waiters (1 with a timeout), 3 changes | 60 thousand | the provider implements `NotificationFeed`; one publisher; no missed wake-up; everybody hears; waiters return |
| `event` | 3 events (plain, not serialisable, not sendable), 2 workers, 2 callers of `stop`, inbox of 2, batches of 2, parts of 1, one failing `submit` | 190 thousand | the processor implements `EventSink`; nothing lost or repeated; permits add up; a finished shutdown is complete; it ends unless a permit was lost |
| `sync` | 2 flags, 1 segment that a rule of one names, another that a rule of this segment names, 4 changes, 2 lost connections | 100 thousand | the store implements `Replica`, misses nothing, announces every change of a flag or a segment its rules name, converges |
| `sync_adverse` | the same without the second segment, with archiving, early pushes, a raising storage, 1 lost connection | 1.1 million | high-water version, no item grows older, status is truthful |
| `streaming` | 3 faults, any moment of `stop`, 2 turns of another client or the application | 350 thousand | clean slate, one late start at most, giving up only when OFF, the timeout given back, resumption, end of the ping task by `stop`, and of the thread when its connection runs |
| `tracker` | 2 flags, one with two values and one with none for the user, a listener of each (one of either kind), 2 items, `stop` by a thread and by a listener | 280 thousand | no accepted notice stranded, nobody skipped, nobody ignorant of what is announced to it, the thread ends |
| `evaluation` | 10 users, one not valid, 2 flags with 6 and 2 shapes, conditions and a variation that raise, 8 sets of segments (nested and self-containing ones too), 2 messages | 470 thousand | answers are meanings; a call for all flags is whole |
| `client` | 2 threads, 4 calls and 2 nested calls by listeners, 1 failure | 140 thousand | shutdowns are thorough, the singleton serves, nothing is left running, every call returns or waits for a listener that waits for it |
| `event_submit_fails` | 1 worker, 1 failing `submit` | | violation, section 6 |
| `sync_archive` | 1 archived item | | violation, section 6 |
| `streaming_overflow` | exponent bound 1 | | violation, section 6 |
| `evaluation_none` | a complete rollout of two options | | violation, section 6 |

**Bounds.** Each bound is a constant with `Max` or `Capacity` in its name, or the size of a set,
and stands in a guard. Two updaters give every hand-over of the publishing role, and the third change
one that arrives while a publisher ends. Two workers give overlapping flushes and a
worker that is still busy at shutdown; an inbox of two is full with one event and one flush, so that the
shutdown marker has to wait for room. Two flags and a segment give a message with a flag and a segment
of it; two flags of which one may have no result give a failing call for all; four changes give a stale and an overtaking message each. Three faults are a lost connection, a failed reconnection
and one more; two turns are an attempt of another client that overlaps one of this client's at either end. Four
calls are two clients that replace each other and two that stop them; two nested calls are what it takes for
two shutdowns to wait for each other, one is what it takes for `set_config` to wait for itself: both of the
cases that `EverybodyReturns` excepts occur. Two listeners suffice for one of them to leave while the other is still
to be called. Two items are two messages, or one that is refused after its first item; with two values the flag's value
changes twice, so that one is stored while a function is being told an older one. `MaxLeaks`, `MaxFailures`, `MaxFaults` and `MaxLosses` bound the faults, as the liveness properties
need: they say what happens when faults end.

**Symmetry** is not used: the runs check liveness.

**Deadlock** is checked for `status`. In the others the system may really stop: the
gate is closed and all threads have ended (`event`, `tracker`), the streaming
ended with OFF (`sync`, `streaming`), or the bound on messages is reached (`evaluation`), or on calls
(`client`, where threads may also wait for each other: that these are only the threads that
`Crossed` describes is what `EverybodyReturns` says).

## 4. Fairness

Weak fairness only, and only for what the code's own threads do next:

* `StatusProvider`: a publisher goes on (its listeners return), a woken waiter looks again, a timeout
  passes. Updates and registrations need not happen.
* `EventProcessor`: the dispatcher and the workers run, a callback that released its permit notifies,
  `stop` goes on. `http_client.py` bounds its retries and sets a timeout for each request, so a
  worker's step ends. Nobody has to send, flush or stop.
* `DataSync`: the client connects while `__running`, the server answers, and messages arrive while the
  connection lasts. Losses are bounded: convergence is about the time after the last one.
* `Streaming`: the thread runs (`run_forever` returns after `close`, waits for the next attempt are
  bounded by the maximal delay), an attempt to connect succeeds unless a fault strikes, `stop`
  goes on once called.
* `StreamingHost`: the same, and the ping task runs; other clients and the application need do nothing.
* `Singleton`: each thread goes on with its calls, and the `stop` of a part returns or raises (the joins in them have
  time limits, and that of the event processor ends by `ShutdownEndsUnlessLeaked`). Nobody has to begin a call.
* `FlagTracker`: the threads run, the streaming thread ends a message it has begun and announces it, and the application's
  functions return or raise.
* `Evaluation` has safety properties only.

## 5. What is proved

For every value of the constants that satisfies the named assumptions, by induction over the
steps:

* `StatusProviderProofs`: type correctness, `OnePublisher`, `NoMissedWakeup`, and the refinement `ImplementsFeed` with the
  abstract `InOrder`. `TypeOK` alone
  is not inductive, because `CallListener` takes from a sequence: `SomebodyLeft` says
  a publisher between two calls has somebody left to call. `OnePublisher` is inductive as it stands: its
  third conjunct is what makes `StopPublishing`, which requires an empty queue, safe.
  `NoMissedWakeup` rests on `UpdateState` waking all waiters whenever the type changes. The refinement needs `FeedInv`:
  nobody is twice in a notification's list (`OnceEach`), a publisher between two batches has nothing in its hands
  (`HandsFull`), and the numbers in the queue ascend from those in the hands (`Numbered`). So the notification a listener
  is called with is the least it is owed, and taking a batch from the queue changes what nobody is owed.
* `StreamingProofs`: type correctness, `OneLateStart`, `CleanSlate`, `GivesUpOnlyWhenOff`. They
  share one inductive invariant, `SafetyInv`. Its heart is `GivingUp`: before `stop` the flag
  `__running` goes down only in `_on_close`, and between there and the loop's next look at it the
  state OFF is reported. For `OneLateStart` it adds that the start that was decided before
  `__force_close` is the first after it.
  The second part is about `StreamingHost`: each of its steps is one of `Streaming` or leaves it alone
  (`HostImplementsStreaming`), so that what is proved of the one holds of the other. `TimeoutRestored` rests on
  `TimeoutInv`: a value saved by whoever is connecting is one the application chose, since only one at a
  time is between saving and restoring.
* `EventProcessorProofs`: type correctness, `PermitsAccounted`, `StoppedMeansDone`, `ExactlyOnePlace` and the refinement
  `ImplementsSink`, for any events, any number of workers, stoppers and failing submits, and any sizes of
  the inbox, the batches and the parts. The number of permits stays between 0 and the number of workers only because of
  `PermitsAccounted`, so the first two are proved together; the counting rests on the
  cardinality theorems of the library. The rest shares one invariant, `Inv`: the gate is closed by one thread only
  (`OneCloser`), so that there is one shutdown message and nothing behind it (`MarkerLast`); once the shutdown
  has begun inbox and batch carry no event, and when the rest is sent no worker has any (`EndInOrder`,
  `IdleHaveNothing`); and the places an event can wait in share no event, have each of theirs once, and together hold
  the pending ones and no others (`PlacesHoldPending`, `PlacesDisjoint`, `OncePerPlace`). `Inv` speaks of sets of events and so
  does not count; `ExactlyOnePlace` follows from it by counting once, at the end. The proofs assume
  `EventsAssumption`, which says that the dispatcher is none of the workers.
* `NoticeBroadcasterProofs`: type correctness, `NothingStranded`, `NobodySkipped` and `Knows`, for any flags, values and listeners. The
  first lemma shows that a step of `FlagTracker` is one of the broadcaster's or leaves the broadcaster
  alone; the first two theorems are about the broadcaster. Their strengthening is that the stop notice is in the queue only
  once, at its end and only when `closed` is up (`StopIsLast`), and that whoever is due is still
  in the thread's copy (`DueAreToCall`). `Knows` is about the tracker on top of it, and about listeners that are not in `missed`: those
  that were told of all that was announced. It needs that what a listener's function is
  being told is the flag's present value, or else a notice of a newer one is to come, or none will (`ToldOfPresent`).
  A change is on its way from the moment its item is stored (`StoredIsAwaited`). From there to the queue it can get lost with its
  message only, and then those it concerns are in `missed` (`MessageEnds`); an announcement takes them out again because it puts
  a notice for them into the queue (`AnnouncedIsAwaited`, `MissedStays`), and what is in the queue stays until the thread looks up
  its listeners (`NoticeStays`). `TypeOK` also bounds how often a
  callable is registered: `CopiesAppended` and `CopiesRemoved` say what `append` and `remove` do to the number of places a
  callable has in a list.
* `StatusTypesProofs`: lemmas about `AfterUpdate` that both of the first two use.
* `DataSyncProofs`: type correctness, `HighWater`, `NeverOlder`, `ReportedTruly`, with archiving, early pushes and
  storages that raise half-way. The invariant `IInv` adds that every item, stored or on its way, is a
  change the server made, and that a snapshot misses no change older than its newest: so one with a higher
  version than the store's cannot bring an item back. That maxima exist (`MaxOfBounded`) comes from
  `<` being well-founded on the naturals.
  The second part proves `ImplementsReplica`, `NothingMissed` and, without archiving, `EveryChangeAnnounced`. It assumes
  `Undisturbed`: no storage failure and no early push, as the run `sync` does. The invariant is that the
  messages on their way form a chain that leads from the client's copy to the server's data. Every message that arrives
  is then accepted as a whole: the branches of the handlers that refuse one are dead. `EveryChangeAnnounced` is about a
  flag and the segments its rules name (`Named`). What a listener sees when it is told is at least as new as each of
  these (`RecencyIsLatest`), since they are among all that the flag depends on. The property does not hold of
  all of them (section 6).

* `EvaluationProofs`: `AnswersMeaning` and `BulkIsWhole`, for any flags, segments, users, string operations and any number of
  messages stored during a call. The invariant is `EvalInv`. Its heart is `Progress`: at each step there is one moment of the
  call at which each rule before the present one neither matches nor raises (`Passed`) and all conditions before the present one
  hold (`SoFar`).
  A condition that is looked at now moves this moment to the present only if no other condition can tell the
  difference, which is what `OneMoment` shows: either the segments have not changed, or no other condition
  names any. From there the first rule that matches decides (`FirstRuleDecides`), or the condition that raises
  (`ErrDecides`), or the default (`DefaultDecides`). An answer is the meaning with an exception replaced by the caller's default
  (`Caught`). There is no result in two cases only: the default has nothing for the user, because its rollout has a gap or the percentage is 1.0
  (`NothingForUser`, `LeavesOut`), or the flag's data make the evaluation raise (`MayRaise`: a condition that raises for the user, or a
  variation missing from the map; `OffOrTargetedRaises`, `ServeRaises`). So a call for all flags fails on a flag of which this is true, and
  whose meaning was no result or an exception at one moment of the call (`FailsOn`), or before it has begun. The proofs assume that percentages are
  between 0 and 1 (`PercentageAssumption`) and that rules, conditions and targets are lists (`FlagsAssumption`). They take
  `Having` as given: how segments nest does not matter to them.
* `SingletonProofs`: type correctness, `StopIsThorough`, `SingletonServes`, `NoLeftovers`, and that the read-write lock is
  exclusive (`LockExcludes`). A thread is a stack of calls of any depth, so the invariant `IndInv` speaks of levels: what
  a call at some level may rely on is kept by whatever runs above it. `ParkedInv` says where
  a call with another on top of it can be. `ReadersInv` and `WriterInv` tie the lock to the one level that has it.
  `ShutInv` and `ToldInv` give each client whose shutdown is under way one owner and one level that goes through the
  parts; `BuildInv` says that nothing but the shutdown it has asked for is right above a `set_config` that replaces the client;
  `AskedInv` and `ServeInv` say who asked for a shutdown and why the singleton's client may be closed; `OrphanInv` and `EndedInv`
  account for whatever is still running; `MadeInv` says that nothing is known of a client before it is made, and `CountInv` that
  there are never more clients than calls. That the set of threads is finite is
  needed for the bound on the number of readers only.

TLC checks every property named here on the small instances of section 3, but for `InOrder` and `LockExcludes`,
which are proved only.

**Only model-checked:** the liveness properties (`EventuallyHeard`, `WaitersReturn`, `ShutdownEndsUnlessLeaked`,
`Converges`, `Resumes`, `StopEndsThreads`, `ThreadEnds`, `CatchesUp`, `EverybodyReturns`), since fairness and `ENABLED`
are out of the prover's reach; and what `Having` computes for segments that nest, which would be an induction over
its depth. `EvaluationProofs` compares an evaluation with `Meaning`, which uses `Having`, `ConditionHolds` and `Serve`
too: that those do what Python does is a matter of reading them beside the code.

## 6. Where the code and its documentation disagree

Shown by runs that are expected to fail:

* `event_submit_fails`: the permit is acquired before `submit` and not released when it raises
  (`event_processor.py:185`), as it does after interpreter shutdown has begun. `__shutdown` then waits for it
  without a timeout, against the comment at line 143.
* `sync_archive`: the placeholder of an archived item has no `cat` (`streaming.py:62`), which the
  broadcast reads (`streaming.py:269`). The `KeyError` is taken for a malformed message: OFF, for good.
* `streaming_overflow`: `2 ** retry_times` overflows at the 1025th retry, before the cap is applied
  (`exponential_backoff_jitter_strategy.py:35`); the handler in `run` calls it again and the thread dies,
  in state INTERRUPTED. The run uses the bound 1 for 1023. A constructor that waits for that thread is not what
  `GivesUpOnlyWhenOff` is about: it speaks of a thread that has left its loop.
* `evaluation_none`: no range contains the percentage 1.0 except the whole one, so that the evaluator
  returns `None` and `variation` raises `AttributeError` (`client.py:294`) instead of returning the default.
  The same happens to every user outside a rollout with gaps.

Behaviours the models have that no property forbids, because the code does not ensure the contrary:

* OFF is not terminal: a callback under way during `stop` reports after it (`streaming.py:225`, against
  `status_types.py:49`).
* `stop` leaves a new connection open, and the thread in it (`streaming.py:326`, against `client.py:167`), in two moments: it looks for
  `__wsapp` before one is made, or it finds one (`streaming.py:161`) that `run_forever` (`streaming.py:162`) has not started yet. The
  second close is lost, because `run_forever` begins by setting the flag that `close()` has reset. `StopEndsThreads` claims
  that the thread ends whenever `stop` found an app and this was not the moment.
* A refused message leaves the state at OK while the client reconnects (`streaming.py:308`, against
  `status_types.py:38`).
* A storage that raises in the middle of a patch loses the items after it: the version has passed
  them (`streaming.py:286`, against `status.py:45`); and the items before it are not announced
  (`streaming.py:290`, against `src/README.md:203`). `NothingMissed`, `Converges` and
  `EveryChangeAnnounced` are therefore checked without storage failures.
* A segment that a flag reaches only through another segment changes without a notice to the flag's listeners: the evaluator follows
  segments into segments (`evaluator.py:246-260`), the announcement only looks at the rules of flags (`streaming.py:250-263`), against
  `src/README.md:203` and `flag_change_notification.py:102-103`. `EveryChangeAnnounced` claims only what the announcement looks at: with
  all that the flag depends on (`Recency`) in place of `Named`, TLC finds it violated on the instance of `sync`.
* An event that cannot be serialised takes the rest of its payload with it (`event_processor.py:244`,
  against `client.py:418`). `ExactlyOnePlace` counts them as given up.
* A flag listener keeps an old value until the flag's next notice, if any, after each of these: it was registered after the change was
  announced (`flag_change_notification.py:47`); its function, or the evaluation in it, raised
  (`flag_change_notification.py:54`); the change was one of a segment the flag reaches only through another; the message failed
  half-way, so that what it had stored was not announced (`streaming.py:286-290`); the item came after an archived one, whose `KeyError` ended
  the broadcast (`streaming.py:269`), or was that one. These listeners are the ones in `missed`; `Knows` and `CatchesUp` say
  that there is no other way to be behind.
* A second caller of the event processor's `stop` returns before the first is done.
* `get`, called by a status listener while `set_config` stops the client, waits for the write lock that its own thread
  has (`__init__.py:63`). Two shutdowns whose listeners stop each other's client wait for each other (`client.py:186`).
* A constructor that raises in `set_config` leaves the process with the client that was stopped for it
  (`__init__.py:65`); one that raises anywhere leaves the threads it has started (`client.py:97`).
* A timeout that the application sets while a connection is being attempted is overwritten (`streaming.py:130`).
* A call for all flags fails as a whole, and returns none of them, when the evaluation of one raises or has no result (`client.py:337`,
  `client.py:344-347`): an invalid regular expression (`evaluator.py:241-244`), a variation that the flag's map lacks, or a
  default rollout that leaves the user out (`evaluation_none`). Calls for the other flags alone still answer.

## 7. What is abstracted

* Texts, JSON, HTTP and websocket framing, time stamps of states, logging.
* Real time: a timeout is a step that may happen at any moment; a delay is no step at all.
* Two changes with one time stamp: the model's server has none.
* The null implementations, which do nothing, and custom ones, except for a storage that raises.
* Retries of `http_client.py`: a request that was answered too late is sent again, so that the server may see events
  twice; `posted` counts hand-overs to the sender.
* Listeners of the status provider return; the SDK does not survive one that blocks.
* `BaseException`s of callbacks that are not `Exception`s.

## 8. Not modelled, and what is left

* `utils/http_client.py` and the sender: network I/O with bounded retries, without state that other parts read.
* The jitter of the backoff, and its restart at the maximal delay that no caller asks for: they change how long a
  wait takes, and there is no time in the models.
* `config.py`, `common_types.py`, `event_types.py`, `utils/__init__.py`: values, their validation and their formatting.
  What the models need of them (whether an event is sendable, the capacity of the inbox) is a constant.
* `update_processor.py`'s null and offline variants set `ready` and have no behaviour of their own.
* `scripts/resource_audit.py` and the tests are not part of the SDK.

Every safety property of a passing run is proved. Proofs that would be next: the parts of the liveness arguments that are
invariants (that a thread in `stop` always has somebody to wait for, that a queue with something in it has a thread that
will take it), and that an abstract client, open or closed, is what `ClientLifecycle` implements.

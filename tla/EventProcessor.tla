--------------------------- MODULE EventProcessor ---------------------------
(***************************************************************************)
(* DefaultEventProcessor, EventDispatcher and FlushPayloadRunner           *)
(* (fbclient/event_processor.py): application threads put events in a      *)
(* bounded inbox, one dispatcher thread moves them to a buffer and hands   *)
(* the buffer to a worker of a small pool when a flush arrives, and stop() *)
(* is to see everything out.                                               *)
(*                                                                         *)
(* Between two actions any thread may run.  An action is a critical        *)
(* section of the producer gate, one operation on the inbox, or one step   *)
(* of the dispatcher or of a worker between two such operations.           *)
(***************************************************************************)
EXTENDS Integers, FiniteSets, SequencesExt

CONSTANTS
  Events,         \* the events the application sends, each once
  Sendable,       \* those whose is_send_event is true
  Serializable,   \* those json.dumps accepts
  Workers,        \* threads of the flush pool; as many as there are permits
  Stoppers,       \* application threads that call stop
  InboxCapacity,  \* config.events_max_in_queue
  BatchSize,      \* __BATCH_SIZE: messages drained at a time
  PartSize,       \* __MAX_EVENT_SIZE_PER_REQUEST: events in a request
  MaxLeaks        \* bound: times ThreadPoolExecutor.submit raises

Dispatcher == "dispatcher"

ASSUME EventsAssumption ==
  /\ Sendable \subseteq Events
  /\ Serializable \subseteq Events
  /\ IsFiniteSet(Workers)
  /\ Dispatcher \notin Workers
  /\ InboxCapacity \in Nat \ {0}
  /\ BatchSize \in Nat \ {0}
  /\ PartSize \in Nat \ {0}
  /\ MaxLeaks \in Nat

VARIABLES
  closed,         \* DefaultEventProcessor.__closed: the producer gate
  inbox,          \* the messages in the Queue
  stopper,        \* stopper[s]: where s is in stop
  pc,             \* where the dispatcher is
  msgs,           \* messages of its batch, the one in hand first
  buffer,         \* __events_buffer_to_next_flush
  requested,      \* __shutdown_requested
  permits,        \* value of the semaphore __permits
  busy,           \* workers with a job
  payload,        \* payload[r]: events a worker, or the dispatcher, still has to send
  leaked,         \* history: permits taken for a submit that raised
  callbacks,      \* done callbacks that released their permit and will notify
  senderStopped,  \* sender.stop() was called
  completed,      \* the shutdown message was marked as completed
  offered,        \* history: events passed to send_event
  accepted,       \* history: those that entered the inbox
  posted,         \* history: posted[e]: times e was handed to sender.postJson
  dropped         \* history: accepted events that the dispatcher or a runner gave up

gateVars     == <<closed, offered, accepted>>
stopVars     == <<stopper, completed>>
poolVars     == <<permits, busy, leaked, callbacks>>
outVars      == <<payload, posted, dropped>>
dispatchVars == <<pc, msgs, buffer, requested, senderStopped>>
vars == <<gateVars, inbox, stopVars, poolVars, outVars, dispatchVars>>

Runners == Workers \cup {Dispatcher}

EventMessage(e) == [type |-> "EVENT", carries |-> {e}]
FlushMessage    == [type |-> "FLUSH", carries |-> {}]
ShutdownMessage == [type |-> "SHUTDOWN", carries |-> {}]

Message == {EventMessage(e) : e \in Events} \cup {FlushMessage, ShutdownMessage}

DispatcherPc == {"get", "drain", "process", "selfstop",
                 "await", "asleep", "final", "exit", "dead"}

StopperPc == {"out", "closing", "waiting", "returned", "early"}

TypeOK ==
  /\ closed \in BOOLEAN
  /\ inbox \in Seq(Message) /\ Len(inbox) <= InboxCapacity
  /\ stopper \in [Stoppers -> StopperPc]
  /\ pc \in DispatcherPc
  /\ msgs \in Seq(Message) /\ Len(msgs) <= BatchSize
  /\ buffer \in Seq(Events)
  /\ requested \in BOOLEAN
  /\ permits \in 0..Cardinality(Workers)
  /\ busy \in SUBSET Workers
  /\ payload \in [Runners -> Seq(Events)]
  /\ leaked \in 0..MaxLeaks
  /\ callbacks \in Nat
  /\ senderStopped \in BOOLEAN
  /\ completed \in BOOLEAN
  /\ offered \in SUBSET Events
  /\ accepted \in SUBSET offered
  /\ posted \in [Events -> Nat]
  /\ dropped \in SUBSET Events

Init ==
  /\ closed = FALSE
  /\ inbox = <<>>
  /\ stopper = [s \in Stoppers |-> "out"]
  /\ pc = "get"
  /\ msgs = <<>>
  /\ buffer = <<>>
  /\ requested = FALSE
  /\ permits = Cardinality(Workers)
  /\ busy = {}
  /\ leaked = 0
  /\ payload = [r \in Runners |-> <<>>]
  /\ callbacks = 0
  /\ senderStopped = FALSE
  /\ completed = FALSE
  /\ offered = {}
  /\ accepted = {}
  /\ posted = [e \in Events |-> 0]
  /\ dropped = {}

-----------------------------------------------------------------------------
(* The producer gate: send_event, flush *)

RoomForOneMore == Len(inbox) <= InboxCapacity    \* mutant of Room: off by one

Room == Len(inbox) < InboxCapacity

UngatedAdmits == Room    \* mutant of Admits: the gate is not looked at

Admits == ~closed /\ Room

SendEvent(e) ==
  /\ e \notin offered
  /\ offered' = offered \cup {e}
  /\ \/ /\ Admits
        /\ accepted' = accepted \cup {e}
        /\ inbox' = Append(inbox, EventMessage(e))
     \/ /\ ~Admits
        /\ UNCHANGED <<accepted, inbox>>
  /\ UNCHANGED <<closed, stopVars, poolVars, outVars, dispatchVars>>

(* Called by the application and, every interval, by the RepeatableTask.    *)
(* When the gate is closed or the inbox full it does nothing.               *)
Flush ==
  /\ Admits
  /\ inbox' = Append(inbox, FlushMessage)
  /\ UNCHANGED <<gateVars, stopVars, poolVars, outVars, dispatchVars>>

-----------------------------------------------------------------------------
(* stop, called by an application thread *)

CloseGate(s) ==
  /\ stopper[s] = "out"
  /\ closed' = TRUE
  /\ stopper' = [stopper EXCEPT ![s] = IF closed THEN "early" ELSE "closing"]
  /\ UNCHANGED <<offered, accepted, inbox, completed, poolVars, outVars,
                 dispatchVars>>

(* The flush task was stopped (its flush is now void, and the join bounded); *)
(* the marker waits for a place in the inbox.                                *)
PutShutdown(s) ==
  /\ stopper[s] = "closing"
  /\ Room
  /\ inbox' = Append(inbox, ShutdownMessage)
  /\ stopper' = [stopper EXCEPT ![s] = "waiting"]
  /\ UNCHANGED <<gateVars, completed, poolVars, outVars, dispatchVars>>

(* waitForComplete returns, and the join after it is bounded. *)
StopReturns(s) ==
  /\ stopper[s] = "waiting"
  /\ completed
  /\ stopper' = [stopper EXCEPT ![s] = "returned"]
  /\ UNCHANGED <<gateVars, inbox, completed, poolVars, outVars, dispatchVars>>

-----------------------------------------------------------------------------
(* EventDispatcher.run and __drain_inbox *)

TakeFirst ==
  /\ pc = "get"
  /\ inbox # <<>>
  /\ msgs' = <<Head(inbox)>>
  /\ inbox' = Tail(inbox)
  /\ pc' = "drain"
  /\ UNCHANGED <<gateVars, stopVars, poolVars, outVars, buffer, requested,
                 senderStopped>>

TakeMore ==
  /\ pc = "drain"
  /\ Len(msgs) < BatchSize
  /\ inbox # <<>>
  /\ msgs' = Append(msgs, Head(inbox))
  /\ inbox' = Tail(inbox)
  /\ UNCHANGED <<gateVars, stopVars, poolVars, outVars, pc, buffer, requested,
                 senderStopped>>

BatchTaken ==
  /\ pc = "drain"
  /\ Len(msgs) = BatchSize \/ inbox = <<>>
  /\ pc' = "process"
  /\ UNCHANGED <<gateVars, inbox, stopVars, poolVars, outVars, msgs, buffer,
                 requested, senderStopped>>

InHand(type) == pc = "process" /\ msgs # <<>> /\ Head(msgs).type = type

HeedRequestAtOnce == requested   \* mutant of Drained: what is in the inbox is left there

(* What must hold for a requested shutdown to begin. *)
Drained == requested /\ inbox = <<>>

(* After the last message of the batch. *)
BatchDone ==
  /\ pc = "process"
  /\ msgs = <<>>
  /\ pc' = IF Drained THEN "await" ELSE "get"
  /\ UNCHANGED <<gateVars, inbox, stopVars, poolVars, outVars, msgs, buffer,
                 requested, senderStopped>>

(* stop() called by code that the dispatcher thread runs while it handles    *)
(* an event: it closes the gate, waits a bounded time for the flush task ... *)
SelfStop ==
  /\ InHand("EVENT")
  /\ ~closed
  /\ closed' = TRUE
  /\ pc' = "selfstop"
  /\ UNCHANGED <<offered, accepted, inbox, stopVars, poolVars, outVars, msgs,
                 buffer, requested, senderStopped>>

(* ... and leaves the shutdown to its own loop. *)
RequestShutdown ==
  /\ pc = "selfstop"
  /\ requested' = TRUE
  /\ pc' = "process"
  /\ UNCHANGED <<gateVars, inbox, stopVars, poolVars, outVars, msgs, buffer,
                 senderStopped>>

(* __put_events_to_buffer *)
PutEventsToBuffer ==
  /\ InHand("EVENT")
  /\ \E e \in Head(msgs).carries :
       \/ /\ e \in Sendable
          /\ buffer' = Append(buffer, e)
          /\ UNCHANGED dropped
       \/ /\ e \notin Sendable
          /\ dropped' = dropped \cup {e}
          /\ UNCHANGED buffer
  /\ msgs' = Tail(msgs)
  /\ UNCHANGED <<gateVars, inbox, stopVars, poolVars, payload, posted, pc,
                 requested, senderStopped>>

-----------------------------------------------------------------------------
(* __trigger_flush *)

KeepBuffer == buffer    \* mutant of BufferAfterFlush: the buffer is not cleared

BufferAfterFlush == <<>>

PermitsKept == permits    \* mutant of PermitsAfterSubmit: none is taken

PermitsAfterSubmit == permits - 1

(* The buffer is empty, or no permit is left: it is kept for the next flush. *)
NoFlush ==
  /\ InHand("FLUSH")
  /\ buffer = <<>> \/ permits = 0
  /\ msgs' = Tail(msgs)
  /\ UNCHANGED <<gateVars, inbox, stopVars, poolVars, outVars, pc, buffer,
                 requested, senderStopped>>

Submit(w) ==
  /\ InHand("FLUSH")
  /\ buffer # <<>>
  /\ permits > 0
  /\ w \notin busy
  /\ permits' = PermitsAfterSubmit
  /\ busy' = busy \cup {w}
  /\ payload' = [payload EXCEPT ![w] = buffer]
  /\ buffer' = BufferAfterFlush
  /\ msgs' = Tail(msgs)
  /\ UNCHANGED <<gateVars, inbox, stopVars, leaked, callbacks, posted, dropped, pc,
                 requested, senderStopped>>

(* submit raises after the permit was taken; run logs it and goes on. *)
SubmitFails ==
  /\ InHand("FLUSH")
  /\ buffer # <<>>
  /\ permits > 0
  /\ leaked < MaxLeaks
  /\ leaked' = leaked + 1
  /\ permits' = permits - 1
  /\ msgs' = Tail(msgs)
  /\ UNCHANGED <<gateVars, inbox, stopVars, busy, callbacks, outVars, pc, buffer,
                 requested, senderStopped>>

-----------------------------------------------------------------------------
(* FlushPayloadRunner.run *)

Part(r) == SubSeq(payload[r], 1, IF Len(payload[r]) < PartSize
                                   THEN Len(payload[r]) ELSE PartSize)

RestOf(r) == SubSeq(payload[r], Len(Part(r)) + 1, Len(payload[r]))

(* An exception ends the run: the parts after the one that failed go too. *)
AfterFailure(r) == <<>>

SendPart(r) ==
  /\ payload[r] # <<>>
  /\ ToSet(Part(r)) \subseteq Serializable
  /\ posted' = [e \in Events |-> IF Contains(Part(r), e) THEN posted[e] + 1 ELSE posted[e]]
  /\ payload' = [payload EXCEPT ![r] = RestOf(r)]
  /\ UNCHANGED dropped

FailPart(r) ==
  /\ payload[r] # <<>>
  /\ ~ (ToSet(Part(r)) \subseteq Serializable)
  /\ dropped' = dropped \cup ToSet(payload[r])
  /\ payload' = [payload EXCEPT ![r] = AfterFailure(r)]
  /\ UNCHANGED posted

RunWorker(w) ==
  /\ w \in busy
  /\ SendPart(w) \/ FailPart(w)
  /\ UNCHANGED <<gateVars, inbox, stopVars, poolVars, dispatchVars>>

(* flush_payload_done: the permit first ... *)
ReleasePermit(w) ==
  /\ w \in busy
  /\ payload[w] = <<>>
  /\ busy' = busy \ {w}
  /\ permits' = permits + 1
  /\ callbacks' = callbacks + 1
  /\ UNCHANGED <<gateVars, inbox, stopVars, leaked, outVars, dispatchVars>>

NoNotify == pc    \* mutant of WokenPc: notify_all is forgotten

WokenPc == IF pc = "asleep" THEN "await" ELSE pc

(* ... then, under the lock, the news. *)
NotifyDispatcher ==
  /\ callbacks > 0
  /\ callbacks' = callbacks - 1
  /\ pc' = WokenPc
  /\ UNCHANGED <<gateVars, inbox, stopVars, permits, busy, leaked, outVars, msgs,
                 buffer, requested, senderStopped>>

-----------------------------------------------------------------------------
(* EventDispatcher.__shutdown *)

BeginShutdown ==
  /\ InHand("SHUTDOWN")
  /\ pc' = "await"
  /\ UNCHANGED <<gateVars, inbox, stopVars, poolVars, outVars, msgs, buffer,
                 requested, senderStopped>>

AllPermitsBack == permits = Cardinality(Workers)

NoFinalPayload == <<>>    \* mutant of FinalPayload: the rest is not sent

FinalPayload == buffer

(* One look at the semaphore, under the lock of the condition. *)
AwaitWorkers ==
  /\ pc = "await"
  /\ \/ /\ AllPermitsBack
        /\ pc' = "final"
        /\ payload' = [payload EXCEPT ![Dispatcher] = FinalPayload]
        /\ buffer' = <<>>
     \/ /\ ~AllPermitsBack
        /\ pc' = "asleep"
        /\ UNCHANGED <<payload, buffer>>
  /\ UNCHANGED <<gateVars, inbox, stopVars, poolVars, posted, dropped, msgs,
                 requested, senderStopped>>

FinalSend ==
  /\ pc = "final"
  /\ SendPart(Dispatcher) \/ FailPart(Dispatcher)
  /\ UNCHANGED <<gateVars, inbox, stopVars, poolVars, dispatchVars>>

(* The pool is shut down, which waits for its threads; then the sender. *)
StopSender ==
  /\ pc = "final"
  /\ payload[Dispatcher] = <<>>
  /\ busy = {} /\ callbacks = 0
  /\ senderStopped' = TRUE
  /\ pc' = "exit"
  /\ UNCHANGED <<gateVars, inbox, stopVars, poolVars, outVars, msgs, buffer,
                 requested>>

(* The shutdown message, if that is what began it, is marked as completed. *)
Exit ==
  /\ pc = "exit"
  /\ completed' = (completed \/ msgs # <<>>)
  /\ pc' = "dead"
  /\ UNCHANGED <<gateVars, inbox, stopper, poolVars, outVars, msgs, buffer,
                 requested, senderStopped>>

-----------------------------------------------------------------------------

Dispatch ==
  \/ TakeFirst \/ TakeMore \/ BatchTaken \/ BatchDone
  \/ RequestShutdown
  \/ PutEventsToBuffer
  \/ NoFlush \/ (\E w \in Workers : Submit(w)) \/ SubmitFails
  \/ BeginShutdown \/ AwaitWorkers \/ FinalSend \/ StopSender \/ Exit

Work(w) == RunWorker(w) \/ ReleasePermit(w)

(* Everything is over: the dispatcher is dead and nobody can call any more. *)
Terminated ==
  /\ pc = "dead"
  /\ offered = Events
  /\ \A s \in Stoppers : stopper[s] \in {"returned", "early"}
  /\ UNCHANGED vars

Next ==
  \/ \E e \in Events : SendEvent(e)
  \/ Flush
  \/ \E s \in Stoppers : CloseGate(s) \/ PutShutdown(s) \/ StopReturns(s)
  \/ SelfStop
  \/ Dispatch
  \/ \E w \in Workers : Work(w)
  \/ NotifyDispatcher
  \/ Terminated

Spec == Init /\ [][Next]_vars

(* Started threads run, and a request to the server returns (it has a        *)
(* timeout and bounded retries).  Nobody is obliged to send, flush or stop.  *)
Fairness ==
  /\ WF_vars(Dispatch)
  /\ \A w \in Workers : WF_vars(Work(w))
  /\ WF_vars(NotifyDispatcher)
  /\ \A s \in Stoppers : WF_vars(PutShutdown(s)) /\ WF_vars(StopReturns(s))

FairSpec == Spec /\ Fairness

-----------------------------------------------------------------------------
(* Properties *)

(* How often e occurs between acceptance and its end, the end included.      *)
Copies(e) ==
  LET at(q) == {i \in 1..Len(q) : q[i] = e}
      by(q) == {i \in 1..Len(q) : e \in q[i].carries}
      out   == UNION {{<<r, i>> : i \in at(payload[r])} : r \in Runners}
  IN  Cardinality(by(inbox)) + Cardinality(by(msgs)) + Cardinality(at(buffer))
        + Cardinality(out) + posted[e] + (IF e \in dropped THEN 1 ELSE 0)

(* An accepted event is in exactly one place at any time: the inbox, the     *)
(* batch, the buffer, one payload, the hands of the sender, or given up.     *)
(* None is lost or sent twice, by whatever flushes, failures and shutdowns.  *)
ExactlyOnePlace ==
  \A e \in Events : Copies(e) = IF e \in accepted THEN 1 ELSE 0

(* Every permit is in the semaphore, with a busy worker, or lost to a failed *)
(* submit.                                                                   *)
PermitsAccounted ==
  permits + Cardinality(busy) + leaked = Cardinality(Workers)

Pending == {e \in accepted : posted[e] = 0 /\ e \notin dropped}

(* Once the sender is stopped nothing is left to be sent: no worker, no      *)
(* buffer and no inbox holds an event.  And when stop returns to the thread  *)
(* that closed the gate, the sender is stopped.                              *)
StoppedMeansDone ==
  /\ senderStopped => busy = {} /\ Pending = {} /\ inbox = <<>>
  /\ \A s \in Stoppers : stopper[s] = "returned" => senderStopped

(* The processor implements the abstract sink. *)
Sink == INSTANCE EventSink WITH
  open      <- ~closed,
  pending   <- Pending,
  delivered <- {e \in Events : posted[e] > 0},
  givenUp   <- dropped,
  finished  <- senderStopped

ImplementsSink == Sink!Spec

Back(s) == stopper[s] \in {"returned", "early"}

(* A call of stop returns ...                                                *)
StopAlwaysReturns == \A s \in Stoppers : stopper[s] # "out" ~> Back(s)

(* ... and once the gate is closed, by whichever thread, the dispatcher      *)
(* ends, as long as no permit is lost.                                       *)
ShutdownEndsUnlessLeaked ==
  /\ \A s \in Stoppers : stopper[s] # "out" ~> Back(s) \/ leaked > 0
  /\ closed ~> pc = "dead" \/ leaked > 0

=============================================================================

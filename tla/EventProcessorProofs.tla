------------------------ MODULE EventProcessorProofs ------------------------
(***************************************************************************)
(* Proofs about EventProcessor, for any events, any number of workers and  *)
(* of failing submits, and any sizes of the inbox, the batches and the     *)
(* parts.                                                                  *)
(*                                                                         *)
(* Type correctness and the accounting of permits are proved together:     *)
(* that the semaphore never exceeds the number of workers is a fact about  *)
(* the permits that are out.  Where the events are is then followed        *)
(* through the queues: the places an event can wait in share no event, and *)
(* together they hold exactly the pending ones.                            *)
(***************************************************************************)
EXTENDS EventProcessor, SequenceTheorems, FiniteSetTheorems, TLAPS

LEMMA WorkersCounted == IsFiniteSet(Workers) /\ Cardinality(Workers) \in Nat
BY EventsAssumption, FS_CardinalityType

LEMMA BusyCounted ==
  ASSUME NEW some \in SUBSET Workers
  PROVE  IsFiniteSet(some) /\ Cardinality(some) \in 0..Cardinality(Workers)
<1>1. IsFiniteSet(some) /\ Cardinality(some) <= Cardinality(Workers)
  BY WorkersCounted, FS_Subset
<1> QED BY <1>1, WorkersCounted, FS_CardinalityType

(* What the messages in the inbox carry are events. *)
LEMMA MessageTypes ==
  /\ FlushMessage \in Message /\ ShutdownMessage \in Message
  /\ \A e \in Events : EventMessage(e) \in Message
  /\ \A m \in Message : m.carries \subseteq Events
<1>1. FlushMessage \in Message /\ ShutdownMessage \in Message
  BY DEF Message
<1>2. \A e \in Events : EventMessage(e) \in Message /\ EventMessage(e).carries = {e}
  BY DEF Message, EventMessage
<1>3. FlushMessage.carries = {} /\ ShutdownMessage.carries = {}
  BY DEF FlushMessage, ShutdownMessage
<1>4. ASSUME NEW m \in Message PROVE m.carries \subseteq Events
  BY <1>2, <1>3 DEF Message
<1> QED BY <1>1, <1>2, <1>4

(* A runner's payload stays a sequence of events.                            *)
LEMMA PayloadTypes ==
  ASSUME TypeOK, NEW r \in Runners
  PROVE  /\ RestOf(r) \in Seq(Events)
         /\ ToSet(payload[r]) \subseteq Events
<1>1. payload[r] \in Seq(Events)
  BY DEF TypeOK
<1>2. \A i \in 1..Len(payload[r]) : payload[r][i] \in Events
  BY <1>1, ElementOfSeq
<1>3. Len(payload[r]) \in Nat /\ PartSize \in Nat
  BY <1>1, LenProperties, EventsAssumption
<1>4. Len(Part(r)) \in Nat
  <2> DEFINE n == IF Len(payload[r]) < PartSize THEN Len(payload[r]) ELSE PartSize
  <2>1. n \in Nat /\ n <= Len(payload[r])
    BY <1>3
  <2>2. \A i \in 1..n : payload[r][i] \in Events
    BY <1>2, <1>3, <2>1
  <2>3. SubSeq(payload[r], 1, n) \in Seq(Events)
    BY <2>1, <2>2, SubSeqProperties
  <2> QED BY <2>3, LenProperties DEF Part
<1>5. RestOf(r) \in Seq(Events)
  <2>1. Len(Part(r)) + 1 \in Int /\ Len(payload[r]) \in Int
    BY <1>3, <1>4
  <2>2. \A i \in (Len(Part(r)) + 1)..Len(payload[r]) : payload[r][i] \in Events
    BY <1>2, <1>3, <1>4
  <2> QED BY <2>1, <2>2, SubSeqProperties DEF RestOf
<1>6. ToSet(payload[r]) \subseteq Events
  BY <1>1, <1>2 DEF ToSet
<1> QED BY <1>5, <1>6

(* What the dispatcher or a worker makes of the next part of its payload.    *)
LEMMA PartDoneTypes ==
  ASSUME TypeOK, NEW r \in Runners, SendPart(r) \/ FailPart(r)
  PROVE  /\ payload' \in [Runners -> Seq(Events)]
         /\ posted' \in [Events -> Nat]
         /\ dropped' \in SUBSET Events
<1>1. CASE SendPart(r)
  <2>1. payload' \in [Runners -> Seq(Events)]
    BY <1>1, PayloadTypes DEF TypeOK, SendPart
  <2>2. posted' \in [Events -> Nat]
    BY <1>1 DEF TypeOK, SendPart
  <2> QED BY <1>1, <2>1, <2>2 DEF TypeOK, SendPart
<1>2. CASE FailPart(r)
  <2>1. payload' \in [Runners -> Seq(Events)]
    BY <1>2, EmptySeq DEF TypeOK, FailPart, AfterFailure
  <2> QED BY <1>2, <2>1, PayloadTypes DEF TypeOK, FailPart
<1> QED BY <1>1, <1>2

-----------------------------------------------------------------------------
(* The accounting *)

LEMMA InitAccounted == Init => PermitsAccounted
BY WorkersCounted, FS_EmptySet DEF Init, PermitsAccounted

LEMMA SubmitAccounted ==
  ASSUME TypeOK, PermitsAccounted, NEW w \in Workers, Submit(w)
  PROVE  PermitsAccounted'
<1>1. Cardinality(busy \cup {w}) = Cardinality(busy) + 1
  BY BusyCounted, FS_AddElement DEF TypeOK, Submit
<1>2. permits' = permits - 1 /\ busy' = busy \cup {w} /\ leaked' = leaked
  BY DEF Submit, PermitsAfterSubmit
<1>3. permits \in Nat /\ leaked \in Nat /\ Cardinality(busy) \in Nat
  BY BusyCounted, WorkersCounted, EventsAssumption DEF TypeOK
<1> QED BY <1>1, <1>2, <1>3 DEF PermitsAccounted

LEMMA ReleaseAccounted ==
  ASSUME TypeOK, PermitsAccounted, NEW w \in Workers, ReleasePermit(w)
  PROVE  PermitsAccounted'
<1>1. Cardinality(busy \ {w}) = Cardinality(busy) - 1
  BY BusyCounted, FS_RemoveElement DEF TypeOK, ReleasePermit
<1>2. permits' = permits + 1 /\ busy' = busy \ {w} /\ leaked' = leaked
  BY DEF ReleasePermit
<1>3. permits \in Nat /\ leaked \in Nat /\ Cardinality(busy) \in Nat
  BY BusyCounted, WorkersCounted, EventsAssumption DEF TypeOK
<1> QED BY <1>1, <1>2, <1>3 DEF PermitsAccounted

LEMMA LeakAccounted ==
  ASSUME TypeOK, PermitsAccounted, SubmitFails
  PROVE  PermitsAccounted'
<1>1. permits' = permits - 1 /\ busy' = busy /\ leaked' = leaked + 1
  BY DEF SubmitFails
<1>2. permits \in Nat /\ leaked \in Nat /\ Cardinality(busy) \in Nat
  BY BusyCounted, WorkersCounted, EventsAssumption DEF TypeOK
<1> QED BY <1>1, <1>2 DEF PermitsAccounted

-----------------------------------------------------------------------------
(* Type correctness *)

LEMMA InitType == Init => TypeOK
<1> SUFFICES ASSUME Init PROVE TypeOK
  OBVIOUS
<1>1. <<>> \in Seq(Message) /\ <<>> \in Seq(Events) /\ Len(<<>>) = 0
  BY EmptySeq
<1>2. InboxCapacity \in Nat /\ BatchSize \in Nat /\ 0 \in 0..MaxLeaks
  BY EventsAssumption
<1>3. permits \in 0..Cardinality(Workers)
  BY WorkersCounted DEF Init
<1>4. payload \in [Runners -> Seq(Events)] /\ posted \in [Events -> Nat]
  BY <1>1 DEF Init
<1>5. stopper \in [Stoppers -> StopperPc] /\ pc \in DispatcherPc
  BY DEF Init, StopperPc, DispatcherPc
<1>6. inbox \in Seq(Message) /\ Len(inbox) <= InboxCapacity
        /\ msgs \in Seq(Message) /\ Len(msgs) <= BatchSize
  BY <1>1, <1>2 DEF Init
<1> QED BY <1>1, <1>2, <1>3, <1>4, <1>5, <1>6 DEF Init, TypeOK

(* A message more, when there is room.                                       *)
LEMMA PutType ==
  ASSUME TypeOK, Room, NEW m \in Message
  PROVE  /\ Append(inbox, m) \in Seq(Message)
         /\ Len(Append(inbox, m)) <= InboxCapacity
<1>1. inbox \in Seq(Message) /\ Len(inbox) \in Nat /\ InboxCapacity \in Nat
  BY LenProperties, EventsAssumption DEF TypeOK
<1> QED BY <1>1, AppendProperties DEF Room

(* A message less.                                                           *)
LEMMA TakeType ==
  ASSUME NEW q \in Seq(Message), q # <<>>, NEW n \in Nat, Len(q) <= n
  PROVE  /\ Head(q) \in Message
         /\ Tail(q) \in Seq(Message)
         /\ Len(Tail(q)) <= n
<1>1. Len(q) \in Nat
  BY LenProperties
<1> QED BY <1>1, HeadTailProperties

LEMMA NextMessageType ==
  ASSUME TypeOK, msgs # <<>>
  PROVE  /\ Head(msgs) \in Message
         /\ Tail(msgs) \in Seq(Message)
         /\ Len(Tail(msgs)) <= BatchSize
BY TakeType, EventsAssumption DEF TypeOK

LEMMA NextInInboxType ==
  ASSUME TypeOK, inbox # <<>>
  PROVE  /\ Head(inbox) \in Message
         /\ Tail(inbox) \in Seq(Message)
         /\ Len(Tail(inbox)) <= InboxCapacity
BY TakeType, EventsAssumption DEF TypeOK

LEMMA StepType ==
  ASSUME TypeOK, PermitsAccounted, PermitsAccounted', [Next]_vars
  PROVE  TypeOK'
<1> USE DEF gateVars, stopVars, poolVars, outVars, dispatchVars
<1>1. ASSUME NEW e \in Events, SendEvent(e) PROVE TypeOK'
  <2>1. inbox' \in Seq(Message) /\ Len(inbox') <= InboxCapacity
    BY <1>1, PutType, MessageTypes DEF TypeOK, SendEvent, Admits
  <2>2. offered' \in SUBSET Events /\ accepted' \in SUBSET offered'
    BY <1>1 DEF TypeOK, SendEvent
  <2> QED BY <1>1, <2>1, <2>2 DEF TypeOK, SendEvent
<1>2. CASE Flush
  <2>1. inbox' \in Seq(Message) /\ Len(inbox') <= InboxCapacity
    BY <1>2, PutType, MessageTypes DEF Flush, Admits
  <2> QED BY <1>2, <2>1 DEF TypeOK, Flush
<1>3. ASSUME NEW s \in Stoppers, CloseGate(s) PROVE TypeOK'
  <2>1. stopper' \in [Stoppers -> StopperPc] /\ closed' \in BOOLEAN
    BY <1>3 DEF TypeOK, CloseGate, StopperPc
  <2> QED BY <1>3, <2>1 DEF TypeOK, CloseGate
<1>4. ASSUME NEW s \in Stoppers, PutShutdown(s) PROVE TypeOK'
  <2>1. stopper' \in [Stoppers -> StopperPc]
    BY <1>4 DEF TypeOK, PutShutdown, StopperPc
  <2>2. inbox' \in Seq(Message) /\ Len(inbox') <= InboxCapacity
    BY <1>4, PutType, MessageTypes DEF PutShutdown
  <2> QED BY <1>4, <2>1, <2>2 DEF TypeOK, PutShutdown
<1>5. ASSUME NEW s \in Stoppers, StopReturns(s) PROVE TypeOK'
  <2>1. stopper' \in [Stoppers -> StopperPc]
    BY <1>5 DEF TypeOK, StopReturns, StopperPc
  <2> QED BY <1>5, <2>1 DEF TypeOK, StopReturns
<1>6. CASE SelfStop
  <2>1. pc' \in DispatcherPc /\ closed' \in BOOLEAN
    BY <1>6 DEF SelfStop, DispatcherPc
  <2> QED BY <1>6, <2>1 DEF TypeOK, SelfStop
<1>7. CASE TakeFirst
  <2>1. msgs' \in Seq(Message) /\ Len(msgs') = 1
    BY <1>7, NextInInboxType DEF TakeFirst
  <2>2. Len(msgs') <= BatchSize
    BY <2>1, EventsAssumption
  <2>3. inbox' \in Seq(Message) /\ Len(inbox') <= InboxCapacity
    BY <1>7, NextInInboxType DEF TakeFirst
  <2>4. pc' \in DispatcherPc
    BY <1>7 DEF TakeFirst, DispatcherPc
  <2> QED BY <1>7, <2>1, <2>2, <2>3, <2>4 DEF TypeOK, TakeFirst
<1>8. CASE TakeMore
  <2>1. msgs \in Seq(Message) /\ Len(msgs) \in Nat /\ Head(inbox) \in Message
    BY <1>8, NextInInboxType, LenProperties DEF TypeOK, TakeMore
  <2>2. msgs' \in Seq(Message) /\ Len(msgs') <= BatchSize
    BY <1>8, <2>1, AppendProperties, EventsAssumption DEF TakeMore
  <2>3. inbox' \in Seq(Message) /\ Len(inbox') <= InboxCapacity
    BY <1>8, NextInInboxType DEF TakeMore
  <2> QED BY <1>8, <2>2, <2>3 DEF TypeOK, TakeMore
<1>9. CASE BatchTaken
  BY <1>9 DEF TypeOK, BatchTaken, DispatcherPc
<1>10. CASE BatchDone
  <2>1. pc' \in DispatcherPc
    BY <1>10 DEF BatchDone, DispatcherPc
  <2> QED BY <1>10, <2>1 DEF TypeOK, BatchDone
<1>11. CASE RequestShutdown
  BY <1>11 DEF TypeOK, RequestShutdown, DispatcherPc
<1>12. CASE PutEventsToBuffer
  <2>1. msgs' \in Seq(Message) /\ Len(msgs') <= BatchSize
    BY <1>12, NextMessageType DEF PutEventsToBuffer, InHand
  <2>2. PICK e \in Head(msgs).carries :
          \/ buffer' = Append(buffer, e) /\ dropped' = dropped
          \/ dropped' = dropped \cup {e} /\ buffer' = buffer
    BY <1>12 DEF PutEventsToBuffer
  <2>3. e \in Events
    BY <1>12, <2>2, NextMessageType, MessageTypes DEF PutEventsToBuffer, InHand
  <2>4. buffer' \in Seq(Events) /\ dropped' \in SUBSET Events
    <3>1. CASE buffer' = Append(buffer, e) /\ dropped' = dropped
      <4>1. buffer \in Seq(Events)
        BY DEF TypeOK
      <4>2. Append(buffer, e) \in Seq(Events)
        BY <4>1, <2>3, AppendProperties
      <4>3. dropped \in SUBSET Events
        BY DEF TypeOK
      <4> QED BY <3>1, <4>2, <4>3
    <3>2. CASE dropped' = dropped \cup {e} /\ buffer' = buffer
      BY <3>2, <2>3 DEF TypeOK
    <3> QED BY <2>2, <3>1, <3>2
  <2> QED BY <1>12, <2>1, <2>4 DEF TypeOK, PutEventsToBuffer
<1>13. CASE NoFlush
  BY <1>13, NextMessageType DEF TypeOK, NoFlush, InHand
<1>14. ASSUME NEW w \in Workers, Submit(w) PROVE TypeOK'
  <2>1. msgs' \in Seq(Message) /\ Len(msgs') <= BatchSize
    BY <1>14, NextMessageType DEF Submit, InHand
  <2>2. payload' \in [Runners -> Seq(Events)] /\ buffer' \in Seq(Events)
    BY <1>14, EmptySeq DEF TypeOK, Submit, BufferAfterFlush
  <2>3. busy' \in SUBSET Workers
    BY <1>14 DEF TypeOK, Submit
  <2>4. permits' \in 0..Cardinality(Workers)
    BY <1>14, WorkersCounted DEF TypeOK, Submit, PermitsAfterSubmit
  <2> QED BY <1>14, <2>1, <2>2, <2>3, <2>4 DEF TypeOK, Submit
<1>15. CASE SubmitFails
  <2>1. msgs' \in Seq(Message) /\ Len(msgs') <= BatchSize
    BY <1>15, NextMessageType DEF SubmitFails, InHand
  <2>2. permits' \in 0..Cardinality(Workers) /\ leaked' \in 0..MaxLeaks
    BY <1>15, WorkersCounted, EventsAssumption DEF TypeOK, SubmitFails
  <2> QED BY <1>15, <2>1, <2>2 DEF TypeOK, SubmitFails
<1>16. ASSUME NEW w \in Workers, RunWorker(w) PROVE TypeOK'
  <2>1. /\ payload' \in [Runners -> Seq(Events)]
        /\ posted' \in [Events -> Nat]
        /\ dropped' \in SUBSET Events
    BY <1>16, PartDoneTypes DEF RunWorker, Runners
  <2> QED BY <1>16, <2>1 DEF TypeOK, RunWorker
<1>17. ASSUME NEW w \in Workers, ReleasePermit(w) PROVE TypeOK'
  <2>1. busy' \in SUBSET Workers /\ callbacks' \in Nat /\ leaked' \in Nat
    BY <1>17, EventsAssumption DEF TypeOK, ReleasePermit
  <2>2. permits' \in Nat
    BY <1>17, WorkersCounted DEF TypeOK, ReleasePermit
  <2>3. permits' \in 0..Cardinality(Workers)
    <3>1. Cardinality(busy') \in Nat
      BY <2>1, BusyCounted
    <3> QED BY <2>1, <2>2, <3>1, WorkersCounted DEF PermitsAccounted
  <2> QED BY <1>17, <2>1, <2>3 DEF TypeOK, ReleasePermit
<1>18. CASE NotifyDispatcher
  <2>1. pc' \in DispatcherPc /\ callbacks' \in Nat
    BY <1>18 DEF TypeOK, NotifyDispatcher, WokenPc, DispatcherPc
  <2> QED BY <1>18, <2>1 DEF TypeOK, NotifyDispatcher
<1>19. CASE BeginShutdown
  BY <1>19 DEF TypeOK, BeginShutdown, DispatcherPc
<1>20. CASE AwaitWorkers
  <2>1. payload' \in [Runners -> Seq(Events)] /\ buffer' \in Seq(Events)
    BY <1>20, EmptySeq DEF TypeOK, AwaitWorkers, FinalPayload
  <2>2. pc' \in DispatcherPc
    BY <1>20 DEF AwaitWorkers, DispatcherPc
  <2> QED BY <1>20, <2>1, <2>2 DEF TypeOK, AwaitWorkers
<1>21. CASE FinalSend
  <2>1. /\ payload' \in [Runners -> Seq(Events)]
        /\ posted' \in [Events -> Nat]
        /\ dropped' \in SUBSET Events
    BY <1>21, PartDoneTypes DEF FinalSend, Runners
  <2> QED BY <1>21, <2>1 DEF TypeOK, FinalSend
<1>22. CASE StopSender
  BY <1>22 DEF TypeOK, StopSender, DispatcherPc
<1>23. CASE Exit
  <2>1. completed' \in BOOLEAN /\ pc' \in DispatcherPc
    BY <1>23 DEF TypeOK, Exit, DispatcherPc
  <2> QED BY <1>23, <2>1 DEF TypeOK, Exit
<1>24. CASE UNCHANGED vars
  BY <1>24 DEF TypeOK, vars
<1> QED
  BY <1>1, <1>2, <1>3, <1>4, <1>5, <1>6, <1>7, <1>8, <1>9, <1>10, <1>11, <1>12,
     <1>13, <1>14, <1>15, <1>16, <1>17, <1>18, <1>19, <1>20, <1>21, <1>22, <1>23,
     <1>24
  DEF Next, Dispatch, Work, Terminated

-----------------------------------------------------------------------------

LEMMA StepAccounted ==
  ASSUME TypeOK, PermitsAccounted, [Next]_vars
  PROVE  PermitsAccounted'
<1>1. CASE UNCHANGED <<permits, busy, leaked>>
  BY <1>1 DEF PermitsAccounted
<1>2. ASSUME NEW w \in Workers, Submit(w) PROVE PermitsAccounted'
  BY <1>2, SubmitAccounted
<1>3. ASSUME NEW w \in Workers, ReleasePermit(w) PROVE PermitsAccounted'
  BY <1>3, ReleaseAccounted
<1>4. CASE SubmitFails
  BY <1>4, LeakAccounted
<1>5. \/ UNCHANGED <<permits, busy, leaked>>
      \/ SubmitFails
      \/ \E w \in Workers : Submit(w) \/ ReleasePermit(w)
  BY DEF Next, Dispatch, Work, Terminated, SendEvent, Flush, CloseGate, PutShutdown,
     StopReturns, SelfStop, TakeFirst, TakeMore, BatchTaken, BatchDone,
     RequestShutdown, PutEventsToBuffer, NoFlush, BeginShutdown, AwaitWorkers,
     FinalSend, StopSender, Exit, RunWorker, NotifyDispatcher, vars, poolVars
<1> QED BY <1>1, <1>2, <1>3, <1>4, <1>5

LEMMA Accounting == Spec => [](TypeOK /\ PermitsAccounted)
<1>1. Init => TypeOK /\ PermitsAccounted
  BY InitType, InitAccounted
<1>2. TypeOK /\ PermitsAccounted /\ [Next]_vars => (TypeOK /\ PermitsAccounted)'
  BY StepAccounted, StepType
<1> QED BY <1>1, <1>2, PTL DEF Spec

(* The inbox, the batch, the buffer, the pool and the payloads keep their    *)
(* types and bounds, for any number of threads and sizes of the queues.      *)
THEOREM Typing == Spec => []TypeOK
<1> QED BY Accounting, PTL

(* Every permit of the flush pool is in the semaphore, with a busy worker or *)
(* lost to a submit that raised: there is no other way to lose one.          *)
THEOREM PermitsAddUp == Spec => []PermitsAccounted
<1> QED BY Accounting, PTL

-----------------------------------------------------------------------------
(* The events the messages of a queue carry, and that no two carry the same. *)
Carried(q) == UNION {q[i].carries : i \in 1..Len(q)}
Apart(q) == \A i, j \in 1..Len(q) : i # j => q[i].carries \cap q[j].carries = {}

OnceIn(s) == \A i, j \in 1..Len(s) : s[i] = s[j] => i = j

(* Stoppers that closed the gate themselves. *)
Closing == {"closing", "waiting", "returned"}

(* The gate is closed by one thread only, and for good. *)
OneCloser ==
  /\ \A s \in Stoppers : stopper[s] \in Closing => closed
  /\ \A s, t \in Stoppers : stopper[s] \in Closing /\ stopper[t] \in Closing => s = t
  /\ pc = "selfstop" \/ requested => closed /\ \A s \in Stoppers : stopper[s] \notin Closing

(* So nothing comes after the shutdown message. *)
SomeoneWaits == \E s \in Stoppers : stopper[s] \in {"waiting", "returned"}

HasMarker(q) == \E i \in 1..Len(q) : q[i].type = "SHUTDOWN"
OnlyLast(q) == \A i \in 1..Len(q) : q[i].type = "SHUTDOWN" => i = Len(q)

MarkerLast ==
  /\ OnlyLast(inbox) /\ OnlyLast(msgs)
  /\ HasMarker(inbox) \/ HasMarker(msgs) => SomeoneWaits
  /\ HasMarker(msgs) => inbox = <<>>

(* A shutdown that has begun finds no more events in the inbox or the batch, *)
(* and no worker or buffer has any when the dispatcher sends the rest.       *)
ShuttingDown == {"await", "asleep", "final", "exit", "dead"}

EndInOrder ==
  /\ pc \in ShuttingDown =>
       /\ closed /\ inbox = <<>> /\ Carried(msgs) = {}
       /\ \A s \in Stoppers : stopper[s] # "closing"
  /\ pc \in {"final", "exit", "dead"} => busy = {} /\ buffer = <<>>
  /\ senderStopped <=> pc \in {"exit", "dead"}
  /\ completed => senderStopped
  /\ \A s \in Stoppers : stopper[s] = "returned" => completed
  /\ pc = "get" => msgs = <<>>

(* Who is not sending has no payload. *)
IdleHaveNothing ==
  /\ \A w \in Workers : w \notin busy => payload[w] = <<>>
  /\ pc # "final" => payload[Dispatcher] = <<>>

InPayloads == UNION {ToSet(payload[r]) : r \in Runners}

(* The places where an event waits: they hold the pending events, each once. *)
PlacesHoldPending ==
  Pending = Carried(inbox) \cup Carried(msgs) \cup ToSet(buffer) \cup InPayloads

PlacesDisjoint ==
  /\ Carried(inbox) \cap Carried(msgs) = {}
  /\ (Carried(inbox) \cup Carried(msgs)) \cap ToSet(buffer) = {}
  /\ (Carried(inbox) \cup Carried(msgs) \cup ToSet(buffer)) \cap InPayloads = {}
  /\ \A r, q \in Runners : r # q => ToSet(payload[r]) \cap ToSet(payload[q]) = {}

OncePerPlace ==
  /\ Apart(inbox) /\ Apart(msgs) /\ OnceIn(buffer)
  /\ \A r \in Runners : OnceIn(payload[r])

(* What left a place was accepted, and was sent once or given up. *)
Settled ==
  /\ dropped \subseteq accepted
  /\ \A e \in Events : posted[e] \in {0, 1}
  /\ \A e \in Events : posted[e] = 1 => e \in accepted /\ e \notin dropped

-----------------------------------------------------------------------------

(* Queues of messages *)

LEMMA CarriedNone == Carried(<<>>) = {} /\ Apart(<<>>)
<1>1. Len(<<>>) = 0
  BY EmptySeq
<1> QED BY <1>1 DEF Carried, Apart

LEMMA CarriedOne ==
  ASSUME NEW m \in Message
  PROVE  Carried(<<m>>) = m.carries /\ Apart(<<m>>)
<1>1. Len(<<m>>) = 1 /\ <<m>>[1] = m
  OBVIOUS
<1>2. 1..Len(<<m>>) = {1}
  BY <1>1
<1> QED BY <1>1, <1>2 DEF Carried, Apart

LEMMA CarriedAppend ==
  ASSUME NEW q \in Seq(Message), NEW m \in Message
  PROVE  /\ Carried(Append(q, m)) = Carried(q) \cup m.carries
         /\ Apart(q) /\ Carried(q) \cap m.carries = {} => Apart(Append(q, m))
<1> DEFINE n == Len(q)
           a == Append(q, m)
<1>1. n \in Nat
  BY LenProperties
<1>2. Len(a) = n + 1 /\ a[n + 1] = m /\ \A i \in 1..n : a[i] = q[i]
  BY AppendProperties
<1>3. 1..Len(a) = 1..n \cup {n + 1}
  BY <1>1, <1>2
<1> HIDE DEF n, a
<1>4. \A e : e \in Carried(a) <=> e \in Carried(q) \/ e \in m.carries
  <2>1. \A e : e \in Carried(a) <=> \E i \in 1..n \cup {n + 1} : e \in a[i].carries
    BY <1>3 DEF Carried
  <2>2. \A e : e \in Carried(q) <=> \E i \in 1..n : e \in q[i].carries
    BY DEF Carried, n
  <2> QED BY <1>2, <2>1, <2>2
<1>5. ASSUME Apart(q), Carried(q) \cap m.carries = {}
      PROVE  Apart(a)
  <2>1. \A i \in 1..n : q[i].carries \cap m.carries = {}
    BY <1>5 DEF Carried, n
  <2>2. ASSUME NEW i \in 1..n \cup {n + 1}, NEW j \in 1..n \cup {n + 1}, i # j
        PROVE  a[i].carries \cap a[j].carries = {}
    <3>1. CASE i \in 1..n /\ j \in 1..n
      BY <1>2, <1>5, <2>2, <3>1 DEF Apart, n
    <3>2. CASE i \in 1..n /\ j = n + 1
      BY <1>2, <2>1, <3>2
    <3>3. CASE i = n + 1 /\ j \in 1..n
      BY <1>2, <2>1, <3>3
    <3> QED BY <2>2, <3>1, <3>2, <3>3
  <2> QED BY <1>3, <2>2 DEF Apart
<1> QED BY <1>4, <1>5 DEF a

LEMMA CarriedTail ==
  ASSUME NEW q \in Seq(Message), q # <<>>, Apart(q)
  PROVE  /\ Carried(q) = Head(q).carries \cup Carried(Tail(q))
         /\ Head(q).carries \cap Carried(Tail(q)) = {}
         /\ Apart(Tail(q))
<1> DEFINE n == Len(q)
           t == Tail(q)
<1>1. n \in Nat /\ n # 0
  BY LenProperties, EmptySeq
<1>2. Head(q) = q[1]
  OBVIOUS
<1>3. Len(t) = n - 1 /\ \A i \in 1..(n - 1) : t[i] = q[i + 1]
  BY HeadTailProperties
<1>4. \A i \in 1..n : i = 1 \/ i - 1 \in 1..(n - 1)
  BY <1>1
<1>5. \A i \in 1..(n - 1) : i + 1 \in 1..n /\ i + 1 # 1 /\ i \in Int
  BY <1>1
<1> HIDE DEF n, t
<1>6. \A e : e \in Carried(q) <=> \E i \in 1..n : e \in q[i].carries
  BY DEF Carried, n
<1>7. \A e : e \in Carried(t) <=> \E i \in 1..(n - 1) : e \in q[i + 1].carries
  BY <1>3 DEF Carried
<1>8. \A e : e \in Carried(q) <=> e \in q[1].carries \/ e \in Carried(t)
  <2>1. ASSUME NEW e, NEW i \in 1..n, e \in q[i].carries
        PROVE  e \in q[1].carries \/ e \in Carried(t)
    <3>1. CASE i = 1
      BY <2>1, <3>1
    <3>2. CASE i # 1
      <4>1. i - 1 \in 1..(n - 1) /\ (i - 1) + 1 = i
        BY <1>1, <1>4, <3>2
      <4> QED BY <1>7, <2>1, <4>1
    <3> QED BY <3>1, <3>2
  <2>2. 1 \in 1..n
    BY <1>1
  <2> QED BY <1>5, <1>6, <1>7, <2>1, <2>2
<1>9. q[1].carries \cap Carried(t) = {}
  <2>1. \A i \in 1..(n - 1) : q[1].carries \cap q[i + 1].carries = {}
    BY <1>1, <1>5 DEF Apart, n
  <2> QED BY <1>7, <2>1
<1>10. Apart(t)
  <2>1. \A i, j \in 1..(n - 1) : i # j => q[i + 1].carries \cap q[j + 1].carries = {}
    BY <1>5 DEF Apart, n
  <2> QED BY <1>3, <2>1 DEF Apart
<1> QED BY <1>2, <1>8, <1>9, <1>10 DEF t

LEMMA CarriesByType ==
  ASSUME NEW m \in Message
  PROVE  /\ m.type \in {"FLUSH", "SHUTDOWN"} => m.carries = {}
         /\ m.type = "EVENT" => \E e \in Events : m.carries = {e}
<1>1. FlushMessage.type = "FLUSH" /\ FlushMessage.carries = {}
  BY DEF FlushMessage
<1>2. ShutdownMessage.type = "SHUTDOWN" /\ ShutdownMessage.carries = {}
  BY DEF ShutdownMessage
<1>3. \A e \in Events : EventMessage(e).type = "EVENT" /\ EventMessage(e).carries = {e}
  BY DEF EventMessage
<1> QED BY <1>1, <1>2, <1>3 DEF Message

(* Sequences of events *)

LEMMA NoEvents == ToSet(<<>>) = {} /\ OnceIn(<<>>)
<1>1. Len(<<>>) = 0 /\ DOMAIN <<>> = 1..0
  BY EmptySeq
<1> QED BY <1>1 DEF ToSet, OnceIn

LEMMA SetOf ==
  ASSUME NEW s \in Seq(Events)
  PROVE  /\ ToSet(s) = {s[i] : i \in 1..Len(s)}
         /\ ToSet(s) \subseteq Events
         /\ Len(s) \in Nat
<1>1. DOMAIN s = 1..Len(s) /\ Len(s) \in Nat
  BY LenProperties
<1>2. \A i \in 1..Len(s) : s[i] \in Events
  BY ElementOfSeq
<1> QED BY <1>1, <1>2 DEF ToSet

LEMMA OneMoreEvent ==
  ASSUME NEW s \in Seq(Events), NEW e \in Events
  PROVE  /\ ToSet(Append(s, e)) = ToSet(s) \cup {e}
         /\ OnceIn(s) /\ e \notin ToSet(s) => OnceIn(Append(s, e))
<1> DEFINE n == Len(s)
           a == Append(s, e)
<1>1. n \in Nat
  BY LenProperties
<1>2. a \in Seq(Events) /\ Len(a) = n + 1 /\ a[n + 1] = e /\ \A i \in 1..n : a[i] = s[i]
  BY AppendProperties
<1>3. 1..Len(a) = 1..n \cup {n + 1}
  BY <1>1, <1>2
<1>4. \A x : x \in ToSet(s) <=> \E i \in 1..n : x = s[i]
  BY SetOf
<1>5. \A x : x \in ToSet(a) <=> \E i \in 1..n \cup {n + 1} : x = a[i]
  BY <1>2, <1>3, SetOf
<1> HIDE DEF n, a
<1>6. \A x : x \in ToSet(a) <=> x \in ToSet(s) \/ x = e
  BY <1>2, <1>4, <1>5
<1>7. ASSUME OnceIn(s), e \notin ToSet(s) PROVE OnceIn(a)
  <2>1. \A i, j \in 1..n : s[i] = s[j] => i = j
    BY <1>7 DEF OnceIn, n
  <2>2. \A i, j \in 1..n \cup {n + 1} : a[i] = a[j] => i = j
    BY <1>2, <1>4, <1>7, <2>1
  <2> QED BY <1>3, <2>2 DEF OnceIn
<1> QED BY <1>6, <1>7 DEF a

(* A part and the rest make up the payload, and share no event.              *)
LEMMA PartAndRest ==
  ASSUME TypeOK, NEW r \in Runners, OnceIn(payload[r])
  PROVE  /\ ToSet(payload[r]) = ToSet(Part(r)) \cup ToSet(RestOf(r))
         /\ ToSet(Part(r)) \cap ToSet(RestOf(r)) = {}
         /\ OnceIn(RestOf(r))
         /\ \A e : Contains(Part(r), e) <=> e \in ToSet(Part(r))
<1> DEFINE s == payload[r]
           n == Len(s)
           k == IF n < PartSize THEN n ELSE PartSize
           a == SubSeq(s, 1, k)
           b == SubSeq(s, k + 1, n)
<1>1. s \in Seq(Events)
  BY DEF TypeOK
<1>2. n \in Nat /\ k \in Nat /\ k <= n
  BY <1>1, LenProperties, EventsAssumption
<1>3. \A i \in 1..n : s[i] \in Events
  BY <1>1, ElementOfSeq
<1>4. a \in Seq(Events) /\ Len(a) = k /\ \A i \in 1..k : a[i] = s[i]
  <2> HIDE DEF k, s, n
  <2>1. \A i \in 1..k : s[i] \in Events
    BY <1>2, <1>3
  <2>2. a \in Seq(Events) /\ Len(a) = (IF 1 <= k THEN k - 1 + 1 ELSE 0)
          /\ \A i \in 1..(k - 1 + 1) : a[i] = s[1 + i - 1]
    BY <1>2, <2>1, SubSeqProperties
  <2> QED BY <1>2, <2>2
<1>5. b \in Seq(Events) /\ Len(b) = n - k /\ \A i \in 1..(n - k) : b[i] = s[k + i]
  <2> HIDE DEF k, s, n
  <2>1. \A i \in (k + 1)..n : s[i] \in Events
    BY <1>2, <1>3
  <2>2. b \in Seq(Events) /\ Len(b) = (IF k + 1 <= n THEN n - (k + 1) + 1 ELSE 0)
          /\ \A i \in 1..(n - (k + 1) + 1) : b[i] = s[k + 1 + i - 1]
    BY <1>2, <2>1, SubSeqProperties
  <2> QED BY <1>2, <2>2
<1>6. Part(r) = a
  BY DEF Part
<1>7. RestOf(r) = b
  BY <1>4, <1>6 DEF RestOf
<1> HIDE DEF s, n, k, a, b
<1>8. \A x : x \in ToSet(s) <=> \E i \in 1..n : x = s[i]
  BY <1>1, SetOf DEF n
<1>9. \A x : x \in ToSet(a) <=> \E i \in 1..k : x = s[i]
  BY <1>4, SetOf
<1>10. \A x : x \in ToSet(b) <=> \E i \in 1..(n - k) : x = s[k + i]
  BY <1>5, SetOf
<1>11. \A i, j \in 1..n : s[i] = s[j] => i = j
  BY DEF OnceIn, s, n
<1>12. \A i \in 1..(n - k) : k + i \in 1..n /\ k + i \notin 1..k /\ i \in Int
  BY <1>2
<1>13. \A i \in 1..k : i \in 1..n
  BY <1>2
<1>14. \A i \in 1..n : i \in 1..k \/ (i - k \in 1..(n - k) /\ k + (i - k) = i)
  BY <1>2
<1>15. \A x : x \in ToSet(s) <=> x \in ToSet(a) \/ x \in ToSet(b)
  <2>1. ASSUME NEW x, NEW i \in 1..n, x = s[i] PROVE x \in ToSet(a) \/ x \in ToSet(b)
    <3>1. CASE i \in 1..k
      BY <1>9, <2>1, <3>1
    <3>2. CASE i \notin 1..k
      <4>1. i - k \in 1..(n - k) /\ x = s[k + (i - k)]
        BY <1>14, <2>1, <3>2
      <4> QED BY <1>10, <4>1
    <3> QED BY <3>1, <3>2
  <2>2. ASSUME NEW x, x \in ToSet(a) PROVE x \in ToSet(s)
    BY <1>8, <1>9, <1>13, <2>2
  <2>3. ASSUME NEW x, x \in ToSet(b) PROVE x \in ToSet(s)
    BY <1>8, <1>10, <1>12, <2>3
  <2> QED BY <1>8, <2>1, <2>2, <2>3
<1>16. ASSUME NEW x, x \in ToSet(a), x \in ToSet(b) PROVE FALSE
  <2>1. PICK i \in 1..k : x = s[i]
    BY <1>9, <1>16
  <2>2. PICK j \in 1..(n - k) : x = s[k + j]
    BY <1>10, <1>16
  <2>3. i = k + j
    BY <1>11, <1>12, <1>13, <2>1, <2>2
  <2> QED BY <1>12, <2>1, <2>2, <2>3
<1>17. OnceIn(b)
  <2>1. ASSUME NEW i \in 1..(n - k), NEW j \in 1..(n - k), b[i] = b[j] PROVE i = j
    <3>1. k + i = k + j
      BY <1>5, <1>11, <1>12, <2>1
    <3> QED BY <1>2, <3>1
  <2> QED BY <1>5, <2>1 DEF OnceIn
<1>18. \A e : Contains(a, e) <=> e \in ToSet(a)
  BY <1>4, <1>9 DEF Contains
<1> QED BY <1>6, <1>7, <1>15, <1>16, <1>17, <1>18 DEF s

LEMMA NoMarkerInNone == ~HasMarker(<<>>) /\ OnlyLast(<<>>)
<1>1. Len(<<>>) = 0
  BY EmptySeq
<1> QED BY <1>1 DEF HasMarker, OnlyLast

LEMMA MarkerInOne ==
  ASSUME NEW m \in Message
  PROVE  /\ HasMarker(<<m>>) <=> m.type = "SHUTDOWN"
         /\ OnlyLast(<<m>>)
<1>1. Len(<<m>>) = 1 /\ <<m>>[1] = m /\ 1..1 = {1}
  OBVIOUS
<1> QED BY <1>1 DEF HasMarker, OnlyLast

LEMMA MarkerAppended ==
  ASSUME NEW q \in Seq(Message), NEW m \in Message
  PROVE  /\ HasMarker(Append(q, m)) <=> HasMarker(q) \/ m.type = "SHUTDOWN"
         /\ ~HasMarker(q) => OnlyLast(Append(q, m))
<1> DEFINE n == Len(q)
           a == Append(q, m)
<1>1. n \in Nat
  BY LenProperties
<1>2. Len(a) = n + 1 /\ a[n + 1] = m /\ \A i \in 1..n : a[i] = q[i]
  BY AppendProperties
<1>3. 1..Len(a) = 1..n \cup {n + 1}
  BY <1>1, <1>2
<1> HIDE DEF n, a
<1>4. HasMarker(q) <=> \E i \in 1..n : q[i].type = "SHUTDOWN"
  BY DEF HasMarker, n
<1>5. HasMarker(a) <=> HasMarker(q) \/ m.type = "SHUTDOWN"
  <2>1. HasMarker(a) <=> \E i \in 1..n \cup {n + 1} : a[i].type = "SHUTDOWN"
    BY <1>3 DEF HasMarker
  <2> QED BY <1>2, <1>4, <2>1
<1>6. ~HasMarker(q) => OnlyLast(a)
  <2>1. ASSUME ~HasMarker(q), NEW i \in 1..n \cup {n + 1}, a[i].type = "SHUTDOWN"
        PROVE  i = n + 1
    BY <1>2, <1>4, <2>1
  <2> QED BY <1>2, <1>3, <2>1 DEF OnlyLast
<1> QED BY <1>5, <1>6 DEF a

LEMMA MarkerInTail ==
  ASSUME NEW q \in Seq(Message), q # <<>>, OnlyLast(q)
  PROVE  /\ OnlyLast(Tail(q))
         /\ HasMarker(Tail(q)) => HasMarker(q)
         /\ Head(q).type = "SHUTDOWN" => HasMarker(q) /\ Tail(q) = <<>>
<1> DEFINE n == Len(q)
           t == Tail(q)
<1>1. n \in Nat /\ n # 0
  BY LenProperties, EmptySeq
<1>2. Head(q) = q[1]
  OBVIOUS
<1>3. t \in Seq(Message) /\ Len(t) = n - 1 /\ \A i \in 1..(n - 1) : t[i] = q[i + 1]
  BY HeadTailProperties
<1>4. \A i \in 1..(n - 1) : i + 1 \in 1..n /\ i \in Int
  BY <1>1
<1>5. \A i \in 1..n : q[i].type = "SHUTDOWN" => i = n
  BY DEF OnlyLast
<1> HIDE DEF t
<1>6. OnlyLast(t)
  <2>1. ASSUME NEW i \in 1..(n - 1), t[i].type = "SHUTDOWN" PROVE i = n - 1
    <3>1. i + 1 = n
      BY <1>3, <1>4, <1>5, <2>1
    <3> QED BY <1>1, <1>4, <3>1
  <2> QED BY <1>3, <2>1 DEF OnlyLast
<1>7. HasMarker(t) => HasMarker(q)
  BY <1>3, <1>4 DEF HasMarker
<1>8. ASSUME q[1].type = "SHUTDOWN" PROVE HasMarker(q) /\ t = <<>>
  <2>0. 1 \in 1..n
    BY <1>1
  <2>1. 1 \in 1..n /\ n = 1
    BY <1>5, <1>8, <2>0
  <2>2. Len(t) = 0
    BY <1>3, <2>1
  <2> QED BY <1>3, <1>8, <2>1, <2>2, EmptySeq DEF HasMarker
<1> QED BY <1>2, <1>6, <1>7, <1>8 DEF t

-----------------------------------------------------------------------------
(* The inductive invariant, and that a step keeps each part of it. *)

Places == PlacesHoldPending /\ PlacesDisjoint /\ OncePerPlace /\ Settled

Inv ==
  /\ TypeOK /\ PermitsAccounted
  /\ OneCloser /\ MarkerLast /\ EndInOrder /\ IdleHaveNothing
  /\ Places

LEMMA StepCloser ==
  ASSUME TypeOK, OneCloser, [Next]_vars
  PROVE  OneCloser'
<1>1. CASE UNCHANGED <<closed, stopper, requested>> /\ (pc' = "selfstop" => pc = "selfstop")
  BY <1>1 DEF OneCloser
<1>2. ASSUME NEW s \in Stoppers, CloseGate(s) PROVE OneCloser'
  <2>1. closed' = TRUE /\ UNCHANGED <<pc, requested>>
    BY <1>2 DEF CloseGate, dispatchVars
  <2>2. \A t \in Stoppers : t # s => stopper'[t] = stopper[t]
    BY <1>2 DEF TypeOK, CloseGate
  <2>3. CASE closed
    <3>1. stopper'[s] = "early"
      BY <1>2, <2>3 DEF TypeOK, CloseGate
    <3> QED BY <2>1, <2>2, <2>3, <3>1 DEF OneCloser, Closing
  <2>4. CASE ~closed
    <3>1. \A t \in Stoppers : stopper[t] \notin Closing
      BY <2>4 DEF OneCloser
    <3>2. ~(pc = "selfstop" \/ requested)
      BY <2>4 DEF OneCloser
    <3> QED BY <2>1, <2>2, <3>1, <3>2 DEF OneCloser
  <2> QED BY <2>3, <2>4
<1>3. ASSUME NEW s \in Stoppers, PutShutdown(s) \/ StopReturns(s) PROVE OneCloser'
  <2>1. UNCHANGED <<closed, pc, requested>>
    BY <1>3 DEF PutShutdown, StopReturns, dispatchVars, gateVars
  <2>2. stopper[s] \in Closing /\ stopper'[s] \in Closing
    BY <1>3 DEF TypeOK, PutShutdown, StopReturns, Closing
  <2>3. \A t \in Stoppers : t # s => stopper'[t] = stopper[t]
    BY <1>3 DEF TypeOK, PutShutdown, StopReturns
  <2>4. \A t \in Stoppers : stopper'[t] \in Closing <=> stopper[t] \in Closing
    BY <2>2, <2>3
  <2> QED BY <2>1, <2>4 DEF OneCloser
<1>4. CASE SelfStop
  BY <1>4 DEF SelfStop, OneCloser, stopVars
<1>5. CASE RequestShutdown
  BY <1>5 DEF RequestShutdown, OneCloser, stopVars, gateVars
<1>6. \/ UNCHANGED <<closed, stopper, requested>> /\ (pc' = "selfstop" => pc = "selfstop")
      \/ \E s \in Stoppers : CloseGate(s) \/ PutShutdown(s) \/ StopReturns(s)
      \/ SelfStop \/ RequestShutdown
  BY DEF Next, Dispatch, Work, Terminated, SendEvent, Flush, TakeFirst, TakeMore,
     BatchTaken, BatchDone, PutEventsToBuffer, NoFlush, Submit, SubmitFails,
     BeginShutdown, AwaitWorkers, FinalSend, StopSender, Exit, RunWorker, ReleasePermit,
     NotifyDispatcher, WokenPc, vars, gateVars, stopVars, poolVars, outVars, dispatchVars
<1> QED BY <1>1, <1>2, <1>3, <1>4, <1>5, <1>6

LEMMA WaitsOn ==
  ASSUME TypeOK, [Next]_vars, SomeoneWaits
  PROVE  SomeoneWaits'
<1>1. PICK s \in Stoppers : stopper[s] \in {"waiting", "returned"}
  BY DEF SomeoneWaits
<1>2. CASE UNCHANGED stopper
  BY <1>1, <1>2 DEF SomeoneWaits
<1>3. ASSUME NEW t \in Stoppers, CloseGate(t) \/ PutShutdown(t) \/ StopReturns(t)
      PROVE  stopper'[s] \in {"waiting", "returned"}
  BY <1>1, <1>3 DEF TypeOK, CloseGate, PutShutdown, StopReturns
<1>4. \/ UNCHANGED stopper
      \/ \E t \in Stoppers : CloseGate(t) \/ PutShutdown(t) \/ StopReturns(t)
  BY DEF Next, Dispatch, Work, Terminated, SendEvent, Flush, TakeFirst, TakeMore,
     BatchTaken, BatchDone, PutEventsToBuffer, NoFlush, Submit, SubmitFails, SelfStop,
     RequestShutdown,
     BeginShutdown, AwaitWorkers, FinalSend, StopSender, Exit, RunWorker, ReleasePermit,
     NotifyDispatcher, vars, gateVars, stopVars, poolVars, outVars, dispatchVars
<1> QED BY <1>2, <1>3, <1>4 DEF SomeoneWaits

(* A message that enters the inbox finds no shutdown message before it.      *)
LEMMA NobodyWaitsYet ==
  ASSUME OneCloser, MarkerLast, ~closed \/ \E s \in Stoppers : stopper[s] = "closing"
  PROVE  ~HasMarker(inbox) /\ ~HasMarker(msgs)
<1>1. ~SomeoneWaits
  BY DEF OneCloser, SomeoneWaits, Closing
<1> QED BY <1>1 DEF MarkerLast

LEMMA StepMarker ==
  ASSUME TypeOK, OneCloser, MarkerLast, EndInOrder, [Next]_vars
  PROVE  MarkerLast'
<1>0. SomeoneWaits => SomeoneWaits'
  BY WaitsOn
<1>1. CASE UNCHANGED <<inbox, msgs>>
  BY <1>0, <1>1 DEF MarkerLast
<1>2. ASSUME UNCHANGED msgs, Admits, NEW m \in Message, m.type # "SHUTDOWN",
             inbox' = Append(inbox, m)
      PROVE  MarkerLast'
  <2>1. ~HasMarker(inbox) /\ ~HasMarker(msgs)
    BY <1>2, NobodyWaitsYet DEF Admits
  <2>2. OnlyLast(inbox') /\ ~HasMarker(inbox')
    BY <1>2, <2>1, MarkerAppended DEF TypeOK
  <2> QED BY <1>2, <2>1, <2>2 DEF MarkerLast
<1>3. ASSUME NEW s \in Stoppers, PutShutdown(s) PROVE MarkerLast'
  <2>1. ~HasMarker(inbox) /\ ~HasMarker(msgs)
    BY <1>3, NobodyWaitsYet DEF PutShutdown
  <2>2. UNCHANGED msgs /\ inbox' = Append(inbox, ShutdownMessage)
    BY <1>3 DEF PutShutdown, dispatchVars
  <2>3. OnlyLast(inbox')
    BY <2>1, <2>2, MarkerAppended, MessageTypes DEF TypeOK
  <2>4. SomeoneWaits'
    BY <1>3 DEF TypeOK, PutShutdown, SomeoneWaits
  <2> QED BY <2>1, <2>2, <2>3, <2>4 DEF MarkerLast
<1>4. CASE TakeFirst
  <2>1. inbox \in Seq(Message) /\ inbox # <<>> /\ Head(inbox) \in Message
    BY <1>4, NextInInboxType DEF TypeOK, TakeFirst
  <2>2. inbox' = Tail(inbox) /\ msgs' = <<Head(inbox)>>
    BY <1>4 DEF TakeFirst
  <2>3. OnlyLast(inbox') /\ (HasMarker(inbox') => HasMarker(inbox))
    BY <2>1, <2>2, MarkerInTail DEF MarkerLast
  <2>4. HasMarker(msgs') => HasMarker(inbox) /\ inbox' = <<>>
    BY <2>1, <2>2, MarkerInTail, MarkerInOne DEF MarkerLast
  <2>5. OnlyLast(msgs')
    BY <2>1, <2>2, MarkerInOne
  <2> QED BY <1>0, <2>3, <2>4, <2>5 DEF MarkerLast
<1>5. CASE TakeMore
  <2>1. inbox \in Seq(Message) /\ inbox # <<>> /\ Head(inbox) \in Message
          /\ msgs \in Seq(Message)
    BY <1>5, NextInInboxType DEF TypeOK, TakeMore
  <2>2. inbox' = Tail(inbox) /\ msgs' = Append(msgs, Head(inbox))
    BY <1>5 DEF TakeMore
  <2>3. OnlyLast(inbox') /\ (HasMarker(inbox') => HasMarker(inbox))
    BY <2>1, <2>2, MarkerInTail DEF MarkerLast
  <2>4. ~HasMarker(msgs)
    BY <2>1 DEF MarkerLast
  <2>5. OnlyLast(msgs') /\ (HasMarker(msgs') => Head(inbox).type = "SHUTDOWN")
    BY <2>1, <2>2, <2>4, MarkerAppended
  <2>6. HasMarker(msgs') => HasMarker(inbox) /\ inbox' = <<>>
    BY <2>1, <2>2, <2>5, MarkerInTail DEF MarkerLast
  <2> QED BY <1>0, <2>3, <2>5, <2>6 DEF MarkerLast
<1>6. ASSUME UNCHANGED inbox, msgs # <<>>, msgs' = Tail(msgs) PROVE MarkerLast'
  <2>1. OnlyLast(msgs') /\ (HasMarker(msgs') => HasMarker(msgs))
    BY <1>6, MarkerInTail DEF TypeOK, MarkerLast
  <2> QED BY <1>0, <1>6, <2>1 DEF MarkerLast
<1>7. ASSUME NEW e \in Events, SendEvent(e) PROVE MarkerLast'
  <2>1. EventMessage(e) \in Message /\ EventMessage(e).type # "SHUTDOWN"
    BY MessageTypes DEF EventMessage
  <2>2. UNCHANGED msgs
    BY <1>7 DEF SendEvent, dispatchVars
  <2> QED BY <1>1, <1>2, <1>7, <2>1, <2>2 DEF SendEvent
<1>8. CASE Flush
  <2>1. FlushMessage \in Message /\ FlushMessage.type # "SHUTDOWN"
    BY MessageTypes DEF FlushMessage
  <2>2. UNCHANGED msgs
    BY <1>8 DEF Flush, dispatchVars
  <2> QED BY <1>2, <1>8, <2>1, <2>2 DEF Flush
<1>9. CASE PutEventsToBuffer \/ NoFlush \/ SubmitFails \/ \E w \in Workers : Submit(w)
  <2>1. UNCHANGED inbox /\ msgs # <<>> /\ msgs' = Tail(msgs)
    BY <1>9 DEF PutEventsToBuffer, NoFlush, SubmitFails, Submit, InHand
  <2> QED BY <1>6, <2>1
<1>10. \/ UNCHANGED <<inbox, msgs>>
       \/ (\E e \in Events : SendEvent(e)) \/ Flush
       \/ \E s \in Stoppers : PutShutdown(s)
       \/ TakeFirst \/ TakeMore
       \/ PutEventsToBuffer \/ NoFlush \/ SubmitFails \/ \E w \in Workers : Submit(w)
  BY DEF Next, Dispatch, Work, Terminated, CloseGate, StopReturns, SelfStop,
     RequestShutdown, BatchTaken, BatchDone,
     BeginShutdown, AwaitWorkers, FinalSend, StopSender, Exit, RunWorker, ReleasePermit,
     NotifyDispatcher, vars, gateVars, stopVars, poolVars, outVars, dispatchVars
<1> QED BY <1>1, <1>3, <1>4, <1>5, <1>7, <1>8, <1>9, <1>10

(* No permit is out: nobody works, and no permit was lost. *)
LEMMA AllBackAllIdle ==
  ASSUME TypeOK, PermitsAccounted, AllPermitsBack
  PROVE  busy = {}
<1>1. IsFiniteSet(busy) /\ Cardinality(busy) \in Nat
  BY BusyCounted, WorkersCounted DEF TypeOK
<1>2. Cardinality(busy) = 0
  BY <1>1, WorkersCounted, EventsAssumption DEF TypeOK, PermitsAccounted, AllPermitsBack
<1> QED BY <1>1, <1>2, FS_EmptySet

LEMMA StepEnd ==
  ASSUME TypeOK, PermitsAccounted, OneCloser, MarkerLast, EndInOrder, OncePerPlace,
         IdleHaveNothing, [Next]_vars
  PROVE  EndInOrder'
<1> USE DEF gateVars, stopVars, poolVars, outVars, dispatchVars
<1>1. CASE UNCHANGED <<closed, inbox, stopper, pc, msgs, buffer, busy, senderStopped, completed>>
  BY <1>1 DEF EndInOrder, Carried
<1>2. ASSUME ~closed, UNCHANGED <<closed, stopper, pc, msgs, buffer, busy, senderStopped, completed>>
      PROVE  EndInOrder'
  <2>1. pc \notin ShuttingDown
    BY <1>2 DEF EndInOrder
  <2> QED BY <1>2, <2>1 DEF EndInOrder, ShuttingDown
<1>3. ASSUME NEW s \in Stoppers, CloseGate(s) PROVE EndInOrder'
  <2>1. /\ closed' = TRUE
        /\ UNCHANGED <<inbox, pc, msgs, buffer, busy, senderStopped, completed>>
    BY <1>3 DEF CloseGate
  <2>2. \A t \in Stoppers : stopper'[t] = stopper[t] \/ stopper'[t] = "early"
                              \/ (~closed /\ stopper'[t] = "closing")
    BY <1>3 DEF TypeOK, CloseGate
  <2>3. pc \in ShuttingDown => \A t \in Stoppers : stopper'[t] # "closing"
    BY <2>2 DEF EndInOrder
  <2>4. \A t \in Stoppers : stopper'[t] = "returned" => stopper[t] = "returned"
    BY <2>2
  <2> QED BY <2>1, <2>3, <2>4 DEF EndInOrder, Carried
<1>4. ASSUME NEW s \in Stoppers, PutShutdown(s) PROVE EndInOrder'
  <2>1. UNCHANGED <<closed, pc, msgs, buffer, busy, senderStopped, completed>>
    BY <1>4 DEF PutShutdown
  <2>2. pc \notin ShuttingDown
    BY <1>4 DEF PutShutdown, EndInOrder
  <2>3. \A t \in Stoppers : stopper'[t] = "returned" => stopper[t] = "returned"
    BY <1>4 DEF TypeOK, PutShutdown
  <2> QED BY <2>1, <2>2, <2>3 DEF EndInOrder, ShuttingDown
<1>5. ASSUME NEW s \in Stoppers, StopReturns(s) PROVE EndInOrder'
  <2>1. /\ completed
        /\ UNCHANGED <<closed, inbox, pc, msgs, buffer, busy, senderStopped, completed>>
    BY <1>5 DEF StopReturns
  <2>2. \A t \in Stoppers : stopper'[t] = "closing" => stopper[t] = "closing"
    BY <1>5 DEF TypeOK, StopReturns
  <2> QED BY <2>1, <2>2 DEF EndInOrder, Carried
<1>6. ASSUME pc \notin ShuttingDown, pc' \notin ShuttingDown, pc' # "get",
             UNCHANGED <<stopper, senderStopped, completed>>
      PROVE  EndInOrder'
  BY <1>6 DEF EndInOrder, ShuttingDown
<1>7. CASE BatchDone
  <2>1. /\ pc = "process" /\ msgs = <<>> /\ pc' \in {"await", "get"}
        /\ UNCHANGED <<closed, inbox, stopper, msgs, buffer, busy, senderStopped, completed>>
    BY <1>7 DEF BatchDone
  <2>2. Carried(msgs') = {}
    BY <2>1, CarriedNone
  <2>3. pc' = "await" => closed /\ inbox = <<>> /\ \A s \in Stoppers : stopper[s] # "closing"
    BY <1>7 DEF BatchDone, Drained, OneCloser, Closing
  <2> QED BY <2>1, <2>2, <2>3 DEF EndInOrder, ShuttingDown
<1>8. CASE BeginShutdown
  <2>1. /\ pc = "process" /\ pc' = "await" /\ msgs # <<>> /\ Head(msgs).type = "SHUTDOWN"
        /\ UNCHANGED <<closed, inbox, stopper, msgs, buffer, busy, senderStopped, completed>>
    BY <1>8 DEF BeginShutdown, InHand
  <2>2. HasMarker(msgs) /\ Tail(msgs) = <<>>
    BY <2>1, MarkerInTail DEF TypeOK, MarkerLast
  <2>3. PICK s \in Stoppers : stopper[s] \in {"waiting", "returned"}
    BY <2>2 DEF MarkerLast, SomeoneWaits
  <2>4. closed /\ \A t \in Stoppers : stopper[t] # "closing"
    BY <2>3 DEF OneCloser, Closing
  <2>5. inbox = <<>>
    BY <2>2 DEF MarkerLast
  <2>6. Head(msgs).carries = {}
    BY <2>1, NextMessageType, CarriesByType
  <2>7. Carried(msgs) = {}
    <3>1. msgs \in Seq(Message) /\ msgs # <<>> /\ Apart(msgs)
      BY <2>1 DEF TypeOK, OncePerPlace
    <3>2. Carried(msgs) = Head(msgs).carries \cup Carried(Tail(msgs))
      BY <3>1, CarriedTail
    <3>3. Carried(Tail(msgs)) = {}
      BY <2>2, CarriedNone
    <3> QED BY <2>6, <3>2, <3>3
  <2>8. Carried(msgs') = {}
    BY <2>1, <2>7
  <2> QED BY <2>1, <2>4, <2>5, <2>8 DEF EndInOrder, ShuttingDown
<1>9. CASE AwaitWorkers
  <2>1. /\ pc = "await" /\ pc' \in {"final", "asleep"}
        /\ pc' = "final" => AllPermitsBack /\ buffer' = <<>>
        /\ UNCHANGED <<closed, inbox, stopper, msgs, busy, senderStopped, completed>>
    BY <1>9 DEF AwaitWorkers
  <2>2. pc' = "final" => busy = {}
    BY <2>1, AllBackAllIdle
  <2>3. Carried(msgs') = {}
    BY <2>1 DEF EndInOrder, ShuttingDown
  <2> QED BY <2>1, <2>2, <2>3 DEF EndInOrder, ShuttingDown
<1>10. CASE StopSender
  <2>1. /\ pc = "final" /\ pc' = "exit" /\ senderStopped'
        /\ UNCHANGED <<closed, inbox, stopper, msgs, buffer, busy, completed>>
    BY <1>10 DEF StopSender
  <2>2. Carried(msgs') = {}
    BY <2>1 DEF EndInOrder, ShuttingDown
  <2> QED BY <2>1, <2>2 DEF EndInOrder, ShuttingDown
<1>11. CASE Exit
  <2>1. /\ pc = "exit" /\ pc' = "dead" /\ completed \in BOOLEAN
        /\ UNCHANGED <<closed, inbox, stopper, msgs, buffer, busy, senderStopped>>
    BY <1>11 DEF Exit, TypeOK
  <2>2. Carried(msgs') = {}
    BY <2>1 DEF EndInOrder, ShuttingDown
  <2>3. senderStopped /\ (completed => completed')
    BY <1>11, <2>1 DEF EndInOrder, Exit
  <2> QED BY <2>1, <2>2, <2>3 DEF EndInOrder, ShuttingDown
<1>12. ASSUME NEW w \in Workers, ReleasePermit(w) PROVE EndInOrder'
  <2>1. /\ busy' = busy \ {w} /\ w \in busy
        /\ UNCHANGED <<closed, inbox, stopper, pc, msgs, buffer, senderStopped, completed>>
    BY <1>12 DEF ReleasePermit
  <2> QED BY <2>1 DEF EndInOrder, Carried
<1>13. CASE NotifyDispatcher
  <2>1. /\ pc' = pc \/ (pc = "asleep" /\ pc' = "await")
        /\ UNCHANGED <<closed, inbox, stopper, msgs, buffer, busy, senderStopped, completed>>
    BY <1>13 DEF NotifyDispatcher, WokenPc
  <2>2. Carried(msgs') = Carried(msgs)
    BY <2>1 DEF Carried
  <2> QED BY <2>1, <2>2 DEF EndInOrder, ShuttingDown
<1>14. CASE SelfStop \/ RequestShutdown \/ TakeFirst \/ TakeMore \/ BatchTaken
         \/ PutEventsToBuffer \/ NoFlush \/ SubmitFails \/ (\E w \in Workers : Submit(w))
  <2>1. /\ pc \notin ShuttingDown /\ pc' \notin ShuttingDown /\ pc' # "get"
        /\ UNCHANGED <<stopper, senderStopped, completed>>
    BY <1>14 DEF SelfStop, RequestShutdown, TakeFirst, TakeMore, BatchTaken,
       PutEventsToBuffer, NoFlush, SubmitFails, Submit, InHand, ShuttingDown
  <2> QED BY <1>6, <2>1
<1>15. CASE Flush \/ \E e \in Events : SendEvent(e)
  <2>1. /\ UNCHANGED <<closed, stopper, pc, msgs, buffer, busy, senderStopped, completed>>
        /\ ~closed \/ UNCHANGED inbox
    BY <1>15 DEF Flush, SendEvent, Admits
  <2> QED BY <1>1, <1>2, <2>1
<1>16. CASE FinalSend \/ \E w \in Workers : RunWorker(w)
  BY <1>1, <1>16 DEF FinalSend, RunWorker
<1>17. CASE UNCHANGED vars
  BY <1>1, <1>17 DEF vars
<1> QED
  BY <1>3, <1>4, <1>5, <1>7, <1>8, <1>9, <1>10, <1>11, <1>12, <1>13, <1>14, <1>15, <1>16,
     <1>17
  DEF Next, Dispatch, Work, Terminated

LEMMA StepIdle ==
  ASSUME TypeOK, IdleHaveNothing, [Next]_vars
  PROVE  IdleHaveNothing'
<1> USE DEF gateVars, stopVars, poolVars, outVars, dispatchVars
<1>1. CASE UNCHANGED <<busy, payload>> /\ (pc = "final" => pc' = "final")
  BY <1>1 DEF IdleHaveNothing
<1>2. ASSUME NEW w \in Workers, Submit(w) \/ RunWorker(w) PROVE IdleHaveNothing'
  <2>1. busy \subseteq busy' /\ w \in busy' /\ UNCHANGED pc
    BY <1>2 DEF Submit, RunWorker
  <2>2. \A r \in Runners : r # w => payload'[r] = payload[r]
    BY <1>2 DEF TypeOK, Submit, RunWorker, SendPart, FailPart
  <2>3. w # Dispatcher /\ Workers \subseteq Runners /\ Dispatcher \in Runners
    BY EventsAssumption DEF Runners
  <2> QED BY <2>1, <2>2, <2>3 DEF IdleHaveNothing
<1>3. ASSUME NEW w \in Workers, ReleasePermit(w) PROVE IdleHaveNothing'
  BY <1>3 DEF ReleasePermit, IdleHaveNothing
<1>4. CASE AwaitWorkers \/ FinalSend
  <2>1. UNCHANGED busy /\ (pc' = "final" \/ (UNCHANGED payload /\ pc # "final"))
    BY <1>4 DEF AwaitWorkers, FinalSend
  <2>2. \A r \in Runners : r # Dispatcher => payload'[r] = payload[r]
    BY <1>4 DEF TypeOK, AwaitWorkers, FinalSend, SendPart, FailPart
  <2>3. Dispatcher \notin Workers /\ Workers \subseteq Runners
    BY EventsAssumption DEF Runners
  <2> QED BY <2>1, <2>2, <2>3 DEF IdleHaveNothing
<1>5. CASE StopSender
  BY <1>5 DEF StopSender, IdleHaveNothing
<1>6. \/ UNCHANGED <<busy, payload>> /\ (pc = "final" => pc' = "final")
      \/ \E w \in Workers : Submit(w) \/ RunWorker(w) \/ ReleasePermit(w)
      \/ AwaitWorkers \/ FinalSend \/ StopSender
  BY DEF Next, Dispatch, Work, Terminated, SendEvent, Flush, CloseGate, PutShutdown,
     StopReturns, SelfStop, RequestShutdown, TakeFirst, TakeMore, BatchTaken, BatchDone,
     PutEventsToBuffer, NoFlush, SubmitFails, BeginShutdown, Exit, InHand,
     NotifyDispatcher, WokenPc, vars
<1> QED BY <1>1, <1>2, <1>3, <1>4, <1>5, <1>6

-----------------------------------------------------------------------------
(* Where the events are *)

(* The payload of one runner is replaced.                                    *)
LEMMA PayloadReplaced ==
  ASSUME TypeOK, PlacesDisjoint, OncePerPlace, NEW r \in Runners, NEW q \in Seq(Events),
         payload' = [payload EXCEPT ![r] = q], OnceIn(q),
         ToSet(q) \cap (InPayloads \ ToSet(payload[r])) = {}
  PROVE  /\ InPayloads' = (InPayloads \ ToSet(payload[r])) \cup ToSet(q)
         /\ \A u, v \in Runners : u # v => ToSet(payload'[u]) \cap ToSet(payload'[v]) = {}
         /\ \A u \in Runners : OnceIn(payload'[u])
<1>1. payload'[r] = q /\ \A u \in Runners : u # r => payload'[u] = payload[u]
  BY DEF TypeOK
<1>2. \A e : e \in InPayloads <=> \E u \in Runners : e \in ToSet(payload[u])
  BY DEF InPayloads
<1>3. \A e : e \in InPayloads' <=> \E u \in Runners : e \in ToSet(payload'[u])
  BY DEF InPayloads
<1>4. \A u \in Runners : u # r => ToSet(payload[u]) \cap ToSet(payload[r]) = {}
  BY DEF PlacesDisjoint
<1>5. \A e : e \in InPayloads' <=> (e \in InPayloads /\ e \notin ToSet(payload[r])) \/ e \in ToSet(q)
  <2>1. ASSUME NEW e, NEW u \in Runners, e \in ToSet(payload'[u])
        PROVE  (e \in InPayloads /\ e \notin ToSet(payload[r])) \/ e \in ToSet(q)
    <3>1. CASE u = r
      BY <1>1, <2>1, <3>1
    <3>2. CASE u # r
      BY <1>1, <1>2, <1>4, <2>1, <3>2
    <3> QED BY <3>1, <3>2
  <2>2. ASSUME NEW e, NEW u \in Runners, e \in ToSet(payload[u]), e \notin ToSet(payload[r])
        PROVE  e \in InPayloads'
    <3>1. u # r
      BY <2>2
    <3> QED BY <1>1, <1>3, <2>2, <3>1
  <2>3. ASSUME NEW e, e \in ToSet(q) PROVE e \in InPayloads'
    BY <1>1, <1>3, <2>3
  <2> QED BY <1>2, <1>3, <2>1, <2>2, <2>3
<1>6. \A u \in Runners : u # r => ToSet(payload[u]) \cap ToSet(q) = {}
  BY <1>2, <1>4
<1>7. ASSUME NEW u \in Runners, NEW v \in Runners, u # v
      PROVE  ToSet(payload'[u]) \cap ToSet(payload'[v]) = {}
  <2>1. CASE u = r
    BY <1>1, <1>6, <1>7, <2>1
  <2>2. CASE v = r
    BY <1>1, <1>6, <1>7, <2>2
  <2>3. CASE u # r /\ v # r
    BY <1>1, <1>7, <2>3 DEF PlacesDisjoint
  <2> QED BY <2>1, <2>2, <2>3
<1>8. \A u \in Runners : OnceIn(payload'[u])
  BY <1>1 DEF OncePerPlace
<1> QED BY <1>5, <1>7, <1>8

LEMMA PayloadsUntouched ==
  ASSUME UNCHANGED payload
  PROVE  InPayloads' = InPayloads
BY DEF InPayloads

LEMMA PlacesStay ==
  ASSUME Places, UNCHANGED <<inbox, msgs, buffer, payload, accepted, posted, dropped>>
  PROVE  Places'
<1>1. Pending' = Pending
  BY DEF Pending
<1>2. Carried(inbox') = Carried(inbox) /\ Carried(msgs') = Carried(msgs)
        /\ Apart(inbox') = Apart(inbox) /\ Apart(msgs') = Apart(msgs)
  OBVIOUS
<1>3. InPayloads' = InPayloads
  BY PayloadsUntouched
<1> QED BY <1>1, <1>2, <1>3
        DEF Places, PlacesHoldPending, PlacesDisjoint, OncePerPlace, Settled

(* A message that carries nothing is put at the end of the inbox.            *)
LEMMA PlacesAfterPut ==
  ASSUME TypeOK, Places, NEW m \in Message, m.carries = {}, inbox' = Append(inbox, m),
         UNCHANGED <<msgs, buffer, payload, accepted, posted, dropped>>
  PROVE  Places'
<1>1. Carried(inbox') = Carried(inbox) /\ Apart(inbox')
  <2>1. inbox \in Seq(Message) /\ Apart(inbox)
    BY DEF TypeOK, Places, OncePerPlace
  <2> QED BY <2>1, CarriedAppend
<1>2. Carried(msgs') = Carried(msgs) /\ Apart(msgs) = Apart(msgs')
  OBVIOUS
<1>3. InPayloads' = InPayloads
  BY PayloadsUntouched
<1>4. Pending' = Pending
  BY DEF Pending
<1> QED BY <1>1, <1>2, <1>3, <1>4
        DEF Places, PlacesHoldPending, PlacesDisjoint, OncePerPlace, Settled

LEMMA PlacesAfterSend ==
  ASSUME TypeOK, Places, NEW e \in Events, SendEvent(e), Admits
  PROVE  Places'
<1> USE DEF outVars, dispatchVars
<1>1. /\ inbox' = Append(inbox, EventMessage(e)) /\ accepted' = accepted \cup {e}
      /\ UNCHANGED <<msgs, buffer, payload, posted, dropped>>
  BY DEF SendEvent
<1>2. e \notin accepted
  BY DEF SendEvent, TypeOK
<1>3. e \notin Pending /\ posted[e] = 0 /\ e \notin dropped
  BY <1>2 DEF Pending, Places, Settled
<1>4. e \notin Carried(inbox) \cup Carried(msgs) \cup ToSet(buffer) \cup InPayloads
  BY <1>3 DEF Places, PlacesHoldPending
<1>5. Carried(inbox') = Carried(inbox) \cup {e} /\ Apart(inbox')
  <2>1. inbox \in Seq(Message) /\ Apart(inbox)
    BY DEF TypeOK, Places, OncePerPlace
  <2>2. EventMessage(e) \in Message /\ EventMessage(e).carries = {e}
    BY MessageTypes DEF EventMessage
  <2> QED BY <1>1, <1>4, <2>1, <2>2, CarriedAppend
<1>6. Carried(msgs') = Carried(msgs) /\ Apart(msgs) = Apart(msgs') /\ InPayloads' = InPayloads
  BY <1>1, PayloadsUntouched
<1>7. Pending' = Pending \cup {e}
  BY <1>1, <1>3 DEF Pending
<1>8. PlacesHoldPending'
  BY <1>1, <1>5, <1>6, <1>7 DEF Places, PlacesHoldPending
<1>9. PlacesDisjoint'
  BY <1>1, <1>4, <1>5, <1>6 DEF Places, PlacesDisjoint
<1>10. OncePerPlace' /\ Settled'
  BY <1>1, <1>5, <1>6 DEF Places, OncePerPlace, Settled
<1> QED BY <1>8, <1>9, <1>10 DEF Places

LEMMA PlacesAfterTake ==
  ASSUME TypeOK, EndInOrder, Places, TakeFirst \/ TakeMore
  PROVE  Places'
<1> USE DEF outVars, gateVars
<1> DEFINE m == Head(inbox)
<1>1. /\ inbox \in Seq(Message) /\ inbox # <<>> /\ m \in Message /\ inbox' = Tail(inbox)
      /\ UNCHANGED <<buffer, payload, accepted, posted, dropped>>
  BY NextInInboxType DEF TypeOK, TakeFirst, TakeMore
<1>2. /\ Carried(inbox) = m.carries \cup Carried(inbox')
      /\ m.carries \cap Carried(inbox') = {}
      /\ Apart(inbox')
  BY <1>1, CarriedTail DEF Places, OncePerPlace
<1>3. Carried(msgs') = Carried(msgs) \cup m.carries /\ Apart(msgs')
  <2>1. CASE TakeFirst
    <3>1. msgs = <<>> /\ msgs' = <<m>>
      BY <2>1 DEF TakeFirst, EndInOrder
    <3>2. Carried(msgs) = {}
      BY <3>1, CarriedNone
    <3> QED BY <1>1, <3>1, <3>2, CarriedOne
  <2>2. CASE TakeMore
    <3>1. msgs \in Seq(Message) /\ Apart(msgs) /\ msgs' = Append(msgs, m)
      BY <2>2 DEF TypeOK, Places, OncePerPlace, TakeMore
    <3>2. Carried(msgs) \cap m.carries = {}
      BY <1>2 DEF Places, PlacesDisjoint
    <3> QED BY <1>1, <3>1, <3>2, CarriedAppend
  <2> QED BY <2>1, <2>2
<1> HIDE DEF m
<1>4. InPayloads' = InPayloads /\ Pending' = Pending
  BY <1>1, PayloadsUntouched DEF Pending
<1>5. PlacesHoldPending'
  BY <1>1, <1>2, <1>3, <1>4 DEF Places, PlacesHoldPending
<1>6. PlacesDisjoint'
  <2>1. /\ Carried(inbox') \cap Carried(msgs') = {}
        /\ Carried(inbox') \cup Carried(msgs') = Carried(inbox) \cup Carried(msgs)
    BY <1>2, <1>3 DEF Places, PlacesDisjoint
  <2> QED BY <1>1, <1>4, <2>1 DEF Places, PlacesDisjoint
<1>7. OncePerPlace' /\ Settled'
  BY <1>1, <1>2, <1>3 DEF Places, OncePerPlace, Settled
<1> QED BY <1>5, <1>6, <1>7 DEF Places

(* The message in hand is done with, and carried nothing.                    *)
LEMMA PlacesAfterEmpty ==
  ASSUME TypeOK, Places, InHand("FLUSH"), msgs' = Tail(msgs),
         UNCHANGED <<inbox, buffer, payload, accepted, posted, dropped>>
  PROVE  Places'
<1>1. msgs \in Seq(Message) /\ msgs # <<>> /\ Apart(msgs) /\ Head(msgs).carries = {}
  BY NextMessageType, CarriesByType DEF TypeOK, InHand, Places, OncePerPlace
<1>2. Carried(msgs') = Carried(msgs) /\ Apart(msgs')
  BY <1>1, CarriedTail
<1>3. Carried(inbox') = Carried(inbox) /\ Apart(inbox') = Apart(inbox)
  OBVIOUS
<1>4. InPayloads' = InPayloads /\ Pending' = Pending
  BY PayloadsUntouched DEF Pending
<1> QED BY <1>2, <1>3, <1>4
        DEF Places, PlacesHoldPending, PlacesDisjoint, OncePerPlace, Settled

LEMMA PlacesAfterEvent ==
  ASSUME TypeOK, Places, PutEventsToBuffer
  PROVE  Places'
<1> USE DEF gateVars
<1>1. msgs \in Seq(Message) /\ msgs # <<>> /\ Apart(msgs) /\ Head(msgs) \in Message
        /\ Head(msgs).type = "EVENT"
  BY NextMessageType DEF TypeOK, InHand, Places, OncePerPlace, PutEventsToBuffer
<1>2. PICK e \in Events : Head(msgs).carries = {e}
  BY <1>1, CarriesByType
<1>3. /\ msgs' = Tail(msgs)
      /\ \/ buffer' = Append(buffer, e) /\ UNCHANGED dropped
         \/ dropped' = dropped \cup {e} /\ UNCHANGED buffer
      /\ UNCHANGED <<inbox, payload, accepted, posted>>
  BY <1>2 DEF PutEventsToBuffer
<1>4. /\ Carried(msgs) = {e} \cup Carried(msgs') /\ e \notin Carried(msgs')
      /\ Apart(msgs')
  BY <1>1, <1>2, <1>3, CarriedTail
<1>5. /\ e \in Pending /\ e \notin Carried(inbox)
      /\ e \notin ToSet(buffer) /\ e \notin InPayloads
  BY <1>4 DEF Places, PlacesHoldPending, PlacesDisjoint
<1>6. e \in accepted /\ posted[e] = 0
  BY <1>5 DEF Pending
<1>7. Carried(inbox') = Carried(inbox) /\ Apart(inbox') = Apart(inbox)
        /\ InPayloads' = InPayloads
  BY <1>3, PayloadsUntouched
<1>8. CASE buffer' = Append(buffer, e) /\ UNCHANGED dropped
  <2>1. ToSet(buffer') = ToSet(buffer) \cup {e} /\ OnceIn(buffer')
    <3>1. buffer \in Seq(Events) /\ OnceIn(buffer)
      BY DEF TypeOK, Places, OncePerPlace
    <3> QED BY <1>5, <1>8, <3>1, OneMoreEvent
  <2>2. Pending' = Pending
    BY <1>3, <1>8 DEF Pending
  <2>3. PlacesHoldPending'
    BY <1>4, <1>7, <2>1, <2>2 DEF Places, PlacesHoldPending
  <2>4. PlacesDisjoint'
    BY <1>3, <1>4, <1>5, <1>7, <2>1 DEF Places, PlacesDisjoint
  <2>5. OncePerPlace' /\ Settled'
    BY <1>3, <1>4, <1>7, <1>8, <2>1 DEF Places, OncePerPlace, Settled
  <2> QED BY <2>3, <2>4, <2>5 DEF Places
<1>9. CASE dropped' = dropped \cup {e} /\ UNCHANGED buffer
  <2>1. Pending' = Pending \ {e}
    BY <1>3, <1>9 DEF Pending
  <2>2. PlacesHoldPending'
    BY <1>4, <1>5, <1>7, <1>9, <2>1 DEF Places, PlacesHoldPending
  <2>3. PlacesDisjoint'
    BY <1>3, <1>4, <1>7, <1>9 DEF Places, PlacesDisjoint
  <2>4. OncePerPlace'
    BY <1>3, <1>4, <1>7, <1>9 DEF Places, OncePerPlace
  <2>5. Settled'
    BY <1>3, <1>6, <1>9 DEF Places, Settled
  <2> QED BY <2>2, <2>3, <2>4, <2>5 DEF Places
<1> QED BY <1>3, <1>8, <1>9

(* The buffer becomes the payload of a runner that has none.                 *)
LEMMA PlacesAfterHandover ==
  ASSUME TypeOK, Places, NEW r \in Runners, payload[r] = <<>>,
         payload' = [payload EXCEPT ![r] = buffer], buffer' = <<>>,
         Carried(msgs') = Carried(msgs), Apart(msgs'),
         UNCHANGED <<inbox, accepted, posted, dropped>>
  PROVE  Places'
<1>1. buffer \in Seq(Events) /\ OnceIn(buffer) /\ ToSet(payload[r]) = {}
        /\ ToSet(buffer) \cap InPayloads = {}
  BY NoEvents DEF TypeOK, Places, OncePerPlace, PlacesDisjoint
<1>2. /\ InPayloads' = InPayloads \cup ToSet(buffer)
      /\ \A u, v \in Runners : u # v => ToSet(payload'[u]) \cap ToSet(payload'[v]) = {}
      /\ \A u \in Runners : OnceIn(payload'[u])
  BY <1>1, PayloadReplaced DEF Places
<1>3. ToSet(buffer') = {} /\ OnceIn(buffer')
  BY NoEvents
<1>4. Carried(inbox') = Carried(inbox) /\ Apart(inbox') = Apart(inbox) /\ Pending' = Pending
  BY DEF Pending
<1>5. PlacesHoldPending'
  BY <1>2, <1>3, <1>4 DEF Places, PlacesHoldPending
<1>6. PlacesDisjoint'
  BY <1>2, <1>3, <1>4 DEF Places, PlacesDisjoint
<1>7. OncePerPlace' /\ Settled'
  BY <1>2, <1>3, <1>4 DEF Places, OncePerPlace, Settled
<1> QED BY <1>5, <1>6, <1>7 DEF Places

(* A part is sent, or what is left is given up.                              *)
LEMMA PartDone ==
  ASSUME TypeOK, Places, NEW r \in Runners, SendPart(r) \/ FailPart(r),
         UNCHANGED <<accepted>>
  PROVE  \E some \in SUBSET Events :
           /\ some \subseteq ToSet(payload[r])
           /\ OnceIn(payload'[r])
           /\ payload' = [payload EXCEPT ![r] = payload'[r]]
           /\ payload'[r] \in Seq(Events)
           /\ ToSet(payload'[r]) = ToSet(payload[r]) \ some
           /\ \/ /\ SendPart(r)
                 /\ \A e \in Events : posted'[e] = IF e \in some THEN posted[e] + 1 ELSE posted[e]
                 /\ UNCHANGED dropped
              \/ /\ FailPart(r)
                 /\ dropped' = dropped \cup some
                 /\ UNCHANGED posted
<1>1. payload[r] \in Seq(Events) /\ OnceIn(payload[r]) /\ ToSet(payload[r]) \subseteq Events
  BY PayloadTypes DEF TypeOK, Places, OncePerPlace
<1>2. CASE SendPart(r)
  <2> DEFINE some == ToSet(Part(r))
  <2>1. /\ ToSet(payload[r]) = some \cup ToSet(RestOf(r))
        /\ some \cap ToSet(RestOf(r)) = {}
        /\ OnceIn(RestOf(r))
        /\ \A e : Contains(Part(r), e) <=> e \in some
    BY <1>1, PartAndRest
  <2>2. payload' = [payload EXCEPT ![r] = RestOf(r)] /\ payload'[r] = RestOf(r)
          /\ RestOf(r) \in Seq(Events)
    BY <1>2, PayloadTypes DEF SendPart, TypeOK
  <2>3. \A e \in Events : posted'[e] = IF e \in some THEN posted[e] + 1 ELSE posted[e]
    BY <1>2, <2>1 DEF SendPart
  <2>4. UNCHANGED dropped
    BY <1>2 DEF SendPart
  <2>5. some \in SUBSET Events
    BY <1>1, <2>1
  <2> HIDE DEF some
  <2> QED BY <1>2, <2>1, <2>2, <2>3, <2>4, <2>5
<1>3. CASE FailPart(r)
  <2>1. payload' = [payload EXCEPT ![r] = <<>>] /\ payload'[r] = <<>>
          /\ dropped' = dropped \cup ToSet(payload[r]) /\ UNCHANGED posted
    BY <1>3 DEF FailPart, TypeOK, AfterFailure
  <2>2. ToSet(payload'[r]) = ToSet(payload[r]) \ ToSet(payload[r]) /\ OnceIn(payload'[r])
          /\ payload'[r] \in Seq(Events)
    BY <2>1, NoEvents, EmptySeq
  <2> QED BY <1>1, <1>3, <2>1, <2>2
<1> QED BY <1>2, <1>3

LEMMA PlacesAfterPart ==
  ASSUME TypeOK, Places, NEW r \in Runners, SendPart(r) \/ FailPart(r),
         UNCHANGED <<inbox, msgs, buffer, accepted>>
  PROVE  Places'
<1>1. PICK some \in SUBSET Events :
           /\ some \subseteq ToSet(payload[r])
           /\ OnceIn(payload'[r])
           /\ payload' = [payload EXCEPT ![r] = payload'[r]]
           /\ payload'[r] \in Seq(Events)
           /\ ToSet(payload'[r]) = ToSet(payload[r]) \ some
           /\ \/ /\ SendPart(r)
                 /\ \A e \in Events : posted'[e] = IF e \in some THEN posted[e] + 1 ELSE posted[e]
                 /\ UNCHANGED dropped
              \/ /\ FailPart(r)
                 /\ dropped' = dropped \cup some
                 /\ UNCHANGED posted
  BY PartDone
<1>2. ToSet(payload[r]) \subseteq InPayloads
  BY DEF InPayloads
<1>3. /\ InPayloads' = (InPayloads \ ToSet(payload[r])) \cup ToSet(payload'[r])
      /\ \A u, v \in Runners : u # v => ToSet(payload'[u]) \cap ToSet(payload'[v]) = {}
      /\ \A u \in Runners : OnceIn(payload'[u])
  <2>1. ToSet(payload'[r]) \cap (InPayloads \ ToSet(payload[r])) = {}
    BY <1>1
  <2> DEFINE q == payload'[r]
  <2>2. q \in Seq(Events) /\ OnceIn(q) /\ payload' = [payload EXCEPT ![r] = q]
          /\ ToSet(q) \cap (InPayloads \ ToSet(payload[r])) = {}
    BY <1>1, <2>1
  <2> HIDE DEF q
  <2>3. /\ InPayloads' = (InPayloads \ ToSet(payload[r])) \cup ToSet(q)
        /\ \A u, v \in Runners : u # v => ToSet(payload'[u]) \cap ToSet(payload'[v]) = {}
        /\ \A u \in Runners : OnceIn(payload'[u])
    BY <2>2, PayloadReplaced DEF Places
  <2> QED BY <2>3 DEF q
<1>4. InPayloads' = InPayloads \ some
  BY <1>1, <1>2, <1>3
<1>5. some \subseteq Pending
  BY <1>1, <1>2 DEF Places, PlacesHoldPending
<1>6. \A e \in some : e \in accepted /\ posted[e] = 0 /\ e \notin dropped
  BY <1>5 DEF Pending
<1>7. Pending' = Pending \ some
  <2>1. \A e \in accepted : e \in Events /\ posted[e] \in Nat
    BY DEF TypeOK
  <2>2. CASE SendPart(r)
    <3>1. UNCHANGED dropped
      BY <2>2 DEF SendPart
    <3>2. \A e \in Events : posted'[e] = IF e \in some THEN posted[e] + 1 ELSE posted[e]
      <4>1. CASE FailPart(r)
        BY <2>2, <4>1 DEF SendPart, FailPart
      <4> QED BY <1>1, <4>1
    <3>3. \A e \in Events : posted'[e] = 0 <=> posted[e] = 0 /\ e \notin some
      BY <1>6, <3>2
    <3> QED BY <2>1, <3>1, <3>3 DEF Pending
  <2>3. CASE ~SendPart(r)
    BY <1>1, <2>1, <2>3 DEF Pending
  <2> QED BY <2>2, <2>3
<1>8. Carried(inbox') = Carried(inbox) /\ Apart(inbox') = Apart(inbox)
        /\ Carried(msgs') = Carried(msgs) /\ Apart(msgs') = Apart(msgs)
  OBVIOUS
<1>9. some \cap (Carried(inbox) \cup Carried(msgs) \cup ToSet(buffer)) = {}
  BY <1>1, <1>2 DEF Places, PlacesDisjoint
<1>10. PlacesHoldPending'
  BY <1>4, <1>7, <1>8, <1>9 DEF Places, PlacesHoldPending
<1>11. PlacesDisjoint'
  BY <1>3, <1>4, <1>8 DEF Places, PlacesDisjoint
<1>12. OncePerPlace'
  BY <1>3, <1>8 DEF Places, OncePerPlace
<1>13. Settled'
  <2>1. CASE UNCHANGED dropped /\ \A e \in Events :
               posted'[e] = IF e \in some THEN posted[e] + 1 ELSE posted[e]
    BY <1>6, <2>1 DEF Places, Settled
  <2>2. CASE dropped' = dropped \cup some /\ UNCHANGED posted
    BY <1>6, <2>2 DEF Places, Settled
  <2> QED BY <1>1, <2>1, <2>2
<1> QED BY <1>10, <1>11, <1>12, <1>13 DEF Places

LEMMA StepPlaces ==
  ASSUME Inv, [Next]_vars
  PROVE  Places'
<1> USE DEF gateVars, stopVars, poolVars, outVars, dispatchVars
<1>0. TypeOK /\ EndInOrder /\ IdleHaveNothing /\ Places
  BY DEF Inv
<1>1. CASE UNCHANGED <<inbox, msgs, buffer, payload, accepted, posted, dropped>>
  BY <1>0, <1>1, PlacesStay
<1>2. ASSUME NEW e \in Events, SendEvent(e) PROVE Places'
  <2>1. CASE Admits
    BY <1>0, <1>2, <2>1, PlacesAfterSend
  <2>2. CASE ~Admits
    BY <1>1, <1>2, <2>2 DEF SendEvent
  <2> QED BY <2>1, <2>2
<1>3. CASE Flush
  <2>1. FlushMessage \in Message /\ FlushMessage.carries = {}
    BY MessageTypes DEF FlushMessage
  <2>2. inbox' = Append(inbox, FlushMessage)
          /\ UNCHANGED <<msgs, buffer, payload, accepted, posted, dropped>>
    BY <1>3 DEF Flush
  <2> QED BY <1>0, <2>1, <2>2, PlacesAfterPut
<1>4. ASSUME NEW s \in Stoppers, PutShutdown(s) PROVE Places'
  <2>1. ShutdownMessage \in Message /\ ShutdownMessage.carries = {}
    BY MessageTypes DEF ShutdownMessage
  <2>2. inbox' = Append(inbox, ShutdownMessage)
          /\ UNCHANGED <<msgs, buffer, payload, accepted, posted, dropped>>
    BY <1>4 DEF PutShutdown
  <2> QED BY <1>0, <2>1, <2>2, PlacesAfterPut
<1>5. CASE TakeFirst \/ TakeMore
  BY <1>0, <1>5, PlacesAfterTake
<1>6. CASE PutEventsToBuffer
  BY <1>0, <1>6, PlacesAfterEvent
<1>7. CASE NoFlush \/ SubmitFails
  <2>1. InHand("FLUSH") /\ msgs' = Tail(msgs)
          /\ UNCHANGED <<inbox, buffer, payload, accepted, posted, dropped>>
    BY <1>7 DEF NoFlush, SubmitFails
  <2> QED BY <1>0, <2>1, PlacesAfterEmpty
<1>8. ASSUME NEW w \in Workers, Submit(w) PROVE Places'
  <2>1. w \in Runners /\ payload[w] = <<>>
    BY <1>0, <1>8 DEF Runners, Submit, IdleHaveNothing
  <2>2. InHand("FLUSH") /\ msgs' = Tail(msgs)
          /\ payload' = [payload EXCEPT ![w] = buffer] /\ buffer' = <<>>
          /\ UNCHANGED <<inbox, accepted, posted, dropped>>
    BY <1>8 DEF Submit, BufferAfterFlush
  <2>3. msgs \in Seq(Message) /\ msgs # <<>> /\ Apart(msgs) /\ Head(msgs).carries = {}
    BY <1>0, <2>2, NextMessageType, CarriesByType
    DEF TypeOK, InHand, Places, OncePerPlace
  <2>4. Carried(msgs') = Carried(msgs) /\ Apart(msgs')
    <3>1. Carried(Tail(msgs)) = Carried(msgs) /\ Apart(Tail(msgs))
      BY <2>3, CarriedTail
    <3> QED BY <2>2, <3>1
  <2> QED BY <1>0, <2>1, <2>2, <2>4, PlacesAfterHandover
<1>9. CASE AwaitWorkers
  <2>1. CASE AllPermitsBack
    <3>1. Dispatcher \in Runners /\ payload[Dispatcher] = <<>>
      BY <1>0, <1>9 DEF Runners, AwaitWorkers, IdleHaveNothing
    <3>2. payload' = [payload EXCEPT ![Dispatcher] = buffer] /\ buffer' = <<>>
            /\ UNCHANGED <<inbox, msgs, accepted, posted, dropped>>
      BY <1>9, <2>1 DEF AwaitWorkers, FinalPayload
    <3>3. Carried(msgs') = Carried(msgs) /\ Apart(msgs')
      BY <1>0, <3>2 DEF Places, OncePerPlace
    <3> QED BY <1>0, <3>1, <3>2, <3>3, PlacesAfterHandover
  <2>2. CASE ~AllPermitsBack
    BY <1>1, <1>9, <2>2 DEF AwaitWorkers
  <2> QED BY <2>1, <2>2
<1>10. ASSUME NEW r \in Runners, SendPart(r) \/ FailPart(r),
              UNCHANGED <<inbox, msgs, buffer, accepted>>
       PROVE  Places'
  BY <1>0, <1>10, PlacesAfterPart
<1>11. CASE FinalSend \/ \E w \in Workers : RunWorker(w)
  BY <1>10, <1>11 DEF FinalSend, RunWorker, Runners
<1>12. \/ UNCHANGED <<inbox, msgs, buffer, payload, accepted, posted, dropped>>
       \/ (\E e \in Events : SendEvent(e)) \/ Flush
       \/ (\E s \in Stoppers : PutShutdown(s))
       \/ TakeFirst \/ TakeMore \/ PutEventsToBuffer \/ NoFlush \/ SubmitFails
       \/ (\E w \in Workers : Submit(w)) \/ AwaitWorkers
       \/ FinalSend \/ (\E w \in Workers : RunWorker(w))
  BY DEF Next, Dispatch, Work, Terminated, CloseGate, StopReturns, SelfStop,
     RequestShutdown, BatchTaken, BatchDone, BeginShutdown, StopSender, Exit,
     ReleasePermit, NotifyDispatcher, vars
<1> QED BY <1>1, <1>2, <1>3, <1>4, <1>5, <1>6, <1>7, <1>8, <1>9, <1>11, <1>12

LEMMA InitInv == Init => Inv
<1> SUFFICES ASSUME Init PROVE Inv
  OBVIOUS
<1>1. TypeOK /\ PermitsAccounted
  BY InitType, InitAccounted
<1>2. OneCloser /\ MarkerLast
  BY NoMarkerInNone DEF Init, OneCloser, Closing, MarkerLast
<1>3. EndInOrder
  BY DEF Init, EndInOrder, ShuttingDown
<1>4. IdleHaveNothing
  BY DEF Init, IdleHaveNothing, Runners
<1>5. Carried(inbox) = {} /\ Carried(msgs) = {} /\ ToSet(buffer) = {}
        /\ Apart(inbox) /\ Apart(msgs) /\ OnceIn(buffer)
  BY CarriedNone, NoEvents DEF Init
<1>6. \A r \in Runners : ToSet(payload[r]) = {} /\ OnceIn(payload[r])
  BY NoEvents DEF Init
<1>7. InPayloads = {} /\ Pending = {}
  BY <1>6 DEF InPayloads, Pending, Init
<1>8. Settled
  BY DEF Init, Settled
<1> QED BY <1>1, <1>2, <1>3, <1>4, <1>5, <1>6, <1>7, <1>8
        DEF Inv, Places, PlacesHoldPending, PlacesDisjoint, OncePerPlace

LEMMA StepInv == Inv /\ [Next]_vars => Inv'
<1> SUFFICES ASSUME Inv, [Next]_vars PROVE Inv'
  OBVIOUS
<1>1. PermitsAccounted'
  BY StepAccounted DEF Inv
<1>2. TypeOK'
  BY <1>1, StepType DEF Inv
<1>3. OneCloser' /\ MarkerLast'
  BY StepCloser, StepMarker DEF Inv
<1>4. EndInOrder'
  BY StepEnd DEF Inv, Places
<1>5. IdleHaveNothing'
  BY StepIdle DEF Inv
<1>6. Places'
  BY StepPlaces
<1> QED BY <1>1, <1>2, <1>3, <1>4, <1>5, <1>6 DEF Inv

LEMMA Invariance == Spec => []Inv
<1> QED BY InitInv, StepInv, PTL DEF Spec

(* When the dispatcher has sent the rest no event is waiting anywhere.       *)
LEMMA SentIsEmpty ==
  ASSUME Inv, pc \in {"final", "exit", "dead"}, payload[Dispatcher] = <<>>
  PROVE  Pending = {}
<1>1. Carried(inbox) = {} /\ Carried(msgs) = {} /\ ToSet(buffer) = {}
  BY CarriedNone, NoEvents DEF Inv, EndInOrder, ShuttingDown
<1>2. \A r \in Runners : payload[r] = <<>>
  BY DEF Inv, EndInOrder, IdleHaveNothing, Runners
<1>3. InPayloads = {}
  BY <1>2, NoEvents DEF InPayloads
<1> QED BY <1>1, <1>3 DEF Inv, Places, PlacesHoldPending

(* When the sender is stopped no event is pending, no message is in the      *)
(* inbox and no worker is busy; and a stop that waited returns only then.    *)
THEOREM StopSeesEverythingOut == Spec => []StoppedMeansDone
<1>1. Inv => StoppedMeansDone
  <2> SUFFICES ASSUME Inv PROVE StoppedMeansDone
    OBVIOUS
  <2>1. senderStopped => Pending = {}
    BY SentIsEmpty DEF Inv, EndInOrder, IdleHaveNothing
  <2> QED BY <2>1 DEF Inv, EndInOrder, ShuttingDown, StoppedMeansDone
<1> QED BY <1>1, Invariance, PTL

-----------------------------------------------------------------------------
(* The processor implements the sink *)

LEMMA SinkInit == Init => Sink!Init
BY DEF Init, Sink!Init, Pending

LEMMA SinkStays ==
  ASSUME UNCHANGED <<closed, accepted, posted, dropped, senderStopped>>
  PROVE  UNCHANGED Sink!vars
BY DEF Sink!vars, Pending

LEMMA SinkAccepts ==
  ASSUME Inv, NEW e \in Events, SendEvent(e), Admits
  PROVE  Sink!Accept(e)
<1> USE DEF outVars, dispatchVars
<1>1. /\ accepted' = accepted \cup {e} /\ UNCHANGED <<closed, posted, dropped, senderStopped>>
      /\ e \notin accepted /\ ~closed
  BY DEF SendEvent, Admits, Inv, TypeOK
<1>2. posted[e] = 0 /\ e \notin dropped /\ e \notin Pending
  BY <1>1 DEF Inv, Places, Settled, Pending
<1>3. Pending' = Pending \cup {e}
  BY <1>1, <1>2 DEF Pending
<1> QED BY <1>1, <1>2, <1>3 DEF Sink!Accept

LEMMA SinkSettles ==
  ASSUME Inv, NEW r \in Runners, SendPart(r) \/ FailPart(r), ~senderStopped,
         UNCHANGED <<closed, accepted, senderStopped>>
  PROVE  \E some \in SUBSET Events : Sink!Deliver(some) \/ Sink!GiveUp(some)
<1>1. TypeOK /\ Places
  BY DEF Inv
<1>2. PICK some \in SUBSET Events :
           /\ some \subseteq ToSet(payload[r])
           /\ \/ /\ \A e \in Events : posted'[e] = IF e \in some THEN posted[e] + 1 ELSE posted[e]
                 /\ UNCHANGED dropped
              \/ /\ dropped' = dropped \cup some
                 /\ UNCHANGED posted
  BY <1>1, PartDone
<1>3. some \subseteq Pending
  BY <1>1, <1>2 DEF Places, PlacesHoldPending, InPayloads
<1>4. \A e \in accepted : e \in Events
  BY <1>1 DEF TypeOK
<1>5. \A e \in Events : posted[e] \in Nat
  BY <1>1 DEF TypeOK
<1>6. CASE UNCHANGED dropped /\ \A e \in Events :
             posted'[e] = IF e \in some THEN posted[e] + 1 ELSE posted[e]
  <2>1. \A e \in some : posted[e] = 0
    BY <1>3 DEF Pending
  <2>2. \A e \in Events : posted'[e] = 0 <=> posted[e] = 0 /\ e \notin some
    BY <1>5, <1>6, <2>1
  <2>3. \A e \in Events : posted'[e] > 0 <=> posted[e] > 0 \/ e \in some
    BY <1>5, <1>6, <2>1
  <2>4. Pending' = Pending \ some
    BY <1>4, <1>6, <2>2 DEF Pending
  <2>5. {e \in Events : posted[e] > 0}' = {e \in Events : posted[e] > 0} \cup some
    BY <2>3
  <2> QED BY <1>3, <1>6, <2>4, <2>5 DEF Sink!Deliver
<1>7. CASE dropped' = dropped \cup some /\ UNCHANGED posted
  <2>1. Pending' = Pending \ some
    BY <1>7 DEF Pending
  <2> QED BY <1>3, <1>7, <2>1 DEF Sink!GiveUp
<1> QED BY <1>2, <1>6, <1>7

LEMMA SinkSkips ==
  ASSUME Inv, PutEventsToBuffer
  PROVE  UNCHANGED Sink!vars \/ \E some \in SUBSET Events : Sink!GiveUp(some)
<1> USE DEF gateVars, stopVars, poolVars
<1>1. TypeOK /\ Places /\ msgs # <<>> /\ Head(msgs) \in Message /\ ~senderStopped
        /\ Head(msgs).type = "EVENT"
  BY NextMessageType DEF Inv, InHand, PutEventsToBuffer, EndInOrder
<1>2. PICK e \in Events : Head(msgs).carries = {e}
  BY <1>1, CarriesByType
<1>3. e \in Pending
  <2>1. e \in Carried(msgs)
    <3>1. msgs \in Seq(Message) /\ Apart(msgs)
      BY <1>1 DEF TypeOK, Places, OncePerPlace
    <3> QED BY <1>1, <1>2, <3>1, CarriedTail
  <2> QED BY <1>1, <2>1 DEF Places, PlacesHoldPending
<1>4. UNCHANGED <<closed, accepted, posted, senderStopped>>
  BY DEF PutEventsToBuffer
<1>5. CASE UNCHANGED dropped
  BY <1>4, <1>5, SinkStays
<1>6. CASE dropped' = dropped \cup {e}
  <2>1. Pending' = Pending \ {e}
    BY <1>4, <1>6 DEF Pending
  <2>2. Sink!GiveUp({e})
    BY <1>1, <1>3, <1>4, <1>6, <2>1 DEF Sink!GiveUp
  <2> QED BY <2>2
<1> QED BY <1>2, <1>5, <1>6 DEF PutEventsToBuffer

LEMMA SinkStep ==
  ASSUME Inv, [Next]_vars
  PROVE  [Sink!Next]_Sink!vars
<1> USE DEF gateVars, stopVars, poolVars, outVars, dispatchVars
<1>1. CASE UNCHANGED <<closed, accepted, posted, dropped, senderStopped>>
  BY <1>1, SinkStays
<1>2. ASSUME NEW e \in Events, SendEvent(e) PROVE [Sink!Next]_Sink!vars
  <2>1. CASE Admits
    BY <1>2, <2>1, SinkAccepts DEF Sink!Next
  <2>2. CASE ~Admits
    BY <1>1, <1>2, <2>2 DEF SendEvent
  <2> QED BY <2>1, <2>2
<1>3. CASE SelfStop \/ \E s \in Stoppers : CloseGate(s)
  <2>1. closed' = TRUE /\ UNCHANGED <<accepted, posted, dropped, senderStopped>>
    BY <1>3 DEF SelfStop, CloseGate
  <2>2. Pending' = Pending
    BY <2>1 DEF Pending
  <2>3. CASE closed
    <3>1. UNCHANGED closed
      BY <2>1, <2>3 DEF Inv, TypeOK
    <3> QED BY <1>1, <2>1, <3>1
  <2>4. CASE ~closed
    <3>1. Sink!Close
      BY <2>1, <2>2, <2>4 DEF Sink!Close
    <3> QED BY <3>1 DEF Sink!Next
  <2> QED BY <2>3, <2>4
<1>4. CASE PutEventsToBuffer
  BY <1>4, SinkSkips DEF Sink!Next
<1>5. CASE FinalSend \/ \E w \in Workers : RunWorker(w)
  <2>1. PICK r \in Runners : SendPart(r) \/ FailPart(r)
    BY <1>5 DEF FinalSend, RunWorker, Runners
  <2>2. UNCHANGED <<closed, accepted, senderStopped>>
    BY <1>5 DEF FinalSend, RunWorker
  <2>3. ~senderStopped
    <3>1. CASE FinalSend
      BY <3>1 DEF FinalSend, Inv, EndInOrder
    <3>2. CASE \E w \in Workers : RunWorker(w)
      BY <3>2 DEF RunWorker, Inv, EndInOrder
    <3> QED BY <1>5, <3>1, <3>2
  <2> QED BY <2>1, <2>2, <2>3, SinkSettles DEF Sink!Next
<1>6. CASE StopSender
  <2>1. senderStopped' = TRUE /\ UNCHANGED <<closed, accepted, posted, dropped>>
    BY <1>6 DEF StopSender
  <2>2. closed
    BY <1>6 DEF StopSender, Inv, EndInOrder, ShuttingDown
  <2>3. Pending = {}
    BY <1>6, SentIsEmpty DEF StopSender
  <2>4. Pending' = {}
    BY <2>1, <2>3 DEF Pending
  <2>5. Sink!Finish
    BY <2>1, <2>2, <2>3, <2>4 DEF Sink!Finish
  <2> QED BY <2>5 DEF Sink!Next
<1>7. \/ UNCHANGED <<closed, accepted, posted, dropped, senderStopped>>
      \/ (\E e \in Events : SendEvent(e)) \/ SelfStop \/ (\E s \in Stoppers : CloseGate(s))
      \/ PutEventsToBuffer \/ FinalSend \/ (\E w \in Workers : RunWorker(w)) \/ StopSender
  BY DEF Next, Dispatch, Work, Terminated, Flush, PutShutdown, StopReturns,
     RequestShutdown, TakeFirst, TakeMore, BatchTaken, BatchDone, NoFlush, Submit,
     SubmitFails, BeginShutdown, AwaitWorkers, Exit, ReleasePermit, NotifyDispatcher, vars
<1> QED BY <1>1, <1>2, <1>3, <1>4, <1>5, <1>6, <1>7

(* Queues, workers and the shutdown together are the sink: an event accepted *)
(* while the gate is open is pending until it is sent or given up, once, and *)
(* the processor is finished only when it is closed and nothing is pending.  *)
THEOREM ProcessorImplementsSink == Spec => ImplementsSink
<1>1. Spec => Sink!Init /\ [][Sink!Next]_Sink!vars
  BY Invariance, SinkInit, SinkStep, PTL DEF Spec
<1> QED BY <1>1 DEF ImplementsSink, Sink!Spec

-----------------------------------------------------------------------------
(* Counting the copies *)

LEMMA OneOrNone ==
  ASSUME NEW S, NEW x, S = {} \/ S = {x}
  PROVE  Cardinality(S) = IF S = {} THEN 0 ELSE 1
<1>1. CASE S = {}
  BY <1>1, FS_EmptySet
<1>2. CASE S = {x}
  BY <1>2, FS_Singleton
<1> QED BY <1>1, <1>2

LEMMA OneMessageCarries ==
  ASSUME NEW e, NEW q, Apart(q)
  PROVE  Cardinality({i \in 1..Len(q) : e \in q[i].carries}) = IF e \in Carried(q) THEN 1 ELSE 0
<1> DEFINE S == {i \in 1..Len(q) : e \in q[i].carries}
<1>1. CASE e \in Carried(q)
  <2>1. PICK i \in 1..Len(q) : e \in q[i].carries
    BY <1>1 DEF Carried
  <2>2. S = {i}
    BY <2>1 DEF Apart
  <2> QED BY <1>1, <2>2, OneOrNone
<1>2. CASE e \notin Carried(q)
  <2>1. S = {}
    BY <1>2 DEF Carried
  <2> QED BY <1>2, <2>1, OneOrNone
<1> QED BY <1>1, <1>2

LEMMA OneIndex ==
  ASSUME NEW e, NEW s \in Seq(Events), OnceIn(s)
  PROVE  \E i : {j \in 1..Len(s) : s[j] = e} = IF e \in ToSet(s) THEN {i} ELSE {}
<1>1. CASE e \in ToSet(s)
  <2>1. PICK i \in 1..Len(s) : s[i] = e
    BY <1>1, SetOf
  <2>2. {j \in 1..Len(s) : s[j] = e} = {i}
    BY <2>1 DEF OnceIn
  <2> QED BY <1>1, <2>2
<1>2. CASE e \notin ToSet(s)
  BY <1>2, SetOf
<1> QED BY <1>1, <1>2

LEMMA OneInPayloads ==
  ASSUME TypeOK, PlacesDisjoint, OncePerPlace, NEW e
  PROVE  LET at(q) == {i \in 1..Len(q) : q[i] = e}
         IN  Cardinality(UNION {{<<r, i>> : i \in at(payload[r])} : r \in Runners})
               = IF e \in InPayloads THEN 1 ELSE 0
<1> DEFINE at(q) == {i \in 1..Len(q) : q[i] = e}
           S == UNION {{<<r, i>> : i \in at(payload[r])} : r \in Runners}
<1>1. \A r \in Runners : \E i : at(payload[r]) = IF e \in ToSet(payload[r]) THEN {i} ELSE {}
  BY OneIndex DEF TypeOK, OncePerPlace
<1> HIDE DEF at
<1>2. CASE e \in InPayloads
  <2>1. PICK r \in Runners : e \in ToSet(payload[r])
    BY <1>2 DEF InPayloads
  <2>2. PICK i : at(payload[r]) = {i}
    BY <1>1, <2>1
  <2>3. \A u \in Runners : u # r => at(payload[u]) = {}
    BY <1>1, <2>1 DEF PlacesDisjoint
  <2>4. S = {<<r, i>>}
    BY <2>2, <2>3
  <2> QED BY <1>2, <2>4, OneOrNone DEF at
<1>3. CASE e \notin InPayloads
  <2>1. \A r \in Runners : at(payload[r]) = {}
    BY <1>1, <1>3 DEF InPayloads
  <2>2. S = {}
    BY <2>1
  <2> QED BY <1>3, <2>2, OneOrNone DEF at
<1> QED BY <1>2, <1>3 DEF at

(* Every accepted event is in exactly one place, once: the inbox, the batch, *)
(* the buffer, one payload, the sender's hands, or given up.                 *)
THEOREM NoEventLostOrDoubled == Spec => []ExactlyOnePlace
<1>1. ASSUME Inv, NEW e \in Events
      PROVE  Copies(e) = IF e \in accepted THEN 1 ELSE 0
  <2>1. TypeOK /\ PlacesHoldPending /\ PlacesDisjoint /\ OncePerPlace /\ Settled
    BY <1>1 DEF Inv, Places
  <2> DEFINE at(q) == {i \in 1..Len(q) : q[i] = e}
             by(q) == {i \in 1..Len(q) : e \in q[i].carries}
             out   == UNION {{<<r, i>> : i \in at(payload[r])} : r \in Runners}
             a == Cardinality(by(inbox))
             b == Cardinality(by(msgs))
             c == Cardinality(at(buffer))
             d == Cardinality(out)
             f == IF e \in dropped THEN 1 ELSE 0
  <2>2. Copies(e) = a + b + c + d + posted[e] + f
    BY DEF Copies
  <2>3. a = (IF e \in Carried(inbox) THEN 1 ELSE 0) /\ b = (IF e \in Carried(msgs) THEN 1 ELSE 0)
    BY <2>1, OneMessageCarries DEF OncePerPlace
  <2>4. c = IF e \in ToSet(buffer) THEN 1 ELSE 0
    <3>1. PICK i : at(buffer) = IF e \in ToSet(buffer) THEN {i} ELSE {}
      BY <2>1, OneIndex DEF TypeOK, OncePerPlace
    <3> HIDE DEF at
    <3> QED BY <3>1, OneOrNone
  <2>5. d = IF e \in InPayloads THEN 1 ELSE 0
    BY <2>1, OneInPayloads
  <2> HIDE DEF a, b, c, d
  <2>6. CASE e \in Pending
    <3>1. e \in accepted /\ posted[e] = 0 /\ f = 0
      BY <2>6 DEF Pending
    <3>2. a + b + c + d = 1
      BY <2>1, <2>3, <2>4, <2>5, <2>6 DEF PlacesHoldPending, PlacesDisjoint
    <3> QED BY <2>2, <3>1, <3>2
  <2>7. CASE e \notin Pending
    <3>1. a = 0 /\ b = 0 /\ c = 0 /\ d = 0
      BY <2>1, <2>3, <2>4, <2>5, <2>7 DEF PlacesHoldPending
    <3>2. posted[e] + f = IF e \in accepted THEN 1 ELSE 0
      BY <2>1, <2>7 DEF Settled, Pending
    <3>3. posted[e] \in Nat /\ f \in Nat
      BY <2>1 DEF TypeOK
    <3> HIDE DEF f
    <3> QED BY <2>2, <3>1, <3>2, <3>3
  <2> QED BY <2>6, <2>7
<1>2. Inv => ExactlyOnePlace
  BY <1>1 DEF ExactlyOnePlace
<1> QED BY <1>2, Invariance, PTL
=============================================================================

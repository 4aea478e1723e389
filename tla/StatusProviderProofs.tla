------------------------ MODULE StatusProviderProofs ------------------------
(***************************************************************************)
(* Proofs about StatusProvider, for any threads, listeners and bound.      *)
(***************************************************************************)
EXTENDS StatusProvider, StatusTypesProofs, SequenceTheorems

(* Taking one position out of a sequence leaves a sequence.                  *)
LEMMA RemoveAtType ==
  ASSUME NEW S, NEW s \in Seq(S), NEW i \in 1..Len(s)
  PROVE  RemoveAt(s, i) \in Seq(S)
<1>1. SubSeq(s, 1, i-1) \in Seq(S)
  <2>1. \A j \in 1..(i-1) : s[j] \in S
    BY ElementOfSeq
  <2> QED BY <2>1, SubSeqProperties
<1>2. SubSeq(s, i+1, Len(s)) \in Seq(S)
  BY SubSeqProperties, ElementOfSeq
<1> QED BY <1>1, <1>2, ConcatProperties DEF RemoveAt

(* A publisher between two calls has somebody left to call: the loop over    *)
(* the listeners never takes one from an empty rest.                         *)
SomebodyLeft == \A u \in Updaters : pc[u] = "between" => batch[u].to # <<>>

TypeInv == TypeOK /\ SomebodyLeft

LEMMA InitTypeInv == Init => TypeInv
<1> SUFFICES ASSUME Init PROVE TypeInv
  OBVIOUS
<1>1. current \in State
  BY DEF Init, IntializingState, State, StateType
<1>2. listeners \in Seq(Listeners) /\ queue \in Seq(Notification)
  BY DEF Init
<1>3. NoBatch \in Notification
  BY DEF NoBatch, Notification
<1>4. pc \in [Updaters -> UpdaterPc] /\ waiting \in [Waiters -> WaiterPc]
  BY DEF Init, UpdaterPc, WaiterPc, Answers
<1>5. SomebodyLeft
  BY DEF Init, SomebodyLeft
<1> QED BY <1>1, <1>2, <1>3, <1>4, <1>5 DEF Init, TypeInv, TypeOK

LEMMA StepTypeInv == TypeInv /\ [Next]_vars => TypeInv'
<1> SUFFICES ASSUME TypeInv, [Next]_vars PROVE TypeInv'
  OBVIOUS
<1> USE DEF TypeInv
<1>1. ASSUME NEW u \in Updaters, NEW request \in Requests, UpdateState(u, request)
      PROVE  TypeInv'
  <2>1. current' \in State
    BY <1>1, RequestsAreStates, AfterUpdateType DEF TypeOK, UpdateState
  <2>2. waiting' \in [Waiters -> WaiterPc]
    BY <1>1 DEF TypeOK, UpdateState, Woken, WaiterPc, Answers
  <2>3. queue' \in Seq(Notification)
    <3>1. [id |-> published + 1, to |-> listeners] \in Notification
      BY DEF TypeOK, Notification
    <3> QED BY <1>1, <3>1, AppendProperties DEF TypeOK, UpdateState
  <2>4. pc' \in [Updaters -> UpdaterPc] /\ SomebodyLeft'
    BY <1>1 DEF TypeOK, UpdateState, UpdaterPc, SomebodyLeft
  <2> QED BY <1>1, <2>1, <2>2, <2>3, <2>4 DEF TypeOK, UpdateState
<1>2. ASSUME NEW u \in Updaters, Publish(u) PROVE TypeInv'
  <2>1. CASE TakeNext(u)
    <3>1. Head(queue) \in Notification /\ Tail(queue) \in Seq(Notification)
      BY <2>1, HeadTailProperties DEF TypeOK, TakeNext
    <3> QED BY <2>1, <3>1 DEF TypeOK, TakeNext, UpdaterPc, SomebodyLeft
  <2>2. CASE StopPublishing(u)
    BY <2>2 DEF TypeOK, StopPublishing, UpdaterPc, SomebodyLeft
  <2>3. CASE CallListener(u)
    <3>1. batch[u] \in Notification /\ batch[u].to # <<>>
      BY <2>3 DEF TypeOK, CallListener, SomebodyLeft
    <3>2. /\ batch[u].id \in Nat
          /\ Head(batch[u].to) \in Listeners
          /\ Tail(batch[u].to) \in Seq(Listeners)
      BY <3>1, HeadTailProperties DEF Notification
    <3>3. [batch[u] EXCEPT !.to = Tail(batch[u].to)] \in Notification
      BY <3>1, <3>2 DEF Notification
    <3> QED BY <2>3, <3>2, <3>3 DEF TypeOK, CallListener, UpdaterPc, SomebodyLeft
  <2>4. CASE ListenerReturns(u)
    BY <2>4 DEF TypeOK, ListenerReturns, UpdaterPc, SomebodyLeft
  <2> QED BY <1>2, <2>1, <2>2, <2>3, <2>4 DEF Publish
<1>3. ASSUME NEW l \in Listeners, AddListener(l) PROVE TypeInv'
  BY <1>3, AppendProperties DEF TypeOK, AddListener, SomebodyLeft
<1>4. ASSUME NEW l \in Listeners, RemoveListener(l) PROVE TypeInv'
  BY <1>4, RemoveAtType DEF TypeOK, RemoveListener, SomebodyLeft
<1>5. ASSUME NEW w \in Waiters, CallWait(w) \/ LookAgain(w) \/ Expire(w)
      PROVE  TypeInv'
  <2>1. Look(FALSE) \in WaiterPc /\ Look(waiting[w] = "expired") \in WaiterPc
    BY DEF Look, WaiterPc, Answers
  <2> QED BY <1>5, <2>1 DEF TypeOK, CallWait, LookAgain, Expire, feedVars,
                             WaiterPc, Answers, SomebodyLeft
<1>6. CASE UNCHANGED vars
  BY <1>6 DEF TypeOK, vars, SomebodyLeft
<1> QED BY <1>1, <1>2, <1>3, <1>4, <1>5, <1>6 DEF Next

(* Every variable keeps its type: the code's fields hold what their          *)
(* declarations say, whatever the threads do.                                *)
THEOREM Typing == Spec => []TypeOK
<1>1. TypeInv => TypeOK
  BY DEF TypeInv
<1> QED BY <1>1, InitTypeInv, StepTypeInv, PTL DEF Spec

-----------------------------------------------------------------------------

LEMMA StepOnePublisher ==
  TypeOK /\ OnePublisher /\ [Next]_vars => OnePublisher'
<1> SUFFICES ASSUME TypeOK, OnePublisher, [Next]_vars PROVE OnePublisher'
  OBVIOUS
<1> USE DEF OnePublisher, Publishers
<1>1. ASSUME NEW u \in Updaters, NEW request \in Requests, UpdateState(u, request)
      PROVE  OnePublisher'
  <2>1. CASE publishing
    BY <1>1, <2>1 DEF TypeOK, UpdateState, BecomesPublisher
  <2>2. CASE ~publishing
    <3>1. Publishers' = {u}
      BY <1>1, <2>2 DEF TypeOK, UpdateState, BecomesPublisher
    <3> QED BY <1>1, <3>1 DEF UpdateState
  <2> QED BY <2>1, <2>2
<1>2. ASSUME NEW u \in Updaters, Publish(u) PROVE OnePublisher'
  <2>1. CASE TakeNext(u)
    <3>1. Publishers' = Publishers
      BY <2>1 DEF TypeOK, TakeNext
    <3> QED BY <2>1, <3>1 DEF TakeNext
  <2>2. CASE StopPublishing(u)
    <3>1. Publishers' = {}
      BY <2>2 DEF TypeOK, StopPublishing
    <3> QED BY <2>2, <3>1 DEF StopPublishing
  <2>3. CASE CallListener(u)
    BY <2>3 DEF TypeOK, CallListener
  <2>4. CASE ListenerReturns(u)
    BY <2>4 DEF TypeOK, ListenerReturns
  <2> QED BY <1>2, <2>1, <2>2, <2>3, <2>4 DEF Publish
<1>3. ASSUME NEW l \in Listeners, AddListener(l) \/ RemoveListener(l)
      PROVE  OnePublisher'
  BY <1>3 DEF AddListener, RemoveListener
<1>4. ASSUME NEW w \in Waiters, CallWait(w) \/ LookAgain(w) \/ Expire(w)
      PROVE  OnePublisher'
  <2>1. UNCHANGED <<queue, publishing, pc>>
    BY <1>4 DEF CallWait, LookAgain, Expire, feedVars
  <2> QED BY <2>1
<1>5. CASE UNCHANGED vars
  BY <1>5 DEF vars
<1> QED BY <1>1, <1>2, <1>3, <1>4, <1>5 DEF Next

(* There is at most one publisher, and a notification in the queue has one   *)
(* that will come for it, for any number of threads and listeners: the       *)
(* hand-over in update_state neither drops a notification nor lets two       *)
(* threads deliver at once.                                                  *)
THEOREM PublisherIsUnique == Spec => []OnePublisher
<1>1. Init => OnePublisher
  BY DEF Init, OnePublisher, Publishers
<1> QED BY <1>1, Typing, StepOnePublisher, PTL DEF Spec

(* A thread is never left waiting for OK when the state is OK or OFF: every  *)
(* change of the state that ends the wait wakes all who wait for it.         *)
THEOREM NobodyOversleeps == Spec => []NoMissedWakeup
<1>1. Init => NoMissedWakeup
  BY DEF Init, NoMissedWakeup
<1>2. TypeOK /\ NoMissedWakeup /\ [Next]_vars => NoMissedWakeup'
  <2> SUFFICES ASSUME TypeOK, NoMissedWakeup, [Next]_vars PROVE NoMissedWakeup'
    OBVIOUS
  <2> USE DEF NoMissedWakeup
  <2>1. ASSUME NEW u \in Updaters, NEW request \in Requests, UpdateState(u, request)
        PROVE  NoMissedWakeup'
    BY <2>1 DEF TypeOK, UpdateState, Woken
  <2>2. ASSUME NEW u \in Updaters, Publish(u) PROVE NoMissedWakeup'
    BY <2>2 DEF Publish, TakeNext, StopPublishing, CallListener, ListenerReturns
  <2>3. ASSUME NEW l \in Listeners, AddListener(l) \/ RemoveListener(l)
        PROVE  NoMissedWakeup'
    BY <2>3 DEF AddListener, RemoveListener
  <2>4. ASSUME NEW w \in Waiters, CallWait(w) \/ LookAgain(w) \/ Expire(w)
        PROVE  NoMissedWakeup'
    BY <2>4 DEF TypeOK, CallWait, LookAgain, Expire, feedVars, Look, Final
  <2>5. CASE UNCHANGED vars
    BY <2>5 DEF vars
  <2> QED BY <2>1, <2>2, <2>3, <2>4, <2>5 DEF Next
<1> QED BY <1>1, <1>2, Typing, PTL DEF Spec

-----------------------------------------------------------------------------
(* The provider implements the feed *)

(* Nobody is in the list twice.                                              *)
NoTwins(list) ==
  \A i, j \in 1..Len(list) : i # j => list[i] # list[j]

(* Each listener is called at most once with a notification: nobody is       *)
(* registered twice, nor in what was or is to be delivered.                  *)
OnceEach ==
  /\ NoTwins(listeners)
  /\ \A i \in 1..Len(queue) : NoTwins(queue[i].to)
  /\ \A u \in Updaters : NoTwins(batch[u].to)

(* A batch that is not empty is in the hands of a thread that delivers it.   *)
HandsFull ==
  \A u \in Updaters : pc[u] \in {"idle", "publish"} => batch[u].to = <<>>

(* Notifications are queued in the order of their numbers, behind those in   *)
(* the threads' hands.                                                       *)
Numbered ==
  /\ \A i, j \in 1..Len(queue) : i < j => queue[i].id < queue[j].id
  /\ \A i \in 1..Len(queue) : queue[i].id <= published
  /\ \A u \in Updaters : batch[u].id <= published
  /\ \A u \in Updaters, i \in 1..Len(queue) : batch[u].id < queue[i].id

FeedInv == OnceEach /\ HandsFull /\ Numbered

LEMMA EmptyHasNone == \A x : ~Contains(<<>>, x)
BY DEF Contains

LEMMA InAppended ==
  ASSUME NEW S, NEW list \in Seq(S), NEW x \in S, NEW y
  PROVE  Contains(Append(list, x), y) <=> Contains(list, y) \/ y = x
<1>1. /\ Len(list) \in Nat /\ Len(Append(list, x)) = Len(list) + 1
      /\ \A i \in 1..Len(list) : Append(list, x)[i] = list[i]
      /\ Append(list, x)[Len(list) + 1] = x
  BY AppendProperties
<1> QED BY <1>1 DEF Contains

LEMMA AppendedNoTwins ==
  ASSUME NEW S, NEW list \in Seq(S), NEW x \in S, NoTwins(list), ~Contains(list, x)
  PROVE  NoTwins(Append(list, x))
<1>1. /\ Len(list) \in Nat /\ Len(Append(list, x)) = Len(list) + 1
      /\ \A i \in 1..Len(list) : Append(list, x)[i] = list[i]
      /\ Append(list, x)[Len(list) + 1] = x
  BY AppendProperties
<1> QED BY <1>1 DEF NoTwins, Contains

LEMMA TailNoTwins ==
  ASSUME NEW S, NEW list \in Seq(S), list # <<>>, NoTwins(list)
  PROVE  /\ NoTwins(Tail(list)) /\ ~Contains(Tail(list), Head(list))
         /\ \A y : y # Head(list) => (Contains(Tail(list), y) <=> Contains(list, y))
<1>1. /\ Len(list) \in Nat /\ Len(list) >= 1 /\ Len(Tail(list)) = Len(list) - 1
      /\ \A i \in 1..(Len(list) - 1) : Tail(list)[i] = list[i + 1]
      /\ Head(list) = list[1]
  BY HeadTailProperties, EmptySeq, LenProperties
<1>2. NoTwins(Tail(list))
  BY <1>1 DEF NoTwins
<1>3. ~Contains(Tail(list), Head(list))
  BY <1>1 DEF NoTwins, Contains
<1>4. ASSUME NEW y, y # Head(list), Contains(list, y) PROVE Contains(Tail(list), y)
  <2>1. PICK i \in 1..Len(list) : list[i] = y
    BY <1>4 DEF Contains
  <2>2. i # 1 /\ i - 1 \in 1..(Len(list) - 1) /\ (i - 1) + 1 = i
    BY <1>1, <1>4, <2>1
  <2>3. Tail(list)[i - 1] = y
    BY <1>1, <2>1, <2>2
  <2> QED BY <1>1, <2>2, <2>3 DEF Contains
<1>5. ASSUME NEW y, Contains(Tail(list), y) PROVE Contains(list, y)
  <2>1. PICK i \in 1..(Len(list) - 1) : Tail(list)[i] = y
    BY <1>1, <1>5 DEF Contains
  <2>2. i + 1 \in 1..Len(list) /\ list[i + 1] = y
    BY <1>1, <2>1
  <2> QED BY <2>2 DEF Contains
<1> QED BY <1>2, <1>3, <1>4, <1>5

(* Taking a position out moves those behind it up by one.                    *)
LEMMA RemoveAtMoves ==
  ASSUME NEW S, NEW list \in Seq(S), NEW i \in 1..Len(list)
  PROVE  /\ Len(RemoveAt(list, i)) = Len(list) - 1
         /\ \A j \in 1..(Len(list) - 1) :
              RemoveAt(list, i)[j] = IF j < i THEN list[j] ELSE list[j + 1]
<1> DEFINE n == Len(list)
           a == SubSeq(list, 1, i - 1)
           b == SubSeq(list, i + 1, n)
<1>0. n \in Nat /\ \A j \in 1..n : list[j] \in S
  BY LenProperties, ElementOfSeq
<1>1. a \in Seq(S) /\ Len(a) = i - 1 /\ \A j \in 1..(i - 1) : a[j] = list[j]
  BY <1>0, SubSeqProperties
<1>2. b \in Seq(S) /\ Len(b) = n - i /\ \A j \in 1..(n - i) : b[j] = list[i + j]
  BY <1>0, SubSeqProperties
<1>3. RemoveAt(list, i) = a \o b
  BY DEF RemoveAt
<1> HIDE DEF a, b
<1>4. /\ Len(a \o b) = Len(a) + Len(b)
      /\ \A j \in 1..Len(a) + Len(b) :
           (a \o b)[j] = IF j <= Len(a) THEN a[j] ELSE b[j - Len(a)]
  BY <1>1, <1>2, ConcatProperties
<1>5. Len(a) + Len(b) = n - 1
  BY <1>0, <1>1, <1>2
<1>6. ASSUME NEW j \in 1..(n - 1)
      PROVE  (a \o b)[j] = IF j < i THEN list[j] ELSE list[j + 1]
  <2>1. CASE j < i
    BY <1>0, <1>1, <1>4, <1>5, <2>1
  <2>2. CASE ~(j < i)
    <3>1. j - (i - 1) \in 1..(n - i) /\ i + (j - (i - 1)) = j + 1
      BY <1>0, <2>2
    <3>2. (a \o b)[j] = b[j - (i - 1)]
      BY <1>0, <1>1, <1>4, <1>5, <2>2
    <3> QED BY <1>2, <2>2, <3>1, <3>2
  <2> QED BY <2>1, <2>2
<1> QED BY <1>3, <1>4, <1>5, <1>6

LEMMA RemovedNoTwins ==
  ASSUME NEW S, NEW list \in Seq(S), NEW i \in 1..Len(list), NoTwins(list)
  PROVE  /\ NoTwins(RemoveAt(list, i))
         /\ \A y : Contains(RemoveAt(list, i), y) <=> Contains(list, y) /\ y # list[i]
<1> DEFINE n == Len(list)
           left == RemoveAt(list, i)
<1>0. n \in Nat
  BY LenProperties
<1>1. /\ Len(left) = n - 1
      /\ \A j \in 1..(n - 1) : left[j] = IF j < i THEN list[j] ELSE list[j + 1]
  BY RemoveAtMoves
<1> HIDE DEF left
<1>2. NoTwins(left)
  <2>1. SUFFICES ASSUME NEW j \in 1..(n - 1), NEW k \in 1..(n - 1), j # k
                 PROVE  left[j] # left[k]
    BY <1>1 DEF NoTwins
  <2>2. PICK m \in 1..n : m = (IF j < i THEN j ELSE j + 1) /\ left[j] = list[m]
    BY <1>0, <1>1
  <2>3. PICK o \in 1..n : o = (IF k < i THEN k ELSE k + 1) /\ left[k] = list[o]
    BY <1>0, <1>1
  <2>4. m # o
    BY <1>0, <2>1, <2>2, <2>3
  <2> QED BY <2>2, <2>3, <2>4 DEF NoTwins
<1>3. ASSUME NEW y, Contains(left, y) PROVE Contains(list, y) /\ y # list[i]
  <2>1. PICK j \in 1..(n - 1) : left[j] = y
    BY <1>1, <1>3 DEF Contains
  <2>2. PICK k \in 1..n : k # i /\ list[k] = y
    <3>1. CASE j < i
      BY <1>0, <1>1, <2>1, <3>1
    <3>2. CASE ~(j < i)
      <4>1. j + 1 \in 1..n /\ j + 1 # i /\ list[j + 1] = y
        BY <1>0, <1>1, <2>1, <3>2
      <4> QED BY <4>1
    <3> QED BY <3>1, <3>2
  <2> QED BY <2>2 DEF NoTwins, Contains
<1>4. ASSUME NEW y, Contains(list, y), y # list[i] PROVE Contains(left, y)
  <2>1. PICK k \in 1..n : list[k] = y
    BY <1>4 DEF Contains
  <2>2. CASE k < i
    <3>1. k \in 1..(n - 1) /\ left[k] = y
      BY <1>0, <1>1, <2>1, <2>2
    <3> QED BY <1>1, <3>1 DEF Contains
  <2>3. CASE k > i
    <3>1. k - 1 \in 1..(n - 1) /\ ~(k - 1 < i) /\ (k - 1) + 1 = k
      BY <1>0, <2>1, <2>3
    <3>2. left[k - 1] = y
      BY <1>1, <2>1, <3>1
    <3> QED BY <1>1, <3>1, <3>2 DEF Contains
  <2> QED BY <1>0, <1>4, <2>1, <2>2, <2>3
<1> QED BY <1>2, <1>3, <1>4 DEF left

LEMMA InitFeedInv == Init => FeedInv
<1> SUFFICES ASSUME Init PROVE FeedInv
  OBVIOUS
<1>1. NoTwins(<<>>)
  BY DEF NoTwins
<1> QED BY <1>1 DEF Init, NoBatch, FeedInv, OnceEach, HandsFull, Numbered

(* What an operation of update_state and its publisher does to queue and     *)
(* hands, one at a time.                                                     *)
LEMMA UpdateQueues ==
  ASSUME TypeInv, FeedInv, NEW u \in Updaters, NEW request \in Requests, UpdateState(u, request)
  PROVE  /\ Len(queue') = Len(queue) + 1
         /\ \A i \in 1..Len(queue) : queue'[i] = queue[i]
         /\ queue'[Len(queue) + 1] = [id |-> published + 1, to |-> listeners]
         /\ published' = published + 1 /\ published \in Nat /\ Len(queue) \in Nat
         /\ UNCHANGED <<listeners, batch, heard>>
<1>1. [id |-> published + 1, to |-> listeners] \in Notification
  BY DEF TypeInv, TypeOK, Notification
<1> QED BY <1>1, AppendProperties DEF TypeInv, TypeOK, UpdateState

LEMMA TakesFirst ==
  ASSUME TypeInv, FeedInv, NEW u \in Updaters, TakeNext(u)
  PROVE  /\ Len(queue) \in Nat /\ Len(queue) >= 1
         /\ Len(queue') = Len(queue) - 1
         /\ \A i \in 1..(Len(queue) - 1) : queue'[i] = queue[i + 1]
         /\ batch' = [batch EXCEPT ![u] = queue[1]]
         /\ UNCHANGED <<listeners, published, heard>>
<1>1. queue \in Seq(Notification) /\ queue # <<>>
  BY DEF TypeInv, TypeOK, TakeNext
<1>2. /\ Len(queue) \in Nat /\ Len(queue) >= 1 /\ Len(Tail(queue)) = Len(queue) - 1
      /\ \A i \in 1..(Len(queue) - 1) : Tail(queue)[i] = queue[i + 1]
      /\ Head(queue) = queue[1]
  BY <1>1, HeadTailProperties, EmptySeq, LenProperties
<1> QED BY <1>2 DEF TakeNext

LEMMA CallsFirst ==
  ASSUME TypeInv, FeedInv, NEW u \in Updaters, CallListener(u)
  PROVE  /\ pc[u] = "between" /\ batch[u].to \in Seq(Listeners) /\ batch[u].to # <<>>
         /\ batch'[u].to = Tail(batch[u].to) /\ batch'[u].id = batch[u].id
         /\ batch[u].id \in Nat
         /\ \A v \in Updaters \ {u} : batch'[v] = batch[v]
         /\ UNCHANGED <<listeners, queue, published>>
         /\ Head(batch[u].to) \in Listeners
         /\ heard' = [heard EXCEPT ![Head(batch[u].to)] = batch[u].id]
<1>1. batch[u] \in Notification /\ batch[u].to # <<>>
  BY DEF TypeInv, TypeOK, CallListener, SomebodyLeft
<1>2. batch[u].to \in Seq(Listeners) /\ batch[u].id \in Nat /\ Head(batch[u].to) \in Listeners
  BY <1>1, HeadTailProperties DEF Notification
<1>3. batch' = [batch EXCEPT ![u] = [batch[u] EXCEPT !.to = Tail(batch[u].to)]]
  BY DEF CallListener
<1>4. batch'[u] = [batch[u] EXCEPT !.to = Tail(batch[u].to)]
        /\ \A v \in Updaters \ {u} : batch'[v] = batch[v]
  BY <1>3 DEF TypeInv, TypeOK
<1>5. batch'[u].to = Tail(batch[u].to) /\ batch'[u].id = batch[u].id
  BY <1>1, <1>4 DEF Notification
<1> QED BY <1>1, <1>2, <1>4, <1>5 DEF CallListener

LEMMA StepFeedInv == TypeInv /\ OnePublisher /\ FeedInv /\ [Next]_vars => FeedInv'
<1> SUFFICES ASSUME TypeInv, OnePublisher, FeedInv, [Next]_vars PROVE FeedInv'
  OBVIOUS
<1>0. /\ listeners \in Seq(Listeners) /\ queue \in Seq(Notification) /\ published \in Nat
      /\ pc \in [Updaters -> UpdaterPc] /\ batch \in [Updaters -> Notification]
  BY DEF TypeInv, TypeOK
<1>1. ASSUME NEW u \in Updaters, NEW request \in Requests, UpdateState(u, request)
      PROVE  FeedInv'
  <2>1. /\ Len(queue') = Len(queue) + 1
        /\ \A i \in 1..Len(queue) : queue'[i] = queue[i]
        /\ queue'[Len(queue) + 1] = [id |-> published + 1, to |-> listeners]
        /\ published' = published + 1 /\ published \in Nat /\ Len(queue) \in Nat
        /\ UNCHANGED <<listeners, batch, heard>>
    BY <1>1, UpdateQueues
  <2>2. /\ queue'[Len(queue) + 1].to = listeners
        /\ queue'[Len(queue) + 1].id = published + 1
    BY <2>1
  <2>3. OnceEach'
    BY <2>1, <2>2 DEF FeedInv, OnceEach
  <2>4. HandsFull'
    <3>1. ASSUME NEW v \in Updaters, pc'[v] \in {"idle", "publish"} PROVE batch'[v].to = <<>>
      <4>1. CASE pc'[v] = pc[v]
        BY <2>1, <3>1, <4>1 DEF FeedInv, HandsFull
      <4>2. CASE pc'[v] # pc[v]
        <5>1. v = u /\ ~publishing
          BY <1>0, <1>1, <4>2 DEF UpdateState, BecomesPublisher
        <5>2. pc[u] = "idle"
          BY <5>1 DEF OnePublisher, Publishers
        <5> QED BY <2>1, <5>1, <5>2 DEF FeedInv, HandsFull
      <4> QED BY <4>1, <4>2
    <3> QED BY <3>1 DEF HandsFull
  <2>5. Numbered'
    <3>1. \A i \in 1..Len(queue) : queue[i].id \in Nat
      <4>1. \A i \in 1..Len(queue) : queue[i] \in Notification
        BY <1>0, ElementOfSeq
      <4> QED BY <4>1 DEF Notification
    <3>2. \A v \in Updaters : batch[v].id \in Nat
      BY <1>0 DEF Notification
    <3>3. \A i \in 1..Len(queue)' : queue'[i].id <= published'
      BY <2>1, <2>2, <3>1 DEF FeedInv, Numbered
    <3>4. \A i, j \in 1..Len(queue)' : i < j => queue'[i].id < queue'[j].id
      <4> SUFFICES ASSUME NEW i \in 1..Len(queue)', NEW j \in 1..Len(queue)', i < j
                   PROVE  queue'[i].id < queue'[j].id
        OBVIOUS
      <4>1. i \in 1..Len(queue) /\ queue'[i].id = queue[i].id
        BY <2>1
      <4>2. CASE j \in 1..Len(queue)
        BY <2>1, <4>1, <4>2 DEF FeedInv, Numbered
      <4>3. CASE j = Len(queue) + 1
        BY <2>1, <2>2, <3>1, <4>1, <4>3 DEF FeedInv, Numbered
      <4> QED BY <2>1, <4>2, <4>3
    <3>5. \A v \in Updaters : batch'[v].id <= published'
      BY <2>1, <3>2 DEF FeedInv, Numbered
    <3>6. \A v \in Updaters, i \in 1..Len(queue)' : batch'[v].id < queue'[i].id
      <4> SUFFICES ASSUME NEW v \in Updaters, NEW i \in 1..Len(queue)'
                   PROVE  batch[v].id < queue'[i].id
        BY <2>1
      <4>1. CASE i \in 1..Len(queue)
        BY <2>1, <4>1 DEF FeedInv, Numbered
      <4>2. CASE i = Len(queue) + 1
        BY <2>1, <2>2, <3>2, <4>2 DEF FeedInv, Numbered
      <4> QED BY <2>1, <4>1, <4>2
    <3> QED BY <3>3, <3>4, <3>5, <3>6 DEF Numbered
  <2> QED BY <2>3, <2>4, <2>5 DEF FeedInv
<1>2. ASSUME NEW u \in Updaters, TakeNext(u) PROVE FeedInv'
  <2>1. /\ Len(queue) \in Nat /\ Len(queue) >= 1
        /\ Len(queue') = Len(queue) - 1
        /\ \A i \in 1..(Len(queue) - 1) : queue'[i] = queue[i + 1]
        /\ batch' = [batch EXCEPT ![u] = queue[1]]
        /\ UNCHANGED <<listeners, published, heard>>
    BY <1>2, TakesFirst
  <2>2. \A i \in 1..Len(queue)' : i + 1 \in 1..Len(queue) /\ queue'[i] = queue[i + 1]
    BY <2>1
  <2>3. \A v \in Updaters : batch'[v] = IF v = u THEN queue[1] ELSE batch[v]
    BY <1>0, <2>1
  <2>4. 1 \in 1..Len(queue)
    BY <2>1
  <2>5. OnceEach'
    BY <2>1, <2>2, <2>3, <2>4 DEF FeedInv, OnceEach
  <2>6. HandsFull'
    <3>1. ASSUME NEW v \in Updaters, pc'[v] \in {"idle", "publish"} PROVE batch'[v].to = <<>>
      <4>1. CASE v = u
        BY <1>0, <1>2, <3>1, <4>1 DEF TakeNext
      <4>2. CASE v # u
        BY <1>0, <1>2, <2>3, <3>1, <4>2 DEF TakeNext, FeedInv, HandsFull
      <4> QED BY <4>1, <4>2
    <3> QED BY <3>1 DEF HandsFull
  <2>7. Numbered'
    <3>1. \A i, j \in 1..Len(queue)' : i < j => queue'[i].id < queue'[j].id
      BY <2>1, <2>2 DEF FeedInv, Numbered
    <3>2. \A i \in 1..Len(queue)' : queue'[i].id <= published'
      BY <2>1, <2>2 DEF FeedInv, Numbered
    <3>3. \A v \in Updaters : batch'[v].id <= published'
      BY <2>1, <2>3, <2>4 DEF FeedInv, Numbered
    <3>4. \A v \in Updaters, i \in 1..Len(queue)' : batch'[v].id < queue'[i].id
      <4> SUFFICES ASSUME NEW v \in Updaters, NEW i \in 1..Len(queue)'
                   PROVE  batch'[v].id < queue'[i].id
        OBVIOUS
      <4>1. i + 1 \in 1..Len(queue) /\ 1 < i + 1 /\ queue'[i] = queue[i + 1]
        BY <2>1, <2>2
      <4> QED BY <2>3, <2>4, <4>1 DEF FeedInv, Numbered
    <3> QED BY <3>1, <3>2, <3>3, <3>4 DEF Numbered
  <2> QED BY <2>5, <2>6, <2>7 DEF FeedInv
<1>3. ASSUME NEW u \in Updaters, StopPublishing(u) \/ ListenerReturns(u) PROVE FeedInv'
  <2>1. UNCHANGED <<listeners, queue, published, batch>>
    BY <1>3 DEF StopPublishing, ListenerReturns
  <2>2. HandsFull'
    BY <1>0, <1>3, <2>1 DEF StopPublishing, ListenerReturns, FeedInv, HandsFull
  <2> QED BY <2>1, <2>2 DEF FeedInv, OnceEach, Numbered
<1>4. ASSUME NEW u \in Updaters, CallListener(u) PROVE FeedInv'
  <2>1. /\ pc[u] = "between" /\ batch[u].to \in Seq(Listeners) /\ batch[u].to # <<>>
        /\ batch'[u].to = Tail(batch[u].to) /\ batch'[u].id = batch[u].id
        /\ \A v \in Updaters \ {u} : batch'[v] = batch[v]
        /\ UNCHANGED <<listeners, queue, published>>
    BY <1>4, CallsFirst
  <2>2. \A v \in Updaters : batch'[v].id = batch[v].id
    BY <2>1
  <2>3. NoTwins(Tail(batch[u].to))
    BY <2>1, TailNoTwins DEF FeedInv, OnceEach
  <2>4. OnceEach'
    BY <2>1, <2>3 DEF FeedInv, OnceEach
  <2>5. HandsFull'
    BY <1>0, <1>4, <2>1 DEF CallListener, FeedInv, HandsFull
  <2>6. Numbered'
    BY <2>1, <2>2 DEF FeedInv, Numbered
  <2> QED BY <2>4, <2>5, <2>6 DEF FeedInv
<1>5. ASSUME NEW l \in Listeners, AddListener(l) PROVE FeedInv'
  <2>1. NoTwins(listeners')
    BY <1>0, <1>5, AppendedNoTwins DEF AddListener, FeedInv, OnceEach
  <2> QED BY <1>5, <2>1 DEF AddListener, FeedInv, OnceEach, HandsFull, Numbered
<1>6. ASSUME NEW l \in Listeners, RemoveListener(l) PROVE FeedInv'
  <2>1. NoTwins(listeners')
    BY <1>0, <1>6, RemovedNoTwins DEF RemoveListener, FeedInv, OnceEach
  <2> QED BY <1>6, <2>1 DEF RemoveListener, FeedInv, OnceEach, HandsFull, Numbered
<1>7. ASSUME UNCHANGED feedVars PROVE FeedInv'
  BY <1>7 DEF feedVars, FeedInv, OnceEach, HandsFull, Numbered
<1>8. ASSUME NEW w \in Waiters, CallWait(w) \/ LookAgain(w) \/ Expire(w) PROVE FeedInv'
  BY <1>7, <1>8 DEF CallWait, LookAgain, Expire
<1>9. CASE UNCHANGED vars
  BY <1>7, <1>9 DEF vars, feedVars
<1> QED BY <1>1, <1>2, <1>3, <1>4, <1>5, <1>6, <1>8, <1>9 DEF Next, Publish

LEMMA Subscribed ==
  ASSUME NEW S, NEW list \in Seq(S), NEW x
  PROVE  x \in ToSet(list) <=> Contains(list, x)
BY LenProperties DEF ToSet, Contains

LEMMA FeedInit == Init => Feed!Init
<1> SUFFICES ASSUME Init PROVE Feed!Init
  OBVIOUS
<1>1. ToSet(listeners) = {}
  BY DEF Init, ToSet
<1>2. ASSUME NEW l \in Listeners PROVE OwedTo(l) = {}
  BY EmptyHasNone DEF Init, NoBatch, OwedTo
<1>3. [l \in Listeners |-> OwedTo(l)] = [l \in Listeners |-> {}]
  BY <1>2
<1> QED BY <1>1, <1>3 DEF Init, Feed!Init

LEMMA FeedStutters ==
  ASSUME UNCHANGED <<listeners, published, heard>>,
         \A l \in Listeners : OwedTo(l)' = OwedTo(l)
  PROVE  UNCHANGED Feed!vars
BY DEF Feed!vars

(* A change of state is emitted: those registered are owed it.               *)
LEMMA FeedEmits ==
  ASSUME TypeInv, FeedInv, NEW u \in Updaters, NEW request \in Requests, UpdateState(u, request)
  PROVE  Feed!Emit
<1>1. /\ Len(queue') = Len(queue) + 1
      /\ \A i \in 1..Len(queue) : queue'[i] = queue[i]
      /\ queue'[Len(queue) + 1] = [id |-> published + 1, to |-> listeners]
      /\ published' = published + 1 /\ published \in Nat /\ Len(queue) \in Nat
      /\ UNCHANGED <<listeners, batch, heard>>
  BY UpdateQueues
<1>2. \A i \in 1..Len(queue') : i \in 1..Len(queue) \/ i = Len(queue) + 1
  BY <1>1
<1>3. /\ 1..Len(queue) \subseteq 1..Len(queue') /\ Len(queue) + 1 \in 1..Len(queue')
      /\ queue'[Len(queue) + 1].id = published + 1
      /\ queue'[Len(queue) + 1].to = listeners
  BY <1>1
<1>4. ASSUME NEW l \in Listeners
      PROVE  OwedTo(l)' = IF Contains(listeners, l) THEN OwedTo(l) \cup {published + 1}
                          ELSE OwedTo(l)
  BY <1>1, <1>2, <1>3 DEF OwedTo
<1>5. \A l \in Listeners : l \in ToSet(listeners) <=> Contains(listeners, l)
  BY Subscribed DEF TypeInv, TypeOK
<1>6. [l \in Listeners |-> OwedTo(l)]' =
        [l \in Listeners |-> IF l \in ToSet(listeners)
           THEN [m \in Listeners |-> OwedTo(m)][l] \cup {published'}
           ELSE [m \in Listeners |-> OwedTo(m)][l]]
  BY <1>1, <1>4, <1>5
<1> QED BY <1>1, <1>6 DEF Feed!Emit

(* What the publisher takes from the queue is still owed.                    *)
LEMMA FeedKeeps ==
  ASSUME TypeInv, FeedInv, NEW u \in Updaters, TakeNext(u)
  PROVE  UNCHANGED Feed!vars
<1>1. /\ Len(queue) \in Nat /\ Len(queue) >= 1
      /\ Len(queue') = Len(queue) - 1
      /\ \A i \in 1..(Len(queue) - 1) : queue'[i] = queue[i + 1]
      /\ batch' = [batch EXCEPT ![u] = queue[1]]
      /\ UNCHANGED <<listeners, published, heard>>
  BY TakesFirst
<1>2. \A v \in Updaters : batch'[v] = IF v = u THEN queue[1] ELSE batch[v]
  BY <1>1 DEF TypeInv, TypeOK
<1>3. batch[u].to = <<>>
  BY DEF TakeNext, FeedInv, HandsFull
<1>4. ASSUME NEW l \in Listeners, NEW n \in OwedTo(l)' PROVE n \in OwedTo(l)
  <2>1. CASE \E v \in Updaters : Contains(batch'[v].to, l) /\ n = batch'[v].id
    <3>1. PICK v \in Updaters : Contains(batch'[v].to, l) /\ n = batch'[v].id
      BY <2>1
    <3>2. CASE v = u
      BY <1>1, <1>2, <3>1, <3>2 DEF OwedTo
    <3>3. CASE v # u
      BY <1>2, <3>1, <3>3 DEF OwedTo
    <3> QED BY <3>2, <3>3
  <2>2. CASE \E i \in 1..Len(queue') : Contains(queue'[i].to, l) /\ n = queue'[i].id
    <3>1. PICK i \in 1..Len(queue') : Contains(queue'[i].to, l) /\ n = queue'[i].id
      BY <2>2
    <3>2. i + 1 \in 1..Len(queue) /\ queue'[i] = queue[i + 1]
      BY <1>1
    <3> QED BY <3>1, <3>2 DEF OwedTo
  <2> QED BY <1>4, <2>1, <2>2 DEF OwedTo
<1>5. ASSUME NEW l \in Listeners, NEW n \in OwedTo(l) PROVE n \in OwedTo(l)'
  <2>1. CASE \E v \in Updaters : Contains(batch[v].to, l) /\ n = batch[v].id
    <3>1. PICK v \in Updaters : Contains(batch[v].to, l) /\ n = batch[v].id
      BY <2>1
    <3>2. v # u
      BY <1>3, <3>1, EmptyHasNone
    <3> QED BY <1>2, <3>1, <3>2 DEF OwedTo
  <2>2. CASE \E i \in 1..Len(queue) : Contains(queue[i].to, l) /\ n = queue[i].id
    <3>1. PICK i \in 1..Len(queue) : Contains(queue[i].to, l) /\ n = queue[i].id
      BY <2>2
    <3>2. CASE i = 1
      BY <1>2, <3>1, <3>2 DEF OwedTo
    <3>3. CASE i # 1
      <4>1. i - 1 \in 1..Len(queue') /\ queue'[i - 1] = queue[i]
        BY <1>1, <3>3
      <4> QED BY <3>1, <4>1 DEF OwedTo
    <3> QED BY <3>2, <3>3
  <2> QED BY <1>5, <2>1, <2>2 DEF OwedTo
<1>6. \A l \in Listeners : OwedTo(l)' = OwedTo(l)
  BY <1>4, <1>5
<1> QED BY <1>1, <1>6, FeedStutters

(* The listener that is called hears the oldest notification it is owed.     *)
LEMMA FeedHears ==
  ASSUME TypeInv, OnePublisher, FeedInv, NEW u \in Updaters, CallListener(u)
  PROVE  \E l \in Listeners : Feed!Hear(l)
<1>0. PICK l \in Listeners, n \in Nat, to \in Seq(Listeners) :
        l = Head(batch[u].to) /\ n = batch[u].id /\ to = batch[u].to
  BY CallsFirst
<1>1. /\ pc[u] = "between" /\ to # <<>> /\ l = Head(to)
      /\ batch'[u].to = Tail(to) /\ batch'[u].id = n
      /\ \A v \in Updaters \ {u} : batch'[v] = batch[v]
      /\ UNCHANGED <<listeners, queue, published>>
      /\ heard' = [heard EXCEPT ![l] = n]
  BY <1>0, CallsFirst
<1>2. /\ ~Contains(Tail(to), l)
      /\ \A m : m # l => (Contains(Tail(to), m) <=> Contains(to, m))
  BY <1>0, <1>1, TailNoTwins DEF FeedInv, OnceEach
<1>3. \A v \in Updaters \ {u} : batch[v].to = <<>>
  BY <1>1 DEF OnePublisher, Publishers, FeedInv, HandsFull
<1>4. \A i \in 1..Len(queue) : n < queue[i].id /\ queue[i].id \in Nat
  <2>1. \A i \in 1..Len(queue) : queue[i] \in Notification
    BY ElementOfSeq DEF TypeInv, TypeOK
  <2> QED BY <1>0, <2>1 DEF FeedInv, Numbered, Notification
<1>5. Contains(to, l)
  <2>1. Len(to) >= 1 /\ Len(to) \in Nat /\ to[1] = l
    BY <1>1, HeadTailProperties, EmptySeq, LenProperties
  <2> QED BY <2>1 DEF Contains
<1> DEFINE queued == {queue[i].id : i \in {i \in 1..Len(queue) : Contains(queue[i].to, l)}}
<1>6. OwedTo(l) = {n} \cup queued
  BY <1>0, <1>3, <1>5, EmptyHasNone DEF OwedTo
<1>7. OwedTo(l)' = queued
  <2>1. \A v \in Updaters : ~Contains(batch'[v].to, l)
    BY <1>1, <1>2, <1>3, EmptyHasNone
  <2> QED BY <1>1, <2>1 DEF OwedTo
<1>8. ASSUME NEW m \in Listeners \ {l} PROVE OwedTo(m)' = OwedTo(m)
  <2>1. \A v \in Updaters : /\ Contains(batch'[v].to, m) <=> Contains(batch[v].to, m)
                            /\ batch'[v].id = batch[v].id
    BY <1>0, <1>1, <1>2
  <2> QED BY <1>1, <2>1 DEF OwedTo
<1>9. n \notin queued /\ \A k \in {n} \cup queued : n <= k
  BY <1>4
<1> HIDE DEF queued
<1>10. OwedTo(l)' = OwedTo(l) \ {n}
  BY <1>6, <1>7, <1>9
<1> DEFINE owed == [m \in Listeners |-> OwedTo(m)]
<1>11. owed' = [owed EXCEPT ![l] = @ \ {n}]
  BY <1>8, <1>10
<1>12. n \in owed[l] /\ \A k \in owed[l] : n <= k
  BY <1>6, <1>9
<1> HIDE DEF owed
<1>13. Feed!Hear(l)
  BY <1>1, <1>11, <1>12 DEF Feed!Hear, owed
<1> QED BY <1>13

LEMMA FeedStep ==
  ASSUME TypeInv, OnePublisher, FeedInv, [Next]_vars
  PROVE  [Feed!Next]_Feed!vars
<1>1. ASSUME NEW u \in Updaters, NEW request \in Requests, UpdateState(u, request)
      PROVE  [Feed!Next]_Feed!vars
  BY <1>1, FeedEmits DEF Feed!Next
<1>2. ASSUME NEW u \in Updaters, TakeNext(u) PROVE [Feed!Next]_Feed!vars
  BY <1>2, FeedKeeps
<1>3. ASSUME NEW u \in Updaters, StopPublishing(u) \/ ListenerReturns(u)
      PROVE  [Feed!Next]_Feed!vars
  <2>1. UNCHANGED <<listeners, queue, published, batch, heard>>
    BY <1>3 DEF StopPublishing, ListenerReturns
  <2> QED BY <2>1, FeedStutters DEF OwedTo
<1>4. ASSUME NEW u \in Updaters, CallListener(u) PROVE [Feed!Next]_Feed!vars
  BY <1>4, FeedHears DEF Feed!Next
<1>5. ASSUME NEW l \in Listeners, AddListener(l) PROVE [Feed!Next]_Feed!vars
  <2>1. UNCHANGED <<queue, published, batch, heard>> /\ listeners' = Append(listeners, l)
          /\ listeners \in Seq(Listeners)
    BY <1>5 DEF AddListener, TypeInv, TypeOK
  <2>2. listeners' \in Seq(Listeners)
    BY <2>1, AppendProperties
  <2>3. ToSet(listeners') = ToSet(listeners) \cup {l}
    <3>1. \A y : y \in ToSet(listeners') <=> y \in ToSet(listeners) \/ y = l
      <4>1. \A y : Contains(listeners', y) <=> Contains(listeners, y) \/ y = l
        BY <2>1, InAppended
      <4> QED BY <2>1, <2>2, <4>1, Subscribed
    <3> QED BY <3>1
  <2>4. [m \in Listeners |-> OwedTo(m)]' = [m \in Listeners |-> OwedTo(m)]
    BY <2>1 DEF OwedTo
  <2>5. Feed!Subscribe(l)
    BY <2>1, <2>3, <2>4 DEF Feed!Subscribe
  <2> QED BY <2>5 DEF Feed!Next
<1>6. ASSUME NEW l \in Listeners, RemoveListener(l) PROVE [Feed!Next]_Feed!vars
  <2>1. UNCHANGED <<queue, published, batch, heard>> /\ listeners \in Seq(Listeners)
          /\ NoTwins(listeners)
    BY <1>6 DEF RemoveListener, TypeInv, TypeOK, FeedInv, OnceEach
  <2>2. PICK i \in 1..Len(listeners) : listeners[i] = l /\ listeners' = RemoveAt(listeners, i)
    BY <1>6 DEF RemoveListener
  <2>3. listeners' \in Seq(Listeners)
    BY <2>1, <2>2, RemoveAtType
  <2>4. \A y : Contains(listeners', y) <=> Contains(listeners, y) /\ y # l
    BY <2>1, <2>2, RemovedNoTwins
  <2>5. ToSet(listeners') = ToSet(listeners) \ {l}
    BY <2>1, <2>3, <2>4, Subscribed
  <2>6. [m \in Listeners |-> OwedTo(m)]' = [m \in Listeners |-> OwedTo(m)]
    BY <2>1 DEF OwedTo
  <2>7. Feed!Unsubscribe(l)
    BY <2>1, <2>5, <2>6 DEF Feed!Unsubscribe
  <2> QED BY <2>7 DEF Feed!Next
<1>7. ASSUME UNCHANGED feedVars PROVE [Feed!Next]_Feed!vars
  BY <1>7, FeedStutters DEF feedVars, OwedTo
<1>8. ASSUME NEW w \in Waiters, CallWait(w) \/ LookAgain(w) \/ Expire(w)
      PROVE  [Feed!Next]_Feed!vars
  BY <1>7, <1>8 DEF CallWait, LookAgain, Expire
<1>9. CASE UNCHANGED vars
  BY <1>7, <1>9 DEF vars, feedVars
<1> QED BY <1>1, <1>2, <1>3, <1>4, <1>5, <1>6, <1>8, <1>9 DEF Next, Publish

LEMMA FeedInvariance == Spec => [](TypeInv /\ OnePublisher /\ FeedInv)
<1>1. Spec => []TypeInv
  BY InitTypeInv, StepTypeInv, PTL DEF Spec
<1> QED BY <1>1, PublisherIsUnique, InitFeedInv, StepFeedInv, PTL DEF Spec

(* The provider implements the feed: a change of state reaches everybody who *)
(* was registered when it happened, once and in the order of the changes,    *)
(* whichever threads made the changes and whichever publishes them.          *)
THEOREM ProviderImplementsFeed == Spec => ImplementsFeed
<1>1. Spec => Feed!Init /\ [][Feed!Next]_Feed!vars
  BY FeedInvariance, FeedInit, FeedStep, PTL DEF Spec
<1> QED BY <1>1 DEF ImplementsFeed, Feed!Spec

LEMMA OwedAreNumbers == ASSUME TypeInv, NEW l \in Listeners PROVE OwedTo(l) \subseteq Nat
<1>1. \A i \in 1..Len(queue) : queue[i] \in Notification
  BY ElementOfSeq DEF TypeInv, TypeOK
<1>2. \A u \in Updaters : batch[u] \in Notification
  BY DEF TypeInv, TypeOK
<1> QED BY <1>1, <1>2 DEF OwedTo, Notification

(* InOrder, and what it needs when there is a new notification.              *)
Ordered == Feed!InOrder /\ \A l \in Listeners : heard[l] <= published

LEMMA StepOrdered ==
  ASSUME TypeInv, Ordered, [Feed!Next]_Feed!vars
  PROVE  Ordered'
<1> DEFINE owed == [l \in Listeners |-> OwedTo(l)]
<1>1. \A l \in Listeners : owed[l] \in SUBSET Nat /\ heard[l] \in Nat
  BY OwedAreNumbers DEF TypeInv, TypeOK
<1>2. published \in Nat /\ heard \in [Listeners -> Nat]
  BY DEF TypeInv, TypeOK
<1>3. \A l \in Listeners : /\ \A n \in owed[l] : heard[l] < n /\ n <= published
                           /\ heard[l] <= published
  BY DEF Ordered, Feed!InOrder
<1>4. SUFFICES \A l \in Listeners : /\ \A n \in owed'[l] : heard'[l] < n /\ n <= published'
                                    /\ heard'[l] <= published'
  BY DEF Ordered, Feed!InOrder
<1> DEFINE Fine(l) == /\ \A n \in owed'[l] : heard'[l] < n /\ n <= published'
                      /\ heard'[l] <= published'
<1>5. CASE Feed!Emit
  <2>1. published' = published + 1 /\ UNCHANGED heard
          /\ \A l \in Listeners : owed'[l] \subseteq owed[l] \cup {published'}
    BY <1>5 DEF Feed!Emit
  <2> HIDE DEF owed
  <2> QED BY <1>1, <1>2, <1>3, <2>1
<1>6. ASSUME NEW x \in Listeners, Feed!Hear(x), NEW l \in Listeners
      PROVE  Fine(l)
  <2>1. PICK n \in owed[x] :
          /\ \A m \in owed[x] : n <= m
          /\ heard' = [heard EXCEPT ![x] = n]
          /\ owed' = [owed EXCEPT ![x] = @ \ {n}]
          /\ UNCHANGED published
    BY <1>6 DEF Feed!Hear
  <2>2. owed'[l] = IF l = x THEN owed[l] \ {n} ELSE owed[l]
    BY <2>1
  <2> HIDE DEF owed
  <2>3. heard'[l] = IF l = x THEN n ELSE heard[l]
    BY <1>2, <2>1
  <2> QED BY <1>1, <1>2, <1>3, <2>1, <2>2, <2>3
<1>7. ASSUME UNCHANGED <<published, owed, heard>> PROVE \A l \in Listeners : Fine(l)
  <2> HIDE DEF owed
  <2> QED BY <1>3, <1>7
<1>8. ASSUME NEW x \in Listeners, Feed!Subscribe(x) \/ Feed!Unsubscribe(x)
      PROVE  UNCHANGED <<published, owed, heard>>
  BY <1>8 DEF Feed!Subscribe, Feed!Unsubscribe
<1>9. CASE UNCHANGED Feed!vars
  <2>1. UNCHANGED <<published, owed, heard>>
    BY <1>9 DEF Feed!vars
  <2> QED BY <1>7, <2>1
<1> HIDE DEF owed
<1> QED BY <1>5, <1>6, <1>7, <1>8, <1>9 DEF Feed!Next

(* What a listener is still to be called with is newer than all it was       *)
(* called with: no change comes late, twice or before an older one.          *)
THEOREM NothingOutOfOrder == Spec => []Feed!InOrder
<1>1. Init => Ordered
  <2> SUFFICES ASSUME Init PROVE Ordered
    OBVIOUS
  <2>1. \A l \in Listeners : OwedTo(l) = {}
    BY EmptyHasNone DEF Init, NoBatch, OwedTo
  <2> QED BY <2>1 DEF Init, Ordered, Feed!InOrder
<1>2. Ordered => Feed!InOrder
  BY DEF Ordered
<1> QED BY <1>1, <1>2, FeedInvariance, FeedStep, StepOrdered, PTL DEF Spec
=============================================================================

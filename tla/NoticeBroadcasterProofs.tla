---------------------- MODULE NoticeBroadcasterProofs ----------------------
(***************************************************************************)
(* Proofs about NoticeBroadcaster as FlagTracker uses it, for any number   *)
(* of flags, listeners and threads: first about the broadcaster, then what *)
(* the tracker's listeners know.                                           *)
(***************************************************************************)
EXTENDS FlagTracker, SequenceTheorems, FiniteSetTheorems, WellFoundedInduction, TLAPS

(* The steps of the broadcaster, whatever the listeners do.                  *)
BroadcasterNext ==
  \/ \E l \in Listeners : AddListener(l) \/ RemoveListener(l) \/ CallListener(l)
  \/ \E k \in Keys : Broadcast(k)
  \/ TakeStop \/ TakeNotice \/ LookUp \/ AllCalled \/ ListenerReturns
  \/ \E s \in Callers : StopCloses(s) \/ StopPuts(s)

LEMMA TrackerStepsAreBroadcasterSteps ==
  [Next]_vars => [BroadcasterNext]_broadcasterVars
<1> SUFFICES ASSUME [Next]_vars PROVE [BroadcasterNext]_broadcasterVars
  OBVIOUS
<1>1. CASE \/ \E named, silent \in SUBSET Keys, archives \in BOOLEAN :
              StoreItems(named, silent, archives)
           \/ Taken \/ Refused
  BY <1>1 DEF StoreItems, Taken, Refused
<1>2. CASE \E k \in Keys : Announce(k)
  BY <1>2 DEF Announce, BroadcasterNext
<1>3. CASE \E l \in Listeners : Create(l) \/ Register(l) \/ Unregister(l)
  BY <1>3 DEF Create, Register, Unregister, BroadcasterNext
<1>4. CASE Thread
  BY <1>4 DEF Thread, Plain, OnFlagChange, Told, FunctionRaises, NothingToTell,
              BroadcasterNext
<1>5. CASE \E s \in Callers : Closed(s) \/ Plain(StopPuts(s))
  BY <1>5 DEF Closed, Plain, BroadcasterNext
<1>6. CASE UNCHANGED vars
  BY <1>6 DEF vars
<1> QED BY <1>1, <1>2, <1>3, <1>4, <1>5, <1>6 DEF Next

-----------------------------------------------------------------------------
(* What is put into the queue and the lists *)

(* A set of natural numbers that is not empty has a least member.            *)
LEMMA LeastNatural ==
  ASSUME NEW N \in SUBSET Nat, N # {}
  PROVE  Min(N) \in N
<1>1. PICK i \in N : \A j \in N : ~ (<<j, i>> \in OpToRel(<, Nat))
  BY NatLessThanWellFounded, WFMin
<1>2. ASSUME NEW j \in N, j < i PROVE FALSE
  <2>1. <<j, i>> \in Nat \X Nat
    BY <1>2
  <2>2. <<j, i>>[1] < <<j, i>>[2]
    BY <1>2
  <2> QED BY <1>1, <2>1, <2>2 DEF OpToRel
<1>3. \A j \in N : i <= j
  BY <1>2
<1> QED BY <1>3 DEF Min

(* list.remove leaves a list of the same kind.                               *)
LEMMA RemoveFirstType ==
  ASSUME NEW S, NEW list \in Seq(S), NEW x
  PROVE  RemoveFirst(list, x) \in Seq(S)
<1> DEFINE found == {i \in 1..Len(list) : list[i] = x}
<1>1. CASE found = {}
  BY <1>1 DEF RemoveFirst
<1>2. CASE found # {}
  <2>1. PICK i \in 1..Len(list) : i = Min(found)
    <3>1. found \in SUBSET Nat /\ found \subseteq 1..Len(list)
      OBVIOUS
    <3> QED BY <1>2, <3>1, LeastNatural
  <2>2. RemoveFirst(list, x) = SubSeq(list, 1, i - 1) \o SubSeq(list, i + 1, Len(list))
    BY <1>2, <2>1 DEF RemoveFirst, RemoveAt, SelectInSeq
  <2>3. \A j \in 1..Len(list) : list[j] \in S
    OBVIOUS
  <2>4. SubSeq(list, 1, i - 1) \in Seq(S)
    BY <2>3, SubSeqProperties
  <2>5. SubSeq(list, i + 1, Len(list)) \in Seq(S)
    BY <2>3, SubSeqProperties
  <2> QED BY <2>2, <2>4, <2>5, ConcatProperties
<1> QED BY <1>1, <1>2

-----------------------------------------------------------------------------
(* Nothing is stranded, nobody is skipped *)

Lists ==
  /\ registered \in Seq(Listeners)
  /\ toCall \in Seq(Listeners)
  /\ queue \in Seq(Keys \cup {StopNotice})

(* Between two notices nothing is left of the last one.                      *)
Idle == pc \in {"get", "look", "dead"} => toCall = <<>> /\ due = {}

(* Whoever is still due is still in the thread's copy of the list.           *)
DueAreToCall == due \subseteq ToSet(toCall)

Closing == {s \in Callers : stopper[s] = "closing"}

StopNoticeAt(i) == i \in 1..Len(queue) /\ queue[i] = StopNotice

(* The stop notice is put once, after closing, and nothing is put behind it. *)
StopIsLast ==
  /\ stopper \in [Callers -> {"out", "closing"}]
  /\ ~closed => Closing = {} /\ pc # "dead" /\ \A i : ~StopNoticeAt(i)
  /\ \A s \in Closing : Closing = {s}
  /\ Closing # {} => pc # "dead" /\ \A i : ~StopNoticeAt(i)
  /\ \A i : StopNoticeAt(i) => i = Len(queue) /\ pc # "dead"
  /\ pc = "dead" => queue = <<>>

IInv == Lists /\ Idle /\ DueAreToCall /\ StopIsLast

LEMMA InitIInv == Init => IInv
<1> SUFFICES ASSUME Init PROVE IInv
  OBVIOUS
<1> USE DEF Init, BroadcasterInit
<1>1. Lists
  BY DEF Lists
<1>2. Idle /\ DueAreToCall
  BY DEF Idle, DueAreToCall
<1>3. StopIsLast
  BY DEF StopIsLast, Closing, StopNoticeAt
<1> QED BY <1>1, <1>2, <1>3 DEF IInv

LEMMA StepLists ==
  ASSUME Lists, [BroadcasterNext]_broadcasterVars
  PROVE  Lists'
<1> USE DEF Lists, threadVars
<1>1. ASSUME NEW l \in Listeners, AddListener(l) PROVE Lists'
  BY <1>1, AppendProperties DEF AddListener
<1>2. ASSUME NEW l \in Listeners, RemoveListener(l) PROVE Lists'
  BY <1>2, RemoveFirstType DEF RemoveListener
<1>3. ASSUME NEW l \in Listeners, CallListener(l) PROVE Lists'
  BY <1>3, HeadTailProperties DEF CallListener
<1>4. ASSUME NEW k \in Keys, Broadcast(k) PROVE Lists'
  BY <1>4, AppendProperties DEF Broadcast
<1>5. CASE TakeStop \/ TakeNotice
  BY <1>5, HeadTailProperties DEF TakeStop, TakeNotice
<1>6. CASE LookUp \/ AllCalled \/ ListenerReturns
  BY <1>6 DEF LookUp, AllCalled, ListenerReturns
<1>7. ASSUME NEW s \in Callers, StopCloses(s) \/ StopPuts(s) PROVE Lists'
  <2>1. CASE StopCloses(s)
    BY <2>1 DEF StopCloses
  <2>2. CASE StopPuts(s)
    <3>1. queue' = Append(queue, StopNotice) /\ UNCHANGED <<registered, toCall>>
      BY <2>2 DEF StopPuts
    <3>2. StopNotice \in Keys \cup {StopNotice}
      OBVIOUS
    <3> QED BY <3>1, <3>2, AppendProperties
  <2> QED BY <1>7, <2>1, <2>2
<1>8. CASE UNCHANGED broadcasterVars
  BY <1>8 DEF broadcasterVars
<1> QED BY <1>1, <1>2, <1>3, <1>4, <1>5, <1>6, <1>7, <1>8 DEF BroadcasterNext

LEMMA StepDue ==
  ASSUME Lists, Idle, DueAreToCall, [BroadcasterNext]_broadcasterVars
  PROVE  Idle' /\ DueAreToCall'
<1> USE DEF Idle, DueAreToCall, threadVars
<1>1. ASSUME NEW l \in Listeners, AddListener(l) PROVE Idle' /\ DueAreToCall'
  BY <1>1 DEF AddListener
<1>2. ASSUME NEW l \in Listeners, RemoveListener(l) PROVE Idle' /\ DueAreToCall'
  BY <1>2 DEF RemoveListener
<1>3. ASSUME NEW l \in Listeners, CallListener(l) PROVE Idle' /\ DueAreToCall'
  <2>1. toCall # <<>> /\ l = Head(toCall) /\ toCall' = Tail(toCall)
    BY <1>3 DEF CallListener
  <2>2. toCall \in Seq(Listeners)
    BY DEF Lists
  <2>3. ASSUME NEW i \in 1..Len(toCall), toCall[i] # l
        PROVE  toCall[i] \in ToSet(toCall')
    <3>1. i # 1 /\ Len(toCall') = Len(toCall) - 1
      BY <2>1, <2>2, <2>3, HeadTailProperties
    <3>2. i - 1 \in 1..Len(toCall') /\ toCall'[i - 1] = toCall[i]
      BY <2>1, <2>2, <3>1, HeadTailProperties
    <3>3. DOMAIN toCall' = 1..Len(toCall')
      BY <2>1, <2>2, HeadTailProperties, LenProperties
    <3> QED BY <3>2, <3>3 DEF ToSet
  <2>4. ToSet(toCall) \subseteq ToSet(toCall') \cup {l}
    BY <2>2, <2>3, LenProperties DEF ToSet
  <2> QED BY <1>3, <2>4 DEF CallListener
<1>4. ASSUME NEW k \in Keys, Broadcast(k) PROVE Idle' /\ DueAreToCall'
  BY <1>4 DEF Broadcast
<1>5. CASE TakeStop \/ TakeNotice
  BY <1>5 DEF TakeStop, TakeNotice
<1>6. CASE LookUp
  BY <1>6 DEF LookUp
<1>7. CASE AllCalled
  BY <1>7 DEF AllCalled, ToSet
<1>8. CASE ListenerReturns
  BY <1>8 DEF ListenerReturns
<1>9. ASSUME NEW s \in Callers, StopCloses(s) \/ StopPuts(s)
      PROVE  Idle' /\ DueAreToCall'
  BY <1>9 DEF StopCloses, StopPuts
<1>10. CASE UNCHANGED broadcasterVars
  BY <1>10 DEF broadcasterVars
<1> QED BY <1>1, <1>2, <1>3, <1>4, <1>5, <1>6, <1>7, <1>8, <1>9, <1>10
        DEF BroadcasterNext

(* The queue's beginning is taken: the stop notice, if there is one, is      *)
(* still the last.                                                           *)
LEMMA TakingKeepsStopLast ==
  ASSUME Lists, StopIsLast, queue # <<>>, queue' = Tail(queue),
         NEW i, StopNoticeAt(i)'
  PROVE  /\ StopNoticeAt(i + 1)
         /\ i = Len(queue')
<1>1. /\ queue \in Seq(Keys \cup {StopNotice})
      /\ \A j : StopNoticeAt(j) => j = Len(queue)
  BY DEF Lists, StopIsLast
<1>2. /\ Len(queue) \in Nat /\ Len(queue') = Len(queue) - 1
      /\ \A j \in 1..Len(queue') : queue'[j] = queue[j + 1]
  BY <1>1, HeadTailProperties, LenProperties
<1>3. i \in 1..Len(queue') /\ queue'[i] = StopNotice
  BY DEF StopNoticeAt
<1>4. i + 1 \in 1..Len(queue) /\ queue[i + 1] = StopNotice
  BY <1>2, <1>3
<1>5. StopNoticeAt(i + 1)
  BY <1>4 DEF StopNoticeAt
<1>6. PICK m \in Nat : m = Len(queue) /\ Len(queue') = m - 1
  BY <1>2
<1>7. i \in 1..(m - 1) /\ i + 1 = m
  BY <1>1, <1>3, <1>5, <1>6
<1>8. i = m - 1
  BY <1>7
<1> QED BY <1>5, <1>6, <1>8

LEMMA StepStop ==
  ASSUME Lists, Lists', StopIsLast, [BroadcasterNext]_broadcasterVars
  PROVE  StopIsLast'
<1> USE DEF threadVars
<1>1. ASSUME NEW l \in Listeners, AddListener(l) PROVE StopIsLast'
  BY <1>1 DEF AddListener, StopIsLast, Closing, StopNoticeAt
<1>2. ASSUME NEW l \in Listeners, RemoveListener(l) PROVE StopIsLast'
  BY <1>2 DEF RemoveListener, StopIsLast, Closing, StopNoticeAt
<1>3. ASSUME NEW l \in Listeners, CallListener(l) PROVE StopIsLast'
  BY <1>3 DEF CallListener, StopIsLast, Closing, StopNoticeAt
<1>4. ASSUME NEW k \in Keys, Broadcast(k) PROVE StopIsLast'
  <2>1. CASE closed
    BY <1>4, <2>1 DEF Broadcast, Accepts, StopIsLast, Closing, StopNoticeAt
  <2>2. CASE ~closed
    <3>1. k # StopNotice
      BY BroadcasterAssumption DEF StopNotice
    <3>2. \A i : ~StopNoticeAt(i)'
      BY <1>4, <2>2, <3>1, AppendProperties
         DEF Broadcast, Accepts, Lists, StopIsLast, StopNoticeAt
    <3> QED BY <1>4, <2>2, <3>2 DEF Broadcast, StopIsLast, Closing
  <2> QED BY <2>1, <2>2
<1>5. CASE TakeStop
  <2>1. StopNoticeAt(1)
    BY <1>5, LenProperties DEF TakeStop, StopNoticeAt, Lists
  <2>2. Len(queue) = 1 /\ closed /\ Closing = {}
    BY <2>1 DEF StopIsLast
  <2>3. queue' = <<>>
    BY <1>5, <2>2, HeadTailProperties, EmptySeq DEF TakeStop, Lists
  <2>4. closed' /\ Closing' = {}
    BY <1>5, <2>2 DEF TakeStop, Closing
  <2>5. \A i : ~StopNoticeAt(i)'
    BY <2>3 DEF StopNoticeAt
  <2> QED BY <1>5, <2>3, <2>4, <2>5 DEF TakeStop, StopIsLast
<1>6. CASE TakeNotice
  <2>1. \A i : StopNoticeAt(i)' => StopNoticeAt(i + 1) /\ i = Len(queue')
    BY <1>6, TakingKeepsStopLast DEF TakeNotice
  <2>2. Closing' = Closing /\ closed' = closed /\ pc' # "dead"
    BY <1>6 DEF TakeNotice, Closing
  <2>3. stopper' \in [Callers -> {"out", "closing"}]
    BY <1>6 DEF TakeNotice, StopIsLast
  <2> QED BY <1>6, <2>1, <2>2, <2>3 DEF TakeNotice, StopIsLast
<1>7. CASE LookUp
  BY <1>7 DEF LookUp, StopIsLast, Closing, StopNoticeAt
<1>8. CASE AllCalled
  BY <1>8 DEF AllCalled, StopIsLast, Closing, StopNoticeAt
<1>9. CASE ListenerReturns
  BY <1>9 DEF ListenerReturns, StopIsLast, Closing, StopNoticeAt
<1>10. ASSUME NEW s \in Callers, StopCloses(s) PROVE StopIsLast'
  <2>1. Closing = {} /\ pc # "dead" /\ \A i : ~StopNoticeAt(i)
    BY <1>10 DEF StopCloses, StopIsLast
  <2>2. Closing' = {s}
    BY <1>10, <2>1 DEF StopCloses, Closing, StopIsLast
  <2> QED BY <1>10, <2>1, <2>2 DEF StopCloses, StopIsLast, StopNoticeAt
<1>11. ASSUME NEW s \in Callers, StopPuts(s) PROVE StopIsLast'
  <2>1. Closing = {s} /\ pc # "dead" /\ \A i : ~StopNoticeAt(i)
    BY <1>11 DEF StopPuts, StopIsLast, Closing
  <2>2. closed
    BY <2>1 DEF StopIsLast
  <2>3. Closing' = {}
    BY <1>11, <2>1 DEF StopPuts, StopIsLast, Closing
  <2>4. \A i : StopNoticeAt(i)' => i = Len(queue')
    BY <1>11, <2>1, AppendProperties DEF StopPuts, StopNoticeAt, Lists
  <2> QED BY <1>11, <2>1, <2>2, <2>3, <2>4 DEF StopPuts, StopIsLast
<1>12. CASE UNCHANGED broadcasterVars
  BY <1>12 DEF broadcasterVars, StopIsLast, Closing, StopNoticeAt
<1> QED BY <1>1, <1>2, <1>3, <1>4, <1>5, <1>6, <1>7, <1>8, <1>9, <1>10, <1>11, <1>12
        DEF BroadcasterNext

LEMMA Invariance == Spec => []IInv
<1>1. ASSUME IInv, [Next]_vars PROVE IInv'
  <2>1. [BroadcasterNext]_broadcasterVars
    BY <1>1, TrackerStepsAreBroadcasterSteps
  <2>2. Lists'
    BY <1>1, <2>1, StepLists DEF IInv
  <2> QED BY <1>1, <2>1, <2>2, StepDue, StepStop DEF IInv
<1> QED BY InitIInv, <1>1, PTL DEF Spec

(* The broadcaster's thread never ends with an accepted notice unprocessed   *)
(* or a listener of it uncalled: the stop notice is put only once, by the    *)
(* thread that closed the broadcaster, and broadcast puts nothing after.     *)
THEOREM NothingIsStranded == Spec => []NothingStranded
<1>1. IInv => NothingStranded
  BY DEF IInv, Idle, StopIsLast, NothingStranded
<1> QED BY Invariance, <1>1, PTL

(* When the thread goes back to its queue, every listener that was there at  *)
(* the copy and was not removed since has been called.                       *)
THEOREM NobodyIsSkipped == Spec => []NobodySkipped
<1>1. IInv => NobodySkipped
  BY DEF IInv, Idle, NobodySkipped
<1> QED BY Invariance, <1>1, PTL

-----------------------------------------------------------------------------
(* What the tracker's listeners know *)

LEMMA InAppended ==
  ASSUME NEW S, NEW q \in Seq(S), NEW x \in S, NEW y
  PROVE  Contains(Append(q, x), y) <=> Contains(q, y) \/ y = x
<1> DEFINE n == Len(q)
           a == Append(q, x)
<1>1. n \in Nat
  BY LenProperties
<1>2. Len(a) = n + 1 /\ a[n + 1] = x /\ \A i \in 1..n : a[i] = q[i]
  BY AppendProperties
<1>3. 1..Len(a) = 1..n \cup {n + 1}
  BY <1>1, <1>2
<1> HIDE DEF n, a
<1>4. Contains(q, y) <=> \E i \in 1..n : q[i] = y
  BY DEF Contains, n
<1>5. Contains(a, y) <=> \E i \in 1..n \cup {n + 1} : a[i] = y
  BY <1>3 DEF Contains
<1> QED BY <1>2, <1>4, <1>5 DEF a

LEMMA InTail ==
  ASSUME NEW S, NEW q \in Seq(S), q # <<>>, NEW y
  PROVE  Contains(q, y) <=> y = Head(q) \/ Contains(Tail(q), y)
<1> DEFINE n == Len(q)
           t == Tail(q)
<1>1. n \in Nat /\ n # 0
  BY LenProperties, EmptySeq
<1>2. Head(q) = q[1]
  OBVIOUS
<1>3. Len(t) = n - 1 /\ \A i \in 1..(n - 1) : t[i] = q[i + 1]
  BY HeadTailProperties
<1>4. \A i \in 1..n : i = 1 \/ (i - 1 \in 1..(n - 1) /\ (i - 1) + 1 = i)
  BY <1>1
<1>5. 1 \in 1..n /\ \A i \in 1..(n - 1) : i + 1 \in 1..n
  BY <1>1
<1> HIDE DEF n, t
<1>6. Contains(q, y) <=> \E i \in 1..n : q[i] = y
  BY DEF Contains, n
<1>7. Contains(t, y) <=> \E i \in 1..(n - 1) : q[i + 1] = y
  BY <1>3 DEF Contains
<1>8. ASSUME NEW i \in 1..n, q[i] = y PROVE y = q[1] \/ Contains(t, y)
  <2>1. CASE i = 1
    BY <1>8, <2>1
  <2>2. CASE i # 1
    <3>1. i - 1 \in 1..(n - 1) /\ q[(i - 1) + 1] = y
      BY <1>4, <1>8, <2>2
    <3> QED BY <1>7, <3>1
  <2> QED BY <2>1, <2>2
<1> QED BY <1>2, <1>5, <1>6, <1>7, <1>8 DEF t

LEMMA InNone ==
  ASSUME NEW y
  PROVE  ~Contains(<<>>, y)
BY EmptySeq DEF Contains

(* What is left in the list was in it.                                       *)
LEMMA InRemoved ==
  ASSUME NEW S, NEW list \in Seq(S), NEW x, NEW y, Contains(RemoveFirst(list, x), y)
  PROVE  Contains(list, y)
<1> DEFINE T == {list[i] : i \in 1..Len(list)}
<1>1. list \in Seq(T)
  <2>1. \A i \in 1..Len(list) : list[i] \in T
    OBVIOUS
  <2>2. Len(list) \in Nat /\ list \in [1..Len(list) -> T]
    BY <2>1, LenProperties
  <2> QED BY <2>2, SeqDef
<1>2. RemoveFirst(list, x) \in Seq(T)
  BY <1>1, RemoveFirstType
<1> HIDE DEF T
<1>3. y \in T
  BY <1>2, ElementOfSeq DEF Contains
<1> QED BY <1>3 DEF T, Contains

-----------------------------------------------------------------------------

LEMMA NoValueIsWorth == NoValue \in Worth
BY DEF Worth

LEMMA KeysAreNoStop == StopNotice \notin Keys /\ \A l \in Listeners : KeyOf[l] \in Keys
BY BroadcasterAssumption, TrackerAssumption DEF StopNotice

(* The tracker's own variables; value and previous are functions.            *)
TrackerTypes ==
  /\ value \in [Keys -> Worth]
  /\ previous \in [Listeners -> Worth]
  /\ current \in Worth
  /\ stored \in SUBSET Keys
  /\ toAnnounce \in SUBSET Keys

(* The function is called inside a call of its listener, and that of a       *)
(* listener that was created; so is whoever is registered.                   *)
CallsMakeSense ==
  /\ telling => pc = "inside"
  /\ pc = "inside" => calling \in Listeners
  /\ \A l \in Listeners : Registered(l) => l \in created
  /\ \A l \in Listeners : Contains(toCall, l) => l \in created
  /\ pc = "inside" => calling \in created

(* What a listener was told of is the value of its flag, or it will be       *)
(* called again, or a change is not announced.                               *)
ToldOfPresent ==
  telling => \/ current = value[KeyOf[calling]]
             \/ Coming(calling)
             \/ calling \in missed
             \/ closed

(* A message is announced before the next one is stored.                     *)
OneMessage == MessageStored => toAnnounce = {}

KInv == TrackerTypes /\ CallsMakeSense /\ OneMessage /\ ToldOfPresent /\ Knows

LEMMA InitKInv == Init => KInv
<1> SUFFICES ASSUME Init PROVE KInv
  OBVIOUS
<1>1. \A l : ~Contains(registered, l) /\ ~Contains(toCall, l)
  BY InNone DEF Init, BroadcasterInit
<1>2. TrackerTypes
  BY NoValueIsWorth DEF Init, TrackerTypes
<1>3. CallsMakeSense /\ ToldOfPresent
  BY <1>1 DEF Init, BroadcasterInit, CallsMakeSense, ToldOfPresent, Registered
<1>4. Knows
  BY <1>1 DEF Knows, Behind, Registered
<1>5. OneMessage
  BY DEF Init, OneMessage, MessageStored
<1> QED BY <1>2, <1>3, <1>4, <1>5 DEF KInv

LEMMA StepOneMessage ==
  ASSUME OneMessage, [Next]_vars
  PROVE  OneMessage'
<1> USE DEF OneMessage, MessageStored
<1>1. ASSUME NEW named \in SUBSET Keys, NEW silent \in SUBSET Keys, NEW archives,
             StoreItems(named, silent, archives)
      PROVE  OneMessage'
  BY <1>1 DEF StoreItems
<1>2. CASE Taken \/ Refused
  BY <1>2 DEF Taken, Refused
<1>3. ASSUME NEW k \in Keys, Announce(k) PROVE OneMessage'
  BY <1>3 DEF Announce
<1>4. CASE UNCHANGED messageVars
  BY <1>4 DEF messageVars
<1> QED BY <1>1, <1>2, <1>3, <1>4
        DEF Next, Thread, Plain, Create, Register, Unregister, OnFlagChange, Told,
            FunctionRaises, NothingToTell, Closed, vars, storeVars

LEMMA StepTrackerTypes ==
  ASSUME TrackerTypes, [Next]_vars
  PROVE  TrackerTypes'
<1> USE DEF TrackerTypes, storeVars, messageVars, trackerVars
<1>1. ASSUME NEW named \in SUBSET Keys, NEW silent \in SUBSET Keys, NEW archives,
             StoreItems(named, silent, archives)
      PROVE  TrackerTypes'
  BY <1>1 DEF StoreItems
<1>2. ASSUME NEW k \in Keys, Announce(k) PROVE TrackerTypes'
  BY <1>2 DEF Announce
<1>3. ASSUME NEW l \in Listeners, Create(l) PROVE TrackerTypes'
  BY <1>3, KeysAreNoStop, NoValueIsWorth DEF Create
<1>4. ASSUME NEW l \in Listeners, Register(l) \/ Unregister(l) \/ OnFlagChange(l) PROVE TrackerTypes'
  <2>1. CASE OnFlagChange(l)
    <3>1. value[KeyOf[l]] \in Worth
      BY KeysAreNoStop
    <3> QED BY <2>1, <3>1 DEF OnFlagChange
  <2>2. CASE Register(l) \/ Unregister(l)
    BY <2>2 DEF Register, Unregister
  <2> QED BY <1>4, <2>1, <2>2
<1>5. CASE Told
  BY <1>5, NoValueIsWorth DEF Told
<1>6. CASE FunctionRaises \/ NothingToTell
  BY <1>6, NoValueIsWorth DEF FunctionRaises, NothingToTell
<1>7. CASE UNCHANGED <<storeVars, trackerVars>>
  BY <1>7
<1>8. CASE Taken \/ Refused
  BY <1>8 DEF Taken, Refused
<1> QED BY <1>1, <1>2, <1>3, <1>4, <1>5, <1>6, <1>7, <1>8 DEF Next, Thread, Closed, Plain, vars

(* Listeners come from where they were, or are registered.                   *)
LEMMA StepCalls ==
  ASSUME Lists, Lists', CallsMakeSense, [Next]_vars
  PROVE  CallsMakeSense'
<1> USE DEF CallsMakeSense, Registered, threadVars, storeVars, trackerVars
<1>1. CASE UNCHANGED <<telling, pc, calling, registered, toCall, created>>
  BY <1>1
<1>2. ASSUME NEW l \in Listeners, Create(l) PROVE CallsMakeSense'
  BY <1>2 DEF Create, broadcasterVars
<1>3. ASSUME NEW l \in Listeners, Register(l) PROVE CallsMakeSense'
  <2>1. /\ l \in created /\ registered' = Append(registered, l)
        /\ UNCHANGED <<telling, pc, calling, toCall, created>>
    BY <1>3 DEF Register, AddListener
  <2>2. \A x : Contains(registered', x) <=> Contains(registered, x) \/ x = l
    BY <2>1, InAppended DEF Lists
  <2> QED BY <2>1, <2>2
<1>4. ASSUME NEW l \in Listeners, Unregister(l) PROVE CallsMakeSense'
  <2>1. /\ registered' = RemoveFirst(registered, l)
        /\ UNCHANGED <<telling, pc, calling, toCall, created>>
    BY <1>4 DEF Unregister, RemoveListener
  <2>2. \A x : Contains(registered', x) => Contains(registered, x)
    BY <2>1, InRemoved DEF Lists
  <2> QED BY <2>1, <2>2
<1>5. ASSUME NEW l \in Listeners, OnFlagChange(l) PROVE CallsMakeSense'
  <2>1. /\ toCall # <<>> /\ l = Head(toCall) /\ toCall' = Tail(toCall)
        /\ calling' = l /\ pc' = "inside" /\ UNCHANGED <<registered, created>>
    BY <1>5 DEF OnFlagChange, CallListener
  <2>2. \A x : Contains(toCall, x) <=> x = l \/ Contains(toCall', x)
    BY <2>1, InTail DEF Lists
  <2> QED BY <2>1, <2>2
<1>6. CASE Told \/ FunctionRaises \/ NothingToTell
  <2>1. /\ pc' = "call" /\ ~telling' /\ UNCHANGED <<registered, toCall, created>>
    BY <1>6 DEF Told, FunctionRaises, NothingToTell, ListenerReturns
  <2> QED BY <2>1
<1>7. CASE Plain(TakeStop \/ TakeNotice \/ AllCalled)
  <2>1. /\ pc # "inside" /\ pc' # "inside" /\ UNCHANGED <<telling, registered, toCall, created>>
    BY <1>7 DEF Plain, TakeStop, TakeNotice, AllCalled
  <2> QED BY <2>1
<1>8. CASE Plain(LookUp)
  <2>1. /\ pc # "inside" /\ pc' # "inside" /\ toCall' = registered
        /\ UNCHANGED <<telling, registered, created>>
    BY <1>8 DEF Plain, LookUp
  <2> QED BY <2>1
<1>9. \/ UNCHANGED <<telling, pc, calling, registered, toCall, created>>
      \/ \E l \in Listeners : Create(l) \/ Register(l) \/ Unregister(l) \/ OnFlagChange(l)
      \/ Told \/ FunctionRaises \/ NothingToTell
      \/ Plain(TakeStop \/ TakeNotice \/ AllCalled) \/ Plain(LookUp)
  BY DEF Next, Thread, Plain, StoreItems, Taken, Refused, Announce, Broadcast, Closed,
     StopCloses, StopPuts, vars, broadcasterVars
<1> QED BY <1>1, <1>2, <1>3, <1>4, <1>5, <1>6, <1>7, <1>8, <1>9

LEMMA OpenWasOpen == ASSUME [Next]_vars, ~closed' PROVE ~closed
BY DEF Next, Thread, Plain, OnFlagChange, CallListener, Told, FunctionRaises, NothingToTell,
   ListenerReturns, TakeStop, TakeNotice, LookUp, AllCalled, StoreItems, Taken, Refused,
   Announce, Broadcast, Create, Register, AddListener, Unregister, RemoveListener, Closed,
   StopCloses, StopPuts, vars, threadVars, broadcasterVars

(* The end of a message: a notice that is not to come any more is one        *)
(* somebody misses.                                                          *)
LEMMA MessageEnds ==
  ASSUME OneMessage, Taken \/ Refused, ~closed, NEW l \in Listeners
  PROVE  /\ NoticeToCome(l) => Coming(l)' \/ l \in missed'
         /\ UNCHANGED <<broadcasterVars, trackerVars, value>>
         /\ missed \subseteq missed'
<1>1. /\ UNCHANGED <<broadcasterVars, trackerVars, value>>
      /\ stored' = {}
      /\ \/ Unannounced(stored \ toAnnounce')
         \/ Unannounced(stored) /\ toAnnounce' = toAnnounce
      /\ toAnnounce = {} \/ toAnnounce' = toAnnounce
  BY DEF Taken, Refused, OneMessage
<1>2. UNCHANGED <<queue, pc, notice, closed>>
  BY <1>1 DEF broadcasterVars, threadVars
<1>3. missed \subseteq missed'
  BY <1>1 DEF Unannounced, Miss
<1>4. ASSUME NoticeToCome(l) PROVE Coming(l)' \/ l \in missed'
  <2>1. CASE KeyOf[l] \in stored \ toAnnounce'
    BY <1>1, <2>1 DEF Unannounced, Miss
  <2>2. CASE KeyOf[l] \notin stored \ toAnnounce'
    BY <1>1, <1>2, <1>4, <2>2 DEF Coming, NoticeToCome
  <2> QED BY <2>1, <2>2
<1> QED BY <1>1, <1>3, <1>4

(* What is stored is announced, or somebody misses it. *)
LEMMA StoredIsAwaited ==
  ASSUME TrackerTypes, NEW named \in SUBSET Keys, NEW silent \in SUBSET Keys, NEW archives,
         StoreItems(named, silent, archives), ~closed, NEW l \in Listeners
  PROVE  /\ value'[KeyOf[l]] = value[KeyOf[l]] \/ Coming(l)' \/ l \in missed'
         /\ NoticeToCome(l) => NoticeToCome(l)'
         /\ UNCHANGED <<broadcasterVars, trackerVars>>
         /\ missed \subseteq missed'
<1>1. /\ UNCHANGED <<broadcasterVars, trackerVars, toAnnounce>>
      /\ stored' = stored \cup named
      /\ Unannounced(silent)
  BY DEF StoreItems
<1>2. UNCHANGED <<queue, pc, notice, closed>>
  BY <1>1 DEF broadcasterVars, threadVars
<1>3. missed \subseteq missed'
  BY <1>1 DEF Unannounced, Miss
<1>4. NoticeToCome(l) => NoticeToCome(l)'
  BY <1>1, <1>2 DEF NoticeToCome
<1>5. CASE KeyOf[l] \in named
  BY <1>1, <1>2, <1>3, <1>4, <1>5 DEF Coming, NoticeToCome
<1>6. CASE KeyOf[l] \in silent
  BY <1>1, <1>3, <1>4, <1>6 DEF Unannounced, Miss
<1>7. CASE KeyOf[l] \notin named \cup silent
  <2>1. value'[KeyOf[l]] \in {value[KeyOf[l]]}
    BY <1>7, KeysAreNoStop DEF StoreItems
  <2> QED BY <1>1, <1>3, <1>4, <2>1
<1> QED BY <1>5, <1>6, <1>7

(* An announced flag is awaited by its listeners, and only they may have     *)
(* missed nothing any more.                                                  *)
LEMMA AnnouncedIsAwaited ==
  ASSUME Lists, NEW k \in Keys, Announce(k), ~closed, NEW l \in Listeners
  PROVE  /\ NoticeToCome(l) \/ KeyOf[l] = k => NoticeToCome(l)'
         /\ l \in missed => l \in missed' \/ NoticeToCome(l)'
         /\ UNCHANGED <<registered, closed, threadVars, value, trackerVars>>
<1>1. /\ queue' = Append(queue, k) /\ toAnnounce' = toAnnounce \ {k}
      /\ UNCHANGED <<registered, closed, threadVars, value, stored, trackerVars>>
      /\ missed' = {x \in missed : KeyOf[x] # k}
  BY DEF Announce, Announced, Broadcast, Accepts
<1>2. Contains(queue', KeyOf[l]) <=> Contains(queue, KeyOf[l]) \/ KeyOf[l] = k
  <2>1. queue \in Seq(Keys \cup {StopNotice})
    BY DEF Lists
  <2> QED BY <1>1, <2>1, InAppended
<1>3. NoticeToCome(l) \/ KeyOf[l] = k => NoticeToCome(l)'
  BY <1>1, <1>2 DEF NoticeToCome, threadVars
<1> QED BY <1>1, <1>3

(* While the broadcaster is open, a notice on its way is on its way until    *)
(* the message that announces it fails or the thread looks up who is to be   *)
(* called with it.                                                           *)
LEMMA NoticeStays ==
  ASSUME Lists, StopIsLast, TrackerTypes, [Next]_vars, ~closed',
         ~LookUp, ~Taken, ~Refused, NEW l \in Listeners, NoticeToCome(l)
  PROVE  NoticeToCome(l)'
<1> USE DEF threadVars, storeVars, messageVars, trackerVars, NoticeToCome
<1> DEFINE k == KeyOf[l]
<1>0. k \in Keys /\ k # StopNotice
  BY KeysAreNoStop
<1>1. ~closed
  BY OpenWasOpen
<1>2. CASE UNCHANGED <<queue, notice, closed>> /\ (pc = "look" => pc' = "look")
             /\ toAnnounce \subseteq toAnnounce' /\ stored \subseteq stored'
  BY <1>2
<1>3. ASSUME NEW x \in Keys, Announce(x) PROVE NoticeToCome(l)'
  BY <1>1, <1>3, AnnouncedIsAwaited
<1>4. CASE TakeNotice /\ UNCHANGED storeVars
  <2>1. pc = "get" /\ queue # <<>> /\ queue' = Tail(queue) /\ notice' = Head(queue)
          /\ pc' = "look" /\ UNCHANGED <<closed, toAnnounce, stored>>
    BY <1>4 DEF TakeNotice
  <2>2. Contains(queue, k) <=> k = Head(queue) \/ Contains(queue', k)
    BY <2>1, InTail DEF Lists
  <2> QED BY <2>1, <2>2
<1>5. ~TakeStop
  <2>1. ASSUME TakeStop PROVE FALSE
    <3>1. queue # <<>> /\ queue \in Seq(Keys \cup {StopNotice}) /\ Head(queue) = StopNotice
      BY <2>1 DEF TakeStop, Lists
    <3>2. StopNoticeAt(1)
      BY <3>1, LenProperties, EmptySeq DEF StopNoticeAt
    <3> QED BY <1>1, <3>2 DEF StopIsLast
  <2> QED BY <2>1
<1>6. \A s \in Callers : ~StopPuts(s)
  BY <1>1 DEF StopPuts, StopIsLast, Closing
<1>7. \A s \in Callers : ~Closed(s)
  BY DEF Closed, StopCloses
<1>8. ASSUME NEW named \in SUBSET Keys, NEW silent \in SUBSET Keys, NEW archives,
             StoreItems(named, silent, archives)
      PROVE  NoticeToCome(l)'
  BY <1>1, <1>8, StoredIsAwaited
<1>9. CASE \E x \in Listeners : Create(x) \/ Register(x) \/ Unregister(x) \/ OnFlagChange(x)
  BY <1>2, <1>9 DEF Create, Register, Unregister, AddListener, RemoveListener, OnFlagChange,
     CallListener, broadcasterVars
<1>10. CASE Told \/ FunctionRaises \/ NothingToTell
  BY <1>2, <1>10 DEF Told, FunctionRaises, NothingToTell, ListenerReturns
<1>11. CASE Plain(AllCalled)
  <2>1. pc = "call" /\ UNCHANGED <<queue, closed, toAnnounce, stored>>
    BY <1>11 DEF Plain, AllCalled
  <2> QED BY <2>1
<1>12. CASE UNCHANGED vars
  BY <1>2, <1>12 DEF vars, broadcasterVars
<1> QED BY <1>3, <1>4, <1>5, <1>6, <1>7, <1>8, <1>9, <1>10, <1>11, <1>12
        DEF Next, Thread, Plain

(* What was missed is made good by nothing but another notice.               *)
LEMMA MissedStays ==
  ASSUME Lists, [Next]_vars, ~closed', NEW l \in Listeners, l \in missed
  PROVE  l \in missed' \/ NoticeToCome(l)'
<1>1. ~closed
  BY OpenWasOpen
<1>2. ASSUME NEW k \in Keys, Announce(k) PROVE l \in missed' \/ NoticeToCome(l)'
  BY <1>1, <1>2, AnnouncedIsAwaited
<1>3. CASE missed \subseteq missed'
  BY <1>3
<1>4. \/ missed \subseteq missed'
      \/ \E k \in Keys : Announce(k)
  BY DEF Next, Thread, Plain, OnFlagChange, Told, FunctionRaises, NothingToTell, StoreItems,
     Taken, Refused, Unannounced, Miss, Create, Register, Unregister, Closed, StopCloses, vars
<1> QED BY <1>2, <1>3, <1>4

(* While the application's function is called, whoever is to be called with  *)
(* a notice still is, or the notice is not announced.                        *)
LEMMA StepTold ==
  ASSUME Lists, StopIsLast, TrackerTypes, CallsMakeSense, OneMessage, ToldOfPresent, [Next]_vars
  PROVE  ToldOfPresent'
<1> USE DEF threadVars, storeVars, messageVars, trackerVars
<1>1. CASE ~telling'
  BY <1>1 DEF ToldOfPresent
<1>2. CASE closed'
  BY <1>2 DEF ToldOfPresent
<1>3. ASSUME ~closed', UNCHANGED <<telling, current, calling, pc, notice, toCall>>,
             NEW l \in Listeners, l = calling, telling,
             value'[KeyOf[l]] = value[KeyOf[l]] \/ Coming(l)' \/ l \in missed',
             NoticeToCome(l) => Coming(l)' \/ l \in missed'
      PROVE  ToldOfPresent'
  <2>1. ~closed
    BY <1>3, OpenWasOpen
  <2>2. l \in missed => l \in missed' \/ Coming(l)'
    BY <1>3, MissedStays DEF Coming
  <2>3. Coming(l) => Coming(l)' \/ l \in missed'
    BY <1>3 DEF Coming
  <2>4. current = value[KeyOf[l]] \/ Coming(l) \/ l \in missed
    BY <1>3, <2>1 DEF ToldOfPresent
  <2>5. current' = value'[KeyOf[l]] \/ Coming(l)' \/ l \in missed'
    BY <1>3, <2>2, <2>3, <2>4
  <2> QED BY <1>3, <2>5 DEF ToldOfPresent, Coming, NoticeToCome
<1>4. ASSUME NEW l \in Listeners, OnFlagChange(l), telling' PROVE ToldOfPresent'
  <2>1. ~telling
    BY <1>4 DEF OnFlagChange, CallListener, CallsMakeSense
  <2>2. calling' = l /\ current' = value[KeyOf[l]] /\ UNCHANGED value
    BY <1>4, <2>1 DEF OnFlagChange, CallListener
  <2> QED BY <2>2 DEF ToldOfPresent
<1>5. CASE Told \/ FunctionRaises \/ NothingToTell
  BY <1>1, <1>5 DEF Told, FunctionRaises, NothingToTell
<1>6. CASE Plain(TakeStop \/ TakeNotice \/ LookUp \/ AllCalled)
  <2>1. ~telling'
    BY <1>6 DEF Plain, TakeStop, TakeNotice, LookUp, AllCalled, CallsMakeSense
  <2> QED BY <1>1, <2>1
<1>7. CASE telling' /\ ~closed' /\ UNCHANGED <<telling, calling, pc>>
  <2>1. PICK l \in Listeners : l = calling
    BY <1>7 DEF CallsMakeSense
  <2>2. ~LookUp /\ ~closed
    BY <1>7, OpenWasOpen DEF LookUp, CallsMakeSense
  <2>3. CASE Taken \/ Refused
    BY <1>3, <1>7, <2>1, <2>2, <2>3, MessageEnds DEF broadcasterVars
  <2>4. ASSUME NEW named \in SUBSET Keys, NEW silent \in SUBSET Keys, NEW archives,
               StoreItems(named, silent, archives)
        PROVE  ToldOfPresent'
    BY <1>3, <1>7, <2>1, <2>2, <2>4, StoredIsAwaited DEF broadcasterVars, Coming
  <2>5. CASE ~Taken /\ ~Refused /\ UNCHANGED <<current, notice, toCall, value>>
    <3>1. NoticeToCome(l) => Coming(l)'
      BY <1>7, <2>2, <2>5, NoticeStays DEF Coming
    <3> QED BY <1>3, <1>7, <2>1, <2>5, <3>1
  <2>6. \/ Taken \/ Refused
        \/ \E named, silent \in SUBSET Keys, archives \in BOOLEAN :
             StoreItems(named, silent, archives)
        \/ UNCHANGED <<current, notice, toCall, value>>
    BY <1>7 DEF Next, Thread, Plain, Announce, Broadcast, Create, Register, AddListener,
       Unregister, RemoveListener, Closed, StopCloses, StopPuts, OnFlagChange, CallListener,
       Told, FunctionRaises, NothingToTell, ListenerReturns, TakeStop, TakeNotice, LookUp,
       AllCalled, CallsMakeSense, vars, broadcasterVars
  <2> QED BY <2>3, <2>4, <2>5, <2>6
<1>8. \/ \E l \in Listeners : OnFlagChange(l)
      \/ Told \/ FunctionRaises \/ NothingToTell
      \/ Plain(TakeStop \/ TakeNotice \/ LookUp \/ AllCalled)
      \/ UNCHANGED <<telling, calling, pc>>
  BY DEF Next, Thread, Plain, StoreItems, Taken, Refused, Announce, Broadcast, Create, Register,
     AddListener, Unregister, RemoveListener, Closed, StopCloses, StopPuts, vars,
     broadcasterVars
<1> QED BY <1>1, <1>2, <1>4, <1>5, <1>6, <1>7, <1>8

(* What a listener that is behind is waiting for. *)
Awaited(l) == Coming(l) \/ (telling /\ calling = l)

LEMMA StepKnows ==
  ASSUME Lists, Idle, StopIsLast, TrackerTypes, CallsMakeSense, OneMessage,
         ToldOfPresent, Knows, [Next]_vars
  PROVE  Knows'
<1> USE DEF threadVars, storeVars, messageVars, trackerVars
<1> SUFFICES ASSUME NEW l \in Listeners, Behind(l)' PROVE Awaited(l)'
  BY DEF Knows, Awaited
<1>0. /\ ~closed' /\ ~closed
      /\ Contains(registered', l) /\ l \notin missed'
      /\ previous'[l] # value'[KeyOf[l]]
      /\ KeyOf[l] \in Keys /\ KeyOf[l] # StopNotice
  BY OpenWasOpen, KeysAreNoStop DEF Behind, Registered
<1>1. Behind(l) => Awaited(l)
  BY DEF Knows, Awaited
<1>2. NoticeToCome(l) /\ ~LookUp /\ ~Taken /\ ~Refused => NoticeToCome(l)'
  BY <1>0, NoticeStays
<1>3. l \notin missed \/ Awaited(l)'
  BY <1>0, MissedStays DEF Awaited, Coming
<1>4. ASSUME NEW named \in SUBSET Keys, NEW silent \in SUBSET Keys, NEW archives,
             StoreItems(named, silent, archives)
      PROVE  Awaited(l)'
  <2>1. /\ value'[KeyOf[l]] = value[KeyOf[l]] \/ Coming(l)'
        /\ NoticeToCome(l) => NoticeToCome(l)'
        /\ UNCHANGED <<registered, closed, previous, notice, toCall, telling, calling>>
    BY <1>0, <1>4, StoredIsAwaited DEF broadcasterVars
  <2>2. CASE Coming(l)'
    BY <2>2 DEF Awaited
  <2>3. CASE value'[KeyOf[l]] = value[KeyOf[l]] /\ l \notin missed
    <3>1. Behind(l)
      BY <1>0, <2>1, <2>3 DEF Behind, Registered
    <3> QED BY <1>1, <2>1, <3>1 DEF Awaited, Coming
  <2> QED BY <1>3, <2>1, <2>2, <2>3
<1>5. CASE Taken \/ Refused
  <2>1. /\ NoticeToCome(l) => Coming(l)'
        /\ UNCHANGED <<registered, closed, previous, value, notice, toCall, telling, calling>>
        /\ missed \subseteq missed'
    BY <1>0, <1>5, MessageEnds DEF broadcasterVars
  <2>2. Behind(l)
    BY <1>0, <2>1 DEF Behind, Registered
  <2> QED BY <1>1, <2>1, <2>2 DEF Awaited, Coming
<1>6. ASSUME NEW x \in Listeners, Create(x) PROVE Awaited(l)'
  <2>1. UNCHANGED <<registered, missed, value, notice, toCall, telling, calling, pc>>
          /\ x \notin created
    BY <1>6 DEF Create, broadcasterVars
  <2>2. l # x
    BY <1>0, <2>1 DEF CallsMakeSense, Registered
  <2>3. previous'[l] = previous[l]
    BY <1>6, <2>2 DEF Create, TrackerTypes
  <2>4. Behind(l)
    BY <1>0, <2>1, <2>3 DEF Behind, Registered
  <2>5. NoticeToCome(l) => NoticeToCome(l)'
    BY <1>6 DEF Create, broadcasterVars, NoticeToCome
  <2> QED BY <1>1, <2>1, <2>4, <2>5 DEF Awaited, Coming
<1>7. ASSUME NEW x \in Listeners, Register(x) PROVE Awaited(l)'
  <2>1. UNCHANGED <<previous, value, notice, toCall, telling, calling, pc, queue,
                    stored, toAnnounce, closed>>
          /\ registered' = Append(registered, x) /\ missed \subseteq missed'
    BY <1>7 DEF Register, AddListener, Miss
  <2>2. Coming(l) => Coming(l)'
    BY <2>1 DEF Coming, NoticeToCome
  <2>3. CASE l = x
    <3>1. Coming(l)
      BY <1>0, <1>7, <2>1, <2>3 DEF Register, Miss
    <3> QED BY <2>2, <3>1 DEF Awaited
  <2>4. CASE l # x
    <3>1. Contains(registered, l)
      BY <1>0, <2>1, <2>4, InAppended DEF Lists
    <3>2. Behind(l)
      BY <1>0, <2>1, <3>1 DEF Behind, Registered
    <3> QED BY <1>1, <2>1, <2>2, <3>2 DEF Awaited
  <2> QED BY <2>3, <2>4
<1>8. ASSUME NEW x \in Listeners, Unregister(x) PROVE Awaited(l)'
  <2>1. UNCHANGED <<missed, previous, value, notice, toCall, telling, calling, pc, queue,
                    stored, toAnnounce, closed>>
          /\ registered' = RemoveFirst(registered, x)
    BY <1>8 DEF Unregister, RemoveListener
  <2>2. Contains(registered, l)
    BY <1>0, <2>1, InRemoved DEF Lists
  <2>3. Behind(l)
    BY <1>0, <2>1, <2>2 DEF Behind, Registered
  <2> QED BY <1>1, <2>1, <2>3 DEF Awaited, Coming, NoticeToCome
<1>9. ASSUME NEW x \in Listeners, OnFlagChange(x) PROVE Awaited(l)'
  <2>1. /\ toCall # <<>> /\ x = Head(toCall) /\ toCall' = Tail(toCall)
        /\ calling' = x /\ pc = "call" /\ pc' = "inside" /\ ~telling
        /\ UNCHANGED <<registered, missed, previous, value, notice, queue, stored, toAnnounce,
                       closed>>
    BY <1>9 DEF OnFlagChange, CallListener, CallsMakeSense
  <2>2. Contains(toCall, l) <=> l = x \/ Contains(toCall', l)
    BY <2>1, InTail DEF Lists
  <2>3. NoticeToCome(l) => NoticeToCome(l)'
    BY <2>1 DEF NoticeToCome
  <2>4. CASE notice = KeyOf[l] /\ l = x
    <3>1. telling'
      BY <1>0, <1>9, <2>1, <2>4 DEF OnFlagChange
    <3> QED BY <2>1, <2>4, <3>1 DEF Awaited
  <2>5. CASE ~(notice = KeyOf[l] /\ l = x)
    <3>1. Behind(l)
      BY <1>0, <2>1 DEF Behind, Registered
    <3> QED BY <1>1, <2>1, <2>2, <2>3, <2>5, <3>1 DEF Awaited, Coming
  <2> QED BY <2>4, <2>5
<1>10. CASE Told \/ FunctionRaises
  <2>1. /\ telling /\ pc = "inside" /\ pc' = "call" /\ calling \in Listeners
        /\ missed \subseteq missed'
        /\ UNCHANGED <<registered, value, notice, toCall, queue, stored, toAnnounce, closed>>
    BY <1>10 DEF Told, FunctionRaises, ListenerReturns, CallsMakeSense, Miss
  <2>2. Coming(l) => Coming(l)'
    BY <2>1 DEF Coming, NoticeToCome
  <2>3. CASE l # calling
    <3>1. previous'[l] = previous[l]
      BY <1>10, <2>1, <2>3 DEF Told, FunctionRaises, TrackerTypes
    <3>2. Behind(l)
      BY <1>0, <2>1, <3>1 DEF Behind, Registered
    <3> QED BY <1>1, <2>1, <2>2, <2>3, <3>2 DEF Awaited
  <2>4. CASE l = calling /\ Told
    <3>1. previous'[l] = current
      BY <2>1, <2>4 DEF Told, TrackerTypes
    <3>2. Coming(l)
      BY <1>0, <2>1, <2>4, <3>1 DEF ToldOfPresent
    <3> QED BY <2>2, <3>2 DEF Awaited
  <2>5. CASE l = calling /\ FunctionRaises
    <3>1. Coming(l)
      BY <1>0, <2>5 DEF FunctionRaises, Miss
    <3> QED BY <2>2, <3>1 DEF Awaited
  <2> QED BY <1>10, <2>3, <2>4, <2>5
<1>11. CASE NothingToTell
  <2>1. /\ ~telling /\ pc = "inside"
        /\ UNCHANGED <<registered, value, missed, previous, notice, toCall, queue,
                       stored, toAnnounce, closed, telling>>
    BY <1>11 DEF NothingToTell, ListenerReturns
  <2>2. Behind(l)
    BY <1>0, <2>1 DEF Behind, Registered
  <2> QED BY <1>1, <2>1, <2>2 DEF Awaited, Coming, NoticeToCome
<1>12. CASE Plain(LookUp)
  <2>1. /\ pc = "look" /\ toCall' = registered /\ pc' = "call"
        /\ UNCHANGED <<registered, value, missed, previous, notice, queue,
                       stored, toAnnounce, closed, telling, calling>>
    BY <1>12 DEF Plain, LookUp
  <2>2. Behind(l)
    BY <1>0, <2>1 DEF Behind, Registered
  <2>3. Contains(toCall', l)
    BY <1>0, <2>1
  <2> QED BY <1>1, <2>1, <2>2, <2>3 DEF Awaited, Coming, NoticeToCome
<1>13. CASE Plain(TakeStop \/ TakeNotice \/ AllCalled)
  <2>1. /\ pc \in {"get", "call"} /\ toCall = <<>>
        /\ UNCHANGED <<registered, value, missed, previous, stored, toAnnounce, telling, calling>>
    BY <1>13 DEF Plain, TakeStop, TakeNotice, AllCalled, Idle
  <2>2. Behind(l)
    BY <1>0, <2>1 DEF Behind, Registered
  <2>3. ~Contains(toCall, l)
    BY <2>1, InNone
  <2>4. NoticeToCome(l) => NoticeToCome(l)'
    <3>1. CASE Taken \/ Refused
      <4>1. UNCHANGED pc /\ (stored # {} \/ archived) /\ stored' = {} /\ archived' = FALSE
        BY <3>1 DEF Taken, Refused, MessageStored, broadcasterVars
      <4> QED BY <1>13, <4>1 DEF Plain
    <3>2. ~LookUp
      BY <2>1 DEF LookUp
    <3> QED BY <1>2, <3>1, <3>2
  <2> QED BY <1>1, <2>1, <2>2, <2>3, <2>4 DEF Awaited, Coming
<1>14. ASSUME NEW s \in Callers, Closed(s) \/ Plain(StopPuts(s)) PROVE Awaited(l)'
  BY <1>0, <1>14 DEF Closed, Plain, StopCloses, StopPuts, StopIsLast, Closing
<1>15. ASSUME NEW k \in Keys, Announce(k) PROVE Awaited(l)'
  <2>1. /\ NoticeToCome(l) => NoticeToCome(l)'
        /\ UNCHANGED <<registered, value, previous, notice, toCall, telling, calling, closed>>
    BY <1>0, <1>15, AnnouncedIsAwaited
  <2>2. CASE l \notin missed
    <3>1. Behind(l)
      BY <1>0, <2>1, <2>2 DEF Behind, Registered
    <3> QED BY <1>1, <2>1, <3>1 DEF Awaited, Coming
  <2> QED BY <1>3, <2>2
<1>16. CASE UNCHANGED vars
  <2>1. Behind(l)
    BY <1>16 DEF Behind, Registered, vars, broadcasterVars
  <2> QED BY <1>1, <1>16, <2>1 DEF Awaited, Coming, NoticeToCome, vars, broadcasterVars
<1> QED BY <1>4, <1>5, <1>6, <1>7, <1>8, <1>9, <1>10, <1>11, <1>12, <1>13, <1>14, <1>15, <1>16
        DEF Next, Thread, Plain

LEMMA TrackerInvariance == Spec => []KInv
<1>1. ASSUME IInv, KInv, [Next]_vars PROVE KInv'
  <2>1. Lists'
    BY <1>1, StepLists, TrackerStepsAreBroadcasterSteps DEF IInv
  <2>2. TrackerTypes' /\ CallsMakeSense'
    BY <1>1, <2>1, StepTrackerTypes, StepCalls DEF IInv, KInv
  <2>3. OneMessage' /\ ToldOfPresent' /\ Knows'
    BY <1>1, StepOneMessage, StepTold, StepKnows DEF IInv, KInv
  <2> QED BY <2>2, <2>3 DEF KInv
<1> QED BY Invariance, InitKInv, <1>1, PTL DEF Spec

(* A registered listener that knows another value than its flag has is being *)
(* told, or about to be called, or a notice is on its way, unless the change *)
(* is one that is announced to nobody, or was before the listener was        *)
(* registered, or its function raised: an announced change is not lost       *)
(* between the streaming thread, the queue and the listeners.                *)
THEOREM NobodyMissesAChange == Spec => []Knows
<1>1. KInv => Knows
  BY DEF KInv
<1> QED BY <1>1, TrackerInvariance, PTL

-----------------------------------------------------------------------------
(* How often a callable is registered, and the types of the rest *)

(* A list has a callable finitely often.                                     *)
LEMMA PlacesFinite ==
  ASSUME NEW S, NEW list \in Seq(S), NEW l
  PROVE  IsFiniteSet(Places(l, list)) /\ Copies(l, list) \in Nat
<1>1. IsFiniteSet(1..Len(list))
  BY FS_Interval
<1>2. Places(l, list) \in SUBSET (1..Len(list))
  BY DEF Places
<1>3. IsFiniteSet(Places(l, list))
  BY <1>1, <1>2, FS_Subset
<1> QED BY <1>3, FS_CardinalityType DEF Copies

LEMMA CopiesInNone == ASSUME NEW l PROVE Copies(l, <<>>) = 0
<1>1. Places(l, <<>>) = {}
  BY DEF Places
<1> QED BY <1>1, FS_EmptySet DEF Copies

(* Registering a callable adds one to its copies and to no others.           *)
LEMMA CopiesAppended ==
  ASSUME NEW S, NEW list \in Seq(S), NEW x \in S, NEW l
  PROVE  Copies(l, Append(list, x)) = Copies(l, list) + (IF l = x THEN 1 ELSE 0)
<1> DEFINE n == Len(list)
           P == Places(l, list)
<1>1. /\ n \in Nat /\ Len(Append(list, x)) = n + 1
      /\ \A i \in 1..n : Append(list, x)[i] = list[i]
      /\ Append(list, x)[n + 1] = x
  BY AppendProperties
<1>2. P \subseteq 1..n
  BY DEF Places
<1>3. Places(l, Append(list, x)) = IF l = x THEN P \cup {n + 1} ELSE P
  BY <1>1 DEF Places
<1>4. n + 1 \notin P
  BY <1>1, <1>2
<1>5. IsFiniteSet(P) /\ Cardinality(P) \in Nat
  BY PlacesFinite DEF Copies
<1>6. Cardinality(P \cup {n + 1}) = Cardinality(P) + 1
  BY <1>4, <1>5, FS_AddElement
<1> HIDE DEF P
<1>7. Copies(l, list) = Cardinality(P)
  BY DEF Copies, P
<1> QED BY <1>3, <1>5, <1>6, <1>7 DEF Copies

(* Removing a callable gives none more copies.                               *)
LEMMA CopiesRemoved ==
  ASSUME NEW S, NEW list \in Seq(S), NEW x, NEW l
  PROVE  Copies(l, RemoveFirst(list, x)) <= Copies(l, list)
<1> DEFINE found == {i \in 1..Len(list) : list[i] = x}
           n == Len(list)
           left == RemoveFirst(list, x)
<1>0. n \in Nat /\ Copies(l, list) \in Nat
  BY PlacesFinite
<1>1. CASE found = {}
  BY <1>0, <1>1 DEF RemoveFirst
<1>2. CASE found # {}
  <2>1. PICK m \in 1..n : m = Min(found)
    <3>1. found \in SUBSET Nat /\ found \subseteq 1..n
      OBVIOUS
    <3> QED BY <1>2, <3>1, LeastNatural
  <2>2. PICK front \in Seq(S), back \in Seq(S) :
          /\ left = front \o back
          /\ Len(front) = m - 1 /\ Len(back) = n - m
          /\ \A i \in 1..(m - 1) : front[i] = list[i]
          /\ \A i \in 1..(n - m) : back[i] = list[m + i]
    <3> DEFINE a == SubSeq(list, 1, m - 1)
               b == SubSeq(list, m + 1, n)
    <3>1. \A i \in 1..n : list[i] \in S
      OBVIOUS
    <3>2. a \in Seq(S) /\ Len(a) = m - 1 /\ \A i \in 1..(m - 1) : a[i] = list[i]
      BY <1>0, <3>1, SubSeqProperties
    <3>3. b \in Seq(S) /\ Len(b) = n - m /\ \A i \in 1..(n - m) : b[i] = list[m + i]
      BY <1>0, <3>1, SubSeqProperties
    <3>4. left = a \o b
      BY <1>2, <2>1 DEF RemoveFirst, RemoveAt, SelectInSeq
    <3> HIDE DEF a, b, left
    <3> QED BY <3>2, <3>3, <3>4
  <2> HIDE DEF left
  <2>3. Len(left) = n - 1 /\ \A i \in 1..(n - 1) :
          left[i] = IF i <= m - 1 THEN front[i] ELSE back[i - (m - 1)]
    <3>1. /\ Len(front \o back) = Len(front) + Len(back)
          /\ \A i \in 1..Len(front) + Len(back) : (front \o back)[i] =
               IF i <= Len(front) THEN front[i] ELSE back[i - Len(front)]
      BY ConcatProperties
    <3>2. Len(front) + Len(back) = n - 1
      BY <1>0, <2>2
    <3> QED BY <2>2, <3>1, <3>2
  <2>4. /\ \A i \in 1..(m - 1) : left[i] = list[i]
        /\ \A i \in m..(n - 1) : left[i] = list[i + 1]
    <3>1. \A i \in 1..(m - 1) : left[i] = list[i]
      BY <1>0, <2>2, <2>3
    <3>2. ASSUME NEW i \in m..(n - 1) PROVE left[i] = list[i + 1]
      <4>1. i \in 1..(n - 1) /\ ~(i <= m - 1) /\ i - (m - 1) \in 1..(n - m)
              /\ m + (i - (m - 1)) = i + 1
        BY <1>0
      <4> QED BY <2>2, <2>3, <4>1
    <3> QED BY <3>1, <3>2
  <2> DEFINE old == Places(l, list)
             new == Places(l, left)
             moved == [i \in new |-> IF i < m THEN i ELSE i + 1]
  <2>5. \A i \in new : i \in 1..(n - 1) /\ left[i] = l
    BY <2>3 DEF Places
  <2>6. ASSUME NEW i \in new PROVE moved[i] \in old
    <3>1. i \in 1..(n - 1) /\ left[i] = l
      BY <2>5
    <3>2. CASE i < m
      BY <1>0, <2>4, <3>1, <3>2 DEF Places
    <3>3. CASE ~(i < m)
      BY <1>0, <2>4, <3>1, <3>3 DEF Places
    <3> QED BY <3>2, <3>3
  <2>7. \A i, j \in new : moved[i] = moved[j] => i = j
    <3>1. \A i \in new : i \in Nat
      BY <1>0, <2>5
    <3> QED BY <3>1
  <2>8. moved \in Injection(new, old)
    <3> HIDE DEF new, old
    <3>1. moved \in [new -> old]
      BY <2>6
    <3> QED BY <2>7, <3>1 DEF Injection, IsInjective
  <2>9. IsFiniteSet(old)
    BY PlacesFinite
  <2>10. Cardinality(new) <= Cardinality(old)
    <3> HIDE DEF new, old, moved
    <3> QED BY <2>8, <2>9, FS_Injection
  <2> QED BY <2>10 DEF Copies, left
<1> QED BY <1>1, <1>2

CopiesBounded == \A l \in Listeners : Copies(l, registered) <= MaxCopies

(* The types that the two invariants leave open.                             *)
Scalars ==
  /\ closed \in BOOLEAN
  /\ pc \in {"get", "look", "call", "inside", "dead"}
  /\ notice \in Keys \cup {StopNotice}
  /\ calling \in Listeners \cup {NoListener}
  /\ due \in SUBSET Listeners
  /\ created \in SUBSET Listeners
  /\ telling \in BOOLEAN
  /\ archived \in BOOLEAN
  /\ streaming \in BOOLEAN
  /\ missed \in SUBSET Listeners
  /\ items \in 0..MaxItems

LEMMA InitTypes == Init => CopiesBounded /\ Scalars
<1> SUFFICES ASSUME Init PROVE CopiesBounded /\ Scalars
  OBVIOUS
<1>1. 0 \in 0..MaxItems /\ 0 <= MaxCopies
  BY TrackerAssumption, BroadcasterAssumption
<1>2. CopiesBounded
  BY <1>1, CopiesInNone DEF Init, BroadcasterInit, CopiesBounded
<1>3. Scalars
  BY <1>1 DEF Init, BroadcasterInit, Scalars
<1> QED BY <1>2, <1>3

LEMMA StepCopies ==
  ASSUME Lists, CopiesBounded, [BroadcasterNext]_broadcasterVars
  PROVE  CopiesBounded'
<1> USE DEF threadVars, CopiesBounded
<1>1. CASE UNCHANGED registered
  BY <1>1
<1>2. ASSUME NEW x \in Listeners, AddListener(x), NEW l \in Listeners
      PROVE  Copies(l, registered') <= MaxCopies
  <2>1. registered' = Append(registered, x) /\ Copies(x, registered) < MaxCopies
    BY <1>2 DEF AddListener
  <2>2. Copies(l, registered) \in Nat /\ Copies(l, registered) <= MaxCopies
    BY PlacesFinite DEF Lists
  <2>3. Copies(l, registered') = Copies(l, registered) + (IF l = x THEN 1 ELSE 0)
    BY <2>1, CopiesAppended DEF Lists
  <2> QED BY <2>1, <2>2, <2>3, BroadcasterAssumption
<1>3. ASSUME NEW x \in Listeners, RemoveListener(x), NEW l \in Listeners
      PROVE  Copies(l, registered') <= MaxCopies
  <2>1. registered' = RemoveFirst(registered, x)
    BY <1>3 DEF RemoveListener
  <2>2. Copies(l, registered) \in Nat /\ Copies(l, registered) <= MaxCopies
    BY PlacesFinite DEF Lists
  <2>3. Copies(l, registered') \in Nat
    BY <2>1, RemoveFirstType, PlacesFinite DEF Lists
  <2>4. Copies(l, registered') <= Copies(l, registered)
    BY <2>1, CopiesRemoved DEF Lists
  <2> QED BY <2>2, <2>3, <2>4, BroadcasterAssumption
<1>4. ASSUME \E x \in Listeners : AddListener(x) \/ RemoveListener(x) PROVE CopiesBounded'
  BY <1>2, <1>3, <1>4
<1>5. UNCHANGED registered \/ \E x \in Listeners : AddListener(x) \/ RemoveListener(x)
  BY DEF BroadcasterNext, CallListener, Broadcast, TakeStop, TakeNotice, LookUp, AllCalled,
     ListenerReturns, StopCloses, StopPuts, broadcasterVars
<1> QED BY <1>1, <1>4, <1>5

LEMMA StepScalars ==
  ASSUME Lists, CallsMakeSense, Scalars, [Next]_vars
  PROVE  Scalars'
<1> USE DEF Scalars, threadVars, storeVars, messageVars, trackerVars, Miss
<1>1. ASSUME NEW named \in SUBSET Keys, NEW silent \in SUBSET Keys, NEW archives \in BOOLEAN,
             StoreItems(named, silent, archives)
      PROVE  Scalars'
  <2>1. items + 1 \in 0..MaxItems
    BY <1>1, TrackerAssumption DEF StoreItems
  <2> QED BY <1>1, <2>1 DEF StoreItems, Unannounced, broadcasterVars
<1>2. ASSUME NEW k \in Keys, Announce(k) PROVE Scalars'
  BY <1>2 DEF Announce, Announced, Broadcast
<1>3. ASSUME NEW l \in Listeners, Create(l) PROVE Scalars'
  BY <1>3 DEF Create, broadcasterVars
<1>4. ASSUME NEW l \in Listeners, Register(l) PROVE Scalars'
  BY <1>4 DEF Register, AddListener
<1>5. ASSUME NEW l \in Listeners, Unregister(l) PROVE Scalars'
  BY <1>5 DEF Unregister, RemoveListener
<1>6. ASSUME NEW l \in Listeners, OnFlagChange(l) PROVE Scalars'
  BY <1>6 DEF OnFlagChange, CallListener
<1>7. CASE Told \/ FunctionRaises \/ NothingToTell
  <2>1. calling \in Listeners
    BY <1>7 DEF Told, FunctionRaises, NothingToTell, ListenerReturns, CallsMakeSense
  <2> QED BY <1>7, <2>1 DEF Told, FunctionRaises, NothingToTell, ListenerReturns
<1>8. CASE Plain(TakeStop \/ AllCalled)
  BY <1>8 DEF Plain, TakeStop, AllCalled
<1>9. CASE Plain(TakeNotice)
  <2>1. Head(queue) \in Keys \cup {StopNotice}
    BY <1>9, HeadTailProperties DEF Plain, TakeNotice, Lists
  <2> QED BY <1>9, <2>1 DEF Plain, TakeNotice
<1>10. CASE Plain(LookUp)
  <2>1. ToSet(registered) \in SUBSET Listeners
    BY DEF ToSet, Lists
  <2> QED BY <1>10, <2>1 DEF Plain, LookUp
<1>11. ASSUME NEW s \in Callers, Closed(s) \/ Plain(StopPuts(s)) PROVE Scalars'
  BY <1>11 DEF Closed, Plain, StopCloses, StopPuts
<1>12. CASE UNCHANGED vars
  BY <1>12 DEF vars, broadcasterVars
<1>13. Plain(TakeStop \/ TakeNotice \/ LookUp \/ AllCalled) <=>
         Plain(TakeStop \/ AllCalled) \/ Plain(TakeNotice) \/ Plain(LookUp)
  BY DEF Plain
<1>14. CASE Taken \/ Refused
  BY <1>14 DEF Taken, Refused, Unannounced, broadcasterVars
<1> QED BY <1>1, <1>2, <1>3, <1>4, <1>5, <1>6, <1>7, <1>8, <1>9, <1>10, <1>11, <1>12, <1>13,
           <1>14
        DEF Next, Thread

(* The broadcaster's and the tracker's state keeps its types, and no         *)
(* callable is registered more often than the model's bound.                 *)
THEOREM TrackerTyping == Spec => []TypeOK
<1>1. Init => CopiesBounded /\ Scalars
  BY InitTypes
<1>2. ASSUME IInv, KInv, CopiesBounded, Scalars, [Next]_vars
      PROVE  CopiesBounded' /\ Scalars'
  BY <1>2, StepCopies, StepScalars, TrackerStepsAreBroadcasterSteps DEF IInv, KInv
<1>3. Spec => [](CopiesBounded /\ Scalars)
  BY <1>1, <1>2, Invariance, TrackerInvariance, PTL DEF Spec
<1>4. IInv /\ KInv /\ CopiesBounded /\ Scalars => TypeOK
  BY DEF IInv, KInv, Lists, StopIsLast, TrackerTypes, CopiesBounded, Scalars, TypeOK,
         BroadcasterTypeOK
<1> QED BY <1>3, <1>4, Invariance, TrackerInvariance, PTL
=============================================================================

--------------------------- MODULE DataSyncProofs ---------------------------
(***************************************************************************)
(* Proofs about DataSync, for any flags and segments and any number of     *)
(* changes and losses.  The first part allows for storage failures,        *)
(* archiving and early pushes: types, HighWater, NeverOlder and            *)
(* ReportedTruly, which share the inductive invariant IInv.  The second    *)
(* part shows that DataSync, undisturbed, implements Replica.              *)
(*                                                                         *)
(* The heart of IInv is Sound and SoundMessage: every item in the store or *)
(* on its way is a change the server made, and a snapshot misses no change *)
(* that is older than its newest.  So a snapshot with a higher version     *)
(* than the store's holds nothing older than what the store holds.         *)
(***************************************************************************)
EXTENDS DataSync, StatusTypesProofs, WellFoundedInduction, SequenceTheorems

(* What the server has done. *)
Log == Seq([item : Items, archived : BOOLEAN])

(* An item that is there is the change of it with its time stamp.            *)
Genuine(changes, i, item) ==
  item.time # 0 => item.time \in 1..Len(changes) /\ changes[item.time].item = i

(* What a store holds is genuine, and its version is its newest time stamp.  *)
Sound(changes, s) ==
  /\ s \in Store
  /\ \A i \in Items : Genuine(changes, i, s.items[i]) /\ s.items[i].time <= s.version
  /\ s.version # 0 => /\ s.initialized
                      /\ \E i \in Items : s.items[i].time = s.version

(* A snapshot misses no change older than the newest change it has.          *)
Complete(changes, data) ==
  \A i, j \in Items : \A k \in 1..Len(changes) :
    changes[k].item = i /\ k <= data[j].time => k <= data[i].time

(* A message carries genuine items; a full one all there were at its moment. *)
(* A patch without items is only sent to a client that has data.             *)
SoundMessage(changes, initialized, m) ==
  /\ \A i \in Items : Genuine(changes, i, m.data[i])
  /\ m.type = "full" => m.keys = Holds(m.data) /\ Complete(changes, m.data)
  /\ m.type = "patch" /\ m.keys = {} => initialized

(* Everything on its way is sound. *)
SoundChannel ==
  \A n \in 1..Len(channel) : SoundMessage(log, store.initialized, channel[n])

(* Only a client with data asks from a later moment than 0. *)
AskedWithData == link = "asking" /\ asked # 0 => store.initialized

(* OFF is reported by the step that ends the connection. *)
ConnectedWhileStreaming == link # "down" => streaming

(* The inductive invariant. *)
IInv ==
  /\ TypeOK
  /\ Sound(log, store)
  /\ SoundChannel
  /\ AskedWithData
  /\ ReportedTruly
  /\ ConnectedWhileStreaming

-----------------------------------------------------------------------------
(* A bounded set of numbers has a maximum: < is well-founded, so that the    *)
(* distances to the bound have a smallest one.                               *)
LEMMA MaxOfBounded ==
  ASSUME NEW S \in SUBSET Nat, NEW bound \in Nat, \A x \in S : x <= bound, S # {}
  PROVE  Max(S) \in S /\ \A x \in S : x <= Max(S)
<1> DEFINE Gaps == {bound - x : x \in S}
           Less == OpToRel(<, Nat)
<1>1. Gaps \subseteq Nat /\ Gaps # {}
  <2>1. \A x \in S : bound - x \in Nat
    OBVIOUS
  <2> QED BY <2>1
<1>2. PICK gap \in Gaps : \A other \in Gaps : ~(<<other, gap>> \in Less)
  <2>1. IsWellFoundedOn(Less, Nat)
    BY NatLessThanWellFounded
  <2> HIDE DEF Gaps, Less
  <2> QED BY <2>1, <1>1, WFMin
<1>3. PICK top \in S : gap = bound - top
  OBVIOUS
<1>4. ASSUME NEW x \in S PROVE top >= x
  <2>1. bound - x \in Gaps /\ bound - x \in Nat /\ gap \in Nat
    BY <1>1
  <2>2. ~(bound - x < gap)
    BY <1>2, <2>1 DEF OpToRel
  <2> QED BY <2>2, <1>3
<1> QED BY <1>4 DEF Max

(* What the server has after n changes.                                      *)
LEMMA AsOfMeans ==
  ASSUME NEW changes \in Log, NEW n \in 0..Len(changes), NEW i \in Items,
         NEW item, item = Master!AsOf(changes, n)[i]
  PROVE  /\ item \in Item
         /\ Genuine(changes, i, item)
         /\ item.time <= n
         /\ \A k \in 1..n : changes[k].item = i => k <= item.time
<1> DEFINE mine == Master!ChangesOf(changes, i, n)
<1>1. item = IF mine = {} THEN Absent
             ELSE [time |-> Max(mine), archived |-> changes[Max(mine)].archived]
  <2>1. \A S : Master!Max(S) = Max(S)
    BY DEF Master!Max, Max
  <2> QED BY <2>1, Zenon DEF Master!AsOf
<1>2. mine \in SUBSET Nat /\ n \in Nat /\ \A k \in mine : k <= n
  BY DEF Master!ChangesOf
<1>3. CASE mine = {}
  <2>1. item = Absent
    BY <1>1, <1>3
  <2>2. \A k \in 1..n : changes[k].item # i
    BY <1>3 DEF Master!ChangesOf
  <2> QED BY <2>1, <2>2 DEF Absent, Item, Genuine
<1>4. CASE mine # {}
  <2>1. Max(mine) \in mine /\ \A k \in mine : k <= Max(mine)
    <3> HIDE DEF mine
    <3> QED BY <1>2, <1>4, MaxOfBounded
  <2>2. Max(mine) \in 1..n /\ changes[Max(mine)].item = i
    BY <2>1 DEF Master!ChangesOf
  <2>3. \A k \in 1..n : changes[k].item = i => k <= Max(mine)
    BY <2>1 DEF Master!ChangesOf
  <2>4. item = [time |-> Max(mine), archived |-> changes[Max(mine)].archived]
    BY <1>1, <1>4
  <2> DEFINE top == Max(mine)
  <2> HIDE DEF mine, top
  <2>5. top \in 1..Len(changes) /\ top \in Nat
    BY <2>2 DEF top
  <2>6. changes[top] \in [item : Items, archived : BOOLEAN]
    BY <2>5, ElementOfSeq DEF Log
  <2>7. item.time = top /\ item.archived = changes[top].archived
    BY <2>4 DEF top
  <2>8. item \in Item
    BY <2>4, <2>5, <2>6 DEF Item, top
  <2> QED BY <2>2, <2>3, <2>5, <2>7, <2>8 DEF Genuine, top
<1> QED BY <1>3, <1>4

(* Two stores of which the second is a step further.                         *)
Grows(s, t) ==
  /\ Sound(log, t)
  /\ s.initialized => t.initialized
  /\ \A i \in Items : t.items[i].time >= s.items[i].time

-----------------------------------------------------------------------------
(* The store *)

(* DataStorage.init with a snapshot it accepts: nothing gets older.          *)
LEMMA InitGrows ==
  ASSUME log \in Log, Sound(log, store), NEW m \in Message, SoundMessage(log, store.initialized, m), m.type = "full",
         NEW version, version = Max({0} \cup {m.data[i].time : i \in m.keys}),
         InitAccepts(store, m.data, version)
  PROVE  Grows(store, AfterInit(m.data, version)) /\ AfterInit(m.data, version).initialized
<1> DEFINE times == {0} \cup {m.data[i].time : i \in m.keys}
           new == AfterInit(m.data, version)
<1>1. m.data \in [Items -> Item] /\ m.keys \subseteq Items /\ m.keys = Holds(m.data)
  BY DEF Message, SoundMessage
<1>2. \A i \in Items : m.data[i].time \in Nat
  BY <1>1 DEF Item
<1>3. \A i \in Items : m.data[i].time <= Len(log)
  <2>1. \A i \in Items : Genuine(log, i, m.data[i])
    BY DEF SoundMessage
  <2>2. Len(log) \in Nat
    BY DEF Log
  <2> QED BY <1>2, <2>1, <2>2 DEF Genuine
<1>4. version \in times /\ \A t \in times : t <= version
  <2>1. times \in SUBSET Nat /\ times # {}
    BY <1>1, <1>2
  <2>2. Len(log) \in Nat /\ \A t \in times : t <= Len(log)
    BY <1>1, <1>3 DEF Log
  <2> HIDE DEF times
  <2>3. Max(times) \in times /\ \A t \in times : t <= Max(times)
    BY <2>1, <2>2, MaxOfBounded
  <2> QED BY <2>3 DEF times
<1>5. version \in Nat /\ \A i \in Items : m.data[i].time <= version
  <2>1. version \in Nat
    BY <1>1, <1>2, <1>4
  <2>2. ASSUME NEW i \in Items PROVE m.data[i].time <= version
    <3>1. CASE i \in m.keys
      BY <3>1, <1>4
    <3>2. CASE i \notin m.keys
      BY <3>2, <1>1, <1>2, <2>1 DEF Holds
    <3> QED BY <3>1, <3>2
  <2> QED BY <2>1, <2>2
<1>6. version # 0 => \E i \in Items : m.data[i].time = version
  BY <1>1, <1>4
<1>7. new.items = m.data /\ new.version = version /\ new.initialized
  BY DEF AfterInit
<1>8. Sound(log, new)
  <2>1. new \in Store
    BY <1>1, <1>5 DEF AfterInit, Store
  <2>2. \A i \in Items : Genuine(log, i, new.items[i])
    BY <1>7 DEF SoundMessage
  <2> HIDE DEF new
  <2> QED BY <1>5, <1>6, <1>7, <2>1, <2>2 DEF Sound
<1>9. ASSUME NEW i \in Items PROVE new.items[i].time >= store.items[i].time
  <2>1. /\ store.items[i].time \in Nat /\ store.version \in Nat
        /\ store.items[i].time <= store.version
        /\ store.version # 0 => store.initialized
    BY DEF Sound, Store, Item
  <2>2. m.data[i].time \in Nat
    BY <1>2
  <2>3. CASE store.items[i].time = 0
    BY <2>2, <2>3, <1>7
  <2>4. CASE store.items[i].time # 0
    <3>1. store.version < version
      BY <2>1, <2>4, <1>5 DEF InitAccepts
    <3>2. PICK j \in Items : m.data[j].time = version
      BY <3>1, <1>5, <1>6, <2>1
    <3>3. store.items[i].time \in 1..Len(log) /\ log[store.items[i].time].item = i
      BY <2>4 DEF Sound, Genuine
    <3>4. store.items[i].time <= m.data[j].time
      BY <2>1, <3>1, <3>2, <1>5
    <3>5. Complete(log, m.data)
      BY DEF SoundMessage
    <3>6. store.items[i].time <= m.data[i].time
      BY <3>3, <3>4, <3>5 DEF Complete
    <3> QED BY <3>6, <2>1, <2>2, <1>7
  <2> QED BY <2>3, <2>4
<1> QED BY <1>7, <1>8, <1>9 DEF Grows

(* DataStorage.upsert of items it accepts, one after the other.              *)
LEMMA UpsertsGrow ==
  ASSUME log \in Log, Sound(log, store), NEW m \in Message, SoundMessage(log, store.initialized, m),
         NEW taken \in SUBSET Items, \A i \in taken : UpsertAccepts(store, i, m.data[i])
  PROVE  /\ Grows(store, AfterUpserts(store, m.data, taken))
         /\ taken # {} => AfterUpserts(store, m.data, taken).initialized
<1> DEFINE times == {store.version} \cup {m.data[i].time : i \in taken}
           new == AfterUpserts(store, m.data, taken)
<1>1. m.data \in [Items -> Item] /\ store.items \in [Items -> Item]
      /\ store.version \in Nat /\ store.initialized \in BOOLEAN
  BY DEF Message, Sound, Store
<1>2. \A i \in Items : m.data[i].time \in Nat /\ store.items[i].time \in Nat
  BY <1>1 DEF Item
<1>3. Len(log) \in Nat /\ \A i \in Items : m.data[i].time <= Len(log)
  <2>1. \A i \in Items : Genuine(log, i, m.data[i])
    BY DEF SoundMessage
  <2>2. Len(log) \in Nat
    BY DEF Log
  <2> QED BY <1>2, <2>1, <2>2 DEF Genuine
<1>4. new.version \in times /\ \A t \in times : t <= new.version
  <2>1. times \in SUBSET Nat /\ times # {}
    BY <1>1, <1>2
  <2>2. Len(log) + store.version \in Nat /\ \A t \in times : t <= Len(log) + store.version
    BY <1>1, <1>2, <1>3
  <2> HIDE DEF times
  <2>3. Max(times) \in times /\ \A t \in times : t <= Max(times)
    BY <2>1, <2>2, MaxOfBounded
  <2>4. new.version = Max(times)
    BY DEF AfterUpserts, VersionAfter, times
  <2> QED BY <2>3, <2>4
<1>5. \A i \in Items : new.items[i] = IF i \in taken THEN m.data[i] ELSE store.items[i]
  BY DEF AfterUpserts
<1>6. \A i \in taken : m.data[i].time > 0 /\ m.data[i].time > store.items[i].time
  BY DEF UpsertAccepts
<1>7. new.initialized = (store.initialized \/ taken # {})
  BY DEF AfterUpserts
<1>8. new.version \in Nat
  BY <1>1, <1>2, <1>4
<1>9. new \in Store
  <2>1. [i \in Items |-> IF i \in taken THEN m.data[i] ELSE store.items[i]] \in [Items -> Item]
    BY <1>1
  <2>2. VersionAfter(store, m.data, taken) \in Nat
    BY <1>8 DEF AfterUpserts
  <2>3. (store.initialized \/ taken # {}) \in BOOLEAN
    OBVIOUS
  <2> QED BY <2>1, <2>2, <2>3 DEF AfterUpserts, Store
<1> HIDE DEF new
<1>10. ASSUME NEW i \in Items
       PROVE  Genuine(log, i, new.items[i]) /\ new.items[i].time <= new.version
  <2>1. CASE i \in taken
    BY <2>1, <1>4, <1>5 DEF SoundMessage
  <2>2. CASE i \notin taken
    <3>1. Genuine(log, i, store.items[i]) /\ store.items[i].time <= store.version
      BY DEF Sound
    <3>2. store.version <= new.version
      BY <1>4
    <3> QED BY <3>1, <3>2, <2>2, <1>1, <1>2, <1>5, <1>8
  <2> QED BY <2>1, <2>2
<1>11. ASSUME new.version # 0
       PROVE  new.initialized /\ \E i \in Items : new.items[i].time = new.version
  <2>1. CASE \E i \in taken : m.data[i].time = new.version
    BY <2>1, <1>5, <1>7
  <2>2. CASE new.version = store.version
    <3>1. store.initialized
      BY <1>11, <2>2 DEF Sound
    <3>2. PICK i \in Items : store.items[i].time = store.version
      BY <1>11, <2>2 DEF Sound
    <3>3. i \notin taken
      <4>1. SUFFICES ASSUME i \in taken PROVE FALSE
        OBVIOUS
      <4>2. m.data[i].time <= new.version
        BY <4>1, <1>4
      <4>3. m.data[i].time > store.items[i].time
        BY <4>1, <1>6
      <4> QED BY <4>2, <4>3, <3>2, <2>2, <1>1, <1>2
    <3> QED BY <3>1, <3>2, <3>3, <2>2, <1>5, <1>7
  <2> QED BY <1>4, <2>1, <2>2
<1>12. Sound(log, new)
  BY <1>9, <1>10, <1>11 DEF Sound
<1>13. \A i \in Items : new.items[i].time >= store.items[i].time
  BY <1>2, <1>5, <1>6
<1> QED BY <1>7, <1>12, <1>13 DEF Grows, new

-----------------------------------------------------------------------------
(* Growing logs *)

(* A change at the server leaves what was genuine and complete so.           *)
LEMMA GenuineStays ==
  ASSUME NEW old \in Log, NEW change \in [item : Items, archived : BOOLEAN],
         NEW new, new = Append(old, change)
  PROVE  /\ new \in Log /\ Len(new) = Len(old) + 1
         /\ \A i \in Items, item \in Item : Genuine(old, i, item) => Genuine(new, i, item)
         /\ \A s : Sound(old, s) => Sound(new, s)
         /\ \A m \in Message :
              SoundMessage(old, store.initialized, m) => SoundMessage(new, store.initialized, m)
<1>1. new \in Log /\ Len(new) = Len(old) + 1 /\ Len(old) \in Nat
  BY AppendProperties, LenProperties DEF Log
<1>2. \A k \in 1..Len(old) : new[k] = old[k]
  BY AppendProperties DEF Log
<1>3. \A i \in Items, item \in Item : Genuine(old, i, item) => Genuine(new, i, item)
  BY <1>1, <1>2 DEF Genuine
<1>4. ASSUME NEW s, Sound(old, s) PROVE Sound(new, s)
  <2>1. \A i \in Items : s.items[i] \in Item
    BY <1>4 DEF Sound, Store
  <2> QED BY <1>3, <1>4, <2>1 DEF Sound
<1>5. ASSUME NEW m \in Message, SoundMessage(old, store.initialized, m)
      PROVE  SoundMessage(new, store.initialized, m)
  <2>1. \A i \in Items : m.data[i] \in Item /\ m.data[i].time \in Nat
    BY DEF Message, Item
  <2>2. \A i \in Items : Genuine(old, i, m.data[i]) /\ Genuine(new, i, m.data[i])
    BY <1>3, <1>5, <2>1 DEF SoundMessage
  <2>3. \A i \in Items : m.data[i].time <= Len(old)
    BY <2>1, <2>2, <1>1 DEF Genuine
  <2>4. ASSUME Complete(old, m.data) PROVE Complete(new, m.data)
    <3>1. SUFFICES ASSUME NEW i \in Items, NEW j \in Items, NEW k \in 1..Len(new),
                          new[k].item = i, k <= m.data[j].time
                   PROVE  k <= m.data[i].time
      BY DEF Complete
    <3>2. k \in 1..Len(old)
      BY <3>1, <2>1, <2>3, <1>1
    <3> QED BY <3>1, <3>2, <2>4, <1>2 DEF Complete
  <2> QED BY <1>5, <2>2, <2>4 DEF SoundMessage
<1> QED BY <1>1, <1>3, <1>4, <1>5

-----------------------------------------------------------------------------
(* Messages *)

(* The server's data after n changes are genuine and complete.               *)
LEMMA DataType ==
  ASSUME NEW changes \in Log, NEW n \in 0..Len(changes),
         NEW data, data = Master!AsOf(changes, n)
  PROVE  /\ data \in [Items -> Item]
         /\ \A i \in Items : Genuine(changes, i, data[i])
         /\ Complete(changes, data)
<1>1. \A i \in Items : /\ data[i] \in Item /\ Genuine(changes, i, data[i])
                       /\ data[i].time <= n
                       /\ \A k \in 1..n : changes[k].item = i => k <= data[i].time
  BY AsOfMeans, Zenon
<1>2. data \in [Items -> Item]
  <2>1. data = [i \in Items |-> data[i]]
    BY DEF Master!AsOf
  <2> QED BY <1>1, <2>1
<1>3. Complete(changes, data)
  <2>1. SUFFICES ASSUME NEW i \in Items, NEW j \in Items, NEW k \in 1..Len(changes),
                        changes[k].item = i, k <= data[j].time
                 PROVE  k <= data[i].time
    BY DEF Complete
  <2>2. data[j].time <= n /\ data[j].time \in Nat
    BY <1>1 DEF Item
  <2>3. k \in 1..n
    BY <2>1, <2>2
  <2> QED BY <1>1, <2>1, <2>3
<1> QED BY <1>1, <1>2, <1>3

(* What the server puts into a patch or a push ...                           *)
LEMMA PatchIsSound ==
  ASSUME NEW changes \in Log, NEW data \in [Items -> Item], NEW keys \in SUBSET Items,
         \A i \in Items : Genuine(changes, i, data[i]),
         NEW b \in BOOLEAN, keys = {} => b
  PROVE  PatchMessage(keys, data) \in Message
         /\ SoundMessage(changes, b, PatchMessage(keys, data))
<1> DEFINE m == PatchMessage(keys, data)
<1>1. m.type = "patch" /\ m.keys = keys /\ m.data = Only(keys, data)
  BY DEF PatchMessage
<1>2. Only(keys, data) \in [Items -> Item]
  BY DEF Only, Absent, Item
<1>3. \A i \in Items : Genuine(changes, i, Only(keys, data)[i])
  BY DEF Only, Absent, Genuine
<1>4. m \in Message
  BY <1>2 DEF PatchMessage, Message
<1> HIDE DEF m
<1>5. SoundMessage(changes, b, m)
  BY <1>1, <1>3 DEF SoundMessage
<1> QED BY <1>4, <1>5 DEF m

(* ... and into a full answer.                                               *)
LEMMA FullIsSound ==
  ASSUME NEW changes \in Log, NEW data \in [Items -> Item],
         \A i \in Items : Genuine(changes, i, data[i]), Complete(changes, data),
         NEW b \in BOOLEAN
  PROVE  FullMessage(data) \in Message /\ SoundMessage(changes, b, FullMessage(data))
<1> DEFINE m == FullMessage(data)
<1>1. m.type = "full" /\ m.keys = Holds(data) /\ m.data = data
  BY DEF FullMessage
<1>2. m \in Message
  BY DEF FullMessage, Message, Holds
<1> HIDE DEF m
<1>3. SoundMessage(changes, b, m)
  BY <1>1 DEF SoundMessage
<1> QED BY <1>2, <1>3 DEF m

-----------------------------------------------------------------------------
(* Status *)

(* A request for INTERRUPTED does not end OFF, nor claim data.               *)
LEMMA Interrupts ==
  ASSUME NEW c \in State, c.type # "OFF"
  PROVE  LET new == AfterUpdate(c, InterruptedState)
         IN  /\ new \in State
             /\ new.type # "OFF"
             /\ new.type \in {"OK", "INTERRUPTED"} => c.type \in {"OK", "INTERRUPTED"}
<1>1. AfterUpdate(c, InterruptedState) \in State
  BY RequestsAreStates, AfterUpdateType DEF Requests
<1>2. c.type \in StateType
  BY DEF State
<1> QED BY <1>1, <1>2 DEF AfterUpdate, Counts, EffectiveType, InterruptedState, StateType

(* A request for OK is granted.                                              *)
LEMMA Recovers ==
  ASSUME NEW c \in State
  PROVE  AfterUpdate(c, OkState) \in State /\ AfterUpdate(c, OkState).type = "OK"
<1>1. AfterUpdate(c, OkState) \in State
  BY RequestsAreStates, AfterUpdateType DEF Requests
<1> QED BY <1>1 DEF AfterUpdate, Counts, EffectiveType, OkState

(* Time stamps are bounded by the number of changes.                         *)
LEMMA TimesBounded ==
  ASSUME log \in Log, Len(log) <= MaxChanges, NEW s, Sound(log, s)
  PROVE  s.version \in 0..MaxChanges /\ \A i \in Items : s.items[i].time \in 0..MaxChanges
<1>1. MaxChanges \in Nat /\ Len(log) \in Nat
  BY DataAssumption DEF Log
<1>2. s.version \in Nat /\ \A i \in Items : s.items[i].time \in Nat
  BY DEF Sound, Store, Item
<1>3. \A i \in Items : s.items[i].time <= Len(log)
  BY <1>1, <1>2 DEF Sound, Genuine
<1>4. s.version <= Len(log)
  BY <1>1, <1>2, <1>3 DEF Sound
<1> QED BY <1>1, <1>2, <1>3, <1>4

(* The flag depends on each segment its rules name.                          *)
LEMMA NamedIsReached ==
  ASSUME NEW f \in Flags
  PROVE  Named(f) \subseteq Reached(f)
BY DEF Named, Reached

(* Recency is the latest of the times it looks at.                           *)
LEMMA RecencyIsLatest ==
  ASSUME NEW items, NEW bound \in Nat, NEW f \in Flags,
         \A i \in Items : items[i].time \in Nat /\ items[i].time <= bound
  PROVE  /\ Recency(items, f) \in 0..bound
         /\ \A i \in {f} \cup Named(f) : items[i].time <= Recency(items, f)
<1> DEFINE times == {items[f].time} \cup {items[g].time : g \in Reached(f)}
<1>1. times \in SUBSET Nat /\ times # {} /\ \A t \in times : t <= bound
  BY DEF Items, Reached
<1>2. Recency(items, f) = Max(times)
  BY DEF Recency
<1>3. \A i \in {f} \cup Named(f) : items[i].time \in times
  BY NamedIsReached
<1> HIDE DEF times
<1>4. times \in SUBSET Nat /\ times # {} /\ bound \in Nat /\ \A t \in times : t <= bound
  BY <1>1
<1>5. Max(times) \in times /\ \A t \in times : t <= Max(times)
  BY ONLY <1>4, MaxOfBounded
<1>6. Max(times) \in Nat /\ Max(times) <= bound
  BY <1>4, <1>5
<1> QED BY <1>2, <1>3, <1>5, <1>6

(* So is what a notice tells.                                                *)
LEMMA RecencyType ==
  ASSUME log \in Log, Len(log) <= MaxChanges, NEW s, Sound(log, s), NEW f \in Flags
  PROVE  Recency(s.items, f) \in 0..MaxChanges
<1>1. \A i \in Items : s.items[i].time \in 0..MaxChanges
  BY TimesBounded
<1>2. /\ MaxChanges \in Nat
      /\ \A i \in Items : s.items[i].time \in Nat /\ s.items[i].time <= MaxChanges
  BY <1>1, DataAssumption
<1> QED BY <1>2, RecencyIsLatest

-----------------------------------------------------------------------------
(* The steps *)

(* The action of NeverOlder. *)
NotOlder == \A i \in Items : store'.items[i].time >= store.items[i].time

(* A step that leaves the store alone.                                       *)
LEMMA NothingOlder ==
  ASSUME IInv, store' = store
  PROVE  NotOlder
<1>1. \A i \in Items : store.items[i].time \in Nat
  BY DEF IInv, TypeOK, Store, Item
<1> QED BY <1>1 DEF NotOlder

(* A change at the server, with or without a push.                           *)
LEMMA ServerChangesKeeps ==
  ASSUME IInv, NEW i \in Items, NEW archived \in BOOLEAN, ServerChanges(i, archived)
  PROVE  IInv' /\ NotOlder
<1> DEFINE change == [item |-> i, archived |-> archived]
<1>1. log \in Log /\ change \in [item : Items, archived : BOOLEAN]
      /\ log' = Append(log, change) /\ Len(log) < MaxChanges
  BY DEF IInv, TypeOK, Log, ServerChanges
<1>2. UNCHANGED <<link, asked, askedAt, store, status, ready, streaming, told, losses, failures>>
  BY DEF ServerChanges, clientVars
<1> HIDE DEF change
<1>3. log' \in Log /\ Len(log') = Len(log) + 1 /\ Len(log) \in Nat
  BY <1>1, GenuineStays DEF Log
<1>4. Sound(log, store) /\ Sound(log', store)
  BY <1>1, GenuineStays DEF IInv
<1>5. store.initialized \in BOOLEAN /\ channel \in Seq(Message)
  BY DEF IInv, TypeOK, Store
<1>6. \A n \in 1..Len(channel) :
        channel[n] \in Message /\ SoundMessage(log, store.initialized, channel[n])
  BY <1>5, ElementOfSeq DEF IInv, SoundChannel
<1>7. \A n \in 1..Len(channel) : SoundMessage(log', store.initialized, channel[n])
  <2>1. \A m \in Message : SoundMessage(log, store.initialized, m)
                           => SoundMessage(log', store.initialized, m)
    BY <1>1, GenuineStays
  <2> QED BY <1>5, <1>6, <2>1
<1>8. PICK m : m = PatchMessage({i}, Data')
  OBVIOUS
<1>9. m \in Message /\ SoundMessage(log', store.initialized, m)
  <2>1. Data' = Master!AsOf(log', Len(log'))
    BY DEF Data
  <2>2. PICK data : data = Data'
    OBVIOUS
  <2>3. Len(log') \in 0..Len(log')
    BY <1>3
  <2>4. data \in [Items -> Item] /\ \A j \in Items : Genuine(log', j, data[j])
    BY <1>3, <2>1, <2>2, <2>3, DataType
  <2> QED BY <1>3, <1>5, <1>8, <2>2, <2>4, PatchIsSound
<1>10. channel' \in Seq(Message) /\ SoundChannel'
  <2>1. CASE channel' = channel
    BY <2>1, <1>2, <1>5, <1>7 DEF SoundChannel
  <2>2. CASE channel' = Append(channel, m)
    <3>1. /\ channel' \in Seq(Message) /\ Len(channel') = Len(channel) + 1
          /\ \A n \in 1..Len(channel) : channel'[n] = channel[n]
          /\ channel'[Len(channel) + 1] = m
      BY <2>2, <1>5, <1>9, AppendProperties
    <3>2. Len(channel) \in Nat
      BY <1>5, LenProperties
    <3>3. ASSUME NEW n \in 1..Len(channel')
          PROVE  SoundMessage(log', store'.initialized, channel'[n])
      <4>1. CASE n \in 1..Len(channel)
        BY <4>1, <3>1, <1>2, <1>7
      <4>2. CASE n = Len(channel) + 1
        BY <4>2, <3>1, <1>2, <1>9
      <4> QED BY <4>1, <4>2, <3>1, <3>2
    <3> QED BY <3>1, <3>3 DEF SoundChannel
  <2> QED BY <2>1, <2>2, <1>8 DEF ServerChanges
<1>11. TypeOK'
  <2>1. log' \in Seq([item : Items, archived : BOOLEAN]) /\ Len(log') <= MaxChanges
    BY <1>1, <1>3, DataAssumption DEF Log
  <2> QED BY <2>1, <1>2, <1>10 DEF IInv, TypeOK
<1> QED BY <1>2, <1>4, <1>10, <1>11, NothingOlder
        DEF IInv, AskedWithData, ReportedTruly, ConnectedWhileStreaming

(* The answer to a data-sync request.                                        *)
LEMMA ServerAnswersKeeps ==
  ASSUME IInv, ServerAnswers
  PROVE  IInv' /\ NotOlder
<1>1. UNCHANGED <<log, asked, askedAt, store, status, ready, streaming, told, losses, failures>>
      /\ link = "asking" /\ link' = "up"
  BY DEF ServerAnswers, clientVars
<1>2. PICK n \in askedAt..Len(log) : channel' = Append(channel, Reply(asked, n))
  BY DEF ServerAnswers
<1>3. log \in Log /\ Len(log) \in Nat /\ askedAt \in Nat /\ asked \in Nat
  BY DataAssumption DEF IInv, TypeOK, Log
<1>4. n \in 0..Len(log)
  BY <1>2, <1>3
<1>5. store.initialized \in BOOLEAN /\ channel \in Seq(Message)
  BY DEF IInv, TypeOK, Store
<1>6. PICK m : m = Reply(asked, n)
  OBVIOUS
<1>7. m \in Message /\ SoundMessage(log, store.initialized, m)
  <2>1. PICK data : data = Master!AsOf(log, n)
    OBVIOUS
  <2>2. data \in [Items -> Item] /\ (\A i \in Items : Genuine(log, i, data[i]))
        /\ Complete(log, data)
    BY <1>3, <1>4, <2>1, DataType
  <2>3. CASE asked = 0
    <3>1. m = FullMessage(data)
      BY <2>1, <2>3, <1>6 DEF Reply
    <3> QED BY <3>1, <2>2, <1>3, <1>5, FullIsSound
  <2>4. CASE asked # 0
    <3>1. m = PatchMessage({i \in Items : data[i].time > asked}, data)
      BY <2>1, <2>4, <1>6 DEF Reply
    <3>2. store.initialized
      BY <2>4, <1>1 DEF IInv, AskedWithData
    <3> QED BY <3>1, <3>2, <2>2, <1>3, <1>5, PatchIsSound
  <2> QED BY <2>3, <2>4
<1>8. channel' \in Seq(Message) /\ SoundChannel'
  <2>1. /\ channel' \in Seq(Message) /\ Len(channel') = Len(channel) + 1
        /\ \A k \in 1..Len(channel) : channel'[k] = channel[k]
        /\ channel'[Len(channel) + 1] = m
    BY <1>2, <1>5, <1>6, <1>7, AppendProperties
  <2>2. Len(channel) \in Nat
    BY <1>5, LenProperties
  <2>3. ASSUME NEW k \in 1..Len(channel')
        PROVE  SoundMessage(log', store'.initialized, channel'[k])
    <3>1. CASE k \in 1..Len(channel)
      BY <3>1, <2>1, <1>1 DEF IInv, SoundChannel
    <3>2. CASE k = Len(channel) + 1
      BY <3>2, <2>1, <1>1, <1>7
    <3> QED BY <3>1, <3>2, <2>1, <2>2
  <2> QED BY <2>1, <2>3 DEF SoundChannel
<1>9. TypeOK'
  BY <1>1, <1>8 DEF IInv, TypeOK
<1>10. Sound(log, store)' /\ ReportedTruly'
  BY <1>1 DEF IInv, ReportedTruly
<1> QED BY <1>1, <1>8, <1>9, <1>10, NothingOlder
        DEF IInv, AskedWithData, ConnectedWhileStreaming

(* A connection that ends or begins carries nothing.                         *)
LEMMA EmptyChannel ==
  ASSUME channel' = <<>>
  PROVE  channel' \in Seq(Message) /\ SoundChannel'
<1>1. channel' \in Seq(Message) /\ Len(channel') = 0
  BY EmptySeq
<1> QED BY <1>1 DEF SoundChannel

(* The connection is lost.                                                   *)
LEMMA ConnectionLostKeeps ==
  ASSUME IInv, ConnectionLost
  PROVE  IInv' /\ NotOlder
<1>1. UNCHANGED <<log, asked, askedAt, store, ready, streaming, told, failures>>
      /\ link # "down" /\ link' = "down" /\ channel' = <<>>
      /\ losses < MaxLosses /\ losses' = losses + 1
      /\ status' = AfterUpdate(status, InterruptedState)
  BY DEF ConnectionLost
<1>2. streaming /\ status.type # "OFF" /\ status \in State
  BY <1>1 DEF IInv, ConnectedWhileStreaming, ReportedTruly, TypeOK
<1>3. /\ status' \in State /\ status'.type # "OFF"
      /\ status'.type \in {"OK", "INTERRUPTED"} => status.type \in {"OK", "INTERRUPTED"}
  BY <1>1, <1>2, Interrupts
<1>4. channel' \in Seq(Message) /\ SoundChannel'
  BY <1>1, EmptyChannel
<1>5. TypeOK'
  <2>1. losses' \in 0..MaxLosses
    BY <1>1, DataAssumption DEF IInv, TypeOK
  <2> QED BY <2>1, <1>1, <1>3, <1>4 DEF IInv, TypeOK
<1>6. ReportedTruly'
  BY <1>1, <1>2, <1>3 DEF IInv, ReportedTruly
<1>7. Sound(log, store)'
  BY <1>1 DEF IInv
<1> QED BY <1>1, <1>4, <1>5, <1>6, <1>7, NothingOlder
        DEF IInv, AskedWithData, ConnectedWhileStreaming

(* run connects and _on_open asks.                                           *)
LEMMA ConnectKeeps ==
  ASSUME IInv, Connect
  PROVE  IInv' /\ NotOlder
<1>1. UNCHANGED <<log, store, status, ready, streaming, told, losses, failures>>
      /\ streaming /\ link' = "asking" /\ channel' = <<>>
      /\ asked' = store.version /\ askedAt' = Len(log)
  BY DEF Connect, clientVars, AskedFrom
<1>2. log \in Log /\ Len(log) <= MaxChanges /\ Len(log) \in Nat /\ Sound(log, store)
  BY DEF IInv, TypeOK, Log
<1>3. asked' \in 0..MaxChanges /\ askedAt' \in 0..MaxChanges
  BY <1>1, <1>2, TimesBounded, DataAssumption
<1>4. channel' \in Seq(Message) /\ SoundChannel'
  BY <1>1, EmptyChannel
<1>5. TypeOK'
  BY <1>1, <1>3, <1>4 DEF IInv, TypeOK
<1>6. AskedWithData'
  BY <1>1, <1>2 DEF AskedWithData, Sound
<1>7. Sound(log, store)' /\ ReportedTruly'
  BY <1>1 DEF IInv, ReportedTruly
<1> QED BY <1>1, <1>4, <1>5, <1>6, <1>7, NothingOlder DEF IInv, ConnectedWhileStreaming

(* What the handlers leave in the store.                                     *)
LEMMA GrowthIsSound ==
  ASSUME IInv, log' = log, NEW new, Grows(store, new), store' = new
  PROVE  /\ Sound(log, store)' /\ NotOlder
         /\ store' \in Store
         /\ store.initialized => store'.initialized
BY DEF IInv, Grows, Sound, NotOlder

(* What they tell the listeners.                                             *)
LEMMA BroadcastType ==
  ASSUME log \in Log, Len(log) <= MaxChanges, NEW s, Sound(log, s),
         told \in [Flags -> 0..MaxChanges], NEW keys, Broadcast(s.items, keys)
  PROVE  told' \in [Flags -> 0..MaxChanges]
<1>1. \A f \in Flags : Recency(s.items, f) \in 0..MaxChanges
  BY RecencyType
<1> QED BY <1>1 DEF Broadcast

(* _on_process_data after a successful update, announced fully or up to an   *)
(* item that cannot be.                                                      *)
LEMMA DataTakenKeeps ==
  ASSUME IInv, MessageArrives, NEW new, Grows(store, new), new.initialized, DataTaken(new),
         UNCHANGED <<log, asked, askedAt, losses>>, failures' \in 0..MaxFailures
  PROVE  IInv' /\ NotOlder
<1>1. /\ store' = new /\ ready' = TRUE
  BY DEF DataTaken
<1>2. /\ link # "down" /\ streaming /\ channel \in Seq(Message) /\ channel # <<>>
      /\ log \in Log /\ Len(log) <= MaxChanges /\ status \in State
      /\ told \in [Flags -> 0..MaxChanges]
  BY DEF IInv, MessageArrives, ConnectedWhileStreaming, TypeOK, Log
<1>3. Sound(log, store)' /\ NotOlder /\ store' \in Store /\ store'.initialized
  BY <1>1, GrowthIsSound
<1>4. Sound(log, new)
  BY DEF Grows
<1>5. AfterUpdate(status, OkState) \in State /\ AfterUpdate(status, OkState).type = "OK"
  BY <1>2, Recovers
<1>6. CASE /\ Broadcast(new.items, msg.keys)
           /\ status' = AfterUpdate(status, OkState)
           /\ channel' = Tail(channel)
           /\ UNCHANGED <<link, streaming>>
  <2>1. told' \in [Flags -> 0..MaxChanges]
    BY <1>2, <1>4, <1>6, BroadcastType
  <2>2. /\ channel' \in Seq(Message) /\ Len(channel') = Len(channel) - 1
        /\ \A n \in 1..Len(channel') : channel'[n] = channel[n + 1]
        /\ Len(channel) \in Nat
    BY <1>2, <1>6, HeadTailProperties, LenProperties
  <2>3. SoundChannel'
    <3>1. SUFFICES ASSUME NEW n \in 1..Len(channel')
                   PROVE  SoundMessage(log', store'.initialized, channel'[n])
      BY DEF SoundChannel
    <3>2. n + 1 \in 1..Len(channel)
      BY <2>2
    <3>3. SoundMessage(log, store.initialized, channel[n + 1])
      BY <3>2 DEF IInv, SoundChannel
    <3>4. SoundMessage(log, TRUE, channel[n + 1])
      BY <3>3 DEF SoundMessage
    <3>5. store'.initialized = TRUE
      BY <1>3 DEF Store
    <3> QED BY <2>2, <3>4, <3>5
  <2>4. TypeOK'
    BY <1>1, <1>2, <1>3, <1>5, <1>6, <2>1, <2>2 DEF IInv, TypeOK
  <2>5. ReportedTruly'
    BY <1>1, <1>2, <1>3, <1>5, <1>6 DEF ReportedTruly
  <2> QED BY <1>2, <1>3, <1>6, <2>3, <2>4, <2>5
          DEF IInv, AskedWithData, ConnectedWhileStreaming
<1>7. CASE /\ \E i \in WithoutCategory : Broadcast(new.items, UpTo(i))
           /\ status' = AfterUpdate(AfterUpdate(status, OkState), ErrorOffState)
           /\ streaming' = FALSE /\ link' = "down" /\ channel' = <<>>
  <2>1. told' \in [Flags -> 0..MaxChanges]
    BY <1>2, <1>4, <1>7, BroadcastType
  <2>2. channel' \in Seq(Message) /\ SoundChannel'
    BY <1>7, EmptyChannel
  <2>3. status' \in State /\ status'.type = "OFF"
    BY <1>5, <1>7, ErrorOffCounts, AfterUpdateType, RequestsAreStates DEF Requests
  <2>4. TypeOK'
    BY <1>1, <1>3, <1>7, <2>1, <2>2, <2>3 DEF IInv, TypeOK
  <2>5. ReportedTruly'
    BY <1>1, <1>3, <1>7, <2>3 DEF ReportedTruly
  <2> QED BY <1>3, <1>7, <2>2, <2>4, <2>5 DEF IInv, AskedWithData, ConnectedWhileStreaming
<1> QED BY <1>6, <1>7 DEF DataTaken

(* ... and after a refused or failed one.                                    *)
LEMMA DataRefusedKeeps ==
  ASSUME IInv, MessageArrives, NEW new, Grows(store, new),
         NEW reported, reported \in {status, AfterUpdate(status, InterruptedState)},
         DataRefused(new, reported),
         UNCHANGED <<log, asked, askedAt, losses>>, failures' \in 0..MaxFailures
  PROVE  IInv' /\ NotOlder
<1>1. /\ store' = new /\ status' = reported /\ link' = "down" /\ channel' = <<>>
      /\ streaming' = TRUE /\ UNCHANGED <<ready, told>>
  BY DEF DataRefused, ReconnectOnReject
<1>2. streaming /\ status.type # "OFF" /\ status \in State
  BY DEF IInv, MessageArrives, ConnectedWhileStreaming, ReportedTruly, TypeOK
<1>3. /\ status' \in State /\ status'.type # "OFF"
      /\ status'.type \in {"OK", "INTERRUPTED"} => status.type \in {"OK", "INTERRUPTED"}
  BY <1>1, <1>2, Interrupts
<1>4. /\ Sound(log, store)' /\ NotOlder /\ store' \in Store
      /\ store.initialized => store'.initialized
  BY <1>1, GrowthIsSound
<1>5. channel' \in Seq(Message) /\ SoundChannel'
  BY <1>1, EmptyChannel
<1>6. TypeOK'
  BY <1>1, <1>3, <1>4, <1>5 DEF IInv, TypeOK
<1>7. ReportedTruly'
  BY <1>1, <1>3, <1>4 DEF IInv, ReportedTruly
<1> QED BY <1>1, <1>4, <1>5, <1>6, <1>7 DEF IInv, AskedWithData, ConnectedWhileStreaming

(* The message at hand is sound.                                             *)
LEMMA FirstMessage ==
  ASSUME IInv, MessageArrives
  PROVE  msg \in Message /\ SoundMessage(log, store.initialized, msg)
<1>1. channel \in Seq(Message) /\ channel # <<>>
  BY DEF IInv, TypeOK, MessageArrives
<1>2. Head(channel) \in Message /\ Head(channel) = channel[1] /\ 1 \in 1..Len(channel)
  BY <1>1, HeadTailProperties, LenProperties, EmptySeq
<1> QED BY <1>2 DEF IInv, SoundChannel, msg

(* The count of storage failures stays in its bounds.                        *)
LEMMA Failures ==
  ASSUME IInv, UNCHANGED failures \/ StorageRaises
  PROVE  failures' \in 0..MaxFailures
BY DataAssumption DEF IInv, TypeOK, StorageRaises

(* _on_process_data on a full message.                                       *)
LEMMA HandleFullKeeps ==
  ASSUME IInv, HandleFull
  PROVE  IInv' /\ NotOlder
<1> DEFINE version == Max({0} \cup {msg.data[i].time : i \in msg.keys})
<1>1. MessageArrives /\ msg.type = "full" /\ UNCHANGED <<log, asked, askedAt, losses>>
      /\ log \in Log /\ Sound(log, store)
  BY DEF HandleFull, IInv, TypeOK, Log
<1>2. msg \in Message /\ SoundMessage(log, store.initialized, msg)
  BY <1>1, FirstMessage
<1>3. Grows(store, store)
  BY <1>1 DEF Grows, Sound, Store, Item
<1>4. CASE InitAccepts(store, msg.data, version) /\ DataTaken(AfterInit(msg.data, version))
           /\ UNCHANGED failures
  <2>1. Grows(store, AfterInit(msg.data, version)) /\ AfterInit(msg.data, version).initialized
    BY <1>1, <1>2, <1>4, InitGrows
  <2>2. failures' \in 0..MaxFailures
    BY <1>4, Failures
  <2> HIDE DEF version
  <2> QED BY <1>1, <1>4, <2>1, <2>2, DataTakenKeeps
<1>5. CASE DataRefused(store, status) /\ UNCHANGED failures
  BY <1>1, <1>3, <1>5, Failures, DataRefusedKeeps
<1>6. CASE DataRefused(store, AfterUpdate(status, InterruptedState)) /\ StorageRaises
  BY <1>1, <1>3, <1>6, Failures, DataRefusedKeeps
<1> QED BY <1>4, <1>5, <1>6 DEF HandleFull

(* _on_process_data on a patch.                                              *)
LEMMA HandlePatchKeeps ==
  ASSUME IInv, HandlePatch
  PROVE  IInv' /\ NotOlder
<1>1. MessageArrives /\ msg.type = "patch" /\ UNCHANGED <<log, asked, askedAt, losses>>
      /\ log \in Log /\ Sound(log, store)
  BY DEF HandlePatch, IInv, TypeOK, Log
<1>2. msg \in Message /\ SoundMessage(log, store.initialized, msg) /\ msg.keys \subseteq Items
  BY <1>1, FirstMessage DEF Message
<1>3. CASE /\ \A i \in msg.keys : Accepts(i)
           /\ DataTaken(AfterUpserts(store, msg.data, msg.keys))
           /\ UNCHANGED failures
  <2> DEFINE new == AfterUpserts(store, msg.data, msg.keys)
  <2>1. \A i \in msg.keys : UpsertAccepts(store, i, msg.data[i])
    BY <1>3 DEF Accepts
  <2>2. Grows(store, new) /\ (msg.keys # {} => new.initialized)
    BY <1>1, <1>2, <2>1, UpsertsGrow
  <2>3. msg.keys = {} => store.initialized
    BY <1>1, <1>2 DEF SoundMessage
  <2>4. failures' \in 0..MaxFailures
    BY <1>3, Failures
  <2>5. DataTaken(new)
    BY <1>3
  <2> HIDE DEF new
  <2>6. new.initialized
    BY <2>2, <2>3 DEF Grows
  <2> QED BY <1>1, <2>2, <2>4, <2>5, <2>6, DataTakenKeeps
<1>4. ASSUME NEW stop \in msg.keys, \A i \in UpTo(stop) : Accepts(i),
             NEW reported \in {status, AfterUpdate(status, InterruptedState)},
             DataRefused(AfterUpserts(store, msg.data, UpTo(stop)), reported),
             UNCHANGED failures \/ StorageRaises
      PROVE  IInv' /\ NotOlder
  <2> DEFINE new == AfterUpserts(store, msg.data, UpTo(stop))
  <2>1. \A i \in UpTo(stop) : UpsertAccepts(store, i, msg.data[i])
    BY <1>4 DEF Accepts
  <2>2. UpTo(stop) \in SUBSET Items
    BY <1>2 DEF UpTo
  <2>3. Grows(store, new)
    BY <1>1, <1>2, <2>1, <2>2, UpsertsGrow
  <2>4. failures' \in 0..MaxFailures
    BY <1>4, Failures
  <2>5. DataRefused(new, reported)
    BY <1>4
  <2> HIDE DEF new
  <2> QED BY <1>1, <1>4, <2>3, <2>4, <2>5, DataRefusedKeeps
<1> QED BY <1>3, <1>4 DEF HandlePatch

-----------------------------------------------------------------------------
(* The theorems *)

(* Every step keeps IInv and makes no item older.                            *)
LEMMA StepKeeps == IInv /\ [Next]_vars => IInv' /\ NotOlder
<1>1. SUFFICES ASSUME IInv, [Next]_vars PROVE IInv' /\ NotOlder
  OBVIOUS
<1>2. CASE UNCHANGED vars
  <2>1. UNCHANGED <<log, link, asked, askedAt, channel, store, status, ready, streaming, told>>
        /\ UNCHANGED <<losses, failures>>
    BY <1>2 DEF vars, netVars, clientVars
  <2>2. TypeOK' /\ Sound(log, store)' /\ SoundChannel'
    BY <1>1, <2>1 DEF IInv, TypeOK, SoundChannel
  <2> QED BY <1>1, <2>1, <2>2, NothingOlder
          DEF IInv, AskedWithData, ReportedTruly, ConnectedWhileStreaming
<1>3. CASE Next
  BY <1>1, <1>3, ServerChangesKeeps, ServerAnswersKeeps, ConnectionLostKeeps, ConnectKeeps,
     HandleFullKeeps, HandlePatchKeeps DEF Next
<1> QED BY <1>1, <1>2, <1>3

(* IInv holds at the start.                                                  *)
LEMMA InitKeeps == Init => IInv
<1>1. SUFFICES ASSUME Init PROVE IInv
  OBVIOUS
<1>2. log \in Log /\ channel \in Seq(Message) /\ Len(log) = 0 /\ Len(channel) = 0
  BY <1>1, EmptySeq DEF Init, Log
<1>3. store \in Store /\ \A i \in Items : store.items[i].time = 0
  BY <1>1 DEF Init, EmptyStore, Store, Absent, Item
<1>4. store.version = 0
  BY <1>1 DEF Init, EmptyStore
<1>5. Sound(log, store)
  BY <1>3, <1>4 DEF Sound, Genuine
<1>6. SoundChannel
  BY <1>2 DEF SoundChannel
<1>7. TypeOK
  <2>1. status \in State
    BY <1>1, RequestsAreStates DEF Init
  <2>2. told \in [Flags -> 0..MaxChanges] /\ asked \in 0..MaxChanges /\ askedAt \in 0..MaxChanges
    BY <1>1, DataAssumption DEF Init
  <2>3. losses \in 0..MaxLosses /\ failures \in 0..MaxFailures /\ Len(log) <= MaxChanges
    BY <1>1, <1>2, DataAssumption DEF Init
  <2> QED BY <1>1, <1>2, <1>3, <2>1, <2>2, <2>3 DEF Init, TypeOK, Log
<1>8. AskedWithData /\ ReportedTruly /\ ConnectedWhileStreaming
  BY <1>1 DEF Init, AskedWithData, ReportedTruly, ConnectedWhileStreaming, IntializingState
<1> QED BY <1>5, <1>6, <1>7, <1>8 DEF IInv

(* IInv holds always.                                                        *)
LEMMA Invariance == Spec => []IInv
<1>1. Init => IInv
  BY InitKeeps
<1>2. IInv /\ [Next]_vars => IInv'
  BY StepKeeps
<1> QED BY <1>1, <1>2, PTL DEF Spec

(* A sound store has the version HighWater says.                             *)
LEMMA NewestIsMax == IInv => HighWater
<1>1. SUFFICES ASSUME IInv PROVE HighWater
  OBVIOUS
<1> DEFINE times == {0} \cup {store.items[i].time : i \in Items}
<1>2. Sound(log, store) /\ store.version \in Nat /\ \A i \in Items : store.items[i].time \in Nat
  BY <1>1 DEF IInv, Sound, Store, Item
<1>3. \A t \in times : t <= store.version
  BY <1>2 DEF Sound
<1>4. store.version \in times
  BY <1>2 DEF Sound
<1>5. times \in SUBSET Nat /\ times # {}
  BY <1>2
<1>6. HighWater <=> store.version = Max(times)
  BY DEF HighWater
<1> HIDE DEF times
<1>7. Max(times) \in times /\ \A t \in times : t <= Max(times)
  BY <1>2, <1>3, <1>5, MaxOfBounded
<1>8. Max(times) \in Nat /\ Max(times) <= store.version /\ store.version <= Max(times)
  BY <1>3, <1>4, <1>5, <1>7
<1> QED BY <1>2, <1>6, <1>8

(* Type correctness of DataSync, for every value of the constants.           *)
THEOREM Typing == Spec => []TypeOK
<1>1. IInv => TypeOK
  BY DEF IInv
<1> QED BY <1>1, Invariance, PTL

(* The version InMemoryDataStorage keeps, which _on_open asks from, is always *)
(* the newest time stamp stored.                                             *)
THEOREM VersionIsNewest == Spec => []HighWater
BY NewestIsMax, Invariance, PTL

(* The status provider says OK and the client is ready only once there are   *)
(* data, and OFF exactly when the streaming has ended.                       *)
THEOREM ReportsAreTrue == Spec => []ReportedTruly
<1>1. IInv => ReportedTruly
  BY DEF IInv
<1> QED BY <1>1, Invariance, PTL

(* No init and no upsert, of whatever message, makes a stored item older.    *)
THEOREM ItemsNeverAge == Spec => NeverOlder
<1>1. IInv /\ [Next]_vars => [\A i \in Items : store'.items[i].time >= store.items[i].time]_vars
  BY StepKeeps DEF NotOlder
<1> QED BY <1>1, Invariance, PTL DEF Spec, NeverOlder

-----------------------------------------------------------------------------
(***************************************************************************)
(* DataSync implements Replica: the client's store is at all times what    *)
(* the server had at the moment the store's version names, and misses      *)
(* nothing older.  Proved for any flags, segments, changes and losses,     *)
(* archived items included, from the assumption that the storage does not  *)
(* raise and that the server pushes to a client only after it has answered *)
(* it.                                                                     *)
(*                                                                         *)
(* The argument: the messages on their way form a chain.  Each takes a     *)
(* copy of one moment to one of a later moment, the first starts from the  *)
(* client's copy and the last ends with the server's data.  A handler      *)
(* takes the first link off the chain, a push adds one, and a lost         *)
(* connection drops the chain, to be begun again by a request from where   *)
(* the copy is.                                                            *)
(***************************************************************************)

(* What the runs of ImplementsReplica and NothingMissed assume.              *)
Undisturbed == MaxFailures = 0 /\ ~EarlyPush

(* Message m takes a copy of the data at moment a to moment b.               *)
Leads(changes, m, a, b) ==
  LET data == Master!AsOf(changes, b)
  IN  \/ a = 0 /\ m = FullMessage(data)
      \/ m = PatchMessage({i \in Items : data[i].time > a}, data)

(* The moments before and after the k-th message of a chain that starts at a *)
(* and ends with the n-th change.                                            *)
MomentBefore(a, n, length, k) == IF k = 1 THEN a ELSE n - length + k - 1

MomentAfter(n, length, k) == n - length + k

(* The messages lead, one after the other, from moment a to the last.        *)
Chain(changes, messages, a) ==
  LET n == Len(changes)  length == Len(messages)
  IN  /\ length = 0 => a = n
      /\ length # 0 => a <= MomentAfter(n, length, 1)
      /\ \A k \in 1..length :
           Leads(changes, messages[k], MomentBefore(a, n, length, k), MomentAfter(n, length, k))

(* What is on its way leads from the client's copy to the server's data.     *)
ChannelLeads ==
  /\ link = "up" => Chain(log, channel, store.version)
  /\ link = "asking" => channel = <<>> /\ asked = store.version

(* The client's copy is the data of the moment its version names.            *)
IsCopy ==
  /\ store.version \in 0..Len(log)
  /\ store.items = Master!AsOf(log, store.version)
  /\ ChannelLeads

-----------------------------------------------------------------------------
(* The server's data at different moments *)

(* An item at a moment: its newest change so far.                            *)
LEMMA AsOfIs ==
  ASSUME NEW changes, NEW n, NEW i \in Items, NEW mine, mine = Master!ChangesOf(changes, i, n)
  PROVE  Master!AsOf(changes, n)[i] =
           IF mine = {} THEN Absent
           ELSE [time |-> Max(mine), archived |-> changes[Max(mine)].archived]
<1>1. \A S : Master!Max(S) = Max(S)
  BY DEF Master!Max, Max
<1> QED BY <1>1, Zenon DEF Master!AsOf

(* There is a newest one, if there is any.                                   *)
LEMMA NewestChange ==
  ASSUME NEW changes \in Log, NEW n \in 0..Len(changes), NEW i \in Items,
         Master!ChangesOf(changes, i, n) # {}
  PROVE  Max(Master!ChangesOf(changes, i, n)) \in Master!ChangesOf(changes, i, n)
<1> DEFINE mine == Master!ChangesOf(changes, i, n)
<1>1. mine \in SUBSET Nat /\ n \in Nat /\ \A k \in mine : k <= n
  BY DEF Master!ChangesOf, Log
<1> HIDE DEF mine
<1>2. mine # {}
  BY DEF mine
<1> QED BY <1>1, <1>2, MaxOfBounded DEF mine

(* Later changes do not touch what was.                                      *)
LEMMA PastStays ==
  ASSUME NEW old \in Log, NEW later \in Log,
         \A k \in 1..Len(old) : later[k] = old[k], NEW n \in 0..Len(old)
  PROVE  Master!AsOf(later, n) = Master!AsOf(old, n)
<1>1. Len(old) \in Nat
  BY LenProperties DEF Log
<1>2. ASSUME NEW i \in Items
      PROVE  Master!AsOf(old, n)[i] = Master!AsOf(later, n)[i]
  <2>1. \A k \in 1..n : later[k] = old[k]
    BY <1>1
  <2>2. Master!ChangesOf(old, i, n) = Master!ChangesOf(later, i, n)
    BY <2>1 DEF Master!ChangesOf
  <2>3. \A k \in Master!ChangesOf(old, i, n) : old[k] = later[k]
    BY <2>1 DEF Master!ChangesOf
  <2>4. PICK mine : mine = Master!ChangesOf(old, i, n)
    OBVIOUS
  <2>5. mine # {} => old[Max(mine)] = later[Max(mine)]
    BY <2>3, <2>4, NewestChange
  <2>6. Master!AsOf(old, n)[i] =
           IF mine = {} THEN Absent
           ELSE [time |-> Max(mine), archived |-> old[Max(mine)].archived]
    BY <2>4, AsOfIs
  <2>7. Master!AsOf(later, n)[i] =
           IF mine = {} THEN Absent
           ELSE [time |-> Max(mine), archived |-> later[Max(mine)].archived]
    <3>1. mine = Master!ChangesOf(later, i, n)
      BY <2>2, <2>4
    <3> QED BY <3>1, AsOfIs
  <2> QED BY <2>5, <2>6, <2>7
<1>3. /\ Master!AsOf(old, n) = [i \in Items |-> Master!AsOf(old, n)[i]]
      /\ Master!AsOf(later, n) = [i \in Items |-> Master!AsOf(later, n)[i]]
  BY DEF Master!AsOf
<1> QED BY <1>2, <1>3, Zenon

(* An item that did not change between two moments is the same at both.      *)
LEMMA Unchanged ==
  ASSUME NEW changes \in Log, NEW a \in 0..Len(changes), NEW b \in a..Len(changes),
         NEW i \in Items, Master!AsOf(changes, b)[i].time <= a
  PROVE  Master!AsOf(changes, a)[i] = Master!AsOf(changes, b)[i]
<1>1. a \in Nat /\ b \in Nat /\ b \in 0..Len(changes) /\ a <= b
  BY DEF Log
<1>2. \A k \in 1..b : changes[k].item = i => k <= Master!AsOf(changes, b)[i].time
  BY <1>1, AsOfMeans, Zenon
<1>3. Master!AsOf(changes, b)[i].time \in Nat
  <2>1. Master!AsOf(changes, b)[i] \in Item
    BY <1>1, AsOfMeans, Zenon
  <2> QED BY <2>1 DEF Item
<1>4. Master!ChangesOf(changes, i, a) = Master!ChangesOf(changes, i, b)
  <2>1. \A k \in 1..b : changes[k].item = i => k \in 1..a
    BY <1>1, <1>2, <1>3
  <2>2. \A k \in 1..a : k \in 1..b
    BY <1>1
  <2> QED BY <2>1, <2>2 DEF Master!ChangesOf
<1>5. PICK mine : mine = Master!ChangesOf(changes, i, a)
  OBVIOUS
<1>6. Master!AsOf(changes, a)[i] =
         IF mine = {} THEN Absent
         ELSE [time |-> Max(mine), archived |-> changes[Max(mine)].archived]
  BY <1>5, AsOfIs
<1>7. Master!AsOf(changes, b)[i] =
         IF mine = {} THEN Absent
         ELSE [time |-> Max(mine), archived |-> changes[Max(mine)].archived]
  BY <1>4, <1>5, AsOfIs
<1> QED BY <1>6, <1>7

(* The item of change n has time stamp n after it.                           *)
LEMMA NewestTime ==
  ASSUME NEW changes \in Log, NEW n \in 1..Len(changes)
  PROVE  changes[n].item \in Items /\ Master!AsOf(changes, n)[changes[n].item].time = n
<1>1. changes[n] \in [item : Items, archived : BOOLEAN]
  BY ElementOfSeq DEF Log
<1>2. PICK i \in Items : i = changes[n].item
  BY <1>1
<1>3. n \in 0..Len(changes) /\ n \in Nat /\ n \in 1..n
  BY DEF Log
<1>4. PICK item : item = Master!AsOf(changes, n)[i]
  OBVIOUS
<1>5. item \in Item /\ item.time <= n /\ n <= item.time
  BY <1>2, <1>3, <1>4, AsOfMeans
<1> QED BY <1>2, <1>3, <1>4, <1>5 DEF Item

-----------------------------------------------------------------------------
(* Chains of messages *)

(* Nor do they touch where a message leads.                                  *)
LEMMA LeadsStays ==
  ASSUME NEW old \in Log, NEW later \in Log, \A k \in 1..Len(old) : later[k] = old[k],
         NEW m, NEW a, NEW b \in 0..Len(old), Leads(old, m, a, b)
  PROVE  Leads(later, m, a, b)
<1>1. Master!AsOf(later, b) = Master!AsOf(old, b)
  BY PastStays
<1> QED BY <1>1 DEF Leads

(* A push continues the chain.                                               *)
LEMMA ChainExtends ==
  ASSUME NEW old \in Log, NEW change \in [item : Items, archived : BOOLEAN],
         NEW new, new = Append(old, change), NEW messages \in Seq(Message),
         NEW a \in 0..Len(old), Chain(old, messages, a),
         NEW push \in Message, push = PatchMessage({change.item}, Master!AsOf(new, Len(new)))
  PROVE  Chain(new, Append(messages, push), a)
<1> DEFINE n == Len(old)
           length == Len(messages)
           more == Append(messages, push)
<1>1. /\ new \in Log /\ Len(new) = n + 1 /\ new[n + 1] = change /\ n \in Nat
      /\ \A k \in 1..Len(old) : new[k] = old[k]
  BY AppendProperties, LenProperties DEF Log
<1>2. /\ Len(more) = length + 1 /\ more[length + 1] = push /\ length \in Nat
      /\ \A k \in 1..length : more[k] = messages[k]
  BY AppendProperties, LenProperties
<1>3. a \in Nat /\ a <= n /\ (length # 0 => a <= n - length + 1)
  BY <1>1 DEF Chain, MomentAfter
<1> HIDE DEF n, length, more
<1>4. Leads(new, push, n, n + 1)
  <2> DEFINE data == Master!AsOf(new, n + 1)
  <2>1. n + 1 \in 1..Len(new) /\ n + 1 \in 0..Len(new)
    BY <1>1
  <2>2. data[change.item].time = n + 1
    <3>1. Master!AsOf(new, n + 1)[new[n + 1].item].time = n + 1
      BY <1>1, <2>1, NewestTime
    <3> QED BY <1>1, <3>1
  <2>3. ASSUME NEW i \in Items, i # change.item PROVE ~(data[i].time > n)
    <3>1. PICK item : item = data[i]
      OBVIOUS
    <3>2. item \in Item /\ Genuine(new, i, item) /\ item.time <= n + 1
      BY <1>1, <2>1, <3>1, AsOfMeans
    <3>3. item.time # n + 1
      BY <3>2, <2>3, <1>1 DEF Genuine
    <3> QED BY <3>1, <3>2, <3>3, <1>1 DEF Item
  <2>4. {i \in Items : data[i].time > n} = {change.item}
    <3>1. change.item \in Items
      OBVIOUS
    <3>2. data[change.item].time > n
      BY <2>2, <1>1
    <3> HIDE DEF data
    <3> QED BY <3>1, <3>2, <2>3
  <2>5. push = PatchMessage({change.item}, data)
    BY <1>1
  <2> HIDE DEF data
  <2>6. push = PatchMessage({i \in Items : data[i].time > n}, data)
    BY <2>4, <2>5
  <2> QED BY <2>6 DEF Leads, data
<1>5. ASSUME NEW k \in 1..Len(more)
      PROVE  Leads(new, more[k], MomentBefore(a, n + 1, length + 1, k),
                   MomentAfter(n + 1, length + 1, k))
  <2>1. CASE k \in 1..length
    <3>1. Leads(old, messages[k], MomentBefore(a, n, length, k), MomentAfter(n, length, k))
      BY <2>1 DEF Chain, n, length
    <3>2. /\ MomentBefore(a, n + 1, length + 1, k) = MomentBefore(a, n, length, k)
          /\ MomentAfter(n + 1, length + 1, k) = MomentAfter(n, length, k)
      BY <2>1, <1>1, <1>2 DEF MomentBefore, MomentAfter
    <3>3. MomentAfter(n, length, k) \in 0..n
      BY <2>1, <1>1, <1>2, <1>3 DEF MomentAfter
    <3>4. Leads(new, messages[k], MomentBefore(a, n, length, k), MomentAfter(n, length, k))
      BY <1>1, <3>1, <3>3, LeadsStays DEF n
    <3> QED BY <3>2, <3>4, <2>1, <1>2
  <2>2. CASE k = length + 1
    <3>1. MomentAfter(n + 1, length + 1, k) = n + 1
      BY <2>2, <1>1, <1>2 DEF MomentAfter
    <3>2. MomentBefore(a, n + 1, length + 1, k) = n
      <4>1. CASE length = 0
        <5>1. a = n
          BY <4>1 DEF Chain, n, length
        <5> QED BY <5>1, <4>1, <2>2, <1>1 DEF MomentBefore
      <4>2. CASE length # 0
        BY <4>2, <2>2, <1>1, <1>2 DEF MomentBefore
      <4> QED BY <4>1, <4>2
    <3> QED BY <3>1, <3>2, <2>2, <1>2, <1>4
  <2> QED BY <2>1, <2>2, <1>2
<1>6. a <= MomentAfter(n + 1, length + 1, 1)
  BY <1>1, <1>2, <1>3 DEF MomentAfter
<1>7. Chain(new, more, a)
  <2>1. Len(new) = n + 1 /\ Len(more) = length + 1 /\ length + 1 # 0
    BY <1>1, <1>2
  <2> HIDE <1>1, <1>2
  <2> QED BY <2>1, <1>5, <1>6 DEF Chain
<1> QED BY <1>7 DEF more

(* The first message leads to where the chain of the others starts.          *)
LEMMA ChainAdvances ==
  ASSUME NEW changes \in Log, NEW messages \in Seq(Message), messages # <<>>,
         NEW a \in 0..Len(changes), Chain(changes, messages, a)
  PROVE  \E b \in a..Len(changes) : /\ Leads(changes, Head(messages), a, b)
                                    /\ Chain(changes, Tail(messages), b)
<1> DEFINE n == Len(changes)
           length == Len(messages)
           rest == Tail(messages)
           b == n - length + 1
<1>1. /\ length \in Nat /\ length # 0 /\ n \in Nat /\ Head(messages) = messages[1]
      /\ Len(rest) = length - 1 /\ \A k \in 1..(length - 1) : rest[k] = messages[k + 1]
  BY HeadTailProperties, LenProperties, EmptySeq DEF Log
<1>2. /\ a <= b
      /\ \A k \in 1..length : Leads(changes, messages[k], MomentBefore(a, n, length, k),
                                    MomentAfter(n, length, k))
  BY <1>1 DEF Chain, MomentAfter
<1> HIDE DEF n, length, rest
<1>3. b \in a..n /\ 1 \in 1..length
  BY <1>1, <1>2 DEF n
<1>4. Leads(changes, Head(messages), a, b)
  BY <1>1, <1>2, <1>3 DEF MomentBefore, MomentAfter
<1>5. ASSUME NEW k \in 1..(length - 1)
      PROVE  Leads(changes, rest[k], MomentBefore(b, n, length - 1, k),
                   MomentAfter(n, length - 1, k))
  <2>1. k + 1 \in 1..length /\ rest[k] = messages[k + 1]
    BY <1>1
  <2>2. /\ MomentBefore(b, n, length - 1, k) = MomentBefore(a, n, length, k + 1)
        /\ MomentAfter(n, length - 1, k) = MomentAfter(n, length, k + 1)
    BY <1>1 DEF MomentBefore, MomentAfter
  <2> QED BY <1>2, <2>1, <2>2
<1>6. /\ length - 1 = 0 => b = n
      /\ length - 1 # 0 => b <= MomentAfter(n, length - 1, 1)
  BY <1>1 DEF MomentAfter
<1>7. Chain(changes, rest, b)
  BY <1>1, <1>5, <1>6 DEF Chain, n
<1> QED BY <1>3, <1>4, <1>7 DEF n, rest

(* The answer to a request starts a chain.                                   *)
LEMMA ChainBegins ==
  ASSUME NEW changes \in Log, NEW m \in Message, NEW a \in 0..Len(changes),
         Leads(changes, m, a, Len(changes))
  PROVE  Chain(changes, <<m>>, a)
<1>1. Len(<<m>>) = 1 /\ <<m>>[1] = m /\ Len(changes) \in Nat
  BY DEF Log
<1>2. MomentAfter(Len(changes), 1, 1) = Len(changes) /\ MomentBefore(a, Len(changes), 1, 1) = a
  BY <1>1 DEF MomentAfter, MomentBefore
<1>3. \A k \in 1..1 : k = 1
  OBVIOUS
<1> QED BY <1>1, <1>2, <1>3 DEF Chain

-----------------------------------------------------------------------------
(* What the store makes of a message that leads on *)

(* An element no other is above is the maximum.                              *)
LEMMA MaxIs ==
  ASSUME NEW S \in SUBSET Nat, NEW top \in S, \A x \in S : x <= top
  PROVE  Max(S) = top
<1>1. Max(S) \in S /\ \A x \in S : x <= Max(S)
  BY MaxOfBounded
<1>2. Max(S) \in Nat /\ top \in Nat /\ Max(S) <= top /\ top <= Max(S)
  BY <1>1
<1> QED BY <1>2

(* The data at moment b: no time stamp is higher, and b itself is one.       *)
LEMMA TimesAt ==
  ASSUME NEW changes \in Log, NEW b \in 0..Len(changes),
         NEW data, data = Master!AsOf(changes, b)
  PROVE  /\ data \in [Items -> Item]
         /\ \A i \in Items : data[i].time \in Nat /\ data[i].time <= b
         /\ b # 0 => \E i \in Items : data[i].time = b
<1>1. data \in [Items -> Item]
  BY DataType
<1>2. \A i \in Items : data[i].time <= b
  BY AsOfMeans
<1>3. ASSUME b # 0 PROVE \E i \in Items : data[i].time = b
  <2>1. b \in 1..Len(changes)
    BY <1>3 DEF Log
  <2> QED BY <2>1, NewestTime
<1> QED BY <1>1, <1>2, <1>3 DEF Item

(* DataStorage.init accepts a full answer, and has the server's data then.   *)
LEMMA FullTakes ==
  ASSUME log \in Log, IsCopy, Sound(log, store), store.version = 0, NEW b \in 0..Len(log),
         NEW data, data = Master!AsOf(log, b), NEW m, m = FullMessage(data),
         NEW version, version = Max({0} \cup {m.data[i].time : i \in m.keys})
  PROVE  /\ InitAccepts(store, m.data, version)
         /\ AfterInit(m.data, version).version = b
         /\ AfterInit(m.data, version).items = data
<1>1. m.data = data /\ m.keys = Holds(data)
  BY DEF FullMessage
<1>2. /\ data \in [Items -> Item]
      /\ \A i \in Items : data[i].time \in Nat /\ data[i].time <= b
      /\ b # 0 => \E i \in Items : data[i].time = b
  BY TimesAt
<1>3. b \in Nat
  BY DEF Log
<1>4. version = b
  <2> DEFINE times == {0} \cup {m.data[i].time : i \in m.keys}
  <2>1. times \in SUBSET Nat /\ \A t \in times : t <= b
    BY <1>1, <1>2, <1>3 DEF Holds
  <2>2. b \in times
    BY <1>1, <1>2, <1>3 DEF Holds
  <2> HIDE DEF times
  <2>3. Max(times) = b
    BY <2>1, <2>2, MaxIs
  <2> QED BY <2>3 DEF times
<1>5. InitAccepts(store, m.data, version)
  <2>1. CASE b = 0
    <3>1. Holds(m.data) = {}
      BY <2>1, <1>1, <1>2 DEF Holds
    <3>2. \A i \in Items : store.items[i].time <= 0 /\ store.items[i].time \in Nat
      BY DEF Sound, Store, Item
    <3>3. Holds(store.items) = {}
      BY <3>2 DEF Holds
    <3> QED BY <2>1, <3>1, <3>3, <1>4 DEF InitAccepts
  <2>2. CASE b # 0
    BY <2>2, <1>3, <1>4 DEF InitAccepts
  <2> QED BY <2>1, <2>2
<1> QED BY <1>1, <1>4, <1>5 DEF AfterInit

(* DataStorage.upsert accepts each item of a patch that leads on, and the    *)
(* store has the server's data of that moment then.                          *)
LEMMA PatchTakes ==
  ASSUME log \in Log, IsCopy, NEW b \in store.version..Len(log),
         NEW data, data = Master!AsOf(log, b),
         NEW keys, keys = {i \in Items : data[i].time > store.version},
         NEW m, m = PatchMessage(keys, data)
  PROVE  /\ m.keys = keys /\ \A i \in keys : UpsertAccepts(store, i, m.data[i])
         /\ AfterUpserts(store, m.data, keys).version = b
         /\ AfterUpserts(store, m.data, keys).items = data
<1>1. m.data = Only(keys, data) /\ m.keys = keys
  BY DEF PatchMessage
<1>2. store.version \in Nat /\ b \in Nat /\ store.version <= b /\ b \in 0..Len(log)
      /\ store.version \in 0..Len(log) /\ store.items = Master!AsOf(log, store.version)
  BY DEF IsCopy, Log
<1>3. /\ data \in [Items -> Item]
      /\ \A i \in Items : data[i].time \in Nat /\ data[i].time <= b
      /\ b # 0 => \E i \in Items : data[i].time = b
  BY <1>2, TimesAt
<1>4. \A i \in Items : store.items[i].time \in Nat /\ store.items[i].time <= store.version
  <2>1. PICK items : items = Master!AsOf(log, store.version)
    OBVIOUS
  <2>2. \A i \in Items : items[i].time \in Nat /\ items[i].time <= store.version
    BY <1>2, <2>1, TimesAt
  <2> QED BY <1>2, <2>1, <2>2
<1>5. \A i \in keys : m.data[i] = data[i]
  BY <1>1 DEF Only
<1>6. \A i \in keys : UpsertAccepts(store, i, m.data[i])
  BY <1>2, <1>3, <1>4, <1>5 DEF UpsertAccepts
<1>7. VersionAfter(store, m.data, keys) = b
  <2> DEFINE times == {store.version} \cup {m.data[i].time : i \in keys}
  <2>1. times \in SUBSET Nat /\ \A t \in times : t <= b
    BY <1>2, <1>3, <1>5
  <2>2. b \in times
    <3>1. CASE b = store.version
      BY <3>1
    <3>2. CASE b # store.version
      <4>1. PICK i \in Items : data[i].time = b
        BY <3>2, <1>2, <1>3
      <4>2. i \in keys
        BY <4>1, <3>2, <1>2
      <4> QED BY <4>1, <4>2, <1>5
    <3> QED BY <3>1, <3>2
  <2> HIDE DEF times
  <2>3. Max(times) = b
    BY <2>1, <2>2, MaxIs
  <2> QED BY <2>3 DEF times, VersionAfter
<1>8. [i \in Items |-> IF i \in keys THEN m.data[i] ELSE store.items[i]] = data
  <2>1. ASSUME NEW i \in Items
        PROVE  (IF i \in keys THEN m.data[i] ELSE store.items[i]) = data[i]
    <3>1. CASE i \in keys
      BY <3>1, <1>5
    <3>2. CASE i \notin keys
      <4>1. Master!AsOf(log, b)[i].time <= store.version
        BY <3>2, <1>2, <1>3
      <4>2. Master!AsOf(log, store.version)[i] = Master!AsOf(log, b)[i]
        BY <1>2, <4>1, Unchanged
      <4> QED BY <3>2, <4>2, <1>2
    <3> QED BY <3>1, <3>2
  <2> QED BY <2>1, <1>3
<1> QED BY <1>1, <1>6, <1>7, <1>8 DEF AfterUpserts

-----------------------------------------------------------------------------
(* The steps *)

(* A step of Replica, or none. *)
MasterStep == Master!Next \/ UNCHANGED Master!vars

(* Nothing of what a copy is made of changes.                                *)
LEMMA CopyStays ==
  ASSUME IsCopy, UNCHANGED <<log, store>>
  PROVE  /\ (store.version \in 0..Len(log))' /\ (store.items = Master!AsOf(log, store.version))'
         /\ MasterStep
BY DEF IsCopy, MasterStep, Master!vars

(* A change at the server, pushed when the client was answered.              *)
LEMMA ServerChangesCopies ==
  ASSUME Undisturbed, IInv, IsCopy, NEW i \in Items, NEW archived \in BOOLEAN,
         ServerChanges(i, archived)
  PROVE  IsCopy' /\ MasterStep
<1> DEFINE change == [item |-> i, archived |-> archived]
<1>1. /\ log \in Log /\ change \in [item : Items, archived : BOOLEAN] /\ change.item = i
      /\ log' = Append(log, change)
      /\ UNCHANGED <<link, asked, store>>
  BY DEF IInv, TypeOK, Log, ServerChanges, clientVars
<1> HIDE DEF change
<1>2. /\ log' \in Log /\ Len(log') = Len(log) + 1 /\ Len(log) \in Nat
      /\ \A k \in 1..Len(log) : log'[k] = log[k]
  BY <1>1, AppendProperties, LenProperties DEF Log
<1>3. store.version \in 0..Len(log) /\ store.version \in 0..Len(log')
      /\ store.items = Master!AsOf(log, store.version)
  BY <1>2 DEF IsCopy
<1>4. Master!AsOf(log', store.version) = Master!AsOf(log, store.version)
  BY <1>1, <1>2, <1>3, PastStays
<1>5. ChannelLeads'
  <2>1. CASE link = "up"
    <3>1. PICK m : m = PatchMessage({i}, Data')
      OBVIOUS
    <3>2. channel' = Append(channel, m)
      BY <2>1, <3>1 DEF ServerChanges, Pushes
    <3>3. m = PatchMessage({change.item}, Master!AsOf(log', Len(log')))
      BY <1>1, <3>1 DEF Data
    <3>4. m \in Message
      <4>1. PICK data : data = Master!AsOf(log', Len(log'))
        OBVIOUS
      <4>2. data \in [Items -> Item]
        BY <1>2, <4>1, DataType
      <4>3. Only({i}, data) \in [Items -> Item]
        BY <4>2 DEF Only, Absent, Item
      <4> QED BY <4>1, <4>3, <3>3, <1>1 DEF PatchMessage, Message
    <3>5. Chain(log, channel, store.version) /\ channel \in Seq(Message)
      BY <2>1 DEF IsCopy, ChannelLeads, IInv, TypeOK
    <3>6. Chain(log', Append(channel, m), store.version)
      BY <1>1, <1>3, <3>3, <3>4, <3>5, ChainExtends
    <3> QED BY <1>1, <2>1, <3>2, <3>6 DEF ChannelLeads
  <2>2. CASE link # "up"
    <3>1. channel' = channel
      BY <2>2 DEF ServerChanges, Pushes, Undisturbed
    <3> QED BY <1>1, <2>2, <3>1 DEF IsCopy, ChannelLeads
  <2> QED BY <2>1, <2>2
<1>6. IsCopy'
  BY <1>1, <1>3, <1>4, <1>5 DEF IsCopy
<1>7. Master!Change(i, archived)
  BY <1>1 DEF Master!Change, change
<1> QED BY <1>6, <1>7 DEF MasterStep, Master!Next

(* The answer to a request.                                                  *)
LEMMA ServerAnswersCopies ==
  ASSUME Undisturbed, IInv, IInv', IsCopy, ServerAnswers
  PROVE  IsCopy' /\ MasterStep
<1>1. link = "asking" /\ link' = "up" /\ UNCHANGED <<log, store>>
      /\ channel = <<>> /\ asked = store.version /\ log \in Log
  BY DEF ServerAnswers, clientVars, IsCopy, ChannelLeads, IInv, TypeOK, Log
<1>2. PICK m : m = Reply(asked, Len(log))
  OBVIOUS
<1>3. channel' = <<m>>
  BY <1>1, <1>2 DEF ServerAnswers, Undisturbed
<1>4. m \in Message
  <2>1. channel' \in Seq(Message) /\ Len(channel') = 1 /\ channel'[1] = m
    BY <1>3 DEF IInv, TypeOK
  <2> QED BY <2>1, ElementOfSeq
<1>5. store.version \in 0..Len(log)
  BY DEF IsCopy
<1>6. Leads(log, m, store.version, Len(log))
  BY <1>1, <1>2 DEF Leads, Reply
<1>7. Chain(log, <<m>>, store.version)
  BY <1>1, <1>4, <1>5, <1>6, ChainBegins
<1>8. ChannelLeads'
  BY <1>1, <1>3, <1>7 DEF ChannelLeads
<1> QED BY <1>1, <1>8, CopyStays DEF IsCopy

(* A connection begins or ends.                                              *)
LEMMA ConnectionCopies ==
  ASSUME IsCopy, Connect \/ ConnectionLost
  PROVE  IsCopy' /\ MasterStep
<1>1. UNCHANGED <<log, store>>
  BY DEF Connect, ConnectionLost, clientVars
<1>2. ChannelLeads'
  BY <1>1 DEF Connect, ConnectionLost, ChannelLeads, AskedFrom
<1> QED BY <1>1, <1>2, CopyStays DEF IsCopy

(* A message that leads to moment b has been taken.                          *)
LEMMA TakenCopies ==
  ASSUME IInv, IsCopy, MessageArrives, link = "up", NEW b \in store.version..Len(log),
         Chain(log, Tail(channel), b), NEW new, new.version = b,
         new.items = Master!AsOf(log, b), DataTaken(new), log' = log
  PROVE  IsCopy' /\ MasterStep
<1>1. store' = new
  BY DEF DataTaken
<1>2. store.version \in Nat /\ Len(log) \in Nat /\ b \in 0..Len(log)
  BY DEF IsCopy, IInv, TypeOK
<1>3. ChannelLeads'
  <2>1. CASE channel' = Tail(channel) /\ link' = link
    BY <1>1, <2>1 DEF ChannelLeads
  <2>2. CASE link' = "down"
    BY <2>2 DEF ChannelLeads
  <2> QED BY <2>1, <2>2 DEF DataTaken
<1>4. IsCopy'
  BY <1>1, <1>2, <1>3 DEF IsCopy
<1>5. Master!CatchUp
  BY <1>1 DEF Master!CatchUp
<1> QED BY <1>4, <1>5 DEF MasterStep, Master!Next

(* There is a link to take when a message arrives.                           *)
LEMMA NextMoment ==
  ASSUME IInv, IsCopy, MessageArrives
  PROVE  link = "up" /\ \E b \in store.version..Len(log) :
           Leads(log, msg, store.version, b) /\ Chain(log, Tail(channel), b)
<1>1. link = "up"
  BY DEF IsCopy, ChannelLeads, MessageArrives, IInv, TypeOK
<1>2. log \in Log /\ channel \in Seq(Message) /\ channel # <<>>
      /\ store.version \in 0..Len(log) /\ Chain(log, channel, store.version)
  BY <1>1 DEF IsCopy, ChannelLeads, MessageArrives, IInv, TypeOK, Log
<1> QED BY <1>1, <1>2, ChainAdvances DEF msg

(* A handler took the message: the store is a copy of moment b then, and an  *)
(* item that was not in the message is not in the store (a full answer) or   *)
(* as it was (a patch).                                                      *)
Takes(new, b) ==
  /\ link = "up" /\ MessageArrives /\ log' = log
  /\ b \in store.version..Len(log) /\ Chain(log, Tail(channel), b)
  /\ new.version = b /\ new.items = Master!AsOf(log, b)
  /\ DataTaken(new)
  /\ \A i \in msg.keys : i \in Items /\ msg.data[i] = new.items[i]
  /\ \/ \A i \in Items \ msg.keys : new.items[i].time = 0
     \/ \A i \in Items \ msg.keys : new.items[i] = store.items[i]

(* _on_process_data on a full message never refuses it.                      *)
LEMMA FullIsTaken ==
  ASSUME Undisturbed, IInv, IsCopy, HandleFull
  PROVE  \E new, b : Takes(new, b)
<1> DEFINE version == Max({0} \cup {msg.data[i].time : i \in msg.keys})
           new == AfterInit(msg.data, version)
<1>1. MessageArrives /\ msg.type = "full" /\ log' = log /\ log \in Log /\ Sound(log, store)
      /\ store.version \in 0..Len(log) /\ Len(log) \in Nat
  BY DEF HandleFull, IInv, IsCopy, TypeOK, Log
<1>2. PICK b \in store.version..Len(log) :
        Leads(log, msg, store.version, b) /\ Chain(log, Tail(channel), b)
  BY <1>1, NextMoment
<1>3. PICK data : data = Master!AsOf(log, b)
  OBVIOUS
<1>4. store.version = 0 /\ msg = FullMessage(data)
  BY <1>1, <1>2, <1>3 DEF Leads, PatchMessage
<1>5. b \in 0..Len(log)
  BY <1>1, <1>2
<1>6. InitAccepts(store, msg.data, version) /\ new.version = b /\ new.items = data
  BY <1>1, <1>3, <1>4, <1>5, FullTakes
<1>7. ~StorageRaises
  BY DEF StorageRaises, Undisturbed, IInv, TypeOK
<1>8. DataTaken(new)
  BY <1>6, <1>7 DEF HandleFull
<1>9. link = "up"
  BY <1>1, NextMoment
<1>10. \A i \in Items : data[i].time \in Nat
  BY <1>1, <1>3, <1>5, TimesAt
<1> HIDE DEF new
<1>11. msg.data = data /\ msg.keys = Holds(data)
  BY <1>4 DEF FullMessage
<1>12. /\ \A i \in msg.keys : i \in Items /\ msg.data[i] = new.items[i]
       /\ \A i \in Items \ msg.keys : new.items[i].time = 0
  BY <1>6, <1>10, <1>11 DEF Holds
<1> QED BY <1>1, <1>2, <1>3, <1>6, <1>8, <1>9, <1>12 DEF Takes

(* _on_process_data on a patch takes it as a whole.                          *)
LEMMA PatchIsTaken ==
  ASSUME Undisturbed, IInv, IsCopy, HandlePatch
  PROVE  \E new, b : Takes(new, b)
<1>1. MessageArrives /\ msg.type = "patch" /\ log' = log /\ log \in Log
  BY DEF HandlePatch, IInv, TypeOK, Log
<1>2. PICK b \in store.version..Len(log) :
        Leads(log, msg, store.version, b) /\ Chain(log, Tail(channel), b)
  BY <1>1, NextMoment
<1>3. PICK data : data = Master!AsOf(log, b)
  OBVIOUS
<1>4. PICK keys : keys = {i \in Items : data[i].time > store.version}
  OBVIOUS
<1>5. msg = PatchMessage(keys, data)
  BY <1>1, <1>2, <1>3, <1>4 DEF Leads, FullMessage
<1> DEFINE new == AfterUpserts(store, msg.data, keys)
<1>6. /\ msg.keys = keys /\ \A i \in keys : UpsertAccepts(store, i, msg.data[i])
      /\ new.version = b /\ new.items = data
  BY <1>1, <1>3, <1>4, <1>5, PatchTakes
<1>7. ~StorageRaises
  BY DEF StorageRaises, Undisturbed, IInv, TypeOK
<1>8. \A i \in msg.keys : Accepts(i)
  BY <1>6 DEF Accepts
<1>9. DataTaken(new)
  BY <1>6, <1>7, <1>8 DEF HandlePatch
<1>10. link = "up"
  BY <1>1, NextMoment
<1>11. /\ \A i \in msg.keys : i \in Items /\ msg.data[i] = new.items[i]
       /\ \A i \in Items \ msg.keys : new.items[i] = store.items[i]
  BY <1>4, <1>6 DEF AfterUpserts
<1> HIDE DEF new
<1> QED BY <1>1, <1>2, <1>3, <1>6, <1>9, <1>10, <1>11 DEF Takes

LEMMA HandlersCopy ==
  ASSUME Undisturbed, IInv, IsCopy, HandleFull \/ HandlePatch
  PROVE  IsCopy' /\ MasterStep
<1>1. PICK new, b : Takes(new, b)
  BY FullIsTaken, PatchIsTaken
<1> QED BY <1>1, TakenCopies DEF Takes

-----------------------------------------------------------------------------
(* Announcements *)

NoneArchived == \A k \in 1..Len(log) : ~log[k].archived

LEMMA NotArchived ==
  ASSUME log \in Log, NoneArchived, NEW n \in 0..Len(log), NEW i \in Items
  PROVE  Master!AsOf(log, n)[i].archived = FALSE
<1>1. PICK mine : mine = Master!ChangesOf(log, i, n)
  OBVIOUS
<1>2. Master!AsOf(log, n)[i] =
         IF mine = {} THEN Absent
         ELSE [time |-> Max(mine), archived |-> log[Max(mine)].archived]
  BY <1>1, AsOfIs
<1>3. CASE mine = {}
  BY <1>2, <1>3 DEF Absent
<1>4. CASE mine # {}
  <2>1. Max(mine) \in 1..Len(log)
    <3>1. Max(mine) \in mine
      BY <1>1, <1>4, NewestChange
    <3>2. mine \subseteq 1..Len(log)
      BY <1>1 DEF Master!ChangesOf, Log
    <3> QED BY <3>1, <3>2
  <2>2. log[Max(mine)] \in [item : Items, archived : BOOLEAN]
    BY <2>1, ElementOfSeq DEF Log
  <2>3. log[Max(mine)].archived = FALSE
    BY <2>1, <2>2 DEF NoneArchived
  <2> QED BY <1>2, <1>4, <2>3
<1> QED BY <1>3, <1>4

(* A flag that is not announced, though it is stored, is the same, and so    *)
(* are the segments it names.                                                *)
LEMMA TakenIsAnnounced ==
  ASSUME IInv, IsCopy, NoneArchived, EveryChangeAnnounced, NEW new, NEW b, Takes(new, b)
  PROVE  EveryChangeAnnounced'
<1>1. /\ log \in Log /\ b \in 0..Len(log) /\ new.items = Master!AsOf(log, b)
      /\ told \in [Flags -> 0..MaxChanges] /\ store' = new
  BY DEF IInv, IsCopy, Takes, TypeOK, Log, DataTaken
<1>2. \A i \in Items : new.items[i].archived = FALSE
  BY <1>1, NotArchived
<1>3. WithoutCategory = {}
  BY <1>2 DEF WithoutCategory, Takes
<1>4. told' = [f \in Flags |->
                 IF f \in UNION {AnnouncedFor(new.items, i) : i \in msg.keys}
                   THEN Recency(new.items, f) ELSE told[f]]
  BY <1>3 DEF Takes, DataTaken, Broadcast
<1>5. ASSUME NEW f \in Flags, new.items[f].time > 0, NEW i \in {f} \cup Named(f)
      PROVE  told'[f] >= new.items[i].time
  <2>1. f \in Items /\ i \in Items /\ (i = f \/ (i \in Segments /\ f \in UsedBy[i]))
    BY DEF Items, Named
  <2>2. CASE f \in UNION {AnnouncedFor(new.items, j) : j \in msg.keys}
    <3>1. told'[f] = Recency(new.items, f)
      BY <1>4, <2>2
    <3>2. b \in Nat /\ \A j \in Items : new.items[j].time \in Nat /\ new.items[j].time <= b
      BY <1>1, TimesAt
    <3>3. Recency(new.items, f) \in Nat /\ new.items[i].time <= Recency(new.items, f)
      BY <3>2, RecencyIsLatest
    <3> QED BY <2>1, <3>1, <3>2, <3>3
  <2>3. CASE f \notin UNION {AnnouncedFor(new.items, j) : j \in msg.keys}
    <3>1. f \notin msg.keys
      BY <2>3 DEF AnnouncedFor
    <3>2. \A j \in Items \ msg.keys : new.items[j] = store.items[j]
      BY <1>5, <2>1, <3>1 DEF Takes
    <3>3. i \notin msg.keys
      <4>1. SUFFICES ASSUME i \in msg.keys PROVE FALSE
        OBVIOUS
      <4>2. i \in Segments /\ f \in UsedBy[i] /\ i \notin Flags
        BY <2>1, <3>1, <4>1, DataAssumption
      <4>3. f \in AnnouncedFor(new.items, i)
        BY <1>2, <1>5, <2>1, <4>2 DEF AnnouncedFor
      <4> QED BY <2>3, <4>1, <4>3
    <3>4. new.items[f] = store.items[f] /\ new.items[i] = store.items[i]
      BY <2>1, <3>1, <3>2, <3>3
    <3>5. told[f] >= store.items[i].time
      BY <1>5, <3>4 DEF EveryChangeAnnounced
    <3> QED BY <1>4, <2>3, <3>4, <3>5
  <2> QED BY <2>2, <2>3
<1> QED BY <1>1, <1>5 DEF EveryChangeAnnounced

(* Every step announces what it stores, when no item is ever archived.       *)
LEMMA AnnouncedStep ==
  ASSUME Undisturbed, ~Archiving, IInv, IsCopy, NoneArchived, EveryChangeAnnounced, [Next]_vars
  PROVE  NoneArchived' /\ EveryChangeAnnounced'
<1>1. CASE HandleFull \/ HandlePatch
  <2>1. PICK new, b : Takes(new, b)
    BY <1>1, FullIsTaken, PatchIsTaken
  <2>2. EveryChangeAnnounced'
    BY <2>1, TakenIsAnnounced
  <2> QED BY <2>1, <2>2 DEF NoneArchived, Takes
<1>2. CASE \E i \in Items, archived \in BOOLEAN : ServerChanges(i, archived)
  <2>1. PICK i \in Items, archived \in BOOLEAN : ServerChanges(i, archived)
    BY <1>2
  <2>2. /\ log \in Log /\ [item |-> i, archived |-> archived] \in [item : Items, archived : BOOLEAN]
        /\ log' = Append(log, [item |-> i, archived |-> archived]) /\ ~archived
        /\ UNCHANGED <<store, told>>
    BY <2>1 DEF ServerChanges, clientVars, IInv, TypeOK, Log
  <2>3. /\ Len(log') = Len(log) + 1 /\ Len(log) \in Nat
        /\ \A k \in 1..Len(log) : log'[k] = log[k]
        /\ log'[Len(log) + 1] = [item |-> i, archived |-> archived]
    BY <2>2, AppendProperties, LenProperties DEF Log
  <2>4. NoneArchived'
    BY <2>2, <2>3 DEF NoneArchived
  <2> QED BY <2>2, <2>4 DEF EveryChangeAnnounced
<1>3. CASE ServerAnswers \/ ConnectionLost \/ Connect \/ UNCHANGED vars
  <2>1. UNCHANGED <<log, store, told>>
    BY <1>3 DEF ServerAnswers, ConnectionLost, Connect, clientVars, vars, netVars
  <2> QED BY <2>1 DEF NoneArchived, EveryChangeAnnounced
<1> QED BY <1>1, <1>2, <1>3 DEF Next

-----------------------------------------------------------------------------
(* The theorems *)

(* Every step keeps the copy one, and is a step of Replica or none.          *)
LEMMA CopyStep ==
  ASSUME Undisturbed, IInv, IInv', IsCopy, [Next]_vars
  PROVE  IsCopy' /\ MasterStep
<1>1. CASE UNCHANGED vars
  <2>1. UNCHANGED <<log, store, link, channel, asked>>
    BY <1>1 DEF vars, netVars, clientVars
  <2>2. ChannelLeads'
    BY <2>1 DEF IsCopy, ChannelLeads
  <2> QED BY <2>1, <2>2, CopyStays DEF IsCopy
<1>2. CASE Next
  BY <1>2, ServerChangesCopies, ServerAnswersCopies, ConnectionCopies, HandlersCopy
     DEF Next
<1> QED BY <1>1, <1>2

(* An empty store is a copy of no data.                                      *)
LEMMA CopyInit ==
  ASSUME Init
  PROVE  IsCopy /\ Master!Init
<1>1. log = <<>> /\ Len(log) = 0 /\ log \in Log /\ link = "down" /\ store.version = 0
      /\ store.items = [i \in Items |-> Absent]
  BY EmptySeq DEF Init, EmptyStore, Log
<1>2. Master!AsOf(log, 0) = [i \in Items |-> Absent]
  <2>1. \A i \in Items : Master!ChangesOf(log, i, 0) = {}
    BY DEF Master!ChangesOf
  <2> QED BY <2>1 DEF Master!AsOf
<1> QED BY <1>1, <1>2 DEF IsCopy, ChannelLeads, Master!Init

(* The store is always a copy.                                               *)
LEMMA CopyInvariance ==
  ASSUME Undisturbed
  PROVE  Spec => [](IInv /\ IsCopy)
<1>1. Init => IInv /\ IsCopy
  BY InitKeeps, CopyInit
<1>2. IInv /\ IsCopy /\ [Next]_vars => (IInv /\ IsCopy)'
  BY StepKeeps, CopyStep
<1> QED BY <1>1, <1>2, PTL DEF Spec

(* What _on_open, _on_message and _on_process_data do with an undisturbed    *)
(* server's messages implements a replica: the store is always what the server *)
(* had at one moment, which only moves forward.                              *)
THEOREM SyncImplementsReplica ==
  ASSUME Undisturbed
  PROVE  Spec => ImplementsReplica
<1>1. Init => Master!Init
  BY CopyInit
<1>2. IInv /\ IsCopy /\ [Next]_vars => [Master!Next]_(Master!vars)
  BY StepKeeps, CopyStep DEF MasterStep
<1> QED BY <1>1, <1>2, CopyInvariance, PTL DEF Spec, ImplementsReplica, Master!Spec

(* Whatever the server changed at or before the version the client asks from *)
(* is in the client's store, as the server has it.                           *)
THEOREM CopyMissesNothing ==
  ASSUME Undisturbed
  PROVE  Spec => []NothingMissed
<1>1. ASSUME IInv, IsCopy PROVE NothingMissed
  <2>1. SUFFICES ASSUME NEW i \in Items, Data[i].time <= store.version
                 PROVE  store.items[i] = Data[i]
    BY DEF NothingMissed
  <2>2. log \in Log /\ store.version \in 0..Len(log) /\ Len(log) \in store.version..Len(log)
        /\ store.items = Master!AsOf(log, store.version)
    BY <1>1 DEF IInv, IsCopy, TypeOK, Log
  <2> QED BY <2>1, <2>2, Unchanged DEF Data
<1> QED BY <1>1, CopyInvariance, PTL

(* The flag listeners of every stored flag have been told since the latest   *)
(* stored change of the flag and of each segment its rules name, as long as  *)
(* no item is archived: _on_process_data broadcasts for those, though not    *)
(* for the segments the flag reaches only through others.                    *)
THEOREM ChangesAreAnnounced ==
  ASSUME Undisturbed, ~Archiving
  PROVE  Spec => []EveryChangeAnnounced
<1>1. Init => NoneArchived /\ EveryChangeAnnounced
  <2>1. SUFFICES ASSUME Init PROVE NoneArchived /\ EveryChangeAnnounced
    OBVIOUS
  <2>2. Len(log) = 0
    BY <2>1, EmptySeq DEF Init
  <2>3. \A f \in Flags : store.items[f].time = 0
    BY <2>1 DEF Init, EmptyStore, Absent, Items
  <2> QED BY <2>2, <2>3 DEF NoneArchived, EveryChangeAnnounced
<1>2. /\ IInv /\ IsCopy /\ NoneArchived /\ EveryChangeAnnounced /\ [Next]_vars
      => (NoneArchived /\ EveryChangeAnnounced)'
  BY AnnouncedStep
<1> QED BY <1>1, <1>2, CopyInvariance, PTL DEF Spec
=============================================================================

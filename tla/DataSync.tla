------------------------------ MODULE DataSync ------------------------------
(***************************************************************************)
(* Data synchronisation: the messages of the streaming connection, what    *)
(* Streaming._on_open, _on_message and _on_process_data                    *)
(* (fbclient/streaming.py) make of them, the store they fill               *)
(* (DataStorage), the status they report (StatusTypes) and the notices of  *)
(* changed flags they broadcast.                                           *)
(*                                                                         *)
(* The server is not part of the repository.  It is modelled from what     *)
(* the client relies on: every change has a time stamp of its own, larger  *)
(* than those before; it answers a data-sync request with all its items    *)
(* when the client asks from 0, else with those changed after the time     *)
(* asked; it pushes a change to a client it has answered; a connection     *)
(* delivers in order.  With EarlyPush it may push before it answers, and   *)
(* answer with data read before a change it has pushed.                    *)
(*                                                                         *)
(* The callbacks of one connection run one at a time, on the streaming     *)
(* thread, so a message is handled in one step here.  The threads around   *)
(* them are the subject of module Streaming.                               *)
(***************************************************************************)
EXTENDS StatusTypes, Integers, Sequences

CONSTANTS
  Flags, Segments,
  UsedBy,         \* UsedBy[s]: the flags with a rule on segment s
  NestedIn,       \* NestedIn[s]: the segments with a rule on segment s
  MaxChanges,     \* bound: changes at the server
  MaxLosses,      \* bound: connections lost
  MaxFailures,    \* bound: exceptions raised by a (custom) data storage
  Archiving,      \* whether items are archived at the server
  EarlyPush       \* whether the server pushes before it has answered

Items == Flags \cup Segments

INSTANCE DataStorage

ASSUME DataAssumption ==
  /\ Flags \cap Segments = {}
  /\ UsedBy \in [Segments -> SUBSET Flags]
  /\ NestedIn \in [Segments -> SUBSET Segments]
  /\ MaxChanges \in Nat /\ MaxLosses \in Nat /\ MaxFailures \in Nat
  /\ Archiving \in BOOLEAN /\ EarlyPush \in BOOLEAN

VARIABLES
  log,          \* the server's changes; change n has time stamp n
  link,         \* the connection: down, asking (request sent), up (answered)
  asked,        \* the time stamp in the client's last data-sync request
  askedAt,      \* the length of the log when it was made
  channel,      \* messages on their way to the client
  store,        \* the client's data storage
  status,       \* the provider's current state
  ready,        \* the event that lets the client's constructor go on
  streaming,    \* the streaming thread will connect again
  told,         \* told[f]: how recent a change of f its last notice was about
  losses,
  failures

netVars == <<link, asked, askedAt, channel>>
clientVars == <<store, status, ready, streaming, told>>
vars == <<log, netVars, clientVars, losses, failures>>

Master == INSTANCE Replica WITH upto <- store.version, copy <- store.items

(* The server's data. *)
Data == Master!AsOf(log, Len(log))

(* A message carries an item for each element of its set of keys. *)
Message == [type : {"full", "patch"}, keys : SUBSET Items, data : [Items -> Item]]

TypeOK ==
  /\ log \in Seq([item : Items, archived : BOOLEAN]) /\ Len(log) <= MaxChanges
  /\ link \in {"down", "asking", "up"}
  /\ asked \in 0..MaxChanges /\ askedAt \in 0..MaxChanges
  /\ channel \in Seq(Message)
  /\ store \in Store
  /\ status \in State
  /\ ready \in BOOLEAN
  /\ streaming \in BOOLEAN
  /\ told \in [Flags -> 0..MaxChanges]
  /\ losses \in 0..MaxLosses
  /\ failures \in 0..MaxFailures

Init ==
  /\ log = <<>>
  /\ link = "down"
  /\ asked = 0
  /\ askedAt = 0
  /\ channel = <<>>
  /\ store = EmptyStore
  /\ status = IntializingState
  /\ ready = FALSE
  /\ streaming = TRUE
  /\ told = [f \in Flags |-> 0]
  /\ losses = 0
  /\ failures = 0

-----------------------------------------------------------------------------
(* The server and the network *)

Only(keys, data) == [i \in Items |-> IF i \in keys THEN data[i] ELSE Absent]

FullMessage(data) ==
  [type |-> "full", keys |-> Holds(data), data |-> data]

PatchMessage(keys, data) ==
  [type |-> "patch", keys |-> keys, data |-> Only(keys, data)]

(* The answer to a client that asks from t, from the data after n changes. *)
Reply(t, n) ==
  LET data == Master!AsOf(log, n)
  IN  IF t = 0 THEN FullMessage(data)
      ELSE PatchMessage({i \in Items : data[i].time > t}, data)

Pushes == link = "up" \/ (link = "asking" /\ EarlyPush)

ServerChanges(i, archived) ==
  /\ Len(log) < MaxChanges
  /\ archived => Archiving
  /\ log' = Append(log, [item |-> i, archived |-> archived])
  /\ channel' = IF Pushes THEN Append(channel, PatchMessage({i}, Data')) ELSE channel
  /\ UNCHANGED <<link, asked, askedAt, clientVars, losses, failures>>

ServerAnswers ==
  /\ link = "asking"
  /\ \E n \in askedAt..Len(log) :
       /\ ~EarlyPush => n = Len(log)
       /\ channel' = Append(channel, Reply(asked, n))
  /\ link' = "up"
  /\ UNCHANGED <<log, asked, askedAt, clientVars, losses, failures>>

(* The connection fails, or the server closes it with an unknown code:       *)
(* _on_error or _on_close report the interruption and the loop goes on.      *)
ConnectionLost ==
  /\ link # "down"
  /\ losses < MaxLosses
  /\ losses' = losses + 1
  /\ link' = "down"
  /\ channel' = <<>>
  /\ status' = AfterUpdate(status, InterruptedState)
  /\ UNCHANGED <<log, asked, askedAt, store, ready, streaming, told, failures>>

-----------------------------------------------------------------------------
(* The client *)

AskPastNewest == store.version + 1    \* mutant of AskedFrom: the next one is skipped

AskedFrom == store.version

(* run connects; _on_open asks for what is newer than the stored data. *)
Connect ==
  /\ streaming
  /\ link = "down"
  /\ link' = "asking"
  /\ asked' = AskedFrom
  /\ askedAt' = Len(log)
  /\ channel' = <<>>
  /\ UNCHANGED <<log, clientVars, losses, failures>>

msg == Head(channel)

MessageArrives == link # "down" /\ channel # <<>>

(* The order of the items of a message: flags before segments, and in each   *)
(* kind by time stamp.                                                       *)
Before(i, j) ==
  \/ i \in Flags /\ j \in Segments
  \/ /\ {i, j} \subseteq Flags \/ {i, j} \subseteq Segments
     /\ msg.data[i].time < msg.data[j].time

Accepts(i) == UpsertAccepts(store, i, msg.data[i])

(* The items dealt with before the loop over the items stops at `stop'. *)
UpTo(stop) == {i \in msg.keys : Before(i, stop)}

(* The segments that the rules of flag f name, and all that evaluating it    *)
(* reaches: those that a reached segment names are reached.                  *)
Named(f) == {s \in Segments : f \in UsedBy[s]}

ClosedUnderNesting(S) == \A s \in Segments : NestedIn[s] \cap S # {} => s \in S

Reached(f) ==
  {s \in Segments : \A S \in SUBSET Segments :
     Named(f) \subseteq S /\ ClosedUnderNesting(S) => s \in S}

(* How recent the newest change is that flag f depends on: a listener that   *)
(* evaluates f now sees it.                                                  *)
Recency(items, f) ==
  Max({items[f].time} \cup {items[s].time : s \in Reached(f)})

(* Mutant of AnnouncedFor: segments are forgotten. *)
AnnouncedItself(items, i) == {i} \cap Flags

(* The flags to be announced for item i, given the store after the update:   *)
(* the flag itself, or the flags, not archived, with a rule on the segment.  *)
(* A flag that reaches it through another segment only is not announced.     *)
AnnouncedFor(items, i) ==
  IF i \in Flags THEN {i}
  ELSE {f \in UsedBy[i] : items[f].time > 0 /\ ~items[f].archived}

Broadcast(items, keys) ==
  told' = [f \in Flags |->
             IF f \in UNION {AnnouncedFor(items, i) : i \in keys}
               THEN Recency(items, f) ELSE told[f]]

(* The items that broadcasting stumbles over: _data_to_dict replaces an      *)
(* archived item by a placeholder that has no category.                      *)
WithoutCategory == {i \in msg.keys : msg.data[i].archived}

(* _on_process_data after a successful update.  A KeyError while it          *)
(* announces the changes makes _on_message close the connection for good.    *)
DataTaken(new) ==
  /\ store' = new
  /\ ready' = TRUE
  /\ \/ /\ WithoutCategory = {}
        /\ Broadcast(new.items, msg.keys)
        /\ status' = AfterUpdate(status, OkState)
        /\ channel' = Tail(channel)
        /\ UNCHANGED <<link, streaming>>
     \/ /\ \E i \in WithoutCategory :
             /\ \A j \in WithoutCategory : ~Before(j, i)
             /\ Broadcast(new.items, UpTo(i))
        /\ status' = AfterUpdate(AfterUpdate(status, OkState), ErrorOffState)
        /\ streaming' = FALSE
        /\ link' = "down"
        /\ channel' = <<>>

GiveUpOnReject == FALSE    \* mutant of ReconnectOnReject: is_reconn left at its default

ReconnectOnReject == TRUE

(* ... and after an unsuccessful one: the connection is closed, to be opened *)
(* again.                                                                    *)
DataRefused(new, state) ==
  /\ store' = new
  /\ status' = state
  /\ link' = "down"
  /\ channel' = <<>>
  /\ streaming' = ReconnectOnReject
  /\ UNCHANGED <<ready, told>>

StorageRaises ==
  /\ failures < MaxFailures
  /\ failures' = failures + 1

HandleFull ==
  /\ MessageArrives
  /\ msg.type = "full"
  /\ LET version == Max({0} \cup {msg.data[i].time : i \in msg.keys})
     IN  \/ /\ InitAccepts(store, msg.data, version)
            /\ DataTaken(AfterInit(msg.data, version))
            /\ UNCHANGED failures
         \/ /\ ~InitAccepts(store, msg.data, version)
            /\ DataRefused(store, status)
            /\ UNCHANGED failures
         \/ /\ StorageRaises
            /\ DataRefused(store, AfterUpdate(status, InterruptedState))
  /\ UNCHANGED <<log, asked, askedAt, losses>>

(* all(upsert ...) ends at the first item that is refused or raises; the     *)
(* items before it are stored.                                               *)
HandlePatch ==
  /\ MessageArrives
  /\ msg.type = "patch"
  /\ \/ /\ \A i \in msg.keys : Accepts(i)
        /\ DataTaken(AfterUpserts(store, msg.data, msg.keys))
        /\ UNCHANGED failures
     \/ \E stop \in msg.keys :
          /\ \A i \in UpTo(stop) : Accepts(i)
          /\ \/ /\ ~Accepts(stop)
                /\ DataRefused(AfterUpserts(store, msg.data, UpTo(stop)), status)
                /\ UNCHANGED failures
             \/ /\ StorageRaises
                /\ DataRefused(AfterUpserts(store, msg.data, UpTo(stop)),
                               AfterUpdate(status, InterruptedState))
  /\ UNCHANGED <<log, asked, askedAt, losses>>

-----------------------------------------------------------------------------

Next ==
  \/ \E i \in Items, archived \in BOOLEAN : ServerChanges(i, archived)
  \/ ServerAnswers
  \/ ConnectionLost
  \/ Connect
  \/ HandleFull
  \/ HandlePatch

Spec == Init /\ [][Next]_vars

(* The client connects again when it may, the server answers and messages    *)
(* arrive, as long as the connection lasts; losses are bounded.              *)
Fairness ==
  /\ WF_vars(Connect)
  /\ WF_vars(ServerAnswers)
  /\ WF_vars(HandleFull)
  /\ WF_vars(HandlePatch)

FairSpec == Spec /\ Fairness

-----------------------------------------------------------------------------
(* Properties *)

(* The version the client asks from is the highest time stamp it stores.     *)
HighWater ==
  store.version = Max({0} \cup {store.items[i].time : i \in Items})

(* No message, be it late, repeated or a whole snapshot, replaces an item by *)
(* an older one or takes it away.                                            *)
NeverOlder ==
  [][\A i \in Items : store'.items[i].time >= store.items[i].time]_vars

(* OK and ready are only reported on data: not before the store has some,    *)
(* and the thread that would bring them is only gone in state OFF.           *)
ReportedTruly ==
  /\ status.type \in {"OK", "INTERRUPTED"} => store.initialized
  /\ ready => store.initialized
  /\ ~streaming <=> status.type = "OFF"

(* What the client has is what the server had: at all times its data are     *)
(* the server's as they were at the time stamp of the client's version.      *)
ImplementsReplica == Master!Spec

(* Whatever lies at or below the version the client asks from, the client    *)
(* has: nothing that a later request leaves out is missing.                  *)
NothingMissed ==
  \A i \in Items : Data[i].time <= store.version => store.items[i] = Data[i]

(* The listeners of a flag were told since the latest stored change of the   *)
(* flag itself and of each segment that its rules name.  (Not so for the     *)
(* segments it reaches only through those: broacasting announces nobody for  *)
(* their changes, although the flag's value depends on them.)                *)
EveryChangeAnnounced ==
  \A f \in Flags : store.items[f].time > 0 =>
    \A i \in {f} \cup Named(f) : told[f] >= store.items[i].time

(* Valid data never end the streaming.                                       *)
StreamingSurvives == streaming

(* The client eventually has, for good, what the server has, and says OK.    *)
Converges == <>[](store.items = Data /\ status.type = "OK")

=============================================================================

---------------------------- MODULE FlagTracker ----------------------------
(***************************************************************************)
(* FlagTracker and its listeners (fbclient/flag_change_notification.py) on *)
(* top of the broadcaster: the streaming thread stores the items of a      *)
(* message, which changes what flags are worth, and then announces changed *)
(* flags one by one; a FlagValueChangedListener compares the value it      *)
(* knows with the present one, and calls the application's function when   *)
(* they differ.  Not every change is announced: not that of a segment a    *)
(* flag reaches only through another, nor what an archived item changes,   *)
(* nor the items of a message that fails half-way.  What a flag is worth   *)
(* for the listener's user is one value here; how it is computed is the    *)
(* subject of module Evaluation.                                           *)
(***************************************************************************)
EXTENDS NoticeBroadcaster

CONSTANTS
  Values,         \* Values[k]: what flag k may be worth
  KeyOf,          \* KeyOf[l]: the flag of listener l
  MaybeListeners, \* the FlagValueMaybeChangedListeners among the listeners
  MaxItems        \* bound: how often the streaming thread stores something

ASSUME TrackerAssumption ==
  /\ KeyOf \in [Listeners -> Keys]
  /\ MaybeListeners \subseteq Listeners
  /\ MaxItems \in Nat

VARIABLES
  value,        \* value[k]: what evaluating flag k gives
  stored,       \* flags the present message has changed, to be announced after it
  archived,     \* the present message has an archived item
  toAnnounce,   \* flags of a message that was taken, not announced yet
  streaming,    \* the streaming thread goes on to the next message
  created,      \* listeners that were constructed
  previous,     \* previous[l]: __prvious_flag_value, or what l was told last
  current,      \* what the listener being called has evaluated
  telling,      \* the application's function is being called
  missed,       \* history: listeners that a change was not told, and none since
  items

messageVars == <<stored, archived, toAnnounce, streaming>>
trackerVars == <<created, previous, current, telling>>
storeVars == <<value, messageVars, items>>
vars == <<broadcasterVars, trackerVars, storeVars, missed>>

NoValue == "none"    \* the flag is not known, or archived

Worth == {NoValue} \cup UNION {Values[k] : k \in Keys}

TypeOK ==
  /\ BroadcasterTypeOK
  /\ value \in [Keys -> Worth]
  /\ stored \in SUBSET Keys
  /\ archived \in BOOLEAN
  /\ toAnnounce \in SUBSET Keys
  /\ streaming \in BOOLEAN
  /\ created \in SUBSET Listeners
  /\ previous \in [Listeners -> Worth]
  /\ current \in Worth
  /\ telling \in BOOLEAN
  /\ missed \in SUBSET Listeners
  /\ items \in 0..MaxItems

Init ==
  /\ BroadcasterInit
  /\ value = [k \in Keys |-> NoValue]
  /\ stored = {}
  /\ archived = FALSE
  /\ toAnnounce = {}
  /\ streaming = TRUE
  /\ created = {}
  /\ previous = [l \in Listeners |-> NoValue]
  /\ current = NoValue
  /\ telling = FALSE
  /\ missed = {}
  /\ items = 0

-----------------------------------------------------------------------------
(* A notice for l's flag is still to come to the listeners ... *)
NoticeToCome(l) ==
  \/ KeyOf[l] \in stored \cup toAnnounce /\ ~closed
  \/ Contains(queue, KeyOf[l])
  \/ pc = "look" /\ notice = KeyOf[l]

(* ... or the thread will call l with one. *)
Coming(l) == NoticeToCome(l) \/ (notice = KeyOf[l] /\ Contains(toCall, l))

(* These listeners are not told of a change; after a stop nobody is.         *)
Miss(ls) == missed' = IF closed THEN missed ELSE missed \cup ls

(* That these flags have changed is not announced, now or later.             *)
Unannounced(keys) == Miss({l \in Listeners : KeyOf[l] \in keys /\ ~Coming(l)'})

-----------------------------------------------------------------------------
(* The streaming thread, see _on_process_data *)

Known == {k \in Keys : value[k] # NoValue}

(* An item of a message, or all of a snapshot, is stored: flags and segments *)
(* that the rules of flags name, whose change is announced after the         *)
(* message, and with them what is not: segments that flags reach only        *)
(* through others, and archived items, of which the flags vanish.  That a    *)
(* flag depends on it need not change its value.                             *)
StoreItems(named, silent, archives) ==
  /\ streaming
  /\ toAnnounce = {}
  /\ items < MaxItems
  /\ items' = items + 1
  /\ named \cup silent # {} /\ named \cap silent = {} /\ silent \subseteq Known
  /\ value' \in [Keys -> Worth]
  /\ \A k \in Keys :
       value'[k] \in IF k \in named THEN Values[k]
                    ELSE IF k \in silent
                      THEN Values[k] \cup (IF archives THEN {NoValue} ELSE {})
                    ELSE {value[k]}
  /\ stored' = stored \cup named
  /\ archived' = (archived \/ archives)
  /\ UNCHANGED <<toAnnounce, streaming, broadcasterVars, trackerVars>>
  /\ Unannounced(silent)

MessageStored == stored # {} \/ archived

(* All items were accepted.  Broadcasting stumbles over an archived one,     *)
(* which ends the streaming for good; only the flags before it are           *)
(* announced.                                                                *)
Taken ==
  /\ MessageStored
  /\ \/ ~archived /\ toAnnounce' = stored /\ UNCHANGED streaming
     \/ archived /\ toAnnounce' \in SUBSET stored /\ streaming' = FALSE
  /\ stored' = {}
  /\ archived' = FALSE
  /\ UNCHANGED <<value, items, broadcasterVars, trackerVars>>
  /\ Unannounced(stored \ toAnnounce')

(* The next item was refused, or storing it raised: nothing is announced.    *)
Refused ==
  /\ MessageStored
  /\ stored' = {}
  /\ archived' = FALSE
  /\ UNCHANGED <<value, items, toAnnounce, streaming, broadcasterVars, trackerVars>>
  /\ Unannounced(stored)

Announced(k) == missed' = IF Accepts THEN {l \in missed : KeyOf[l] # k} ELSE missed

(* Mutant of Announce: only one flag of a message is announced. *)
AnnounceOne(k) ==
  /\ k \in toAnnounce
  /\ toAnnounce' = {}
  /\ Broadcast(k)
  /\ Announced(k)
  /\ UNCHANGED <<value, stored, archived, streaming, items, trackerVars>>

Announce(k) ==
  /\ k \in toAnnounce
  /\ toAnnounce' = toAnnounce \ {k}
  /\ Broadcast(k)
  /\ Announced(k)
  /\ UNCHANGED <<value, stored, archived, streaming, items, trackerVars>>

-----------------------------------------------------------------------------
(* add_flag_value_changed_listener and its like *)

(* The constructor evaluates the flag ... *)
Create(l) ==
  /\ l \notin created
  /\ created' = created \cup {l}
  /\ previous' = [previous EXCEPT
       ![l] = IF l \in MaybeListeners THEN NoValue ELSE value[KeyOf[l]]]
  /\ UNCHANGED <<broadcasterVars, storeVars, current, telling, missed>>

(* ... and then the listener is registered: too late for a change that was   *)
(* announced in between. *)
Register(l) ==
  /\ l \in created
  /\ AddListener(l)
  /\ Miss(IF previous[l] # value[KeyOf[l]] /\ ~Coming(l) THEN {l} ELSE {})
  /\ UNCHANGED <<storeVars, trackerVars>>

(* remove_flag_change_notifier *)
Unregister(l) ==
  /\ RemoveListener(l)
  /\ UNCHANGED <<storeVars, trackerVars, missed>>

-----------------------------------------------------------------------------
(* on_flag_change *)

(* The listener is called; it evaluates the flag if the notice is about it, *)
(* and calls the application's function if there is news.                   *)
OnFlagChange(l) ==
  /\ CallListener(l)
  /\ \/ /\ notice = KeyOf[l]
        /\ IF l \in MaybeListeners \/ value[KeyOf[l]] # previous[l]
             THEN telling' = TRUE /\ current' = value[KeyOf[l]]
             ELSE UNCHANGED <<telling, current>>
     \/ /\ notice # KeyOf[l]
        /\ UNCHANGED <<current, telling>>
  /\ UNCHANGED <<storeVars, created, previous, missed>>

(* Mutant of Told: the value it was called with is not remembered. *)
Forgotten ==
  /\ telling
  /\ ListenerReturns
  /\ telling' = FALSE
  /\ current' = NoValue
  /\ UNCHANGED <<storeVars, created, previous, missed>>

(* Mutant of Told: what it was called about is remembered, not the value. *)
ToldKey ==
  /\ telling
  /\ ListenerReturns
  /\ previous' = [previous EXCEPT ![calling] = KeyOf[calling]]
  /\ telling' = FALSE
  /\ current' = NoValue
  /\ UNCHANGED <<storeVars, created, missed>>

(* The function returns ... *)
Told ==
  /\ telling
  /\ ListenerReturns
  /\ previous' = [previous EXCEPT ![calling] = current]
  /\ telling' = FALSE
  /\ current' = NoValue
  /\ UNCHANGED <<storeVars, created, missed>>

(* ... or raises: the value it was called with is not remembered, and nobody *)
(* calls it again unless another notice comes. *)
FunctionRaises ==
  /\ telling
  /\ ListenerReturns
  /\ telling' = FALSE
  /\ current' = NoValue
  /\ Miss(IF Coming(calling) THEN {} ELSE {calling})
  /\ UNCHANGED <<storeVars, created, previous>>

(* There was no news. *)
NothingToTell ==
  /\ ~telling
  /\ ListenerReturns
  /\ UNCHANGED <<storeVars, trackerVars, missed>>

-----------------------------------------------------------------------------

(* A step of the broadcaster that does not concern the listeners. *)
Plain(A) == A /\ UNCHANGED <<storeVars, trackerVars, missed>>

(* Nobody expects to be told anything any more. *)
Closed(s) ==
  /\ StopCloses(s)
  /\ missed' = {}
  /\ UNCHANGED <<storeVars, trackerVars>>

Thread ==
  \/ Plain(TakeStop \/ TakeNotice \/ LookUp \/ AllCalled)
  \/ \E l \in Listeners : OnFlagChange(l)
  \/ Told \/ FunctionRaises \/ NothingToTell

Next ==
  \/ \E named, silent \in SUBSET Keys, archives \in BOOLEAN :
       StoreItems(named, silent, archives)
  \/ Taken \/ Refused
  \/ \E k \in Keys : Announce(k)
  \/ \E l \in Listeners : Create(l) \/ Register(l) \/ Unregister(l)
  \/ Thread
  \/ \E s \in Callers : Closed(s) \/ Plain(StopPuts(s))

Spec == Init /\ [][Next]_vars

(* The threads run, a message has an end and the application's functions     *)
(* return. *)
Fairness ==
  /\ WF_vars(Thread)
  /\ WF_vars(Taken \/ Refused)
  /\ WF_vars(\E k \in Keys : Announce(k))
  /\ WF_vars(\E s \in Callers : Plain(StopPuts(s)))

FairSpec == Spec /\ Fairness

-----------------------------------------------------------------------------
(* Properties *)

Registered(l) == Contains(registered, l)

(* l is behind: it knows another value than the flag has, and that it does   *)
(* not know the latest change is not one of the code's omissions: a change   *)
(* announced to nobody or before l was registered, or a function that raised. *)
Behind(l) ==
  /\ Registered(l) /\ ~closed
  /\ l \notin missed
  /\ previous[l] # value[KeyOf[l]]

(* A listener is behind only while a notice is on its way to it: what is     *)
(* announced after it was registered it never misses for good.               *)
Knows ==
  \A l \in Listeners :
    Behind(l) => Coming(l) \/ (telling /\ calling = l)

(* Every listener that is behind catches up, unless a later change is not    *)
(* announced.                                                                *)
CatchesUp == \A l \in Listeners : Behind(l) ~> ~Behind(l)

=============================================================================

-------------------------- MODULE NotificationFeed --------------------------
(***************************************************************************)
(* What a publisher of notifications promises its listeners, with no       *)
(* threads, locks or queues: a notification goes to the listeners that     *)
(* are subscribed when it is emitted, and each of them hears what it is    *)
(* owed once and in the order of emission.  A listener that leaves still   *)
(* hears what was emitted before it left.                                  *)
(***************************************************************************)
EXTENDS Integers

CONSTANT Listeners

VARIABLES
  subscribed,   \* the listeners a new notification is owed to
  emitted,      \* how many notifications there have been
  owed,         \* owed[l]: numbers of the notifications l has not heard yet
  heard         \* heard[l]: number of the last notification l heard

vars == <<subscribed, emitted, owed, heard>>

Init ==
  /\ subscribed = {}
  /\ emitted = 0
  /\ owed = [l \in Listeners |-> {}]
  /\ heard = [l \in Listeners |-> 0]

Subscribe(l) ==
  /\ subscribed' = subscribed \cup {l}
  /\ UNCHANGED <<emitted, owed, heard>>

Unsubscribe(l) ==
  /\ subscribed' = subscribed \ {l}
  /\ UNCHANGED <<emitted, owed, heard>>

Emit ==
  /\ emitted' = emitted + 1
  /\ owed' = [l \in Listeners |->
                IF l \in subscribed THEN owed[l] \cup {emitted'} ELSE owed[l]]
  /\ UNCHANGED <<subscribed, heard>>

(* The oldest notification first. *)
Hear(l) ==
  \E n \in owed[l] :
    /\ \A m \in owed[l] : n <= m
    /\ heard' = [heard EXCEPT ![l] = n]
    /\ owed' = [owed EXCEPT ![l] = @ \ {n}]
    /\ UNCHANGED <<subscribed, emitted>>

Next ==
  \/ Emit
  \/ \E l \in Listeners : Subscribe(l) \/ Unsubscribe(l) \/ Hear(l)

Spec == Init /\ [][Next]_vars

-----------------------------------------------------------------------------

(* What a listener is owed came after whatever it has heard, and has been    *)
(* emitted: nothing is heard twice, early or out of order.                   *)
InOrder ==
  \A l \in Listeners : \A n \in owed[l] : heard[l] < n /\ n <= emitted

(* A listener eventually hears what it is owed. *)
EventuallyHeard ==
  \A l \in Listeners : owed[l] # {} ~> owed[l] = {}

=============================================================================

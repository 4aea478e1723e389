----------------------------- MODULE EventSink -----------------------------
(***************************************************************************)
(* What an event processor promises, with no queue, threads or workers:    *)
(* an event accepted while the sink is open is pending until it is         *)
(* delivered or given up, which happens once; and the sink finishes only   *)
(* when it is closed and nothing is pending.                               *)
(***************************************************************************)
CONSTANT Events

VARIABLES
  open,        \* events are accepted
  pending,     \* accepted, neither delivered nor given up
  delivered,
  givenUp,
  finished     \* the sink has shut down

vars == <<open, pending, delivered, givenUp, finished>>

Init ==
  /\ open = TRUE
  /\ pending = {}
  /\ delivered = {}
  /\ givenUp = {}
  /\ finished = FALSE

Accept(e) ==
  /\ open
  /\ e \notin pending \cup delivered \cup givenUp
  /\ pending' = pending \cup {e}
  /\ UNCHANGED <<open, delivered, givenUp, finished>>

Deliver(some) ==
  /\ ~finished
  /\ some \subseteq pending
  /\ pending' = pending \ some
  /\ delivered' = delivered \cup some
  /\ UNCHANGED <<open, givenUp, finished>>

GiveUp(some) ==
  /\ ~finished
  /\ some \subseteq pending
  /\ pending' = pending \ some
  /\ givenUp' = givenUp \cup some
  /\ UNCHANGED <<open, delivered, finished>>

Close ==
  /\ open
  /\ open' = FALSE
  /\ UNCHANGED <<pending, delivered, givenUp, finished>>

Finish ==
  /\ ~open
  /\ pending = {}
  /\ finished' = TRUE
  /\ UNCHANGED <<open, pending, delivered, givenUp>>

Next ==
  \/ \E e \in Events : Accept(e)
  \/ \E some \in SUBSET Events : Deliver(some) \/ GiveUp(some)
  \/ Close
  \/ Finish

Spec == Init /\ [][Next]_vars

=============================================================================

-------------------------- MODULE ClientLifecycle --------------------------
(***************************************************************************)
(* FBClient (fbclient/client.py) from its construction to the end of       *)
(* stop.  The parts of a client run threads of their own; they are         *)
(* modelled elsewhere, here a part only runs or has been told to stop.     *)
(* Stopping the update processor reports OFF, and the listeners of the     *)
(* status are called on the thread that stops: they may call stop again,   *)
(* or the functions of module Singleton, which is built on this one.       *)
(*                                                                         *)
(* A thread is a stack of calls, the innermost first.  A thread of a part  *)
(* that calls a listener is a thread like those of the application: the    *)
(* joins that wait for it have a timeout.                                  *)
(***************************************************************************)
EXTENDS Integers, FiniteSets, SequencesExt

CONSTANTS
  Threads,      \* threads that call the SDK
  MaxCalls,     \* bound: calls by the application
  MaxNested,    \* bound: calls by listeners
  MaxFailures   \* bound: constructors and parts that raise

ASSUME BoundsAssumption ==
  MaxCalls \in Nat /\ MaxNested \in Nat /\ MaxFailures \in Nat

VARIABLES
  stack,        \* stack[t]: the calls thread t is in
  made,         \* clients whose construction was begun
  running,      \* running[c]: parts of c whose threads were started, not ended by stop
  closed,       \* closed[c]: _closed
  owner,        \* owner[c]: _stop_owner
  complete,     \* complete[c]: _stop_complete is set
  stopped,      \* stopped[c]: history: parts whose stop was called, in order
  freed,        \* history: clients whose stop returned to one who was not inside it
  lost,         \* clients whose constructor raised: nobody has a reference to them
  broken,       \* history: clients one of whose parts raised when it was stopped
  calls,
  nested,
  failures

lifeVars == <<closed, owner, complete, stopped, freed>>
boundVars == <<calls, nested, failures>>
partVars == <<made, running, lost, broken>>
clientVars == <<stack, partVars, lifeVars, boundVars>>

Clients == 1..(MaxCalls + MaxNested)
NoClient == 0
NoThread == "none"

ASSUME ThreadsAssumption == NoThread \notin Threads /\ IsFiniteSet(Threads)

(* The parts that run threads, in the order in which they are built: the     *)
(* update processor has started its ping task before it is started itself.   *)
Construction == <<"notice broadcaster", "event processor", "ping task", "update processor">>

(* The parts stop calls, in its order.                                       *)
Order == <<"update processor", "event processor", "notice broadcaster", "data storage">>

(* The threads that end when a part is stopped.                              *)
Ends(part) == IF part = "update processor" THEN {part, "ping task"} ELSE {part}

Frame(op, at, c, left) == [op |-> op, at |-> at, client |-> c, left |-> left]

Places == {"read", "look", "found", "missing", "write", "locked", "build", "unwrite",
           "enter", "wait", "shut"}
Frames ==
  [op : {"get", "set"}, at : Places, client : {NoClient}, left : {<<>>}]
  \cup [op : {"stop"}, at : Places, client : Clients, left : Seq(ToSet(Order))]

ClientTypeOK ==
  /\ stack \in [Threads -> Seq(Frames)]
  /\ made \in 0..(MaxCalls + MaxNested)
  /\ running \in [Clients -> SUBSET ToSet(Construction)]
  /\ closed \in [Clients -> BOOLEAN]
  /\ owner \in [Clients -> Threads \cup {NoThread}]
  /\ complete \in [Clients -> BOOLEAN]
  /\ stopped \in [Clients -> Seq(ToSet(Order))]
  /\ freed \in SUBSET Clients
  /\ lost \in SUBSET Clients
  /\ broken \in SUBSET Clients
  /\ calls \in 0..MaxCalls
  /\ nested \in 0..MaxNested
  /\ failures \in 0..MaxFailures

ClientInit ==
  /\ stack = [t \in Threads |-> <<>>]
  /\ made = 0
  /\ running = [c \in Clients |-> {}]
  /\ closed = [c \in Clients |-> FALSE]
  /\ owner = [c \in Clients |-> NoThread]
  /\ complete = [c \in Clients |-> FALSE]
  /\ stopped = [c \in Clients |-> <<>>]
  /\ freed = {}
  /\ lost = {}
  /\ broken = {}
  /\ calls = 0
  /\ nested = 0
  /\ failures = 0

-----------------------------------------------------------------------------
(* The calls of a thread *)

Top(t) == stack[t][1]

At(t, op, at) == stack[t] # <<>> /\ Top(t).op = op /\ Top(t).at = at

Goto(t, at) == stack' = [stack EXCEPT ![t][1].at = at]

Leave(t) == stack' = [stack EXCEPT ![t] = Tail(@)]

(* The application is free to call, or a listener told of OFF is.            *)
MayCall(t) ==
  \/ /\ stack[t] = <<>>
     /\ calls < MaxCalls
     /\ calls' = calls + 1
     /\ UNCHANGED nested
  \/ /\ At(t, "stop", "shut") /\ Top(t).left = Order
     /\ nested < MaxNested
     /\ nested' = nested + 1
     /\ UNCHANGED calls

Call(t, op, at, c) ==
  /\ MayCall(t)
  /\ stack' = [stack EXCEPT ![t] = <<Frame(op, at, c, <<>>)>> \o @]

-----------------------------------------------------------------------------
(* The constructor *)

(* It returns, or raises after it has started some of the parts.             *)
Construct(c, raises) ==
  /\ c = made + 1
  /\ made' = c
  /\ \/ /\ ~raises
        /\ running' = [running EXCEPT ![c] = ToSet(Construction)]
        /\ UNCHANGED <<lost, failures>>
     \/ /\ raises
        /\ failures < MaxFailures
        /\ failures' = failures + 1
        /\ \E n \in 0..Len(Construction) :
             running' = [running EXCEPT ![c] = {Construction[i] : i \in 1..n}]
        /\ lost' = lost \cup {c}
  /\ UNCHANGED <<broken, lifeVars>>

-----------------------------------------------------------------------------
(* stop *)

(* The application has a reference to every client whose constructor         *)
(* returned.                                                                 *)
CallStop(t, c) ==
  /\ c <= made /\ c \notin lost
  /\ Call(t, "stop", "enter", c)
  /\ UNCHANGED <<partVars, lifeVars, failures>>

(* The first locked region finds the client open.                            *)
BecomeOwner(t) ==
  /\ At(t, "stop", "enter")
  /\ LET c == Top(t).client
     IN  /\ ~closed[c]
         /\ closed' = [closed EXCEPT ![c] = TRUE]
         /\ owner' = [owner EXCEPT ![c] = t]
  /\ stack' = [stack EXCEPT ![t][1].at = "shut", ![t][1].left = Order]
  /\ UNCHANGED <<partVars, complete, stopped, freed, boundVars>>

(* Mutant of OwnsShutdown: recursive calls are not recognised.               *)
NeverOwns(t, c) == FALSE

(* ... or being closed by this very thread: a recursive call returns.        *)
OwnsShutdown(t, c) == owner[c] = t

StopRecursive(t) ==
  /\ At(t, "stop", "enter")
  /\ LET c == Top(t).client
     IN  closed[c] /\ OwnsShutdown(t, c)
  /\ Leave(t)
  /\ UNCHANGED <<partVars, lifeVars, boundVars>>

(* Mutant of StopWaits: a client that is closed is taken for stopped.        *)
StopGoesOn(t) ==
  /\ At(t, "stop", "enter")
  /\ LET c == Top(t).client
     IN  /\ closed[c] /\ ~OwnsShutdown(t, c)
         /\ freed' = freed \cup {c}
  /\ Leave(t)
  /\ UNCHANGED <<partVars, closed, owner, complete, stopped, boundVars>>

(* ... or closed by another one, for whose end it waits.                     *)
StopWaits(t) ==
  /\ At(t, "stop", "enter")
  /\ LET c == Top(t).client
     IN  closed[c] /\ ~OwnsShutdown(t, c)
  /\ Goto(t, "wait")
  /\ UNCHANGED <<partVars, lifeVars, boundVars>>

StopWaited(t) ==
  /\ At(t, "stop", "wait")
  /\ complete[Top(t).client]
  /\ freed' = freed \cup {Top(t).client}
  /\ Leave(t)
  /\ UNCHANGED <<partVars, closed, owner, complete, stopped, boundVars>>

(* The owner has stopped the next part, or that has raised.  The listeners   *)
(* of OFF were called before the update processor's stop ends.               *)
StopPart(t) ==
  /\ At(t, "stop", "shut")
  /\ Top(t).left # <<>>
  /\ LET c == Top(t).client
         part == Head(Top(t).left)
     IN  /\ stopped' = [stopped EXCEPT ![c] = Append(@, part)]
         /\ \/ /\ running' = [running EXCEPT ![c] = @ \ Ends(part)]
               /\ UNCHANGED <<broken, failures>>
            \/ /\ failures < MaxFailures
               /\ failures' = failures + 1
               /\ broken' = broken \cup {c}
               /\ UNCHANGED running
  /\ stack' = [stack EXCEPT ![t][1].left = Tail(@)]
  /\ UNCHANGED <<made, lost, closed, owner, complete, freed, calls, nested>>

(* The end of the finally clause.                                            *)
StopEnds(t) ==
  /\ At(t, "stop", "shut")
  /\ Top(t).left = <<>>
  /\ LET c == Top(t).client
     IN  /\ owner' = [owner EXCEPT ![c] = NoThread]
         /\ complete' = [complete EXCEPT ![c] = TRUE]
         /\ freed' = freed \cup {c}
  /\ Leave(t)
  /\ UNCHANGED <<partVars, closed, stopped, boundVars>>

Stop(t) ==
  \/ BecomeOwner(t) \/ StopRecursive(t)
  \/ StopWaits(t) \/ StopWaited(t)
  \/ StopPart(t) \/ StopEnds(t)

-----------------------------------------------------------------------------
(* Properties *)

(* Every part is told to stop once, the producers of data before their       *)
(* consumers, whatever threads call stop at the same time and whatever       *)
(* raises; and all of them have been told when stop returns to a caller that *)
(* is not itself part of the shutdown.                                       *)
StopIsThorough ==
  \A c \in Clients : /\ IsPrefix(stopped[c], Order)
                     /\ c \in freed => stopped[c] = Order

=============================================================================

----------------------------- MODULE Singleton -----------------------------
(***************************************************************************)
(* The process-wide client of fbclient/__init__.py: get and set_config     *)
(* under the ReadWriteLock of fbclient/utils/rwlock.py.  set_config stops  *)
(* the client it replaces while it holds the lock for writing, that is the *)
(* mutex of the lock's condition, which is not reentrant.                  *)
(***************************************************************************)
EXTENDS ClientLifecycle

VARIABLES
  client,       \* __client
  configured,   \* __config is set
  readers,      \* _readers
  writer,       \* the thread that keeps the condition's mutex between
                \* write_lock and release_write_lock
  byApp,        \* history: clients stopped by a call from outside the module
  unreplaced,   \* history: clients whose replacement's constructor raised
  direct        \* history: clients that the application made itself

singletonVars == <<client, configured>>
lockVars == <<readers, writer>>
askedVars == <<byApp, unreplaced, direct>>
vars == <<clientVars, singletonVars, lockVars, askedVars>>

TypeOK ==
  /\ ClientTypeOK
  /\ client \in Clients \cup {NoClient}
  /\ configured \in BOOLEAN
  /\ readers \in 0..Cardinality(Threads)
  /\ writer \in Threads \cup {NoThread}
  /\ byApp \in SUBSET Clients
  /\ unreplaced \in SUBSET Clients
  /\ direct \in SUBSET Clients

Init ==
  /\ ClientInit
  /\ client = NoClient
  /\ configured = FALSE
  /\ readers = 0
  /\ writer = NoThread
  /\ byApp = {}
  /\ unreplaced = {}
  /\ direct = {}

(* A step that only moves thread t's calls.                                  *)
OnlyStack == UNCHANGED <<partVars, lifeVars, boundVars>>

-----------------------------------------------------------------------------
(* The calls *)

CallGet(t) ==
  /\ Call(t, "get", "read", NoClient)
  /\ UNCHANGED <<partVars, lifeVars, failures, singletonVars, lockVars, askedVars>>

CallSetConfig(t) ==
  /\ Call(t, "set", "write", NoClient)
  /\ UNCHANGED <<partVars, lifeVars, failures, singletonVars, lockVars, askedVars>>

AppStops(t, c) ==
  /\ CallStop(t, c)
  /\ byApp' = byApp \cup {c}
  /\ UNCHANGED <<singletonVars, lockVars, unreplaced, direct>>

(* The application makes a client without get and set_config.                *)
AppConstructs(t, raises) ==
  /\ stack[t] = <<>>
  /\ MayCall(t)
  /\ Construct(made + 1, raises)
  /\ direct' = direct \cup {made + 1}
  /\ UNCHANGED <<stack, singletonVars, lockVars, byApp, unreplaced>>

-----------------------------------------------------------------------------
(* The lock *)

(* The mutex is kept by a writer only, so that readers wait for writers ...  *)
ReadLock(t) ==
  /\ At(t, "get", "read")
  /\ writer = NoThread
  /\ readers' = readers + 1
  /\ Goto(t, "look")
  /\ OnlyStack /\ UNCHANGED <<singletonVars, writer, askedVars>>

(* Mutant of OneLess: a reader's release is lost.                            *)
NeverLess(n) == n

OneLess(n) == IF n > 0 THEN n - 1 ELSE 0

(* get returns the client or raises, or goes on to make the client.          *)
ReleaseReadLock(t) ==
  /\ readers' = OneLess(readers)
  /\ \/ At(t, "get", "found") /\ Leave(t)
     \/ At(t, "get", "missing") /\ Goto(t, "write")
  /\ OnlyStack /\ UNCHANGED <<singletonVars, writer, askedVars>>

(* ... and writers for the last reader: they are notified then.              *)
WriteLock(t) ==
  /\ At(t, "get", "write") \/ At(t, "set", "write")
  /\ writer = NoThread /\ readers = 0
  /\ writer' = t
  /\ Goto(t, "locked")
  /\ OnlyStack /\ UNCHANGED <<singletonVars, readers, askedVars>>

(* set_config stores its configuration even when it raises.                  *)
ReleaseWriteLock(t) ==
  /\ At(t, "get", "unwrite") \/ At(t, "set", "unwrite")
  /\ configured' = (configured \/ Top(t).op = "set")
  /\ writer' = NoThread
  /\ Leave(t)
  /\ OnlyStack /\ UNCHANGED <<client, readers, askedVars>>

-----------------------------------------------------------------------------
(* get *)

(* Without a client and a configuration it raises.                           *)
LookForClient(t) ==
  /\ At(t, "get", "look")
  /\ Goto(t, IF client # NoClient \/ ~configured THEN "found" ELSE "missing")
  /\ OnlyStack /\ UNCHANGED <<singletonVars, lockVars, askedVars>>

(* Mutant of NeedsClient: it is not looked again under the lock for writing. *)
NeedsClientAlways == TRUE

(* Another thread may have made it before this one had the lock.             *)
NeedsClient == client = NoClient

GetFinds(t) ==
  /\ At(t, "get", "locked") /\ ~NeedsClient
  /\ Goto(t, "unwrite")
  /\ OnlyStack /\ UNCHANGED <<singletonVars, lockVars, askedVars>>

GetBuilds(t, raises) ==
  /\ At(t, "get", "locked") /\ NeedsClient
  /\ Construct(made + 1, raises)
  /\ client' = IF raises THEN client ELSE made + 1
  /\ Goto(t, "unwrite")
  /\ UNCHANGED <<calls, nested, configured, lockVars, askedVars>>

-----------------------------------------------------------------------------
(* set_config *)

SetStores(t) ==
  /\ At(t, "set", "locked") /\ client = NoClient
  /\ Goto(t, "unwrite")
  /\ OnlyStack /\ UNCHANGED <<singletonVars, lockVars, askedVars>>

(* Mutant of SetStops: the new client is left to the next get.               *)
SetOnlyStops(t) ==
  /\ At(t, "set", "locked") /\ client # NoClient
  /\ stack' = [stack EXCEPT
       ![t] = <<Frame("stop", "enter", client, <<>>), [@[1] EXCEPT !.at = "unwrite"]>> \o Tail(@)]
  /\ OnlyStack /\ UNCHANGED <<singletonVars, lockVars, askedVars>>

SetStops(t) ==
  /\ At(t, "set", "locked") /\ client # NoClient
  /\ stack' = [stack EXCEPT
       ![t] = <<Frame("stop", "enter", client, <<>>), [@[1] EXCEPT !.at = "build"]>> \o Tail(@)]
  /\ OnlyStack /\ UNCHANGED <<singletonVars, lockVars, askedVars>>

(* The constructor's result is assigned, unless it raises.                   *)
SetBuilds(t, raises) ==
  /\ At(t, "set", "build")
  /\ Construct(made + 1, raises)
  /\ client' = IF raises THEN client ELSE made + 1
  /\ unreplaced' = IF raises THEN unreplaced \cup {client} ELSE unreplaced
  /\ Goto(t, "unwrite")
  /\ UNCHANGED <<calls, nested, configured, lockVars, byApp, direct>>

-----------------------------------------------------------------------------

Step(t) ==
  \/ ReadLock(t) \/ LookForClient(t) \/ ReleaseReadLock(t)
  \/ WriteLock(t) \/ ReleaseWriteLock(t)
  \/ GetFinds(t) \/ \E raises \in BOOLEAN : GetBuilds(t, raises)
  \/ SetStores(t) \/ SetStops(t) \/ \E raises \in BOOLEAN : SetBuilds(t, raises)
  \/ Stop(t) /\ UNCHANGED <<singletonVars, lockVars, askedVars>>

Next ==
  \E t \in Threads :
    \/ CallGet(t) \/ CallSetConfig(t)
    \/ \E c \in Clients : AppStops(t, c)
    \/ \E raises \in BOOLEAN : AppConstructs(t, raises)
    \/ Step(t)

Spec == Init /\ [][Next]_vars

(* The threads run, and the parts' stops return.                             *)
Fairness == \A t \in Threads : WF_vars(Step(t))

FairSpec == Spec /\ Fairness

-----------------------------------------------------------------------------
(* Properties *)

(* The client that get returns is closed only if the application stopped it, *)
(* or if the constructor of its successor raised: no interleaving of get,    *)
(* set_config and stop leaves the process with a stopped client.             *)
SingletonServes ==
  client # NoClient /\ closed[client] /\ writer = NoThread =>
    client \in byApp \cup unreplaced

(* A client that was replaced has no threads left, however get and           *)
(* set_config overlap, but for those of parts that raised when stopped; a    *)
(* constructor that raises is the only way to lose others.  The clients that *)
(* the application made itself are its own to stop.                          *)
NoLeftovers ==
  \A c \in Clients : running[c] # {} =>
    \/ c = client
    \/ closed[c] /\ ~complete[c]
    \/ c \in direct \cup lost \cup broken

(* A listener, called by thread t's shutdown of c, waits for the lock or for *)
(* another client's shutdown ...                                             *)
WaitsInside(t, c) ==
  /\ \E i \in 2..Len(stack[t]) :
       /\ stack[t][i].op = "stop" /\ stack[t][i].at = "shut"
       /\ stack[t][i].client = c
  /\ \/ At(t, "get", "read") \/ At(t, "get", "write") \/ At(t, "set", "write")
     \/ At(t, "stop", "wait") /\ Top(t).client # c

(* ... while set_config on t itself, or another thread, waits for that of c. *)
Crossed ==
  \E t \in Threads, c \in Clients :
    /\ WaitsInside(t, c)
    /\ writer = t \/ \E u \in Threads : At(u, "stop", "wait") /\ Top(u).client = c

(* Every call of get, set_config and stop returns, also those that listeners *)
(* make during a shutdown, unless one of these waits and is waited for.      *)
(* Readers that keep coming would keep a writer waiting; MaxCalls and        *)
(* MaxNested bound them here.                                                *)
EverybodyReturns ==
  (\A t \in Threads : stack[t] # <<>> ~> stack[t] = <<>>) \/ <>[]Crossed

=============================================================================

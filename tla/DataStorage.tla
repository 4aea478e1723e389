---------------------------- MODULE DataStorage ----------------------------
(***************************************************************************)
(* InMemoryDataStorage (fbclient/data_storage.py): a store of flags and    *)
(* segments, as operators on its state.  An item is reduced to the time    *)
(* stamp of its last change, 0 for an item the store does not hold, and    *)
(* whether it is archived.  The operations hold the store's write lock     *)
(* from their first access to its state to their last: each is one step.   *)
(***************************************************************************)
EXTENDS Integers, FiniteSetsExt

CONSTANT Items    \* the flags and segments there may be, by kind and key

Item == [time : Nat, archived : BOOLEAN]

Absent == [time |-> 0, archived |-> FALSE]

Holds(data) == {i \in Items : data[i].time > 0}

(* items: __storage; version: __version; initialized: __initialized. *)
Store == [items : [Items -> Item], version : Nat, initialized : BOOLEAN]

EmptyStore ==
  [items |-> [i \in Items |-> Absent], version |-> 0, initialized |-> FALSE]

(* Mutant of InitAccepts: a snapshot replaces whatever is there. *)
InitAcceptsAny(store, data, version) == version = 0 => Holds(data) = {}

(* init: when a snapshot is taken, and what it leaves. *)
InitAccepts(store, data, version) ==
  /\ version = 0 => Holds(data) = {}
  /\ \/ ~store.initialized
     \/ version > store.version
     \/ version = 0 /\ store.version = 0 /\ Holds(store.items) = {}

(* Mutant of AfterInit: the version is not set. *)
AfterInitUnversioned(data, version) == [items |-> data, initialized |-> TRUE]

AfterInit(data, version) ==
  [items |-> data, version |-> version, initialized |-> TRUE]

(* Mutant of UpsertAccepts: time stamps are not compared. *)
UpsertAcceptsAny(store, i, item) == item.time > 0

(* upsert: an item is taken when it is newer than the one stored. *)
UpsertAccepts(store, i, item) == item.time > 0 /\ item.time > store.items[i].time

(* Mutant of VersionAfter: no maximum is taken, an older item sets it back. *)
VersionOfOldest(store, data, taken) ==
  IF taken = {} THEN store.version ELSE Min({data[i].time : i \in taken})

VersionAfter(store, data, taken) == Max({store.version} \cup {data[i].time : i \in taken})

(* The items of a set upserted one after the other. *)
AfterUpserts(store, data, taken) ==
  [items       |-> [i \in Items |-> IF i \in taken THEN data[i] ELSE store.items[i]],
   version     |-> VersionAfter(store, data, taken),
   initialized |-> store.initialized \/ taken # {}]

=============================================================================

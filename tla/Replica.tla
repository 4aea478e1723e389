------------------------------ MODULE Replica ------------------------------
(***************************************************************************)
(* What data synchronisation promises: the client's copy is always what    *)
(* the server had at some moment, and that moment only moves forward.      *)
(* The server's data is the log of its changes; position n of the log is   *)
(* the time stamp of change n.                                             *)
(***************************************************************************)
EXTENDS Integers, Sequences, FiniteSetsExt

CONSTANTS
  Items,
  Absent    \* what an item is before its first change

VARIABLES
  log,      \* log[n]: the n-th change, [item, archived]
  upto,     \* the moment the copy is of
  copy

vars == <<log, upto, copy>>

ChangesOf(changes, i, n) == {k \in 1..n : changes[k].item = i}

(* The data as they were after the first n changes. *)
AsOf(changes, n) ==
  [i \in Items |->
     LET mine == ChangesOf(changes, i, n)
     IN  IF mine = {} THEN Absent
         ELSE [time |-> Max(mine), archived |-> changes[Max(mine)].archived]]

Init ==
  /\ log = <<>>
  /\ upto = 0
  /\ copy = AsOf(log, 0)

Change(i, archived) ==
  /\ log' = Append(log, [item |-> i, archived |-> archived])
  /\ UNCHANGED <<upto, copy>>

CatchUp ==
  /\ \E n \in upto..Len(log) : upto' = n /\ copy' = AsOf(log, n)
  /\ UNCHANGED log

Next ==
  \/ \E i \in Items, archived \in BOOLEAN : Change(i, archived)
  \/ CatchUp

Spec == Init /\ [][Next]_vars

=============================================================================

-------------------------- MODULE MCEventProcessor --------------------------
(* Small instances of EventProcessor for TLC. *)
EXTENDS EventProcessor

(* Workers, and stoppers, are interchangeable.  So are events of one kind,   *)
(* but a configuration may have one of each.                                 *)
Interchangeable == Permutations(Workers) \cup Permutations(Stoppers)
=============================================================================

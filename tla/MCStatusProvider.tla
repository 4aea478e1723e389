-------------------------- MODULE MCStatusProvider --------------------------
(* Small instances of StatusProvider for TLC. *)
EXTENDS StatusProvider

(* Updaters are interchangeable, and so are listeners; waiters are not, when *)
(* some give a timeout.                                                      *)
Interchangeable == Permutations(Updaters) \cup Permutations(Listeners)
=============================================================================

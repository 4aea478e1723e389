--------------------------- MODULE MCFlagTracker ---------------------------
(* A small instance of FlagTracker for TLC: two flags, of which the first    *)
(* may have two values and the second has none for the user, whatever is     *)
(* stored; a listener of each, the second told of every notice about it.     *)
EXTENDS FlagTracker

CONSTANTS k1, k2, l1, l2

MCKeyOf == (l1 :> k1) @@ (l2 :> k2)
MCValues == (k1 :> {"on", "off"}) @@ (k2 :> {NoValue})
=============================================================================

----------------------------- MODULE MCDataSync -----------------------------
(* Small instances of DataSync for TLC. *)
EXTENDS DataSync

CONSTANTS f1, f2, seg, inner

(* Two flags, the second with a rule on the only segment ... *)
MCFlags == {f1, f2}
MCSegments == {seg}
MCUsedBy == [s \in MCSegments |-> {f2}]
MCNestedIn == [s \in MCSegments |-> {}]

(* ... or on a segment that has itself a rule on an inner one. *)
MCNested == {seg, inner}
MCNestedUsedBy == [s \in MCNested |-> IF s = seg THEN {f2} ELSE {}]
MCNestedNestedIn == [s \in MCNested |-> IF s = inner THEN {seg} ELSE {}]
=============================================================================

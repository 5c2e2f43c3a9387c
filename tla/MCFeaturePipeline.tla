--------------------------- MODULE MCFeaturePipeline ---------------------------
(* A small instance of FeaturePipeline for TLC. *)
EXTENDS FeaturePipeline, TLC

CONSTANTS f1, f2, f3, a, b, e1, e2

(* f1 and f2 have an entity each, f3 has both: they can be materialized    *)
(* beside each other or not.  With the two features that f2 or the         *)
(* discovery registers, f3 is too large an INSERT for MaxValues; it fails  *)
(* as Repeated rows do.                                                    *)
MCFiles == {f1, f2, f3}
OverlappingFiles == {f2, f3}
MCFeatures == {a, b}
MCEntities == {e1, e2}
MCColumns == [f \in Files |-> IF f = f2 THEN {a, b} ELSE {a}]
MCRows == [f \in Files |-> CASE f = f1 -> {e1} [] f = f2 -> {e2} [] f = f3 -> {e1, e2}]
MCEngineered == [f \in Files |-> {b}]
(* The others lack a column of the contract inferred from f2 *)
MCHalts == {<<f2, f>> : f \in Files \ {f2}}

Symmetry == Permutations(Jobs)
=============================================================================

------------------------ MODULE MCPredictionServing ------------------------
(* Small instances of PredictionServing for TLC. *)
EXTENDS PredictionServing, TLC

CONSTANTS m1, m2, e1, e2

MCModels == {m1, m2}
MCEntities == {e1, e2}
MCLoaded == <<m1, m2>>

(* One model, and none to fall back to *)
OneModel == {m1}
OneLoaded == <<m1>>

OneEntity == {e1}

(* Two fields; the entities' online vectors differ in both *)
Dict(a, b) == [f \in {"a", "b"} |-> IF f = "a" THEN a ELSE b]
OnlyA(a) == [f \in {"a"} |-> a]

MCOnlineVector == [e \in MCEntities |-> Dict(e, e)]

(* Complete or empty feature dictionaries *)
WholePayloads == {NoFeatures, Dict(1, 1)}
NoPayload == {NoFeatures}
(* One field only: the other one comes from the online store *)
PartPayloads == {OnlyA(3)}

Ask(m, p, e) == [target |-> m, payload |-> p, entity |-> e]

(* By entity alone, for two entities *)
EntityInputs == {Ask(m1, NoFeatures, e1), Ask(m1, NoFeatures, e2)}
(* By one entity: every request asks the same question *)
SameInputs == {Ask(m1, NoFeatures, e1)}
(* The same single field for two entities *)
PartInputs == {Ask(m1, OnlyA(3), e) : e \in MCEntities}

(* No feature of these dictionaries has a sensitive name *)
MCSensitive == {"token"}

NoFaults == {}
(* Failures of the calls a sweep and the index writes make *)
SweepFaults == {"redisSweep", "redisIndex"}
(* The leader computes nothing, or what it computed cannot be found *)
LiveFaults == {"redisSet", "predict"}
(* The one call between the registration of a flight and the try *)
StartFault == {"startAudit"}
(* Failures that keep neither a leader from storing nor a waiter from finding *)
SideFaults == {"hitAudit", "startAudit", "missAudit", "online", "finishAudit", "failAudit",
               "fallback", "publish"}

Symmetry == Permutations(Requests)
(* No definition tells the two entities apart *)
EntitySymmetry == Permutations(Requests) \cup Permutations(MCEntities)
=============================================================================

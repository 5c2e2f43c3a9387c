---------------------------- MODULE MCBatchServing ----------------------------
(* Small instances of BatchServing for TLC. *)
EXTENDS BatchServing, TLC

CONSTANTS m1, m2, anon, r1, r2

MCModels == {m1, m2}
MCEntities == {anon}
MCLoaded == <<m1, m2>>
Dict(a) == [f \in {"a"} |-> a]
(* No online vector is ever written for entity "anon" *)
MCOnlineVector == [e \in MCEntities |-> NoFeatures]
MCPayloads == {NoFeatures, Dict(1)}
Ask(m, p) == [target |-> m, payload |-> p, entity |-> anon]
(* One model, loaded *)
OneModel == {Ask(m1, p) : p \in MCPayloads}
(* Or an alias no model is found for *)
OneOrNoModel == OneModel \cup {Ask(NoModel, p) : p \in MCPayloads}

(* A full row and an empty one *)
MixedRows == <<Dict(1), NoFeatures>>

(* No feature of these dictionaries has a sensitive name *)
MCSensitive == {"token"}

BatchFaults == {"redisGet", "redisSet", "redisIndex", "predict", "publish"}

MCRunner == <<r1, r2>>
=============================================================================

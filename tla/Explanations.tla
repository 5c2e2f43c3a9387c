----------------------------- MODULE Explanations -----------------------------
(***************************************************************************)
(* Explanations of predictions (app/explainability, the explain part of    *)
(* app/inference/engine.py and endpoints/explanations.py): a prediction    *)
(* that asks for its explanation gets a cached one attached, or a          *)
(* background task computes it with SHAP, puts it into Redis and into the  *)
(* table explanation_metadata, and records in the audit log how it went.   *)
(* An explanation is what it explains: a model version and a payload.      *)
(***************************************************************************)
EXTENDS Naturals, FiniteSets

CONSTANTS Generations, \* requests for an explanation
          Artifacts,   \* versions of the model
          Payloads,    \* payloads
          NoExpl,
          MaxTroubles \* bound: failures, clearings of the cache and restarts

ASSUME ExplanationsAssumption ==
    /\ NoExpl \notin Artifacts \X Payloads
    /\ MaxTroubles \in Nat

VARIABLES
    loaded,    \* version of the model this process holds
    explCache, \* Redis: shap:{model}:{version}:{feature version}:{hash}
    explRows,  \* jobs with a row in explanation_metadata
    audit,     \* audit_logs: <<event, job>>
    gen,       \* the jobs
    clearing,  \* keys that a DELETE /explanations/cache has found
    troubles   \* how many so far

explVars == <<loaded, explCache, explRows, audit, gen, clearing, troubles>>

Explained == Artifacts \X Payloads

Trouble == troubles < MaxTroubles /\ troubles' = troubles + 1

ExplInit ==
    /\ loaded \in Artifacts
    /\ explCache = [k \in Explained |-> NoExpl]
    /\ explRows = {}
    /\ audit = {}
    /\ gen = [g \in Generations |-> [step |-> "idle", of |-> NoExpl, data |-> NoExpl]]
    /\ clearing = {}
    /\ troubles = 0

(* Mutant: the version of the model is not in the key *)
UnversionedKey(e) == <<CHOOSE v \in Artifacts : TRUE, e[2]>>

(* compute_hash() and build_key(); the versions of model and features are  *)
(* both the version of the artifact                                        *)
CacheKey(e) == <<e[1], e[2]>>

GenAt(g, step) == gen[g].step = step
GenGoes(g, step) == gen' = [gen EXCEPT ![g].step = step]

(* A prediction with explain=True, or POST /explanations/generate, which   *)
(* does not look into the cache first                                      *)
Ask(g) ==
    /\ GenAt(g, "idle")
    /\ \E x \in Payloads, step \in {"check", "queued"} :
          gen' = [gen EXCEPT ![g] = [step |-> step, of |-> <<loaded, x>>, data |-> NoExpl]]
    /\ UNCHANGED <<loaded, explCache, explRows, audit, clearing, troubles>>

(* get_explanation(): without Redis, or with an error, nothing is found *)
Found(g, hit, miss) ==
    \/ /\ explCache[CacheKey(gen[g].of)] # NoExpl
       /\ gen' = [gen EXCEPT ![g].step = hit, ![g].data = explCache[CacheKey(gen[g].of)]]
       /\ UNCHANGED troubles
    \/ /\ IF explCache[CacheKey(gen[g].of)] = NoExpl THEN UNCHANGED troubles ELSE Trouble
       /\ GenGoes(g, miss)

(* check_cache(): attached to the answer, or left to a background task *)
CheckCache(g) ==
    /\ GenAt(g, "check")
    /\ Found(g, "attached", "queued")
    /\ UNCHANGED <<loaded, explCache, explRows, audit, clearing>>

(* generate_background() *)
LookUp(g) ==
    /\ GenAt(g, "queued")
    /\ Found(g, "hit", "miss")
    /\ UNCHANGED <<loaded, explCache, explRows, audit, clearing>>

(* An audit event is a transaction of its own *)
Records(g, event, next, otherwise) ==
    \/ audit' = audit \cup {<<event, g>>} /\ GenGoes(g, next) /\ UNCHANGED troubles
    \/ Trouble /\ GenGoes(g, otherwise) /\ UNCHANGED audit

AuditLookUp(g) ==
    /\ \/ GenAt(g, "hit") /\ Records(g, "SHAP_CACHE_HIT", "persist", "error")
       \/ GenAt(g, "miss") /\ Records(g, "SHAP_CACHE_MISS", "shap", "error")
    /\ UNCHANGED <<loaded, explCache, explRows, clearing>>

(* In a thread, with the predictor the request was answered by *)
Shap(g) ==
    /\ GenAt(g, "shap")
    /\ \/ gen' = [gen EXCEPT ![g].step = "store", ![g].data = gen[g].of] /\ UNCHANGED troubles
       \/ Trouble /\ GenGoes(g, "error")
    /\ UNCHANGED <<loaded, explCache, explRows, audit, clearing>>

(* store_explanation() returns False on an error; nobody looks at it *)
StoreExpl(g) ==
    /\ GenAt(g, "store")
    /\ GenGoes(g, "persist")
    /\ \/ explCache' = [explCache EXCEPT ![CacheKey(gen[g].of)] = gen[g].data]
          /\ UNCHANGED troubles
       \/ Trouble /\ UNCHANGED explCache
    /\ UNCHANGED <<loaded, explRows, audit, clearing>>

(* _persist_metadata(): what it passes to ExplanationMetadata(), and what  *)
(* app/storage/models.py maps; the constructor raises on anything else     *)
RowFields ==
    {"prediction_id", "model_id", "user_id", "generation_time_ms", "cache_status",
     "top_features", "visualization_data", "hash", "model_version", "feature_version",
     "shap_library_version", "dataset_health_score", "expectation_suite_version"}

RowColumns ==
    {"id", "prediction_id", "model_id", "generation_time_ms", "execution_time", "cache_status",
     "top_features", "visualization_data", "explanation_version", "model_version",
     "feature_version", "dataset_version", "shap_library_version", "dataset_health_score",
     "expectation_suite_version", "hash", "status", "created_at"}

(* Mutant: an error of the INSERT is swallowed *)
PersistOrNot(g) ==
    /\ GenAt(g, "persist")
    /\ GenGoes(g, "done")
    /\ explRows' = IF RowFields \subseteq RowColumns THEN explRows \cup {g} ELSE explRows
    /\ UNCHANGED <<loaded, explCache, audit, clearing, troubles>>

Persist(g) ==
    /\ GenAt(g, "persist")
    /\ IF RowFields \subseteq RowColumns
       THEN explRows' = explRows \cup {g} /\ GenGoes(g, "done")
       ELSE GenGoes(g, "error") /\ UNCHANGED explRows
    /\ UNCHANGED <<loaded, explCache, audit, clearing, troubles>>

(* The handler of every exception *)
AuditFailure(g) ==
    /\ GenAt(g, "error")
    /\ Records(g, "SHAP_FAILED", "done", "unreported")
    /\ UNCHANGED <<loaded, explCache, explRows, clearing>>

(* DELETE /explanations/cache: KEYS, then DEL of what it found *)
ClearKeys ==
    /\ clearing = {}
    /\ Trouble
    /\ clearing' = {k \in Explained : explCache[k] # NoExpl}
    /\ UNCHANGED <<loaded, explCache, explRows, audit, gen>>

ClearDelete ==
    /\ clearing # {}
    /\ clearing' = {}
    /\ explCache' = [k \in Explained |-> IF k \in clearing THEN NoExpl ELSE explCache[k]]
    /\ UNCHANGED <<loaded, explRows, audit, gen, troubles>>

(* A new process may load a newer version; background tasks are gone *)
ProcessRestart ==
    /\ Trouble
    /\ loaded' \in Artifacts
    /\ clearing' = {}
    /\ gen' = [g \in Generations |->
                  IF gen[g].step \in {"idle", "attached", "done", "unreported"} THEN gen[g]
                  ELSE [gen[g] EXCEPT !.step = "lost"]]
    /\ UNCHANGED <<explCache, explRows, audit>>

ExplNext ==
    \/ \E g \in Generations :
          \/ Ask(g) \/ CheckCache(g) \/ LookUp(g) \/ AuditLookUp(g) \/ Shap(g)
          \/ StoreExpl(g) \/ Persist(g) \/ AuditFailure(g)
    \/ ClearKeys \/ ClearDelete
    \/ ProcessRestart

ExplSpec == ExplInit /\ [][ExplNext]_explVars

-----------------------------------------------------------------------------
(* Properties *)

(* Type invariant of the explanations. *)
ExplTypeOK ==
    /\ loaded \in Artifacts
    /\ explCache \in [Explained -> Explained \cup {NoExpl}]
    /\ explRows \subseteq Generations
    /\ audit \subseteq {"SHAP_CACHE_HIT", "SHAP_CACHE_MISS", "SHAP_FAILED"} \X Generations
    /\ gen \in [Generations -> [step : {"idle", "check", "attached", "queued", "hit", "miss", "shap",
                                   "store", "persist", "error", "done", "unreported", "lost"},
                           of : Explained \cup {NoExpl}, data : Explained \cup {NoExpl}]]
    /\ clearing \subseteq Explained
    /\ troubles \in 0 .. MaxTroubles

(* What a prediction or a background task is given from the cache, or puts *)
(* there, explains the model version that answered and the payload of the  *)
(* request, also after a restart with another version (cache.py).          *)
ExplainsOwnPrediction ==
    \A g \in Generations : gen[g].data \in {NoExpl, gen[g].of}

(* A background task that ends without a row leaves SHAP_FAILED, unless    *)
(* the process or the database failed it (manager.py).                     *)
FailuresAudited ==
    \A g \in Generations :
        GenAt(g, "done") => g \in explRows \/ <<"SHAP_FAILED", g>> \in audit
=============================================================================

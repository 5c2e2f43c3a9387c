--------------------------- MODULE PredictionCache ---------------------------
(***************************************************************************)
(* app/cache/prediction_cache.py: the Redis-backed cache of prediction     *)
(* responses, its in-process single-flight table, and the sweep that       *)
(* invalidate_cache() performs over Redis.                                 *)
(*                                                                         *)
(* The module has no Init or Next of its own: it is a library of stateful  *)
(* operations that PredictionServing and BatchServing compose with the     *)
(* callers.  Every Redis round trip is an action of its own, because the   *)
(* coroutine yields there; check_single_flight and release_single_flight   *)
(* contain no await and are atomic.                                        *)
(***************************************************************************)
EXTENDS Naturals, Sequences, FiniteSets

CONSTANTS Models,       \* model ids that may occur in a cache key
          Requests,     \* prediction requests; each registers at most one flight
          Payloads,     \* feature dictionaries a client may send
          Entities,     \* entity ids a request may carry
          OnlineVector, \* entity -> its feature dictionary in the online store
          Sensitive,    \* feature names left out of the hash (SENSITIVE_KEYS)
          NoModel, NoAnswer, NoKey, NoFlight,
          Faults,       \* the external calls that may fail (see FaultPoints)
          Expiry,       \* whether keys may expire or be deleted one by one
          BatchSize,    \* keys per DEL command of a sweep; the code uses 50
          MaxSweeps     \* bound: invalidations started in one behaviour

FaultPoints == { "redisGet", "redisSet", "redisIndex", "redisSweep",
                 "hitAudit", "missAudit", "startAudit", "online", "predict",
                 "finishAudit", "failAudit", "fallback", "publish" }

ASSUME CacheAssumption ==
    /\ NoModel \notin Models
    /\ NoFlight \notin Requests
    /\ Faults \subseteq FaultPoints
    /\ Expiry \in BOOLEAN
    /\ BatchSize \in Nat \ {0}
    /\ MaxSweeps \in Nat

VARIABLES
    cache,    \* Redis: key -> response dictionary, or NoAnswer
    index,    \* Redis: model -> keys in the set pred_idx:model:{id}
    inflight, \* PredictionCache._inflight: key -> its asyncio.Event, or NoFlight
    landed,   \* the asyncio.Events that are set
    sweep,    \* the running invalidate_cache() call
    version,  \* version of the online vectors, bumped by what triggers a sweep
    late      \* history variable: keys written since the sweep's last scan began

cacheVars == <<cache, index, inflight, landed, sweep, version, late>>

(* {**base, **top}: the dictionary update the engine performs on features *)
Overlay(base, top) ==
    [f \in DOMAIN base \cup DOMAIN top |->
        IF f \in DOMAIN top THEN top[f] ELSE base[f]]

NoFeatures == << >>

(* {"_entity_id": e}: the payload cached for a request without features *)
EntityPayload(e) == [f \in {"_entity_id"} |-> e]

Features == Payloads \cup {Overlay(OnlineVector[e], p) : e \in Entities, p \in Payloads}

(* _sanitize_payload(): what of a payload enters its hash *)
Sanitized(p) == [f \in DOMAIN p \ Sensitive |-> p[f]]

Bodies == {Sanitized(p) : p \in Features \cup {EntityPayload(e) : e \in Entities}}

(* build_cache_key(): version fields are a function of the loaded model *)
Keys == [model : Models, body : Bodies]

ASSUME KeyAssumption == NoKey \notin Keys

(* PredictionResponse.to_dict(): which model computed it, from which       *)
(* features, and the version of the online vector among them (0: none).    *)
Answers == [model : Models, features : Features, version : 0 .. MaxSweeps + 1]

ASSUME AnswerAssumption == NoAnswer \notin Answers

SweepPhases == {"idle", "members", "dropIndex", "scanModel", "scanAll", "delete", "swept"}

CacheTypeOK ==
    /\ cache \in [Keys -> Answers \cup {NoAnswer}]
    /\ index \in [Models -> SUBSET Keys]
    /\ inflight \in [Keys -> Requests \cup {NoFlight}]
    /\ landed \subseteq Requests
    /\ sweep \in [phase : SweepPhases, model : Models \cup {NoModel}, all : BOOLEAN,
                  walk : SUBSET Keys, found : SUBSET Keys,
                  victims : SUBSET Keys, clean : BOOLEAN]
    /\ sweep.phase \in {"members", "dropIndex", "scanModel"} => sweep.model \in Models
    /\ version \in 1 .. MaxSweeps + 1
    /\ late \subseteq Keys

IdleSweep == [phase |-> "idle", model |-> NoModel, all |-> FALSE,
              walk |-> Keys, found |-> {}, victims |-> {}, clean |-> TRUE]

CacheInit ==
    /\ cache = [k \in Keys |-> NoAnswer]
    /\ index = [m \in Models |-> {}]
    /\ inflight = [k \in Keys |-> NoFlight]
    /\ landed = {}
    /\ sweep = IdleSweep
    /\ version = 1
    /\ late = {}

-----------------------------------------------------------------------------
(* Lookups and stores *)

(* A miss is an absent or expired key, or a Redis call that failed *)
Misses(k) == cache[k] = NoAnswer \/ "redisGet" \in Faults

Hits(k) == cache[k] # NoAnswer

(* store_prediction(): SET key value EX ttl *)
SetKey(k, a) ==
    /\ cache' = [cache EXCEPT ![k] = a]
    /\ late' = IF sweep.phase = "idle" THEN late ELSE late \cup {k}
    /\ UNCHANGED <<index, inflight, landed, sweep, version>>

(* store_prediction(), after a successful SET: SADD pred_idx:model:{id} key *)
AddToIndex(k) ==
    /\ index' = [index EXCEPT ![k.model] = @ \cup {k}]
    /\ UNCHANGED <<cache, inflight, landed, sweep, version, late>>

(* Redis expires a prediction key by its TTL; its index entry stays *)
Expire(k) ==
    /\ Expiry
    /\ cache[k] # NoAnswer
    /\ cache' = [cache EXCEPT ![k] = NoAnswer]
    /\ UNCHANGED <<index, inflight, landed, sweep, version, late>>

(* invalidate_cache(key=...): one DEL *)
InvalidateKey(k) == Expire(k)

-----------------------------------------------------------------------------
(* Single flight; the event of a flight is named after its leader *)

(* Mutant: a new flight replaces the one that is registered *)
LeadAnyway(k, r) ==
    /\ inflight' = [inflight EXCEPT ![k] = r]
    /\ UNCHANGED <<cache, index, landed, sweep, version, late>>

(* check_single_flight(): no flight for the key, so register one *)
Lead(k, r) ==
    /\ inflight[k] = NoFlight
    /\ inflight' = [inflight EXCEPT ![k] = r]
    /\ UNCHANGED <<cache, index, landed, sweep, version, late>>

(* Mutant: the entry is dropped and its event is never set *)
DropFlight(k) ==
    /\ inflight' = [inflight EXCEPT ![k] = NoFlight]
    /\ UNCHANGED <<cache, index, landed, sweep, version, late>>

(* Mutant: an event is set without looking whether the key has one *)
ReleaseUnchecked(k) ==
    /\ landed' = landed \cup {inflight[k]}
    /\ inflight' = [inflight EXCEPT ![k] = NoFlight]
    /\ UNCHANGED <<cache, index, sweep, version, late>>

(* release_single_flight(): set and drop whatever event the key has now *)
Release(k) ==
    /\ IF inflight[k] # NoFlight
       THEN /\ landed' = landed \cup {inflight[k]}
            /\ inflight' = [inflight EXCEPT ![k] = NoFlight]
       ELSE UNCHANGED <<landed, inflight>>
    /\ UNCHANGED <<cache, index, sweep, version, late>>

-----------------------------------------------------------------------------
(* invalidate_cache(model_id, dataset): what it is called for is a change  *)
(* of the data that cached responses were computed from.                   *)

AfterModelScan(all) == IF all THEN "scanAll" ELSE "delete"

SweepBegin(m, all) ==
    /\ sweep.phase \in {"idle", "swept"}
    /\ m # NoModel \/ all
    /\ version <= MaxSweeps
    /\ version' = version + 1
    /\ sweep' = [phase |-> IF m # NoModel THEN "members" ELSE "scanAll",
                 model |-> m, all |-> all,
                 walk |-> Keys, found |-> {}, victims |-> {}, clean |-> TRUE]
    /\ late' = {}
    /\ UNCHANGED <<cache, index, inflight, landed>>

(* SMEMBERS of the model's index; a call that raises skips the DEL of the  *)
(* index as well, one that gives up and returns None does not.             *)
SweepMembers ==
    /\ sweep.phase = "members"
    /\ \/ sweep' = [sweep EXCEPT !.phase = "dropIndex", !.victims = @ \cup index[sweep.model]]
       \/ /\ "redisSweep" \in Faults
          /\ \E next \in {"dropIndex", "scanModel"} :
                sweep' = [sweep EXCEPT !.phase = next, !.clean = FALSE]
    /\ UNCHANGED <<cache, index, inflight, landed, version, late>>

SweepDropIndex ==
    /\ sweep.phase = "dropIndex"
    /\ sweep' = [sweep EXCEPT !.phase = "scanModel"]
    /\ \/ index' = [index EXCEPT ![sweep.model] = {}]
       \/ "redisSweep" \in Faults /\ UNCHANGED index
    /\ UNCHANGED <<cache, inflight, landed, version, late>>

Present(scope) == {k \in Keys : cache[k] # NoAnswer /\ k.model \in scope}

(* One round trip of SCAN pred:{model}:* or SCAN pred:*: the cursor visits  *)
(* a part of the keyspace, in an order that only Redis knows, and finds    *)
(* what matches there at that time.  The last trip hands all over; a trip  *)
(* that fails has the walk tried again from its beginning or given up.     *)
ScanStep(phase, next, scope) ==
    /\ sweep.phase = phase
    /\ \/ /\ \E visited \in SUBSET sweep.walk :
               LET found == sweep.found \cup (visited \cap Present(scope))
               IN \/ /\ visited = sweep.walk
                     /\ sweep' = [sweep EXCEPT !.phase = next, !.walk = Keys, !.found = {},
                                              !.victims = @ \cup found]
                  \/ /\ visited \notin {{}, sweep.walk}
                     /\ sweep' = [sweep EXCEPT !.walk = @ \ visited, !.found = found]
          /\ late' = IF sweep.walk = Keys THEN {} ELSE late
       \/ /\ "redisSweep" \in Faults
          /\ \/ sweep' = [sweep EXCEPT !.walk = Keys, !.found = {}]
             \/ sweep' = [sweep EXCEPT !.phase = next, !.walk = Keys, !.found = {}, !.clean = FALSE]
          /\ UNCHANGED late
    /\ UNCHANGED <<cache, index, inflight, landed, version>>

(* Mutant: the sweep relies on the index alone *)
SweepSkipsScan == ScanStep("scanModel", AfterModelScan(sweep.all), {})

SweepScanModel == ScanStep("scanModel", AfterModelScan(sweep.all), {sweep.model})

SweepScanAll == ScanStep("scanAll", "delete", Models)

(* One DEL of at most BatchSize of the collected keys; a failed DEL is     *)
(* logged and the loop goes on with the next slice.                        *)
SweepDelete ==
    /\ sweep.phase = "delete"
    /\ sweep.victims # {}
    /\ \E slice \in SUBSET sweep.victims :
        /\ slice = sweep.victims \/ Cardinality(slice) = BatchSize
        /\ Cardinality(slice) \in 1 .. BatchSize
        /\ \/ /\ cache' = [k \in Keys |-> IF k \in slice THEN NoAnswer ELSE cache[k]]
              /\ sweep' = [sweep EXCEPT !.victims = @ \ slice]
           \/ /\ "redisSweep" \in Faults
              /\ sweep' = [sweep EXCEPT !.victims = @ \ slice, !.clean = FALSE]
              /\ UNCHANGED cache
    /\ UNCHANGED <<index, inflight, landed, version, late>>

SweepEnd ==
    /\ sweep.phase = "delete"
    /\ sweep.victims = {}
    /\ sweep' = [sweep EXCEPT !.phase = "swept"]
    /\ UNCHANGED <<cache, index, inflight, landed, version, late>>

SweepStep ==
    \/ SweepMembers \/ SweepDropIndex \/ SweepScanModel
    \/ SweepScanAll \/ SweepDelete \/ SweepEnd

(* What a sweep covers: the whole cache for a dataset, else one model *)
Covered == IF sweep.all THEN Models ELSE {sweep.model}
=============================================================================

-------------------------- MODULE PredictionServing --------------------------
(***************************************************************************)
(* app/inference/engine.py: PredictionEngine.predict_single() and          *)
(* _execute_predict(), one coroutine per request, interleaved at every     *)
(* await, on top of the prediction cache and its single-flight table.      *)
(*                                                                         *)
(* pc[r] names the await (or the synchronous block after it) at which the  *)
(* request's coroutine stands:                                             *)
(*   idle -> lookup -> hitAudit | missAudit -> check -> wait -> recheck    *)
(*   -> startAudit -> online -> predict -> store -> index -> storeMerged   *)
(*   -> indexMerged -> finishAudit -> release -> publish -> done           *)
(* and, for an exception, -> failAudit -> fallback -> publish | error.     *)
(* A local that is not read any more is reset, to keep the states few.     *)
(***************************************************************************)
EXTENDS PredictionCache

CONSTANTS Loaded,  \* PredictionEngine.predictors: model ids in loading order
          Inputs   \* requests that may arrive

ASSUME ServingAssumption ==
    /\ Loaded \in Seq(Models)
    /\ Inputs \subseteq [target : Models \cup {NoModel}, payload : Payloads, entity : Entities]

VARIABLES
    pc,      \* where each request's coroutine stands
    input,   \* the request: routed model, features, entity id
    key,     \* the local cache_key; NoKey stands for ""
    event,   \* the local inflight_event
    seen,    \* features and version of the online vector given to the predictor
    answer   \* the local response, or NoAnswer

reqVars == <<pc, input, key, event, seen, answer>>
vars == <<cacheVars, reqVars>>

NoInput == [target |-> NoModel, payload |-> NoFeatures, entity |-> NoKey]
NothingSeen == [features |-> NoFeatures, version |-> 0]

Terminal == {"done", "error"}

(* Between check_single_flight and release_single_flight *)
Computing == {"startAudit", "online", "predict", "store", "index", "storeMerged",
              "indexMerged", "finishAudit", "release"}

Control == Computing \cup Terminal \cup
           {"idle", "lookup", "hitAudit", "missAudit", "check", "wait", "recheck",
            "failAudit", "fallback", "publish"}

Init ==
    /\ CacheInit
    /\ pc = [r \in Requests |-> "idle"]
    /\ input = [r \in Requests |-> NoInput]
    /\ key = [r \in Requests |-> NoKey]
    /\ event = [r \in Requests |-> NoFlight]
    /\ seen = [r \in Requests |-> NothingSeen]
    /\ answer = [r \in Requests |-> NoAnswer]

-----------------------------------------------------------------------------
IsLoaded(m) == \E i \in DOMAIN Loaded : Loaded[i] = m

(* for pid, p in self.predictors.items(): the first one that is not m *)
FallbackFor(m) ==
    LET first == {i \in DOMAIN Loaded : Loaded[i] # m /\ \A j \in 1 .. i - 1 : Loaded[j] = m}
    IN IF first = {} THEN NoModel ELSE Loaded[CHOOSE i \in first : TRUE]

(* Mutant: the features as they are, for a request without any as well *)
BarePayload(in) == in.payload

(* initial_payload: the entity id enters only when there are no features *)
InitialPayload(in) ==
    IF in.payload = NoFeatures THEN EntityPayload(in.entity) ELSE in.payload

InitialKey(in) == [model |-> in.target, body |-> Sanitized(InitialPayload(in))]

MergedKey(r) == [model |-> input[r].target, body |-> Sanitized(seen[r].features)]

(* The second store is made for features the lookup did not use *)
StoresMerged(r) ==
    /\ seen[r].features # NoFeatures
    /\ seen[r].features # InitialPayload(input[r])

Response(m, s) == [model |-> m, features |-> s.features, version |-> s.version]

Goto(r, from, to) == pc[r] = from /\ pc' = [pc EXCEPT ![r] = to]

Fails(point) == point \in Faults

-----------------------------------------------------------------------------
(* Routing: the model is chosen and must be loaded in memory *)
Arrive(r) ==
    /\ \E in \in Inputs :
        /\ input' = [input EXCEPT ![r] = in]
        /\ Goto(r, "idle", IF IsLoaded(in.target) THEN "lookup" ELSE "failAudit")
    /\ UNCHANGED <<cacheVars, key, event, seen, answer>>

(* pcache.get_prediction(): Redis GET; a failed GET reads as a miss *)
CacheLookup(r) ==
    LET k == InitialKey(input[r])
    IN /\ \/ /\ Goto(r, "lookup", "hitAudit")
             /\ Hits(k)
             /\ answer' = [answer EXCEPT ![r] = cache[k]]
          \/ /\ Goto(r, "lookup", "missAudit")
             /\ Misses(k)
             /\ UNCHANGED answer
       /\ UNCHANGED <<cacheVars, input, key, event, seen>>

(* The audit row of a hit; if it cannot be written the hit is dropped and  *)
(* the request goes on without a cache key.                                *)
HitAudit(r) ==
    /\ \/ Goto(r, "hitAudit", "publish") /\ UNCHANGED answer
       \/ /\ Fails("hitAudit")
          /\ Goto(r, "hitAudit", "startAudit")
          /\ answer' = [answer EXCEPT ![r] = NoAnswer]
    /\ UNCHANGED <<cacheVars, input, key, event, seen>>

(* The audit row of a miss; cache_key is assigned only after its commit *)
MissAudit(r) ==
    /\ \/ /\ Goto(r, "missAudit", "check")
          /\ key' = [key EXCEPT ![r] = InitialKey(input[r])]
       \/ /\ Fails("missAudit")
          /\ Goto(r, "missAudit", "startAudit")
          /\ UNCHANGED key
    /\ UNCHANGED <<cacheVars, input, event, seen, answer>>

(* check_single_flight(): join the flight of the key, or lead one *)
JoinFlight(r) ==
    /\ Goto(r, "check", "wait")
    /\ inflight[key[r]] # NoFlight
    /\ event' = [event EXCEPT ![r] = inflight[key[r]]]
    /\ UNCHANGED <<cacheVars, input, key, seen, answer>>

LeadFlight(r) ==
    /\ Goto(r, "check", "startAudit")
    /\ Lead(key[r], r)
    /\ UNCHANGED <<input, key, event, seen, answer>>

(* Mutant: the waiter does not wait *)
WakeEarly(r) ==
    /\ Goto(r, "wait", "recheck")
    /\ event' = [event EXCEPT ![r] = NoFlight]
    /\ UNCHANGED <<cacheVars, input, key, seen, answer>>

(* await inflight_event.wait(): no timeout *)
Wake(r) ==
    /\ Goto(r, "wait", "recheck")
    /\ event[r] \in landed
    /\ event' = [event EXCEPT ![r] = NoFlight]
    /\ UNCHANGED <<cacheVars, input, key, seen, answer>>

(* Mutant: a waiter computes without looking the key up again *)
RecomputeAfterWait(r) ==
    /\ Goto(r, "recheck", "startAudit")
    /\ UNCHANGED <<cacheVars, input, key, event, seen, answer>>

(* A waiter looks the key up again; on a miss it computes, without a flight *)
Recheck(r) ==
    LET k == InitialKey(input[r])
    IN /\ \/ /\ Goto(r, "recheck", "publish")
             /\ Hits(k)
             /\ answer' = [answer EXCEPT ![r] = cache[k]]
          \/ /\ Goto(r, "recheck", "startAudit")
             /\ Misses(k)
             /\ UNCHANGED answer
       /\ UNCHANGED <<cacheVars, input, key, event, seen>>

(* The PREDICTION_STARTED row is written before the try whose finally      *)
(* releases the flight: a failure leaves the flight registered.            *)
StartAudit(r) ==
    /\ \/ Goto(r, "startAudit", "online")
       \/ Fails("startAudit") /\ Goto(r, "startAudit", "failAudit")
    /\ UNCHANGED <<cacheVars, input, key, event, seen, answer>>

(* The online vector of the entity, if it has one and it can be read,      *)
(* overlaid with the request's own features.                               *)
ReadOnline(r) ==
    LET in == input[r]
    IN /\ Goto(r, "online", "predict")
       /\ \/ /\ OnlineVector[in.entity] # NoFeatures
             /\ seen' = [seen EXCEPT ![r] =
                    [features |-> Overlay(OnlineVector[in.entity], in.payload), version |-> version]]
          \/ /\ OnlineVector[in.entity] = NoFeatures \/ Fails("online")
             /\ seen' = [seen EXCEPT ![r] = [features |-> in.payload, version |-> 0]]
       /\ UNCHANGED <<cacheVars, input, key, event, answer>>

(* Mutant: an exception of the predictor leaves the block without its finally *)
PredictWithoutFinally(r) ==
    /\ \/ /\ Goto(r, "predict", "store")
          /\ answer' = [answer EXCEPT ![r] = Response(input[r].target, seen[r])]
       \/ /\ Fails("predict")
          /\ Goto(r, "predict", "failAudit")
          /\ UNCHANGED answer
    /\ UNCHANGED <<cacheVars, input, key, event, seen>>

(* Mutant: the fallback predictor answers before the stores *)
PredictOrFallBack(r) ==
    /\ Goto(r, "predict", "store")
    /\ \E m \in {input[r].target} \cup (IF Fails("predict") THEN {FallbackFor(input[r].target)} ELSE {}) :
            answer' = [answer EXCEPT ![r] = Response(m, seen[r])]
    /\ UNCHANGED <<cacheVars, input, key, event, seen>>

(* predictor.predict() and the skew audit; an exception enters the finally *)
Predict(r) ==
    /\ \/ /\ Goto(r, "predict", "store")
          /\ answer' = [answer EXCEPT ![r] = Response(input[r].target, seen[r])]
       \/ /\ Fails("predict")
          /\ Goto(r, "predict", "release")
          /\ UNCHANGED answer
    /\ UNCHANGED <<cacheVars, input, key, event, seen>>

AfterStore(r) == IF StoresMerged(r) THEN "storeMerged" ELSE "finishAudit"

(* store_prediction() under the key of the lookup, then under the key of   *)
(* the merged features: SET, and SADD only if the SET succeeded.           *)
Store(r) ==
    /\ \/ Goto(r, "store", "index") /\ SetKey(InitialKey(input[r]), answer[r])
       \/ Fails("redisSet") /\ Goto(r, "store", AfterStore(r)) /\ UNCHANGED cacheVars
    /\ UNCHANGED <<input, key, event, seen, answer>>

IndexStored(r) ==
    /\ Goto(r, "index", AfterStore(r))
    /\ \/ AddToIndex(InitialKey(input[r]))
       \/ Fails("redisIndex") /\ UNCHANGED cacheVars
    /\ UNCHANGED <<input, key, event, seen, answer>>

StoreMerged(r) ==
    /\ \/ Goto(r, "storeMerged", "indexMerged") /\ SetKey(MergedKey(r), answer[r])
       \/ Fails("redisSet") /\ Goto(r, "storeMerged", "finishAudit") /\ UNCHANGED cacheVars
    /\ UNCHANGED <<input, key, event, seen, answer>>

IndexMerged(r) ==
    /\ Goto(r, "indexMerged", "finishAudit")
    /\ \/ AddToIndex(MergedKey(r))
       \/ Fails("redisIndex") /\ UNCHANGED cacheVars
    /\ UNCHANGED <<input, key, event, seen, answer>>

(* The PREDICTION_FINISHED row; a failure discards the computed response *)
FinishAudit(r) ==
    /\ Goto(r, "finishAudit", "release")
    /\ \/ UNCHANGED answer
       \/ Fails("finishAudit") /\ answer' = [answer EXCEPT ![r] = NoAnswer]
    /\ UNCHANGED <<cacheVars, input, key, event, seen>>

(* finally: release the flight of the key, whoever leads it *)
ReleaseFlight(r) ==
    /\ Goto(r, "release", IF answer[r] = NoAnswer THEN "failAudit" ELSE "publish")
    /\ IF key[r] # NoKey THEN Release(key[r]) ELSE UNCHANGED cacheVars
    /\ key' = [key EXCEPT ![r] = NoKey]
    /\ seen' = [seen EXCEPT ![r] = NothingSeen]
    /\ UNCHANGED <<input, event, answer>>

-----------------------------------------------------------------------------
(* except Exception: the PREDICTION_FAILED row, then another predictor *)
FailAudit(r) ==
    /\ \/ Goto(r, "failAudit",
               IF FallbackFor(input[r].target) = NoModel THEN "error" ELSE "fallback")
       \/ Fails("failAudit") /\ Goto(r, "failAudit", "error")
    /\ UNCHANGED <<cacheVars, input, key, event, seen, answer>>

(* The fallback predictor gets the request's own features, nothing merged *)
Fallback(r) ==
    /\ \/ /\ Goto(r, "fallback", "publish")
          /\ answer' = [answer EXCEPT ![r] =
                Response(FallbackFor(input[r].target),
                         [features |-> input[r].payload, version |-> 0])]
       \/ /\ Fails("fallback")
          /\ Goto(r, "fallback", "error")
          /\ UNCHANGED answer
    /\ UNCHANGED <<cacheVars, input, key, event, seen>>

(* predict_single() publishes INFERENCE_COMPLETED before it returns: if    *)
(* Redis refuses the PUBLISH, the client gets the exception.               *)
Publish(r) ==
    /\ \/ Goto(r, "publish", "done") /\ UNCHANGED answer
       \/ /\ Fails("publish")
          /\ Goto(r, "publish", "error")
          /\ answer' = [answer EXCEPT ![r] = NoAnswer]
    /\ UNCHANGED <<cacheVars, input, key, event, seen>>

-----------------------------------------------------------------------------
Step(r) ==
    \/ CacheLookup(r) \/ HitAudit(r) \/ MissAudit(r)
    \/ JoinFlight(r) \/ LeadFlight(r) \/ Wake(r) \/ Recheck(r)
    \/ StartAudit(r) \/ ReadOnline(r) \/ Predict(r)
    \/ Store(r) \/ IndexStored(r) \/ StoreMerged(r) \/ IndexMerged(r)
    \/ FinishAudit(r) \/ ReleaseFlight(r)
    \/ FailAudit(r) \/ Fallback(r) \/ Publish(r)

CacheEnvironment ==
    /\ \/ \E k \in Keys : Expire(k) \/ InvalidateKey(k)
       \/ \E m \in Models \cup {NoModel}, all \in BOOLEAN : SweepBegin(m, all)
       \/ SweepStep
    /\ UNCHANGED reqVars

Next ==
    \/ \E r \in Requests : Arrive(r) \/ Step(r)
    \/ CacheEnvironment

Spec == Init /\ [][Next]_vars

(* The event loop runs every ready task, and every external call the       *)
(* coroutine awaits ends, by an answer or by its timeout.  Clients are     *)
(* under no obligation to send requests, nor Redis to expire keys.         *)
Fairness == \A r \in Requests : WF_vars(Step(r))

FairSpec == Spec /\ Fairness

-----------------------------------------------------------------------------
(* The type invariant of the engine and its cache. *)
TypeOK ==
    /\ CacheTypeOK
    /\ pc \in [Requests -> Control]
    /\ input \in [Requests -> Inputs \cup {NoInput}]
    /\ key \in [Requests -> Keys \cup {NoKey}]
    /\ event \in [Requests -> Requests \cup {NoFlight}]
    /\ seen \in [Requests -> [features : Features \cup {NoFeatures}, version : 0 .. MaxSweeps + 1]]
    /\ answer \in [Requests -> Answers \cup {NoAnswer}]

(* A registered flight belongs to a request that is still between          *)
(* check_single_flight and release_single_flight for that key, so that     *)
(* somebody is going to release it (prediction_cache.py: "caller should    *)
(* compute and release").  It fails as soon as the PREDICTION_STARTED row  *)
(* can fail, because that write is outside the engine's try/finally.       *)
FlightHasLeader ==
    \A k \in Keys : inflight[k] # NoFlight =>
        pc[inflight[k]] \in Computing /\ key[inflight[k]] = k

(* No lost wake-up: a coroutine blocked on an event that is not set finds  *)
(* that event, and no later one, registered for its key, so the next       *)
(* release of the key wakes it.                                            *)
WaitersAreRegistered ==
    \A r \in Requests : pc[r] = "wait" /\ event[r] \notin landed =>
        inflight[key[r]] = event[r]

(* A response is cached under a model's keys only if that model computed   *)
(* it: the answers of a fallback predictor are not cached.                 *)
CachedByOwnModel ==
    \A k \in Keys : cache[k] # NoAnswer => cache[k].model = k.model

(* Between registration and release at most one request computes a key:    *)
(* what the single-flight table is for.  It needs every waiter to find the *)
(* leader's response, so it is checked without failing calls and expiry.   *)
SoleComputation ==
    \A r, q \in Requests :
        (r # q /\ pc[r] \in Computing /\ pc[q] \in Computing /\ key[r] # NoKey)
            => key[r] # key[q]

(* A flight is released by the request that leads it and by no other.      *)
OnlyLeaderReleases ==
    [][\A r \in Requests : (pc[r] = "release" /\ pc'[r] # "release" /\ key[r] # NoKey)
            => inflight[key[r]] = r]_vars

(* The answer a client receives was computed from its own features, with   *)
(* or without the online vector of its own entity, never from the vector   *)
(* of another entity.                                                      *)
AnswersOwnEntity ==
    \A r \in Requests : pc[r] = "done" =>
        answer[r].features \in
            {input[r].payload, Overlay(OnlineVector[input[r].entity], input[r].payload)}

(* When a sweep none of whose calls failed for good is over, all that is   *)
(* left of what it covers was written after its last scan had begun: an    *)
(* older key is found or deleted, whatever the cursor's order, and however *)
(* often requests write or the walk is tried again.                        *)
SweepLeavesOnlyLateWrites ==
    sweep.phase = "swept" /\ sweep.clean => Present(Covered) \subseteq late

(* Every request that arrives is answered or refused in the end: no        *)
(* request waits for ever on a flight.                                     *)
EveryRequestEnds ==
    \A r \in Requests : pc[r] # "idle" ~> pc[r] \in Terminal

(* The flights as a table of leaders and waiters (module Flights) *)
Waiting(k) == {r \in Requests : pc[r] = "wait" /\ key[r] = k /\ event[r] \notin landed}

FlightTable == INSTANCE Flights WITH
    Callers <- Requests, NoCaller <- NoFlight,
    leader <- inflight, waiting <- [k \in Keys |-> Waiting(k)]

(* The engine uses the table as the abstract one prescribes: a flight that *)
(* lands frees all its waiters at once, and none is added to a flight that *)
(* is not registered.                                                      *)
ImplementsFlights == FlightTable!Spec
=============================================================================

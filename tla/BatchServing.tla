---------------------------- MODULE BatchServing ----------------------------
(***************************************************************************)
(* app/inference/engine.py: PredictionEngine.predict_batch() beside the    *)
(* single requests of PredictionServing.  A batch looks all its rows up in *)
(* one MGET, runs predict_single() for the missing ones in order, and then *)
(* stores their responses itself, a second time, with                      *)
(* PredictionCache.store_batch_predictions().                              *)
(***************************************************************************)
EXTENDS PredictionServing

CONSTANTS Rows,   \* the feature dictionaries of the batch, in order
          Runner, \* the request that is row i's call of predict_single()
          Anon    \* the entity id predict_single() uses for a batch row

ASSUME BatchAssumption ==
    /\ Rows \in Seq(Payloads)
    /\ Rows # << >>
    /\ Runner \in [DOMAIN Rows -> Requests]
    /\ \A i, j \in DOMAIN Rows : Runner[i] = Runner[j] => i = j
    /\ Anon \in Entities
    /\ [target : {in.target : in \in Inputs}, payload : {Rows[i] : i \in DOMAIN Rows},
        entity : {Anon}] \subseteq Inputs

VARIABLES
    phase,     \* where predict_batch() stands
    model,     \* the model it routed to, used for its cache keys
    responses, \* row -> response or NoAnswer
    row,       \* the row predict_single() is running for
    unsaved,   \* rows whose response is yet to be stored by the batch
    unindexed  \* rows that are stored and whose SADD is yet to come

batchVars == <<phase, model, responses, row, unsaved, unindexed>>
allVars == <<vars, batchVars>>

RowIds == DOMAIN Rows

BatchInit ==
    /\ Init
    /\ phase = "idle"
    /\ model = NoModel
    /\ responses = [i \in RowIds |-> NoAnswer]
    /\ row = 0
    /\ unsaved = {}
    /\ unindexed = {}

(* The cache key of a row: its features as they are, even when empty *)
RowKey(i) == [model |-> model, body |-> Sanitized(Rows[i])]

(* Routing by alias: any model, loaded or not, or none *)
BatchBegin ==
    /\ phase = "idle"
    /\ phase' = "lookup"
    /\ \E in \in Inputs : model' = in.target
    /\ UNCHANGED <<vars, responses, row, unsaved, unindexed>>

Missing == {i \in RowIds : responses'[i] = NoAnswer}

(* get_batch_predictions(): one MGET; a failure makes every row a miss *)
BatchLookup ==
    /\ phase = "lookup"
    /\ \/ /\ model # NoModel
          /\ responses' = [i \in RowIds |-> cache[RowKey(i)]]
       \/ /\ model = NoModel \/ Fails("redisGet")
          /\ UNCHANGED responses
    /\ phase' = IF Missing = {} THEN "done" ELSE "rows"
    /\ unsaved' = Missing
    /\ row' = 0
    /\ UNCHANGED <<vars, model, unindexed>>

(* for idx in missing_indices: the next one goes to predict_single(), which *)
(* resolves the alias itself: an alias the batch did not find in the        *)
(* routing registry may still be found in the model registry cache.         *)
BatchNextRow ==
    /\ phase = "rows"
    /\ \E i \in unsaved, in \in Inputs :
        /\ i > row /\ \A j \in unsaved : j > row => i <= j
        /\ in.payload = Rows[i] /\ in.entity = Anon
        /\ model # NoModel => in.target = model
        /\ row' = i
        /\ Goto(Runner[i], "idle", IF IsLoaded(in.target) THEN "lookup" ELSE "failAudit")
        /\ input' = [input EXCEPT ![Runner[i]] = in]
    /\ phase' = "running"
    /\ UNCHANGED <<cacheVars, key, event, seen, answer, model, responses, unsaved, unindexed>>

(* Mutant: the response goes to its place among the missing rows *)
BatchRowDoneShifted ==
    /\ phase = "running"
    /\ pc[Runner[row]] = "done"
    /\ responses' = [responses EXCEPT ![Cardinality({j \in unsaved : j <= row})] = answer[Runner[row]]]
    /\ phase' = IF \E j \in unsaved : j > row THEN "rows" ELSE "store"
    /\ UNCHANGED <<vars, model, row, unsaved, unindexed>>

(* Mutant: the loop counter moves on with the response *)
BatchRowDoneAdvances ==
    /\ phase = "running"
    /\ pc[Runner[row]] = "done"
    /\ responses' = [responses EXCEPT ![row] = answer[Runner[row]]]
    /\ row' = row + 1
    /\ phase' = IF \E j \in unsaved : j > row + 1 THEN "rows" ELSE "store"
    /\ UNCHANGED <<vars, model, unsaved, unindexed>>

(* The awaited predict_single() returns, or raises and ends the batch *)
BatchRowDone ==
    /\ phase = "running"
    /\ \/ /\ pc[Runner[row]] = "done"
          /\ responses' = [responses EXCEPT ![row] = answer[Runner[row]]]
          /\ phase' = IF \E j \in unsaved : j > row THEN "rows"
                      ELSE IF model = NoModel THEN "done" ELSE "store"
       \/ /\ pc[Runner[row]] = "error"
          /\ phase' = "failed"
          /\ UNCHANGED responses
    /\ UNCHANGED <<vars, model, row, unsaved, unindexed>>

(* store_batch_predictions(): the stores of the rows run concurrently; each *)
(* is a SET under the batch's own model, then a SADD.  A failed one is      *)
(* dropped without an error.                                                *)
BatchStore ==
    /\ phase = "store"
    /\ \E i \in unsaved :
        /\ unsaved' = unsaved \ {i}
        /\ \/ SetKey(RowKey(i), responses[i]) /\ unindexed' = unindexed \cup {i}
           \/ Fails("redisSet") /\ UNCHANGED <<cacheVars, unindexed>>
    /\ UNCHANGED <<reqVars, phase, model, responses, row>>

BatchIndex ==
    /\ phase = "store"
    /\ \E i \in unindexed :
        /\ unindexed' = unindexed \ {i}
        /\ \/ AddToIndex(RowKey(i))
           \/ Fails("redisIndex") /\ UNCHANGED cacheVars
    /\ UNCHANGED <<reqVars, phase, model, responses, row, unsaved>>

BatchEnd ==
    /\ phase = "store" /\ unsaved = {} /\ unindexed = {}
    /\ phase' = "done"
    /\ UNCHANGED <<vars, model, responses, row, unsaved, unindexed>>

BatchStep ==
    \/ BatchLookup \/ BatchNextRow \/ BatchRowDone
    \/ BatchStore \/ BatchIndex \/ BatchEnd

(* The requests that come from elsewhere, and every request's own steps *)
Others ==
    \/ \E r \in Requests \ {Runner[i] : i \in RowIds} : Arrive(r)
    \/ \E r \in Requests : Step(r)
    \/ CacheEnvironment

BatchNext ==
    \/ Others /\ UNCHANGED batchVars
    \/ BatchBegin
    \/ BatchStep

BatchSpec == BatchInit /\ [][BatchNext]_allVars

(* The batch's coroutine is scheduled as the requests' are *)
FairBatchSpec ==
    /\ BatchSpec
    /\ \A r \in Requests : WF_allVars(Step(r) /\ UNCHANGED batchVars)
    /\ WF_allVars(BatchStep)

-----------------------------------------------------------------------------
BatchTypeOK ==
    /\ TypeOK
    /\ phase \in {"idle", "lookup", "rows", "running", "store", "done", "failed"}
    /\ model \in Models \cup {NoModel}
    /\ responses \in [RowIds -> Answers \cup {NoAnswer}]
    /\ row \in RowIds \cup {0}
    /\ unsaved \subseteq RowIds
    /\ unindexed \subseteq RowIds

(* The list predict_batch() returns answers row i at place i, whether the  *)
(* response came from the MGET, from the flight of another request or from *)
(* a fallback predictor, and a row without a response never reaches the    *)
(* store: no response is lost and none is shifted when only some of the    *)
(* rows were cached.                                                       *)
RowsAnsweredInOrder ==
    phase \in {"store", "done"} =>
        \A i \in RowIds : responses[i] # NoAnswer /\ responses[i].features = Rows[i]

(* A batch ends, by its list or by the exception of a row, also when its   *)
(* rows wait on the flights of other requests or on each other's keys.     *)
BatchEnds == phase # "idle" ~> phase \in {"done", "failed"}
=============================================================================

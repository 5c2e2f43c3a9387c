----------------------- MODULE PredictionServingProofs -----------------------
(***************************************************************************)
(* Theorems about PredictionServing, for every number of requests, every   *)
(* set of models, payloads and entities, and every set of failing calls;   *)
(* the leader theorem assumes that the PREDICTION_STARTED row is written.  *)
(***************************************************************************)
EXTENDS PredictionServing, TLAPS

(* Where a request has a model to compute with *)
Routed == Computing \cup {"lookup", "hitAudit", "missAudit", "check", "wait", "recheck"}

(* Where it holds the features it gives, or gave, to the predictor *)
Fed == {"predict", "store", "index", "storeMerged", "indexMerged"}

Sight == [features : Features, version : 0 .. MaxSweeps + 1]

(* What the coroutine's locals hold at each place *)
Located ==
    \A r \in Requests :
        /\ pc[r] # "idle" => input[r] \in Inputs
        /\ pc[r] \in Routed => input[r].target \in Models
        /\ pc[r] \in Fed => seen[r] \in Sight
        /\ pc[r] \in Fed \ {"predict"} =>
              answer[r] \in Answers /\ answer[r].model = input[r].target
        /\ pc[r] \in {"check", "wait", "recheck"} => key[r] \in Keys
        /\ pc[r] = "wait" => event[r] \in Requests
        /\ pc[r] = "fallback" => FallbackFor(input[r].target) # NoModel

-----------------------------------------------------------------------------
(* Operators *)

LEMMA LoadedAreModels == \A m : IsLoaded(m) => m \in Models
  BY ServingAssumption DEF IsLoaded

LEMMA FallbackIsModel == \A m : FallbackFor(m) \in Models \cup {NoModel}
  BY ServingAssumption DEF FallbackFor

LEMMA InitialKeyType ==
    ASSUME NEW in \in Inputs, in.target \in Models
    PROVE  InitialKey(in) \in Keys
  BY ServingAssumption DEF InitialKey, InitialPayload, Keys, Bodies, Features

LEMMA OverlayType ==
    ASSUME NEW in \in Inputs
    PROVE  /\ in.payload \in Features
           /\ Overlay(OnlineVector[in.entity], in.payload) \in Features
  BY ServingAssumption DEF Features

-----------------------------------------------------------------------------
(* Type correctness *)

LEMMA TypeInit == Init => TypeOK /\ Located
  BY CacheAssumption DEF Init, CacheInit, TypeOK, CacheTypeOK, Located, IdleSweep,
     SweepPhases, Control, Terminal, Computing, Routed, Fed, NoInput, NothingSeen

(* Any step of a request moves it to a place of the engine *)
LEMMA GotoType ==
    ASSUME TypeOK, NEW r \in Requests, NEW from, NEW to \in Control, Goto(r, from, to)
    PROVE  pc' \in [Requests -> Control]
  BY DEF TypeOK, Goto

LEMMA SetKeyType ==
    ASSUME TypeOK, NEW k \in Keys, NEW a \in Answers, SetKey(k, a)
    PROVE  CacheTypeOK'
  BY DEF TypeOK, CacheTypeOK, SetKey

LEMMA AddToIndexType ==
    ASSUME TypeOK, NEW k \in Keys, AddToIndex(k)
    PROVE  CacheTypeOK'
  BY DEF TypeOK, CacheTypeOK, AddToIndex, Keys

LEMMA LeadType ==
    ASSUME TypeOK, NEW k \in Keys, NEW r \in Requests, Lead(k, r)
    PROVE  CacheTypeOK'
  BY DEF TypeOK, CacheTypeOK, Lead

LEMMA ReleaseType ==
    ASSUME TypeOK, NEW k \in Keys, Release(k)
    PROVE  CacheTypeOK'
  BY DEF TypeOK, CacheTypeOK, Release

LEMMA ExpireType ==
    ASSUME TypeOK, NEW k \in Keys, Expire(k)
    PROVE  CacheTypeOK'
  BY DEF TypeOK, CacheTypeOK, Expire

LEMMA UnchangedCacheType ==
    ASSUME TypeOK, UNCHANGED cacheVars
    PROVE  CacheTypeOK'
  BY DEF TypeOK, CacheTypeOK, cacheVars

LEMMA SweepType ==
    ASSUME TypeOK,
           SweepStep \/ \E m \in Models \cup {NoModel}, all \in BOOLEAN : SweepBegin(m, all)
    PROVE  CacheTypeOK'
<1> DEFINE Sweep(p, m, a, w, f, v, c) ==
              [phase |-> p, model |-> m, all |-> a, walk |-> w, found |-> f, victims |-> v, clean |-> c]
<1> USE DEF TypeOK, CacheTypeOK, SweepPhases
<1>0. /\ sweep.model \in Models \cup {NoModel}
      /\ sweep.all \in BOOLEAN
      /\ sweep.walk \subseteq Keys /\ sweep.found \subseteq Keys /\ sweep.victims \subseteq Keys
      /\ sweep.clean \in BOOLEAN
      /\ sweep = Sweep(sweep.phase, sweep.model, sweep.all, sweep.walk, sweep.found, sweep.victims,
                       sweep.clean)
  OBVIOUS
<1>1. ASSUME NEW m \in Models \cup {NoModel}, NEW all \in BOOLEAN, SweepBegin(m, all)
      PROVE  CacheTypeOK'
  <2>1. sweep' = Sweep(IF m # NoModel THEN "members" ELSE "scanAll", m, all, Keys, {}, {}, TRUE)
    BY <1>1 DEF SweepBegin
  <2>2. version' \in 1 .. MaxSweeps + 1
    BY <1>1, CacheAssumption DEF SweepBegin
  <2>3. /\ UNCHANGED <<cache, index, inflight, landed>>
        /\ late' = {}
        /\ m = NoModel => sweep'.phase = "scanAll"
        /\ m # NoModel => sweep'.phase = "members"
    BY <1>1, <2>1 DEF SweepBegin
  <2>4. sweep'.phase \in {"members", "scanAll"} /\ sweep'.model = m
    BY <2>1, <2>3
  <2>5. QED
    BY <2>1, <2>2, <2>3, <2>4
<1>2. CASE SweepMembers
  <2>1. CASE sweep' = [sweep EXCEPT !.phase = "dropIndex", !.victims = @ \cup index[sweep.model]]
    <3>1. sweep' = Sweep("dropIndex", sweep.model, sweep.all, sweep.walk, sweep.found,
                         sweep.victims \cup index[sweep.model], sweep.clean)
      BY <1>0, <2>1
    <3>2. sweep.model \in Models
      BY <1>2 DEF SweepMembers
    <3>3. index[sweep.model] \subseteq Keys
      BY <3>2
    <3>4. QED
      BY <1>0, <1>2, <3>1, <3>2, <3>3 DEF SweepMembers
  <2>2. CASE \E next \in {"dropIndex", "scanModel"} :
                sweep' = [sweep EXCEPT !.phase = next, !.clean = FALSE]
    BY <1>2, <2>2 DEF SweepMembers
  <2>3. QED
    BY <1>2, <2>1, <2>2 DEF SweepMembers
<1>3. CASE SweepDropIndex
  BY <1>3 DEF SweepDropIndex
<1>4. ASSUME NEW phase, NEW next \in {"delete", "scanAll"}, NEW scope, ScanStep(phase, next, scope)
      PROVE  CacheTypeOK'
  <2>1. ASSUME NEW p \in {sweep.phase, next}, NEW w \in SUBSET Keys, NEW f \in SUBSET Keys,
               NEW v \in SUBSET Keys, NEW c \in BOOLEAN,
               sweep' = Sweep(p, sweep.model, sweep.all, w, f, v, c)
        PROVE  CacheTypeOK'
    <3>1. UNCHANGED <<cache, index, inflight, landed, version>> /\ late' \subseteq Keys
      BY <1>4 DEF ScanStep
    <3>2. sweep'.phase = p /\ sweep'.model = sweep.model
      BY <2>1
    <3>3. QED
      BY <1>0, <1>4, <2>1, <3>1, <3>2
  <2>2. CASE sweep' = [sweep EXCEPT !.walk = Keys, !.found = {}]
    <3>1. sweep' = Sweep(sweep.phase, sweep.model, sweep.all, Keys, {}, sweep.victims, sweep.clean)
      BY <1>0, <2>2
    <3>2. QED
      BY <1>0, <2>1, <3>1
  <2>3. CASE sweep' = [sweep EXCEPT !.phase = next, !.walk = Keys, !.found = {}, !.clean = FALSE]
    <3>1. sweep' = Sweep(next, sweep.model, sweep.all, Keys, {}, sweep.victims, FALSE)
      BY <1>0, <2>3
    <3>2. QED
      BY <1>0, <2>1, <3>1
  <2>4. ASSUME NEW found \in SUBSET Keys,
               sweep' = [sweep EXCEPT !.phase = next, !.walk = Keys, !.found = {},
                                      !.victims = @ \cup found]
        PROVE  CacheTypeOK'
    <3>1. sweep' = Sweep(next, sweep.model, sweep.all, Keys, {}, sweep.victims \cup found, sweep.clean)
      BY <1>0, <2>4
    <3>2. QED
      BY <1>0, <2>1, <3>1
  <2>5. ASSUME NEW visited, NEW found \in SUBSET Keys,
               sweep' = [sweep EXCEPT !.walk = @ \ visited, !.found = found]
        PROVE  CacheTypeOK'
    <3>1. sweep' = Sweep(sweep.phase, sweep.model, sweep.all, sweep.walk \ visited, found,
                         sweep.victims, sweep.clean)
      BY <1>0, <2>5
    <3>2. QED
      BY <1>0, <2>1, <3>1
  <2>6. \A visited \in SUBSET sweep.walk : sweep.found \cup (visited \cap Present(scope)) \in SUBSET Keys
    BY <1>0
  <2>7. ASSUME NEW visited \in SUBSET sweep.walk, NEW found,
               found = sweep.found \cup (visited \cap Present(scope)),
               \/ sweep' = [sweep EXCEPT !.phase = next, !.walk = Keys, !.found = {},
                                        !.victims = @ \cup found]
               \/ sweep' = [sweep EXCEPT !.walk = @ \ visited, !.found = found]
        PROVE  CacheTypeOK'
    <3> HIDE DEF CacheTypeOK
    <3>1. found \in SUBSET Keys
      BY <2>6, <2>7
    <3>2. CASE sweep' = [sweep EXCEPT !.phase = next, !.walk = Keys, !.found = {},
                                      !.victims = @ \cup found]
      BY <2>4, <3>1, <3>2, Zenon
    <3>3. CASE sweep' = [sweep EXCEPT !.walk = @ \ visited, !.found = found]
      BY <2>5, <3>1, <3>3, Zenon
    <3>4. QED
      BY <2>7, <3>2, <3>3
  <2> HIDE DEF CacheTypeOK
  <2>8. QED
    BY <1>4, <2>2, <2>3, <2>7 DEF ScanStep
<1>5. CASE SweepDelete
  <2>1. cache' \in [Keys -> Answers \cup {NoAnswer}]
    <3>1. PICK slice \in SUBSET sweep.victims :
              \/ cache' = [k \in Keys |-> IF k \in slice THEN NoAnswer ELSE cache[k]]
              \/ cache' = cache
      BY <1>5, Zenon DEF SweepDelete
    <3>2. QED
      BY <3>1
  <2>2. PICK rest \in SUBSET sweep.victims, c \in BOOLEAN :
            sweep' = Sweep("delete", sweep.model, sweep.all, sweep.walk, sweep.found, rest, c)
    <3>1. PICK slice \in SUBSET sweep.victims :
              \/ sweep' = [sweep EXCEPT !.victims = @ \ slice]
              \/ sweep' = [sweep EXCEPT !.victims = @ \ slice, !.clean = FALSE]
      BY <1>5 DEF SweepDelete
    <3>2. sweep.phase = "delete" /\ sweep.victims \ slice \in SUBSET sweep.victims
      BY <1>5 DEF SweepDelete
    <3>3. \/ sweep' = Sweep("delete", sweep.model, sweep.all, sweep.walk, sweep.found,
                            sweep.victims \ slice, sweep.clean)
          \/ sweep' = Sweep("delete", sweep.model, sweep.all, sweep.walk, sweep.found,
                            sweep.victims \ slice, FALSE)
      BY <1>0, <3>1, <3>2
    <3>4. QED
      BY <1>0, <3>2, <3>3
  <2>3. QED
    BY <1>0, <1>5, <2>1, <2>2 DEF SweepDelete
<1>6. CASE SweepEnd
  BY <1>6 DEF SweepEnd
<1>7. QED
  BY <1>1, <1>2, <1>3, <1>4, <1>5, <1>6
     DEF SweepStep, SweepScanModel, SweepScanAll, AfterModelScan

LEMMA StepType ==
    ASSUME TypeOK, Located, NEW r \in Requests, Arrive(r) \/ Step(r)
    PROVE  TypeOK' /\ Located'
<1> DEFINE T == /\ pc' \in [Requests -> Control]
               /\ input' \in [Requests -> Inputs \cup {NoInput}]
               /\ key' \in [Requests -> Keys \cup {NoKey}]
               /\ event' \in [Requests -> Requests \cup {NoFlight}]
               /\ seen' \in [Requests -> [features : Features \cup {NoFeatures}, version : 0 .. MaxSweeps + 1]]
               /\ answer' \in [Requests -> Answers \cup {NoAnswer}]
<1>t. TypeOK' <=> CacheTypeOK' /\ T
  BY DEF TypeOK
<1>l. /\ pc[r] # "idle" => input[r] \in Inputs
      /\ pc[r] \in Routed => input[r].target \in Models
      /\ pc[r] \in Routed => InitialKey(input[r]) \in Keys
      /\ pc[r] \in Fed => seen[r] \in Sight /\ MergedKey(r) \in Keys
      /\ pc[r] \in Fed => MergedKey(r).model = input[r].target
      /\ InitialKey(input[r]).model = input[r].target
      /\ pc[r] \in Fed \ {"predict"} =>
              answer[r] \in Answers /\ answer[r].model = input[r].target
      /\ pc[r] \in {"check", "wait", "recheck"} => key[r] \in Keys
  BY InitialKeyType DEF Located, Routed, Fed, Computing, MergedKey, Keys, Bodies, Sight, InitialKey
<1>a. AfterStore(r) \in {"storeMerged", "finishAudit"}
  BY DEF AfterStore
<1> USE DEF Routed, Fed, Computing, Control, Terminal
<1>1. CASE Arrive(r)
  <2>1. CacheTypeOK'
    BY <1>1, <1>l, UnchangedCacheType DEF Arrive, Goto
  <2>2. T
    BY <1>1, <1>l, <1>a, LoadedAreModels DEF Arrive, Goto, TypeOK, CacheTypeOK
  <2>3. Located'
    BY <1>1, <1>l, <1>a, LoadedAreModels DEF Arrive, Goto, TypeOK, CacheTypeOK, Located
  <2>4. QED
    BY <1>t, <2>1, <2>2, <2>3
<1>2. CASE CacheLookup(r)
  <2>1. CacheTypeOK'
    BY <1>2, <1>l, UnchangedCacheType DEF CacheLookup, Goto
  <2>2. T
    BY <1>2, <1>l, <1>a DEF CacheLookup, Goto, TypeOK, CacheTypeOK
  <2>3. Located'
    BY <1>2, <1>l, <1>a DEF CacheLookup, Goto, TypeOK, CacheTypeOK, Located
  <2>4. QED
    BY <1>t, <2>1, <2>2, <2>3
<1>3. CASE HitAudit(r)
  <2>1. CacheTypeOK'
    BY <1>3, <1>l, UnchangedCacheType DEF HitAudit, Goto
  <2>2. T
    BY <1>3, <1>l, <1>a DEF HitAudit, Goto, TypeOK, CacheTypeOK
  <2>3. Located'
    BY <1>3, <1>l, <1>a DEF HitAudit, Goto, TypeOK, CacheTypeOK, Located
  <2>4. QED
    BY <1>t, <2>1, <2>2, <2>3
<1>4. CASE MissAudit(r)
  <2>1. CacheTypeOK'
    BY <1>4, <1>l, UnchangedCacheType DEF MissAudit, Goto
  <2>2. T
    BY <1>4, <1>l, <1>a DEF MissAudit, Goto, TypeOK
  <2>3. Located'
    BY <1>4, <1>l, <1>a DEF MissAudit, Goto, TypeOK, Located
  <2>4. QED
    BY <1>t, <2>1, <2>2, <2>3
<1>5. CASE JoinFlight(r)
  <2>1. CacheTypeOK'
    BY <1>5, <1>l, UnchangedCacheType DEF JoinFlight, Goto
  <2>2. T
    BY <1>5, <1>l, <1>a DEF JoinFlight, Goto, TypeOK, CacheTypeOK
  <2>3. Located'
    BY <1>5, <1>l, <1>a DEF JoinFlight, Goto, TypeOK, CacheTypeOK, Located
  <2>4. QED
    BY <1>t, <2>1, <2>2, <2>3
<1>6. CASE LeadFlight(r)
  <2>1. CacheTypeOK'
    BY <1>6, <1>l, UnchangedCacheType, LeadType DEF LeadFlight, Goto
  <2>2. T
    BY <1>6, <1>l, <1>a DEF LeadFlight, Goto, TypeOK, CacheTypeOK
  <2>3. Located'
    BY <1>6, <1>l, <1>a DEF LeadFlight, Goto, TypeOK, CacheTypeOK, Located
  <2>4. QED
    BY <1>t, <2>1, <2>2, <2>3
<1>7. CASE Wake(r)
  <2>1. CacheTypeOK'
    BY <1>7, <1>l, UnchangedCacheType DEF Wake, Goto
  <2>2. T
    BY <1>7, <1>l, <1>a DEF Wake, Goto, TypeOK, CacheTypeOK
  <2>3. Located'
    BY <1>7, <1>l, <1>a DEF Wake, Goto, TypeOK, CacheTypeOK, Located
  <2>4. QED
    BY <1>t, <2>1, <2>2, <2>3
<1>8. CASE Recheck(r)
  <2>1. CacheTypeOK'
    BY <1>8, <1>l, UnchangedCacheType DEF Recheck, Goto
  <2>2. T
    BY <1>8, <1>l, <1>a DEF Recheck, Goto, TypeOK, CacheTypeOK
  <2>3. Located'
    BY <1>8, <1>l, <1>a DEF Recheck, Goto, TypeOK, CacheTypeOK, Located
  <2>4. QED
    BY <1>t, <2>1, <2>2, <2>3
<1>9. CASE StartAudit(r)
  <2>1. CacheTypeOK'
    BY <1>9, <1>l, UnchangedCacheType DEF StartAudit, Goto
  <2>2. T
    BY <1>9, <1>l, <1>a DEF StartAudit, Goto, TypeOK, CacheTypeOK
  <2>3. Located'
    BY <1>9, <1>l, <1>a DEF StartAudit, Goto, TypeOK, CacheTypeOK, Located
  <2>4. QED
    BY <1>t, <2>1, <2>2, <2>3
<1>10. CASE ReadOnline(r)
  <2>1. CacheTypeOK'
    BY <1>10, UnchangedCacheType DEF ReadOnline
  <2>2. PICK s \in Sight : seen' = [seen EXCEPT ![r] = s]
    <3>1. 0 \in 0 .. MaxSweeps + 1 /\ version \in 0 .. MaxSweeps + 1
      BY CacheAssumption DEF TypeOK, CacheTypeOK
    <3>2. input[r] \in Inputs
      BY <1>10, <1>l DEF ReadOnline, Goto
    <3>3. QED
      BY <1>10, <3>1, <3>2, OverlayType DEF ReadOnline, Sight
  <2>3. T
    BY <1>10, <2>2 DEF ReadOnline, Goto, TypeOK, Sight
  <2>4. Located'
    BY <1>10, <2>2 DEF ReadOnline, Goto, TypeOK, Located
  <2>5. QED
    BY <1>t, <2>1, <2>3, <2>4
<1>11. CASE Predict(r)
  <2>1. CacheTypeOK'
    BY <1>11, UnchangedCacheType DEF Predict
  <2>2. Response(input[r].target, seen[r]) \in Answers
    BY <1>11, <1>l DEF Predict, Goto, Response, Answers, Sight
  <2>3. Response(input[r].target, seen[r]).model = input[r].target
    BY DEF Response
  <2>4. T
    BY <1>11, <2>2 DEF Predict, Goto, TypeOK
  <2>5. Located'
    BY <1>11, <2>2, <2>3 DEF Predict, Goto, TypeOK, Located
  <2>6. QED
    BY <1>t, <2>1, <2>4, <2>5
<1>12. CASE Store(r)
  <2>1. CacheTypeOK'
    BY <1>12, <1>l, UnchangedCacheType, SetKeyType DEF Store, Goto
  <2>2. T
    BY <1>12, <1>l, <1>a DEF Store, Goto, TypeOK, CacheTypeOK
  <2>3. Located'
    BY <1>12, <1>l, <1>a DEF Store, Goto, TypeOK, CacheTypeOK, Located
  <2>4. QED
    BY <1>t, <2>1, <2>2, <2>3
<1>13. CASE IndexStored(r)
  <2>1. CacheTypeOK'
    BY <1>13, <1>l, UnchangedCacheType, AddToIndexType DEF IndexStored, Goto
  <2>2. T
    BY <1>13, <1>l, <1>a DEF IndexStored, Goto, TypeOK, CacheTypeOK
  <2>3. Located'
    BY <1>13, <1>l, <1>a DEF IndexStored, Goto, TypeOK, CacheTypeOK, Located
  <2>4. QED
    BY <1>t, <2>1, <2>2, <2>3
<1>14. CASE StoreMerged(r)
  <2>1. CacheTypeOK'
    BY <1>14, <1>l, UnchangedCacheType, SetKeyType DEF StoreMerged, Goto
  <2>2. T
    BY <1>14, <1>l, <1>a DEF StoreMerged, Goto, TypeOK, CacheTypeOK
  <2>3. Located'
    BY <1>14, <1>l, <1>a DEF StoreMerged, Goto, TypeOK, CacheTypeOK, Located
  <2>4. QED
    BY <1>t, <2>1, <2>2, <2>3
<1>15. CASE IndexMerged(r)
  <2>1. CacheTypeOK'
    BY <1>15, <1>l, UnchangedCacheType, AddToIndexType DEF IndexMerged, Goto
  <2>2. T
    BY <1>15, <1>l, <1>a DEF IndexMerged, Goto, TypeOK, CacheTypeOK
  <2>3. Located'
    BY <1>15, <1>l, <1>a DEF IndexMerged, Goto, TypeOK, CacheTypeOK, Located
  <2>4. QED
    BY <1>t, <2>1, <2>2, <2>3
<1>16. CASE FinishAudit(r)
  <2>1. CacheTypeOK'
    BY <1>16, <1>l, UnchangedCacheType DEF FinishAudit, Goto
  <2>2. T
    BY <1>16, <1>l, <1>a DEF FinishAudit, Goto, TypeOK, CacheTypeOK
  <2>3. Located'
    BY <1>16, <1>l, <1>a DEF FinishAudit, Goto, TypeOK, CacheTypeOK, Located
  <2>4. QED
    BY <1>t, <2>1, <2>2, <2>3
<1>17. CASE ReleaseFlight(r)
  <2>1. CacheTypeOK'
    <3>1. key[r] # NoKey => key[r] \in Keys
      BY DEF TypeOK
    <3>2. QED
      BY <1>17, <3>1, UnchangedCacheType, ReleaseType DEF ReleaseFlight
  <2>2. NothingSeen \in [features : Features \cup {NoFeatures}, version : 0 .. MaxSweeps + 1]
    BY CacheAssumption DEF NothingSeen
  <2>3. T
    BY <1>17, <2>2 DEF ReleaseFlight, Goto, TypeOK
  <2>4. Located'
    BY <1>17, <1>l DEF ReleaseFlight, Goto, TypeOK, Located
  <2>5. QED
    BY <1>t, <2>1, <2>3, <2>4
<1>18. CASE FailAudit(r)
  <2>1. CacheTypeOK'
    BY <1>18, <1>l, UnchangedCacheType DEF FailAudit, Goto
  <2>2. T
    BY <1>18, <1>l, <1>a, FallbackIsModel DEF FailAudit, Goto, TypeOK, CacheTypeOK
  <2>3. Located'
    BY <1>18, <1>l, <1>a, FallbackIsModel DEF FailAudit, Goto, TypeOK, CacheTypeOK, Located
  <2>4. QED
    BY <1>t, <2>1, <2>2, <2>3
<1>19. CASE Fallback(r)
  <2>1. CacheTypeOK'
    BY <1>19, UnchangedCacheType DEF Fallback
  <2>2. Response(FallbackFor(input[r].target), [features |-> input[r].payload, version |-> 0]) \in Answers
    <3>1. FallbackFor(input[r].target) \in Models
      BY <1>19, FallbackIsModel DEF Fallback, Goto, Located
    <3>2. input[r].payload \in Features
      BY <1>19, <1>l, OverlayType DEF Fallback, Goto
    <3>3. 0 \in 0 .. MaxSweeps + 1
      BY CacheAssumption
    <3>4. QED
      BY <3>1, <3>2, <3>3 DEF Response, Answers
  <2>3. T
    BY <1>19, <2>2 DEF Fallback, Goto, TypeOK
  <2>4. Located'
    BY <1>19 DEF Fallback, Goto, TypeOK, Located
  <2>5. QED
    BY <1>t, <2>1, <2>3, <2>4
<1>20. CASE Publish(r)
  <2>1. CacheTypeOK'
    BY <1>20, <1>l, UnchangedCacheType DEF Publish, Goto
  <2>2. T
    BY <1>20, <1>l, <1>a DEF Publish, Goto, TypeOK, CacheTypeOK
  <2>3. Located'
    BY <1>20, <1>l, <1>a DEF Publish, Goto, TypeOK, CacheTypeOK, Located
  <2>4. QED
    BY <1>t, <2>1, <2>2, <2>3
<1>21. QED
  BY <1>1, <1>2, <1>3, <1>4, <1>5, <1>6, <1>7, <1>8, <1>9, <1>10, <1>11, <1>12, <1>13, <1>14, <1>15, <1>16, <1>17, <1>18, <1>19, <1>20 DEF Step

LEMMA EnvironmentType ==
    ASSUME TypeOK, Located, CacheEnvironment
    PROVE  TypeOK' /\ Located'
<1>1. CacheTypeOK'
  <2>1. CASE \E k \in Keys : Expire(k) \/ InvalidateKey(k)
    BY <2>1, ExpireType DEF InvalidateKey
  <2>2. CASE SweepStep \/ \E m \in Models \cup {NoModel}, all \in BOOLEAN : SweepBegin(m, all)
    BY <2>2, SweepType
  <2>3. QED
    BY <2>1, <2>2 DEF CacheEnvironment
<1>2. QED
  BY <1>1 DEF CacheEnvironment, reqVars, TypeOK, Located

LEMMA NextType == TypeOK /\ Located /\ [Next]_vars => TypeOK' /\ Located'
<1> SUFFICES ASSUME TypeOK, Located, [Next]_vars PROVE TypeOK' /\ Located'
  OBVIOUS
<1>1. ASSUME NEW r \in Requests, Arrive(r) \/ Step(r) PROVE TypeOK' /\ Located'
  BY <1>1, StepType
<1>2. CASE CacheEnvironment
  BY <1>2, EnvironmentType
<1>3. CASE UNCHANGED vars
  BY <1>3 DEF vars, cacheVars, reqVars, TypeOK, CacheTypeOK, Located
<1>4. QED
  BY <1>1, <1>2, <1>3 DEF Next

(* The type invariant: every variable keeps its shape, and each local of   *)
(* a request is set wherever the engine reads it.                          *)
THEOREM TypeCorrect == Spec => [](TypeOK /\ Located)
<1>1. Init => TypeOK /\ Located
  BY TypeInit
<1>2. TypeOK /\ Located /\ [Next]_vars => (TypeOK /\ Located)'
  BY NextType
<1>3. QED
  BY <1>1, <1>2, PTL DEF Spec

-----------------------------------------------------------------------------
(* Flights *)

(* The actions that leave the single-flight table alone and join nobody *)
Quiet(r) ==
    \/ Arrive(r) \/ CacheLookup(r) \/ HitAudit(r) \/ MissAudit(r) \/ Wake(r) \/ Recheck(r)
    \/ StartAudit(r) \/ ReadOnline(r) \/ Predict(r)
    \/ Store(r) \/ IndexStored(r) \/ StoreMerged(r) \/ IndexMerged(r)
    \/ FinishAudit(r) \/ FailAudit(r) \/ Fallback(r) \/ Publish(r)

LEMMA QuietStep ==
    ASSUME TypeOK, NEW r \in Requests, Quiet(r)
    PROVE  /\ UNCHANGED <<inflight, landed>>
           /\ \A q \in Requests \ {r} :
                  /\ pc'[q] = pc[q] /\ key'[q] = key[q]
                  /\ event'[q] = event[q] /\ input'[q] = input[q]
           /\ pc'[r] # "wait"
           /\ pc[r] = "wait" => event[r] \in landed
           /\ pc[r] # "idle" => input'[r] = input[r]
           /\ pc'[r] # "idle"
           /\ pc[r] \in Computing => key'[r] = key[r]
           /\ pc[r] \in Computing /\ "startAudit" \notin Faults => pc'[r] \in Computing
<1> USE DEF TypeOK, Goto, Computing, cacheVars, Fails
<1>1. CASE Arrive(r) \/ CacheLookup(r) \/ HitAudit(r) \/ MissAudit(r) \/ Wake(r) \/ Recheck(r)
  BY <1>1 DEF Arrive, CacheLookup, HitAudit, MissAudit, Wake, Recheck
<1>2. CASE StartAudit(r) \/ ReadOnline(r) \/ Predict(r)
  BY <1>2 DEF StartAudit, ReadOnline, Predict
<1>3. CASE Store(r) \/ IndexStored(r) \/ StoreMerged(r) \/ IndexMerged(r)
  BY <1>3 DEF Store, IndexStored, StoreMerged, IndexMerged, SetKey, AddToIndex, AfterStore
<1>4. CASE FinishAudit(r) \/ FailAudit(r) \/ Fallback(r) \/ Publish(r)
  BY <1>4 DEF FinishAudit, FailAudit, Fallback, Publish
<1>5. QED
  BY <1>1, <1>2, <1>3, <1>4 DEF Quiet

LEMMA EnvironmentIsQuiet ==
    ASSUME CacheEnvironment
    PROVE  UNCHANGED <<inflight, landed, pc, key, event, input>>
  BY DEF CacheEnvironment, reqVars, Expire, InvalidateKey, SweepBegin, SweepStep, SweepMembers,
     SweepDropIndex, SweepScanModel, SweepScanAll, ScanStep, SweepDelete, SweepEnd

LEMMA NextCases ==
    ASSUME [Next]_vars
    PROVE  \/ \E r \in Requests : Quiet(r)
           \/ \E r \in Requests : JoinFlight(r)
           \/ \E r \in Requests : LeadFlight(r)
           \/ \E r \in Requests : ReleaseFlight(r)
           \/ UNCHANGED <<inflight, landed, pc, key, event, input>>
  BY EnvironmentIsQuiet DEF Next, Step, Quiet, vars, cacheVars, reqVars

LEMMA WaitersStep ==
    ASSUME TypeOK, Located, WaitersAreRegistered, [Next]_vars
    PROVE  WaitersAreRegistered'
<1> USE DEF WaitersAreRegistered
<1>1. ASSUME NEW r \in Requests, Quiet(r) PROVE WaitersAreRegistered'
  BY <1>1, QuietStep
<1>2. ASSUME NEW r \in Requests, JoinFlight(r) PROVE WaitersAreRegistered'
  BY <1>2 DEF JoinFlight, Goto, TypeOK, cacheVars
<1>3. ASSUME NEW r \in Requests, LeadFlight(r) PROVE WaitersAreRegistered'
  <2>1. key[r] \in Keys /\ inflight[key[r]] = NoFlight
    BY <1>3 DEF LeadFlight, Lead, Goto, Located
  <2>2. ASSUME NEW q \in Requests, pc'[q] = "wait", event'[q] \notin landed'
        PROVE  inflight'[key'[q]] = event'[q]
    <3>1. q # r /\ pc[q] = "wait" /\ event[q] \notin landed
      BY <1>3, <2>2 DEF LeadFlight, Lead, Goto, TypeOK
    <3>2. key[q] # key[r]
      BY <2>1, <3>1, CacheAssumption DEF Located
    <3>3. QED
      BY <1>3, <2>1, <3>1, <3>2 DEF LeadFlight, Lead, TypeOK, CacheTypeOK
  <2>3. QED
    BY <2>2
<1>4. ASSUME NEW r \in Requests, ReleaseFlight(r) PROVE WaitersAreRegistered'
  <2>1. ASSUME NEW q \in Requests, pc'[q] = "wait", event'[q] \notin landed'
        PROVE  inflight'[key'[q]] = event'[q]
    <3>1. /\ q # r /\ pc[q] = "wait" /\ key'[q] = key[q] /\ event'[q] = event[q]
          /\ key[q] \in Keys /\ event[q] \in Requests
      BY <1>4, <2>1 DEF ReleaseFlight, Goto, TypeOK, Located
    <3>2. event[q] \notin landed
      BY <1>4, <2>1, <3>1 DEF ReleaseFlight, Release, cacheVars
    <3>3. inflight[key[q]] = event[q]
      BY <3>1, <3>2
    <3>4. CASE key[r] = key[q]
      BY <1>4, <2>1, <3>1, <3>3, <3>4, KeyAssumption DEF ReleaseFlight, Release, TypeOK, CacheTypeOK
    <3>5. CASE key[r] # key[q]
      BY <1>4, <3>1, <3>3, <3>5 DEF ReleaseFlight, Release, TypeOK, CacheTypeOK, cacheVars
    <3>6. QED
      BY <3>4, <3>5
  <2>2. QED
    BY <2>1
<1>5. CASE UNCHANGED <<inflight, landed, pc, key, event, input>>
  BY <1>5
<1>6. QED
  BY <1>1, <1>2, <1>3, <1>4, <1>5, NextCases

(* No wake-up is lost, whatever calls fail: a request that waits on an     *)
(* event that is not set finds this very event registered for its key.     *)
THEOREM NoLostWakeup == Spec => []WaitersAreRegistered
<1>1. Init => WaitersAreRegistered
  BY DEF Init, WaitersAreRegistered
<1>2. TypeOK /\ Located /\ WaitersAreRegistered /\ [Next]_vars => WaitersAreRegistered'
  BY WaitersStep
<1>3. QED
  BY <1>1, <1>2, TypeCorrect, PTL DEF Spec

LEMMA LeaderStep ==
    ASSUME TypeOK, Located, FlightHasLeader, [Next]_vars, "startAudit" \notin Faults
    PROVE  FlightHasLeader'
<1> USE DEF FlightHasLeader
<1>0. \A k \in Keys : inflight[k] # NoFlight => inflight[k] \in Requests
  BY DEF TypeOK, CacheTypeOK
<1>1. ASSUME NEW r \in Requests, Quiet(r) PROVE FlightHasLeader'
  BY <1>0, <1>1, QuietStep
<1>2. ASSUME NEW r \in Requests, JoinFlight(r) PROVE FlightHasLeader'
  BY <1>0, <1>2 DEF JoinFlight, Goto, TypeOK, cacheVars, Computing
<1>3. ASSUME NEW r \in Requests, LeadFlight(r) PROVE FlightHasLeader'
  <2>1. key[r] \in Keys /\ inflight' = [inflight EXCEPT ![key[r]] = r]
    BY <1>3 DEF LeadFlight, Lead, Goto, Located
  <2>2. pc' = [pc EXCEPT ![r] = "startAudit"] /\ key' = key /\ pc[r] = "check"
    BY <1>3 DEF LeadFlight, Goto
  <2>3. QED
    BY <1>0, <2>1, <2>2 DEF TypeOK, CacheTypeOK, Computing
<1>4. ASSUME NEW r \in Requests, ReleaseFlight(r) PROVE FlightHasLeader'
  <2>1. ASSUME NEW k \in Keys, inflight'[k] # NoFlight
        PROVE  pc'[inflight'[k]] \in Computing /\ key'[inflight'[k]] = k
    <3>1. inflight'[k] = inflight[k] /\ inflight[k] \in Requests
      BY <1>0, <1>4, <2>1 DEF ReleaseFlight, Release, TypeOK, CacheTypeOK, cacheVars
    <3>2. key[r] = k => inflight'[k] = NoFlight
      BY <1>4, KeyAssumption DEF ReleaseFlight, Release, TypeOK, CacheTypeOK
    <3>3. inflight[k] # r
      BY <2>1, <3>1, <3>2
    <3>4. QED
      BY <1>4, <2>1, <3>1, <3>3 DEF ReleaseFlight, Goto, TypeOK
  <2>2. QED
    BY <2>1
<1>5. CASE UNCHANGED <<inflight, landed, pc, key, event, input>>
  BY <1>5
<1>6. QED
  BY <1>1, <1>2, <1>3, <1>4, <1>5, NextCases

(* If the PREDICTION_STARTED row is always written, every registered       *)
(* flight has a leader that is still on its way to release it.             *)
THEOREM FlightsAreLed ==
    ASSUME "startAudit" \notin Faults
    PROVE  Spec => []FlightHasLeader
<1>1. Init => FlightHasLeader
  BY DEF Init, CacheInit, FlightHasLeader
<1>2. TypeOK /\ Located /\ FlightHasLeader /\ [Next]_vars => FlightHasLeader'
  BY LeaderStep
<1>3. QED
  BY <1>1, <1>2, TypeCorrect, PTL DEF Spec

-----------------------------------------------------------------------------
(* Cached responses *)

LEMMA OwnModelStep ==
    ASSUME TypeOK, Located, CachedByOwnModel, [Next]_vars
    PROVE  CachedByOwnModel'
<1> USE DEF CachedByOwnModel
<1>1. ASSUME NEW k \in Keys, NEW a, a.model = k.model, SetKey(k, a) PROVE CachedByOwnModel'
  BY <1>1 DEF SetKey, TypeOK, CacheTypeOK
<1>2. ASSUME NEW r \in Requests, Store(r) PROVE CachedByOwnModel'
  <2>1. /\ InitialKey(input[r]) \in Keys
        /\ answer[r].model = InitialKey(input[r]).model
    BY <1>2, InitialKeyType DEF Store, Goto, Located, Routed, Fed, Computing, InitialKey
  <2>2. QED
    BY <1>1, <1>2, <2>1 DEF Store, cacheVars
<1>3. ASSUME NEW r \in Requests, StoreMerged(r) PROVE CachedByOwnModel'
  <2>1. MergedKey(r) \in Keys /\ answer[r].model = MergedKey(r).model
    BY <1>3 DEF StoreMerged, Goto, Located, Routed, Fed, Computing, MergedKey, Keys, Bodies, Sight
  <2>2. QED
    BY <1>1, <1>3, <2>1 DEF StoreMerged, cacheVars
<1>4. ASSUME NEW r \in Requests, Quiet(r), ~ Store(r), ~ StoreMerged(r) PROVE cache' = cache
  BY <1>4 DEF Quiet, Arrive, CacheLookup, HitAudit, MissAudit, Wake, Recheck, StartAudit, ReadOnline,
     Predict, IndexStored, IndexMerged, AddToIndex, FinishAudit, FailAudit, Fallback, Publish, cacheVars
<1>5. ASSUME NEW r \in Requests, JoinFlight(r) \/ LeadFlight(r) \/ ReleaseFlight(r)
      PROVE  cache' = cache
  BY <1>5 DEF JoinFlight, LeadFlight, Lead, ReleaseFlight, Release, cacheVars
<1>6. ASSUME CacheEnvironment PROVE \A k \in Keys : cache'[k] \in {cache[k], NoAnswer}
  <2>1. ASSUME NEW k \in Keys, Expire(k) PROVE \A q \in Keys : cache'[q] \in {cache[q], NoAnswer}
    BY <2>1 DEF Expire, TypeOK, CacheTypeOK
  <2>2. ASSUME SweepDelete PROVE \A q \in Keys : cache'[q] \in {cache[q], NoAnswer}
    <3>1. PICK slice \in SUBSET sweep.victims :
              \/ cache' = [k \in Keys |-> IF k \in slice THEN NoAnswer ELSE cache[k]]
              \/ cache' = cache
      BY <2>2, Zenon DEF SweepDelete
    <3>2. QED
      BY <3>1
  <2>3. QED
    BY <1>6, <2>1, <2>2 DEF CacheEnvironment, InvalidateKey, SweepBegin, SweepStep, SweepMembers,
       SweepDropIndex, SweepScanModel, SweepScanAll, ScanStep, SweepEnd
<1>7. ASSUME CacheEnvironment PROVE CachedByOwnModel'
  BY <1>6, <1>7
<1>8. CASE UNCHANGED vars
  BY <1>8 DEF vars, cacheVars
<1>9. QED
  BY <1>2, <1>3, <1>4, <1>5, <1>7, <1>8 DEF Next, Step, Quiet

(* Whatever fails, a response is cached only under the model that computed *)
(* it: predict_single() never caches what a fallback predictor answered.   *)
THEOREM OwnModelCached == Spec => []CachedByOwnModel
<1>1. Init => CachedByOwnModel
  BY DEF Init, CacheInit, CachedByOwnModel
<1>2. TypeOK /\ Located /\ CachedByOwnModel /\ [Next]_vars => CachedByOwnModel'
  BY OwnModelStep
<1>3. QED
  BY <1>1, <1>2, TypeCorrect, PTL DEF Spec

-----------------------------------------------------------------------------
(* Refinement *)

(* Places a request passes before it can lead a flight *)
BeforeFlight == {"idle", "lookup", "hitAudit", "missAudit", "check"}

(* An event is registered at most once, for the key its leader looked up,  *)
(* and is not set while it is registered.                                  *)
EventsAreFresh ==
    /\ \A k \in Keys : inflight[k] # NoFlight =>
           /\ inflight[k] \notin landed
           /\ InitialKey(input[inflight[k]]) = k
    /\ \A r \in Requests : pc[r] \in BeforeFlight =>
           /\ r \notin landed
           /\ \A k \in Keys : inflight[k] # r
    /\ \A r \in Requests : pc[r] = "check" => key[r] = InitialKey(input[r])

LEMMA QuietBefore ==
    ASSUME TypeOK, NEW r \in Requests, Quiet(r)
    PROVE  /\ pc'[r] \in BeforeFlight => pc[r] \in BeforeFlight
           /\ pc'[r] = "check" => key'[r] = InitialKey(input'[r])
<1> USE DEF TypeOK, Goto, BeforeFlight
<1>1. CASE Arrive(r) \/ CacheLookup(r) \/ HitAudit(r) \/ MissAudit(r) \/ Wake(r) \/ Recheck(r)
  BY <1>1 DEF Arrive, CacheLookup, HitAudit, MissAudit, Wake, Recheck
<1>2. CASE StartAudit(r) \/ ReadOnline(r) \/ Predict(r)
  BY <1>2 DEF StartAudit, ReadOnline, Predict
<1>3. CASE Store(r) \/ IndexStored(r) \/ StoreMerged(r) \/ IndexMerged(r)
  BY <1>3 DEF Store, IndexStored, StoreMerged, IndexMerged, AfterStore
<1>4. CASE FinishAudit(r) \/ FailAudit(r) \/ Fallback(r) \/ Publish(r)
  BY <1>4 DEF FinishAudit, FailAudit, Fallback, Publish
<1>5. QED
  BY <1>1, <1>2, <1>3, <1>4 DEF Quiet

LEMMA FreshStep ==
    ASSUME TypeOK, Located, EventsAreFresh, [Next]_vars
    PROVE  EventsAreFresh'
<1> USE DEF EventsAreFresh
<1>0. \A k \in Keys : inflight[k] # NoFlight => inflight[k] \in Requests
  BY DEF TypeOK, CacheTypeOK
<1>1. ASSUME NEW r \in Requests, Quiet(r) PROVE EventsAreFresh'
  <2>1. \A k \in Keys : inflight[k] = r => pc[r] # "idle"
    BY DEF BeforeFlight
  <2>2. \A q \in Requests : (\E k \in Keys : inflight[k] = q) => input'[q] = input[q]
    BY <1>1, <2>1, QuietStep
  <2>3. QED
    BY <1>0, <1>1, <2>2, QuietStep, QuietBefore
<1>2. ASSUME NEW r \in Requests, JoinFlight(r) PROVE EventsAreFresh'
  BY <1>0, <1>2 DEF JoinFlight, Goto, TypeOK, cacheVars, BeforeFlight
<1>3. ASSUME NEW r \in Requests, LeadFlight(r) PROVE EventsAreFresh'
  <2>1. /\ key[r] \in Keys /\ inflight' = [inflight EXCEPT ![key[r]] = r]
        /\ pc' = [pc EXCEPT ![r] = "startAudit"] /\ pc[r] = "check"
        /\ UNCHANGED <<key, input, landed>>
    BY <1>3 DEF LeadFlight, Lead, Goto, Located
  <2>2. r \notin landed /\ InitialKey(input[r]) = key[r]
    BY <2>1 DEF BeforeFlight
  <2>3. QED
    BY <1>0, <2>1, <2>2 DEF TypeOK, CacheTypeOK, BeforeFlight
<1>4. ASSUME NEW r \in Requests, ReleaseFlight(r) PROVE EventsAreFresh'
  <2>1. /\ pc' = [pc EXCEPT ![r] = pc'[r]] /\ pc'[r] \in {"failAudit", "publish"}
        /\ key' = [key EXCEPT ![r] = NoKey] /\ input' = input
    BY <1>4 DEF ReleaseFlight, Goto, TypeOK
  <2>2. CASE UNCHANGED <<inflight, landed>>
    BY <1>0, <2>1, <2>2 DEF TypeOK, BeforeFlight
  <2>3. CASE /\ key[r] \in Keys /\ inflight[key[r]] # NoFlight
             /\ landed' = landed \cup {inflight[key[r]]}
             /\ inflight' = [inflight EXCEPT ![key[r]] = NoFlight]
    <3>1. \A k \in Keys : inflight'[k] # NoFlight => k # key[r] /\ inflight'[k] = inflight[k]
      BY <2>3 DEF TypeOK, CacheTypeOK
    <3>2. \A k \in Keys : inflight'[k] # NoFlight => inflight'[k] # inflight[key[r]]
      BY <2>3, <3>1
    <3>3. \A q \in Requests : pc'[q] \in BeforeFlight => pc[q] \in BeforeFlight /\ q # r
      BY <2>1 DEF TypeOK, BeforeFlight
    <3>4. \A q \in Requests : pc'[q] \in BeforeFlight =>
              q \notin landed' /\ \A k \in Keys : inflight'[k] # q
      BY <2>3, <3>1, <3>3, CacheAssumption DEF TypeOK, CacheTypeOK
    <3>5. \A q \in Requests : pc'[q] = "check" => pc[q] = "check" /\ key'[q] = key[q]
      BY <2>1 DEF TypeOK
    <3>6. QED
      BY <2>1, <2>3, <3>1, <3>2, <3>4, <3>5
  <2>4. key[r] # NoKey => key[r] \in Keys
    BY DEF TypeOK
  <2>5. QED
    BY <1>4, <2>2, <2>3, <2>4 DEF ReleaseFlight, Release, cacheVars
<1>5. CASE UNCHANGED <<inflight, landed, pc, key, event, input>>
  BY <1>5
<1>6. QED
  BY <1>1, <1>2, <1>3, <1>4, <1>5, NextCases

LEMMA FreshEvents == Spec => []EventsAreFresh
<1>1. Init => EventsAreFresh
  BY CacheAssumption DEF Init, CacheInit, EventsAreFresh
<1>2. TypeOK /\ Located /\ EventsAreFresh /\ [Next]_vars => EventsAreFresh'
  BY FreshStep
<1>3. QED
  BY <1>1, <1>2, TypeCorrect, PTL DEF Spec

LEMMA FlightStep ==
    ASSUME TypeOK, Located, WaitersAreRegistered, EventsAreFresh, [Next]_vars
    PROVE  FlightTable!Next \/ UNCHANGED FlightTable!flightVars
<1> DEFINE W == [k \in Keys |-> Waiting(k)]
<1>s. ASSUME inflight' = inflight, \A k \in Keys : Waiting(k)' = Waiting(k)
      PROVE  UNCHANGED FlightTable!flightVars
  BY <1>s DEF FlightTable!flightVars
<1>1. ASSUME NEW r \in Requests, Quiet(r) PROVE UNCHANGED FlightTable!flightVars
  BY <1>1, <1>s, QuietStep DEF Waiting
<1>2. ASSUME NEW r \in Requests, JoinFlight(r) PROVE FlightTable!Join(key[r], r)
  <2>1. /\ key[r] \in Keys /\ pc[r] = "check" /\ inflight[key[r]] # NoFlight
        /\ pc' = [pc EXCEPT ![r] = "wait"]
        /\ event' = [event EXCEPT ![r] = inflight[key[r]]]
        /\ UNCHANGED <<inflight, landed, key>>
    BY <1>2 DEF JoinFlight, Goto, Located, cacheVars
  <2>2. inflight[key[r]] \notin {NoFlight, r} /\ inflight[key[r]] \notin landed
    BY <2>1 DEF EventsAreFresh, BeforeFlight
  <2>3. \A k \in Keys : Waiting(k)' = IF k = key[r] THEN Waiting(k) \cup {r} ELSE Waiting(k)
    BY <2>1, <2>2 DEF Waiting, TypeOK
  <2>4. QED
    BY <2>1, <2>2, <2>3 DEF FlightTable!Join
<1>3. ASSUME NEW r \in Requests, LeadFlight(r) PROVE FlightTable!Lead(key[r], r)
  <2>1. /\ key[r] \in Keys /\ pc[r] = "check" /\ inflight[key[r]] = NoFlight
        /\ inflight' = [inflight EXCEPT ![key[r]] = r]
        /\ pc' = [pc EXCEPT ![r] = "startAudit"]
        /\ UNCHANGED <<event, landed, key>>
    BY <1>3 DEF LeadFlight, Lead, Goto, Located
  <2>2. \A k \in Keys : Waiting(k)' = Waiting(k)
    BY <2>1 DEF Waiting, TypeOK
  <2>3. QED
    BY <2>1, <2>2 DEF FlightTable!Lead
<1>4. ASSUME NEW r \in Requests, ReleaseFlight(r)
      PROVE  FlightTable!Next \/ UNCHANGED FlightTable!flightVars
  <2>1. /\ pc[r] = "release" /\ pc' = [pc EXCEPT ![r] = pc'[r]] /\ pc'[r] # "wait"
        /\ key' = [key EXCEPT ![r] = NoKey] /\ event' = event
    BY <1>4 DEF ReleaseFlight, Goto, TypeOK
  <2>2. CASE UNCHANGED <<inflight, landed>>
    <3>1. \A k \in Keys : Waiting(k)' = Waiting(k)
      BY <2>1, <2>2 DEF Waiting, TypeOK
    <3>2. QED
      BY <1>s, <2>2, <3>1
  <2>3. CASE /\ key[r] \in Keys /\ inflight[key[r]] # NoFlight
             /\ landed' = landed \cup {inflight[key[r]]}
             /\ inflight' = [inflight EXCEPT ![key[r]] = NoFlight]
    <3>1. \A k \in Keys : Waiting(k)' =
              {q \in Requests : pc[q] = "wait" /\ key[q] = k /\ event[q] \notin landed'}
      BY <2>1 DEF Waiting, TypeOK
    <3>2. \A k \in Keys : k = key[r] => Waiting(k)' = {}
      BY <2>3, <3>1 DEF WaitersAreRegistered
    <3>3. ASSUME NEW k \in Keys, k # key[r] PROVE Waiting(k)' = Waiting(k)
      <4>1. \A q \in Waiting(k) : event[q] = inflight[k] /\ event[q] \in Requests
        BY DEF Waiting, WaitersAreRegistered, Located
      <4>2. \A q \in Waiting(k) : event[q] # inflight[key[r]]
        BY <2>3, <3>3, <4>1, CacheAssumption DEF EventsAreFresh
      <4>3. QED
        BY <2>3, <3>1, <4>2 DEF Waiting
    <3>4. FlightTable!Land(key[r])
      BY <2>3, <3>2, <3>3 DEF FlightTable!Land
    <3>5. QED
      BY <2>3, <3>4 DEF FlightTable!Next
  <2>4. key[r] # NoKey => key[r] \in Keys
    BY DEF TypeOK
  <2>5. QED
    BY <1>4, <2>2, <2>3, <2>4 DEF ReleaseFlight, Release, cacheVars
<1>5. CASE UNCHANGED <<inflight, landed, pc, key, event, input>>
  BY <1>5, <1>s DEF Waiting
<1>6. \A r \in Requests : JoinFlight(r) \/ LeadFlight(r) => key[r] \in Keys
  BY DEF JoinFlight, LeadFlight, Goto, Located
<1>7. QED
  BY <1>1, <1>2, <1>3, <1>4, <1>5, <1>6, NextCases DEF FlightTable!Next

(* The engine and the event table implement the abstract flights: a        *)
(* release frees all the waiters of its key and no others, whatever calls  *)
(* fail and whoever performs it.                                           *)
THEOREM FlightRefinement == Spec => ImplementsFlights
<1>1. Init => FlightTable!Init
  BY DEF Init, CacheInit, FlightTable!Init, Waiting
<1>2. TypeOK /\ Located /\ WaitersAreRegistered /\ EventsAreFresh /\ [Next]_vars
        => [FlightTable!Next]_FlightTable!flightVars
  BY FlightStep
<1>3. QED
  BY <1>1, <1>2, TypeCorrect, NoLostWakeup, FreshEvents, PTL
     DEF Spec, ImplementsFlights, FlightTable!Spec
=============================================================================

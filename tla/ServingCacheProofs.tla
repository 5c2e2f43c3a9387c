-------------------------- MODULE ServingCacheProofs --------------------------
(***************************************************************************)
(* Theorems about PredictionServing and the cache below it, and about the  *)
(* batches beside it: what a sweep leaves behind, for any failing calls;   *)
(* what the single-flight table guarantees as long as cached responses are *)
(* stored, stay and are found; whose features an answer was computed from; *)
(* and which row of a batch it belongs to. The last ones carry what holds  *)
(* for requests alone over to requests beside a batch, and tell for which  *)
(* models a batch caches. Only the last three sections use BatchAssumption.*)
(***************************************************************************)
EXTENDS BatchServing, PredictionServingProofs

-----------------------------------------------------------------------------
(* Sweeps *)

(* The scan that covers all that the sweep is for *)
LastScan == sweep.phase = "scanAll" \/ (sweep.phase = "scanModel" /\ ~sweep.all)

(* From the last scan of a sweep to the next sweep: what the cursor has    *)
(* passed and not found was not there, so it was written since.            *)
SweepInv ==
    /\ sweep.phase = "scanAll" => sweep.all
    /\ sweep.phase \notin {"scanModel", "scanAll"} => sweep.walk = Keys
    /\ LastScan => Present(Covered) \subseteq sweep.walk \cup sweep.found \cup late
    /\ sweep.clean =>
        /\ sweep.phase = "delete" => Present(Covered) \subseteq sweep.victims \cup late
        /\ sweep.phase = "swept" => Present(Covered) \subseteq late

(* What a request does to the cache: at most one SET, which a sweep that   *)
(* is under way notes as late.                                             *)
Sets ==
    /\ UNCHANGED sweep
    /\ \/ UNCHANGED <<cache, late>>
       \/ \E k \in Keys, a \in Answers :
            /\ cache' = [cache EXCEPT ![k] = a]
            /\ late' = IF sweep.phase = "idle" THEN late ELSE late \cup {k}

LEMMA MergedKeyType ==
    ASSUME TypeOK, Located, NEW r \in Requests, pc[r] \in Fed
    PROVE  MergedKey(r) \in Keys
<1>1. input[r].target \in Models /\ seen[r].features \in Features
  BY DEF Located, Fed, Routed, Computing, Sight
<1>2. QED
  BY <1>1 DEF MergedKey, Keys, Bodies

LEMMA RequestSets ==
    ASSUME TypeOK, Located, NEW r \in Requests, Arrive(r) \/ Step(r)
    PROVE  Sets
<1>1. CASE Store(r) \/ StoreMerged(r)
  <2>1. /\ pc[r] \in {"store", "storeMerged"}
        /\ \/ SetKey(InitialKey(input[r]), answer[r]) \/ SetKey(MergedKey(r), answer[r])
           \/ UNCHANGED cacheVars
    BY <1>1 DEF Store, StoreMerged, Goto
  <2>2. answer[r] \in Answers /\ InitialKey(input[r]) \in Keys /\ MergedKey(r) \in Keys
    BY <2>1, MergedKeyType, InitialKeyType DEF Located, Fed, Routed, Computing
  <2>3. QED
    BY <2>1, <2>2 DEF Sets, SetKey, cacheVars
<1>2. CASE \/ Arrive(r) \/ CacheLookup(r) \/ HitAudit(r) \/ MissAudit(r)
           \/ JoinFlight(r) \/ Wake(r) \/ Recheck(r) \/ StartAudit(r) \/ ReadOnline(r)
           \/ Predict(r) \/ FinishAudit(r) \/ FailAudit(r) \/ Fallback(r) \/ Publish(r)
  BY <1>2 DEF Arrive, CacheLookup, HitAudit, MissAudit, JoinFlight, Wake, Recheck, StartAudit,
     ReadOnline, Predict, FinishAudit, FailAudit, Fallback, Publish, cacheVars, Sets
<1>3. CASE LeadFlight(r) \/ ReleaseFlight(r) \/ IndexStored(r) \/ IndexMerged(r)
  BY <1>3 DEF LeadFlight, Lead, ReleaseFlight, Release, IndexStored, IndexMerged, AddToIndex,
     cacheVars, Sets
<1>4. QED
  BY <1>1, <1>2, <1>3 DEF Step

LEMMA SweepSets == ASSUME TypeOK, SweepInv, Sets PROVE SweepInv'
<1>1. Present(Covered)' \subseteq Present(Covered) \cup late' \/ sweep.phase = "idle"
  <2>1. Covered' = Covered
    BY DEF Sets, Covered
  <2>2. CASE UNCHANGED <<cache, late>>
    BY <2>1, <2>2 DEF Present
  <2>3. ASSUME NEW k \in Keys, NEW a \in Answers, cache' = [cache EXCEPT ![k] = a],
               late' = IF sweep.phase = "idle" THEN late ELSE late \cup {k}
        PROVE  Present(Covered)' \subseteq Present(Covered) \cup {k}
    BY <2>1, <2>3 DEF Present, TypeOK, CacheTypeOK
  <2>4. QED
    BY <2>2, <2>3 DEF Sets
<1>2. late \subseteq late'
  BY DEF Sets
<1>3. QED
  BY <1>1, <1>2 DEF SweepInv, LastScan, Sets

(* A trip of the last scan keeps book of what its cursor has passed *)
LEMMA ScanCovers ==
    ASSUME TypeOK, SweepInv, NEW trip \in {"scanModel", "scanAll"}, NEW scope,
           ScanStep(trip, "delete", scope),
           trip = "scanAll" <=> sweep.all, Covered \subseteq scope
    PROVE  SweepInv'
<1> USE DEF SweepInv, TypeOK, CacheTypeOK
<1>1. sweep.phase = trip /\ LastScan /\ cache' = cache
  BY DEF ScanStep, LastScan
<1>2. Present(Covered) \subseteq Present(scope) \cap Keys
  BY DEF Present
<1>3. CASE sweep' = [sweep EXCEPT !.walk = Keys, !.found = {}]
  <2>1. sweep'.walk = Keys /\ Covered' = Covered /\ sweep'.phase = trip /\ sweep'.all = sweep.all
    BY <1>1, <1>3 DEF Covered
  <2>2. QED
    BY <1>1, <1>2, <2>1 DEF Present, LastScan
<1>4. CASE sweep' = [sweep EXCEPT !.phase = "delete", !.walk = Keys, !.found = {}, !.clean = FALSE]
  BY <1>4 DEF LastScan
<1>5. ASSUME NEW visited \in SUBSET sweep.walk, NEW found,
             found = sweep.found \cup (visited \cap Present(scope)),
             \/ /\ visited = sweep.walk
                /\ sweep' = [sweep EXCEPT !.phase = "delete", !.walk = Keys, !.found = {},
                                         !.victims = @ \cup found]
             \/ sweep' = [sweep EXCEPT !.walk = @ \ visited, !.found = found],
             late' = IF sweep.walk = Keys THEN {} ELSE late
      PROVE  SweepInv'
  <2>1. Present(Covered) \subseteq (sweep.walk \ visited) \cup found \cup late'
    BY <1>1, <1>2, <1>5
  <2>2. Covered' = Covered /\ Present(Covered)' = Present(Covered)
    BY <1>1, <1>5 DEF Covered, Present
  <2>3. CASE visited = sweep.walk
             /\ sweep' = [sweep EXCEPT !.phase = "delete", !.walk = Keys, !.found = {},
                                      !.victims = @ \cup found]
    <3>1. sweep'.phase = "delete" /\ sweep'.walk = Keys /\ sweep'.victims = sweep.victims \cup found
      BY <2>3
    <3>2. QED
      BY <2>1, <2>2, <2>3, <3>1 DEF LastScan
  <2>4. CASE sweep' = [sweep EXCEPT !.walk = @ \ visited, !.found = found]
    <3>1. /\ sweep'.phase = trip /\ sweep'.all = sweep.all
          /\ sweep'.walk = sweep.walk \ visited /\ sweep'.found = found
      BY <1>1, <2>4
    <3>2. QED
      BY <1>1, <2>1, <2>2, <3>1 DEF LastScan
  <2>5. QED
    BY <1>5, <2>3, <2>4
<1>6. QED
  BY <1>3, <1>4, <1>5 DEF ScanStep

LEMMA SweepEnvironment ==
    ASSUME TypeOK, SweepInv, CacheEnvironment
    PROVE  SweepInv'
<1> USE DEF SweepInv, LastScan, TypeOK, CacheTypeOK
<1>1. ASSUME NEW k \in Keys, Expire(k) \/ InvalidateKey(k) PROVE SweepInv'
  <2>1. UNCHANGED <<sweep, late>> /\ Present(Covered)' \subseteq Present(Covered)
    BY <1>1 DEF Expire, InvalidateKey, Present, Covered
  <2>2. QED
    BY <2>1
<1>2. ASSUME NEW m \in Models \cup {NoModel}, NEW all \in BOOLEAN, SweepBegin(m, all) PROVE SweepInv'
  <2>1. /\ sweep'.phase \in {"members", "scanAll"} /\ sweep'.walk = Keys
        /\ sweep'.phase = "scanAll" => sweep'.all
    BY <1>2 DEF SweepBegin
  <2>2. QED
    BY <2>1 DEF Present
<1>3. CASE SweepMembers \/ SweepDropIndex
  <2>1. /\ sweep'.phase \in {"dropIndex", "scanModel"} /\ sweep'.walk = Keys
    BY <1>3 DEF SweepMembers, SweepDropIndex
  <2>2. QED
    BY <2>1 DEF Present
<1>4. CASE SweepScanModel
  <2>1. ScanStep("scanModel", AfterModelScan(sweep.all), {sweep.model})
    BY <1>4 DEF SweepScanModel
  <2>2. CASE sweep.all
    <3>1. \/ sweep'.phase = "scanModel"
          \/ sweep'.phase = "scanAll" /\ sweep'.walk = Keys
      BY <2>1, <2>2 DEF ScanStep, AfterModelScan
    <3>2. sweep'.all /\ sweep.phase = "scanModel"
      BY <2>1, <2>2 DEF ScanStep
    <3>3. QED
      BY <3>1, <3>2 DEF Present
  <2>3. CASE ~sweep.all
    <3>1. ScanStep("scanModel", "delete", {sweep.model}) /\ Covered = {sweep.model}
      BY <2>1, <2>3 DEF AfterModelScan, Covered
    <3>2. QED
      BY <2>3, <3>1, ScanCovers
  <2>4. QED
    BY <2>2, <2>3
<1>5. CASE SweepScanAll
  <2>1. ScanStep("scanAll", "delete", Models) /\ sweep.all
    BY <1>5 DEF SweepScanAll, ScanStep
  <2>2. Covered = Models
    BY <2>1 DEF Covered
  <2>3. QED
    BY <2>1, <2>2, ScanCovers
<1>6. CASE SweepDelete
  <2>1. PICK slice \in SUBSET sweep.victims :
            /\ sweep.phase = "delete" /\ late' = late
            /\ \/ /\ cache' = [k \in Keys |-> IF k \in slice THEN NoAnswer ELSE cache[k]]
                  /\ sweep' = [sweep EXCEPT !.victims = @ \ slice]
               \/ sweep' = [sweep EXCEPT !.victims = @ \ slice, !.clean = FALSE]
    BY <1>6 DEF SweepDelete
  <2>2. CASE sweep' = [sweep EXCEPT !.victims = @ \ slice, !.clean = FALSE]
    BY <2>1, <2>2
  <2>3. CASE /\ cache' = [k \in Keys |-> IF k \in slice THEN NoAnswer ELSE cache[k]]
             /\ sweep' = [sweep EXCEPT !.victims = @ \ slice]
    <3>1. /\ sweep'.phase = "delete" /\ sweep'.clean = sweep.clean
          /\ sweep'.victims = sweep.victims \ slice /\ Covered' = Covered
      BY <2>1, <2>3 DEF Covered
    <3>2. Present(Covered)' \subseteq Present(Covered) \ slice
      BY <2>3, <3>1 DEF Present
    <3>3. QED
      BY <2>1, <3>1, <3>2
  <2>4. QED
    BY <2>1, <2>2, <2>3
<1>7. CASE SweepEnd
  <2>1. /\ sweep.phase = "delete" /\ sweep.victims = {} /\ sweep'.phase = "swept"
        /\ sweep'.clean = sweep.clean /\ Covered' = Covered /\ UNCHANGED <<cache, late>>
        /\ sweep'.walk = sweep.walk
    BY <1>7 DEF SweepEnd, Covered
  <2>2. QED
    BY <2>1 DEF Present
<1>8. QED
  BY <1>1, <1>2, <1>3, <1>4, <1>5, <1>6, <1>7 DEF CacheEnvironment, SweepStep

LEMMA SweepNext == ASSUME TypeOK, Located, SweepInv, [Next]_vars PROVE SweepInv'
<1>1. ASSUME NEW r \in Requests, Arrive(r) \/ Step(r) PROVE SweepInv'
  BY <1>1, RequestSets, SweepSets
<1>2. CASE UNCHANGED vars
  BY <1>2 DEF vars, cacheVars, SweepInv, LastScan, Present, Covered
<1>3. QED
  BY <1>1, <1>2, SweepEnvironment DEF Next

(* However requests store and Redis expires keys while it runs, a sweep    *)
(* whose calls succeed leaves only what was written after its last scan    *)
(* had begun.                                                              *)
THEOREM SweepsAreComplete == Spec => []SweepLeavesOnlyLateWrites
<1>1. Init => SweepInv
  BY DEF Init, CacheInit, IdleSweep, SweepInv, LastScan
<1>2. TypeOK /\ Located /\ SweepInv /\ [Next]_vars => SweepInv'
  BY SweepNext
<1>3. SweepInv => SweepLeavesOnlyLateWrites
  BY DEF SweepInv, SweepLeavesOnlyLateWrites
<1>4. QED
  BY <1>1, <1>2, <1>3, TypeCorrect, PTL DEF Spec

-----------------------------------------------------------------------------
(* Single flight *)

(* Cached responses are stored, stay and are found.  Every other call may  *)
(* fail, the PREDICTION_STARTED row included.                              *)
NothingLost ==
    /\ Faults \cap {"redisGet", "redisSet", "predict"} = {}
    /\ ~Expiry
    /\ MaxSweeps = 0

BeforeKey == {"idle", "lookup", "hitAudit", "missAudit"}

(* After the store of the response *)
Stored == {"index", "storeMerged", "indexMerged", "finishAudit", "release"}

(* A request that computes with a key leads the flight of this key; once   *)
(* it has stored its response, and for whoever waited for it, the response *)
(* is in the cache.                                                        *)
SoleAt(r) ==
    /\ pc[r] \in BeforeKey => key[r] = NoKey
    /\ pc[r] \in {"check", "wait", "recheck"} \cup Computing /\ key[r] # NoKey =>
          key[r] = InitialKey(input[r])
    /\ pc[r] \in Computing /\ key[r] # NoKey => inflight[key[r]] = r
    /\ pc[r] \in Stored /\ key[r] # NoKey => cache[key[r]] # NoAnswer
    /\ pc[r] = "recheck" \/ (pc[r] = "wait" /\ event[r] \in landed) => cache[key[r]] # NoAnswer

SoleInv == sweep.phase = "idle" /\ \A r \in Requests : SoleAt(r)

CacheGrows == sweep' = sweep /\ \A k \in Keys : cache[k] # NoAnswer => cache'[k] # NoAnswer

LEMMA SetsGrow == ASSUME TypeOK, Sets PROVE CacheGrows
  BY AnswerAssumption DEF Sets, CacheGrows, TypeOK, CacheTypeOK

LEMMA KeyOfRequest ==
    ASSUME TypeOK, NEW r \in Requests, key[r] # NoKey PROVE key[r] \in Keys
  BY DEF TypeOK

(* What holds at the place of a request lasts while others move *)
LEMMA OtherSole ==
    ASSUME TypeOK, Located, SoleInv, CacheGrows, NEW q \in Requests,
           pc'[q] = pc[q], key'[q] = key[q], event'[q] = event[q], input'[q] = input[q],
           pc[q] \in Computing /\ key[q] # NoKey => inflight'[key[q]] = inflight[key[q]],
           pc[q] = "wait" /\ event[q] \in landed' =>
               event[q] \in landed \/ cache[key[q]] # NoAnswer
    PROVE  SoleAt(q)'
<1>1. SoleAt(q) /\ (pc[q] \in {"wait", "recheck"} => key[q] # NoKey)
  BY KeyAssumption DEF SoleInv, Located
<1>2. InitialKey(input[q])' = InitialKey(input[q])
  BY DEF InitialKey, InitialPayload
<1>3. key[q] # NoKey /\ cache[key[q]] # NoAnswer => cache'[key[q]] # NoAnswer
  BY KeyOfRequest DEF CacheGrows
<1>4. QED
  BY <1>1, <1>2, <1>3 DEF SoleAt

LEMMA QuietSole ==
    ASSUME TypeOK, Located, SoleInv, NothingLost, NEW r \in Requests, Quiet(r), CacheGrows
    PROVE  SoleAt(r)'
<1>0. /\ SoleAt(r) /\ UNCHANGED <<inflight, landed>>
      /\ pc[r] # "idle" => InitialKey(input[r])' = InitialKey(input[r])
  BY QuietStep DEF SoleInv, InitialKey, InitialPayload
<1>1. key[r] # NoKey /\ cache[key[r]] # NoAnswer => cache'[key[r]] # NoAnswer
  BY KeyOfRequest DEF CacheGrows
<1> USE <1>0, <1>1 DEF SoleAt, BeforeKey, Stored, Computing, Goto, TypeOK
<1>2. CASE Arrive(r) \/ CacheLookup(r) \/ HitAudit(r) \/ MissAudit(r)
  BY <1>2 DEF Arrive, CacheLookup, HitAudit, MissAudit
<1>3. CASE Wake(r)
  BY <1>3 DEF Wake, cacheVars, Located
<1>4. CASE Recheck(r)
  <2>1. cache[key[r]] # NoAnswer /\ key[r] = InitialKey(input[r])
    BY <1>4, KeyAssumption DEF Recheck, Located
  <2>2. pc'[r] = "publish"
    BY <1>4, <2>1 DEF Recheck, Misses, NothingLost
  <2>3. QED
    BY <2>2
<1>5. CASE StartAudit(r) \/ ReadOnline(r)
  BY <1>5 DEF StartAudit, ReadOnline
<1>6. CASE Predict(r)
  BY <1>6 DEF Predict, Fails, NothingLost
<1>7. CASE Store(r)
  <2>1. /\ pc[r] = "store" /\ pc'[r] = "index" /\ key'[r] = key[r]
        /\ cache' = [cache EXCEPT ![InitialKey(input[r])] = answer[r]]
    BY <1>7 DEF Store, SetKey, Fails, NothingLost
  <2>2. answer[r] # NoAnswer
    BY <2>1, AnswerAssumption DEF Located, Fed
  <2>3. key[r] # NoKey => cache'[key[r]] # NoAnswer
    BY <2>1, <2>2, KeyOfRequest DEF CacheTypeOK
  <2>4. QED
    BY <2>1, <2>3
<1>8. CASE IndexStored(r) \/ StoreMerged(r) \/ IndexMerged(r)
  BY <1>8 DEF IndexStored, StoreMerged, IndexMerged, AfterStore
<1>9. CASE FinishAudit(r) \/ FailAudit(r) \/ Fallback(r) \/ Publish(r)
  BY <1>9 DEF FinishAudit, FailAudit, Fallback, Publish
<1>10. QED
  BY <1>2, <1>3, <1>4, <1>5, <1>6, <1>7, <1>8, <1>9 DEF Quiet

LEMMA SoleJoin ==
    ASSUME TypeOK, Located, SoleInv, EventsAreFresh, NEW r \in Requests, JoinFlight(r)
    PROVE  SoleInv'
<1>1. /\ pc[r] = "check" /\ pc' = [pc EXCEPT ![r] = "wait"] /\ inflight[key[r]] # NoFlight
      /\ event' = [event EXCEPT ![r] = inflight[key[r]]]
      /\ UNCHANGED <<cache, inflight, landed, sweep, input, key>>
  BY DEF JoinFlight, Goto, cacheVars
<1>2. key[r] \in Keys /\ inflight[key[r]] \notin landed
  BY <1>1 DEF Located, EventsAreFresh
<1>3. SoleAt(r)'
  <2>1. InitialKey(input[r])' = InitialKey(input[r])
    BY <1>1 DEF InitialKey, InitialPayload
  <2>2. SoleAt(r) /\ pc'[r] = "wait" /\ event'[r] \notin landed' /\ key'[r] = key[r]
    BY <1>1, <1>2 DEF SoleInv, TypeOK
  <2>3. QED
    BY <1>1, <2>1, <2>2 DEF SoleAt, BeforeKey, Stored, Computing
<1>4. ASSUME NEW q \in Requests \ {r} PROVE SoleAt(q)'
  BY <1>1, OtherSole DEF TypeOK, CacheGrows
<1>5. QED
  BY <1>1, <1>3, <1>4 DEF SoleInv

LEMMA SoleLead ==
    ASSUME TypeOK, Located, SoleInv, NEW r \in Requests, LeadFlight(r)
    PROVE  SoleInv'
<1>1. /\ pc[r] = "check" /\ pc' = [pc EXCEPT ![r] = "startAudit"] /\ inflight[key[r]] = NoFlight
      /\ inflight' = [inflight EXCEPT ![key[r]] = r]
      /\ UNCHANGED <<cache, landed, sweep, input, key, event>>
  BY DEF LeadFlight, Lead, Goto
<1>2. key[r] \in Keys
  BY <1>1 DEF Located
<1>3. SoleAt(r)'
  <2>1. InitialKey(input[r])' = InitialKey(input[r])
    BY <1>1 DEF InitialKey, InitialPayload
  <2>2. SoleAt(r) /\ pc'[r] = "startAudit" /\ inflight'[key'[r]] = r /\ key'[r] = key[r]
    BY <1>1, <1>2 DEF SoleInv, TypeOK, CacheTypeOK
  <2>3. QED
    BY <1>1, <2>1, <2>2 DEF SoleAt, BeforeKey, Stored, Computing
<1>4. ASSUME NEW q \in Requests \ {r} PROVE SoleAt(q)'
  <2>1. pc[q] \in Computing /\ key[q] # NoKey => key[q] # key[r]
    BY <1>1, CacheAssumption DEF SoleInv, SoleAt
  <2>2. pc[q] \in Computing /\ key[q] # NoKey => inflight'[key[q]] = inflight[key[q]]
    BY <1>1, <1>2, <2>1, KeyOfRequest DEF TypeOK, CacheTypeOK
  <2>3. QED
    BY <1>1, <2>2, OtherSole DEF TypeOK, CacheGrows
<1>5. QED
  BY <1>1, <1>3, <1>4 DEF SoleInv

(* A release wakes only requests that wait for the response it has stored *)
LEMMA SoleRelease ==
    ASSUME TypeOK, Located, SoleInv, EventsAreFresh, WaitersAreRegistered,
           NEW r \in Requests, ReleaseFlight(r)
    PROVE  SoleInv'
<1>1. /\ pc[r] = "release" /\ pc' = [pc EXCEPT ![r] = pc'[r]] /\ pc'[r] \in {"failAudit", "publish"}
      /\ key' = [key EXCEPT ![r] = NoKey]
      /\ UNCHANGED <<cache, sweep, input, event>>
  BY DEF ReleaseFlight, Release, Goto, TypeOK, cacheVars
<1>2. SoleAt(r) /\ SoleAt(r)'
  BY <1>1 DEF SoleInv, SoleAt, BeforeKey, Stored, Computing
<1>3. CASE key[r] = NoKey
  <2>1. UNCHANGED <<inflight, landed>>
    BY <1>3 DEF ReleaseFlight, cacheVars
  <2>2. ASSUME NEW q \in Requests \ {r} PROVE SoleAt(q)'
    BY <1>1, <2>1, OtherSole DEF TypeOK, CacheGrows
  <2>3. QED
    BY <1>1, <1>2, <2>2 DEF SoleInv
<1>4. CASE key[r] # NoKey
  <2>1. key[r] \in Keys /\ inflight[key[r]] = r /\ cache[key[r]] # NoAnswer
        /\ key[r] = InitialKey(input[r])
    BY <1>1, <1>2, <1>4, KeyOfRequest DEF SoleAt, Stored, Computing
  <2>2. landed' = landed \cup {r} /\ inflight' = [inflight EXCEPT ![key[r]] = NoFlight]
    BY <1>4, <2>1, CacheAssumption DEF ReleaseFlight, Release
  <2>3. ASSUME NEW q \in Requests \ {r} PROVE SoleAt(q)'
    <3>1. pc[q] \in Computing /\ key[q] # NoKey => inflight[key[q]] = q
      BY DEF SoleInv, SoleAt
    <3>2. pc[q] \in Computing /\ key[q] # NoKey => inflight'[key[q]] = inflight[key[q]]
      BY <2>1, <2>2, <3>1, KeyOfRequest DEF TypeOK, CacheTypeOK
    <3>3. ASSUME pc[q] = "wait", event[q] = r, event[q] \notin landed PROVE cache[key[q]] # NoAnswer
      <4>1. inflight[key[q]] = r /\ key[q] \in Keys
        BY <3>3 DEF WaitersAreRegistered, Located
      <4>2. key[q] = key[r]
        BY <2>1, <4>1, CacheAssumption DEF EventsAreFresh
      <4>3. QED
        BY <2>1, <4>2
    <3>4. QED
      BY <1>1, <2>2, <3>2, <3>3, OtherSole DEF TypeOK, CacheGrows
  <2>4. QED
    BY <1>1, <1>2, <2>3 DEF SoleInv
<1>5. QED
  BY <1>3, <1>4

(* Without expiry and invalidations the cache has no environment *)
LEMMA NoEnvironment ==
    ASSUME TypeOK, NothingLost, sweep.phase = "idle" PROVE ~CacheEnvironment
<1>1. version = 1 /\ ~(version <= MaxSweeps)
  BY DEF NothingLost, TypeOK, CacheTypeOK
<1>2. QED
  BY <1>1 DEF NothingLost, CacheEnvironment, Expire, InvalidateKey, SweepBegin, SweepStep, SweepMembers,
     SweepDropIndex, SweepScanModel, SweepScanAll, ScanStep, SweepDelete, SweepEnd

LEMMA SoleNext ==
    ASSUME TypeOK, Located, SoleInv, EventsAreFresh, WaitersAreRegistered, NothingLost, [Next]_vars
    PROVE  SoleInv'
<1>1. ASSUME NEW r \in Requests, Quiet(r) PROVE SoleInv'
  <2>1. CacheGrows
    BY <1>1, RequestSets, SetsGrow DEF Quiet, Step
  <2>2. SoleAt(r)'
    BY <1>1, <2>1, QuietSole
  <2>3. ASSUME NEW q \in Requests \ {r} PROVE SoleAt(q)'
    BY <1>1, <2>1, QuietStep, OtherSole
  <2>4. QED
    BY <2>1, <2>2, <2>3 DEF SoleInv, CacheGrows
<1>2. ASSUME NEW r \in Requests, JoinFlight(r) \/ LeadFlight(r) \/ ReleaseFlight(r) PROVE SoleInv'
  BY <1>2, SoleJoin, SoleLead, SoleRelease
<1>3. CASE UNCHANGED vars
  <2>1. CacheGrows /\ UNCHANGED <<pc, key, event, input, inflight, landed>>
    BY <1>3 DEF vars, cacheVars, reqVars, CacheGrows
  <2>2. QED
    BY <2>1, OtherSole DEF SoleInv, CacheGrows
<1>4. ~CacheEnvironment
  BY NoEnvironment DEF SoleInv
<1>5. QED
  BY <1>1, <1>2, <1>3, <1>4 DEF Next, Step, Quiet

LEMMA SoleInit == Init => SoleInv
  BY DEF Init, CacheInit, IdleSweep, SoleInv, SoleAt, BeforeKey, Stored, Computing

LEMMA SoleAlways == ASSUME NothingLost PROVE Spec => []SoleInv
<1>1. TypeOK /\ Located /\ SoleInv /\ EventsAreFresh /\ WaitersAreRegistered /\ [Next]_vars => SoleInv'
  BY SoleNext
<1>2. QED
  BY <1>1, SoleInit, TypeCorrect, FreshEvents, NoLostWakeup, PTL DEF Spec

(* As long as no response is lost on its way to the waiters, no two        *)
(* requests compute for the same key at a time.                            *)
THEOREM OneComputesAKey == ASSUME NothingLost PROVE Spec => []SoleComputation
<1>1. SoleInv => SoleComputation
  BY DEF SoleInv, SoleAt, SoleComputation
<1>2. QED
  BY <1>1, SoleAlways, PTL

(* And the request that releases a flight is the one that leads it. *)
THEOREM LeadersRelease == ASSUME NothingLost PROVE Spec => OnlyLeaderReleases
<1>1. SoleInv /\ [Next]_vars =>
        [\A r \in Requests : (pc[r] = "release" /\ pc'[r] # "release" /\ key[r] # NoKey)
            => inflight[key[r]] = r]_vars
  BY DEF SoleInv, SoleAt, Computing
<1>2. QED
  BY <1>1, SoleAlways, PTL DEF Spec, OnlyLeaderReleases

-----------------------------------------------------------------------------
(* Answers *)

(* What a request may be answered with: its own features, with or without  *)
(* the online vector of its own entity                                     *)
Own(in) == {in.payload, Overlay(OnlineVector[in.entity], in.payload)}

(* The keys a request with input in may store features f under *)
Written(k, f) ==
    \E in \in Inputs :
        /\ in.target = k.model
        /\ f \in Own(in)
        /\ k.body \in {Sanitized(InitialPayload(in)), Sanitized(f)}

(* A lookup finds nothing that is not the request's own *)
KeysTell ==
    \A in \in Inputs : \A f :
        (in.target \in Models /\ Written(InitialKey(in), f)) => f \in Own(in)

(* A feature dictionary, none of whose names is treated apart by the cache *)
Plain(p) ==
    /\ p = [f \in DOMAIN p |-> p[f]]
    /\ \A f \in DOMAIN p : f # "_entity_id" /\ f \notin Sensitive

(* A request gives every feature its entity has a value for, or none,      *)
(* under names that the cache key keeps. The code asks for neither;        *)
(* serving_entity shows what becomes of AnswersOwnEntity when a request    *)
(* gives a part.                                                           *)
WholeOrNone ==
    /\ "_entity_id" \notin Sensitive
    /\ \A in \in Inputs :
        /\ Plain(in.payload)
        /\ Plain(OnlineVector[in.entity])
        /\ in.payload # NoFeatures => DOMAIN OnlineVector[in.entity] \subseteq DOMAIN in.payload

(* The cache leaves nothing out of a plain dictionary *)
LEMMA PlainIsSanitized == \A p : Plain(p) => Sanitized(p) = p
<1> SUFFICES ASSUME NEW p, Plain(p) PROVE Sanitized(p) = p
  OBVIOUS
<1>1. DOMAIN p \ Sensitive = DOMAIN p
  BY DEF Plain
<1>2. Sanitized(p) = [f \in DOMAIN p |-> p[f]]
  BY <1>1 DEF Sanitized
<1>3. QED
  BY <1>2, Zenon DEF Plain

(* The stand-in dictionary of an entity names it, and is no client's *)
LEMMA EntitiesTell ==
    ASSUME WholeOrNone
    PROVE  /\ \A e : Sanitized(EntityPayload(e)) = EntityPayload(e)
           /\ \A e, d : EntityPayload(e) = EntityPayload(d) => e = d
           /\ \A e, p : Plain(p) => EntityPayload(e) # p
<1>1. ASSUME NEW e PROVE Sanitized(EntityPayload(e)) = EntityPayload(e)
  <2>1. DOMAIN EntityPayload(e) \ Sensitive = {"_entity_id"}
    BY DEF EntityPayload, WholeOrNone
  <2>2. Sanitized(EntityPayload(e)) = [f \in {"_entity_id"} |-> EntityPayload(e)[f]]
    BY <2>1 DEF Sanitized
  <2>3. QED
    BY <2>2 DEF EntityPayload
<1>2. ASSUME NEW e PROVE DOMAIN EntityPayload(e) = {"_entity_id"} /\ EntityPayload(e)["_entity_id"] = e
  BY DEF EntityPayload
<1>3. ASSUME NEW e, NEW p, Plain(p) PROVE EntityPayload(e) # p
  BY <1>2, <1>3 DEF Plain
<1>4. ASSUME NEW e, NEW d, EntityPayload(e) = EntityPayload(d) PROVE e = d
  <2>1. EntityPayload(e)["_entity_id"] = EntityPayload(d)["_entity_id"]
    BY <1>4
  <2>2. QED
    BY <2>1, <1>2
<1>5. QED
  BY <1>1, <1>3, <1>4

(* What a request that gives everything, or nothing, may be answered with *)
LEMMA OwnFeatures ==
    ASSUME WholeOrNone, NEW in \in Inputs
    PROVE  /\ \A f \in Own(in) : Plain(f)
           /\ in.payload # NoFeatures => Own(in) = {in.payload}
           /\ in.payload = NoFeatures => Own(in) = {NoFeatures, OnlineVector[in.entity]}
<1> DEFINE v == OnlineVector[in.entity]
<1> DEFINE p == in.payload
<1>1. Plain(v) /\ Plain(p) /\ (p # NoFeatures => DOMAIN v \subseteq DOMAIN p)
  BY DEF WholeOrNone
<1> HIDE DEF v, p
<1>2. CASE p # NoFeatures
  <2>1. DOMAIN v \cup DOMAIN p = DOMAIN p
    BY <1>1, <1>2
  <2>2. Overlay(v, p) = [f \in DOMAIN p |-> p[f]]
    BY <2>1 DEF Overlay
  <2>3. Overlay(v, p) = p
    BY <1>1, <2>2, Zenon DEF Plain
  <2>4. QED
    BY <1>1, <1>2, <2>3 DEF Own, v, p
<1>3. CASE p = NoFeatures
  <2>1. DOMAIN p = {}
    BY <1>3 DEF NoFeatures
  <2>2. Overlay(v, p) = [f \in DOMAIN v |-> v[f]]
    BY <2>1 DEF Overlay
  <2>3. Overlay(v, p) = v
    BY <1>1, <2>2, Zenon DEF Plain
  <2>4. QED
    BY <1>1, <1>3, <2>3 DEF Own, v, p
<1>4. QED
  BY <1>2, <1>3

(* So whoever stores under the key of a request, stores its own features *)
LEMMA WholeKeysTell == ASSUME WholeOrNone PROVE KeysTell
<1> SUFFICES ASSUME NEW to \in Inputs, NEW f, NEW in \in Inputs,
                    in.target = to.target, f \in Own(in),
                    Sanitized(InitialPayload(to)) \in {Sanitized(InitialPayload(in)), Sanitized(f)}
             PROVE  f \in Own(to)
  BY DEF KeysTell, Written, InitialKey
<1>1. Plain(f) /\ Plain(to.payload) /\ Plain(in.payload)
  BY OwnFeatures DEF WholeOrNone
<1>2. Sanitized(f) = f /\ Sanitized(to.payload) = to.payload /\ Sanitized(in.payload) = in.payload
  BY <1>1, PlainIsSanitized
<1>3. CASE to.payload # NoFeatures
  <2>1. Sanitized(InitialPayload(to)) = to.payload
    BY <1>2, <1>3 DEF InitialPayload
  <2>2. CASE to.payload = f
    BY <2>2 DEF Own
  <2>3. CASE to.payload = Sanitized(InitialPayload(in))
    <3>1. in.payload # NoFeatures
      BY <1>1, <2>3, EntitiesTell DEF InitialPayload
    <3>2. to.payload = in.payload
      BY <1>2, <2>3, <3>1 DEF InitialPayload
    <3>3. f = in.payload
      BY <3>1, OwnFeatures
    <3>4. QED
      BY <3>2, <3>3 DEF Own
  <2>4. QED
    BY <1>2, <2>1, <2>2, <2>3
<1>4. CASE to.payload = NoFeatures
  <2>1. Sanitized(InitialPayload(to)) = EntityPayload(to.entity)
    BY <1>4, EntitiesTell DEF InitialPayload
  <2>2. Sanitized(InitialPayload(in)) = EntityPayload(to.entity)
    BY <1>1, <1>2, <2>1, EntitiesTell
  <2>3. in.payload = NoFeatures
    BY <1>1, <1>2, <2>2, EntitiesTell DEF InitialPayload
  <2>4. EntityPayload(in.entity) = EntityPayload(to.entity)
    BY <2>2, <2>3, EntitiesTell DEF InitialPayload
  <2>5. in.entity = to.entity
    BY <2>4, EntitiesTell
  <2>6. QED
    BY <1>4, <2>3, <2>5 DEF Own
<1>5. QED
  BY <1>3, <1>4

(* Where a request holds an answer, and that none comes before it arrives *)
Answered ==
    \A r \in Requests :
        /\ pc[r] \in {"hitAudit", "publish", "done"} => answer[r] \in Answers
        /\ pc[r] = "idle" => answer[r] = NoAnswer

(* Every place that sends an answer on has one *)
LEMMA AnsweredStep ==
    ASSUME TypeOK, Located, Answered, NEW r \in Requests, Arrive(r) \/ Step(r)
    PROVE  Answered'
<1>1. /\ pc \in [Requests -> Control] /\ answer \in [Requests -> Answers \cup {NoAnswer}]
      /\ cache \in [Keys -> Answers \cup {NoAnswer}]
      /\ pc[r] \in Routed => InitialKey(input[r]) \in Keys
  BY InitialKeyType DEF TypeOK, CacheTypeOK, Located, Routed, Computing
<1>2. \A q \in Requests \ {r} : pc'[q] = pc[q] /\ answer'[q] = answer[q]
  BY <1>1
  DEF Arrive, Step, Goto, CacheLookup, HitAudit, MissAudit, JoinFlight, LeadFlight,
     Wake, Recheck, StartAudit, ReadOnline, Predict, Store, IndexStored, StoreMerged,
     IndexMerged, FinishAudit, ReleaseFlight, FailAudit, Fallback, Publish
<1>3. /\ pc'[r] \in {"hitAudit", "publish", "done"} => answer'[r] \in Answers
      /\ pc'[r] # "idle"
  <2>1. CASE Arrive(r)
    BY <1>1, <2>1 DEF Arrive, Goto
  <2>2. CASE CacheLookup(r) \/ Recheck(r)
    BY <1>1, <2>2 DEF CacheLookup, Recheck, Goto, Hits, Routed, Computing
  <2>3. CASE HitAudit(r) \/ Publish(r) \/ ReleaseFlight(r)
    BY <1>1, <2>3 DEF HitAudit, Publish, ReleaseFlight, Goto, Answered
  <2>4. CASE Fallback(r)
    <3>1. answer' \in [Requests -> Answers \cup {NoAnswer}]
      BY <2>4, StepType DEF Step, TypeOK
    <3>2. Response(FallbackFor(input[r].target),
                   [features |-> input[r].payload, version |-> 0]) # NoAnswer
      <4>1. FallbackFor(input[r].target) \in Models /\ input[r].payload \in Features
        BY <2>4, FallbackIsModel, OverlayType DEF Fallback, Goto, Located
      <4>2. Response(FallbackFor(input[r].target),
                     [features |-> input[r].payload, version |-> 0]) \in Answers
        BY <4>1, CacheAssumption DEF Response, Answers
      <4>3. QED
        BY <4>2, AnswerAssumption
    <3>3. QED
      BY <1>1, <2>4, <3>1, <3>2 DEF Fallback, Goto
  <2>5. CASE FailAudit(r)
    BY <1>1, <2>5 DEF FailAudit, Goto
  <2>6. CASE MissAudit(r) \/ JoinFlight(r) \/ LeadFlight(r) \/ Wake(r) \/ StartAudit(r)
             \/ ReadOnline(r) \/ Predict(r)
    BY <1>1, <2>6
    DEF MissAudit, JoinFlight, LeadFlight, Wake, StartAudit, ReadOnline, Predict, Goto
  <2>7. CASE Store(r) \/ IndexStored(r) \/ StoreMerged(r) \/ IndexMerged(r) \/ FinishAudit(r)
    BY <1>1, <2>7
    DEF Store, IndexStored, StoreMerged, IndexMerged, FinishAudit, AfterStore, Goto
  <2>8. QED
    BY <2>1, <2>2, <2>3, <2>4, <2>5, <2>6, <2>7 DEF Step
<1>4. QED
  BY <1>2, <1>3 DEF Answered

-----------------------------------------------------------------------------
(* Where every feature dictionary that is cached or answered comes from *)
Traced ==
    /\ \A k \in Keys : cache[k] # NoAnswer => Written(k, cache[k].features)
    /\ \A r \in Requests :
        /\ pc[r] \in Fed => seen[r].features \in Own(input[r])
        /\ pc[r] \in Fed \ {"predict"} => answer[r].features = seen[r].features
        /\ answer[r] # NoAnswer => answer[r].features \in Own(input[r])

(* What is left to show of a step of one request *)
LEMMA TracedRest ==
    ASSUME TypeOK, Traced, NEW r \in Requests,
           \A q \in Requests \ {r} :
              pc'[q] = pc[q] /\ seen'[q] = seen[q] /\ answer'[q] = answer[q] /\ input'[q] = input[q],
           \A k \in Keys : cache'[k] \in {cache[k], NoAnswer} \/ Written(k, cache'[k].features),
           pc'[r] \in Fed => seen'[r].features \in Own(input'[r]),
           pc'[r] \in Fed \ {"predict"} => answer'[r].features = seen'[r].features,
           answer'[r] # NoAnswer => answer'[r].features \in Own(input'[r])
    PROVE  Traced'
<1>1. ASSUME NEW k \in Keys, cache'[k] # NoAnswer PROVE Written(k, cache'[k].features)
  BY <1>1 DEF Traced
<1>2. QED
  BY <1>1 DEF Traced, Written

(* A request takes what it holds from itself, its entity or its own key *)
LEMMA TracedStep ==
    ASSUME TypeOK, Located, Answered, Traced, KeysTell, NEW r \in Requests, Arrive(r) \/ Step(r)
    PROVE  Traced'
<1> USE DEF Goto, Fed, Routed, Computing
<1>1. /\ pc \in [Requests -> Control] /\ answer \in [Requests -> Answers \cup {NoAnswer}]
      /\ cache \in [Keys -> Answers \cup {NoAnswer}]
      /\ input \in [Requests -> Inputs \cup {NoInput}]
      /\ seen \in [Requests -> [features : Features \cup {NoFeatures},
                                version : 0 .. MaxSweeps + 1]]
      /\ pc[r] \in Routed => InitialKey(input[r]) \in Keys /\ input[r].target \in Models
      /\ pc[r] # "idle" => input[r] \in Inputs
  BY InitialKeyType DEF TypeOK, CacheTypeOK, Located
<1>2. \A q \in Requests \ {r} :
          pc'[q] = pc[q] /\ seen'[q] = seen[q] /\ answer'[q] = answer[q] /\ input'[q] = input[q]
  BY <1>1 DEF Arrive, Step, CacheLookup, HitAudit, MissAudit, JoinFlight, LeadFlight,
     Wake, Recheck, StartAudit, ReadOnline, Predict, Store, IndexStored, StoreMerged,
     IndexMerged, FinishAudit, ReleaseFlight, FailAudit, Fallback, Publish
<1>r. /\ pc[r] \in Fed => seen[r].features \in Own(input[r])
      /\ pc[r] \in Fed \ {"predict"} => answer[r].features = seen[r].features
      /\ answer[r] # NoAnswer => answer[r].features \in Own(input[r])
  BY DEF Traced
<1> DEFINE Kept == \A k \in Keys : cache'[k] \in {cache[k], NoAnswer}
<1> DEFINE Sound == /\ pc'[r] \in Fed => seen'[r].features \in Own(input'[r])
                    /\ pc'[r] \in Fed \ {"predict"} => answer'[r].features = seen'[r].features
                    /\ answer'[r] # NoAnswer => answer'[r].features \in Own(input'[r])
<1>3. CASE Arrive(r)
  <2>1. UNCHANGED cache /\ answer'[r] = NoAnswer /\ pc'[r] \notin Fed
    BY <1>1, <1>3 DEF Arrive, cacheVars, Answered
  <2>2. QED
    BY <1>2, <2>1, TracedRest
<1>4. CASE CacheLookup(r) \/ Recheck(r)
  <2>1. pc'[r] \notin Fed /\ UNCHANGED <<cache, input>>
    BY <1>1, <1>4 DEF CacheLookup, Recheck, cacheVars
  <2>2. ASSUME cache[InitialKey(input[r])] # NoAnswer
        PROVE  cache[InitialKey(input[r])].features \in Own(input[r])
    <3>1. input[r] \in Inputs /\ input[r].target \in Models /\ InitialKey(input[r]) \in Keys
      BY <1>1, <1>4 DEF CacheLookup, Recheck
    <3>2. Written(InitialKey(input[r]), cache[InitialKey(input[r])].features)
      BY <2>2, <3>1 DEF Traced
    <3>3. QED
      BY <3>1, <3>2 DEF KeysTell
  <2>3. answer'[r] = answer[r] \/ answer'[r] = cache[InitialKey(input[r])]
    BY <1>1, <1>4 DEF CacheLookup, Recheck
  <2>4. answer'[r] # NoAnswer => answer'[r].features \in Own(input'[r])
    BY <1>r, <2>1, <2>2, <2>3
  <2>5. \A k \in Keys : cache'[k] \in {cache[k], NoAnswer}
    BY <2>1
  <2>6. QED
    BY <1>2, <2>1, <2>4, <2>5, TracedRest
<1>5. CASE HitAudit(r) \/ MissAudit(r) \/ JoinFlight(r) \/ LeadFlight(r) \/ Wake(r) \/ StartAudit(r)
  <2>1. /\ pc'[r] \notin Fed /\ UNCHANGED <<cache, input>>
        /\ answer'[r] \in {answer[r], NoAnswer}
    BY <1>1, <1>5
    DEF HitAudit, MissAudit, JoinFlight, LeadFlight, Lead, Wake, StartAudit, cacheVars
  <2>2. QED
    BY <1>2, <1>r, <2>1, TracedRest
<1>6. CASE ReadOnline(r)
  <2>1. UNCHANGED <<cache, input, answer>> /\ pc'[r] = "predict"
    BY <1>1, <1>6 DEF ReadOnline, cacheVars
  <2>2. seen'[r].features \in Own(input[r])
    BY <1>1, <1>6 DEF ReadOnline, Own
  <2>3. QED
    BY <1>2, <1>r, <2>1, <2>2, TracedRest
<1>7. CASE Predict(r)
  <2>1. UNCHANGED <<cache, input, seen>> /\ pc[r] = "predict"
    BY <1>7 DEF Predict, cacheVars
  <2>2. \/ answer'[r] = Response(input[r].target, seen[r])
        \/ pc'[r] = "release" /\ answer'[r] = answer[r]
    BY <1>1, <1>7 DEF Predict
  <2>3. Response(input[r].target, seen[r]).features = seen[r].features
    BY DEF Response
  <2>4. QED
    BY <1>2, <1>r, <2>1, <2>2, <2>3, TracedRest
<1>8. CASE Store(r) \/ StoreMerged(r)
  <2>1. UNCHANGED <<input, seen, answer>> /\ pc[r] \in Fed \ {"predict"}
    BY <1>8 DEF Store, StoreMerged
  <2>2. Written(InitialKey(input[r]), answer[r].features) /\ Written(MergedKey(r), answer[r].features)
    <3>1. /\ InitialKey(input[r]).model = input[r].target
          /\ InitialKey(input[r]).body = Sanitized(InitialPayload(input[r]))
          /\ MergedKey(r).model = input[r].target
          /\ MergedKey(r).body = Sanitized(answer[r].features)
      BY <1>r, <2>1 DEF InitialKey, MergedKey
    <3>2. input[r] \in Inputs /\ answer[r].features \in Own(input[r])
      BY <1>1, <1>r, <2>1
    <3>3. QED
      BY <3>1, <3>2 DEF Written
  <2>3. \A k \in Keys : cache'[k] = cache[k] \/ Written(k, cache'[k].features)
    <3>1. \/ cache' = cache
          \/ cache' = [cache EXCEPT ![InitialKey(input[r])] = answer[r]]
          \/ cache' = [cache EXCEPT ![MergedKey(r)] = answer[r]]
      BY <1>8 DEF Store, StoreMerged, SetKey, cacheVars
    <3>2. QED
      BY <1>1, <2>2, <3>1
  <2>4. QED
    BY <1>2, <1>r, <2>1, <2>3, TracedRest
<1>9. CASE IndexStored(r) \/ IndexMerged(r) \/ FinishAudit(r)
  <2>1. /\ UNCHANGED <<cache, input, seen>> /\ pc[r] \in Fed \cup {"finishAudit"}
        /\ \/ answer'[r] = answer[r]
           \/ answer'[r] = NoAnswer /\ pc'[r] \notin Fed
        /\ pc'[r] \in Fed => pc[r] \in Fed \ {"predict"}
    BY <1>1, <1>9
    DEF IndexStored, IndexMerged, FinishAudit, AfterStore, AddToIndex, cacheVars
  <2>2. QED
    BY <1>2, <1>r, <2>1, TracedRest
<1>10. CASE ReleaseFlight(r) \/ FailAudit(r) \/ Publish(r)
  <2>1. /\ UNCHANGED <<cache, input>> /\ pc'[r] \notin Fed
        /\ answer'[r] \in {answer[r], NoAnswer}
    BY <1>1, <1>10 DEF ReleaseFlight, Release, FailAudit, Publish, cacheVars
  <2>2. QED
    BY <1>2, <1>r, <2>1, TracedRest
<1>11. CASE Fallback(r)
  <2>1. /\ UNCHANGED <<cache, input>> /\ pc'[r] \notin Fed
        /\ \/ answer'[r] = answer[r]
           \/ answer'[r].features = input[r].payload
    BY <1>1, <1>11 DEF Fallback, Response, cacheVars
  <2>2. QED
    BY <1>2, <1>r, <2>1, TracedRest DEF Own
<1>12. QED
  BY <1>3, <1>4, <1>5, <1>6, <1>7, <1>8, <1>9, <1>10, <1>11 DEF Step

(* Sweeps and expiry only take answers away *)
LEMMA TracedEnvironment ==
    ASSUME TypeOK, Answered, Traced, CacheEnvironment
    PROVE  Answered' /\ Traced'
<1>1. \A k \in Keys : cache'[k] \in {cache[k], NoAnswer}
  <2>1. CASE \E k \in Keys : Expire(k) \/ InvalidateKey(k)
    BY <2>1 DEF Expire, InvalidateKey, TypeOK, CacheTypeOK
  <2>2. CASE SweepStep
    BY <2>2
    DEF SweepStep, SweepMembers, SweepDropIndex, SweepScanModel, SweepScanAll, ScanStep,
       SweepDelete, SweepEnd
  <2>3. CASE \E m \in Models \cup {NoModel}, all \in BOOLEAN : SweepBegin(m, all)
    BY <2>3 DEF SweepBegin
  <2>4. QED
    BY <2>1, <2>2, <2>3 DEF CacheEnvironment
<1>2. UNCHANGED reqVars
  BY DEF CacheEnvironment
<1>3. QED
  BY <1>1, <1>2 DEF Answered, Traced, reqVars

(* At the start there is nothing to trace *)
LEMMA TracedInit == Init => Answered /\ Traced
  BY DEF Init, CacheInit, Answered, Traced, Fed

(* Every step keeps it *)
LEMMA TracedNext ==
    ASSUME KeysTell
    PROVE  TypeOK /\ Located /\ Answered /\ Traced /\ [Next]_vars => Answered' /\ Traced'
<1> SUFFICES ASSUME TypeOK, Located, Answered, Traced, [Next]_vars PROVE Answered' /\ Traced'
  OBVIOUS
<1>1. CASE UNCHANGED vars
  BY <1>1 DEF vars, cacheVars, reqVars, Answered, Traced
<1>2. QED
  BY <1>1, AnsweredStep, TracedStep, TracedEnvironment DEF Next

(* A request is answered with its own features, alone or completed by the  *)
(* online vector of its own entity (inference/engine.py), however requests *)
(* of other entities share flights and cached responses, as long as none   *)
(* sends a part of a stored vector.                                        *)
THEOREM AnswersAreOwn == ASSUME WholeOrNone PROVE Spec => []AnswersOwnEntity
<1>1. TypeOK /\ Located /\ Answered /\ Traced => AnswersOwnEntity
  BY AnswerAssumption DEF Answered, Traced, AnswersOwnEntity, Own
<1>2. TypeOK /\ Located /\ Answered /\ Traced /\ [Next]_vars
        => (TypeOK /\ Located /\ Answered /\ Traced)'
  BY WholeKeysTell, NextType, TracedNext
<1>3. Init => TypeOK /\ Located /\ Answered /\ Traced
  BY TypeInit, TracedInit
<1>4. QED
  BY <1>1, <1>2, <1>3, PTL DEF Spec

-----------------------------------------------------------------------------
(* Batches *)

(* The rows whose responses predict_batch() does not have yet *)
Unanswered == {i \in RowIds : responses[i] = NoAnswer}

(* Where the batch stands in its loop over the missing rows *)
RowsToCome ==
    /\ phase \in {"idle", "lookup"} => row = 0 /\ unsaved = {}
    /\ phase = "rows" => row \notin Unanswered /\ (\E i \in unsaved : i > row)
    /\ phase \in {"rows", "running"} =>
          \A i \in Unanswered : i \in unsaved /\ row <= i
    /\ phase = "running" => row \in RowIds
    /\ phase \in {"store", "done"} => Unanswered = {}
    /\ phase = "store" => model # NoModel

(* The request that runs for a row asks for that row *)
RowRuns ==
    phase = "running" =>
        /\ pc[Runner[row]] # "idle"
        /\ input[Runner[row]].payload = Rows[row]
        /\ input[Runner[row]].entity = Anon

(* The inductive invariant of the batch and the requests beside it *)
BatchInv ==
    /\ BatchTypeOK
    /\ Located
    /\ Answered
    /\ RowsToCome
    /\ RowRuns

(* The places of the batch, its rows and the requests that run them *)
LEMMA RowsAreRows ==
  /\ RowIds \subseteq Nat \ {0}
  /\ \A i \in RowIds : Rows[i] \in Payloads /\ Runner[i] \in Requests
<1>1. RowIds = 1 .. Len(Rows) /\ Len(Rows) \in Nat
  BY BatchAssumption DEF RowIds
<1>2. QED
  BY <1>1, BatchAssumption DEF RowIds

(* A row has a cache key *)
LEMMA RowKeyType ==
    ASSUME NEW i \in RowIds, model \in Models
    PROVE  RowKey(i) \in Keys
<1>1. Rows[i] \in Features
  BY RowsAreRows DEF Features
<1>2. QED
  BY <1>1 DEF RowKey, Keys, Bodies

(* At the start the batch is idle *)
LEMMA BatchInitInv == BatchInit => BatchInv
<1> SUFFICES ASSUME BatchInit PROVE BatchInv
  OBVIOUS
<1>1. Init
  BY DEF BatchInit
<1>2. TypeOK /\ Located /\ Answered
  BY <1>1, TypeInit DEF Init, Answered
<1>3. QED
  BY <1>2 DEF BatchInit, BatchInv, BatchTypeOK, RowsToCome, RowRuns, Unanswered

(* A step of a request that is not the batch's *)
LEMMA OthersInv ==
    ASSUME BatchInv, Others, UNCHANGED batchVars
    PROVE  BatchInv'
<1>1. Next
  BY DEF Others, Next
<1>2. TypeOK' /\ Located'
  BY <1>1, NextType DEF BatchInv, BatchTypeOK
<1>3. Answered'
  <2>1. CASE CacheEnvironment
    BY <2>1 DEF CacheEnvironment, reqVars, BatchInv, Answered
  <2>2. CASE \E r \in Requests : Arrive(r) \/ Step(r)
    BY <2>2, AnsweredStep DEF BatchInv, BatchTypeOK
  <2>3. QED
    BY <2>1, <2>2 DEF Others
<1>4. RowRuns'
  <2> SUFFICES ASSUME phase = "running"
               PROVE  /\ pc'[Runner[row]] # "idle"
                      /\ input'[Runner[row]] = input[Runner[row]]
    BY DEF RowRuns, BatchInv, batchVars
  <2>1. row \in RowIds /\ Runner[row] \in Requests /\ pc[Runner[row]] # "idle"
    BY RowsAreRows DEF BatchInv, RowsToCome, RowRuns
  <2>2. pc \in [Requests -> Control] /\ input \in [Requests -> Inputs \cup {NoInput}]
    BY DEF BatchInv, BatchTypeOK, TypeOK
  <2>3. ASSUME NEW r \in Requests \ {Runner[i] : i \in RowIds}, Arrive(r)
        PROVE  /\ pc'[Runner[row]] # "idle"
               /\ input'[Runner[row]] = input[Runner[row]]
    BY <2>1, <2>2, <2>3 DEF Arrive, Goto
  <2>4. ASSUME NEW r \in Requests, Step(r)
        PROVE  /\ pc'[Runner[row]] # "idle"
               /\ input'[Runner[row]] = input[Runner[row]]
    <3>1. UNCHANGED input
      BY <2>4 DEF Step, CacheLookup, HitAudit, MissAudit, JoinFlight, LeadFlight,
         Wake, Recheck, StartAudit, ReadOnline, Predict, Store, IndexStored, StoreMerged,
         IndexMerged, FinishAudit, ReleaseFlight, FailAudit, Fallback, Publish
    <3>2. PICK to \in Control \ {"idle"} : pc' = [pc EXCEPT ![r] = to]
      BY <2>4 DEF Step, CacheLookup, HitAudit, MissAudit, JoinFlight, LeadFlight,
         Wake, Recheck, StartAudit, ReadOnline, Predict, Store, IndexStored, StoreMerged, AfterStore,
         IndexMerged, FinishAudit, ReleaseFlight, FailAudit, Fallback, Publish, Goto,
         Control, Computing, Terminal
    <3>3. QED
      BY <2>1, <2>2, <3>1, <3>2
  <2>5. CASE CacheEnvironment
    BY <2>1, <2>5 DEF CacheEnvironment, reqVars
  <2>6. QED
    BY <2>3, <2>4, <2>5 DEF Others
<1>5. RowsToCome' /\ BatchTypeOK'
  BY <1>2 DEF BatchInv, BatchTypeOK, RowsToCome, Unanswered, batchVars
<1>6. QED
  BY <1>2, <1>3, <1>4, <1>5 DEF BatchInv

(* predict_batch() resolves its model *)
LEMMA BatchBeginInv == ASSUME BatchInv, BatchBegin PROVE BatchInv'
<1>1. model' \in Models \cup {NoModel}
  BY ServingAssumption DEF BatchBegin
<1>2. TypeOK' /\ Located' /\ Answered'
  BY DEF BatchInv, BatchTypeOK, BatchBegin, vars, cacheVars, reqVars, TypeOK,
     CacheTypeOK, Located, Answered
<1>3. QED
  BY <1>1, <1>2 DEF BatchInv, BatchTypeOK, BatchBegin, RowsToCome, RowRuns, Unanswered

(* A step of the batch that leaves the requests alone *)
LEMMA VarsStay ==
    ASSUME BatchInv, UNCHANGED vars PROVE TypeOK' /\ Located' /\ Answered'
  BY DEF BatchInv, BatchTypeOK, vars, cacheVars, reqVars, TypeOK, CacheTypeOK, Located,
     Answered

(* One MGET takes what is cached; the others are missing rows *)
LEMMA BatchLookupInv == ASSUME BatchInv, BatchLookup PROVE BatchInv'
<1>1. TypeOK' /\ Located' /\ Answered'
  BY VarsStay DEF BatchLookup
<1>2. responses' \in [RowIds -> Answers \cup {NoAnswer}]
  <2>1. CASE model # NoModel /\ responses' = [i \in RowIds |-> cache[RowKey(i)]]
    BY <2>1, RowKeyType DEF BatchInv, BatchTypeOK, TypeOK, CacheTypeOK
  <2>2. CASE UNCHANGED responses
    BY <2>2 DEF BatchInv, BatchTypeOK
  <2>3. QED
    BY <2>1, <2>2 DEF BatchLookup
<1>3. /\ unsaved' = Unanswered' /\ row' = 0 /\ unindexed' = unindexed /\ model' = model
      /\ phase' = IF Unanswered' = {} THEN "done" ELSE "rows"
  BY DEF BatchLookup, Missing, Unanswered
<1>4. RowsToCome' /\ RowRuns'
  <2>1. Unanswered' \subseteq RowIds /\ 0 \notin RowIds /\ \A i \in RowIds : i \in Nat \ {0}
    BY RowsAreRows DEF Unanswered
  <2>2. \A i \in Unanswered' : 0 <= i /\ i > 0
    BY <2>1
  <2>3. QED
    BY <1>3, <2>1, <2>2 DEF RowsToCome, RowRuns
<1>5. QED
  BY <1>1, <1>2, <1>3, <1>4 DEF BatchInv, BatchTypeOK, Unanswered

(* The next missing row runs as a request of its own *)
LEMMA BatchNextRowInv == ASSUME BatchInv, BatchNextRow PROVE BatchInv'
<1>1. PICK i \in unsaved, in \in Inputs :
        /\ i > row /\ \A j \in unsaved : j > row => i <= j
        /\ in.payload = Rows[i] /\ in.entity = Anon
        /\ row' = i
        /\ Goto(Runner[i], "idle", IF IsLoaded(in.target) THEN "lookup" ELSE "failAudit")
        /\ input' = [input EXCEPT ![Runner[i]] = in]
  BY DEF BatchNextRow
<1>2. i \in RowIds /\ Runner[i] \in Requests
  BY RowsAreRows DEF BatchInv, BatchTypeOK
<1>3. Arrive(Runner[i])
  BY <1>1 DEF Arrive, BatchNextRow
<1>4. TypeOK' /\ Located' /\ Answered'
  BY <1>2, <1>3, StepType, AnsweredStep DEF BatchInv, BatchTypeOK
<1>5. RowRuns'
  <2>1. pc \in [Requests -> Control] /\ input \in [Requests -> Inputs \cup {NoInput}]
    BY DEF BatchInv, BatchTypeOK, TypeOK
  <2>2. pc'[Runner[i]] # "idle" /\ input'[Runner[i]] = in
    BY <1>1, <1>2, <2>1 DEF Goto
  <2>3. QED
    BY <1>1, <2>2 DEF RowRuns
<1>6. RowsToCome'
  <2>1. /\ Unanswered' = Unanswered /\ unsaved' = unsaved
        /\ phase = "rows" /\ phase' = "running" /\ row' = i
    BY <1>1 DEF BatchNextRow, Unanswered
  <2>2. \A j \in Unanswered : j \in unsaved /\ row <= j /\ j # row /\ j \in Nat /\ row \in Nat
    BY <2>1, RowsAreRows DEF BatchInv, RowsToCome, BatchTypeOK, Unanswered
  <2>3. \A j \in Unanswered : j \in unsaved /\ i <= j
    BY <1>1, <2>2
  <2>4. QED
    BY <1>2, <2>1, <2>3 DEF RowsToCome
<1>7. QED
  BY <1>1, <1>2, <1>4, <1>5, <1>6 DEF BatchNextRow, BatchInv, BatchTypeOK

(* The row of the request has its response, or the batch fails with it *)
LEMMA BatchRowDoneInv == ASSUME BatchInv, BatchRowDone PROVE BatchInv'
<1>1. TypeOK' /\ Located' /\ Answered'
  BY VarsStay DEF BatchRowDone
<1>2. row \in RowIds /\ Runner[row] \in Requests /\ phase = "running"
  BY RowsAreRows DEF BatchInv, RowsToCome, BatchRowDone
<1>3. CASE pc[Runner[row]] = "error"
  <2>1. phase' = "failed" /\ UNCHANGED <<responses, model, row, unsaved, unindexed>>
    BY <1>3 DEF BatchRowDone
  <2>2. QED
    BY <1>1, <2>1 DEF BatchInv, BatchTypeOK, RowsToCome, RowRuns, Unanswered
<1>4. CASE pc[Runner[row]] = "done"
  <2>1. /\ responses' = [responses EXCEPT ![row] = answer[Runner[row]]]
        /\ phase' = IF \E j \in unsaved : j > row THEN "rows"
                    ELSE IF model = NoModel THEN "done" ELSE "store"
        /\ UNCHANGED <<model, row, unsaved, unindexed>>
    BY <1>4 DEF BatchRowDone
  <2>2. answer[Runner[row]] \in Answers /\ answer[Runner[row]] # NoAnswer
    BY <1>2, <1>4, AnswerAssumption DEF BatchInv, Answered
  <2>3. responses' \in [RowIds -> Answers \cup {NoAnswer}] /\ Unanswered' = Unanswered \ {row}
    BY <1>2, <2>1, <2>2 DEF BatchInv, BatchTypeOK, Unanswered
  <2>4. \A j \in Unanswered' : j \in unsaved /\ row < j /\ j \in Unanswered
    <3>1. \A j \in Unanswered : j \in unsaved /\ row <= j /\ j \in Nat /\ row \in Nat
      BY <1>2, RowsAreRows DEF BatchInv, RowsToCome, Unanswered
    <3>2. QED
      BY <2>3, <3>1
  <2>5. (\E j \in unsaved : j > row) \/ Unanswered' = {}
    BY <1>2, <2>4, RowsAreRows
  <2>6. phase' \in {"rows", "store", "done"} /\ (phase' = "store" => model # NoModel)
    BY <2>1
  <2>7. RowsToCome'
    <3>1. phase' = "rows" => row' \notin Unanswered' /\ (\E j \in unsaved' : j > row')
      BY <2>1, <2>3
    <3>2. phase' = "rows" => \A j \in Unanswered' : j \in unsaved' /\ row' <= j
      BY <1>2, <2>1, <2>4, RowsAreRows DEF Unanswered
    <3>3. phase' \in {"store", "done"} => Unanswered' = {}
      BY <2>1, <2>5
    <3>4. QED
      BY <2>1, <2>6, <3>1, <3>2, <3>3 DEF RowsToCome
  <2>8. RowRuns'
    BY <2>6 DEF RowRuns
  <2>9. QED
    BY <1>1, <2>1, <2>3, <2>6, <2>7, <2>8 DEF BatchInv, BatchTypeOK
<1>5. QED
  BY <1>3, <1>4 DEF BatchRowDone

(* The stores of the batch leave its responses alone *)
LEMMA BatchStoresInv ==
    ASSUME BatchInv, BatchStore \/ BatchIndex \/ BatchEnd PROVE BatchInv'
<1>1. phase = "store" /\ phase' \in {"store", "done"} /\ UNCHANGED <<reqVars, model, responses, row>>
  BY DEF BatchStore, BatchIndex, BatchEnd, vars
<1>2. model \in Models /\ Unanswered = {} /\ \A i \in RowIds : responses[i] \in Answers
  BY <1>1 DEF BatchInv, RowsToCome, BatchTypeOK, Unanswered
<1>3. unsaved' \subseteq RowIds /\ unindexed' \subseteq RowIds
  BY DEF BatchInv, BatchTypeOK, BatchStore, BatchIndex, BatchEnd
<1>4. CacheTypeOK'
  <2>1. CASE UNCHANGED cacheVars
    BY <2>1, UnchangedCacheType DEF BatchInv, BatchTypeOK
  <2>2. ASSUME NEW i \in RowIds, SetKey(RowKey(i), responses[i]) PROVE CacheTypeOK'
    <3>1. PICK k \in Keys : k = RowKey(i)
      BY <1>2, RowKeyType
    <3>2. PICK a \in Answers : a = responses[i]
      BY <1>2
    <3>3. QED
      BY <2>2, <3>1, <3>2, SetKeyType DEF BatchInv, BatchTypeOK
  <2>3. ASSUME NEW i \in RowIds, AddToIndex(RowKey(i)) PROVE CacheTypeOK'
    <3>1. PICK k \in Keys : k = RowKey(i)
      BY <1>2, RowKeyType
    <3>2. QED
      BY <2>3, <3>1, AddToIndexType DEF BatchInv, BatchTypeOK
  <2>4. QED
    BY <2>1, <2>2, <2>3
    DEF BatchStore, BatchIndex, BatchEnd, vars, BatchInv, BatchTypeOK
<1>5. TypeOK' /\ Located' /\ Answered'
  BY <1>1, <1>4 DEF BatchInv, BatchTypeOK, TypeOK, Located, Answered, reqVars
<1>6. RowsToCome' /\ RowRuns'
  BY <1>1, <1>2 DEF RowsToCome, RowRuns, Unanswered, BatchInv
<1>7. QED
  BY <1>1, <1>3, <1>5, <1>6 DEF BatchInv, BatchTypeOK

(* Every step keeps the invariant *)
LEMMA BatchInvInductive == BatchInv /\ [BatchNext]_allVars => BatchInv'
<1> SUFFICES ASSUME BatchInv, [BatchNext]_allVars PROVE BatchInv'
  OBVIOUS
<1>1. CASE UNCHANGED allVars
  <2>1. UNCHANGED vars /\ UNCHANGED batchVars
    BY <1>1 DEF allVars
  <2>2. TypeOK' /\ Located' /\ Answered'
    BY <2>1, VarsStay
  <2>3. QED
    BY <2>1, <2>2
    DEF BatchInv, BatchTypeOK, batchVars, vars, reqVars, RowsToCome, RowRuns, Unanswered
<1>2. QED
  BY <1>1, OthersInv, BatchBeginInv, BatchLookupInv, BatchNextRowInv, BatchRowDoneInv,
     BatchStoresInv
  DEF BatchNext, BatchStep

(* The batch and the requests beside it keep their types. *)
THEOREM BatchTypeCorrect == BatchSpec => []BatchTypeOK
<1>1. BatchInv => BatchTypeOK
  BY DEF BatchInv
<1>2. QED
  BY <1>1, BatchInitInv, BatchInvInductive, PTL DEF BatchSpec

(* Nothing is materialized for the entity id that batch rows run under *)
AnonIsUnknown == OnlineVector[Anon] = NoFeatures

(* What the batch has for a row was computed from that row *)
RowsInv ==
    /\ Traced
    /\ \A i \in RowIds : responses[i] # NoAnswer => responses[i].features = Rows[i]
    /\ model # NoModel => \E in \in Inputs : in.target = model

(* A row of the batch may as well be the input of a single request *)
LEMMA RowAsInput ==
    ASSUME NEW in \in Inputs, NEW i \in RowIds
    PROVE  [target |-> in.target, payload |-> Rows[i], entity |-> Anon] \in Inputs
  BY BatchAssumption DEF RowIds

(* Without a vector for Anon a row is answered with its own features only *)
LEMMA OwnRow ==
    ASSUME WholeOrNone, AnonIsUnknown, NEW in \in Inputs, NEW i \in RowIds,
           in.payload = Rows[i], in.entity = Anon
    PROVE  Own(in) = {Rows[i]}
  BY OwnFeatures DEF AnonIsUnknown

(* What is stored under the key of a row has the features of this row *)
LEMMA RowKeysTell ==
    ASSUME WholeOrNone, AnonIsUnknown, NEW i \in RowIds, NEW f, Written(RowKey(i), f)
    PROVE  f = Rows[i]
<1>1. PICK in \in Inputs :
        /\ f \in Own(in)
        /\ Sanitized(Rows[i]) \in {Sanitized(InitialPayload(in)), Sanitized(f)}
  BY DEF Written, RowKey
<1>2. Plain(Rows[i])
  <2>1. PICK asked \in Inputs : asked.payload = Rows[i]
    BY RowAsInput
  <2>2. QED
    BY <2>1 DEF WholeOrNone
<1>3. Plain(f) /\ Plain(in.payload)
  BY <1>1, OwnFeatures DEF WholeOrNone
<1>4. Sanitized(f) = f /\ Sanitized(in.payload) = in.payload /\ Sanitized(Rows[i]) = Rows[i]
  BY <1>2, <1>3, PlainIsSanitized
<1>5. CASE Rows[i] = f
  BY <1>5
<1>6. CASE Rows[i] = Sanitized(InitialPayload(in))
  <2>1. in.payload # NoFeatures
    BY <1>2, <1>6, EntitiesTell DEF InitialPayload
  <2>2. Rows[i] = in.payload
    BY <1>4, <1>6, <2>1 DEF InitialPayload
  <2>3. f = in.payload
    BY <1>1, <2>1, OwnFeatures
  <2>4. QED
    BY <2>2, <2>3
<1>7. QED
  BY <1>1, <1>4, <1>5, <1>6

(* At the start the batch has no response *)
LEMMA RowsInit == BatchInit => RowsInv
  BY TracedInit DEF BatchInit, RowsInv

(* Every step keeps it, the steps of the batch by the lemmas above *)
LEMMA RowsNext ==
    ASSUME WholeOrNone, AnonIsUnknown, BatchInv, RowsInv, [BatchNext]_allVars
    PROVE  RowsInv'
<1> USE DEF BatchInv, BatchTypeOK
<1>0. KeysTell
  BY WholeKeysTell
<1>t. TypeOK /\ Located /\ Answered /\ Traced
  BY DEF RowsInv
<1>1. ASSUME UNCHANGED vars PROVE Traced'
  BY <1>1, <1>t DEF Traced, vars, cacheVars, reqVars
<1>2. CASE Others /\ UNCHANGED batchVars
  <2>1. Traced'
    BY <1>0, <1>t, <1>2, TracedStep, TracedEnvironment DEF Others
  <2>2. QED
    BY <1>2, <2>1 DEF RowsInv, batchVars
<1>3. CASE BatchBegin
  <2>1. Traced'
    BY <1>1, <1>3 DEF BatchBegin
  <2>2. QED
    BY <1>3, <2>1 DEF BatchBegin, RowsInv
<1>4. CASE BatchLookup
  <2>1. Traced' /\ model' = model
    BY <1>1, <1>4 DEF BatchLookup
  <2>2. ASSUME NEW i \in RowIds, responses'[i] # NoAnswer
        PROVE  responses'[i].features = Rows[i]
    <3>1. CASE model # NoModel /\ responses' = [j \in RowIds |-> cache[RowKey(j)]]
      <4>1. responses'[i] = cache[RowKey(i)] /\ RowKey(i) \in Keys
        BY <3>1, RowKeyType
      <4>2. Written(RowKey(i), cache[RowKey(i)].features)
        BY <2>2, <4>1, <1>t DEF Traced
      <4>3. QED
        BY <4>1, <4>2, RowKeysTell
    <3>2. CASE UNCHANGED responses
      BY <2>2, <3>2 DEF RowsInv
    <3>3. QED
      BY <1>4, <3>1, <3>2 DEF BatchLookup
  <2>3. QED
    BY <2>1, <2>2 DEF RowsInv
<1>5. CASE BatchNextRow
  <2>1. PICK i \in RowIds : Arrive(Runner[i]) /\ Runner[i] \in Requests
    BY <1>5, RowsAreRows DEF BatchNextRow, Arrive
  <2>2. Traced'
    BY <1>0, <1>t, <2>1, TracedStep
  <2>3. QED
    BY <1>5, <2>2 DEF BatchNextRow, RowsInv
<1>6. CASE BatchRowDone
  <2>1. Traced' /\ model' = model
    BY <1>1, <1>6 DEF BatchRowDone
  <2>2. row \in RowIds /\ Runner[row] \in Requests
    BY <1>6, RowsAreRows DEF BatchRowDone, RowsToCome
  <2>3. ASSUME pc[Runner[row]] = "done" PROVE answer[Runner[row]].features = Rows[row]
    <3>1. answer[Runner[row]] # NoAnswer
      BY <2>2, <2>3, AnswerAssumption DEF Answered
    <3>2. answer[Runner[row]].features \in Own(input[Runner[row]])
      BY <1>t, <2>2, <3>1 DEF Traced
    <3>3. PICK in \in Inputs : in = input[Runner[row]]
      BY <1>t, <2>2, <2>3 DEF Located
    <3>4. in.payload = Rows[row] /\ in.entity = Anon
      BY <1>6, <3>3 DEF BatchRowDone, RowRuns
    <3>5. PICK i \in RowIds : i = row
      BY <2>2
    <3>6. Own(in) = {Rows[i]}
      BY <3>4, <3>5, OwnRow
    <3>7. QED
      BY <3>2, <3>3, <3>5, <3>6
  <2>4. \A i \in RowIds : responses'[i] # NoAnswer => responses'[i].features = Rows[i]
    BY <1>6, <2>2, <2>3 DEF BatchRowDone, RowsInv
  <2>5. QED
    BY <2>1, <2>4 DEF RowsInv
<1>7. CASE BatchStore
  <2>1. UNCHANGED <<reqVars, model, responses>> /\ model \in Models
    BY <1>7 DEF BatchStore, RowsToCome
  <2>2. \A k \in Keys : cache'[k] = cache[k] \/ Written(k, cache'[k].features)
    <3>1. CASE UNCHANGED cacheVars
      BY <3>1 DEF cacheVars
    <3>2. ASSUME NEW i \in RowIds, SetKey(RowKey(i), responses[i])
          PROVE  \A k \in Keys : cache'[k] = cache[k] \/ Written(k, cache'[k].features)
      <4>1. responses[i].features = Rows[i]
        BY <1>7 DEF BatchStore, RowsToCome, Unanswered, RowsInv
      <4>2. Written(RowKey(i), Rows[i])
        <5>1. PICK asked \in Inputs : asked.target = model
          BY <2>1, CacheAssumption DEF RowsInv
        <5>2. PICK in \in Inputs : in.target = model /\ in.payload = Rows[i]
          BY <5>1, RowAsInput
        <5>3. QED
          BY <5>2 DEF Written, RowKey, Own
      <4>3. \A k \in Keys : cache'[k] = cache[k] \/ (k = RowKey(i) /\ cache'[k] = responses[i])
        <5>1. PICK written, a : written = RowKey(i) /\ a = responses[i]
          OBVIOUS
        <5>2. cache' = [cache EXCEPT ![written] = a]
          BY <3>2, <5>1 DEF SetKey
        <5>3. cache \in [Keys -> Answers \cup {NoAnswer}]
          BY <1>t DEF TypeOK, CacheTypeOK
        <5>4. \A k \in Keys : cache'[k] = cache[k] \/ (k = written /\ cache'[k] = a)
          BY <5>2, <5>3
        <5>5. QED
          BY <5>1, <5>4
      <4>4. QED
        BY <4>1, <4>2, <4>3
    <3>3. QED
      BY <1>7, <3>1, <3>2 DEF BatchStore
  <2>3. Traced'
    BY <1>t, <2>1, <2>2 DEF Traced, reqVars, Written
  <2>4. QED
    BY <2>1, <2>3 DEF RowsInv
<1>8. CASE BatchIndex \/ BatchEnd
  <2>1. UNCHANGED <<reqVars, cache, model, responses>>
    BY <1>8 DEF BatchIndex, BatchEnd, AddToIndex, vars, cacheVars
  <2>2. QED
    BY <2>1 DEF RowsInv, Traced, reqVars
<1>9. CASE UNCHANGED allVars
  <2>1. Traced'
    BY <1>1, <1>9 DEF allVars
  <2>2. QED
    BY <1>9, <2>1 DEF RowsInv, allVars, batchVars
<1>10. QED
  BY <1>2, <1>3, <1>4, <1>5, <1>6, <1>7, <1>8, <1>9 DEF BatchNext, BatchStep

(* The response of a batch at each place was computed from the row at that *)
(* place (inference/engine.py, predict_batch()): cached rows, recomputed   *)
(* rows, rows of other batches and single requests for the same features   *)
(* are never mixed up.                                                     *)
THEOREM RowsAreAnsweredInOrder ==
    ASSUME WholeOrNone, AnonIsUnknown PROVE BatchSpec => []RowsAnsweredInOrder
<1>1. BatchInv /\ RowsInv => RowsAnsweredInOrder
  BY DEF BatchInv, RowsToCome, Unanswered, RowsInv, RowsAnsweredInOrder
<1>2. BatchInv /\ RowsInv /\ [BatchNext]_allVars => (BatchInv /\ RowsInv)'
  BY BatchInvInductive, RowsNext
<1>3. BatchInit => BatchInv /\ RowsInv
  BY BatchInitInv, RowsInit
<1>4. QED
  BY <1>1, <1>2, <1>3, PTL DEF BatchSpec

-----------------------------------------------------------------------------
(* Requests beside a batch *)

(* What the batch itself does to Redis: at most one SET, for one of its    *)
(* rows, or an SADD; it leaves the requests and their flights alone.       *)
BatchWrites == UNCHANGED <<reqVars, inflight, landed>> /\ Sets

(* For the requests a batch is nothing but further requests and writes *)
LEMMA BatchIsServing ==
    ASSUME BatchInv, [BatchNext]_allVars
    PROVE  [Next]_vars \/ BatchWrites
<1>1. ASSUME Others PROVE Next
  BY <1>1 DEF Others, Next
<1>2. ASSUME BatchBegin \/ BatchLookup \/ BatchRowDone \/ BatchEnd PROVE UNCHANGED vars
  BY <1>2 DEF BatchBegin, BatchLookup, BatchRowDone, BatchEnd
<1>3. ASSUME BatchNextRow PROVE Next
  <2>1. PICK i \in RowIds : Arrive(Runner[i]) /\ Runner[i] \in Requests
    BY <1>3, RowsAreRows DEF BatchNextRow, Arrive, BatchInv, BatchTypeOK
  <2>2. QED
    BY <2>1 DEF Next
<1>4. ASSUME BatchStore PROVE BatchWrites
  <2>1. phase = "store" /\ UNCHANGED reqVars
    BY <1>4 DEF BatchStore
  <2>2. model \in Models /\ \A i \in RowIds : responses[i] \in Answers
    BY <2>1 DEF BatchInv, BatchTypeOK, RowsToCome, Unanswered
  <2>3. CASE UNCHANGED cacheVars
    BY <2>1, <2>3 DEF BatchWrites, Sets, cacheVars
  <2>4. ASSUME NEW i \in RowIds, SetKey(RowKey(i), responses[i]) PROVE BatchWrites
    <3>1. PICK k \in Keys, a \in Answers : k = RowKey(i) /\ a = responses[i]
      BY <2>2, RowKeyType
    <3>2. SetKey(k, a)
      BY <2>4, <3>1
    <3>3. QED
      BY <2>1, <3>2 DEF BatchWrites, Sets, SetKey
  <2>5. QED
    BY <1>4, <2>3, <2>4 DEF BatchStore, BatchInv, BatchTypeOK
<1>5. ASSUME BatchIndex PROVE BatchWrites
  BY <1>5 DEF BatchIndex, AddToIndex, BatchWrites, Sets, cacheVars
<1>6. QED
  BY <1>1, <1>2, <1>3, <1>4, <1>5 DEF BatchNext, BatchStep, allVars

(* What requests rely on, whatever calls fail *)
Served == WaitersAreRegistered /\ EventsAreFresh /\ SweepInv

(* A write of the batch wakes nobody, and a running sweep counts it as late *)
LEMMA WritesServe ==
    ASSUME TypeOK, Served, BatchWrites
    PROVE  Served'
<1>1. WaitersAreRegistered' /\ EventsAreFresh'
  BY DEF Served, BatchWrites, reqVars, WaitersAreRegistered, EventsAreFresh, InitialKey, InitialPayload
<1>2. SweepInv'
  BY SweepSets DEF Served, BatchWrites
<1>3. QED
  BY <1>1, <1>2 DEF Served

LEMMA BatchServes == BatchInv /\ Served /\ [BatchNext]_allVars => Served'
<1> SUFFICES ASSUME BatchInv, Served, [BatchNext]_allVars PROVE Served'
  OBVIOUS
<1>1. TypeOK /\ Located
  BY DEF BatchInv, BatchTypeOK
<1>2. CASE [Next]_vars
  BY <1>1, <1>2, WaitersStep, FreshStep, SweepNext DEF Served
<1>3. CASE BatchWrites
  BY <1>1, <1>3, WritesServe
<1>4. QED
  BY <1>2, <1>3, BatchIsServing

LEMMA ServedInit == BatchInit => Served
  BY CacheAssumption DEF BatchInit, Init, CacheInit, IdleSweep, Served, WaitersAreRegistered,
     EventsAreFresh, SweepInv, LastScan

(* No wake-up is lost either when rows of a batch wait for the flights of  *)
(* other requests, or the requests for those of the batch.                 *)
THEOREM BatchLosesNoWakeup == BatchSpec => []WaitersAreRegistered
<1>1. Served => WaitersAreRegistered
  BY DEF Served
<1>2. QED
  BY <1>1, ServedInit, BatchServes, BatchInitInv, BatchInvInductive, PTL DEF BatchSpec

(* A sweep leaves only what was written after its last scan had begun, the *)
(* rows that a batch stores at the end included.                           *)
THEOREM BatchSweepsAreComplete == BatchSpec => []SweepLeavesOnlyLateWrites
<1>1. Served => SweepLeavesOnlyLateWrites
  BY DEF Served, SweepInv, SweepLeavesOnlyLateWrites
<1>2. QED
  BY <1>1, ServedInit, BatchServes, BatchInitInv, BatchInvInductive, PTL DEF BatchSpec

(* The rows of a batch fly as single requests do. *)
THEOREM BatchFlightRefinement == BatchSpec => ImplementsFlights
<1>1. BatchInit => FlightTable!Init
  BY DEF BatchInit, Init, CacheInit, FlightTable!Init, Waiting
<1>2. BatchInv /\ Served /\ [BatchNext]_allVars => [FlightTable!Next]_FlightTable!flightVars
  <2> SUFFICES ASSUME BatchInv, Served, [BatchNext]_allVars
               PROVE  FlightTable!Next \/ UNCHANGED FlightTable!flightVars
    OBVIOUS
  <2>1. CASE [Next]_vars
    BY <2>1, FlightStep DEF Served, BatchInv, BatchTypeOK
  <2>2. CASE BatchWrites
    BY <2>2 DEF BatchWrites, reqVars, Waiting, FlightTable!flightVars
  <2>3. QED
    BY <2>1, <2>2, BatchIsServing
<1>3. QED
  BY <1>1, <1>2, ServedInit, BatchServes, BatchInitInv, BatchInvInductive, PTL
     DEF BatchSpec, ImplementsFlights, FlightTable!Spec

(* Whoever waits for a key waits for somebody else, who leads its flight   *)
OthersLead ==
    \A k \in Keys : Waiting(k) # {} => inflight[k] # NoFlight /\ inflight[k] \notin Waiting(k)

(* The promise of the flight table, carried over to the requests and to    *)
(* the requests beside a batch: nobody waits for a key without a flight,   *)
(* nor for itself, whatever calls fail.                                    *)
THEOREM WaitersAreLed == (Spec \/ BatchSpec) => []OthersLead
<1> DEFINE Table == inflight \in [Keys -> Requests \cup {NoFlight}]
<1>1. FlightTable!Init => Table /\ OthersLead
  <2> SUFFICES ASSUME FlightTable!Init PROVE Table /\ OthersLead
    OBVIOUS
  <2>1. \A k \in Keys : [c \in Keys |-> Waiting(c)][k] = {}
    BY DEF FlightTable!Init
  <2>2. QED
    BY <2>1 DEF OthersLead, FlightTable!Init
<1>2. Table /\ OthersLead /\ [FlightTable!Next]_FlightTable!flightVars => Table' /\ OthersLead'
  <2> SUFFICES ASSUME Table, OthersLead, [FlightTable!Next]_FlightTable!flightVars
               PROVE  Table' /\ OthersLead'
    OBVIOUS
  <2> DEFINE before == [c \in Keys |-> Waiting(c)]
             after == [c \in Keys |-> Waiting(c)']
             Led(k) == before[k] # {} => inflight[k] # NoFlight /\ inflight[k] \notin before[k]
             LedNow(k) == after[k] # {} => inflight'[k] # NoFlight /\ inflight'[k] \notin after[k]
  <2>1. before \in [Keys -> SUBSET Requests] /\ after \in [Keys -> SUBSET Requests]
    BY DEF Waiting
  <2>2. \A k \in Keys : Led(k)
    BY DEF OthersLead
  <2>3. \/ inflight' = inflight /\ after = before
        \/ \E k \in Keys, c \in Requests :
              /\ inflight[k] = NoFlight
              /\ inflight' = [inflight EXCEPT ![k] = c] /\ after = before
        \/ \E k \in Keys, c \in Requests :
              /\ inflight[k] \notin {NoFlight, c}
              /\ after = [before EXCEPT ![k] = @ \cup {c}] /\ inflight' = inflight
        \/ \E k \in Keys :
              /\ inflight' = [inflight EXCEPT ![k] = NoFlight]
              /\ after = [before EXCEPT ![k] = {}]
    BY DEF FlightTable!Next, FlightTable!Lead, FlightTable!Join, FlightTable!Land,
       FlightTable!flightVars
  <2> HIDE DEF before, after
  <2>4. Table' /\ \A k \in Keys : LedNow(k)
    BY <2>1, <2>2, <2>3, CacheAssumption
  <2>5. \A k \in Keys : after[k] = Waiting(k)'
    BY DEF after
  <2>6. QED
    BY <2>4, <2>5 DEF OthersLead
<1> HIDE DEF Table
<1>3. FlightTable!Spec => []OthersLead
  BY <1>1, <1>2, PTL DEF FlightTable!Spec
<1>4. QED
  BY <1>3, FlightRefinement, BatchFlightRefinement, PTL DEF ImplementsFlights

(* A request that waits, waits for one that is computing: for another row  *)
(* or request, and never in a circle.                                      *)
WaitsForWork ==
    \A r \in Requests : pc[r] = "wait" /\ event[r] \notin landed =>
        /\ event[r] \in Requests
        /\ pc[event[r]] \in Computing
        /\ key[event[r]] = key[r]

(* If the PREDICTION_STARTED rows are written, the flights of batches and  *)
(* requests are led by somebody who is on his way to release them ...      *)
THEOREM BatchFlightsAreLed ==
    ASSUME "startAudit" \notin Faults
    PROVE  BatchSpec => []FlightHasLeader
<1>1. BatchInit => FlightHasLeader
  BY DEF BatchInit, Init, CacheInit, FlightHasLeader
<1>2. BatchInv /\ FlightHasLeader /\ [BatchNext]_allVars => FlightHasLeader'
  <2> SUFFICES ASSUME BatchInv, FlightHasLeader, [BatchNext]_allVars PROVE FlightHasLeader'
    OBVIOUS
  <2>1. CASE [Next]_vars
    BY <2>1, LeaderStep DEF BatchInv, BatchTypeOK
  <2>2. CASE BatchWrites
    BY <2>2 DEF BatchWrites, reqVars, FlightHasLeader
  <2>3. QED
    BY <2>1, <2>2, BatchIsServing
<1>3. QED
  BY <1>1, <1>2, BatchInitInv, BatchInvInductive, PTL DEF BatchSpec

(* ... so that nobody waits for a request that waits itself.  What is left *)
(* of EveryRequestEnds and BatchEnds is that computing requests go on.     *)
THEOREM NobodyWaitsInVain ==
    ASSUME "startAudit" \notin Faults
    PROVE  (Spec \/ BatchSpec) => []WaitsForWork
<1>1. TypeOK /\ Located /\ WaitersAreRegistered /\ FlightHasLeader => WaitsForWork
  <2> SUFFICES ASSUME TypeOK, Located, WaitersAreRegistered, FlightHasLeader,
                      NEW r \in Requests, pc[r] = "wait", event[r] \notin landed
               PROVE  event[r] \in Requests /\ pc[event[r]] \in Computing /\ key[event[r]] = key[r]
    BY DEF WaitsForWork
  <2>1. key[r] \in Keys /\ event[r] \in Requests
    BY DEF Located
  <2>2. PICK k \in Keys, q \in Requests : k = key[r] /\ q = event[r]
    BY <2>1
  <2>3. inflight[k] = q /\ q # NoFlight
    BY <2>2, CacheAssumption DEF WaitersAreRegistered
  <2>4. QED
    BY <2>2, <2>3 DEF FlightHasLeader
<1>2. Spec => []WaitsForWork
  BY <1>1, TypeCorrect, NoLostWakeup, FlightsAreLed, PTL
<1>3. BatchInv => TypeOK /\ Located
  BY DEF BatchInv, BatchTypeOK
<1>4. BatchSpec => []WaitsForWork
  BY <1>1, <1>3, BatchLosesNoWakeup, BatchFlightsAreLed, BatchInitInv, BatchInvInductive, PTL
     DEF BatchSpec
<1>5. QED
  BY <1>2, <1>4

LEMMA BatchSole ==
    BatchInv /\ Served /\ SoleInv /\ NothingLost /\ [BatchNext]_allVars => SoleInv'
<1> SUFFICES ASSUME BatchInv, Served, SoleInv, NothingLost, [BatchNext]_allVars PROVE SoleInv'
  OBVIOUS
<1>1. TypeOK /\ Located
  BY DEF BatchInv, BatchTypeOK
<1>2. CASE [Next]_vars
  BY <1>1, <1>2, SoleNext DEF Served
<1>3. CASE BatchWrites
  <2>1. CacheGrows /\ UNCHANGED <<pc, key, event, input, inflight, landed>>
    BY <1>1, <1>3, SetsGrow DEF BatchWrites, reqVars
  <2>2. QED
    BY <1>1, <2>1, OtherSole DEF SoleInv, CacheGrows
<1>4. QED
  BY <1>2, <1>3, BatchIsServing

LEMMA BatchSoleAlways == ASSUME NothingLost PROVE BatchSpec => []SoleInv
<1>1. BatchInit => SoleInv
  BY SoleInit DEF BatchInit
<1>2. BatchInv /\ Served /\ SoleInv /\ [BatchNext]_allVars => SoleInv'
  BY BatchSole
<1>3. QED
  BY <1>1, <1>2, ServedInit, BatchServes, BatchInitInv, BatchInvInductive, PTL DEF BatchSpec

(* As long as no response is lost, a key is computed once at a time, also  *)
(* by the rows of a batch and the requests beside it ...                   *)
THEOREM BatchComputesAKeyOnce == ASSUME NothingLost PROVE BatchSpec => []SoleComputation
<1>1. SoleInv => SoleComputation
  BY DEF SoleInv, SoleAt, SoleComputation
<1>2. QED
  BY <1>1, BatchSoleAlways, PTL

(* ... and nobody releases the flight of another.                          *)
THEOREM BatchLeadersRelease == ASSUME NothingLost PROVE BatchSpec => OnlyLeaderReleases
<1>1. SoleInv => [\A r \in Requests : (pc[r] = "release" /\ pc'[r] # "release" /\ key[r] # NoKey)
                    => inflight[key[r]] = r]_vars
  BY DEF SoleInv, SoleAt, Computing
<1>2. QED
  BY <1>1, BatchSoleAlways, PTL DEF OnlyLeaderReleases

(* Whoever is answered, single request or row of a batch, is answered with *)
(* the features of its own entity.                                         *)
THEOREM BatchAnswersAreOwn ==
    ASSUME WholeOrNone, AnonIsUnknown PROVE BatchSpec => []AnswersOwnEntity
<1>1. BatchInv /\ RowsInv => AnswersOwnEntity
  BY AnswerAssumption DEF BatchInv, BatchTypeOK, Answered, RowsInv, Traced, Own, AnswersOwnEntity
<1>2. BatchInv /\ RowsInv /\ [BatchNext]_allVars => (BatchInv /\ RowsInv)'
  BY BatchInvInductive, RowsNext
<1>3. BatchInit => BatchInv /\ RowsInv
  BY BatchInitInv, RowsInit
<1>4. QED
  BY <1>1, <1>2, <1>3, PTL DEF BatchSpec

-----------------------------------------------------------------------------
(* The models of a batch's cached responses *)

(* No other predictor could stand in for a model that is asked for *)
OnePredictor == \A in \in Inputs : in.target # NoModel => FallbackFor(in.target) = NoModel

(* Every model that is found is loaded, its predictor answers, and no      *)
(* answer is lost before its flight is released.                           *)
AllGoesWell ==
    /\ \A in \in Inputs : in.target # NoModel => IsLoaded(in.target)
    /\ \A point \in {"predict", "startAudit", "finishAudit"} : ~ Fails(point)

NobodyFallsBack == OnePredictor \/ AllGoesWell

(* Every answer is the work of the model that was asked, if one was found *)
FirstHand ==
    \A r \in Requests : input[r].target # NoModel =>
        /\ answer[r] # NoAnswer => answer[r].model = input[r].target
        /\ AllGoesWell =>
              /\ pc[r] \notin {"failAudit", "fallback"}
              /\ pc[r] \in {"finishAudit", "release"} => answer[r] # NoAnswer

LEMMA NoFallback ==
    ASSUME NobodyFallsBack, TypeOK, Located, FirstHand, NEW r \in Requests, Fallback(r)
    PROVE  input[r].target = NoModel
<1>1. pc[r] = "fallback" /\ input[r] \in Inputs /\ FallbackFor(input[r].target) # NoModel
  BY DEF Fallback, Goto, Located
<1>2. QED
  BY <1>1 DEF NobodyFallsBack, OnePredictor, FirstHand

LEMMA FirstHandStep ==
    ASSUME NobodyFallsBack, TypeOK, Located, Answered, CachedByOwnModel, FirstHand,
           NEW r \in Requests, Arrive(r) \/ Step(r)
    PROVE  FirstHand'
<1>1. /\ pc \in [Requests -> Control] /\ answer \in [Requests -> Answers \cup {NoAnswer}]
      /\ input \in [Requests -> Inputs \cup {NoInput}]
      /\ pc[r] \in Routed => InitialKey(input[r]) \in Keys
      /\ pc[r] \in Fed \ {"predict"} => answer[r] \in Answers
      /\ pc[r] = "idle" => answer[r] = NoAnswer
  BY InitialKeyType DEF TypeOK, Located, Routed, Computing, Answered
<1>2. \A q \in Requests \ {r} : pc'[q] = pc[q] /\ answer'[q] = answer[q] /\ input'[q] = input[q]
  BY <1>1
  DEF Arrive, Step, Goto, CacheLookup, HitAudit, MissAudit, JoinFlight, LeadFlight,
     Wake, Recheck, StartAudit, ReadOnline, Predict, Store, IndexStored, StoreMerged,
     IndexMerged, FinishAudit, ReleaseFlight, FailAudit, Fallback, Publish
<1>r. input[r].target # NoModel =>
      /\ answer[r] # NoAnswer => answer[r].model = input[r].target
      /\ AllGoesWell =>
            /\ pc[r] \notin {"failAudit", "fallback"}
            /\ pc[r] \in {"finishAudit", "release"} => answer[r] # NoAnswer
  BY DEF FirstHand
<1>3. ASSUME input'[r].target # NoModel =>
                /\ answer'[r] # NoAnswer => answer'[r].model = input'[r].target
                /\ AllGoesWell =>
                      /\ pc'[r] \notin {"failAudit", "fallback"}
                      /\ pc'[r] \in {"finishAudit", "release"} => answer'[r] # NoAnswer
      PROVE  FirstHand'
  BY <1>2, <1>3 DEF FirstHand
<1>4. CASE Arrive(r)
  <2>1. PICK in \in Inputs :
            /\ input' = [input EXCEPT ![r] = in]
            /\ Goto(r, "idle", IF IsLoaded(in.target) THEN "lookup" ELSE "failAudit")
    BY <1>4 DEF Arrive
  <2>2. UNCHANGED answer /\ answer[r] = NoAnswer
    BY <1>1, <1>4, <2>1 DEF Arrive, Goto
  <2>3. AllGoesWell /\ input'[r].target # NoModel => pc'[r] = "lookup"
    BY <1>1, <2>1 DEF AllGoesWell, Goto
  <2>4. QED
    BY <1>3, <2>2, <2>3
<1>5. CASE CacheLookup(r) \/ Recheck(r)
  <2>1. /\ UNCHANGED input
        /\ pc[r] \in {"lookup", "recheck"}
        /\ pc'[r] \in {"hitAudit", "missAudit", "publish", "startAudit"}
    BY <1>1, <1>5 DEF CacheLookup, Recheck, Goto
  <2>2. answer'[r] = answer[r] \/ answer'[r] = cache[InitialKey(input[r])]
    BY <1>1, <1>5 DEF CacheLookup, Recheck
  <2>3. InitialKey(input[r]) \in Keys /\ InitialKey(input[r]).model = input[r].target
    BY <1>1, <2>1 DEF Routed, InitialKey
  <2>4. input'[r].target # NoModel /\ answer'[r] # NoAnswer => answer'[r].model = input'[r].target
    BY <1>r, <2>1, <2>2, <2>3 DEF CachedByOwnModel
  <2>5. QED
    BY <1>3, <2>1, <2>4
<1>6. CASE HitAudit(r) \/ MissAudit(r) \/ JoinFlight(r) \/ LeadFlight(r) \/ Wake(r) \/ ReadOnline(r)
  <2>1. /\ UNCHANGED input
        /\ answer'[r] \in {answer[r], NoAnswer}
        /\ pc'[r] \in {"publish", "startAudit", "check", "wait", "recheck", "predict"}
    BY <1>1, <1>6 DEF HitAudit, MissAudit, JoinFlight, LeadFlight, Wake, ReadOnline, Goto
  <2>2. QED
    BY <1>3, <1>r, <2>1
<1>7. CASE StartAudit(r) \/ FailAudit(r)
  <2>1. /\ UNCHANGED <<input, answer>>
        /\ AllGoesWell /\ input[r].target # NoModel => pc'[r] = "online"
        /\ pc'[r] \notin {"finishAudit", "release"}
    BY <1>1, <1>7, <1>r DEF StartAudit, FailAudit, Goto, AllGoesWell
  <2>2. QED
    BY <1>3, <1>r, <2>1
<1>8. CASE Predict(r)
  <2>1. UNCHANGED input /\ (AllGoesWell => pc'[r] = "store") /\ pc'[r] \in {"store", "release"}
    BY <1>1, <1>8 DEF Predict, Goto, AllGoesWell
  <2>2. answer'[r] = answer[r] \/ answer'[r] = Response(input[r].target, seen[r])
    BY <1>1, <1>8 DEF Predict
  <2>3. Response(input[r].target, seen[r]).model = input[r].target
    BY DEF Response
  <2>4. QED
    BY <1>3, <1>r, <2>1, <2>2, <2>3
<1>9. CASE Store(r) \/ IndexStored(r) \/ StoreMerged(r) \/ IndexMerged(r)
  <2>1. /\ UNCHANGED <<input, answer>> /\ pc[r] \in Fed \ {"predict"}
        /\ pc'[r] \notin {"failAudit", "fallback"}
    BY <1>1, <1>9 DEF Store, IndexStored, StoreMerged, IndexMerged, AfterStore, Goto, Fed
  <2>2. answer'[r] # NoAnswer
    BY <1>1, <2>1, AnswerAssumption
  <2>3. QED
    BY <1>3, <1>r, <2>1, <2>2
<1>10. CASE FinishAudit(r) \/ ReleaseFlight(r) \/ Publish(r)
  <2>1. /\ UNCHANGED input
        /\ answer'[r] \in {answer[r], NoAnswer}
        /\ AllGoesWell /\ input[r].target # NoModel =>
              /\ pc'[r] \notin {"failAudit", "fallback"}
              /\ pc'[r] \in {"finishAudit", "release"} => answer'[r] # NoAnswer
    BY <1>1, <1>10, <1>r DEF FinishAudit, ReleaseFlight, Publish, Goto, AllGoesWell
  <2>2. QED
    BY <1>3, <1>r, <2>1
<1>11. CASE Fallback(r)
  <2>1. input[r].target = NoModel /\ UNCHANGED input
    BY <1>11, NoFallback DEF Fallback
  <2>2. QED
    BY <1>3, <2>1
<1>12. QED
  BY <1>4, <1>5, <1>6, <1>7, <1>8, <1>9, <1>10, <1>11 DEF Step

(* What the batch has was computed by the model whose key it will get *)
ModelInv ==
    /\ CachedByOwnModel
    /\ FirstHand
    /\ phase = "idle" => \A i \in RowIds : responses[i] = NoAnswer
    /\ model # NoModel =>
          /\ \A i \in RowIds : responses[i] # NoAnswer => responses[i].model = model
          /\ phase = "running" => input[Runner[row]].target = model

LEMMA ModelInit == BatchInit => ModelInv
  BY DEF BatchInit, Init, CacheInit, ModelInv, CachedByOwnModel, FirstHand

LEMMA ModelNext ==
    ASSUME NobodyFallsBack, BatchInv, ModelInv, [BatchNext]_allVars
    PROVE  ModelInv'
<1> USE DEF BatchInv, BatchTypeOK
<1>0. TypeOK /\ Located /\ Answered /\ CachedByOwnModel /\ FirstHand
  BY DEF ModelInv
<1>1. ASSUME [Next]_vars PROVE (CachedByOwnModel /\ FirstHand)'
  <2>1. CachedByOwnModel'
    BY <1>0, <1>1, OwnModelStep
  <2>2. ASSUME UNCHANGED reqVars PROVE FirstHand'
    BY <1>0, <2>2 DEF reqVars, FirstHand
  <2>3. FirstHand'
    BY <1>0, <1>1, <2>2, FirstHandStep DEF Next, CacheEnvironment, vars
  <2>4. QED
    BY <2>1, <2>3
<1>2. CASE UNCHANGED allVars
  BY <1>1, <1>2 DEF allVars, batchVars, vars, reqVars, ModelInv
<1>3. CASE Others /\ UNCHANGED batchVars
  <2>1. Next
    BY <1>3 DEF Others, Next
  <2>2. phase = "running" => input'[Runner[row]] = input[Runner[row]]
    <3>1. ASSUME phase = "running", NEW r \in Requests, Arrive(r) \/ Step(r)
          PROVE  input'[Runner[row]] = input[Runner[row]]
      <4>1. pc[Runner[row]] # "idle" /\ Runner[row] \in Requests /\ input \in [Requests -> Inputs \cup {NoInput}]
        BY <3>1, RowsAreRows DEF RowRuns, RowsToCome, TypeOK
      <4>2. ASSUME Arrive(r) PROVE input'[Runner[row]] = input[Runner[row]]
        BY <4>1, <4>2 DEF Arrive, Goto
      <4>3. ASSUME Step(r) PROVE input' = input
        BY <4>3 DEF Step, CacheLookup, HitAudit, MissAudit, JoinFlight, LeadFlight,
           Wake, Recheck, StartAudit, ReadOnline, Predict, Store, IndexStored, StoreMerged,
           IndexMerged, FinishAudit, ReleaseFlight, FailAudit, Fallback, Publish
      <4>4. QED
        BY <3>1, <4>2, <4>3
    <3>2. QED
      BY <1>3, <3>1 DEF Others, CacheEnvironment, reqVars
  <2>3. QED
    BY <1>1, <1>3, <2>1, <2>2 DEF ModelInv, batchVars
<1>4. CASE BatchBegin
  <2>1. /\ (CachedByOwnModel /\ FirstHand)' /\ phase' = "lookup"
        /\ \A i \in RowIds : responses'[i] = responses[i]
    BY <1>1, <1>4 DEF BatchBegin
  <2>2. \A i \in RowIds : responses[i] = NoAnswer
    BY <1>4 DEF BatchBegin, ModelInv
  <2>3. QED
    BY <2>1, <2>2 DEF ModelInv
<1>5. CASE BatchLookup
  <2>1. (CachedByOwnModel /\ FirstHand)' /\ model' = model /\ phase' \in {"done", "rows"}
    BY <1>1, <1>5 DEF BatchLookup
  <2>2. ASSUME model # NoModel, NEW i \in RowIds, responses'[i] # NoAnswer
        PROVE  responses'[i].model = model
    <3>1. CASE responses' = [j \in RowIds |-> cache[RowKey(j)]]
      <4>1. responses'[i] = cache[RowKey(i)] /\ RowKey(i) \in Keys /\ RowKey(i).model = model
        BY <2>2, <3>1, RowKeyType DEF RowKey
      <4>2. QED
        BY <1>0, <2>2, <4>1 DEF CachedByOwnModel
    <3>2. CASE UNCHANGED responses
      BY <2>2, <3>2 DEF ModelInv
    <3>3. QED
      BY <1>5, <3>1, <3>2 DEF BatchLookup
  <2>3. QED
    BY <2>1, <2>2 DEF ModelInv
<1>6. CASE BatchNextRow
  <2>1. PICK i \in RowIds, in \in Inputs :
            /\ model # NoModel => in.target = model
            /\ row' = i /\ Runner[i] \in Requests
            /\ input' = [input EXCEPT ![Runner[i]] = in]
    BY <1>6, RowsAreRows DEF BatchNextRow
  <2>2. Next
    <3>1. PICK j \in RowIds : Arrive(Runner[j]) /\ Runner[j] \in Requests
      BY <1>6, RowsAreRows DEF BatchNextRow, Arrive
    <3>2. QED
      BY <3>1 DEF Next
  <2>3. model # NoModel => input'[Runner[row']].target = model
    BY <2>1 DEF TypeOK
  <2>4. QED
    BY <1>1, <1>6, <2>2, <2>3 DEF BatchNextRow, ModelInv
<1>7. CASE BatchRowDone
  <2>1. /\ (CachedByOwnModel /\ FirstHand)' /\ model' = model /\ phase' \notin {"idle", "running"}
        /\ row \in RowIds /\ Runner[row] \in Requests
    BY <1>1, <1>7, RowsAreRows DEF BatchRowDone, RowsToCome
  <2>2. ASSUME model # NoModel, answer[Runner[row]] # NoAnswer
        PROVE  answer[Runner[row]].model = model
    BY <1>0, <1>7, <2>1, <2>2 DEF FirstHand, BatchRowDone, ModelInv
  <2>3. ASSUME model # NoModel, NEW i \in RowIds, responses'[i] # NoAnswer
        PROVE  responses'[i].model = model
    BY <1>7, <2>1, <2>2, <2>3 DEF BatchRowDone, ModelInv
  <2>4. QED
    BY <2>1, <2>3 DEF ModelInv
<1>8. CASE BatchStore
  <2>1. UNCHANGED <<reqVars, model, responses, phase, row>> /\ model \in Models /\ model # NoModel
    BY <1>8 DEF BatchStore, RowsToCome
  <2>2. CachedByOwnModel'
    <3>1. ASSUME NEW i \in RowIds, SetKey(RowKey(i), responses[i]) PROVE CachedByOwnModel'
      <4>1. PICK k \in Keys, a \in Answers : k = RowKey(i) /\ a = responses[i]
        BY <2>1, <1>8, RowKeyType DEF BatchStore, RowsToCome, Unanswered
      <4>2. cache' = [cache EXCEPT ![k] = a] /\ cache \in [Keys -> Answers \cup {NoAnswer}]
        BY <3>1, <4>1 DEF SetKey, TypeOK, CacheTypeOK
      <4>3. k.model = model /\ a.model = model
        BY <1>8, <2>1, <4>1 DEF RowKey, ModelInv, BatchStore, RowsToCome, Unanswered
      <4>4. QED
        BY <1>0, <4>2, <4>3 DEF CachedByOwnModel
    <3>2. ASSUME UNCHANGED cacheVars PROVE CachedByOwnModel'
      BY <1>0, <3>2 DEF CachedByOwnModel, cacheVars
    <3>3. QED
      BY <1>8, <3>1, <3>2 DEF BatchStore
  <2>3. QED
    BY <2>1, <2>2 DEF ModelInv, FirstHand, reqVars
<1>9. CASE BatchIndex
  <2>1. UNCHANGED <<reqVars, cache, model, responses, phase, row>>
    BY <1>9 DEF BatchIndex, AddToIndex, cacheVars
  <2>2. QED
    BY <2>1 DEF ModelInv, FirstHand, CachedByOwnModel, reqVars
<1>10. CASE BatchEnd
  <2>1. (CachedByOwnModel /\ FirstHand)' /\ phase' = "done" /\ UNCHANGED <<model, responses>>
    BY <1>1, <1>10 DEF BatchEnd
  <2>2. QED
    BY <2>1 DEF ModelInv
<1>11. QED
  BY <1>2, <1>3, <1>4, <1>5, <1>6, <1>7, <1>8, <1>9, <1>10 DEF BatchNext, BatchStep

(* predict_batch() stores what its rows were answered under the model it   *)
(* routed to (inference/engine.py). That model computed every one of the   *)
(* responses as long as no other predictor stands in for it, because there *)
(* is no other or nothing goes wrong.                                      *)
THEOREM BatchCachesOwnModels ==
    ASSUME NobodyFallsBack PROVE BatchSpec => []CachedByOwnModel
<1>1. ModelInv => CachedByOwnModel
  BY DEF ModelInv
<1>2. BatchInv /\ ModelInv /\ [BatchNext]_allVars => ModelInv'
  BY ModelNext
<1>3. QED
  BY <1>1, <1>2, ModelInit, BatchInitInv, BatchInvInductive, PTL DEF BatchSpec

=============================================================================

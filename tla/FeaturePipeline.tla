---------------------------- MODULE FeaturePipeline ----------------------------
(***************************************************************************)
(* The life of one dataset, from upload to online vectors:                 *)
(*   datasets.py            upload and archive endpoints                   *)
(*   lifecycle.py           handlers that validate, register, announce     *)
(*   data_quality/*         the contract a version is validated against    *)
(*   materializer.py        feature values into PostgreSQL                 *)
(*   sync_worker.py, online_store.py, endpoints/features.py                *)
(*                          vectors from PostgreSQL into Redis             *)
(*   discovery.py, engine.py the command-line pipeline on the same tables  *)
(* Each handler of an event is a task of its own; a step of a task runs    *)
(* from one await that others can get in between to the next.  A database  *)
(* transaction takes effect at its commit, where the unique constraints    *)
(* of app/storage/models.py decide between two of them.                    *)
(***************************************************************************)
EXTENDS EventBus, FiniteSets

CONSTANTS Files,      \* contents that may be uploaded or found on disk
          Features,   \* feature names
          Entities,   \* entity ids
          Columns,    \* file -> its columns, as feature names
          Rows,       \* file -> entity ids of its rows
          Repeated,   \* files with two rows of one entity
          Halts,      \* <<contract, file>> with a critical expectation failing
          Engineered, \* file -> names FeatureEngineeringEngine derives from it
          MaxValues,  \* rows one INSERT can bind (asyncpg: 32767 parameters)
          None, NoVector, ClientVector,
          Disturbances, \* bound: what may happen beside the uploads, each once
          Budget        \* bound: uploads and disturbances in one behaviour

Keys == {"id", "name"}  \* feature:{dataset}:{entity} is written under both
Cells == Features \X Entities
Slots == Keys \X Entities

ASSUME PipelineAssumption ==
    /\ None \notin Files
    /\ Columns \in [Files -> SUBSET Features]
    /\ Engineered \in [Files -> SUBSET Features]
    /\ Rows \in [Files -> SUBSET Entities]
    /\ Repeated \subseteq Files
    /\ Halts \subseteq (Files \cup {None}) \X Files
    /\ {NoVector, ClientVector} \cap [Features -> Files \cup {None}] = {}
    /\ MaxValues \in Nat
    /\ Disturbances \subseteq {"outage", "restart", "archive", "discovery", "store",
                             "drop", "refresh", "invalidate"}
    /\ Budget \in Nat

VARIABLES
    ds,       \* the row of the table datasets, with status None if there is none
    versions, \* rows of dataset_versions in order of creation
    contract, \* file whose schema the stored data contract has, or None
    features, \* names in the table features
    values,   \* feature_values: cell -> file it was computed from, or None
    fitted,   \* features.state: feature -> file it was fitted on, or None
    online,   \* Redis: slot -> vector
    upload,   \* job -> the upload request
    tasks,    \* running tasks of the handlers
    disc,     \* the command-line discovery
    reader,   \* a request that refreshes a vector
    sweep,    \* an invalidate_dataset_features() call: slots its SCAN has to visit, has found
    spent     \* the disturbances so far

rows == <<ds, versions, contract, features, values, fitted>>
actors == <<upload, disc, reader, sweep>>
vars == <<busVars, rows, online, actors, tasks, spent>>

Statuses == {None, "ACTIVE", "VALID", "INVALID", "ARCHIVED"}
Datasets == [status : Statuses, version : Nat, cols : SUBSET Features]
Versions == [file : Files, raw : BOOLEAN, mat : BOOLEAN]
Stored == [Cells -> Files \cup {None}]
Vectors == [Features -> Files \cup {None}]

NoSnap == [c \in Cells |-> None]

(* Database reads *)
Latest == versions[Len(versions)]
HasRaw == versions # << >> /\ Latest.raw
(* Mutant: a checksum is looked for among uploaded contents only *)
RawKnown == {versions[i].file : i \in {j \in DOMAIN versions : versions[j].raw}}

FilesKnown == {versions[i].file : i \in DOMAIN versions}

(* A task as its handler is started *)
Task(stage, u) ==
    [stage |-> stage, job |-> u, step |-> "start", file |-> None,
     feats |-> {}, snap |-> NoSnap, todo |-> {}]

Stages == {"validate", "register", "materialize", "ready", "sync"}
Steps == {"start", "create", "flush", "passed", "halted",
          "insert", "publish", "announce", "write", "failed"}
Tasks == [stage : Stages, job : Jobs, step : Steps, file : Files \cup {None},
          feats : SUBSET Features, snap : Stored, todo : SUBSET Entities]

(* _dispatch(): the handlers that subscribe to a kind of event *)
Handler ==
    [k \in Handled |-> CASE k = "UPLOADED" -> "validate"
                         [] k = "VALIDATED" -> "register"
                         [] k = "REGISTERED" -> "materialize"
                         [] k = "MATERIALIZED" -> "ready"
                         [] k = "VALUES_CREATED" -> "sync"]

Idle == [step |-> "idle", file |-> None, seen |-> [status |-> None, version |-> 0, cols |-> {}]]
NoDiscovery == [step |-> "idle", file |-> None, view |-> None, fresh |-> FALSE]
NoReader == [step |-> "idle", slot |-> None, snap |-> NoSnap]
NoSweep == [walk |-> {}, found |-> {}]

Init ==
    /\ BusInit
    /\ ds = Idle.seen
    /\ versions = << >>
    /\ contract = None
    /\ features = {}
    /\ values = NoSnap
    /\ fitted = [f \in Features |-> None]
    /\ online = [s \in Slots |-> NoVector]
    /\ upload = [u \in Jobs |-> Idle]
    /\ tasks = {}
    /\ disc = NoDiscovery
    /\ reader = NoReader
    /\ sweep = NoSweep
    /\ spent = {}

WithinBudget == Cardinality(spent) + Cardinality({u \in Jobs : upload[u] # Idle}) < Budget

Disturbs(kind) ==
    /\ kind \in Disturbances \ spent
    /\ WithinBudget
    /\ spent' = spent \cup {kind}

-----------------------------------------------------------------------------
(* Upload and archive: app/serving/api/v1/management/endpoints/datasets.py *)

SetUpload(u, step) == upload' = [upload EXCEPT ![u].step = step]

UploadRead(u) ==
    /\ upload[u].step = "idle"
    /\ WithinBudget
    /\ \E f \in Files : upload' = [upload EXCEPT ![u] = [step |-> "read", file |-> f, seen |-> ds]]
    /\ UNCHANGED <<busVars, rows, online, tasks, disc, reader, sweep, spent>>

(* SQLAlchemy writes the attributes the request changed, and nothing else: *)
(* a status that was ACTIVE when it was read is not written again.         *)
Uploaded(seen, f) ==
    [status  |-> IF seen.status = "ACTIVE" THEN ds.status ELSE "ACTIVE",
     version |-> seen.version + 1,
     cols    |-> IF seen.cols = Columns[f] THEN ds.cols ELSE Columns[f]]

UploadCommit(u) ==
    LET f == upload[u].file
        seen == upload[u].seen
    IN /\ upload[u].step = "read"
       /\ IF seen.status = None /\ ds.status # None
          THEN /\ SetUpload(u, "failed")            \* datasets.name is unique
               /\ UNCHANGED rows
          ELSE /\ SetUpload(u, "committed")
               /\ ds' = Uploaded(seen, f)
               /\ versions' = IF f \in FilesKnown THEN versions
                              ELSE Append(versions, [file |-> f, raw |-> TRUE, mat |-> FALSE])
               /\ UNCHANGED <<contract, features, values, fitted>>
       /\ UNCHANGED <<busVars, online, tasks, disc, reader, sweep, spent>>

(* The rows the discovery has flushed but not committed block the request, *)
(* which fails if the discovery commits, or if the two are a deadlock      *)
UploadConflict(u) ==
    /\ upload[u].step = "read"
    /\ disc.step = "processed"
    /\ disc.view = None \/ (disc.fresh /\ disc.file = upload[u].file)
    /\ SetUpload(u, "failed")
    /\ UNCHANGED <<busVars, rows, online, tasks, disc, reader, sweep, spent>>

(* A publish that fails is logged and the request answers success *)
UploadPublish(u) ==
    /\ upload[u].step = "committed"
    /\ SetUpload(u, "done")
    /\ IF PublishFails THEN UNCHANGED busVars ELSE Publish(Event("UPLOADED", u))
    /\ UNCHANGED <<rows, online, tasks, disc, reader, sweep, spent>>

(* The vectors of the dataset stay online *)
Archive ==
    /\ ds.status # None
    /\ Disturbs("archive")
    /\ ds' = [ds EXCEPT !.status = "ARCHIVED"]
    /\ UNCHANGED <<busVars, versions, contract, features, values, fitted, online, actors, tasks>>

-----------------------------------------------------------------------------
(* Tasks of the event handlers *)

(* _dispatch() starts the handler as a task: handlers of successive events *)
(* run side by side                                                        *)
Dispatch ==
    \E e \in Events :
        /\ Receive(e)
        /\ tasks' = tasks \cup {Task(Handler[e.kind], e.job)}
        /\ UNCHANGED <<rows, online, actors, spent>>

Ends(t) == tasks' = tasks \ {t}
Becomes(t, next) == tasks' = (tasks \ {t}) \cup {next}
Goes(t, step) == Becomes(t, [t EXCEPT !.step = step])

At(t, stage, step) == t.stage = stage /\ t.step = step

(* The task announces e, or dies of the error that publish() raises *)
Announces(t, e) ==
    /\ Ends(t)
    /\ IF PublishFails THEN UNCHANGED busVars ELSE Publish(e)
    /\ UNCHANGED <<rows, online, actors, spent>>

(* handle_dataset_uploaded() validates against the stored contract, or     *)
(* against one it infers from the file.  Its session is never committed,   *)
(* so neither that contract nor the validation run is stored.              *)
Judged(against, f) == IF <<against, f>> \in Halts THEN "halted" ELSE "passed"

ValidateRead(t) ==
    /\ At(t, "validate", "start")
    /\ IF HasRaw
       THEN Becomes(t, [t EXCEPT !.file = Latest.file,
                                 !.step = IF contract = None THEN "create"
                                          ELSE Judged(contract, Latest.file)])
       ELSE Ends(t)
    /\ UNCHANGED <<busVars, rows, online, actors, spent>>

(* create() looks again for the version to give: the inferred contract is  *)
(* the first of the dataset, or one after the discovery's                  *)
ValidateCreate(t) ==
    /\ At(t, "validate", "create")
    /\ Goes(t, IF contract = None THEN "flush" ELSE Judged(None, t.file))
    /\ UNCHANGED <<busVars, rows, online, actors, spent>>

(* Another transaction has inserted a first contract and not ended *)
FirstContractPending ==
    /\ contract = None
    /\ \/ disc.step = "processed"
       \/ \E t \in tasks : t.stage = "validate" /\ t.step \in {"halted", "passed"}

(* uq_contract_version: the INSERT waits for that transaction, and raises  *)
(* if it was the discovery's and is committed; nothing is announced then   *)
ValidateFlush(t) ==
    /\ At(t, "validate", "flush")
    /\ ~FirstContractPending
    /\ IF contract = None THEN Goes(t, Judged(None, t.file)) ELSE Ends(t)
    /\ UNCHANGED <<busVars, rows, online, actors, spent>>

(* The event DataQualityService publishes first has no dataset id: its     *)
(* handler finds no version and returns, so it is left out                 *)
ValidatePublish(t) ==
    \/ At(t, "validate", "halted") /\ Announces(t, Event("FAILED", t.job))
    \/ At(t, "validate", "passed") /\ Announces(t, Event("VALIDATED", t.job))

(* handle_dataset_validated() *)
RegisterRead(t) ==
    /\ At(t, "register", "start")
    /\ IF HasRaw
       THEN Becomes(t, [t EXCEPT !.file = Latest.file, !.feats = features, !.step = "insert"])
       ELSE Ends(t)
    /\ UNCHANGED <<busVars, rows, online, actors, spent>>

(* uq_dataset_feature: a feature that another transaction has inserted in  *)
(* the meantime ends the task                                              *)
RegisterCommit(t) ==
    LET new == Columns[t.file] \ t.feats
    IN /\ At(t, "register", "insert")
       /\ IF new \cap features # {}
          THEN Ends(t) /\ UNCHANGED features
          ELSE Goes(t, "publish") /\ features' = features \cup new
       /\ UNCHANGED <<busVars, ds, versions, contract, values, fitted, online, actors, spent>>

(* PROFILED has no handler; it is published just before *)
RegisterPublish(t) ==
    At(t, "register", "publish") /\ Announces(t, Event("REGISTERED", t.job))

(* FeatureMaterializer.materialize() *)
MaterializeRead(t) ==
    /\ At(t, "materialize", "start")
    /\ IF HasRaw /\ features # {}
       THEN Becomes(t, [t EXCEPT !.file = Latest.file, !.feats = features, !.step = "insert"])
       ELSE Ends(t)
    /\ UNCHANGED <<busVars, rows, online, actors, spent>>

(* One INSERT of a value per feature and row.  uq_feature_entity: a cell   *)
(* that has a value already, or twice in the file, fails all of it.  A fit *)
(* or transform that raises ends in the same way.                          *)
Cell(t) == t.feats \X Rows[t.file]

(* Mutant: values that are there already are written over *)
Upsertable(t) == t.file \notin Repeated /\ Cardinality(Cell(t)) <= MaxValues

Insertable(t) ==
    /\ t.file \notin Repeated
    /\ Cardinality(Cell(t)) <= MaxValues
    /\ \A c \in Cell(t) : values[c] = None

(* Mutant: an INSERT that fails is logged, and its events are published *)
MaterializeAnyway(t) ==
    /\ At(t, "materialize", "insert")
    /\ Goes(t, "publish")
    /\ IF Insertable(t)
       THEN /\ values' = [c \in Cells |-> IF c \in Cell(t) THEN t.file ELSE values[c]]
            /\ fitted' = [f \in Features |-> IF f \in t.feats THEN t.file ELSE fitted[f]]
            /\ versions' = [i \in DOMAIN versions |->
                   [versions[i] EXCEPT !.mat = @ \/ versions[i].file = t.file]]
       ELSE UNCHANGED <<values, fitted, versions>>
    /\ UNCHANGED <<busVars, ds, contract, features, online, actors, spent>>

(* Mutant: values that exist are skipped, and the others inserted *)
MaterializeMissing(t) ==
    /\ At(t, "materialize", "insert")
    /\ IF t.file \notin Repeated /\ Cardinality(Cell(t)) <= MaxValues
       THEN /\ Goes(t, "publish")
            /\ values' = [c \in Cells |-> IF c \in Cell(t) /\ values[c] = None THEN t.file ELSE values[c]]
            /\ fitted' = [f \in Features |-> IF f \in t.feats THEN t.file ELSE fitted[f]]
            /\ versions' = [i \in DOMAIN versions |->
                   [versions[i] EXCEPT !.mat = @ \/ versions[i].file = t.file]]
       ELSE Goes(t, "failed") /\ UNCHANGED <<values, fitted, versions>>
    /\ UNCHANGED <<busVars, ds, contract, features, online, actors, spent>>

MaterializeCommit(t) ==
    /\ At(t, "materialize", "insert")
    /\ IF Insertable(t)
       THEN /\ Goes(t, "publish")
            /\ values' = [c \in Cells |-> IF c \in Cell(t) THEN t.file ELSE values[c]]
            /\ fitted' = [f \in Features |-> IF f \in t.feats THEN t.file ELSE fitted[f]]
            /\ versions' = [i \in DOMAIN versions |->
                   [versions[i] EXCEPT !.mat = @ \/ versions[i].file = t.file]]
       ELSE Goes(t, "failed") /\ UNCHANGED <<values, fitted, versions>>
    /\ UNCHANGED <<busVars, ds, contract, features, online, actors, spent>>

(* After the commit: two events, and an error of either is a failed job *)
MaterializePublish(t) ==
    /\ \/ At(t, "materialize", "publish") /\
          IF PublishFails THEN Goes(t, "failed") /\ UNCHANGED busVars
          ELSE Goes(t, "announce") /\ Publish(Event("MATERIALIZED", t.job))
       \/ At(t, "materialize", "announce") /\
          IF PublishFails THEN Goes(t, "failed") /\ UNCHANGED busVars
          ELSE Ends(t) /\ Publish(Event("VALUES_CREATED", t.job))
    /\ UNCHANGED <<rows, online, actors, spent>>

(* Mutant: a failure is logged and not announced *)
JobFailedSilently(t) ==
    t.step = "failed" /\ Ends(t) /\ UNCHANGED <<busVars, rows, online, actors, spent>>

JobFailed(t) == t.step = "failed" /\ Announces(t, Event("JOB_FAILED", t.job))

(* handle_feature_materialized(): training is left to the user *)
ReadyPublish(t) == At(t, "ready", "start") /\ Announces(t, Event("READY", t.job))

-----------------------------------------------------------------------------
(* Online store *)

EntitiesIn(snap) == {e \in Entities : \E f \in Features : snap[<<f, e>>] # None}

(* Mutant: the values of one entity for all *)
FirstVector(snap, e) == [f \in Features |-> snap[f, CHOOSE x \in EntitiesIn(snap) : TRUE]]

VectorOf(snap, e) == [f \in Features |-> snap[<<f, e>>]]

(* OnlineStoreSyncWorker.handle_sync(): one SELECT, then a SET per entity *)
SyncRead(t) ==
    /\ At(t, "sync", "start")
    /\ IF values = NoSnap THEN Ends(t)
       ELSE Becomes(t, [t EXCEPT !.step = "write", !.snap = values, !.todo = EntitiesIn(values)])
    /\ UNCHANGED <<busVars, rows, online, actors, spent>>

(* A SET that fails returns False, which nobody looks at *)
SyncWrite(t) ==
    /\ At(t, "sync", "write")
    /\ \E e \in t.todo :
        /\ Becomes(t, [t EXCEPT !.todo = @ \ {e}])
        /\ online' = IF redisUp THEN [online EXCEPT ![<<"id", e>>] = VectorOf(t.snap, e)] ELSE online
    /\ UNCHANGED <<busVars, rows, actors, spent>>

SyncPublish(t) ==
    /\ At(t, "sync", "write")
    /\ t.todo = {}
    /\ IF PublishFails THEN Goes(t, "failed") /\ UNCHANGED busVars
       ELSE Ends(t) /\ Publish(Event("SYNCED", t.job))
    /\ UNCHANGED <<rows, online, actors, spent>>

(* POST /features/store, /features/store/batch *)
StoreVector ==
    \E s \in Slots :
        /\ Disturbs("store")
        /\ redisUp
        /\ online' = [online EXCEPT ![s] = ClientVector]
        /\ UNCHANGED <<busVars, rows, actors, tasks>>

(* DELETE /features/{dataset}/{entity}, or the TTL of the key *)
DropVector ==
    \E s \in Slots :
        /\ Disturbs("drop")
        /\ redisUp
        /\ online[s] # NoVector
        /\ online' = [online EXCEPT ![s] = NoVector]
        /\ UNCHANGED <<busVars, rows, actors, tasks>>

(* GET /features/{dataset}/{entity} finds nothing in Redis, or POST        *)
(* /features/refresh does not look                                         *)
RefreshCall ==
    \E s \in Slots :
        /\ Disturbs("refresh")
        /\ reader.step = "idle"
        /\ reader' = [reader EXCEPT !.step = "load", !.slot = s]
        /\ UNCHANGED <<busVars, rows, online, upload, disc, sweep, tasks>>

(* refresh_online_features(): an archived dataset is not found by name,    *)
(* but its id is used as it is                                             *)
RefreshLoad ==
    LET key == reader.slot[1]
        e == reader.slot[2]
    IN /\ reader.step = "load"
       /\ reader' = IF /\ key = "id" \/ ds.status \notin {None, "ARCHIVED"}
                       /\ e \in EntitiesIn(values)
                    THEN [reader EXCEPT !.step = "fill", !.snap = values]
                    ELSE NoReader
       /\ UNCHANGED <<busVars, rows, online, upload, disc, sweep, tasks, spent>>

RefreshFill ==
    /\ reader.step = "fill"
    /\ reader' = NoReader
    /\ online' = IF redisUp
                 THEN [online EXCEPT ![reader.slot] = VectorOf(reader.snap, reader.slot[2])]
                 ELSE online
    /\ UNCHANGED <<busVars, rows, upload, disc, sweep, tasks, spent>>

FirstTrip == [walk |-> {"name"} \X Entities, found |-> {}]

(* One round trip: some of the keys the cursor has not passed *)
ScanVisits(from) ==
    \E visited \in (SUBSET from.walk) \ {{}} :
        sweep' = [walk |-> from.walk \ visited,
                  found |-> from.found \cup {s \in visited : online[s] # NoVector}]

(* invalidate_dataset_features(), which the training calls by name: SCAN   *)
(* walks over the keys trip by trip, then DEL of the keys found.  A call   *)
(* that fails has all of it tried again, or given up.                      *)
InvalidateScan ==
    /\ redisUp
    /\ \/ sweep = NoSweep /\ Disturbs("invalidate") /\ ScanVisits(FirstTrip)
       \/ ScanVisits(sweep) /\ UNCHANGED spent
    /\ UNCHANGED <<busVars, rows, online, upload, disc, reader, tasks>>

InvalidateFails ==
    /\ ~redisUp
    /\ sweep # NoSweep
    /\ sweep' \in {FirstTrip, NoSweep}
    /\ UNCHANGED <<busVars, rows, online, upload, disc, reader, tasks, spent>>

InvalidateDelete ==
    /\ redisUp
    /\ sweep.walk = {}
    /\ sweep.found # {}
    /\ sweep' = NoSweep
    /\ online' = [s \in Slots |-> IF s \in sweep.found THEN NoVector ELSE online[s]]
    /\ UNCHANGED <<busVars, rows, upload, disc, reader, tasks, spent>>

-----------------------------------------------------------------------------
(* Discovery: app/data/discovery.py, run by app/pipelines/pipeline.py in a *)
(* process of its own, which has no event bus                              *)

(* Without force, only a dataset that is not registered is processed *)
DiscoverRead ==
    /\ disc.step = "idle"
    /\ Disturbs("discovery")
    /\ \E f \in Files :
        disc' = [step |-> "read", file |-> f, fresh |-> FALSE,
                 view |-> IF ds.status = "ARCHIVED" THEN None ELSE ds.status]
    /\ UNCHANGED <<busVars, rows, online, upload, reader, sweep, tasks>>

(* Validation, profiling and feature engineering in one transaction; the   *)
(* vectors stored so far go to Redis before it ends.  A halt rolls back.   *)
(* A first contract waits for those of the handlers, which roll back.      *)
DiscoverProcess ==
    /\ disc.step = "read"
    /\ ~FirstContractPending
    /\ IF <<contract, disc.file>> \in Halts
       THEN disc' = NoDiscovery /\ UNCHANGED online
       ELSE /\ disc' = [disc EXCEPT !.step = "processed", !.fresh = disc.file \notin FilesKnown]
            /\ online' = IF redisUp /\ disc.view # None
                         THEN [s \in Slots |-> IF s \in {"name"} \X EntitiesIn(values)
                                               THEN VectorOf(values, s[2]) ELSE online[s]]
                         ELSE online
    /\ UNCHANGED <<busVars, rows, upload, reader, sweep, tasks, spent>>

(* The unique constraints on the name and on the version tag *)
DiscoverConflict ==
    \/ disc.view = None /\ ds.status # None
    \/ disc.fresh /\ disc.file \in FilesKnown

DiscoverCommit ==
    /\ disc.step = "processed"
    /\ ~DiscoverConflict
    /\ disc' = NoDiscovery
    /\ \E status \in {"VALID", "INVALID"} :
        ds' = IF ds.status = None
              THEN [status |-> status, version |-> 1, cols |-> Columns[disc.file]]
              ELSE [ds EXCEPT !.status = IF disc.view = status THEN @ ELSE status]
    /\ versions' = IF disc.fresh THEN Append(versions, [file |-> disc.file, raw |-> FALSE, mat |-> FALSE])
                   ELSE versions
    /\ contract' = IF contract = None THEN disc.file ELSE contract
    /\ features' = features \cup Engineered[disc.file]
    /\ UNCHANGED <<busVars, values, fitted, online, upload, reader, sweep, tasks, spent>>

(* A conflict, or a training that raises: everything is rolled back *)
DiscoverFail ==
    /\ disc.step = "processed"
    /\ disc' = NoDiscovery
    /\ UNCHANGED <<busVars, rows, online, upload, reader, sweep, tasks, spent>>

-----------------------------------------------------------------------------
(* The platform *)

(* The process ends and a new one starts: requests and tasks are gone *)
Restart ==
    /\ Disturbs("restart")
    /\ BusRestart
    /\ upload' = [u \in Jobs |-> IF upload[u].step \in {"read", "committed"}
                                 THEN [upload[u] EXCEPT !.step = "failed"] ELSE upload[u]]
    /\ tasks' = {}
    /\ reader' = NoReader
    /\ sweep' = NoSweep
    /\ UNCHANGED <<rows, online, disc>>

BusStep ==
    /\ \/ RedisFails /\ Disturbs("outage")
       \/ (RedisReturns \/ ListenerDies) /\ UNCHANGED spent
    /\ UNCHANGED <<rows, online, actors, tasks>>

TaskStep(t) ==
    \/ ValidateRead(t) \/ ValidateCreate(t) \/ ValidateFlush(t) \/ ValidatePublish(t)
    \/ RegisterRead(t) \/ RegisterCommit(t) \/ RegisterPublish(t)
    \/ MaterializeRead(t) \/ MaterializeCommit(t) \/ MaterializePublish(t)
    \/ JobFailed(t) \/ ReadyPublish(t)
    \/ SyncRead(t) \/ SyncWrite(t) \/ SyncPublish(t)

UploadStep(u) == UploadCommit(u) \/ UploadConflict(u) \/ UploadPublish(u)

StoreStep ==
    \/ StoreVector \/ DropVector
    \/ RefreshCall \/ RefreshLoad \/ RefreshFill
    \/ InvalidateScan \/ InvalidateFails \/ InvalidateDelete

DiscoverStep == DiscoverRead \/ DiscoverProcess \/ DiscoverCommit \/ DiscoverFail

Next ==
    \/ \E u \in Jobs : UploadRead(u) \/ UploadStep(u)
    \/ \E t \in tasks : TaskStep(t)
    \/ Dispatch
    \/ Archive
    \/ StoreStep
    \/ DiscoverStep
    \/ Restart
    \/ BusStep

Spec == Init /\ [][Next]_vars

(* The event loop runs every task and every request that can go on, and    *)
(* the discovery's transaction ends, with its process at the latest        *)
Fairness ==
    /\ WF_vars(Dispatch)
    /\ WF_vars(\E t \in tasks : TaskStep(t))
    /\ \A u \in Jobs : WF_vars(UploadStep(u))
    /\ WF_vars(DiscoverCommit \/ DiscoverFail)

FairSpec == Spec /\ Fairness

-----------------------------------------------------------------------------
(* Properties *)

(* Type invariant: the tables, Redis, and the locals of every actor. *)
PipelineTypeOK ==
    /\ BusTypeOK
    /\ ds \in Datasets
    /\ versions \in Seq(Versions)
    /\ contract \in Files \cup {None}
    /\ features \subseteq Features
    /\ values \in Stored
    /\ fitted \in Vectors
    /\ online \in [Slots -> Vectors \cup {NoVector, ClientVector}]
    /\ upload \in [Jobs -> [step : {"idle", "read", "committed", "done", "failed"},
                            file : Files \cup {None}, seen : Datasets]]
    /\ tasks \subseteq Tasks
    /\ disc \in [step : {"idle", "read", "processed"}, file : Files \cup {None},
                 view : Statuses, fresh : BOOLEAN]
    /\ reader \in [step : {"idle", "load", "fill"}, slot : Slots \cup {None}, snap : Stored]
    /\ sweep \in [walk : SUBSET Slots, found : SUBSET Slots]
    /\ spent \subseteq Disturbances

(* A vector the platform put into Redis holds, for every feature, the      *)
(* value PostgreSQL holds or none, however old the SELECT it was read with *)
(* and whatever was written in between (sync_worker.py, online_store.py).  *)
OnlineAgreesWithOffline ==
    \A s \in Slots : online[s] \in Vectors =>
        \A f \in Features : online[s][f] \in {None, values[<<f, s[2]>>]}

(* The parquet of a version, its feature values and the fitted states      *)
(* appear together or not at all: the values computed from a file fill a   *)
(* rectangle of features and rows (materializer.py).                       *)
CellsOf(f) == {c \in Cells : values[c] = f}
MaterializedWhole ==
    /\ \A i \in DOMAIN versions :
          LET f == versions[i].file
          IN IF versions[i].mat
             THEN \E fs \in (SUBSET features) \ {{}} : CellsOf(f) = fs \X Rows[f]
             ELSE CellsOf(f) = {}
    /\ \A f \in Features : fitted[f] # None =>
          \E i \in DOMAIN versions : versions[i].mat /\ versions[i].file = fitted[f]

(* Nobody reads of a step in the event stream before the step is committed *)
(* (lifecycle.py, materializer.py).                                        *)
EventsFollowCommits ==
    \A e \in log :
        /\ e.kind = "REGISTERED" =>
              \E i \in DOMAIN versions : Columns[versions[i].file] \subseteq features
        /\ e.kind \in {"MATERIALIZED", "VALUES_CREATED", "READY"} =>
              \E i \in DOMAIN versions : versions[i].raw /\ versions[i].mat
        /\ e.kind = "SYNCED" => values # NoSnap

(* A content has one version, whoever registers it first: the upload       *)
(* endpoint or the discovery (datasets.py, discovery.py).                  *)
OneVersionPerContent ==
    \A i, j \in DOMAIN versions : versions[i].file = versions[j].file => i = j

(* What may keep the events of an upload from being handled *)
Disturbed ==
    \/ spent \cap {"outage", "restart"} # {}
    \/ \E i \in DOMAIN versions : ~versions[i].raw

Answered(u) == \E k \in {"FAILED", "READY", "JOB_FAILED"} : Event(k, u) \in log

(* Another upload of the same moment registered the columns first *)
Overtaken(u) ==
    /\ Event("VALIDATED", u) \in log
    /\ \E v \in Jobs \ {u} : Event("REGISTERED", v) \in log /\ Answered(v)

(* While Redis and the process stay up, a committed upload is followed to  *)
(* its end: rejected, failed, or ready for training.  Two things may       *)
(* silence it: another upload that overtakes it, and a discovery that      *)
(* commits after it (lifecycle.py, contracts.py).                          *)
UploadsAnswered ==
    \A u \in Jobs :
        LET Due == upload[u].step = "committed" /\ listener = "on"
            Followed == Answered(u) \/ Overtaken(u) \/ Disturbed
        IN /\ (Due /\ contract = None) ~> (Followed \/ contract # None)
           /\ (Due /\ contract # None) ~> Followed

Abstract == INSTANCE FeatureStore WITH offline <- values, Versions <- Files, NoValue <- None

(* The tables and Redis together implement the abstract feature store. *)
ImplementsFeatureStore == Abstract!Spec
=============================================================================

------------------------- MODULE FeaturePipelineProofs -------------------------
(***************************************************************************)
(* Theorems about FeaturePipeline, for any files, features, entities and   *)
(* uploads, any schemas and verdicts, and any number of disturbances:      *)
(* first the online store, then the tables, versions and feature values    *)
(* under uploads, the discovery and materializations that race, and the    *)
(* events that tell of them.                                               *)
(***************************************************************************)
EXTENDS FeaturePipeline, SequenceTheorems, TLAPS

(* Who is past its first step holds what it works on *)
Held ==
    /\ \A u \in Jobs : upload[u].step # "idle" => upload[u].file \in Files
    /\ \A t \in tasks : t.step = "insert" => t.file \in Files
    /\ disc.step # "idle" => disc.file \in Files
    /\ reader.step # "idle" => reader.slot \in Slots

TypeInv == PipelineTypeOK /\ Held

(* The part of the invariant that is about one actor or table *)
TablesOK ==
    /\ ds \in Datasets
    /\ versions \in Seq(Versions)
    /\ contract \in Files \cup {None}
    /\ features \subseteq Features
    /\ values \in Stored
    /\ fitted \in Vectors
OnlineOK == online \in [Slots -> Vectors \cup {NoVector, ClientVector}]
UploadOK ==
    /\ upload \in [Jobs -> [step : {"idle", "read", "committed", "done", "failed"},
                            file : Files \cup {None}, seen : Datasets]]
    /\ \A u \in Jobs : upload[u].step # "idle" => upload[u].file \in Files
TasksOK ==
    /\ tasks \subseteq Tasks
    /\ \A t \in tasks : t.step = "insert" => t.file \in Files
DiscOK ==
    /\ disc \in [step : {"idle", "read", "processed"}, file : Files \cup {None},
                 view : Statuses, fresh : BOOLEAN]
    /\ disc.step # "idle" => disc.file \in Files
ReaderOK ==
    /\ reader \in [step : {"idle", "load", "fill"}, slot : Slots \cup {None}, snap : Stored]
    /\ reader.step # "idle" => reader.slot \in Slots
SweepOK == sweep \in [walk : SUBSET Slots, found : SUBSET Slots]
SpentOK == spent \subseteq Disturbances

LEMMA Parts ==
    TypeInv <=> /\ BusTypeOK /\ TablesOK /\ OnlineOK /\ UploadOK /\ TasksOK
                /\ DiscOK /\ ReaderOK /\ SweepOK /\ SpentOK
  BY DEF TypeInv, PipelineTypeOK, Held, TablesOK, OnlineOK, UploadOK, TasksOK, DiscOK, ReaderOK,
         SweepOK, SpentOK

LEMMA PartsNext ==
    TypeInv' <=> /\ BusTypeOK' /\ TablesOK' /\ OnlineOK' /\ UploadOK' /\ TasksOK'
                 /\ DiscOK' /\ ReaderOK' /\ SweepOK' /\ SpentOK'
  BY DEF TypeInv, PipelineTypeOK, Held, TablesOK, OnlineOK, UploadOK, TasksOK, DiscOK, ReaderOK,
         SweepOK, SpentOK

-----------------------------------------------------------------------------
(* What is left alone keeps its type *)

LEMMA BusStays == BusTypeOK /\ UNCHANGED busVars => BusTypeOK'
  BY DEF BusTypeOK, busVars
LEMMA TablesUnmoved == TablesOK /\ UNCHANGED rows => TablesOK'
  BY DEF TablesOK, rows
LEMMA OnlineStays == OnlineOK /\ UNCHANGED online => OnlineOK'
  BY DEF OnlineOK
LEMMA UploadStays == UploadOK /\ UNCHANGED upload => UploadOK'
  BY DEF UploadOK
LEMMA TasksStay == TasksOK /\ UNCHANGED tasks => TasksOK'
  BY DEF TasksOK
LEMMA DiscStays == DiscOK /\ UNCHANGED disc => DiscOK'
  BY DEF DiscOK
LEMMA ReaderStays == ReaderOK /\ UNCHANGED reader => ReaderOK'
  BY DEF ReaderOK
LEMMA SweepStays == SweepOK /\ UNCHANGED sweep => SweepOK'
  BY DEF SweepOK
LEMMA SpentStays == SpentOK /\ UNCHANGED spent => SpentOK'
  BY DEF SpentOK

LEMMA Stays ==
    /\ BusTypeOK /\ UNCHANGED busVars => BusTypeOK'
    /\ TablesOK /\ UNCHANGED rows => TablesOK'
    /\ OnlineOK /\ UNCHANGED online => OnlineOK'
    /\ UploadOK /\ UNCHANGED upload => UploadOK'
    /\ TasksOK /\ UNCHANGED tasks => TasksOK'
    /\ DiscOK /\ UNCHANGED disc => DiscOK'
    /\ ReaderOK /\ UNCHANGED reader => ReaderOK'
    /\ SweepOK /\ UNCHANGED sweep => SweepOK'
    /\ SpentOK /\ UNCHANGED spent => SpentOK'
    /\ UNCHANGED actors <=> UNCHANGED upload /\ UNCHANGED disc /\ UNCHANGED reader /\ UNCHANGED sweep
  BY BusStays, TablesUnmoved, OnlineStays, UploadStays, TasksStay, DiscStays, ReaderStays, SweepStays,
     SpentStays DEF actors

-----------------------------------------------------------------------------
(* Operators *)

LEMMA LatestType ==
    ASSUME TablesOK, HasRaw
    PROVE  Latest \in Versions /\ Latest.file \in Files
<1>1. versions \in Seq(Versions) /\ versions # << >>
  BY DEF TablesOK, HasRaw
<1>2. Len(versions) \in 1 .. Len(versions)
  BY <1>1
<1>3. \A i \in 1 .. Len(versions) : versions[i] \in Versions
  BY <1>1, ElementOfSeq
<1>4. Latest \in Versions
  BY <1>2, <1>3 DEF Latest
<1>5. QED
  BY <1>4 DEF Versions

LEMMA NoSnapType == NoSnap \in Stored
  BY DEF NoSnap, Stored

LEMMA IdleType == Idle.seen \in Datasets /\ Idle.step = "idle" /\ Idle.file = None
  BY DEF Idle, Datasets, Statuses

LEMMA VectorType ==
    ASSUME NEW snap \in Stored, NEW e \in Entities
    PROVE  /\ VectorOf(snap, e) \in Vectors
           /\ \A f \in Features : VectorOf(snap, e)[f] = snap[<<f, e>>] /\ <<f, e>> \in Cells
  BY DEF VectorOf, Vectors, Stored, Cells

LEMMA EntitiesType == \A snap : EntitiesIn(snap) \subseteq Entities
  BY DEF EntitiesIn

LEMMA DisturbsType == ASSUME SpentOK, NEW kind, Disturbs(kind) PROVE SpentOK'
  BY DEF SpentOK, Disturbs

LEMMA UploadedType ==
    ASSUME TablesOK, NEW seen \in Datasets, NEW f \in Files
    PROVE  Uploaded(seen, f) \in Datasets
<1>1. Columns[f] \subseteq Features
  BY PipelineAssumption
<1>2. QED
  BY <1>1 DEF TablesOK, Uploaded, Datasets, Statuses

LEMMA PublishType ==
    ASSUME BusTypeOK, NEW e \in Events, Publish(e)
    PROVE  BusTypeOK'
<1>1. e.kind \in Handled => e \in [kind : Handled, job : Jobs]
  BY DEF Events
<1>2. wire' \in Seq([kind : Handled, job : Jobs])
  <2>1. CASE e.kind \in Handled
    BY <1>1, <2>1, AppendProperties DEF BusTypeOK, Publish
  <2>2. CASE e.kind \notin Handled
    BY <2>2 DEF BusTypeOK, Publish
  <2>3. QED
    BY <2>1, <2>2
<1>3. QED
  BY <1>2 DEF BusTypeOK, Publish

LEMMA EventType == \A u \in Jobs, k \in Kinds : Event(k, u) \in Events
  BY DEF Event, Events

LEMMA TaskType == \A stage \in Stages, u \in Jobs : Task(stage, u) \in Tasks /\ Task(stage, u).step = "start"
  BY NoSnapType DEF Task, Tasks, Steps

-----------------------------------------------------------------------------
(* A task goes on or ends *)

LEMMA TaskEnded == ASSUME TasksOK, NEW t, Ends(t) PROVE TasksOK'
  BY DEF TasksOK, Ends

LEMMA TaskReplaced ==
    ASSUME TasksOK, NEW t, NEW next \in Tasks, next.step = "insert" => next.file \in Files,
           Becomes(t, next)
    PROVE  TasksOK'
  BY DEF TasksOK, Becomes

LEMMA TaskGone ==
    ASSUME TasksOK, NEW t \in tasks, NEW step \in Steps \ {"insert"}, Goes(t, step)
    PROVE  TasksOK'
<1>1. t \in Tasks
  BY DEF TasksOK
<1>2. [t EXCEPT !.step = step] \in Tasks /\ [t EXCEPT !.step = step].step = step
  BY <1>1 DEF Tasks
<1>3. QED
  BY <1>2, TaskReplaced DEF Goes

LEMMA Announced ==
    ASSUME TypeInv, NEW t \in tasks, NEW e \in Events, Announces(t, e)
    PROVE  TypeInv'
<1>1. TasksOK'
  BY Parts, TaskEnded DEF Announces
<1>2. BusTypeOK'
  BY Parts, PublishType, Stays DEF Announces
<1>3. QED
  BY <1>1, <1>2, Parts, PartsNext, Stays DEF Announces

-----------------------------------------------------------------------------
(* Upload, archive, and the tasks of the handlers *)

LEMMA UploadReadType ==
    ASSUME TypeInv, NEW u \in Jobs, UploadRead(u) PROVE TypeInv'
<1>1. UploadOK'
  BY Parts DEF UploadRead, UploadOK, TablesOK
<1>2. QED
  BY <1>1, Parts, PartsNext, Stays DEF UploadRead

LEMMA SetUploadType ==
    ASSUME UploadOK, NEW u \in Jobs, upload[u].step # "idle",
           NEW step \in {"committed", "done", "failed"}, SetUpload(u, step)
    PROVE  UploadOK'
  BY DEF UploadOK, SetUpload

LEMMA UploadCommitType ==
    ASSUME TypeInv, NEW u \in Jobs, UploadCommit(u) PROVE TypeInv'
<1>1. UploadOK'
  BY Parts, SetUploadType DEF UploadCommit
<1>2. upload[u].file \in Files /\ upload[u].seen \in Datasets
  BY Parts DEF UploadOK, UploadCommit
<1>3. Uploaded(upload[u].seen, upload[u].file) \in Datasets
  BY <1>2, Parts, UploadedType
<1>4. [file |-> upload[u].file, raw |-> TRUE, mat |-> FALSE] \in Versions
  BY <1>2 DEF Versions
<1>5. TablesOK'
  <2>1. CASE UNCHANGED rows
    BY <2>1, Parts, Stays
  <2>2. CASE ~UNCHANGED rows
    <3>1. /\ ds' = Uploaded(upload[u].seen, upload[u].file)
          /\ \/ versions' = versions
             \/ versions' = Append(versions, [file |-> upload[u].file, raw |-> TRUE, mat |-> FALSE])
          /\ UNCHANGED <<contract, features, values, fitted>>
      BY <2>2 DEF UploadCommit
    <3>2. versions' \in Seq(Versions)
      BY <3>1, <1>4, Parts, AppendProperties DEF TablesOK
    <3>3. QED
      BY <3>1, <3>2, <1>3, Parts DEF TablesOK
  <2>3. QED
    BY <2>1, <2>2
<1>6. QED
  BY <1>1, <1>5, Parts, PartsNext, Stays DEF UploadCommit

LEMMA UploadConflictType ==
    ASSUME TypeInv, NEW u \in Jobs, UploadConflict(u) PROVE TypeInv'
<1>1. UploadOK'
  BY Parts, SetUploadType DEF UploadConflict
<1>2. QED
  BY <1>1, Parts, PartsNext, Stays DEF UploadConflict

LEMMA UploadPublishType ==
    ASSUME TypeInv, NEW u \in Jobs, UploadPublish(u) PROVE TypeInv'
<1>1. UploadOK'
  BY Parts, SetUploadType DEF UploadPublish
<1>2. Event("UPLOADED", u) \in Events
  BY EventType DEF Kinds, Handled
<1>3. BusTypeOK'
  BY <1>2, Parts, PublishType, Stays DEF UploadPublish
<1>4. QED
  BY <1>1, <1>3, Parts, PartsNext, Stays DEF UploadPublish

LEMMA ArchiveType == ASSUME TypeInv, Archive PROVE TypeInv'
<1>1. TablesOK'
  BY Parts DEF Archive, TablesOK, Datasets, Statuses
<1>2. SpentOK'
  BY Parts, DisturbsType DEF Archive
<1>3. QED
  BY <1>1, <1>2, Parts, PartsNext, Stays DEF Archive

LEMMA DispatchType == ASSUME TypeInv, Dispatch PROVE TypeInv'
<1>1. PICK e \in Events : Receive(e) /\ tasks' = tasks \cup {Task(Handler[e.kind], e.job)}
  BY DEF Dispatch
<1>2. wire \in Seq([kind : Handled, job : Jobs]) /\ wire # << >> /\ e = Head(wire)
  BY <1>1, Parts DEF BusTypeOK, Receive
<1>3. e \in [kind : Handled, job : Jobs] /\ Tail(wire) \in Seq([kind : Handled, job : Jobs])
  BY <1>2, HeadTailProperties
<1>4. Handler[e.kind] \in Stages /\ e.job \in Jobs
  BY <1>3 DEF Handler, Handled, Stages
<1>5. TasksOK'
  BY <1>1, <1>4, TaskType, Parts DEF TasksOK
<1>6. BusTypeOK'
  BY <1>1, <1>3, Parts DEF BusTypeOK, Receive
<1>7. QED
  BY <1>5, <1>6, Parts, PartsNext, Stays DEF Dispatch

LEMMA ReadTask ==
    ASSUME TypeInv, NEW t \in tasks, HasRaw, NEW fs \in SUBSET Features, NEW step \in Steps
    PROVE  /\ [t EXCEPT !.file = Latest.file, !.feats = fs, !.step = step] \in Tasks
           /\ [t EXCEPT !.file = Latest.file, !.step = step] \in Tasks
           /\ [t EXCEPT !.file = Latest.file, !.feats = fs, !.step = step].file \in Files
           /\ [t EXCEPT !.file = Latest.file, !.step = step].file \in Files
<1>1. t \in Tasks /\ Latest.file \in Files
  BY Parts, LatestType DEF TasksOK
<1>2. QED
  BY <1>1 DEF Tasks

LEMMA ValidateReadType ==
    ASSUME TypeInv, NEW t \in tasks, ValidateRead(t) PROVE TypeInv'
<1>1. TasksOK'
  <2>1. CASE HasRaw
    <3>1. PICK step \in {"create", "halted", "passed"} :
             Becomes(t, [t EXCEPT !.file = Latest.file, !.step = step])
      BY <2>1 DEF ValidateRead, Judged
    <3>2. QED
      BY <3>1, <2>1, ReadTask, TaskReplaced, Parts DEF Steps
  <2>2. CASE ~HasRaw
    BY <2>2, Parts, TaskEnded DEF ValidateRead
  <2>3. QED
    BY <2>1, <2>2
<1>2. QED
  BY <1>1, Parts, PartsNext, Stays DEF ValidateRead

(* The insertion of an inferred contract: the task goes on, or dies *)
LEMMA Inferring ==
    ASSUME NEW t, ValidateCreate(t) \/ ValidateFlush(t)
    PROVE  /\ t.stage = "validate"
           /\ Ends(t) \/ \E step \in {"flush", "halted", "passed"} : Goes(t, step)
           /\ UNCHANGED <<busVars, rows, online, actors, spent>>
  BY DEF ValidateCreate, ValidateFlush, Judged, At

LEMMA InferringType ==
    ASSUME TypeInv, NEW t \in tasks, ValidateCreate(t) \/ ValidateFlush(t) PROVE TypeInv'
<1>1. TasksOK'
  BY Inferring, Parts, TaskEnded, TaskGone DEF Steps
<1>2. QED
  BY <1>1, Inferring, Parts, PartsNext, Stays

LEMMA JobOfTask == ASSUME TypeInv, NEW t \in tasks PROVE t \in Tasks /\ t.job \in Jobs
  BY Parts DEF TasksOK, Tasks

LEMMA AnnouncementsType ==
    ASSUME TypeInv, NEW t \in tasks,
           ValidatePublish(t) \/ RegisterPublish(t) \/ JobFailed(t) \/ ReadyPublish(t)
    PROVE  TypeInv'
<1>1. PICK k \in Kinds : Announces(t, Event(k, t.job))
  BY DEF ValidatePublish, RegisterPublish, JobFailed, ReadyPublish, Kinds, Handled
<1>2. Event(k, t.job) \in Events
  BY JobOfTask, EventType
<1>3. QED
  BY <1>1, <1>2, Announced

LEMMA ReadingType ==
    ASSUME TypeInv, NEW t \in tasks, RegisterRead(t) \/ MaterializeRead(t) PROVE TypeInv'
<1>1. TasksOK'
  <2>1. CASE Ends(t)
    BY <2>1, Parts, TaskEnded
  <2>2. CASE ~Ends(t)
    <3>1. /\ HasRaw
          /\ Becomes(t, [t EXCEPT !.file = Latest.file, !.feats = features, !.step = "insert"])
      BY <2>2 DEF RegisterRead, MaterializeRead
    <3>2. features \in SUBSET Features /\ "insert" \in Steps
      BY Parts DEF TablesOK, Steps
    <3>3. QED
      BY <3>1, <3>2, ReadTask, TaskReplaced, Parts
  <2>3. QED
    BY <2>1, <2>2
<1>2. QED
  BY <1>1, Parts, PartsNext, Stays DEF RegisterRead, MaterializeRead

LEMMA RegisterCommitType ==
    ASSUME TypeInv, NEW t \in tasks, RegisterCommit(t) PROVE TypeInv'
<1>1. t.file \in Files
  BY Parts DEF TasksOK, RegisterCommit, At
<1>2. Columns[t.file] \subseteq Features
  BY <1>1, PipelineAssumption
<1>3. TasksOK'
  BY Parts, TaskEnded, TaskGone DEF RegisterCommit, Steps
<1>4. TablesOK'
  BY <1>2, Parts DEF TablesOK, RegisterCommit
<1>5. QED
  BY <1>3, <1>4, Parts, PartsNext, Stays DEF RegisterCommit

(* What an INSERT does to the values, if it does anything *)
LEMMA InsertedValues ==
    ASSUME TypeInv, NEW t \in tasks, MaterializeCommit(t)
    PROVE  /\ values' \in Stored
           /\ \A c \in Cells : values'[c] \in IF values[c] = None THEN Files \cup {None} ELSE {values[c]}
<1>1. t.file \in Files
  BY Parts DEF TasksOK, MaterializeCommit, At
<1>2. values \in Stored
  BY Parts DEF TablesOK
<1>3. CASE Insertable(t)
  <2>1. values' = [c \in Cells |-> IF c \in Cell(t) THEN t.file ELSE values[c]]
    BY <1>3 DEF MaterializeCommit
  <2>2. \A c \in Cell(t) : values[c] = None
    BY <1>3 DEF Insertable
  <2>3. QED
    BY <1>1, <1>2, <2>1, <2>2 DEF Stored
<1>4. CASE ~Insertable(t)
  BY <1>2, <1>4 DEF MaterializeCommit, Stored
<1>5. QED
  BY <1>3, <1>4

LEMMA MaterializeCommitType ==
    ASSUME TypeInv, NEW t \in tasks, MaterializeCommit(t) PROVE TypeInv'
<1>1. t.file \in Files
  BY Parts DEF TasksOK, MaterializeCommit, At
<1>2. TasksOK'
  BY Parts, TaskGone DEF MaterializeCommit, Steps
<1>3. fitted' \in Vectors
  BY <1>1, Parts DEF TablesOK, Vectors, MaterializeCommit
<1>4. versions' \in Seq(Versions)
  <2>1. versions \in Seq(Versions)
    BY Parts DEF TablesOK
  <2>2. CASE versions' = versions
    BY <2>1, <2>2
  <2>3. CASE versions' # versions
    <3>1. versions' = [i \in DOMAIN versions |->
              [versions[i] EXCEPT !.mat = @ \/ versions[i].file = t.file]]
      BY <2>3 DEF MaterializeCommit
    <3>2. Len(versions) \in Nat /\ DOMAIN versions = 1 .. Len(versions)
      BY <2>1, LenProperties
    <3>3. \A i \in DOMAIN versions : versions[i] \in Versions
      BY <2>1, <3>2, ElementOfSeq
    <3>4. \A i \in DOMAIN versions :
              [versions[i] EXCEPT !.mat = @ \/ versions[i].file = t.file] \in Versions
      BY <3>3 DEF Versions
    <3>5. \A i \in 1 .. Len(versions) : versions'[i] \in Versions
      BY <3>1, <3>2, <3>4
    <3>6. QED
      BY <3>1, <3>2, <3>4, <3>5
  <2>4. QED
    BY <2>2, <2>3
<1>5. TablesOK'
  BY <1>3, <1>4, InsertedValues, Parts DEF TablesOK, MaterializeCommit
<1>6. QED
  BY <1>2, <1>5, Parts, PartsNext, Stays DEF MaterializeCommit

LEMMA MaterializePublishType ==
    ASSUME TypeInv, NEW t \in tasks, MaterializePublish(t) PROVE TypeInv'
<1>1. TasksOK'
  BY Parts, TaskEnded, TaskGone DEF MaterializePublish, Steps
<1>2. Event("MATERIALIZED", t.job) \in Events /\ Event("VALUES_CREATED", t.job) \in Events
  BY JobOfTask, EventType DEF Kinds, Handled
<1>3. BusTypeOK'
  BY <1>2, Parts, PublishType, Stays DEF MaterializePublish
<1>4. QED
  BY <1>1, <1>3, Parts, PartsNext, Stays DEF MaterializePublish

-----------------------------------------------------------------------------
(* The online store *)

LEMMA SyncReadType ==
    ASSUME TypeInv, NEW t \in tasks, SyncRead(t) PROVE TypeInv'
<1>1. t \in Tasks /\ values \in Stored
  BY Parts DEF TasksOK, TablesOK
<1>2. LET next == [t EXCEPT !.step = "write", !.snap = values, !.todo = EntitiesIn(values)]
      IN next \in Tasks /\ next.step = "write"
  BY <1>1, EntitiesType DEF Tasks, Steps
<1>3. TasksOK'
  BY <1>2, Parts, TaskEnded, TaskReplaced DEF SyncRead
<1>4. QED
  BY <1>3, Parts, PartsNext, Stays DEF SyncRead

LEMMA SyncWriteType ==
    ASSUME TypeInv, NEW t \in tasks, SyncWrite(t) PROVE TypeInv'
<1>1. PICK e \in t.todo :
         /\ Becomes(t, [t EXCEPT !.todo = @ \ {e}])
         /\ online' = IF redisUp THEN [online EXCEPT ![<<"id", e>>] = VectorOf(t.snap, e)] ELSE online
  BY DEF SyncWrite
<1>2. t \in Tasks /\ t.step = "write"
  BY Parts DEF TasksOK, SyncWrite, At
<1>3. e \in Entities /\ t.snap \in Stored
  BY <1>2 DEF Tasks
<1>4. [t EXCEPT !.todo = @ \ {e}] \in Tasks /\ [t EXCEPT !.todo = @ \ {e}].step = "write"
  BY <1>2 DEF Tasks
<1>5. TasksOK'
  BY <1>1, <1>4, Parts, TaskReplaced
<1>6. VectorOf(t.snap, e) \in Vectors
  BY <1>3, VectorType
<1>7. OnlineOK'
  BY <1>1, <1>6, Parts DEF OnlineOK
<1>8. QED
  BY <1>5, <1>7, Parts, PartsNext, Stays DEF SyncWrite

LEMMA SyncPublishType ==
    ASSUME TypeInv, NEW t \in tasks, SyncPublish(t) PROVE TypeInv'
<1>1. TasksOK'
  BY Parts, TaskEnded, TaskGone DEF SyncPublish, Steps
<1>2. Event("SYNCED", t.job) \in Events
  BY JobOfTask, EventType DEF Kinds, Handled
<1>3. BusTypeOK'
  BY <1>2, Parts, PublishType, Stays DEF SyncPublish
<1>4. QED
  BY <1>1, <1>3, Parts, PartsNext, Stays DEF SyncPublish

LEMMA ClientVectorType ==
    ASSUME TypeInv, StoreVector \/ DropVector PROVE TypeInv'
<1>1. OnlineOK'
  BY Parts DEF StoreVector, DropVector, OnlineOK
<1>2. SpentOK'
  BY Parts, DisturbsType DEF StoreVector, DropVector
<1>3. QED
  BY <1>1, <1>2, Parts, PartsNext, Stays DEF StoreVector, DropVector

LEMMA RefreshCallType == ASSUME TypeInv, RefreshCall PROVE TypeInv'
<1>1. ReaderOK'
  BY Parts DEF RefreshCall, ReaderOK
<1>2. SpentOK'
  BY Parts, DisturbsType DEF RefreshCall
<1>3. QED
  BY <1>1, <1>2, Parts, PartsNext, Stays DEF RefreshCall

LEMMA NoReaderType ==
    NoReader \in [step : {"idle", "load", "fill"}, slot : Slots \cup {None}, snap : Stored]
  BY NoSnapType DEF NoReader

LEMMA RefreshLoadType == ASSUME TypeInv, RefreshLoad PROVE TypeInv'
<1>1. values \in Stored
  BY Parts DEF TablesOK
<1>2. ReaderOK'
  BY <1>1, NoReaderType, Parts DEF RefreshLoad, ReaderOK, NoReader
<1>3. QED
  BY <1>2, Parts, PartsNext, Stays DEF RefreshLoad

LEMMA RefreshFillType == ASSUME TypeInv, RefreshFill PROVE TypeInv'
<1>1. reader.slot \in Slots /\ reader.snap \in Stored
  BY Parts DEF ReaderOK, RefreshFill
<1>2. VectorOf(reader.snap, reader.slot[2]) \in Vectors
  BY <1>1, VectorType DEF Slots
<1>3. OnlineOK'
  BY <1>1, <1>2, Parts DEF OnlineOK, RefreshFill
<1>4. ReaderOK'
  BY NoReaderType DEF RefreshFill, ReaderOK, NoReader
<1>5. QED
  BY <1>3, <1>4, Parts, PartsNext, Stays DEF RefreshFill

LEMMA InvalidateType ==
    ASSUME TypeInv, InvalidateScan \/ InvalidateFails \/ InvalidateDelete PROVE TypeInv'
<1> DEFINE Walks == [walk : SUBSET Slots, found : SUBSET Slots]
<1>1. sweep \in Walks /\ FirstTrip \in Walks /\ NoSweep \in Walks
  BY Parts DEF SweepOK, FirstTrip, NoSweep, Slots, Keys
<1>2. SweepOK'
  <2>1. ASSUME NEW from \in Walks, ScanVisits(from) PROVE SweepOK'
    BY <2>1 DEF ScanVisits, SweepOK
  <2>2. QED
    BY <1>1, <2>1 DEF InvalidateScan, InvalidateFails, InvalidateDelete, SweepOK
<1>3. OnlineOK'
  BY Parts DEF InvalidateScan, InvalidateFails, InvalidateDelete, OnlineOK
<1>4. SpentOK'
  BY Parts, DisturbsType, Stays DEF InvalidateScan, InvalidateFails, InvalidateDelete
<1>5. QED
  BY <1>2, <1>3, <1>4, Parts, PartsNext, Stays
     DEF InvalidateScan, InvalidateFails, InvalidateDelete

-----------------------------------------------------------------------------
(* Discovery, and the platform *)

LEMMA DiscoverReadType == ASSUME TypeInv, DiscoverRead PROVE TypeInv'
<1>1. ds.status \in Statuses /\ None \in Statuses
  BY Parts DEF TablesOK, Datasets, Statuses
<1>2. DiscOK'
  BY <1>1 DEF DiscoverRead, DiscOK
<1>3. SpentOK'
  BY Parts, DisturbsType DEF DiscoverRead
<1>4. QED
  BY <1>2, <1>3, Parts, PartsNext, Stays DEF DiscoverRead

LEMMA NoDiscoveryType ==
    /\ NoDiscovery \in [step : {"idle", "read", "processed"}, file : Files \cup {None},
                        view : Statuses, fresh : BOOLEAN]
    /\ NoDiscovery.step = "idle"
  BY DEF NoDiscovery, Statuses

(* What the discovery writes to Redis before it ends its transaction *)
LEMMA DiscoveredVectors ==
    ASSUME TypeInv, DiscoverProcess
    PROVE  \/ online' = online
           \/ online' = [s \in Slots |-> IF s \in {"name"} \X EntitiesIn(values)
                                         THEN VectorOf(values, s[2]) ELSE online[s]]
  BY DEF DiscoverProcess

LEMMA DiscoverProcessType == ASSUME TypeInv, DiscoverProcess PROVE TypeInv'
<1>1. DiscOK'
  <2>1. CASE disc' = NoDiscovery
    BY <2>1, NoDiscoveryType DEF DiscOK
  <2>2. CASE disc' # NoDiscovery
    <3>1. disc' = [disc EXCEPT !.step = "processed", !.fresh = disc.file \notin FilesKnown]
      BY <2>2 DEF DiscoverProcess
    <3>2. QED
      BY <3>1, Parts DEF DiscOK, DiscoverProcess
  <2>3. QED
    BY <2>1, <2>2
<1>2. OnlineOK'
  <2>1. values \in Stored
    BY Parts DEF TablesOK
  <2>2. \A s \in Slots : s[2] \in Entities
    BY DEF Slots
  <2>3. \A s \in Slots : VectorOf(values, s[2]) \in Vectors
    BY <2>1, <2>2, VectorType
  <2>4. QED
    BY <2>3, DiscoveredVectors, Parts DEF OnlineOK
<1>3. QED
  BY <1>1, <1>2, Parts, PartsNext, Stays DEF DiscoverProcess

LEMMA DiscoverCommitType == ASSUME TypeInv, DiscoverCommit PROVE TypeInv'
<1>1. disc.file \in Files /\ disc.view \in Statuses
  BY Parts DEF DiscOK, DiscoverCommit
<1>2. DiscOK'
  BY NoDiscoveryType DEF DiscOK, DiscoverCommit
<1>3. Columns[disc.file] \subseteq Features /\ Engineered[disc.file] \subseteq Features
  BY <1>1, PipelineAssumption
<1>4. ds' \in Datasets
  BY <1>1, <1>3, Parts DEF TablesOK, DiscoverCommit, Datasets, Statuses
<1>5. [file |-> disc.file, raw |-> FALSE, mat |-> FALSE] \in Versions
  BY <1>1 DEF Versions
<1>6. versions' \in Seq(Versions)
  BY <1>5, Parts, AppendProperties DEF TablesOK, DiscoverCommit
<1>7. TablesOK'
  BY <1>1, <1>3, <1>4, <1>6, Parts DEF TablesOK, DiscoverCommit
<1>8. QED
  BY <1>2, <1>7, Parts, PartsNext, Stays DEF DiscoverCommit

LEMMA DiscoverFailType == ASSUME TypeInv, DiscoverFail PROVE TypeInv'
<1>1. DiscOK'
  BY NoDiscoveryType DEF DiscOK, DiscoverFail
<1>2. QED
  BY <1>1, Parts, PartsNext, Stays DEF DiscoverFail

LEMMA RestartType == ASSUME TypeInv, Restart PROVE TypeInv'
<1>1. UploadOK'
  BY Parts DEF UploadOK, Restart
<1>2. TasksOK' /\ SweepOK'
  BY DEF TasksOK, SweepOK, NoSweep, Restart
<1>3. ReaderOK'
  BY NoReaderType DEF ReaderOK, Restart, NoReader
<1>4. BusTypeOK'
  BY Parts DEF BusTypeOK, Restart, BusRestart
<1>5. SpentOK'
  BY Parts, DisturbsType DEF Restart
<1>6. QED
  BY <1>1, <1>2, <1>3, <1>4, <1>5, Parts, PartsNext, Stays DEF Restart

LEMMA BusStepType == ASSUME TypeInv, BusStep PROVE TypeInv'
<1>1. BusTypeOK'
  <2>1. BusTypeOK /\ << >> \in Seq([kind : Handled, job : Jobs])
    BY Parts
  <2>2. CASE RedisFails
    BY <2>1, <2>2 DEF BusTypeOK, RedisFails
  <2>3. CASE RedisReturns \/ ListenerDies
    BY <2>1, <2>3 DEF BusTypeOK, RedisReturns, ListenerDies
  <2>4. QED
    BY <2>2, <2>3 DEF BusStep
<1>2. SpentOK'
  BY Parts, DisturbsType, Stays DEF BusStep
<1>3. QED
  BY <1>1, <1>2, Parts, PartsNext, Stays DEF BusStep

-----------------------------------------------------------------------------
(* Type correctness *)

LEMMA InitType == Init => TypeInv
<1> SUFFICES ASSUME Init PROVE TypeInv
  OBVIOUS
<1>1. BusTypeOK
  <2>1. << >> \in Seq([kind : Handled, job : Jobs])
    OBVIOUS
  <2>2. QED
    BY <2>1 DEF Init, BusInit, BusTypeOK
<1>2. TablesOK
  <2>1. << >> \in Seq(Versions)
    OBVIOUS
  <2>2. [f \in Features |-> None] \in Vectors
    BY DEF Vectors
  <2>3. QED
    BY <2>1, <2>2, NoSnapType, IdleType DEF Init, TablesOK
<1>3. OnlineOK /\ TasksOK /\ SweepOK /\ SpentOK
  BY DEF Init, OnlineOK, TasksOK, SweepOK, NoSweep, SpentOK
<1>4. UploadOK
  BY IdleType DEF Init, UploadOK, Idle
<1>5. DiscOK /\ ReaderOK
  BY NoDiscoveryType, NoReaderType DEF Init, DiscOK, ReaderOK, NoReader
<1>6. QED
  BY <1>1, <1>2, <1>3, <1>4, <1>5, Parts

LEMMA StepType == TypeInv /\ [Next]_vars => TypeInv'
<1> SUFFICES ASSUME TypeInv, [Next]_vars PROVE TypeInv'
  OBVIOUS
<1>1. ASSUME NEW u \in Jobs, UploadRead(u) \/ UploadStep(u) PROVE TypeInv'
  BY <1>1, UploadReadType, UploadCommitType, UploadConflictType, UploadPublishType DEF UploadStep
<1>2. ASSUME NEW t \in tasks, TaskStep(t) PROVE TypeInv'
  BY <1>2, ValidateReadType, InferringType, AnnouncementsType, ReadingType, RegisterCommitType,
     MaterializeCommitType, MaterializePublishType, SyncReadType, SyncWriteType, SyncPublishType
  DEF TaskStep
<1>3. CASE StoreStep
  BY <1>3, ClientVectorType, RefreshCallType, RefreshLoadType, RefreshFillType, InvalidateType
  DEF StoreStep
<1>4. CASE DiscoverStep
  BY <1>4, DiscoverReadType, DiscoverProcessType, DiscoverCommitType, DiscoverFailType DEF DiscoverStep
<1>5. CASE Dispatch \/ Archive \/ Restart \/ BusStep
  BY <1>5, DispatchType, ArchiveType, RestartType, BusStepType
<1>6. CASE UNCHANGED vars
  BY <1>6, Parts, PartsNext, Stays DEF vars
<1>7. QED
  BY <1>1, <1>2, <1>3, <1>4, <1>5, <1>6 DEF Next

(* Every table, the online store and every actor of the pipeline keep      *)
(* their types, whatever happens in whatever order.                        *)
THEOREM PipelineTypeCorrect == Spec => []PipelineTypeOK
<1>1. Spec => []TypeInv
  BY InitType, StepType, PTL DEF Spec
<1>2. TypeInv => PipelineTypeOK
  BY DEF TypeInv
<1>3. QED
  BY <1>1, <1>2, PTL

-----------------------------------------------------------------------------
(* Agreement of the online store with the tables *)

(* A SELECT of the values, at some time in the past *)
Older(snap) == \A c \in Cells : snap[c] \in {None, values[c]}

SnapsOlder == (\A t \in tasks : Older(t.snap)) /\ Older(reader.snap)

Agreement == SnapsOlder /\ OnlineAgreesWithOffline

(* Only an INSERT changes the values, and it fills empty cells *)
LEMMA ValuesStep ==
    ASSUME TypeInv, [Next]_vars
    PROVE  values' = values \/ (\E t \in tasks : MaterializeCommit(t))
<1>1. ASSUME NEW u \in Jobs, UploadRead(u) \/ UploadStep(u) PROVE values' = values
  BY <1>1 DEF UploadRead, UploadStep, UploadCommit, UploadConflict, UploadPublish, rows
<1>2. ASSUME NEW t \in tasks, TaskStep(t), ~MaterializeCommit(t) PROVE values' = values
  BY <1>2 DEF TaskStep, ValidateRead, ValidateCreate, ValidateFlush, ValidatePublish, RegisterRead,
     RegisterCommit, RegisterPublish, MaterializeRead, MaterializePublish, JobFailed, ReadyPublish, SyncRead, SyncWrite, SyncPublish,
     Announces, rows
<1>3. CASE StoreStep
  BY <1>3 DEF StoreStep, StoreVector, DropVector, RefreshCall, RefreshLoad, RefreshFill,
     InvalidateScan, InvalidateFails, InvalidateDelete, rows
<1>4. CASE DiscoverStep
  BY <1>4 DEF DiscoverStep, DiscoverRead, DiscoverProcess, DiscoverCommit, DiscoverFail, rows
<1>5. CASE Dispatch \/ Archive \/ Restart \/ BusStep
  BY <1>5 DEF Dispatch, Archive, Restart, BusStep, rows
<1>6. CASE UNCHANGED vars
  BY <1>6 DEF vars, rows
<1>7. QED
  BY <1>1, <1>2, <1>3, <1>4, <1>5, <1>6 DEF Next

LEMMA ValuesGrow ==
    ASSUME TypeInv, [Next]_vars
    PROVE  /\ values' \in Stored
           /\ \A c \in Cells : values'[c] \in IF values[c] = None THEN Files \cup {None} ELSE {values[c]}
<1>1. values \in Stored
  BY Parts DEF TablesOK
<1>2. CASE values' = values
  BY <1>1, <1>2 DEF Stored
<1>3. CASE values' # values
  BY <1>3, ValuesStep, InsertedValues
<1>4. QED
  BY <1>2, <1>3

LEMMA OlderStays ==
    ASSUME TypeInv, [Next]_vars, NEW snap, Older(snap)
    PROVE  \A c \in Cells : snap[c] \in {None, values'[c]}
  BY ValuesGrow DEF Older

LEMMA KnownSnaps == ASSUME TypeInv PROVE Older(NoSnap) /\ Older(values)
  BY DEF Older, NoSnap

(* Whence the snapshots of a step come *)
LEMMA SnapStep ==
    ASSUME TypeInv, [Next]_vars
    PROVE  /\ \A t \in tasks' : \/ t.snap \in {NoSnap, values}
                                \/ \E q \in tasks : t.snap = q.snap
           /\ reader'.snap \in {NoSnap, values, reader.snap}
<1> DEFINE From(t) == t.snap \in {NoSnap, values} \/ \E q \in tasks : t.snap = q.snap
           Reads == reader'.snap \in {NoSnap, values, reader.snap}
<1>1. ASSUME NEW u \in Jobs, UploadRead(u) \/ UploadStep(u)
      PROVE  (\A t \in tasks' : From(t)) /\ Reads
  BY <1>1 DEF UploadRead, UploadStep, UploadCommit, UploadConflict, UploadPublish
<1>2. ASSUME NEW t \in tasks, TaskStep(t)
      PROVE  (\A q \in tasks' : From(q)) /\ Reads
  <2>1. reader' = reader
    BY <1>2 DEF TaskStep, ValidateRead, ValidateCreate, ValidateFlush, ValidatePublish, RegisterRead,
       RegisterCommit, RegisterPublish, MaterializeRead, MaterializeCommit, MaterializePublish, JobFailed, ReadyPublish, SyncRead,
       SyncWrite, SyncPublish, Announces, actors
  <2>2. t \in Tasks
    BY JobOfTask
  <2>3. ASSUME NEW next, Becomes(t, next), next.snap \in {NoSnap, values, t.snap}
        PROVE  \A q \in tasks' : From(q)
    BY <2>3 DEF Becomes
  <2>4. ASSUME NEW step, Goes(t, step) PROVE \A q \in tasks' : From(q)
    <3>1. [t EXCEPT !.step = step].snap = t.snap
      BY <2>2 DEF Tasks
    <3>2. QED
      BY <2>3, <2>4, <3>1 DEF Goes
  <2>5. CASE Ends(t)
    BY <2>1, <2>5 DEF Ends
  <2>6. CASE ValidateRead(t)
    <3>1. \A file, step : [t EXCEPT !.file = file, !.step = step].snap = t.snap
      BY <2>2 DEF Tasks
    <3>2. QED
      BY <2>1, <2>3, <2>5, <2>6, <3>1 DEF ValidateRead
  <2>v. CASE ValidateCreate(t) \/ ValidateFlush(t)
    BY <2>1, <2>4, <2>5, <2>v, Inferring
  <2>7. CASE RegisterRead(t) \/ MaterializeRead(t)
    <3>1. [t EXCEPT !.file = Latest.file, !.feats = features, !.step = "insert"].snap = t.snap
      BY <2>2 DEF Tasks
    <3>2. \/ Ends(t)
          \/ Becomes(t, [t EXCEPT !.file = Latest.file, !.feats = features, !.step = "insert"])
      BY <2>7 DEF RegisterRead, MaterializeRead
    <3>3. QED
      BY <2>1, <2>3, <2>5, <3>1, <3>2
  <2>8. CASE RegisterCommit(t) \/ MaterializeCommit(t) \/ MaterializePublish(t) \/ SyncPublish(t)
    BY <2>1, <2>4, <2>5, <2>8 DEF RegisterCommit, MaterializeCommit, MaterializePublish, SyncPublish
  <2>9. CASE ValidatePublish(t) \/ RegisterPublish(t) \/ JobFailed(t) \/ ReadyPublish(t)
    BY <2>1, <2>5, <2>9 DEF ValidatePublish, RegisterPublish, JobFailed, ReadyPublish, Announces
  <2>10. CASE SyncRead(t)
    <3>1. \A todo : [t EXCEPT !.step = "write", !.snap = values, !.todo = todo].snap = values
      BY <2>2 DEF Tasks
    <3>2. QED
      BY <2>1, <2>3, <2>5, <2>10, <3>1 DEF SyncRead
  <2>11. CASE SyncWrite(t)
    <3>1. PICK e \in t.todo : Becomes(t, [t EXCEPT !.todo = @ \ {e}])
      BY <2>11 DEF SyncWrite
    <3>2. [t EXCEPT !.todo = @ \ {e}].snap = t.snap
      BY <2>2 DEF Tasks
    <3>3. QED
      BY <2>1, <2>3, <3>1, <3>2
  <2>12. QED
    BY <1>2, <2>1, <2>6, <2>v, <2>7, <2>8, <2>9, <2>10, <2>11 DEF TaskStep
<1>3. CASE StoreStep
  <2>1. tasks' = tasks
    BY <1>3 DEF StoreStep, StoreVector, DropVector, RefreshCall, RefreshLoad, RefreshFill,
       InvalidateScan, InvalidateFails, InvalidateDelete
  <2>2. reader \in [step : {"idle", "load", "fill"}, slot : Slots \cup {None}, snap : Stored]
    BY Parts DEF ReaderOK
  <2>3. CASE RefreshCall
    <3>1. PICK s \in Slots : reader' = [reader EXCEPT !.step = "load", !.slot = s]
      BY <2>3 DEF RefreshCall
    <3>2. reader'.snap = reader.snap
      BY <2>2, <3>1
    <3>3. QED
      BY <2>1, <3>2
  <2>4. CASE RefreshLoad
    <3>1. reader' = [reader EXCEPT !.step = "fill", !.snap = values] \/ reader' = NoReader
      BY <2>4 DEF RefreshLoad
    <3>2. [reader EXCEPT !.step = "fill", !.snap = values].snap = values
      BY <2>2
    <3>3. NoReader.snap = NoSnap
      BY DEF NoReader
    <3>4. QED
      BY <2>1, <3>1, <3>2, <3>3
  <2>5. CASE ~RefreshCall /\ ~RefreshLoad
    BY <1>3, <2>1, <2>5 DEF StoreStep, StoreVector, DropVector, RefreshFill,
       InvalidateScan, InvalidateFails, InvalidateDelete, actors, NoReader
  <2>6. QED
    BY <2>3, <2>4, <2>5
<1>4. CASE DiscoverStep
  BY <1>4 DEF DiscoverStep, DiscoverRead, DiscoverProcess, DiscoverCommit, DiscoverFail
<1>5. CASE Dispatch
  BY <1>5 DEF Dispatch, Task, actors
<1>6. CASE Archive \/ Restart \/ BusStep
  BY <1>6 DEF Archive, Restart, BusStep, actors, NoReader
<1>7. CASE UNCHANGED vars
  BY <1>7 DEF vars, actors
<1>8. QED
  BY <1>1, <1>2, <1>3, <1>4, <1>5, <1>6, <1>7 DEF Next

(* A vector of a step is as it was, written by a client, dropped, or read  *)
(* by a SELECT                                                             *)
Put(s) ==
    \/ online'[s] \in {online[s], NoVector, ClientVector}
    \/ \E snap \in Stored : Older(snap) /\ online'[s] = VectorOf(snap, s[2])

LEMMA OnlineStep ==
    ASSUME TypeInv, SnapsOlder, [Next]_vars
    PROVE  online' = online \/ ((\A s \in Slots : Put(s)) /\ values' = values)
<1>1. ASSUME NEW u \in Jobs, UploadRead(u) \/ UploadStep(u) PROVE online' = online
  BY <1>1 DEF UploadRead, UploadStep, UploadCommit, UploadConflict, UploadPublish
<1>2. ASSUME NEW t \in tasks, TaskStep(t), ~SyncWrite(t) PROVE online' = online
  BY <1>2 DEF TaskStep, ValidateRead, ValidateCreate, ValidateFlush, ValidatePublish, RegisterRead,
     RegisterCommit, RegisterPublish, MaterializeRead, MaterializeCommit, MaterializePublish, JobFailed, ReadyPublish, SyncRead,
     SyncPublish, Announces
<1>3. OnlineOK
  BY Parts
<1>4. ASSUME NEW t \in tasks, SyncWrite(t) PROVE (\A s \in Slots : Put(s)) /\ values' = values
  <2>1. PICK e \in t.todo :
           online' = IF redisUp THEN [online EXCEPT ![<<"id", e>>] = VectorOf(t.snap, e)] ELSE online
    BY <1>4 DEF SyncWrite
  <2>2. t.snap \in Stored /\ Older(t.snap)
    BY JobOfTask DEF Tasks, SnapsOlder
  <2>3. \A s \in Slots : online'[s] = online[s] \/ (s[2] = e /\ online'[s] = VectorOf(t.snap, e))
    BY <1>3, <2>1 DEF OnlineOK
  <2>4. values' = values
    BY <1>4 DEF SyncWrite, rows
  <2>5. QED
    BY <2>2, <2>3, <2>4 DEF Put
<1>5. CASE StoreVector \/ DropVector
  <2>1. \A s \in Slots : online'[s] \in {online[s], NoVector, ClientVector}
    BY <1>3, <1>5 DEF OnlineOK, StoreVector, DropVector
  <2>2. values' = values
    BY <1>5 DEF StoreVector, DropVector, rows
  <2>3. QED
    BY <2>1, <2>2 DEF Put
<1>6. CASE RefreshFill
  <2>1. reader.slot \in Slots /\ reader.snap \in Stored /\ Older(reader.snap)
    BY <1>6, Parts DEF ReaderOK, RefreshFill, SnapsOlder
  <2>2. \A s \in Slots : online'[s] = online[s] \/ online'[s] = VectorOf(reader.snap, s[2])
    BY <1>3, <1>6, <2>1 DEF OnlineOK, RefreshFill
  <2>3. values' = values
    BY <1>6 DEF RefreshFill, rows
  <2>4. QED
    BY <2>1, <2>2, <2>3 DEF Put
<1>7. CASE InvalidateScan \/ InvalidateFails \/ InvalidateDelete
  <2>1. \A s \in Slots : online'[s] \in {online[s], NoVector}
    BY <1>3, <1>7 DEF OnlineOK, InvalidateScan, InvalidateFails, InvalidateDelete
  <2>2. values' = values
    BY <1>7 DEF InvalidateScan, InvalidateFails, InvalidateDelete, rows
  <2>3. QED
    BY <2>1, <2>2 DEF Put
<1>8. CASE DiscoverProcess
  <2>1. values \in Stored /\ Older(values)
    BY Parts, KnownSnaps DEF TablesOK
  <2>2. \A s \in Slots : online'[s] = online[s] \/ online'[s] = VectorOf(values, s[2])
    BY <1>3, <1>8, DiscoveredVectors DEF OnlineOK
  <2>3. values' = values
    BY <1>8 DEF DiscoverProcess, rows
  <2>4. QED
    BY <2>1, <2>2, <2>3 DEF Put
<1>9. ASSUME RefreshCall \/ RefreshLoad \/ DiscoverRead \/ DiscoverCommit \/ DiscoverFail
      PROVE  online' = online
  BY <1>9 DEF RefreshCall, RefreshLoad, DiscoverRead, DiscoverCommit, DiscoverFail
<1>10. ASSUME Dispatch \/ Archive \/ Restart \/ BusStep PROVE online' = online
  BY <1>10 DEF Dispatch, Archive, Restart, BusStep
<1>11. ASSUME UNCHANGED vars PROVE online' = online
  BY <1>11 DEF vars
<1>12. CASE StoreStep
  BY <1>5, <1>6, <1>7, <1>9, <1>12 DEF StoreStep
<1>13. CASE DiscoverStep
  BY <1>8, <1>9, <1>13 DEF DiscoverStep
<1>14. CASE \E t \in tasks : TaskStep(t)
  BY <1>2, <1>4, <1>14
<1>15. QED
  BY <1>1, <1>10, <1>11, <1>12, <1>13, <1>14 DEF Next

(* What is put online is what the tables hold, as far as it goes *)
LEMMA PutAgrees ==
    ASSUME TypeInv, NEW s \in Slots, Put(s), online'[s] \notin {online[s], NoVector, ClientVector}
    PROVE  \A f \in Features : online'[s][f] \in {None, values[<<f, s[2]>>]}
<1>1. PICK snap \in Stored : Older(snap) /\ online'[s] = VectorOf(snap, s[2])
  BY DEF Put
<1>2. s[2] \in Entities
  BY DEF Slots
<1>3. ASSUME NEW f \in Features PROVE online'[s][f] \in {None, values[<<f, s[2]>>]}
  <2>1. VectorOf(snap, s[2])[f] = snap[<<f, s[2]>>] /\ <<f, s[2]>> \in Cells
    BY <1>2, VectorType
  <2>2. snap[<<f, s[2]>>] \in {None, values[<<f, s[2]>>]}
    BY <1>1, <2>1 DEF Older
  <2>3. QED
    BY <1>1, <2>1, <2>2
<1>4. QED
  BY <1>3

LEMMA AgreementStep ==
    ASSUME TypeInv, Agreement, [Next]_vars
    PROVE  Agreement'
<1>1. \A snap : Older(snap) => \A c \in Cells : snap[c] \in {None, values'[c]}
  BY ValuesGrow DEF Older
<1>2. SnapsOlder'
  <2>1. ASSUME NEW t \in tasks' PROVE \A c \in Cells : t.snap[c] \in {None, values'[c]}
    BY <1>1, <2>1, SnapStep, KnownSnaps DEF Agreement, SnapsOlder
  <2>2. \A c \in Cells : reader'.snap[c] \in {None, values'[c]}
    BY <1>1, SnapStep, KnownSnaps DEF Agreement, SnapsOlder
  <2>3. QED
    BY <2>1, <2>2 DEF SnapsOlder, Older
<1>3. ASSUME NEW s \in Slots, online'[s] \in Vectors, NEW f \in Features
      PROVE  online'[s][f] \in {None, values'[f, s[2]]}
  <2>1. <<f, s[2]>> \in Cells
    BY DEF Slots, Cells
  <2>2. online'[s] \notin {NoVector, ClientVector}
    BY <1>3, PipelineAssumption DEF Vectors
  <2>3. CASE online'[s] = online[s]
    <3>1. online[s][f] \in {None, values[<<f, s[2]>>]}
      BY <1>3, <2>3 DEF Agreement, OnlineAgreesWithOffline
    <3>2. QED
      BY <2>1, <2>3, <3>1, ValuesGrow
  <2>4. CASE online'[s] # online[s]
    <3>1. Put(s) /\ values' = values
      BY <2>4, OnlineStep DEF Agreement
    <3>2. QED
      BY <2>2, <2>4, <3>1, PutAgrees
  <2>5. QED
    BY <2>3, <2>4
<1>4. QED
  BY <1>2, <1>3 DEF Agreement, OnlineAgreesWithOffline

LEMMA InitAgrees == Init => Agreement
<1> SUFFICES ASSUME Init PROVE Agreement
  OBVIOUS
<1>1. NoVector \notin Vectors
  BY PipelineAssumption DEF Vectors
<1>2. OnlineAgreesWithOffline
  BY <1>1 DEF Init, OnlineAgreesWithOffline
<1>3. SnapsOlder
  BY DEF Init, SnapsOlder, Older, NoReader, NoSnap
<1>4. QED
  BY <1>2, <1>3 DEF Agreement

(* A vector of the platform in Redis never shows a value the tables do not *)
(* hold, however stale the SELECT, the reader or the worker that wrote it. *)
THEOREM OnlineNeverLies == Spec => []OnlineAgreesWithOffline
<1>1. Spec => [](TypeInv /\ Agreement)
  <2>1. Init => TypeInv /\ Agreement
    BY InitType, InitAgrees
  <2>2. TypeInv /\ Agreement /\ [Next]_vars => (TypeInv /\ Agreement)'
    BY StepType, AgreementStep
  <2>3. QED
    BY <2>1, <2>2, PTL DEF Spec
<1>2. Agreement => OnlineAgreesWithOffline
  BY DEF Agreement
<1>3. QED
  BY <1>1, <1>2, PTL

-----------------------------------------------------------------------------
(* Refinement of the abstract feature store *)

LEMMA InitRefines == Init => Abstract!Init
  BY DEF Init, Abstract!Init, NoSnap, Cells, Slots

LEMMA CommitRefines ==
    ASSUME TypeInv, [Next]_vars, values' # values
    PROVE  Abstract!Commit
<1>1. PICK t \in tasks : MaterializeCommit(t)
  BY ValuesStep
<1>2. online' = online
  BY <1>1 DEF MaterializeCommit
<1>3. DOMAIN values' = Features \X Entities
  BY ValuesGrow DEF Stored, Cells
<1>4. \A c \in Features \X Entities :
         values'[c] \in IF values[c] = None THEN Files \cup {None} ELSE {values[c]}
  BY ValuesGrow DEF Cells
<1>5. QED
  BY <1>2, <1>3, <1>4 DEF Abstract!Commit

LEMMA ServeRefines ==
    ASSUME TypeInv, TypeInv', Agreement, [Next]_vars, online' # online
    PROVE  Abstract!Serve
<1>1. (\A s \in Slots : Put(s)) /\ values' = values
  BY OnlineStep DEF Agreement
<1>2. DOMAIN online' = Keys \X Entities
  BY PartsNext DEF OnlineOK, Slots
<1>3. ASSUME NEW s \in Slots PROVE Abstract!Served(s)
  BY <1>1, PutAgrees DEF Abstract!Served
<1>4. QED
  BY <1>1, <1>2, <1>3 DEF Abstract!Serve, Slots

(* The tables and Redis implement the abstract feature store: a value once *)
(* materialized never changes, and what is put online is one of the values *)
(* the tables hold.                                                        *)
THEOREM StoreRefinement == Spec => ImplementsFeatureStore
<1>1. Init => Abstract!Init
  BY InitRefines
<1>2. TypeInv /\ TypeInv' /\ Agreement /\ [Next]_vars => [Abstract!Next]_(Abstract!storeVars)
  BY CommitRefines, ServeRefines DEF Abstract!Next, Abstract!storeVars
<1>3. Spec => [](TypeInv /\ Agreement)
  BY InitType, InitAgrees, StepType, AgreementStep, PTL DEF Spec
<1>4. QED
  BY <1>1, <1>2, <1>3, PTL DEF Spec, ImplementsFeatureStore, Abstract!Spec

(* What has been computed for a feature of an entity *)
ValuesStay == [][\A c \in Cells : values[c] # None => values'[c] = values[c]]_values

(* The promise of the store, carried over: whoever materializes, archives, *)
(* discovers or restarts, a feature value that is committed is never       *)
(* computed anew nor taken back (features/materializer.py).                *)
THEOREM StoredValuesStay == Spec => ValuesStay
<1>1. [Abstract!Next]_(Abstract!storeVars)
      => [\A c \in Cells : values[c] # None => values'[c] = values[c]]_values
  BY DEF Abstract!Next, Abstract!Commit, Abstract!Serve, Abstract!storeVars, Cells
<1>2. Abstract!Spec => ValuesStay
  BY <1>1, PTL DEF Abstract!Spec, ValuesStay
<1>3. QED
  BY <1>2, StoreRefinement DEF ImplementsFeatureStore

-----------------------------------------------------------------------------
(* Tables: versions, feature values and events *)

(* A version of a content that had none *)
Appends(v) ==
    /\ v \in Versions /\ ~v.mat
    /\ v.file \notin FilesKnown
    /\ versions' = Append(versions, v)
    /\ UNCHANGED <<values, fitted>>

(* A materialization that commits *)
Inserts(t) == MaterializeCommit(t) /\ Insertable(t) /\ UNCHANGED features

TablesKeep == UNCHANGED <<versions, values, fitted>>

LEMMA UploadTables ==
    ASSUME TypeInv, NEW u \in Jobs, UploadRead(u) \/ UploadStep(u)
    PROVE  features' = features /\ (TablesKeep \/ \E v : Appends(v))
<1>1. CASE UploadCommit(u)
  <2>1. upload[u].file \in Files
    BY <1>1, Parts DEF UploadOK, UploadCommit
  <2>2. [file |-> upload[u].file, raw |-> TRUE, mat |-> FALSE] \in Versions
    BY <2>1 DEF Versions
  <2>3. \/ UNCHANGED <<versions, features, values, fitted>>
        \/ /\ upload[u].file \notin FilesKnown
           /\ versions' = Append(versions, [file |-> upload[u].file, raw |-> TRUE, mat |-> FALSE])
           /\ UNCHANGED <<features, values, fitted>>
    BY <1>1 DEF UploadCommit, rows
  <2>4. QED
    BY <2>2, <2>3 DEF Appends, TablesKeep
<1>2. CASE ~UploadCommit(u)
  BY <1>2 DEF UploadRead, UploadStep, UploadConflict, UploadPublish, rows, TablesKeep
<1>3. QED
  BY <1>1, <1>2

LEMMA TaskTables ==
    ASSUME TypeInv, NEW t \in tasks, TaskStep(t)
    PROVE  features \subseteq features' /\ (TablesKeep \/ Inserts(t))
<1>1. CASE MaterializeCommit(t)
  BY <1>1 DEF MaterializeCommit, Inserts, TablesKeep
<1>2. CASE RegisterCommit(t)
  BY <1>2 DEF RegisterCommit, TablesKeep
<1>3. CASE ~MaterializeCommit(t) /\ ~RegisterCommit(t)
  BY <1>3 DEF TaskStep, ValidateRead, ValidateCreate, ValidateFlush, ValidatePublish, RegisterRead,
     RegisterPublish, MaterializeRead, MaterializePublish, JobFailed, ReadyPublish, SyncRead, SyncWrite, SyncPublish,
     Announces, rows, TablesKeep
<1>4. QED
  BY <1>1, <1>2, <1>3

LEMMA DiscoveryTables ==
    ASSUME TypeInv, DiscoverStep
    PROVE  features \subseteq features' /\ (TablesKeep \/ \E v : Appends(v))
<1>1. CASE DiscoverCommit
  <2>1. disc.file \in Files /\ (disc.fresh => disc.file \notin FilesKnown)
    BY <1>1, Parts DEF DiscOK, DiscoverCommit, DiscoverConflict
  <2>2. [file |-> disc.file, raw |-> FALSE, mat |-> FALSE] \in Versions
    BY <2>1 DEF Versions
  <2>3. /\ versions' = IF disc.fresh
                       THEN Append(versions, [file |-> disc.file, raw |-> FALSE, mat |-> FALSE])
                       ELSE versions
        /\ features \subseteq features'
        /\ UNCHANGED <<values, fitted>>
    BY <1>1 DEF DiscoverCommit
  <2>4. QED
    BY <2>1, <2>2, <2>3 DEF Appends, TablesKeep
<1>2. CASE ~DiscoverCommit
  BY <1>2 DEF DiscoverStep, DiscoverRead, DiscoverProcess, DiscoverFail, rows, TablesKeep
<1>3. QED
  BY <1>1, <1>2

(* What a step may do to the tables *)
LEMMA TablesStep ==
    ASSUME TypeInv, [Next]_vars
    PROVE  /\ features \subseteq features'
           /\ TablesKeep \/ (\E v : Appends(v)) \/ (\E t \in tasks : Inserts(t))
<1>1. CASE StoreStep
  BY <1>1 DEF StoreStep, StoreVector, DropVector, RefreshCall, RefreshLoad, RefreshFill,
     InvalidateScan, InvalidateFails, InvalidateDelete, rows, TablesKeep
<1>2. CASE Dispatch \/ Archive \/ Restart \/ BusStep
  BY <1>2 DEF Dispatch, Archive, Restart, BusStep, rows, TablesKeep
<1>3. CASE UNCHANGED vars
  BY <1>3 DEF vars, rows, TablesKeep
<1>4. QED
  BY <1>1, <1>2, <1>3, UploadTables, TaskTables, DiscoveryTables DEF Next

LEMMA VersionsAreKnown ==
    ASSUME TypeInv
    PROVE  /\ Len(versions) \in Nat /\ DOMAIN versions = 1 .. Len(versions)
           /\ \A i \in DOMAIN versions : versions[i] \in Versions /\ versions[i].file \in FilesKnown
<1>1. versions \in Seq(Versions)
  BY Parts DEF TablesOK
<1>2. Len(versions) \in Nat /\ DOMAIN versions = 1 .. Len(versions)
  BY <1>1, LenProperties
<1>3. \A i \in DOMAIN versions : versions[i] \in Versions
  BY <1>1, <1>2, ElementOfSeq
<1>4. QED
  BY <1>2, <1>3 DEF FilesKnown

LEMMA AppendedVersion ==
    ASSUME TypeInv, NEW v, Appends(v)
    PROVE  /\ DOMAIN versions' = DOMAIN versions \cup {Len(versions) + 1}
           /\ \A i \in DOMAIN versions : versions'[i] = versions[i]
           /\ versions'[Len(versions) + 1] = v
<1>1. versions \in Seq(Versions) /\ v \in Versions /\ versions' = Append(versions, v)
  BY Parts DEF TablesOK, Appends
<1>2. /\ Len(versions') = Len(versions) + 1
      /\ \A i \in 1 .. Len(versions) : versions'[i] = versions[i]
      /\ versions'[Len(versions) + 1] = v
      /\ versions' \in Seq(Versions)
  BY <1>1, AppendProperties
<1>3. DOMAIN versions' = 1 .. Len(versions) + 1
  BY <1>2, LenProperties
<1>4. QED
  BY <1>2, <1>3, VersionsAreKnown

(* A commit of feature values marks versions and changes no content *)
LEMMA MarkedVersions ==
    ASSUME TypeInv, NEW t \in tasks, Inserts(t)
    PROVE  /\ DOMAIN versions' = DOMAIN versions
           /\ \A i \in DOMAIN versions :
                 /\ versions'[i].file = versions[i].file
                 /\ versions'[i].raw = versions[i].raw
                 /\ versions'[i].mat <=> versions[i].mat \/ versions[i].file = t.file
<1>1. versions' = [i \in DOMAIN versions |->
          [versions[i] EXCEPT !.mat = @ \/ versions[i].file = t.file]]
  BY DEF Inserts, MaterializeCommit
<1>2. ASSUME NEW i \in DOMAIN versions
      PROVE  /\ versions'[i].file = versions[i].file
             /\ versions'[i].raw = versions[i].raw
             /\ versions'[i].mat <=> versions[i].mat \/ versions[i].file = t.file
  <2>1. versions[i] \in Versions
    BY VersionsAreKnown
  <2>2. versions'[i] = [versions[i] EXCEPT !.mat = @ \/ versions[i].file = t.file]
    BY <1>1
  <2> DEFINE marked == versions[i].mat \/ versions[i].file = t.file
  <2>3. versions'[i] = [versions[i] EXCEPT !.mat = marked]
    BY <2>2
  <2> HIDE DEF marked
  <2>4. /\ versions'[i].file = versions[i].file /\ versions'[i].raw = versions[i].raw
        /\ versions'[i].mat = marked
    BY <2>1, <2>3 DEF Versions
  <2>5. QED
    BY <2>4 DEF marked
<1>3. QED
  BY <1>1, <1>2

-----------------------------------------------------------------------------
(* One version per content *)

LEMMA OneVersionStep ==
    ASSUME TypeInv, OneVersionPerContent, [Next]_vars
    PROVE  OneVersionPerContent'
<1>1. CASE TablesKeep
  BY <1>1 DEF OneVersionPerContent, TablesKeep
<1>2. ASSUME NEW v, Appends(v) PROVE OneVersionPerContent'
  <2>1. \A i \in DOMAIN versions : versions[i].file # v.file
    BY <1>2, VersionsAreKnown DEF Appends
  <2>2. QED
    BY <1>2, <2>1, AppendedVersion DEF OneVersionPerContent
<1>3. ASSUME NEW t \in tasks, Inserts(t) PROVE OneVersionPerContent'
  BY <1>3, MarkedVersions DEF OneVersionPerContent
<1>4. QED
  BY <1>1, <1>2, <1>3, TablesStep

(* However uploads and the discovery race, and whatever each of them has   *)
(* seen of the table before, a content never gets a second version.        *)
THEOREM ContentsHaveOneVersion == Spec => []OneVersionPerContent
<1>1. Init => OneVersionPerContent
  BY DEF Init, OneVersionPerContent
<1>2. Init => TypeInv
  BY InitType
<1>3. TypeInv /\ OneVersionPerContent /\ [Next]_vars => (TypeInv /\ OneVersionPerContent)'
  BY StepType, OneVersionStep
<1>4. QED
  BY <1>1, <1>2, <1>3, PTL DEF Spec

-----------------------------------------------------------------------------
(* Materializations are whole *)

(* A materialization under way has a version and registered features *)
Pending ==
    \A t \in tasks : At(t, "materialize", "insert") =>
        t.file \in FilesKnown /\ t.feats \subseteq features /\ t.feats # {}

(* A value comes from a version *)
Sourced == \A c \in Cells : values[c] # None => values[c] \in FilesKnown

Whole(v) ==
    IF v.mat THEN \E fs \in (SUBSET features) \ {{}} : CellsOf(v.file) = fs \X Rows[v.file]
    ELSE CellsOf(v.file) = {}

FitSourced ==
    \A f \in Features : fitted[f] # None =>
        \E i \in DOMAIN versions : versions[i].mat /\ versions[i].file = fitted[f]

WholeInv == /\ \A i \in DOMAIN versions : Whole(versions[i])
            /\ FitSourced
            /\ Sourced
            /\ Pending

LEMMA KnownFilesGrow == ASSUME TypeInv, [Next]_vars PROVE FilesKnown \subseteq FilesKnown'
<1>1. CASE TablesKeep
  BY <1>1 DEF TablesKeep, FilesKnown
<1>2. ASSUME NEW v, Appends(v) PROVE FilesKnown \subseteq FilesKnown'
  BY <1>2, AppendedVersion DEF FilesKnown
<1>3. ASSUME NEW t \in tasks, Inserts(t) PROVE FilesKnown \subseteq FilesKnown'
  BY <1>3, MarkedVersions DEF FilesKnown
<1>4. QED
  BY <1>1, <1>2, <1>3, TablesStep

(* A task that is about to insert was so before, or has just read *)
Reads(t) == HasRaw /\ features # {} /\ t.file = Latest.file /\ t.feats = features

LEMMA InsertingTasks ==
    ASSUME TypeInv, [Next]_vars
    PROVE  \A t \in tasks' : At(t, "materialize", "insert") => t \in tasks \/ Reads(t)
<1> DEFINE Fine == \A q \in tasks' : At(q, "materialize", "insert") => q \in tasks \/ Reads(q)
<1>1. ASSUME NEW u \in Jobs, UploadRead(u) \/ UploadStep(u) PROVE Fine
  BY <1>1 DEF UploadRead, UploadStep, UploadCommit, UploadConflict, UploadPublish
<1>2. ASSUME NEW t \in tasks, TaskStep(t) PROVE Fine
  <2>1. t \in Tasks
    BY JobOfTask
  <2>2. ASSUME NEW next, Becomes(t, next), At(next, "materialize", "insert") => Reads(next)
        PROVE  Fine
    BY <2>2 DEF Becomes
  <2>3. ASSUME NEW step, Goes(t, step), step # "insert" PROVE Fine
    <3>1. [t EXCEPT !.step = step].step = step
      BY <2>1 DEF Tasks
    <3>2. QED
      BY <2>2, <2>3, <3>1 DEF Goes, At
  <2>4. CASE Ends(t)
    BY <2>4 DEF Ends
  <2>5. CASE ValidateRead(t)
    <3>1. \A file, step : [t EXCEPT !.file = file, !.step = step].stage = t.stage
      BY <2>1 DEF Tasks
    <3>2. QED
      BY <2>2, <2>4, <2>5, <3>1 DEF ValidateRead, At
  <2>v. CASE ValidateCreate(t) \/ ValidateFlush(t)
    BY <2>3, <2>4, <2>v, Inferring
  <2>6. CASE RegisterRead(t)
    <3>1. [t EXCEPT !.file = Latest.file, !.feats = features, !.step = "insert"].stage = t.stage
      BY <2>1 DEF Tasks
    <3>2. QED
      BY <2>2, <2>4, <2>6, <3>1 DEF RegisterRead, At
  <2>7. CASE MaterializeRead(t)
    <3>1. /\ [t EXCEPT !.file = Latest.file, !.feats = features, !.step = "insert"].file = Latest.file
          /\ [t EXCEPT !.file = Latest.file, !.feats = features, !.step = "insert"].feats = features
      BY <2>1 DEF Tasks
    <3>2. QED
      BY <2>2, <2>4, <2>7, <3>1 DEF MaterializeRead, Reads
  <2>8. CASE RegisterCommit(t) \/ MaterializeCommit(t) \/ MaterializePublish(t) \/ SyncPublish(t)
    BY <2>3, <2>4, <2>8 DEF RegisterCommit, MaterializeCommit, MaterializePublish, SyncPublish
  <2>9. CASE ValidatePublish(t) \/ RegisterPublish(t) \/ JobFailed(t) \/ ReadyPublish(t)
    BY <2>4, <2>9 DEF ValidatePublish, RegisterPublish, JobFailed, ReadyPublish, Announces
  <2>10. CASE SyncRead(t)
    <3>1. \A todo : [t EXCEPT !.step = "write", !.snap = values, !.todo = todo].step = "write"
      BY <2>1 DEF Tasks
    <3>2. QED
      BY <2>2, <2>4, <2>10, <3>1 DEF SyncRead, At
  <2>11. CASE SyncWrite(t)
    <3>1. PICK e \in t.todo : Becomes(t, [t EXCEPT !.todo = @ \ {e}])
      BY <2>11 DEF SyncWrite
    <3>2. [t EXCEPT !.todo = @ \ {e}].step = t.step /\ t.step = "write"
      BY <2>1, <2>11 DEF Tasks, SyncWrite, At
    <3>3. QED
      BY <2>2, <3>1, <3>2 DEF At
  <2>12. QED
    BY <1>2, <2>5, <2>v, <2>6, <2>7, <2>8, <2>9, <2>10, <2>11 DEF TaskStep
<1>3. CASE StoreStep
  BY <1>3 DEF StoreStep, StoreVector, DropVector, RefreshCall, RefreshLoad, RefreshFill,
     InvalidateScan, InvalidateFails, InvalidateDelete
<1>4. CASE DiscoverStep
  BY <1>4 DEF DiscoverStep, DiscoverRead, DiscoverProcess, DiscoverCommit, DiscoverFail
<1>5. CASE Dispatch
  BY <1>5 DEF Dispatch, Task, At
<1>6. CASE Archive \/ Restart \/ BusStep
  BY <1>6 DEF Archive, Restart, BusStep
<1>7. CASE UNCHANGED vars
  BY <1>7 DEF vars
<1>8. QED
  BY <1>1, <1>2, <1>3, <1>4, <1>5, <1>6, <1>7 DEF Next

LEMMA PendingStep == ASSUME TypeInv, Pending, [Next]_vars PROVE Pending'
<1>1. features \subseteq features' /\ FilesKnown \subseteq FilesKnown'
  BY TablesStep, KnownFilesGrow
<1>2. HasRaw => Latest.file \in FilesKnown
  <2>1. HasRaw => Len(versions) \in DOMAIN versions
    <3>1. versions \in Seq(Versions)
      BY Parts DEF TablesOK
    <3>2. versions # << >> => Len(versions) # 0
      BY <3>1, EmptySeq
    <3>3. QED
      BY <3>2, VersionsAreKnown DEF HasRaw
  <2>2. QED
    BY <2>1, VersionsAreKnown DEF Latest
<1>3. ASSUME NEW t \in tasks', At(t, "materialize", "insert")
      PROVE  t.file \in FilesKnown' /\ t.feats \subseteq features' /\ t.feats # {}
  BY <1>1, <1>2, <1>3, InsertingTasks DEF Pending, Reads
<1>4. QED
  BY <1>3 DEF Pending, At

(* A commit of feature values fills cells that were empty *)
LEMMA InsertedCells ==
    ASSUME TypeInv, WholeInv, NEW t \in tasks, Inserts(t)
    PROVE  /\ t.file \in FilesKnown /\ t.file # None
           /\ t.feats \in (SUBSET features) \ {{}}
           /\ Cell(t) \subseteq Cells
           /\ \A c \in Cells : values'[c] = IF c \in Cell(t) THEN t.file ELSE values[c]
           /\ \A c \in Cell(t) : values[c] = None
           /\ \A f \in Features : fitted'[f] \in {fitted[f], t.file}
           /\ features' = features
<1>1. /\ At(t, "materialize", "insert")
      /\ values' = [c \in Cells |-> IF c \in Cell(t) THEN t.file ELSE values[c]]
      /\ fitted' = [f \in Features |-> IF f \in t.feats THEN t.file ELSE fitted[f]]
      /\ \A c \in Cell(t) : values[c] = None
      /\ features' = features
  BY DEF Inserts, MaterializeCommit, Insertable
<1>2. t.file \in Files /\ t.file # None
  BY <1>1, Parts, PipelineAssumption DEF TasksOK, At
<1>3. t.file \in FilesKnown /\ t.feats \in (SUBSET features) \ {{}}
  BY <1>1 DEF WholeInv, Pending
<1>4. Cell(t) \subseteq Cells
  <2>1. Rows[t.file] \subseteq Entities /\ features \subseteq Features
    BY <1>2, PipelineAssumption, Parts DEF TablesOK
  <2>2. QED
    BY <1>3, <2>1 DEF Cell, Cells
<1>5. QED
  BY <1>1, <1>2, <1>3, <1>4

LEMMA WholeAfterInsert ==
    ASSUME TypeInv, WholeInv, NEW t \in tasks, Inserts(t)
    PROVE  (\A i \in DOMAIN versions : Whole(versions[i]))' /\ FitSourced' /\ Sourced'
<1>1. CellsOf(t.file)' = CellsOf(t.file) \cup Cell(t)
  BY InsertedCells DEF CellsOf
<1>2. ASSUME NEW f, f # t.file, f # None PROVE CellsOf(f)' = CellsOf(f)
  BY <1>2, InsertedCells DEF CellsOf
<1>3. ASSUME NEW i \in DOMAIN versions PROVE Whole(versions[i])'
  <2>1. /\ Whole(versions[i])
        /\ versions'[i].file = versions[i].file
        /\ versions'[i].mat <=> versions[i].mat \/ versions[i].file = t.file
    BY MarkedVersions DEF WholeInv
  <2>2. versions[i].file # None
    BY VersionsAreKnown, PipelineAssumption DEF Versions
  <2>3. CASE versions[i].file # t.file
    <3>1. CellsOf(versions[i].file)' = CellsOf(versions[i].file)
      BY <1>2, <2>1, <2>2, <2>3 DEF CellsOf
    <3>2. QED
      BY <2>1, <2>3, <3>1, InsertedCells DEF Whole
  <2>4. CASE versions[i].file = t.file
    <3>1. PICK fs \in SUBSET features : CellsOf(t.file) = fs \X Rows[t.file]
      <4>1. {} \X Rows[t.file] = {}
        OBVIOUS
      <4>2. QED
        BY <2>1, <2>4, <4>1 DEF Whole
    <3>2. CellsOf(t.file)' = (fs \cup t.feats) \X Rows[t.file]
      BY <1>1, <3>1 DEF Cell
    <3>3. fs \cup t.feats \in (SUBSET features) \ {{}}
      BY <3>1, InsertedCells
    <3>4. CellsOf(versions[i].file)' = CellsOf(t.file)'
      BY <2>1, <2>4 DEF CellsOf
    <3>5. QED
      BY <2>1, <2>4, <3>2, <3>3, <3>4, InsertedCells DEF Whole
  <2>5. QED
    BY <2>3, <2>4
<1>4. FitSourced'
  <2>1. PICK j \in DOMAIN versions : versions[j].file = t.file
    BY InsertedCells DEF FilesKnown
  <2>2. QED
    BY <2>1, InsertedCells, MarkedVersions DEF WholeInv, FitSourced
<1>5. Sourced'
  BY InsertedCells, KnownFilesGrow, MarkedVersions DEF WholeInv, Sourced, FilesKnown
<1>6. QED
  BY <1>3, <1>4, <1>5, MarkedVersions

LEMMA WholeAfterAppend ==
    ASSUME TypeInv, WholeInv, features \subseteq features', NEW v, Appends(v)
    PROVE  (\A i \in DOMAIN versions : Whole(versions[i]))' /\ FitSourced' /\ Sourced'
<1>1. values' = values /\ fitted' = fitted /\ v.file \notin FilesKnown /\ ~v.mat /\ v \in Versions
  BY DEF Appends
<1>2. CellsOf(v.file) = {}
  <2>1. v.file # None
    BY <1>1, PipelineAssumption DEF Versions
  <2>2. QED
    BY <1>1, <2>1 DEF WholeInv, Sourced, CellsOf
<1>3. ASSUME NEW i \in DOMAIN versions' PROVE Whole(versions[i])'
  <2>1. CASE i \in DOMAIN versions
    <3>1. versions'[i] = versions[i] /\ Whole(versions[i])
      BY <2>1, AppendedVersion DEF WholeInv
    <3>2. CellsOf(versions[i].file)' = CellsOf(versions[i].file)
      BY <1>1, <3>1 DEF CellsOf
    <3>3. QED
      BY <3>1, <3>2 DEF Whole
  <2>2. CASE i \notin DOMAIN versions
    <3>1. versions'[i] = v
      BY <1>3, <2>2, AppendedVersion
    <3>2. CellsOf(versions[i].file)' = CellsOf(v.file)
      BY <1>1, <3>1 DEF CellsOf
    <3>3. QED
      BY <1>1, <1>2, <3>1, <3>2 DEF Whole
  <2>3. QED
    BY <2>1, <2>2
<1>4. FitSourced'
  BY <1>1, AppendedVersion DEF WholeInv, FitSourced
<1>5. Sourced'
  BY <1>1, AppendedVersion DEF WholeInv, Sourced, FilesKnown
<1>6. QED
  BY <1>3, <1>4, <1>5

LEMMA WholeKept ==
    ASSUME WholeInv, features \subseteq features', TablesKeep
    PROVE  (\A i \in DOMAIN versions : Whole(versions[i]))' /\ FitSourced' /\ Sourced'
<1>1. versions' = versions /\ values' = values /\ fitted' = fitted
  BY DEF TablesKeep
<1>2. ASSUME NEW i \in DOMAIN versions PROVE Whole(versions[i])'
  <2>1. CellsOf(versions[i].file)' = CellsOf(versions[i].file)
    BY <1>1 DEF CellsOf
  <2>2. QED
    BY <1>1, <2>1 DEF WholeInv, Whole
<1>3. QED
  BY <1>1, <1>2 DEF WholeInv, FitSourced, Sourced, FilesKnown

LEMMA WholeStep == ASSUME TypeInv, WholeInv, [Next]_vars PROVE WholeInv'
<1>1. features \subseteq features'
  BY TablesStep
<1>2. (\A i \in DOMAIN versions : Whole(versions[i]))' /\ FitSourced' /\ Sourced'
  BY <1>1, TablesStep, WholeKept, WholeAfterAppend, WholeAfterInsert
<1>3. Pending'
  BY PendingStep DEF WholeInv
<1>4. QED
  BY <1>2, <1>3 DEF WholeInv

LEMMA WholeInit == Init => WholeInv
  BY DEF Init, WholeInv, FitSourced, Sourced, Pending, NoSnap

(* The values of a version, its fitted states and its parquet are there as *)
(* a whole or not at all, however materializations race and fail.          *)
THEOREM MaterializationsAreWhole == Spec => []MaterializedWhole
<1>1. TypeInv /\ WholeInv /\ [Next]_vars => (TypeInv /\ WholeInv)'
  BY StepType, WholeStep
<1>2. Init => TypeInv /\ WholeInv
  BY InitType, WholeInit
<1>3. WholeInv => MaterializedWhole
  BY DEF WholeInv, Whole, FitSourced, MaterializedWhole
<1>4. QED
  BY <1>1, <1>2, <1>3, PTL DEF Spec

-----------------------------------------------------------------------------
(* Events follow commits *)

RawFiles == {versions[i].file : i \in {j \in DOMAIN versions : versions[j].raw}}

Registered == \E f \in FilesKnown : Columns[f] \subseteq features
Materialized == \E i \in DOMAIN versions : versions[i].raw /\ versions[i].mat
HasValues == values # NoSnap

(* What the tables hold when an event of a kind is published *)
Backed(kind) ==
    /\ kind = "REGISTERED" => Registered
    /\ kind \in {"MATERIALIZED", "VALUES_CREATED", "READY"} => Materialized
    /\ kind = "SYNCED" => HasValues

(* What they hold while a task is at its place *)
TaskBacked(t) ==
    /\ At(t, "register", "insert") => t.file \in FilesKnown /\ t.feats \subseteq features
    /\ At(t, "register", "publish") => Registered
    /\ At(t, "materialize", "insert") => t.file \in RawFiles
    /\ t.stage = "materialize" /\ t.step \in {"publish", "announce"} => Materialized
    /\ t.stage = "ready" => Materialized
    /\ At(t, "sync", "write") => HasValues

(* An event on the wire has been published *)
Carried == \A i \in DOMAIN wire : wire[i] \in log

EventInv ==
    /\ \A e \in log : Backed(e.kind)
    /\ \A t \in tasks : TaskBacked(t)
    /\ Carried

(* The tables never lose what an event or a task relies on *)
LEMMA FactsLast ==
    ASSUME TypeInv, [Next]_vars
    PROVE  /\ features \subseteq features' /\ FilesKnown \subseteq FilesKnown'
           /\ RawFiles \subseteq RawFiles'
           /\ Registered => Registered'
           /\ Materialized => Materialized'
           /\ HasValues => HasValues'
<1>1. features \subseteq features' /\ FilesKnown \subseteq FilesKnown'
  BY TablesStep, KnownFilesGrow
<1>2. RawFiles \subseteq RawFiles' /\ (Materialized => Materialized')
  <2>1. CASE TablesKeep
    BY <2>1 DEF TablesKeep, RawFiles, Materialized
  <2>2. ASSUME NEW v, Appends(v) PROVE RawFiles \subseteq RawFiles' /\ (Materialized => Materialized')
    BY <2>2, AppendedVersion DEF RawFiles, Materialized
  <2>3. ASSUME NEW t \in tasks, Inserts(t)
        PROVE  RawFiles \subseteq RawFiles' /\ (Materialized => Materialized')
    BY <2>3, MarkedVersions DEF RawFiles, Materialized
  <2>4. QED
    BY <2>1, <2>2, <2>3, TablesStep
<1>3. Registered => Registered'
  BY <1>1 DEF Registered
<1>4. HasValues => HasValues'
  <2>1. ASSUME HasValues PROVE \E c \in Cells : values[c] # None
    BY <2>1, Parts DEF HasValues, NoSnap, TablesOK, Stored
  <2>2. ASSUME NEW c \in Cells, values[c] # None PROVE values'[c] # None
    BY <2>2, ValuesGrow
  <2>3. QED
    BY <2>1, <2>2 DEF HasValues, NoSnap
<1>5. QED
  BY <1>1, <1>2, <1>3, <1>4

LEMMA BackedLasts ==
    ASSUME TypeInv, [Next]_vars
    PROVE  /\ \A kind : Backed(kind) => Backed(kind)'
           /\ \A t : TaskBacked(t) => TaskBacked(t)'
  BY FactsLast DEF Backed, TaskBacked, At

LEMMA LatestIsKnown ==
    ASSUME TypeInv, HasRaw PROVE Latest.file \in FilesKnown /\ Latest.file \in RawFiles
<1>1. versions \in Seq(Versions) /\ versions # << >>
  BY Parts DEF TablesOK, HasRaw
<1>2. Len(versions) \in DOMAIN versions
  BY <1>1, EmptySeq, VersionsAreKnown
<1>3. QED
  BY <1>2, VersionsAreKnown DEF HasRaw, Latest, RawFiles

(* A task leaves its place with what the next one relies on *)
LEMMA TaskMovesBacked ==
    ASSUME TypeInv, [Next]_vars, NEW t \in tasks, TaskBacked(t), TaskStep(t)
    PROVE  \A q \in tasks' : q \in tasks \/ TaskBacked(q)'
<1> DEFINE Fine == \A q \in tasks' : q \in tasks \/ TaskBacked(q)'
<1>1. t \in Tasks
  BY JobOfTask
<1>2. ASSUME NEW next, Becomes(t, next), TaskBacked(next)' PROVE Fine
  BY <1>2 DEF Becomes
<1>3. ASSUME Ends(t) PROVE Fine
  BY <1>3 DEF Ends
<1>4. ASSUME NEW step, Goes(t, step), step \notin {"insert", "write"},
             step = "publish" /\ t.stage = "register" => Registered',
             step \in {"publish", "announce"} /\ t.stage = "materialize" => Materialized',
             t.stage # "ready"
      PROVE  Fine
  <2>1. [t EXCEPT !.step = step].step = step /\ [t EXCEPT !.step = step].stage = t.stage
    BY <1>1 DEF Tasks
  <2>2. TaskBacked([t EXCEPT !.step = step])'
    BY <1>4, <2>1 DEF TaskBacked, At
  <2>3. QED
    BY <1>2, <1>4, <2>2 DEF Goes
<1>5. CASE ValidateRead(t)
  <2>1. \A file, step : [t EXCEPT !.file = file, !.step = step].stage = t.stage
    BY <1>1 DEF Tasks
  <2>2. t.stage = "validate"
    BY <1>5 DEF ValidateRead, At
  <2>3. \A file, step : TaskBacked([t EXCEPT !.file = file, !.step = step])'
    BY <2>1, <2>2 DEF TaskBacked, At
  <2>4. QED
    BY <1>2, <1>3, <1>5, <2>3 DEF ValidateRead
<1>v. CASE ValidateCreate(t) \/ ValidateFlush(t)
  BY <1>3, <1>4, <1>v, Inferring
<1>6. CASE RegisterRead(t) \/ MaterializeRead(t)
  <2>1. PICK file, feats : file = Latest.file /\ feats = features
    OBVIOUS
  <2> DEFINE next == [t EXCEPT !.file = file, !.feats = feats, !.step = "insert"]
  <2>2. /\ next.file = file /\ next.feats = feats /\ next.step = "insert"
        /\ next.stage = t.stage /\ t.stage \in {"register", "materialize"}
    BY <1>1, <1>6 DEF Tasks, RegisterRead, MaterializeRead, At
  <2>3. Ends(t) \/ (HasRaw /\ Becomes(t, next))
    BY <1>6, <2>1 DEF RegisterRead, MaterializeRead
  <2> HIDE DEF next
  <2>4. HasRaw => /\ file \in FilesKnown' /\ file \in RawFiles'
                  /\ feats \subseteq features'
    BY <2>1, LatestIsKnown, FactsLast
  <2>5. HasRaw => TaskBacked(next)'
    BY <2>2, <2>4 DEF TaskBacked, At
  <2>6. QED
    BY <1>2, <1>3, <2>3, <2>5
<1>7. CASE RegisterCommit(t)
  <2>1. t.stage = "register" /\ t.step = "insert"
    BY <1>7 DEF RegisterCommit, At
  <2>2. ASSUME features' = features \cup (Columns[t.file] \ t.feats) PROVE Registered'
    <3>1. t.file \in FilesKnown /\ t.feats \subseteq features
      BY <2>1 DEF TaskBacked, At
    <3>2. QED
      BY <2>2, <3>1, FactsLast DEF Registered
  <2>3. Ends(t) \/ (Goes(t, "publish") /\ features' = features \cup (Columns[t.file] \ t.feats))
    BY <1>7 DEF RegisterCommit
  <2>4. QED
    BY <1>3, <1>4, <2>1, <2>2, <2>3
<1>8. CASE MaterializeCommit(t)
  <2>1. t.stage = "materialize" /\ t.step = "insert"
    BY <1>8 DEF MaterializeCommit, At
  <2>2. CASE Insertable(t)
    <3>1. Inserts(t) /\ Goes(t, "publish")
      BY <1>8, <2>2 DEF MaterializeCommit, Inserts
    <3>2. PICK i \in DOMAIN versions : versions[i].raw /\ versions[i].file = t.file
      BY <2>1 DEF TaskBacked, At, RawFiles
    <3>3. Materialized'
      BY <3>1, <3>2, MarkedVersions DEF Materialized
    <3>4. QED
      BY <1>4, <2>1, <3>1, <3>3
  <2>3. CASE ~Insertable(t)
    BY <1>4, <1>8, <2>1, <2>3 DEF MaterializeCommit
  <2>4. QED
    BY <2>2, <2>3
<1>9. CASE MaterializePublish(t)
  <2>1. t.stage = "materialize" /\ t.step \in {"publish", "announce"}
    BY <1>9 DEF MaterializePublish, At
  <2>2. Materialized'
    BY <2>1, FactsLast DEF TaskBacked
  <2>3. Ends(t) \/ Goes(t, "failed") \/ Goes(t, "announce")
    BY <1>9 DEF MaterializePublish
  <2>4. QED
    BY <1>3, <1>4, <2>1, <2>2, <2>3
<1>10. CASE SyncRead(t)
  <2>1. PICK snap, todo : snap = values /\ todo = EntitiesIn(values)
    OBVIOUS
  <2> DEFINE next == [t EXCEPT !.step = "write", !.snap = snap, !.todo = todo]
  <2>2. next.step = "write" /\ next.stage = t.stage /\ t.stage = "sync"
    BY <1>1, <1>10 DEF Tasks, SyncRead, At
  <2>3. Ends(t) \/ (HasValues /\ Becomes(t, next))
    BY <1>10, <2>1 DEF SyncRead, HasValues
  <2> HIDE DEF next
  <2>4. HasValues => HasValues'
    BY FactsLast
  <2>5. HasValues => TaskBacked(next)'
    BY <2>2, <2>4 DEF TaskBacked, At
  <2>6. QED
    BY <1>2, <1>3, <2>3, <2>5
<1>11. CASE SyncWrite(t)
  <2>1. PICK e \in t.todo : Becomes(t, [t EXCEPT !.todo = @ \ {e}])
    BY <1>11 DEF SyncWrite
  <2> DEFINE next == [t EXCEPT !.todo = @ \ {e}]
  <2>2. next.stage = "sync" /\ next.step = "write" /\ t.stage = "sync" /\ t.step = "write"
    BY <1>1, <1>11 DEF Tasks, SyncWrite, At
  <2> HIDE DEF next
  <2>3. TaskBacked(next)'
    BY <2>2, FactsLast DEF TaskBacked, At
  <2>4. QED
    BY <1>2, <2>1, <2>3 DEF next
<1>12. CASE SyncPublish(t)
  BY <1>3, <1>4, <1>12 DEF SyncPublish, At
<1>13. CASE ValidatePublish(t) \/ RegisterPublish(t) \/ JobFailed(t) \/ ReadyPublish(t)
  BY <1>3, <1>13 DEF ValidatePublish, RegisterPublish, JobFailed, ReadyPublish, Announces
<1>14. QED
  BY <1>5, <1>v, <1>6, <1>7, <1>8, <1>9, <1>10, <1>11, <1>12, <1>13 DEF TaskStep

LEMMA TasksStayBacked == ASSUME TypeInv, EventInv, [Next]_vars PROVE (\A t \in tasks : TaskBacked(t))'
<1>1. \A q \in tasks' : q \in tasks \/ TaskBacked(q)'
  <2>1. ASSUME NEW u \in Jobs, UploadRead(u) \/ UploadStep(u) PROVE tasks' = tasks
    BY <2>1 DEF UploadRead, UploadStep, UploadCommit, UploadConflict, UploadPublish
  <2>2. CASE StoreStep \/ DiscoverStep
    BY <2>2 DEF StoreStep, StoreVector, DropVector, RefreshCall, RefreshLoad, RefreshFill,
       InvalidateScan, InvalidateFails, InvalidateDelete, DiscoverStep, DiscoverRead, DiscoverProcess,
       DiscoverCommit, DiscoverFail
  <2>3. CASE Archive \/ Restart \/ BusStep \/ UNCHANGED vars
    BY <2>3 DEF Archive, Restart, BusStep, vars
  <2>4. CASE Dispatch
    <3>1. PICK e \in Events : Receive(e) /\ tasks' = tasks \cup {Task(Handler[e.kind], e.job)}
      BY <2>4 DEF Dispatch
    <3>2. e = wire[1] /\ 1 \in DOMAIN wire
      <4>1. wire \in Seq([kind : Handled, job : Jobs]) /\ wire # << >> /\ e = Head(wire)
        BY <3>1, Parts DEF BusTypeOK, Receive
      <4>2. QED
        BY <4>1, EmptySeq, LenProperties
    <3>3. e \in log /\ e.kind \in Handled
      <4>1. wire[1] \in [kind : Handled, job : Jobs]
        BY <3>2, Parts, LenProperties, ElementOfSeq DEF BusTypeOK
      <4>2. QED
        BY <3>2, <4>1 DEF EventInv, Carried
    <3>4. Handler[e.kind] = "ready" => e.kind = "MATERIALIZED"
      BY <3>3 DEF Handler, Handled
    <3>5. Handler[e.kind] = "ready" => Materialized'
      BY <3>3, <3>4, FactsLast DEF EventInv, Backed
    <3>6. TaskBacked(Task(Handler[e.kind], e.job))'
      BY <3>5 DEF TaskBacked, At, Task
    <3>7. QED
      BY <3>1, <3>6
  <2>5. ASSUME NEW t \in tasks, TaskStep(t) PROVE \A q \in tasks' : q \in tasks \/ TaskBacked(q)'
    BY <2>5, TaskMovesBacked DEF EventInv
  <2>6. QED
    BY <2>1, <2>2, <2>3, <2>4, <2>5 DEF Next
<1>2. \A q \in tasks : TaskBacked(q)'
  BY BackedLasts DEF EventInv
<1>3. QED
  BY <1>1, <1>2

-----------------------------------------------------------------------------
(* What is published *)

BusFine == (\A e \in log' : e \in log \/ Backed(e.kind)) /\ Carried'

LEMMA Published ==
    ASSUME TypeInv, Carried, NEW e, Backed(e.kind), Publish(e)
    PROVE  BusFine
<1> DEFINE All == Events \cup {e}
<1>1. wire \in Seq(All)
  <2>1. wire \in Seq([kind : Handled, job : Jobs])
    BY Parts DEF BusTypeOK
  <2>2. [kind : Handled, job : Jobs] \subseteq All
    BY DEF Events, Kinds
  <2> HIDE DEF All
  <2>3. QED
    BY <2>1, <2>2, SeqMonotonic
<1>2. log' \in {log, log \cup {e}}
  BY DEF Publish
<1>3. CASE wire' = wire
  BY <1>2, <1>3 DEF BusFine, Carried
<1>4. CASE wire' # wire
  <2>1. wire' = Append(wire, e) /\ log' = log \cup {e}
    BY <1>4 DEF Publish
  <2>2. /\ Len(wire') = Len(wire) + 1 /\ wire' \in Seq(All)
        /\ \A i \in 1 .. Len(wire) : wire'[i] = wire[i]
        /\ wire'[Len(wire) + 1] = e
    BY <1>1, <2>1, AppendProperties
  <2>3. DOMAIN wire' = 1 .. Len(wire) + 1 /\ DOMAIN wire = 1 .. Len(wire) /\ Len(wire) \in Nat
    BY <1>1, <2>2, LenProperties
  <2>4. QED
    BY <2>1, <2>2, <2>3 DEF BusFine, Carried
<1>5. QED
  BY <1>3, <1>4

LEMMA BusQuiet == ASSUME Carried, UNCHANGED busVars PROVE BusFine
  BY DEF BusFine, Carried, busVars

LEMMA KindOfEvent == \A k, u : Event(k, u).kind = k
  BY DEF Event

LEMMA TaskPublishes ==
    ASSUME TypeInv, Carried, NEW t \in tasks, TaskBacked(t), TaskStep(t)
    PROVE  BusFine
<1>1. CASE ValidatePublish(t)
  <2>1. Backed("FAILED") /\ Backed("VALIDATED")
    BY DEF Backed
  <2>2. QED
    BY <1>1, <2>1, Published, BusQuiet, KindOfEvent DEF ValidatePublish, Announces
<1>2. CASE RegisterPublish(t)
  <2>1. Backed("REGISTERED")
    BY <1>2 DEF Backed, TaskBacked, RegisterPublish
  <2>2. QED
    BY <1>2, <2>1, Published, BusQuiet, KindOfEvent DEF RegisterPublish, Announces
<1>3. CASE MaterializePublish(t)
  <2>1. Backed("MATERIALIZED") /\ Backed("VALUES_CREATED")
    BY <1>3 DEF Backed, TaskBacked, MaterializePublish, At
  <2>2. UNCHANGED busVars \/ Publish(Event("MATERIALIZED", t.job)) \/ Publish(Event("VALUES_CREATED", t.job))
    BY <1>3 DEF MaterializePublish
  <2>3. QED
    BY <2>1, <2>2, Published, BusQuiet, KindOfEvent
<1>4. CASE JobFailed(t)
  <2>1. Backed("JOB_FAILED")
    BY DEF Backed
  <2>2. QED
    BY <1>4, <2>1, Published, BusQuiet, KindOfEvent DEF JobFailed, Announces
<1>5. CASE ReadyPublish(t)
  <2>1. Backed("READY")
    BY <1>5 DEF Backed, TaskBacked, ReadyPublish, At
  <2>2. QED
    BY <1>5, <2>1, Published, BusQuiet, KindOfEvent DEF ReadyPublish, Announces
<1>6. CASE SyncPublish(t)
  <2>1. Backed("SYNCED")
    BY <1>6 DEF Backed, TaskBacked, SyncPublish
  <2>2. UNCHANGED busVars \/ Publish(Event("SYNCED", t.job))
    BY <1>6 DEF SyncPublish
  <2>3. QED
    BY <2>1, <2>2, Published, BusQuiet, KindOfEvent
<1>7. CASE \/ ValidateRead(t) \/ ValidateCreate(t) \/ ValidateFlush(t) \/ RegisterRead(t)
           \/ RegisterCommit(t) \/ MaterializeRead(t) \/ MaterializeCommit(t)
           \/ SyncRead(t) \/ SyncWrite(t)
  BY <1>7, BusQuiet DEF ValidateRead, ValidateCreate, ValidateFlush, RegisterRead, RegisterCommit, MaterializeRead,
     MaterializeCommit, SyncRead, SyncWrite
<1>8. QED
  BY <1>1, <1>2, <1>3, <1>4, <1>5, <1>6, <1>7 DEF TaskStep

LEMMA BusStaysBacked == ASSUME TypeInv, EventInv, [Next]_vars PROVE BusFine
<1>1. Carried
  BY DEF EventInv
<1>2. ASSUME NEW u \in Jobs, UploadRead(u) \/ UploadStep(u) PROVE BusFine
  <2>1. Backed("UPLOADED")
    BY DEF Backed
  <2>2. UNCHANGED busVars \/ Publish(Event("UPLOADED", u))
    BY <1>2 DEF UploadRead, UploadStep, UploadCommit, UploadConflict, UploadPublish
  <2>3. QED
    BY <1>1, <2>1, <2>2, Published, BusQuiet, KindOfEvent
<1>3. ASSUME NEW t \in tasks, TaskStep(t) PROVE BusFine
  BY <1>1, <1>3, TaskPublishes DEF EventInv
<1>4. CASE StoreStep \/ DiscoverStep \/ Archive \/ UNCHANGED vars
  BY <1>1, <1>4, BusQuiet DEF StoreStep, StoreVector, DropVector, RefreshCall, RefreshLoad, RefreshFill,
     InvalidateScan, InvalidateFails, InvalidateDelete, DiscoverStep, DiscoverRead, DiscoverProcess,
     DiscoverCommit, DiscoverFail, Archive, vars
<1>5. CASE Dispatch
  <2>1. wire \in Seq([kind : Handled, job : Jobs]) /\ wire # << >> /\ wire' = Tail(wire) /\ log' = log
    BY <1>5, Parts DEF BusTypeOK, Dispatch, Receive
  <2>2. /\ Tail(wire) \in Seq([kind : Handled, job : Jobs])
        /\ Len(Tail(wire)) = Len(wire) - 1
        /\ \A i \in 1 .. Len(Tail(wire)) : Tail(wire)[i] = wire[i + 1]
    BY <2>1, HeadTailProperties
  <2>3. DOMAIN wire' = 1 .. Len(wire) - 1 /\ DOMAIN wire = 1 .. Len(wire) /\ Len(wire) \in Nat
    BY <2>1, <2>2, LenProperties
  <2>4. QED
    BY <1>1, <2>1, <2>2, <2>3 DEF BusFine, Carried
<1>6. CASE Restart \/ BusStep
  <2>1. log' = log /\ wire' \in {wire, << >>}
    BY <1>6 DEF Restart, BusRestart, BusStep, RedisFails, RedisReturns, ListenerDies
  <2>2. DOMAIN << >> = {}
    OBVIOUS
  <2>3. QED
    BY <1>1, <2>1, <2>2 DEF BusFine, Carried
<1>7. QED
  BY <1>2, <1>3, <1>4, <1>5, <1>6 DEF Next

LEMMA EventStep == ASSUME TypeInv, EventInv, [Next]_vars PROVE EventInv'
<1>1. (\A e \in log : Backed(e.kind))'
  BY BusStaysBacked, BackedLasts DEF EventInv, BusFine
<1>2. QED
  BY <1>1, TasksStayBacked, BusStaysBacked DEF EventInv, BusFine

LEMMA EventInit == Init => EventInv
<1>1. DOMAIN << >> = {}
  OBVIOUS
<1>2. QED
  BY <1>1 DEF Init, BusInit, EventInv, Carried

(* Crashes, outages and reordered events notwithstanding, nobody hears of  *)
(* a step before the tables hold it.                                       *)
THEOREM EventsAreTrue == Spec => []EventsFollowCommits
<1>1. TypeInv /\ EventInv /\ [Next]_vars => (TypeInv /\ EventInv)'
  BY StepType, EventStep
<1>2. Init => TypeInv /\ EventInv
  BY InitType, EventInit
<1>3. TypeInv /\ EventInv => EventsFollowCommits
  BY DEF EventInv, Backed, Registered, Materialized, HasValues, FilesKnown, EventsFollowCommits
<1>4. QED
  BY <1>1, <1>2, <1>3, PTL DEF Spec

==============================================================================

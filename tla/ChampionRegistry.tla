--------------------------- MODULE ChampionRegistry ---------------------------
(***************************************************************************)
(* app/training/orchestrator.py and the retraining API: the transactions   *)
(* that train the models of one dataset, register them and choose its      *)
(* champion, and the registry cache they refresh on the way.               *)
(*                                                                         *)
(* A training run is one PostgreSQL transaction (READ COMMITTED) with row  *)
(* locks; its session's identity map keeps the rows as it first read them. *)
(* Nothing in the code keeps two runs of a dataset apart.                  *)
(***************************************************************************)
EXTENDS RegistryCache

CONSTANTS Runs,      \* training runs of the dataset
          Rollbacks, \* calls of POST /retraining/rollback
          Readers,   \* requests that look the champion or a model up
          Overlap    \* whether two transactions may be open at once

ASSUME ClientsAssumption ==
    /\ Clients = Runs \cup Rollbacks \cup Readers
    /\ Runs \cap Rollbacks = {} /\ Runs \cap Readers = {} /\ Rollbacks \cap Readers = {}
    /\ Overlap \in BOOLEAN

(* execute() lists three trainers of different algorithms; models and      *)
(* champions are tables of their own.                                      *)
ASSUME LockingAssumption ==
    /\ \A i, j \in DOMAIN Trainers : Trainers[i] = Trainers[j] => i = j
    /\ "champion" \notin Models

Writers == Runs \cup Rollbacks

VARIABLES
    pc,      \* where each client stands
    at,      \* index of the trainer (model) a client is working on
    target,  \* the champion alias a client refreshes or looks up
    view,    \* a writer's identity map: model rows as it read them
    draft,   \* the row a run is about to register
    mine,    \* model rows a writer has flushed and not committed
    pick,    \* the model a writer wants to be champion
    crowned, \* whether it has flushed that choice
    lock,    \* locks on the model rows and on the champion row
    file,    \* artifacts on disk: who wrote the one at each path
    born,    \* models in order of their INSERT (created_at), committed or not
    past,    \* history: model -> rows that have been committed
    reigned, \* history: models that have been champion
    met      \* history: writer -> writers whose transactions overlapped its own

txVars == <<pc, at, target, view, draft, mine, pick, crowned>>
sharedVars == <<lock, file, born, past, reigned, met>>
vars == <<dbVars, cacheVars, txVars, sharedVars>>

Lockable == Models \cup {"champion"}

NoRows == [m \in Models |-> NoRow]

Init ==
    /\ CacheInit
    /\ row = NoRows
    /\ champion = NoModel
    /\ pc = [c \in Clients |-> "idle"]
    /\ at = [c \in Clients |-> 1]
    /\ target = [c \in Clients |-> "name"]
    /\ view = [c \in Clients |-> NoRows]
    /\ draft = [c \in Clients |-> NoRow]
    /\ mine = [c \in Clients |-> NoRows]
    /\ pick = [c \in Clients |-> NoModel]
    /\ crowned = [c \in Clients |-> FALSE]
    /\ lock = [l \in Lockable |-> NoClient]
    /\ file = {}
    /\ born = << >>
    /\ past = [m \in Models |-> {}]
    /\ reigned = {}
    /\ met = [w \in Writers |-> {}]

Goto(c, from, to) == pc[c] = from /\ pc' = [pc EXCEPT ![c] = to]

Current(c) == Trainers[at[c]]

Free(c, l) == lock[l] \in {NoClient, c}

(* The rest of the loop over the trainers, or what follows it *)
NextTrainer(c, from) ==
    IF at[c] < Len(Trainers)
    THEN Goto(c, from, "train") /\ at' = [at EXCEPT ![c] = @ + 1]
    ELSE Goto(c, from, "select") /\ at' = [at EXCEPT ![c] = 1]

(* The transactions that are open *)
Open == {w \in Writers : pc[w] \notin {"idle", "done"}}

(* A new transaction overlaps with every one that is open *)
Meet(c) ==
    met' = [w \in Writers |->
        met[w] \cup IF w = c THEN Open ELSE IF w \in Open THEN {c} ELSE {}]

-----------------------------------------------------------------------------
(* The training loop *)

(* Early returns of execute() leave an empty transaction to its caller *)
Start(c) ==
    /\ Overlap \/ Open = {}
    /\ Goto(c, "idle", "train") \/ Goto(c, "idle", "commit")
    /\ Meet(c)
    /\ UNCHANGED <<dbVars, cacheVars, at, target, view, draft, mine, pick, crowned,
                   lock, file, born, past, reigned>>

(* Mutant: a retrained model keeps its version *)
SameVersion(c) == IF row[Current(c)] = NoRow THEN 1 ELSE row[Current(c)].version

NewVersion(c) == IF row[Current(c)] = NoRow THEN 1 ELSE row[Current(c)].version + 1

(* train(), evaluate() and get_by_dataset_and_name(); a failed trainer is  *)
(* recorded and skipped.                                                   *)
Train(c) ==
    /\ \/ /\ Goto(c, "train", "save")
          /\ \E acc \in Accuracies :
                draft' = [draft EXCEPT ![c] =
                    [version |-> NewVersion(c), acc |-> acc, author |-> c]]
          /\ view' = [view EXCEPT ![c][Current(c)] = row[Current(c)]]
          /\ UNCHANGED at
       \/ /\ Fails("train")
          /\ NextTrainer(c, "train")
          /\ UNCHANGED <<view, draft>>
    /\ UNCHANGED <<dbVars, cacheVars, target, mine, pick, crowned, sharedVars>>

(* The artifact path is made of the model's name and version *)
Artifact(m, r) == [model |-> m, version |-> r.version, author |-> r.author]

SamePath(f, g) == f.model = g.model /\ f.version = g.version

(* artifact_store.save() writes outside the transaction; the explainers    *)
(* after it may raise, which skips the registration.                       *)
Save(c) ==
    LET new == Artifact(Current(c), draft[c])
    IN /\ \/ Goto(c, "save", "register") /\ UNCHANGED at
          \/ Fails("explain") /\ NextTrainer(c, "save")
       /\ file' = {f \in file : ~SamePath(f, new)} \cup {new}
       /\ UNCHANGED <<dbVars, cacheVars, target, view, draft, mine, pick, crowned,
                      lock, born, past, reigned, met>>

(* ModelRepository.update() or .create(), flushed: the statement waits for *)
(* the row (or for the other insert) of an open transaction.               *)
Register(c) ==
    LET m == Current(c)
    IN /\ view[c][m] # NoRow \/ row[m] = NoRow
       /\ Free(c, m)
       /\ Goto(c, "register", "dropModel")
       /\ lock' = [lock EXCEPT ![m] = c]
       /\ mine' = [mine EXCEPT ![c][m] = draft[c]]
       /\ draft' = [draft EXCEPT ![c] = NoRow]
       /\ born' = IF view[c][m] = NoRow THEN Append(born, m) ELSE born
       /\ UNCHANGED <<dbVars, cacheVars, at, target, view, pick, crowned,
                      file, past, reigned, met>>

(* uq_dataset_model: the INSERT meets a row committed since the SELECT; the *)
(* session is unusable and the run is rolled back.                          *)
RegisterConflict(c) ==
    LET m == Current(c)
    IN /\ view[c][m] = NoRow /\ row[m] # NoRow
       /\ Free(c, m)
       /\ Goto(c, "register", "rollback")
       /\ UNCHANGED <<dbVars, cacheVars, at, target, view, draft, mine, pick, crowned, sharedVars>>

(* The repository's own refresh_model_cache(), before the commit *)
RefreshDropModel(c) ==
    /\ Goto(c, "dropModel", "loadModel")
    /\ DropModel(Current(c))
    /\ UNCHANGED <<dbVars, at, target, view, draft, mine, pick, crowned, sharedVars>>

(* Where a client goes when its lookup of a model is over *)
ModelLookedUp(c, from) ==
    IF c \in Readers THEN Goto(c, from, "idle") /\ UNCHANGED at ELSE NextTrainer(c, from)

(* Mutant: the refresh is given the session of the open transaction *)
LoadOwnModel(c) ==
    LET m == Current(c)
        visible == IF mine[c][m] # NoRow THEN mine[c][m] ELSE row[m]
    IN /\ \/ ModelLookedUp(c, "loadModel") /\ ModelIsServed(m) /\ UNCHANGED cacheVars
          \/ /\ Goto(c, "loadModel", "storeModel")
             /\ visible # NoRow
             /\ held' = [held EXCEPT ![c] = [model |-> m, row |-> visible]]
             /\ UNCHANGED <<cached, alias, at>>
       /\ UNCHANGED <<dbVars, target, view, draft, mine, pick, crowned, sharedVars>>

LoadModel(c) ==
    /\ \/ ModelLookedUp(c, "loadModel") /\ ModelIsServed(Current(c)) /\ UNCHANGED cacheVars
       \/ Goto(c, "loadModel", "storeModel") /\ ReadModel(c, Current(c)) /\ UNCHANGED at
    /\ UNCHANGED <<dbVars, target, view, draft, mine, pick, crowned, sharedVars>>

FillModel(c) ==
    /\ ModelLookedUp(c, "storeModel")
    /\ StoreModel(c)
    /\ UNCHANGED <<dbVars, target, view, draft, mine, pick, crowned, sharedVars>>

-----------------------------------------------------------------------------
(* The choice of the champion *)

Trained(c) == {i \in DOMAIN Trainers : mine[c][Trainers[i]] # NoRow}

Acc(c, i) == mine[c][Trainers[i]].acc

(* max(models_trained, key=accuracy): the first of the best *)
IsBest(c, i) ==
    \A j \in Trained(c) : Acc(c, j) < Acc(c, i) \/ (Acc(c, j) = Acc(c, i) /\ i <= j)

(* Mutant: the champion's accuracy as it was before the run *)
CommittedRow(c, m) == row[m]

(* The champion's accuracy as the run's session sees it *)
SessionRow(c, m) ==
    IF mine[c][m] # NoRow THEN mine[c][m]
    ELSE IF view[c][m] # NoRow THEN view[c][m] ELSE row[m]

Beats(c, i) == Acc(c, i) > SessionRow(c, champion).acc

Choose(c, i, to) == Goto(c, "select", to) /\ pick' = [pick EXCEPT ![c] = Trainers[i]]

Select(c) ==
    /\ \/ Trained(c) = {} /\ Goto(c, "select", "commit") /\ UNCHANGED <<pick, target>>
       \/ \E i \in Trained(c) :
            /\ IsBest(c, i)
            /\ \/ champion = NoModel /\ Choose(c, i, "crown") /\ UNCHANGED target
               \/ champion # NoModel /\ Beats(c, i) /\ Choose(c, i, "promote") /\ UNCHANGED target
               \/ /\ champion # NoModel /\ ~Beats(c, i)
                  /\ Goto(c, "select", "dropAlias")
                  /\ target' = [target EXCEPT ![c] = "name"]
                  /\ UNCHANGED pick
    /\ UNCHANGED <<dbVars, cacheVars, at, view, draft, mine, crowned, sharedVars>>

(* ChampionModelRepository.create() / .update(), flushed.  A run goes on   *)
(* to refresh the cache under the dataset's id; a rollback does not.       *)
Enthrone(c, from) ==
    /\ Free(c, "champion")
    /\ Goto(c, from, IF c \in Runs THEN "dropAlias" ELSE "commit")
    /\ lock' = [lock EXCEPT !["champion"] = c]
    /\ crowned' = [crowned EXCEPT ![c] = TRUE]
    /\ target' = [target EXCEPT ![c] = "id"]
    /\ UNCHANGED <<dbVars, cacheVars, at, view, draft, mine, pick, file, born, past,
                   reigned, met>>

Crown(c) == champion = NoModel /\ Enthrone(c, "crown")

Promote(c) == Enthrone(c, "promote")

(* uq_dataset_champion: another run's first champion was committed since *)
CrownConflict(c) ==
    /\ champion # NoModel
    /\ Free(c, "champion")
    /\ Goto(c, "crown", "rollback")
    /\ UNCHANGED <<dbVars, cacheVars, at, target, view, draft, mine, pick, crowned, sharedVars>>

-----------------------------------------------------------------------------
(* refresh_champion_cache() before the commit, by id and then by name, and *)
(* the lookup of a reader                                                  *)

RefreshDropAlias(c) ==
    /\ Goto(c, "dropAlias", "loadAlias")
    /\ DropAlias(target[c])
    /\ UNCHANGED <<dbVars, at, target, view, draft, mine, pick, crowned, sharedVars>>

AliasLookedUp(c, from) ==
    \/ c \in Readers /\ Goto(c, from, "idle") /\ UNCHANGED target
    \/ /\ c \in Runs /\ target[c] = "id"
       /\ Goto(c, from, "dropAlias")
       /\ target' = [target EXCEPT ![c] = "name"]
    \/ c \in Runs /\ target[c] = "name" /\ Goto(c, from, "commit") /\ UNCHANGED target

LoadAlias(c) ==
    /\ \/ AliasLookedUp(c, "loadAlias") /\ AliasIsServed(target[c]) /\ UNCHANGED cacheVars
       \/ Goto(c, "loadAlias", "loadRow") /\ ReadChampion(c, target[c]) /\ UNCHANGED target
    /\ UNCHANGED <<dbVars, at, view, draft, mine, pick, crowned, sharedVars>>

LoadRow(c) ==
    /\ Goto(c, "loadRow", "storeName")
    /\ ReadChampionRow(c)
    /\ UNCHANGED <<dbVars, at, target, view, draft, mine, pick, crowned, sharedVars>>

FillName(c) ==
    /\ Goto(c, "storeName", "storeId")
    /\ StoreAlias(c, "name")
    /\ UNCHANGED <<dbVars, at, target, view, draft, mine, pick, crowned, sharedVars>>

FillId(c) ==
    /\ AliasLookedUp(c, "storeId")
    /\ StoreAlias(c, "id")
    /\ UNCHANGED <<dbVars, at, view, draft, mine, pick, crowned, sharedVars>>

Ask(r) ==
    /\ \/ /\ Goto(r, "idle", "loadAlias")
          /\ \E a \in Aliases : target' = [target EXCEPT ![r] = a]
          /\ UNCHANGED at
       \/ /\ Goto(r, "idle", "loadModel")
          /\ \E i \in DOMAIN Trainers : at' = [at EXCEPT ![r] = i]
          /\ UNCHANGED target
    /\ UNCHANGED <<dbVars, cacheVars, view, draft, mine, pick, crowned, sharedVars>>

-----------------------------------------------------------------------------
(* The end of a transaction *)

Release(c) ==
    /\ lock' = [l \in Lockable |-> IF lock[l] = c THEN NoClient ELSE lock[l]]
    /\ mine' = [mine EXCEPT ![c] = NoRows]
    /\ view' = [view EXCEPT ![c] = NoRows]
    /\ draft' = [draft EXCEPT ![c] = NoRow]
    /\ pick' = [pick EXCEPT ![c] = NoModel]
    /\ crowned' = [crowned EXCEPT ![c] = FALSE]

Commit(c) ==
    /\ Goto(c, "commit", "done")
    /\ row' = [m \in Models |-> IF mine[c][m] # NoRow THEN mine[c][m] ELSE row[m]]
    /\ champion' = IF crowned[c] THEN pick[c] ELSE champion
    /\ past' = [m \in Models |-> past[m] \cup ({mine[c][m]} \ {NoRow})]
    /\ reigned' = IF crowned[c] THEN reigned \cup {pick[c]} ELSE reigned
    /\ Release(c)
    /\ UNCHANGED <<cacheVars, at, target, file, born, met>>

CommitFails(c) ==
    /\ Fails("commit")
    /\ Goto(c, "commit", "rollback")
    /\ UNCHANGED <<dbVars, cacheVars, at, target, view, draft, mine, pick, crowned, sharedVars>>

(* Mutant: the failure is logged and the transaction goes on to its commit *)
AbortCommits(c) ==
    /\ Fails("db")
    /\ \E from \in {"train", "register", "select", "crown", "promote", "touch"} : Goto(c, from, "commit")
    /\ UNCHANGED <<dbVars, cacheVars, at, target, view, draft, mine, pick, crowned, sharedVars>>

(* Any statement may fail; execute() rolls back and returns normally *)
Abort(c) ==
    /\ Fails("db")
    /\ \E from \in {"train", "register", "select", "crown", "promote", "touch"} : Goto(c, from, "rollback")
    /\ UNCHANGED <<dbVars, cacheVars, at, target, view, draft, mine, pick, crowned, sharedVars>>

Rollback(c) ==
    /\ Goto(c, "rollback", "done")
    /\ Release(c)
    /\ UNCHANGED <<dbVars, cacheVars, at, target, file, born, past, reigned, met>>

-----------------------------------------------------------------------------
(* POST /retraining/rollback: the newest model that is not the champion *)
IsNewest(i) ==
    /\ row[born[i]] # NoRow /\ born[i] # champion
    /\ \A j \in DOMAIN born : j > i => row[born[j]] = NoRow \/ born[j] = champion

Registered == {m \in Models : row[m] # NoRow}

RollbackBegin(b) ==
    /\ Overlap \/ Open = {}
    /\ \/ /\ Cardinality(Registered) >= 2
          /\ Goto(b, "idle", "touch")
          /\ Meet(b)
          /\ \E i \in DOMAIN born : IsNewest(i) /\ pick' = [pick EXCEPT ![b] = born[i]]
       \/ /\ Cardinality(Registered) < 2
          /\ Goto(b, "idle", "done")
          /\ UNCHANGED <<pick, met>>
    /\ UNCHANGED <<dbVars, cacheVars, at, target, view, draft, mine, crowned,
                   lock, file, born, past, reigned>>

(* Mutant: the flush updates the champion row before the model's status *)
RollbackTouchLast(b) ==
    /\ \/ lock["champion"] = NoClient /\ pc[b] = "touch" /\ UNCHANGED pc
          /\ lock' = [lock EXCEPT !["champion"] = b]
       \/ lock["champion"] = b /\ Goto(b, "touch", "promote") /\ Free(b, pick[b])
          /\ lock' = [lock EXCEPT ![pick[b]] = b]
    /\ UNCHANGED <<dbVars, cacheVars, at, target, view, draft, mine, pick, crowned,
                   file, born, past, reigned, met>>

(* The flush updates the model's status first, then the champion row *)
RollbackTouch(b) ==
    /\ Goto(b, "touch", "promote")
    /\ Free(b, pick[b])
    /\ lock' = [lock EXCEPT ![pick[b]] = b]
    /\ UNCHANGED <<dbVars, cacheVars, at, target, view, draft, mine, pick, crowned,
                   file, born, past, reigned, met>>

-----------------------------------------------------------------------------
RunStep(c) ==
    \/ Train(c) \/ Save(c) \/ Register(c) \/ RegisterConflict(c) \/ RefreshDropModel(c)
    \/ Select(c) \/ Crown(c) \/ CrownConflict(c) \/ RefreshDropAlias(c)

LookupStep(c) ==
    \/ LoadModel(c) \/ FillModel(c)
    \/ LoadAlias(c) \/ LoadRow(c) \/ FillName(c) \/ FillId(c)

TxStep(c) == Promote(c) \/ Commit(c) \/ Rollback(c)

(* PostgreSQL fails: it may at any statement, and never has to *)
Failure(c) == CommitFails(c) \/ Abort(c)

Progress(c) ==
    \/ c \in Runs /\ (RunStep(c) \/ LookupStep(c) \/ TxStep(c))
    \/ c \in Rollbacks /\ (RollbackTouch(c) \/ TxStep(c))
    \/ c \in Readers /\ LookupStep(c)

Ttl ==
    /\ (\E m \in Models : ExpireModel(m)) \/ (\E a \in Aliases : ExpireAlias(a))
    /\ UNCHANGED <<txVars, sharedVars>>

Next ==
    \/ \E c \in Runs : Start(c)
    \/ \E b \in Rollbacks : RollbackBegin(b)
    \/ \E r \in Readers : Ask(r)
    \/ \E c \in Clients : Progress(c)
    \/ \E w \in Writers : Failure(w)
    \/ Ttl

Spec == Init /\ [][Next]_vars

(* PostgreSQL grants a free lock, the event loop runs its tasks, and Redis *)
(* drops every key whose TTL has passed.  Nobody has to start anything, and*)
(* no failure of PostgreSQL has to come to the help of one that waits.     *)
Fairness ==
    /\ \A c \in Clients : WF_vars(Progress(c))
    /\ \A m \in Models : WF_vars(ExpireModel(m) /\ UNCHANGED <<txVars, sharedVars>>)
    /\ \A a \in Aliases : WF_vars(ExpireAlias(a) /\ UNCHANGED <<txVars, sharedVars>>)

FairSpec == Spec /\ Fairness

-----------------------------------------------------------------------------
Control == {"idle", "train", "save", "register", "dropModel", "loadModel", "storeModel",
            "select", "crown", "promote", "touch", "dropAlias", "loadAlias", "loadRow",
            "storeName", "storeId", "commit", "rollback", "done"}

Artifacts == [model : Models, version : Nat \ {0}, author : Clients]

(* The type invariant of the registry, its transactions and its cache. *)
TypeOK ==
    /\ CacheTypeOK
    /\ row \in [Models -> Rows \cup {NoRow}]
    /\ champion \in Models \cup {NoModel}
    /\ pc \in [Clients -> Control]
    /\ at \in [Clients -> DOMAIN Trainers]
    /\ target \in [Clients -> Aliases]
    /\ view \in [Clients -> [Models -> Rows \cup {NoRow}]]
    /\ draft \in [Clients -> Rows \cup {NoRow}]
    /\ mine \in [Clients -> [Models -> Rows \cup {NoRow}]]
    /\ pick \in [Clients -> Models \cup {NoModel}]
    /\ crowned \in [Clients -> BOOLEAN]
    /\ lock \in [Lockable -> Clients \cup {NoClient}]
    /\ file \subseteq Artifacts
    /\ born \in Seq(Models)
    /\ past \in [Models -> SUBSET Rows]
    /\ reigned \subseteq Models
    /\ met \in [Writers -> SUBSET Writers]

(* Redis never serves what PostgreSQL has not committed: every cached row  *)
(* was a committed row of its model, and every cached champion has reigned,*)
(* although the refreshes run in the middle of open transactions that may  *)
(* still be rolled back.                                                   *)
CacheServesCommitted ==
    /\ \A m \in Models : cached[m] # NoRow => cached[m] \in past[m]
    /\ \A a \in Aliases : alias[a] # NoEntry =>
            alias[a].model \in reigned /\ alias[a].row \in past[alias[a].model]

(* A dataset has a champion as soon as it has a model, and its champion is *)
(* one of its models: models and champion become visible together, also    *)
(* when two first runs race or a run fails half way.                       *)
ModelsComeWithChampion ==
    /\ champion = NoModel <=> row = NoRows
    /\ champion # NoModel => row[champion] # NoRow

(* The artifact a committed row names was written by the run the row comes *)
(* from, so that its checksum is the row's and the engine can load it, or  *)
(* by a run whose transaction overlapped with that one: runs that fail, are*)
(* rolled back or come later leave the files of others alone, and it takes *)
(* two overlapping runs to overwrite one.                                  *)
ArtifactLostToOverlapOnly ==
    \A m \in Models : row[m] # NoRow =>
        \E f \in file :
            /\ SamePath(f, Artifact(m, row[m]))
            /\ f.author \in {row[m].author} \cup met[row[m].author]

RunCommits(c) == pc[c] = "commit" /\ pc'[c] = "done"

(* A transaction that was open together with that of c has ended *)
Overtaken(c) == \E d \in met[c] : pc[d] = "done"

(* A run that replaces the champion installs a model that is strictly more *)
(* accurate than the old champion is after the run, even when the run has  *)
(* retrained the old champion too; what a run has read is out of date only *)
(* when another transaction has ended while it was open.                   *)
PromotionImproves ==
    [][\A c \in Runs : RunCommits(c) /\ champion' # champion /\ champion # NoModel
            => row'[champion'].acc > row'[champion].acc \/ Overtaken(c)]_vars

(* The lock that the next statement of a transaction takes or waits for *)
Wanted(c) ==
    CASE pc[c] = "register" -> {Current(c)}
      [] pc[c] \in {"crown", "promote"} -> {"champion"}
      [] pc[c] = "touch" -> {pick[c]}
      [] OTHER -> {}

WaitsFor(c) == {lock[l] : l \in Wanted(c)} \ {c, NoClient}

(* Runs and rollbacks never deadlock: a lock belongs to a transaction that *)
(* is still open, and in every group of transactions there is one that     *)
(* waits for no other of the group, so nobody waits in a circle.  The code *)
(* takes model rows in the order of the trainers and the champion last.    *)
NoDeadlock ==
    /\ \A l \in Lockable : lock[l] # NoClient =>
            lock[l] \in Writers /\ pc[lock[l]] \notin {"idle", "done"}
    /\ \A group \in (SUBSET Writers) \ {{}} :
            \E c \in group : WaitsFor(c) \cap group = {}

(* Every transaction ends, also when no failure ends it: the locks on model*)
(* rows and on the champion row are taken in an order that cannot deadlock,*)
(* and no end forgets one.                                                 *)
TransactionsEnd == \A c \in Writers : []<>(c \notin Open)

Fresh ==
    /\ \A m \in Models : cached[m] \in {NoRow, row[m]}
    /\ \A a \in Aliases : alias[a] # NoEntry => alias[a] = [model |-> champion, row |-> row[champion]]

(* Once the transactions are over the TTL repairs the cache for good, even *)
(* if readers keep refilling it.                                           *)
CacheConverges == <>[]Fresh

(* model_cache.py: a refresh rebuilds the entry "from authoritative        *)
(* PostgreSQL records".  When no transaction is open and no lookup is in   *)
(* progress, what the last refresh left is what PostgreSQL holds.          *)
RefreshedChampionIsCurrent ==
    (\A c \in Clients : pc[c] \in {"idle", "done"}) =>
        \A a \in Aliases : alias[a] # NoEntry => alias[a].model = champion
=============================================================================

----------------------- MODULE ChampionRegistryProofs -----------------------
(***************************************************************************)
(* Theorems about ChampionRegistry, for every number of training runs,     *)
(* rollbacks and readers, overlapping or not, every list of trainers and   *)
(* every set of failing calls.                                             *)
(***************************************************************************)
EXTENDS ChampionRegistry, SequenceTheorems, NaturalsInduction, WellFoundedInduction, TLAPS

(* What client c holds at each place *)
Holds(c) ==
    /\ pc[c] \in {"save", "register"} => draft[c] \in Rows
    /\ pc[c] = "loadRow" => held[c] \in HalfRead /\ row[held[c].model] # NoRow
    /\ pc[c] \in {"storeModel", "storeName", "storeId"} => held[c] \in Entries
    /\ crowned[c] \/ pc[c] \in {"crown", "promote", "touch"} => pick[c] # NoModel
    /\ pick[c] # NoModel => mine[c][pick[c]] # NoRow \/ row[pick[c]] # NoRow

ChampionIsRegistered == champion # NoModel => row[champion] # NoRow

Located == (\A c \in Clients : Holds(c)) /\ ChampionIsRegistered

-----------------------------------------------------------------------------
(* Operators *)

LEMMA TrainerIsModel == \A i \in DOMAIN Trainers : Trainers[i] \in Models
  BY DEF Models

LEMMA CurrentIsModel == ASSUME TypeOK PROVE \A c \in Clients : Current(c) \in Models
  BY TrainerIsModel DEF TypeOK, Current

LEMMA TrainersCount == Len(Trainers) \in Nat /\ DOMAIN Trainers = 1 .. Len(Trainers)
  BY RegistryAssumption, LenProperties

LEMMA NextTrainerType ==
    ASSUME TypeOK, NEW c \in Clients, NEW from, NextTrainer(c, from)
    PROVE  /\ at' \in [Clients -> DOMAIN Trainers]
           /\ pc[c] = from
           /\ \E to \in {"train", "select"} : pc' = [pc EXCEPT ![c] = to]
<1>1. at[c] \in 1 .. Len(Trainers) /\ Len(Trainers) \in Nat
  BY TrainersCount DEF TypeOK
<1>2. 1 \in DOMAIN Trainers /\ (at[c] < Len(Trainers) => at[c] + 1 \in DOMAIN Trainers)
  BY <1>1, TrainersCount
<1>3. QED
  BY <1>2 DEF TypeOK, NextTrainer, Goto

LEMMA ModelLookedUpType ==
    ASSUME TypeOK, NEW c \in Clients, NEW from, ModelLookedUp(c, from)
    PROVE  /\ at' \in [Clients -> DOMAIN Trainers]
           /\ pc[c] = from
           /\ \E to \in {"train", "select", "idle"} : pc' = [pc EXCEPT ![c] = to]
<1>1. CASE c \in Readers
  BY <1>1 DEF TypeOK, ModelLookedUp, Goto
<1>2. CASE c \notin Readers
  BY <1>2, NextTrainerType DEF ModelLookedUp
<1>3. QED
  BY <1>1, <1>2

LEMMA AliasLookedUpType ==
    ASSUME TypeOK, NEW c \in Clients, NEW from, AliasLookedUp(c, from)
    PROVE  /\ target' \in [Clients -> Aliases]
           /\ pc[c] = from
           /\ \E to \in {"idle", "dropAlias", "commit"} : pc' = [pc EXCEPT ![c] = to]
  BY DEF TypeOK, AliasLookedUp, Goto, Aliases

LEMMA EntryType ==
    ASSUME NEW m \in Models, NEW r \in Rows
    PROVE  [model |-> m, row |-> r] \in Entries /\ [model |-> m, row |-> NoRow] \in HalfRead
  BY DEF Entries, HalfRead

LEMMA NewRowType ==
    ASSUME TypeOK, NEW c \in Clients, NEW acc \in Accuracies
    PROVE  [version |-> NewVersion(c), acc |-> acc, author |-> c] \in Rows
<1>1. row[Current(c)] \in Rows \cup {NoRow}
  BY CurrentIsModel DEF TypeOK
<1>2. NewVersion(c) \in Nat \ {0}
  BY <1>1 DEF NewVersion, Rows
<1>3. QED
  BY <1>2 DEF Rows

-----------------------------------------------------------------------------
(* The cache operations *)

LEMMA DropModelType ==
    ASSUME TypeOK, NEW m \in Models, DropModel(m)
    PROVE  CacheTypeOK' /\ held' = held
  BY DEF TypeOK, CacheTypeOK, DropModel

LEMMA ReadModelType ==
    ASSUME TypeOK, NEW c \in Clients, NEW m \in Models, ReadModel(c, m)
    PROVE  /\ CacheTypeOK'
           /\ held' = [held EXCEPT ![c] = [model |-> m, row |-> row[m]]]
           /\ [model |-> m, row |-> row[m]] \in Entries
<1>1. row[m] \in Rows
  BY DEF TypeOK, ReadModel
<1>2. [model |-> m, row |-> row[m]] \in Entries
  BY <1>1, EntryType
<1>3. QED
  BY <1>2 DEF TypeOK, CacheTypeOK, ReadModel

LEMMA StoreModelType ==
    ASSUME TypeOK, NEW c \in Clients, held[c] \in Entries, StoreModel(c)
    PROVE  CacheTypeOK' /\ held' = [held EXCEPT ![c] = NoEntry]
<1>1. held[c].model \in Models /\ held[c].row \in Rows
  BY DEF Entries
<1>2. QED
  BY <1>1 DEF TypeOK, CacheTypeOK, StoreModel

LEMMA DropAliasType ==
    ASSUME TypeOK, NEW a \in Aliases, DropAlias(a)
    PROVE  CacheTypeOK' /\ held' = held
  BY DEF TypeOK, CacheTypeOK, DropAlias

LEMMA ReadChampionType ==
    ASSUME TypeOK, NEW c \in Clients, NEW a \in Aliases, ReadChampion(c, a)
    PROVE  /\ CacheTypeOK'
           /\ held' = [held EXCEPT ![c] = [model |-> champion, row |-> NoRow]]
           /\ champion \in Models
           /\ [model |-> champion, row |-> NoRow] \in HalfRead
<1>1. champion \in Models
  BY DEF TypeOK, ReadChampion
<1>2. [model |-> champion, row |-> NoRow] \in HalfRead
  BY <1>1 DEF HalfRead
<1>3. QED
  BY <1>1, <1>2 DEF TypeOK, CacheTypeOK, ReadChampion

LEMMA ReadChampionRowType ==
    ASSUME TypeOK, NEW c \in Clients, held[c] \in HalfRead, row[held[c].model] # NoRow,
           ReadChampionRow(c)
    PROVE  /\ CacheTypeOK'
           /\ held'[c] = [model |-> held[c].model, row |-> row[held[c].model]]
           /\ held'[c] \in Entries
           /\ \A d \in Clients \ {c} : held'[d] = held[d]
<1>1. held[c].model \in Models /\ held[c] = [model |-> held[c].model, row |-> NoRow]
  BY DEF HalfRead
<1>2. row[held[c].model] \in Rows
  BY <1>1 DEF TypeOK
<1>3. [held[c] EXCEPT !.row = row[held[c].model]] = [model |-> held[c].model, row |-> row[held[c].model]]
  BY <1>1
<1>4. held' = [held EXCEPT ![c] = [model |-> held[c].model, row |-> row[held[c].model]]]
  <2>1. held \in [Clients -> Entries \cup HalfRead \cup {NoEntry}]
    BY DEF TypeOK, CacheTypeOK
  <2>2. held' = [held EXCEPT ![c].row = row[held[c].model]]
    BY DEF ReadChampionRow
  <2>3. QED
    BY <1>3, <2>2
<1>5. [model |-> held[c].model, row |-> row[held[c].model]] \in Entries
  BY <1>1, <1>2, EntryType
<1>6. held \in [Clients -> Entries \cup HalfRead \cup {NoEntry}]
  BY DEF TypeOK, CacheTypeOK
<1>7. CacheTypeOK'
  <2>1. held' \in [Clients -> Entries \cup HalfRead \cup {NoEntry}]
    BY <1>4, <1>5, <1>6
  <2>2. UNCHANGED <<cached, alias>>
    BY DEF ReadChampionRow
  <2>3. QED
    BY <2>1, <2>2 DEF TypeOK, CacheTypeOK
<1>8. QED
  BY <1>4, <1>5, <1>6, <1>7

LEMMA StoreAliasType ==
    ASSUME TypeOK, NEW c \in Clients, NEW a \in Aliases, held[c] \in Entries, StoreAlias(c, a)
    PROVE  CacheTypeOK' /\ held' \in {held, [held EXCEPT ![c] = NoEntry]}
                        /\ (a = "name" => held' = held)
  BY DEF TypeOK, CacheTypeOK, StoreAlias

LEMMA TtlType ==
    ASSUME TypeOK, Ttl
    PROVE  CacheTypeOK' /\ held' = held
  BY DEF TypeOK, CacheTypeOK, Ttl, ExpireModel, ExpireAlias

LEMMA UnchangedCacheType ==
    ASSUME TypeOK, UNCHANGED cacheVars
    PROVE  CacheTypeOK' /\ held' = held
  BY DEF TypeOK, CacheTypeOK, cacheVars

-----------------------------------------------------------------------------
(* Steps *)

(* A step of client c changes nothing that another client holds *)
Alone(c) ==
    /\ \A d \in Clients \ {c} :
          /\ pc'[d] = pc[d] /\ draft'[d] = draft[d] /\ held'[d] = held[d]
          /\ mine'[d] = mine[d] /\ pick'[d] = pick[d] /\ crowned'[d] = crowned[d]
    /\ \A m \in Models : row[m] # NoRow => row'[m] # NoRow

LEMMA OthersHold ==
    ASSUME TypeOK, Located, NEW c \in Clients, Alone(c), NEW d \in Clients \ {c}
    PROVE  Holds(d)'
<1>1. Holds(d)
  BY DEF Located
<1>2. pc[d] = "loadRow" => held[d].model \in Models
  BY <1>1 DEF Holds, HalfRead
<1>3. pick[d] # NoModel => pick[d] \in Models
  BY DEF TypeOK
<1>4. QED
  BY <1>1, <1>2, <1>3 DEF Holds, Alone

LEMMA WritersAreClients == Writers \subseteq Clients /\ Runs \subseteq Writers /\ Rollbacks \subseteq Writers
  BY ClientsAssumption DEF Writers

LEMMA MeetType ==
    ASSUME TypeOK, NEW c \in Writers, Meet(c)
    PROVE  met' \in [Writers -> SUBSET Writers]
  BY DEF TypeOK, Meet, Open

LEMMA StartType ==
    ASSUME TypeOK, Located, NEW c \in Writers, Start(c)
    PROVE  TypeOK' /\ Located' /\ Alone(c)
<1>h. Holds(c) /\ ChampionIsRegistered /\ c \in Clients
  BY WritersAreClients DEF Located
<1>m. met' \in [Writers -> SUBSET Writers]
  BY MeetType DEF Start
<1>1. CacheTypeOK'
  BY <1>h, UnchangedCacheType DEF Start, Goto, TypeOK, Holds
<1>2. TypeOK'
  BY <1>1, <1>h, <1>m DEF Start, Goto, TypeOK, Control, Holds, dbVars, sharedVars
<1>3. Alone(c)
  BY <1>h, UnchangedCacheType DEF Start, Goto, TypeOK, Alone, dbVars, sharedVars, cacheVars, Holds
<1>4. Holds(c)'
  BY <1>h, UnchangedCacheType DEF Start, Goto, TypeOK, Holds, dbVars, sharedVars, cacheVars
<1>5. ChampionIsRegistered'
  BY <1>h DEF ChampionIsRegistered, Start, dbVars
<1>6. QED
  BY <1>h, <1>2, <1>3, <1>4, <1>5, OthersHold DEF Located

LEMMA TrainType ==
    ASSUME TypeOK, Located, NEW c \in Clients, Train(c)
    PROVE  TypeOK' /\ Located' /\ Alone(c)
<1>h. Holds(c) /\ ChampionIsRegistered
  BY DEF Located
<1>1. CacheTypeOK'
  BY <1>h, UnchangedCacheType, NextTrainerType, NewRowType, CurrentIsModel
     DEF Train, Goto, TypeOK, Holds
<1>2. TypeOK'
  <2>1. CASE NextTrainer(c, "train") /\ UNCHANGED <<view, draft>>
    BY <1>1, <2>1, NextTrainerType DEF Train, TypeOK, Control, dbVars, sharedVars
  <2>2. ASSUME NEW acc \in Accuracies,
               draft' = [draft EXCEPT ![c] = [version |-> NewVersion(c), acc |-> acc, author |-> c]],
               Goto(c, "train", "save"),
               view' = [view EXCEPT ![c][Current(c)] = row[Current(c)]],
               UNCHANGED at
        PROVE  TypeOK'
    <3>1. draft' \in [Clients -> Rows \cup {NoRow}]
      BY <2>2, NewRowType DEF TypeOK
    <3>2. view' \in [Clients -> [Models -> Rows \cup {NoRow}]]
      BY <2>2, CurrentIsModel DEF TypeOK
    <3>3. QED
      BY <1>1, <2>2, <3>1, <3>2 DEF Train, TypeOK, Goto, Control, dbVars, sharedVars
  <2>3. QED
    BY <2>1, <2>2 DEF Train
<1>3. Alone(c)
  BY <1>h, UnchangedCacheType, NextTrainerType, NewRowType, CurrentIsModel
     DEF Train, Goto, TypeOK, Alone, dbVars, sharedVars, cacheVars, Holds
<1>4. Holds(c)'
  BY <1>h, UnchangedCacheType, NextTrainerType, NewRowType, CurrentIsModel
     DEF Train, Goto, TypeOK, Holds, dbVars, sharedVars, cacheVars
<1>5. ChampionIsRegistered'
  BY <1>h DEF ChampionIsRegistered, Train, dbVars
<1>6. QED
  BY <1>2, <1>3, <1>4, <1>5, OthersHold DEF Located

LEMMA SaveType ==
    ASSUME TypeOK, Located, NEW c \in Clients, Save(c)
    PROVE  TypeOK' /\ Located' /\ Alone(c)
<1>h. Holds(c) /\ ChampionIsRegistered
  BY DEF Located
<1>1. CacheTypeOK'
  BY <1>h, UnchangedCacheType, NextTrainerType, CurrentIsModel
     DEF Save, Artifact, Artifacts, Rows, Goto, TypeOK, Holds
<1>2. TypeOK'
  <2>1. draft[c] \in Rows /\ Current(c) \in Models
    BY <1>h, CurrentIsModel DEF Save, Holds, NextTrainer, Goto
  <2>2. file' \subseteq Artifacts
    BY <2>1 DEF Save, TypeOK, Artifact, Artifacts, Rows
  <2>3. at' \in [Clients -> DOMAIN Trainers] /\ pc' \in [Clients -> Control]
    BY NextTrainerType DEF Save, TypeOK, Goto, Control
  <2>4. QED
    BY <1>1, <2>2, <2>3 DEF Save, TypeOK, dbVars
<1>3. Alone(c)
  BY <1>h, UnchangedCacheType, NextTrainerType, CurrentIsModel
     DEF Save, Artifact, Artifacts, Rows, Goto, TypeOK, Alone, dbVars, sharedVars, cacheVars,
         Holds
<1>4. Holds(c)'
  BY <1>h, UnchangedCacheType, NextTrainerType, CurrentIsModel
     DEF Save, Artifact, Artifacts, Rows, Goto, TypeOK, Holds, dbVars, sharedVars, cacheVars
<1>5. ChampionIsRegistered'
  BY <1>h DEF ChampionIsRegistered, Save, Artifact, Artifacts, Rows, dbVars
<1>6. QED
  BY <1>2, <1>3, <1>4, <1>5, OthersHold DEF Located

LEMMA RegisterType ==
    ASSUME TypeOK, Located, NEW c \in Clients, Register(c)
    PROVE  TypeOK' /\ Located' /\ Alone(c)
<1>h. Holds(c) /\ ChampionIsRegistered
  BY DEF Located
<1>1. CacheTypeOK'
  BY <1>h, UnchangedCacheType, CurrentIsModel, AppendProperties
     DEF Register, Lockable, Goto, TypeOK, Holds
<1>2. TypeOK'
  BY <1>1, <1>h, CurrentIsModel, AppendProperties
     DEF Register, Lockable, Goto, TypeOK, Control, Holds, dbVars, sharedVars
<1>3. Alone(c)
  BY <1>h, UnchangedCacheType, CurrentIsModel, AppendProperties
     DEF Register, Lockable, Goto, TypeOK, Alone, dbVars, sharedVars, cacheVars, Holds
<1>4. Holds(c)'
  <2>1. pc'[c] = "dropModel"
    BY DEF Register, Goto, TypeOK
  <2>2. draft[c] \in Rows /\ Current(c) \in Models
    BY <1>h, CurrentIsModel DEF Register, Holds, Goto
  <2>3. mine' = [mine EXCEPT ![c][Current(c)] = draft[c]]
    BY DEF Register
  <2>4. pick[c] # NoModel => mine'[c][pick[c]] # NoRow \/ row[pick[c]] # NoRow
    <3>1. ASSUME pick[c] \in Models, mine[c][pick[c]] # NoRow PROVE mine'[c][pick[c]] # NoRow
      BY <2>2, <2>3, <3>1, RegistryAssumption DEF TypeOK
    <3>2. QED
      BY <3>1, <1>h DEF TypeOK, Holds
  <2>5. QED
    BY <1>h, <2>1, <2>4 DEF Register, Holds, dbVars, TypeOK
<1>5. ChampionIsRegistered'
  BY <1>h DEF ChampionIsRegistered, Register, Lockable, dbVars
<1>6. QED
  BY <1>2, <1>3, <1>4, <1>5, OthersHold DEF Located

LEMMA RegisterConflictType ==
    ASSUME TypeOK, Located, NEW c \in Clients, RegisterConflict(c)
    PROVE  TypeOK' /\ Located' /\ Alone(c)
<1>h. Holds(c) /\ ChampionIsRegistered
  BY DEF Located
<1>1. CacheTypeOK'
  BY <1>h, UnchangedCacheType DEF RegisterConflict, Goto, TypeOK, Holds
<1>2. TypeOK'
  BY <1>1, <1>h DEF RegisterConflict, Goto, TypeOK, Control, Holds, dbVars, sharedVars
<1>3. Alone(c)
  BY <1>h, UnchangedCacheType
     DEF RegisterConflict, Goto, TypeOK, Alone, dbVars, sharedVars, cacheVars, Holds
<1>4. Holds(c)'
  BY <1>h, UnchangedCacheType
     DEF RegisterConflict, Goto, TypeOK, Holds, dbVars, sharedVars, cacheVars
<1>5. ChampionIsRegistered'
  BY <1>h DEF ChampionIsRegistered, RegisterConflict, dbVars
<1>6. QED
  BY <1>2, <1>3, <1>4, <1>5, OthersHold DEF Located

LEMMA RefreshDropModelType ==
    ASSUME TypeOK, Located, NEW c \in Clients, RefreshDropModel(c)
    PROVE  TypeOK' /\ Located' /\ Alone(c)
<1>h. Holds(c) /\ ChampionIsRegistered
  BY DEF Located
<1>1. CacheTypeOK'
  BY <1>h, DropModelType, UnchangedCacheType, CurrentIsModel
     DEF RefreshDropModel, Goto, TypeOK, Holds
<1>2. TypeOK'
  BY <1>1, <1>h, CurrentIsModel
     DEF RefreshDropModel, Goto, TypeOK, Control, Holds, dbVars, sharedVars
<1>3. Alone(c)
  BY <1>h, DropModelType, UnchangedCacheType, CurrentIsModel
     DEF RefreshDropModel, Goto, TypeOK, Alone, dbVars, sharedVars, cacheVars, Holds
<1>4. Holds(c)'
  BY <1>h, DropModelType, UnchangedCacheType, CurrentIsModel
     DEF RefreshDropModel, Goto, TypeOK, Holds, dbVars, sharedVars, cacheVars
<1>5. ChampionIsRegistered'
  BY <1>h DEF ChampionIsRegistered, RefreshDropModel, dbVars
<1>6. QED
  BY <1>2, <1>3, <1>4, <1>5, OthersHold DEF Located

LEMMA LoadModelType ==
    ASSUME TypeOK, Located, NEW c \in Clients, LoadModel(c)
    PROVE  TypeOK' /\ Located' /\ Alone(c)
<1>h. Holds(c) /\ ChampionIsRegistered
  BY DEF Located
<1>1. CacheTypeOK'
  BY <1>h, ReadModelType, UnchangedCacheType, CurrentIsModel, ModelLookedUpType
     DEF LoadModel, Goto, TypeOK, Holds
<1>k. pc' \in [Clients -> Control] /\ at' \in [Clients -> DOMAIN Trainers]
  BY <1>h, ModelLookedUpType DEF LoadModel, Goto, TypeOK, Control
<1>2. TypeOK'
  BY <1>1, <1>k DEF LoadModel, TypeOK, dbVars, sharedVars
<1>t. pc \in [Clients -> Control] /\ held \in [Clients -> Entries \cup HalfRead \cup {NoEntry}]
  BY DEF TypeOK, CacheTypeOK
<1>m. Current(c) \in Models
  BY CurrentIsModel
<1>c. \/ /\ ModelLookedUp(c, "loadModel") /\ UNCHANGED cacheVars
      \/ /\ Goto(c, "loadModel", "storeModel")
         /\ ReadModel(c, Current(c))
         /\ UNCHANGED at
  BY DEF LoadModel
<1>p. \/ /\ pc'[c] \in {"train", "select", "idle"} /\ held' = held
      \/ /\ pc'[c] = "storeModel" /\ held'[c] \in Entries
  <2>1. CASE ModelLookedUp(c, "loadModel") /\ UNCHANGED cacheVars
    BY <2>1, <1>t, ModelLookedUpType DEF cacheVars
  <2>2. CASE Goto(c, "loadModel", "storeModel") /\ ReadModel(c, Current(c))
    BY <2>2, <1>m, <1>t, ReadModelType DEF Goto
  <2>3. QED
    BY <1>c, <2>1, <2>2
<1>o. \A d \in Clients \ {c} : pc'[d] = pc[d] /\ held'[d] = held[d]
  <2>1. CASE ModelLookedUp(c, "loadModel") /\ UNCHANGED cacheVars
    BY <2>1, <1>t, ModelLookedUpType DEF cacheVars
  <2>2. CASE Goto(c, "loadModel", "storeModel") /\ ReadModel(c, Current(c))
    BY <2>2, <1>m, <1>t, ReadModelType DEF Goto
  <2>3. QED
    BY <1>c, <2>1, <2>2
<1>3. Alone(c)
  BY <1>o DEF LoadModel, Alone, dbVars
<1>4. Holds(c)'
  BY <1>h, <1>p DEF LoadModel, Holds, dbVars
<1>5. ChampionIsRegistered'
  BY <1>h DEF ChampionIsRegistered, LoadModel, dbVars
<1>6. QED
  BY <1>2, <1>3, <1>4, <1>5, OthersHold DEF Located

LEMMA FillModelType ==
    ASSUME TypeOK, Located, NEW c \in Clients, FillModel(c)
    PROVE  TypeOK' /\ Located' /\ Alone(c)
<1>h. Holds(c) /\ ChampionIsRegistered
  BY DEF Located
<1>1. CacheTypeOK'
  BY <1>h, StoreModelType, UnchangedCacheType, ModelLookedUpType DEF FillModel, Goto, TypeOK, Holds
<1>e. held[c] \in Entries /\ ModelLookedUp(c, "storeModel")
  BY <1>h, ModelLookedUpType DEF FillModel, Holds
<1>f. held' = [held EXCEPT ![c] = NoEntry]
  BY <1>e, StoreModelType DEF FillModel
<1>p. /\ at' \in [Clients -> DOMAIN Trainers]
      /\ \E to \in {"train", "select", "idle"} : pc' = [pc EXCEPT ![c] = to]
  BY <1>e, ModelLookedUpType
<1>2. TypeOK'
  BY <1>1, <1>p DEF FillModel, TypeOK, Control, dbVars, sharedVars
<1>3. Alone(c)
  BY <1>f, <1>p DEF FillModel, Alone, dbVars, TypeOK, CacheTypeOK
<1>4. Holds(c)'
  BY <1>h, StoreModelType, UnchangedCacheType, ModelLookedUpType
     DEF FillModel, Goto, TypeOK, Holds, dbVars, sharedVars, cacheVars
<1>5. ChampionIsRegistered'
  BY <1>h DEF ChampionIsRegistered, FillModel, dbVars
<1>6. QED
  BY <1>2, <1>3, <1>4, <1>5, OthersHold DEF Located

LEMMA SelectType ==
    ASSUME TypeOK, Located, NEW c \in Clients, Select(c)
    PROVE  TypeOK' /\ Located' /\ Alone(c)
<1>h. Holds(c) /\ ChampionIsRegistered
  BY DEF Located
<1>1. CacheTypeOK'
  BY <1>h, UnchangedCacheType, TrainerIsModel
     DEF Select, Choose, Trained, Aliases, Goto, TypeOK, Holds
<1>2. TypeOK'
  BY <1>1, <1>h, TrainerIsModel
     DEF Select, Choose, Trained, Aliases, Goto, TypeOK, Control, Holds, dbVars, sharedVars
<1>3. Alone(c)
  BY <1>h, UnchangedCacheType, TrainerIsModel
     DEF Select, Choose, Trained, Aliases, Goto, TypeOK, Alone, dbVars, sharedVars, cacheVars,
         Holds
<1>4. Holds(c)'
  <2>1. CASE pc'[c] \in {"commit", "dropAlias"} /\ UNCHANGED pick
    BY <1>h, <2>1 DEF Select, Holds, dbVars, cacheVars
  <2>2. ASSUME NEW i \in Trained(c), NEW to \in {"crown", "promote"}, Choose(c, i, to)
        PROVE  Holds(c)'
    <3>1. pick'[c] = Trainers[i] /\ pc'[c] = to
      BY <2>2 DEF Choose, Goto, TypeOK
    <3>2. Trainers[i] \in Models /\ mine[c][Trainers[i]] # NoRow
      BY TrainerIsModel DEF Trained
    <3>3. QED
      BY <1>h, <3>1, <3>2, RegistryAssumption DEF Select, Holds, dbVars, cacheVars
  <2>3. QED
    BY <2>1, <2>2 DEF Select, Goto, TypeOK
<1>5. ChampionIsRegistered'
  BY <1>h DEF ChampionIsRegistered, Select, Choose, Trained, Aliases, dbVars
<1>6. QED
  BY <1>2, <1>3, <1>4, <1>5, OthersHold DEF Located

LEMMA CrownType ==
    ASSUME TypeOK, Located, NEW c \in Clients, Crown(c)
    PROVE  TypeOK' /\ Located' /\ Alone(c)
<1>h. Holds(c) /\ ChampionIsRegistered
  BY DEF Located
<1>1. CacheTypeOK'
  BY <1>h, UnchangedCacheType DEF Crown, Enthrone, Lockable, Aliases, Goto, TypeOK, Holds
<1>2. TypeOK'
  BY <1>1, <1>h
     DEF Crown, Enthrone, Lockable, Aliases, Goto, TypeOK, Control, Holds, dbVars, sharedVars
<1>3. Alone(c)
  BY <1>h, UnchangedCacheType
     DEF Crown, Enthrone, Lockable, Aliases, Goto, TypeOK, Alone, dbVars, sharedVars, cacheVars,
         Holds
<1>4. Holds(c)'
  BY <1>h, UnchangedCacheType
     DEF Crown, Enthrone, Lockable, Aliases, Goto, TypeOK, Holds, dbVars, sharedVars, cacheVars
<1>5. ChampionIsRegistered'
  BY <1>h DEF ChampionIsRegistered, Crown, Enthrone, Lockable, Aliases, dbVars
<1>6. QED
  BY <1>2, <1>3, <1>4, <1>5, OthersHold DEF Located

LEMMA PromoteType ==
    ASSUME TypeOK, Located, NEW c \in Clients, Promote(c)
    PROVE  TypeOK' /\ Located' /\ Alone(c)
<1>h. Holds(c) /\ ChampionIsRegistered
  BY DEF Located
<1>1. CacheTypeOK'
  BY <1>h, UnchangedCacheType DEF Promote, Enthrone, Lockable, Aliases, Goto, TypeOK, Holds
<1>2. TypeOK'
  BY <1>1, <1>h
     DEF Promote, Enthrone, Lockable, Aliases, Goto, TypeOK, Control, Holds, dbVars, sharedVars
<1>3. Alone(c)
  BY <1>h, UnchangedCacheType
     DEF Promote, Enthrone, Lockable, Aliases, Goto, TypeOK, Alone, dbVars, sharedVars,
         cacheVars, Holds
<1>4. Holds(c)'
  BY <1>h, UnchangedCacheType
     DEF Promote, Enthrone, Lockable, Aliases, Goto, TypeOK, Holds, dbVars, sharedVars,
         cacheVars
<1>5. ChampionIsRegistered'
  BY <1>h DEF ChampionIsRegistered, Promote, Enthrone, Lockable, Aliases, dbVars
<1>6. QED
  BY <1>2, <1>3, <1>4, <1>5, OthersHold DEF Located

LEMMA CrownConflictType ==
    ASSUME TypeOK, Located, NEW c \in Clients, CrownConflict(c)
    PROVE  TypeOK' /\ Located' /\ Alone(c)
<1>h. Holds(c) /\ ChampionIsRegistered
  BY DEF Located
<1>1. CacheTypeOK'
  BY <1>h, UnchangedCacheType DEF CrownConflict, Goto, TypeOK, Holds
<1>2. TypeOK'
  BY <1>1, <1>h DEF CrownConflict, Goto, TypeOK, Control, Holds, dbVars, sharedVars
<1>3. Alone(c)
  BY <1>h, UnchangedCacheType
     DEF CrownConflict, Goto, TypeOK, Alone, dbVars, sharedVars, cacheVars, Holds
<1>4. Holds(c)'
  BY <1>h, UnchangedCacheType DEF CrownConflict, Goto, TypeOK, Holds, dbVars, sharedVars, cacheVars
<1>5. ChampionIsRegistered'
  BY <1>h DEF ChampionIsRegistered, CrownConflict, dbVars
<1>6. QED
  BY <1>2, <1>3, <1>4, <1>5, OthersHold DEF Located

LEMMA RefreshDropAliasType ==
    ASSUME TypeOK, Located, NEW c \in Clients, RefreshDropAlias(c)
    PROVE  TypeOK' /\ Located' /\ Alone(c)
<1>h. Holds(c) /\ ChampionIsRegistered
  BY DEF Located
<1>1. CacheTypeOK'
  BY <1>h, DropAliasType, UnchangedCacheType DEF RefreshDropAlias, Goto, TypeOK, Holds
<1>2. TypeOK'
  BY <1>1, <1>h DEF RefreshDropAlias, Goto, TypeOK, Control, Holds, dbVars, sharedVars
<1>3. Alone(c)
  BY <1>h, DropAliasType, UnchangedCacheType
     DEF RefreshDropAlias, Goto, TypeOK, Alone, dbVars, sharedVars, cacheVars, Holds
<1>4. Holds(c)'
  BY <1>h, DropAliasType, UnchangedCacheType
     DEF RefreshDropAlias, Goto, TypeOK, Holds, dbVars, sharedVars, cacheVars
<1>5. ChampionIsRegistered'
  BY <1>h DEF ChampionIsRegistered, RefreshDropAlias, dbVars
<1>6. QED
  BY <1>2, <1>3, <1>4, <1>5, OthersHold DEF Located

LEMMA LoadAliasType ==
    ASSUME TypeOK, Located, NEW c \in Clients, LoadAlias(c)
    PROVE  TypeOK' /\ Located' /\ Alone(c)
<1>h. Holds(c) /\ ChampionIsRegistered
  BY DEF Located
<1>1. CacheTypeOK'
  BY <1>h, ReadChampionType, UnchangedCacheType, AliasLookedUpType
     DEF LoadAlias, Goto, TypeOK, Holds
<1>a. target[c] \in Aliases
  BY DEF TypeOK
<1>c. \/ AliasLookedUp(c, "loadAlias") /\ UNCHANGED cacheVars
      \/ /\ Goto(c, "loadAlias", "loadRow")
         /\ ReadChampion(c, target[c])
         /\ UNCHANGED target
  BY DEF LoadAlias
<1>p. /\ target' \in [Clients -> Aliases]
      /\ \E to \in {"idle", "dropAlias", "commit", "loadRow"} : pc' = [pc EXCEPT ![c] = to]
  BY <1>c, AliasLookedUpType DEF Goto, TypeOK
<1>q. \/ /\ pc'[c] \in {"idle", "dropAlias", "commit"} /\ held' = held
      \/ /\ pc'[c] = "loadRow"
         /\ champion \in Models
         /\ held' = [held EXCEPT ![c] = [model |-> champion, row |-> NoRow]]
  BY <1>a, <1>c, AliasLookedUpType, ReadChampionType DEF cacheVars, Goto, TypeOK
<1>2. TypeOK'
  BY <1>1, <1>p DEF LoadAlias, TypeOK, Control, dbVars, sharedVars
<1>3. Alone(c)
  BY <1>p, <1>q DEF LoadAlias, Alone, dbVars, TypeOK, CacheTypeOK
<1>4. Holds(c)'
  <2>1. CASE pc'[c] \in {"idle", "dropAlias", "commit"} /\ held' = held
    BY <1>h, <2>1 DEF LoadAlias, Holds, dbVars
  <2>2. CASE /\ pc'[c] = "loadRow"
             /\ champion \in Models
             /\ held' = [held EXCEPT ![c] = [model |-> champion, row |-> NoRow]]
    <3>1. held'[c] = [model |-> champion, row |-> NoRow]
      BY <2>2 DEF TypeOK, CacheTypeOK
    <3>2. held'[c] \in HalfRead /\ row[held'[c].model] # NoRow
      BY <1>h, <2>2, <3>1, RegistryAssumption DEF HalfRead, ChampionIsRegistered
    <3>3. QED
      BY <1>h, <2>2, <3>2 DEF LoadAlias, Holds, dbVars
  <2>3. QED
    BY <1>q, <2>1, <2>2
<1>5. ChampionIsRegistered'
  BY <1>h DEF ChampionIsRegistered, LoadAlias, dbVars
<1>6. QED
  BY <1>2, <1>3, <1>4, <1>5, OthersHold DEF Located

LEMMA LoadRowType ==
    ASSUME TypeOK, Located, NEW c \in Clients, LoadRow(c)
    PROVE  TypeOK' /\ Located' /\ Alone(c)
<1>h. Holds(c) /\ ChampionIsRegistered
  BY DEF Located
<1>1. CacheTypeOK'
  BY <1>h, ReadChampionRowType, UnchangedCacheType DEF LoadRow, Goto, TypeOK, Holds
<1>2. TypeOK'
  BY <1>1, <1>h DEF LoadRow, Goto, TypeOK, Control, Holds, dbVars, sharedVars
<1>3. Alone(c)
  BY <1>h, ReadChampionRowType, UnchangedCacheType
     DEF LoadRow, Goto, TypeOK, Alone, dbVars, sharedVars, cacheVars, Holds
<1>4. Holds(c)'
  BY <1>h, ReadChampionRowType, UnchangedCacheType
     DEF LoadRow, Goto, TypeOK, Holds, dbVars, sharedVars, cacheVars
<1>5. ChampionIsRegistered'
  BY <1>h DEF ChampionIsRegistered, LoadRow, dbVars
<1>6. QED
  BY <1>2, <1>3, <1>4, <1>5, OthersHold DEF Located

LEMMA FillNameType ==
    ASSUME TypeOK, Located, NEW c \in Clients, FillName(c)
    PROVE  TypeOK' /\ Located' /\ Alone(c)
<1>h. Holds(c) /\ ChampionIsRegistered
  BY DEF Located
<1>1. CacheTypeOK'
  BY <1>h, StoreAliasType, UnchangedCacheType DEF FillName, Aliases, Goto, TypeOK, Holds
<1>2. TypeOK'
  BY <1>1, <1>h DEF FillName, Aliases, Goto, TypeOK, Control, Holds, dbVars, sharedVars
<1>3. Alone(c)
  BY <1>h, StoreAliasType, UnchangedCacheType
     DEF FillName, Aliases, Goto, TypeOK, Alone, dbVars, sharedVars, cacheVars, Holds
<1>4. Holds(c)'
  BY <1>h, StoreAliasType, UnchangedCacheType
     DEF FillName, Aliases, Goto, TypeOK, Holds, dbVars, sharedVars, cacheVars
<1>5. ChampionIsRegistered'
  BY <1>h DEF ChampionIsRegistered, FillName, Aliases, dbVars
<1>6. QED
  BY <1>2, <1>3, <1>4, <1>5, OthersHold DEF Located

LEMMA FillIdType ==
    ASSUME TypeOK, Located, NEW c \in Clients, FillId(c)
    PROVE  TypeOK' /\ Located' /\ Alone(c)
<1>h. Holds(c) /\ ChampionIsRegistered
  BY DEF Located
<1>1. CacheTypeOK'
  BY <1>h, StoreAliasType, UnchangedCacheType, AliasLookedUpType
     DEF FillId, Aliases, Goto, TypeOK, Holds
<1>e. held[c] \in Entries /\ AliasLookedUp(c, "storeId") /\ "id" \in Aliases
  BY <1>h, AliasLookedUpType DEF FillId, Holds, Aliases
<1>f. held' \in {held, [held EXCEPT ![c] = NoEntry]}
  BY <1>e, StoreAliasType DEF FillId
<1>p. /\ target' \in [Clients -> Aliases]
      /\ \E to \in {"idle", "dropAlias", "commit"} : pc' = [pc EXCEPT ![c] = to]
  BY <1>e, AliasLookedUpType
<1>2. TypeOK'
  BY <1>1, <1>p DEF FillId, TypeOK, Control, dbVars, sharedVars
<1>3. Alone(c)
  BY <1>f, <1>p DEF FillId, Alone, dbVars, TypeOK, CacheTypeOK
<1>4. Holds(c)'
  BY <1>h, StoreAliasType, UnchangedCacheType, AliasLookedUpType
     DEF FillId, Aliases, Goto, TypeOK, Holds, dbVars, sharedVars, cacheVars
<1>5. ChampionIsRegistered'
  BY <1>h DEF ChampionIsRegistered, FillId, Aliases, dbVars
<1>6. QED
  BY <1>2, <1>3, <1>4, <1>5, OthersHold DEF Located

LEMMA AskType ==
    ASSUME TypeOK, Located, NEW c \in Clients, Ask(c)
    PROVE  TypeOK' /\ Located' /\ Alone(c)
<1>h. Holds(c) /\ ChampionIsRegistered
  BY DEF Located
<1>1. CacheTypeOK'
  BY <1>h, UnchangedCacheType DEF Ask, Goto, TypeOK, Holds
<1>2. TypeOK'
  <2>1. /\ at' \in [Clients -> DOMAIN Trainers]
        /\ target' \in [Clients -> Aliases]
        /\ pc' \in [Clients -> Control]
    <3>1. CASE /\ Goto(c, "idle", "loadAlias")
               /\ \E a \in Aliases : target' = [target EXCEPT ![c] = a]
               /\ UNCHANGED at
      BY <3>1 DEF Goto, TypeOK, Control
    <3>2. CASE /\ Goto(c, "idle", "loadModel")
               /\ \E i \in DOMAIN Trainers : at' = [at EXCEPT ![c] = i]
               /\ UNCHANGED target
      BY <3>2 DEF Goto, TypeOK, Control
    <3>3. QED
      BY <3>1, <3>2 DEF Ask
  <2>2. QED
    BY <1>1, <2>1 DEF Ask, TypeOK, dbVars, sharedVars
<1>3. Alone(c)
  BY <1>h, UnchangedCacheType DEF Ask, Goto, TypeOK, Alone, dbVars, sharedVars, cacheVars, Holds
<1>4. Holds(c)'
  BY <1>h, UnchangedCacheType DEF Ask, Goto, TypeOK, Holds, dbVars, sharedVars, cacheVars
<1>5. ChampionIsRegistered'
  BY <1>h DEF ChampionIsRegistered, Ask, dbVars
<1>6. QED
  BY <1>2, <1>3, <1>4, <1>5, OthersHold DEF Located

LEMMA CommitType ==
    ASSUME TypeOK, Located, NEW c \in Clients, Commit(c)
    PROVE  TypeOK' /\ Located' /\ Alone(c)
<1>h. Holds(c) /\ ChampionIsRegistered
  BY DEF Located
<1>1. CacheTypeOK'
  BY <1>h, UnchangedCacheType DEF Commit, Release, NoRows, Goto, TypeOK, Holds
<1>2. TypeOK'
  BY <1>1, <1>h DEF Commit, Release, NoRows, Goto, TypeOK, Control, Holds, dbVars, sharedVars
<1>3. Alone(c)
  BY <1>h, UnchangedCacheType
     DEF Commit, Release, NoRows, Goto, TypeOK, Alone, dbVars, sharedVars, cacheVars, Holds
<1>4. Holds(c)'
  BY <1>h, UnchangedCacheType
     DEF Commit, Release, NoRows, Goto, TypeOK, Holds, dbVars, sharedVars, cacheVars
<1>5. ChampionIsRegistered'
  <2>1. CASE crowned[c]
    <3>1. pick[c] \in Models /\ champion' = pick[c]
      BY <1>h, <2>1 DEF Commit, Holds, TypeOK
    <3>2. mine[c][pick[c]] # NoRow \/ row[pick[c]] # NoRow
      BY <1>h, <3>1, RegistryAssumption DEF Holds
    <3>3. row'[pick[c]] # NoRow
      BY <3>1, <3>2 DEF Commit
    <3>4. QED
      BY <3>1, <3>3 DEF ChampionIsRegistered
  <2>2. CASE ~crowned[c]
    <3>1. champion' = champion /\ (champion # NoModel => champion \in Models)
      BY <2>2 DEF Commit, TypeOK
    <3>2. QED
      BY <1>h, <3>1 DEF Commit, ChampionIsRegistered
  <2>3. QED
    BY <2>1, <2>2
<1>6. QED
  BY <1>2, <1>3, <1>4, <1>5, OthersHold DEF Located

LEMMA CommitFailsType ==
    ASSUME TypeOK, Located, NEW c \in Clients, CommitFails(c)
    PROVE  TypeOK' /\ Located' /\ Alone(c)
<1>h. Holds(c) /\ ChampionIsRegistered
  BY DEF Located
<1>1. CacheTypeOK'
  BY <1>h, UnchangedCacheType DEF CommitFails, Goto, TypeOK, Holds
<1>2. TypeOK'
  BY <1>1, <1>h DEF CommitFails, Goto, TypeOK, Control, Holds, dbVars, sharedVars
<1>3. Alone(c)
  BY <1>h, UnchangedCacheType
     DEF CommitFails, Goto, TypeOK, Alone, dbVars, sharedVars, cacheVars, Holds
<1>4. Holds(c)'
  BY <1>h, UnchangedCacheType DEF CommitFails, Goto, TypeOK, Holds, dbVars, sharedVars, cacheVars
<1>5. ChampionIsRegistered'
  BY <1>h DEF ChampionIsRegistered, CommitFails, dbVars
<1>6. QED
  BY <1>2, <1>3, <1>4, <1>5, OthersHold DEF Located

LEMMA AbortType ==
    ASSUME TypeOK, Located, NEW c \in Clients, Abort(c)
    PROVE  TypeOK' /\ Located' /\ Alone(c)
<1>h. Holds(c) /\ ChampionIsRegistered
  BY DEF Located
<1>1. CacheTypeOK'
  BY <1>h, UnchangedCacheType DEF Abort, Goto, TypeOK, Holds
<1>2. TypeOK'
  BY <1>1, <1>h DEF Abort, Goto, TypeOK, Control, Holds, dbVars, sharedVars
<1>3. Alone(c)
  BY <1>h, UnchangedCacheType DEF Abort, Goto, TypeOK, Alone, dbVars, sharedVars, cacheVars, Holds
<1>4. Holds(c)'
  BY <1>h, UnchangedCacheType DEF Abort, Goto, TypeOK, Holds, dbVars, sharedVars, cacheVars
<1>5. ChampionIsRegistered'
  BY <1>h DEF ChampionIsRegistered, Abort, dbVars
<1>6. QED
  BY <1>2, <1>3, <1>4, <1>5, OthersHold DEF Located

LEMMA RollbackType ==
    ASSUME TypeOK, Located, NEW c \in Clients, Rollback(c)
    PROVE  TypeOK' /\ Located' /\ Alone(c)
<1>h. Holds(c) /\ ChampionIsRegistered
  BY DEF Located
<1>1. CacheTypeOK'
  BY <1>h, UnchangedCacheType DEF Rollback, Release, NoRows, Goto, TypeOK, Holds
<1>2. TypeOK'
  BY <1>1, <1>h DEF Rollback, Release, NoRows, Goto, TypeOK, Control, Holds, dbVars, sharedVars
<1>3. Alone(c)
  BY <1>h, UnchangedCacheType
     DEF Rollback, Release, NoRows, Goto, TypeOK, Alone, dbVars, sharedVars, cacheVars, Holds
<1>4. Holds(c)'
  BY <1>h, UnchangedCacheType
     DEF Rollback, Release, NoRows, Goto, TypeOK, Holds, dbVars, sharedVars, cacheVars
<1>5. ChampionIsRegistered'
  BY <1>h DEF ChampionIsRegistered, Rollback, Release, NoRows, dbVars
<1>6. QED
  BY <1>2, <1>3, <1>4, <1>5, OthersHold DEF Located

LEMMA RollbackBeginType ==
    ASSUME TypeOK, Located, NEW c \in Writers, RollbackBegin(c)
    PROVE  TypeOK' /\ Located' /\ Alone(c)
<1>h. Holds(c) /\ ChampionIsRegistered /\ c \in Clients
  BY WritersAreClients DEF Located
<1>m. met' \in [Writers -> SUBSET Writers]
  BY MeetType DEF RollbackBegin, TypeOK
<1>1. CacheTypeOK'
  BY <1>h, UnchangedCacheType DEF RollbackBegin, IsNewest, Goto, TypeOK, Holds
<1>p. \/ /\ Goto(c, "idle", "touch")
         /\ \E m \in Models : row[m] # NoRow /\ pick' = [pick EXCEPT ![c] = m]
      \/ Goto(c, "idle", "done") /\ UNCHANGED pick
  <2>1. \A i \in DOMAIN born : born[i] \in Models
    BY LenProperties DEF TypeOK
  <2>2. QED
    BY <2>1 DEF RollbackBegin, IsNewest
<1>2. TypeOK'
  <2>1. pick' \in [Clients -> Models \cup {NoModel}] /\ pc' \in [Clients -> Control]
    <3>1. CASE Goto(c, "idle", "done") /\ UNCHANGED pick
      BY <1>h, <3>1 DEF Goto, TypeOK, Control
    <3>2. CASE /\ Goto(c, "idle", "touch")
               /\ \E m \in Models : row[m] # NoRow /\ pick' = [pick EXCEPT ![c] = m]
      BY <1>h, <3>2 DEF Goto, TypeOK, Control
    <3>3. QED
      BY <1>p, <3>1, <3>2
  <2>2. QED
    BY <1>1, <1>m, <2>1 DEF RollbackBegin, TypeOK, dbVars, sharedVars
<1>3. Alone(c)
  BY <1>h, UnchangedCacheType
     DEF RollbackBegin, IsNewest, Goto, TypeOK, Alone, dbVars, sharedVars, cacheVars, Holds
<1>4. Holds(c)'
  <2>1. CASE Goto(c, "idle", "done") /\ UNCHANGED pick
    BY <1>h, <2>1 DEF RollbackBegin, Goto, TypeOK, Holds, dbVars, cacheVars
  <2>2. ASSUME NEW m \in Models, row[m] # NoRow, pick' = [pick EXCEPT ![c] = m],
               Goto(c, "idle", "touch")
        PROVE  Holds(c)'
    <3>1. pick'[c] = m /\ pc'[c] = "touch"
      BY <1>h, <2>2 DEF Goto, TypeOK
    <3>2. QED
      BY <1>h, <2>2, <3>1, RegistryAssumption DEF RollbackBegin, Holds, dbVars, cacheVars
  <2>3. QED
    BY <1>p, <2>1, <2>2
<1>5. ChampionIsRegistered'
  BY <1>h DEF ChampionIsRegistered, RollbackBegin, IsNewest, dbVars
<1>6. QED
  BY <1>h, <1>2, <1>3, <1>4, <1>5, OthersHold DEF Located

LEMMA RollbackTouchType ==
    ASSUME TypeOK, Located, NEW c \in Clients, RollbackTouch(c)
    PROVE  TypeOK' /\ Located' /\ Alone(c)
<1>h. Holds(c) /\ ChampionIsRegistered
  BY DEF Located
<1>1. CacheTypeOK'
  BY <1>h, UnchangedCacheType DEF RollbackTouch, Lockable, Goto, TypeOK, Holds
<1>2. TypeOK'
  BY <1>1, <1>h DEF RollbackTouch, Lockable, Goto, TypeOK, Control, Holds, dbVars, sharedVars
<1>3. Alone(c)
  BY <1>h, UnchangedCacheType
     DEF RollbackTouch, Lockable, Goto, TypeOK, Alone, dbVars, sharedVars, cacheVars, Holds
<1>4. Holds(c)'
  BY <1>h, UnchangedCacheType
     DEF RollbackTouch, Lockable, Goto, TypeOK, Holds, dbVars, sharedVars, cacheVars
<1>5. ChampionIsRegistered'
  BY <1>h DEF ChampionIsRegistered, RollbackTouch, Lockable, dbVars
<1>6. QED
  BY <1>2, <1>3, <1>4, <1>5, OthersHold DEF Located

LEMMA TtlStepType ==
    ASSUME TypeOK, Located, Ttl
    PROVE  TypeOK' /\ Located'
<1>1. CacheTypeOK' /\ held' = held /\ UNCHANGED dbVars
  BY TtlType DEF Ttl, ExpireModel, ExpireAlias
<1>2. QED
  BY <1>1 DEF Ttl, txVars, sharedVars, dbVars, TypeOK, Located, Holds, ChampionIsRegistered

LEMMA TypeInit == Init => TypeOK /\ Located
<1> SUFFICES ASSUME Init PROVE TypeOK /\ Located
  OBVIOUS
<1>1. 1 \in DOMAIN Trainers
  BY TrainersCount, RegistryAssumption, EmptySeq
<1>2. << >> \in Seq(Models)
  OBVIOUS
<1>3. QED
  BY <1>1, <1>2 DEF Init, CacheInit, TypeOK, CacheTypeOK, Control, Aliases, NoRows, Located,
     Holds, ChampionIsRegistered

LEMMA NextType == TypeOK /\ Located /\ [Next]_vars => TypeOK' /\ Located'
<1> SUFFICES ASSUME TypeOK, Located, [Next]_vars PROVE TypeOK' /\ Located'
  OBVIOUS
<1>r. Runs \subseteq Clients /\ Rollbacks \subseteq Clients /\ Readers \subseteq Clients
  BY ClientsAssumption
<1>1. ASSUME NEW c \in Runs, Start(c) PROVE TypeOK' /\ Located'
  BY <1>1, WritersAreClients, StartType
<1>2. ASSUME NEW b \in Rollbacks, RollbackBegin(b) PROVE TypeOK' /\ Located'
  BY <1>2, WritersAreClients, RollbackBeginType
<1>3. ASSUME NEW r \in Readers, Ask(r) PROVE TypeOK' /\ Located'
  BY <1>3, <1>r, AskType
<1>4. ASSUME NEW c \in Clients, RunStep(c) PROVE TypeOK' /\ Located'
  BY <1>4, TrainType, SaveType, RegisterType, RegisterConflictType, RefreshDropModelType,
     SelectType, CrownType, CrownConflictType, RefreshDropAliasType DEF RunStep
<1>5. ASSUME NEW c \in Clients, LookupStep(c) PROVE TypeOK' /\ Located'
  BY <1>5, LoadModelType, FillModelType, LoadAliasType, LoadRowType, FillNameType, FillIdType
     DEF LookupStep
<1>6. ASSUME NEW c \in Clients, TxStep(c) \/ Failure(c) \/ RollbackTouch(c) PROVE TypeOK' /\ Located'
  BY <1>6, PromoteType, CommitType, CommitFailsType, AbortType, RollbackType, RollbackTouchType
     DEF TxStep, Failure
<1>7. CASE Ttl
  BY <1>7, TtlStepType
<1>8. CASE UNCHANGED vars
  BY <1>8 DEF vars, dbVars, cacheVars, txVars, sharedVars, TypeOK, CacheTypeOK, Located, Holds,
     ChampionIsRegistered
<1>9. QED
  BY <1>1, <1>2, <1>3, <1>4, <1>5, <1>6, <1>7, <1>8, <1>r DEF Next, Progress, Writers

(* The type invariant: every variable keeps its shape, what a client reads *)
(* or stores next is what its place says, and the champion is a committed  *)
(* model row.                                                              *)
THEOREM RegistryTypeCorrect == Spec => [](TypeOK /\ Located)
<1>1. Init => TypeOK /\ Located
  BY TypeInit
<1>2. TypeOK /\ Located /\ [Next]_vars => (TypeOK /\ Located)'
  BY NextType
<1>3. QED
  BY <1>1, <1>2, PTL DEF Spec

-----------------------------------------------------------------------------
(* Redis holds committed rows only *)

(* Between a read of PostgreSQL and the last write of it to Redis *)
Reading == {"storeModel", "loadRow", "storeName", "storeId"}

(* What a client will write to Redis has been committed *)
HoldsCommitted(c) ==
    /\ pc[c] \in Reading \ {"loadRow"} => held[c].row \in past[held[c].model]
    /\ pc[c] \in Reading \ {"storeModel"} => held[c].model \in reigned

(* The committed rows and the champion are in the history *)
Recorded ==
    /\ \A m \in Models : row[m] # NoRow => row[m] \in past[m]
    /\ champion # NoModel => champion \in reigned

Committed == Recorded /\ (\A c \in Clients : HoldsCommitted(c)) /\ CacheServesCommitted

(* A step that adds nothing to Redis and begins no read *)
Forgets ==
    /\ UNCHANGED <<dbVars, held, past, reigned>>
    /\ \A m \in Models : cached'[m] \in {cached[m], NoRow}
    /\ \A a \in Aliases : alias'[a] \in {alias[a], NoEntry}
    /\ \A d \in Clients : pc'[d] \in Reading => pc'[d] = pc[d]

LEMMA ForgetfulStep ==
    ASSUME TypeOK, Committed, Forgets
    PROVE  Committed'
<1>1. Recorded'
  BY DEF Committed, Recorded, Forgets, dbVars
<1>2. \A c \in Clients : HoldsCommitted(c)'
  BY DEF Committed, HoldsCommitted, Forgets
<1>3. CacheServesCommitted'
  BY DEF Committed, CacheServesCommitted, Forgets
<1>4. QED
  BY <1>1, <1>2, <1>3 DEF Committed

(* The history only grows, and other clients keep what they hold *)
LEMMA OthersHoldCommitted ==
    ASSUME TypeOK, Located, Committed, NEW c \in Clients, Alone(c),
           \A m \in Models : past[m] \subseteq past'[m],
           reigned \subseteq reigned',
           NEW d \in Clients \ {c}
    PROVE  HoldsCommitted(d)'
<1>1. HoldsCommitted(d) /\ Holds(d)
  BY DEF Committed, Located
<1>2. pc[d] \in Reading => held[d].model \in Models
  BY <1>1 DEF Holds, Reading, Entries, HalfRead
<1>3. QED
  BY <1>1, <1>2 DEF HoldsCommitted, Alone

LEMMA PassiveStep ==
    ASSUME TypeOK, NEW c \in Clients,
           \/ Start(c) \/ Train(c) \/ Save(c) \/ Register(c) \/ RegisterConflict(c)
           \/ Select(c) \/ Crown(c) \/ Promote(c) \/ CrownConflict(c) \/ Ask(c)
           \/ CommitFails(c) \/ Abort(c) \/ Rollback(c) \/ RollbackBegin(c) \/ RollbackTouch(c)
    PROVE  Forgets
<1>1. UNCHANGED <<dbVars, cacheVars, past, reigned>>
  BY DEF Start, Train, Save, Register, RegisterConflict, Select, Crown, Promote, Enthrone,
     CrownConflict, Ask, CommitFails, Abort, Rollback, RollbackBegin, RollbackTouch, sharedVars
<1>2. \E to \in Control \ Reading : pc' = [pc EXCEPT ![c] = to]
  BY DEF Start, Train, Save, Register, RegisterConflict, Select, Choose, Crown, Promote, Enthrone,
     CrownConflict, Ask, CommitFails, Abort, Rollback, RollbackBegin, RollbackTouch, NextTrainer,
     Goto, Control, Reading
<1>3. QED
  BY <1>1, <1>2 DEF Forgets, TypeOK, cacheVars

LEMMA DroppingStep ==
    ASSUME TypeOK, NEW c \in Clients, RefreshDropModel(c) \/ RefreshDropAlias(c)
    PROVE  Forgets
<1>1. UNCHANGED <<dbVars, held, past, reigned>>
  BY DEF RefreshDropModel, RefreshDropAlias, DropModel, DropAlias, sharedVars
<1>2. /\ \A m \in Models : cached'[m] \in {cached[m], NoRow}
      /\ \A a \in Aliases : alias'[a] \in {alias[a], NoEntry}
  BY DEF RefreshDropModel, RefreshDropAlias, DropModel, DropAlias, TypeOK, CacheTypeOK
<1>3. \A d \in Clients : pc'[d] \in Reading => pc'[d] = pc[d]
  BY DEF RefreshDropModel, RefreshDropAlias, Goto, Reading, TypeOK
<1>4. QED
  BY <1>1, <1>2, <1>3 DEF Forgets

LEMMA CommittedLoadModel ==
    ASSUME TypeOK, Located, Committed, NEW c \in Clients, LoadModel(c)
    PROVE  Committed'
<1>1. CASE ModelLookedUp(c, "loadModel") /\ UNCHANGED cacheVars
  <2>1. Forgets
    BY <1>1, ModelLookedUpType DEF LoadModel, Forgets, cacheVars, sharedVars, Reading, TypeOK
  <2>2. QED
    BY <2>1, ForgetfulStep
<1>2. CASE Goto(c, "loadModel", "storeModel") /\ ReadModel(c, Current(c))
  <2>1. Current(c) \in Models /\ Alone(c)
    BY CurrentIsModel, LoadModelType
  <2>2. held'[c] = [model |-> Current(c), row |-> row[Current(c)]] /\ pc'[c] = "storeModel"
    BY <1>2, <2>1, ReadModelType DEF Goto, TypeOK, CacheTypeOK
  <2>3. row[Current(c)] \in past[Current(c)]
    BY <1>2, <2>1 DEF ReadModel, Committed, Recorded
  <2>4. UNCHANGED <<dbVars, cached, alias, past, reigned>>
    BY <1>2 DEF LoadModel, ReadModel, sharedVars
  <2>5. HoldsCommitted(c)'
    BY <2>2, <2>3, <2>4 DEF HoldsCommitted, Reading
  <2>6. \A d \in Clients \ {c} : HoldsCommitted(d)'
    BY <2>1, <2>4, OthersHoldCommitted
  <2>7. QED
    BY <2>4, <2>5, <2>6 DEF Committed, Recorded, CacheServesCommitted, dbVars
<1>3. QED
  BY <1>1, <1>2 DEF LoadModel

LEMMA CommittedFillModel ==
    ASSUME TypeOK, Located, Committed, NEW c \in Clients, FillModel(c)
    PROVE  Committed'
<1>1. ModelLookedUp(c, "storeModel") /\ StoreModel(c) /\ Alone(c)
  BY FillModelType DEF FillModel
<1>2. pc[c] = "storeModel" /\ pc'[c] \notin Reading
  BY <1>1, ModelLookedUpType DEF TypeOK, Reading
<1>3. held[c].model \in Models /\ held[c].row \in past[held[c].model]
  BY <1>2 DEF Located, Holds, Entries, Committed, HoldsCommitted, Reading
<1>4. UNCHANGED <<dbVars, alias, past, reigned>>
  BY <1>1 DEF FillModel, StoreModel, sharedVars
<1>5. \A m \in Models : cached'[m] \in {cached[m]} \cup (IF m = held[c].model THEN {held[c].row} ELSE {})
  BY <1>1, <1>3 DEF StoreModel, TypeOK, CacheTypeOK
<1>6. CacheServesCommitted'
  BY <1>3, <1>4, <1>5 DEF Committed, CacheServesCommitted
<1>7. \A d \in Clients : HoldsCommitted(d)'
  BY <1>1, <1>2, <1>4, OthersHoldCommitted DEF HoldsCommitted
<1>8. QED
  BY <1>4, <1>6, <1>7 DEF Committed, Recorded, dbVars

LEMMA CommittedLoadAlias ==
    ASSUME TypeOK, Located, Committed, NEW c \in Clients, LoadAlias(c)
    PROVE  Committed'
<1>1. CASE AliasLookedUp(c, "loadAlias") /\ UNCHANGED cacheVars
  <2>1. Forgets
    BY <1>1, AliasLookedUpType DEF LoadAlias, Forgets, cacheVars, sharedVars, Reading, TypeOK
  <2>2. QED
    BY <2>1, ForgetfulStep
<1>2. CASE Goto(c, "loadAlias", "loadRow") /\ ReadChampion(c, target[c])
  <2>1. target[c] \in Aliases /\ Alone(c)
    BY LoadAliasType DEF TypeOK
  <2>2. held'[c] = [model |-> champion, row |-> NoRow] /\ pc'[c] = "loadRow"
    BY <1>2, <2>1, ReadChampionType DEF Goto, TypeOK, CacheTypeOK
  <2>3. champion \in reigned
    BY <1>2 DEF ReadChampion, Committed, Recorded
  <2>4. UNCHANGED <<dbVars, cached, alias, past, reigned>>
    BY <1>2 DEF LoadAlias, ReadChampion, sharedVars
  <2>5. HoldsCommitted(c)'
    BY <2>2, <2>3, <2>4 DEF HoldsCommitted, Reading
  <2>6. \A d \in Clients \ {c} : HoldsCommitted(d)'
    BY <2>1, <2>4, OthersHoldCommitted
  <2>7. QED
    BY <2>4, <2>5, <2>6 DEF Committed, Recorded, CacheServesCommitted, dbVars
<1>3. QED
  BY <1>1, <1>2 DEF LoadAlias

LEMMA CommittedLoadRow ==
    ASSUME TypeOK, Located, Committed, NEW c \in Clients, LoadRow(c)
    PROVE  Committed'
<1>1. Alone(c) /\ pc[c] = "loadRow" /\ pc'[c] = "storeName" /\ ReadChampionRow(c)
  BY LoadRowType DEF LoadRow, Goto, TypeOK
<1>2. held[c] \in HalfRead /\ row[held[c].model] # NoRow /\ held[c].model \in reigned
  BY <1>1 DEF Located, Holds, Committed, HoldsCommitted, Reading
<1>3. held'[c] = [model |-> held[c].model, row |-> row[held[c].model]] /\ held[c].model \in Models
  BY <1>1, <1>2, ReadChampionRowType DEF HalfRead
<1>4. UNCHANGED <<dbVars, cached, alias, past, reigned>>
  BY DEF LoadRow, ReadChampionRow, sharedVars
<1>5. row[held[c].model] \in past[held[c].model]
  BY <1>2, <1>3 DEF Committed, Recorded
<1>6. HoldsCommitted(c)'
  BY <1>1, <1>2, <1>3, <1>4, <1>5 DEF HoldsCommitted, Reading
<1>7. \A d \in Clients \ {c} : HoldsCommitted(d)'
  BY <1>1, <1>4, OthersHoldCommitted
<1>8. QED
  BY <1>4, <1>6, <1>7 DEF Committed, Recorded, CacheServesCommitted, dbVars

LEMMA CommittedFillAlias ==
    ASSUME TypeOK, Located, Committed, NEW c \in Clients, FillName(c) \/ FillId(c)
    PROVE  Committed'
<1>1. Alone(c)
  BY FillNameType, FillIdType
<1>2. /\ pc[c] \in {"storeName", "storeId"}
      /\ pc'[c] \in Reading => pc'[c] = "storeId" /\ held' = held
  BY AliasLookedUpType DEF FillName, FillId, Goto, TypeOK, Reading, StoreAlias
<1>3. PICK a \in Aliases : alias' \in {alias, [alias EXCEPT ![a] = held[c]]}
  BY DEF FillName, FillId, StoreAlias, Aliases
<1>4. held[c].model \in reigned /\ held[c].row \in past[held[c].model]
  BY <1>2 DEF Committed, HoldsCommitted, Reading
<1>5. UNCHANGED <<dbVars, cached, past, reigned>>
  BY DEF FillName, FillId, StoreAlias, sharedVars
<1>6. \A b \in Aliases : alias'[b] \in {alias[b], held[c]}
  BY <1>3 DEF TypeOK, CacheTypeOK
<1>7. CacheServesCommitted'
  BY <1>4, <1>5, <1>6 DEF Committed, CacheServesCommitted
<1>8. HoldsCommitted(c)'
  BY <1>2, <1>4, <1>5 DEF HoldsCommitted, Reading
<1>9. \A d \in Clients \ {c} : HoldsCommitted(d)'
  BY <1>1, <1>5, OthersHoldCommitted
<1>10. QED
  BY <1>5, <1>7, <1>8, <1>9 DEF Committed, Recorded, dbVars

LEMMA CommittedCommit ==
    ASSUME TypeOK, Located, Committed, NEW c \in Clients, Commit(c)
    PROVE  Committed'
<1>1. Alone(c) /\ pc'[c] = "done"
  BY CommitType DEF Commit, Goto, TypeOK
<1>2. \A m \in Models : past'[m] = past[m] \cup ({mine[c][m]} \ {NoRow})
  BY DEF Commit
<1>3. reigned \subseteq reigned' /\ (crowned[c] => pick[c] \in reigned')
  BY DEF Commit
<1>4. \A m \in Models : row'[m] = IF mine[c][m] # NoRow THEN mine[c][m] ELSE row[m]
  BY DEF Commit
<1>5. Recorded'
  BY <1>2, <1>3, <1>4 DEF Commit, Committed, Recorded
<1>6. \A d \in Clients : HoldsCommitted(d)'
  BY <1>1, <1>2, <1>3, OthersHoldCommitted DEF HoldsCommitted, Reading
<1>7. CacheServesCommitted'
  <2>1. UNCHANGED <<cached, alias>>
    BY DEF Commit, cacheVars
  <2>2. \A a \in Aliases : alias[a] # NoEntry => alias[a].model \in Models
    BY DEF TypeOK, CacheTypeOK, Entries
  <2>3. QED
    BY <1>2, <1>3, <2>1, <2>2 DEF Committed, CacheServesCommitted
<1>8. QED
  BY <1>5, <1>6, <1>7 DEF Committed

LEMMA CommittedNext ==
    ASSUME TypeOK, Located, Committed, [Next]_vars
    PROVE  Committed'
<1>r. Runs \subseteq Clients /\ Rollbacks \subseteq Clients /\ Readers \subseteq Clients
  BY ClientsAssumption
<1>1. ASSUME NEW c \in Runs, Start(c) PROVE Committed'
  BY <1>1, <1>r, PassiveStep, ForgetfulStep
<1>2. ASSUME NEW b \in Rollbacks, RollbackBegin(b) PROVE Committed'
  BY <1>2, <1>r, PassiveStep, ForgetfulStep
<1>3. ASSUME NEW r \in Readers, Ask(r) PROVE Committed'
  BY <1>3, <1>r, PassiveStep, ForgetfulStep
<1>4. ASSUME NEW c \in Clients, RunStep(c) PROVE Committed'
  BY <1>4, PassiveStep, DroppingStep, ForgetfulStep DEF RunStep
<1>5. ASSUME NEW c \in Clients, LookupStep(c) PROVE Committed'
  BY <1>5, CommittedLoadModel, CommittedFillModel, CommittedLoadAlias, CommittedLoadRow,
     CommittedFillAlias DEF LookupStep
<1>6. ASSUME NEW c \in Clients, TxStep(c) \/ Failure(c) \/ RollbackTouch(c) PROVE Committed'
  BY <1>6, PassiveStep, ForgetfulStep, CommittedCommit DEF TxStep, Failure
<1>7. CASE Ttl
  <2>1. Forgets
    BY <1>7 DEF Ttl, ExpireModel, ExpireAlias, Forgets, txVars, sharedVars, TypeOK, CacheTypeOK
  <2>2. QED
    BY <2>1, ForgetfulStep
<1>8. CASE UNCHANGED vars
  <2>1. Forgets
    BY <1>8 DEF vars, cacheVars, txVars, sharedVars, Forgets
  <2>2. QED
    BY <2>1, ForgetfulStep
<1>9. QED
  BY <1>1, <1>2, <1>3, <1>4, <1>5, <1>6, <1>7, <1>8, <1>r DEF Next, Progress, Writers

(* The refreshes run in the middle of open transactions, but what they put *)
(* into Redis has been committed, whichever transactions fail or overlap.  *)
THEOREM OnlyCommittedIsServed == Spec => []CacheServesCommitted
<1>1. Init => Committed
  BY DEF Init, CacheInit, Committed, Recorded, HoldsCommitted, CacheServesCommitted, Reading, NoRows
<1>2. TypeOK /\ Located /\ Committed /\ [Next]_vars => Committed'
  BY CommittedNext
<1>3. Committed => CacheServesCommitted
  BY DEF Committed
<1>4. QED
  BY <1>1, <1>2, <1>3, RegistryTypeCorrect, PTL DEF Spec

-----------------------------------------------------------------------------
(* Models and champion become visible together *)

(* After the choice of the champion and before the end of the transaction *)
Chosen == {"dropAlias", "loadAlias", "loadRow", "storeName", "storeId", "commit"}

(* A run that has registered models and is past the choice has crowned one *)
(* of them, or found a champion there; only runs register models.          *)
Pledge(c) ==
    /\ c \notin Runs \/ pc[c] = "idle" => mine[c] = NoRows
    /\ pc[c] \in Chosen /\ mine[c] # NoRows => crowned[c] \/ champion # NoModel

Together == (champion = NoModel => row = NoRows) /\ \A c \in Clients : Pledge(c)

(* A step that changes neither models nor champion and chooses none *)
Quiet ==
    /\ UNCHANGED <<dbVars, mine, crowned>>
    /\ \A d \in Clients :
        \/ pc'[d] = pc[d]
        \/ /\ pc'[d] = "idle" => d \notin Runs
           /\ pc'[d] \in Chosen => pc[d] \in Chosen \cup {"idle"}

LEMMA QuietStep ==
    ASSUME Together, Quiet
    PROVE  Together'
<1>1. \A c \in Clients : Pledge(c)'
  <2>1. SUFFICES ASSUME NEW c \in Clients PROVE Pledge(c)'
    OBVIOUS
  <2>2. Pledge(c) /\ UNCHANGED <<champion, mine, crowned>>
    BY DEF Together, Quiet, dbVars
  <2>3. QED
    BY <2>2 DEF Quiet, Pledge, NoRows
<1>2. QED
  BY <1>1 DEF Together, Quiet, dbVars, NoRows

LEMMA QuietRun ==
    ASSUME TypeOK, NEW c \in Clients,
           \/ Start(c) \/ Train(c) \/ Save(c) \/ RegisterConflict(c) \/ RefreshDropModel(c)
           \/ CrownConflict(c) \/ RefreshDropAlias(c) \/ CommitFails(c) \/ Abort(c)
           \/ RollbackBegin(c) \/ RollbackTouch(c)
    PROVE  Quiet
<1>1. UNCHANGED <<dbVars, mine, crowned>>
  BY DEF Start, Train, Save, RegisterConflict, RefreshDropModel, CrownConflict, RefreshDropAlias,
     CommitFails, Abort, RollbackBegin, RollbackTouch, sharedVars
<1>2. \E to \in Control \ {"idle"} :
         pc' = [pc EXCEPT ![c] = to] /\ (to \in Chosen => pc[c] \in Chosen \cup {"idle"})
  BY DEF Start, Train, Save, RegisterConflict, RefreshDropModel, CrownConflict, RefreshDropAlias,
     CommitFails, Abort, RollbackBegin, RollbackTouch, NextTrainer, Goto, Control, Chosen
<1>3. QED
  BY <1>1, <1>2 DEF Quiet, TypeOK

LEMMA QuietLookup ==
    ASSUME TypeOK, NEW c \in Clients, LookupStep(c) \/ (c \in Readers /\ Ask(c))
    PROVE  Quiet
<1>1. UNCHANGED <<dbVars, mine, crowned>>
  BY DEF LookupStep, LoadModel, FillModel, LoadAlias, LoadRow, FillName, FillId, Ask
<1>2. \E to \in Control :
         /\ pc' = [pc EXCEPT ![c] = to]
         /\ to = "idle" => c \notin Runs
         /\ to \in Chosen => pc[c] \in Chosen \cup {"idle"}
  BY ClientsAssumption DEF LookupStep, LoadModel, FillModel, LoadAlias, LoadRow, FillName, FillId,
     Ask, ModelLookedUp, AliasLookedUp, NextTrainer, Goto, Control, Chosen
<1>3. QED
  BY <1>1, <1>2 DEF Quiet, TypeOK

(* What another client has pledged stands as long as a champion stays one *)
LEMMA OthersPledge ==
    ASSUME TypeOK, Together, NEW c \in Clients, Alone(c),
           \A d \in Clients \ {c} : mine'[d] = mine[d] /\ crowned'[d] = crowned[d] /\ pc'[d] = pc[d],
           champion # NoModel => champion' # NoModel,
           Pledge(c)'
    PROVE  \A d \in Clients : Pledge(d)'
  BY DEF Together, Pledge, NoRows

LEMMA TogetherRegister ==
    ASSUME TypeOK, Located, Together, NEW c \in Runs, Register(c)
    PROVE  Together'
<1>1. c \in Clients /\ pc'[c] = "dropModel" /\ Alone(c) /\ UNCHANGED <<dbVars, crowned>>
  BY ClientsAssumption, RegisterType DEF Register, Goto, TypeOK
<1>2. \A d \in Clients \ {c} : mine'[d] = mine[d] /\ pc'[d] = pc[d]
  BY DEF Register, Goto, TypeOK
<1>3. Pledge(c)'
  BY <1>1 DEF Pledge, Chosen
<1>4. QED
  BY <1>1, <1>2, <1>3, OthersPledge DEF Together, dbVars, NoRows

LEMMA TogetherSelect ==
    ASSUME TypeOK, Located, Together, NEW c \in Runs, Select(c)
    PROVE  Together'
<1>1. c \in Clients /\ Alone(c) /\ UNCHANGED <<dbVars, mine, crowned>>
  BY ClientsAssumption, SelectType DEF Select
<1>2. \A d \in Clients \ {c} : pc'[d] = pc[d]
  BY DEF Select, Choose, Goto, TypeOK
<1>3. Pledge(c)'
  <2>1. CASE Trained(c) = {} /\ Goto(c, "select", "commit")
    <3>1. \A m \in Models : mine[c][m] = NoRow
      BY <2>1 DEF Trained, Models
    <3>2. mine[c] = NoRows
      BY <1>1, <3>1 DEF TypeOK, NoRows
    <3>3. QED
      BY <1>1, <3>2 DEF Pledge, NoRows
  <2>2. CASE champion = NoModel /\ \E i \in Trained(c) : Choose(c, i, "crown")
    BY <1>1, <2>2 DEF Pledge, Choose, Goto, TypeOK, Chosen
  <2>3. CASE champion # NoModel /\ pc'[c] # "idle"
    BY <1>1, <2>3 DEF Pledge, dbVars
  <2>4. QED
    BY <1>1, <2>1, <2>2, <2>3 DEF Select, Choose, Goto, TypeOK
<1>4. QED
  BY <1>1, <1>2, <1>3, OthersPledge DEF Together, dbVars, NoRows

LEMMA TogetherEnthrone ==
    ASSUME TypeOK, Located, Together, NEW c \in Clients, Crown(c) \/ Promote(c)
    PROVE  Together'
<1>1. Alone(c) /\ UNCHANGED <<dbVars, mine>>
  BY CrownType, PromoteType DEF Crown, Promote, Enthrone
<1>2. \A d \in Clients \ {c} : pc'[d] = pc[d] /\ crowned'[d] = crowned[d]
  BY DEF Crown, Promote, Enthrone, Goto, TypeOK
<1>3. crowned'[c] /\ pc'[c] # "idle"
  BY DEF Crown, Promote, Enthrone, Goto, TypeOK
<1>4. Pledge(c) /\ Pledge(c)'
  BY <1>1, <1>3 DEF Together, Pledge, NoRows
<1>5. QED
  BY <1>1, <1>2, <1>4, OthersPledge DEF Together, dbVars, NoRows

LEMMA TogetherRollback ==
    ASSUME TypeOK, Located, Together, NEW c \in Clients, Rollback(c)
    PROVE  Together'
<1>1. Alone(c) /\ UNCHANGED dbVars
  BY RollbackType DEF Rollback
<1>2. /\ \A d \in Clients \ {c} : mine'[d] = mine[d] /\ crowned'[d] = crowned[d] /\ pc'[d] = pc[d]
      /\ mine'[c] = NoRows
  BY DEF Rollback, Release, Goto, TypeOK, NoRows
<1>3. Pledge(c)'
  BY <1>2 DEF Pledge, NoRows
<1>4. QED
  BY <1>1, <1>2, <1>3, OthersPledge DEF Together, dbVars, NoRows

LEMMA TogetherCommit ==
    ASSUME TypeOK, Located, Together, NEW c \in Clients, Commit(c)
    PROVE  Together'
<1>1. Alone(c) /\ pc[c] = "commit" /\ Pledge(c) /\ Holds(c)
  BY CommitType DEF Commit, Goto, Together, Located
<1>2. /\ \A d \in Clients \ {c} : mine'[d] = mine[d] /\ crowned'[d] = crowned[d] /\ pc'[d] = pc[d]
      /\ mine'[c] = NoRows
  BY DEF Commit, Release, Goto, TypeOK, NoRows
<1>3. champion' = NoModel => ~crowned[c] /\ champion = NoModel
  BY <1>1 DEF Commit, Holds
<1>4. Pledge(c)'
  BY <1>2 DEF Pledge, NoRows
<1>5. champion' = NoModel => row' = NoRows
  <2>1. SUFFICES ASSUME champion' = NoModel PROVE row' = NoRows
    OBVIOUS
  <2>2. mine[c] = NoRows /\ row = NoRows
    BY <1>1, <1>3, <2>1 DEF Pledge, Chosen, Together
  <2>3. QED
    BY <2>2 DEF Commit, NoRows
<1>6. QED
  BY <1>2, <1>3, <1>4, <1>5, <1>1, OthersPledge DEF Together, NoRows

LEMMA TogetherNext ==
    ASSUME TypeOK, Located, Together, [Next]_vars
    PROVE  Together'
<1>r. Runs \subseteq Clients /\ Rollbacks \subseteq Clients /\ Readers \subseteq Clients
  BY ClientsAssumption
<1>1. ASSUME NEW c \in Runs, Start(c) PROVE Together'
  BY <1>1, <1>r, QuietRun, QuietStep
<1>2. ASSUME NEW b \in Rollbacks, RollbackBegin(b) PROVE Together'
  BY <1>2, <1>r, QuietRun, QuietStep
<1>3. ASSUME NEW r \in Readers, Ask(r) PROVE Together'
  BY <1>3, <1>r, QuietLookup, QuietStep
<1>4. ASSUME NEW c \in Runs, RunStep(c) PROVE Together'
  BY <1>4, <1>r, QuietRun, QuietStep, TogetherRegister, TogetherSelect, TogetherEnthrone DEF RunStep
<1>5. ASSUME NEW c \in Clients, LookupStep(c) PROVE Together'
  BY <1>5, QuietLookup, QuietStep
<1>6. ASSUME NEW c \in Clients, TxStep(c) \/ Failure(c) \/ RollbackTouch(c) PROVE Together'
  BY <1>6, QuietRun, QuietStep, TogetherEnthrone, TogetherCommit, TogetherRollback DEF TxStep, Failure
<1>7. CASE Ttl \/ UNCHANGED vars
  <2>1. Quiet
    BY <1>7 DEF Ttl, ExpireModel, ExpireAlias, Quiet, vars, txVars
  <2>2. QED
    BY <2>1, QuietStep
<1>8. QED
  BY <1>1, <1>2, <1>3, <1>4, <1>5, <1>6, <1>7, <1>r DEF Next, Progress, Writers

(* A dataset with a committed model has a champion, and the champion is one *)
(* of its models, whichever runs race, fail or are rolled back.             *)
THEOREM ModelsNeedChampion == Spec => []ModelsComeWithChampion
<1>1. Init => Together
  BY DEF Init, Together, Pledge, NoRows
<1>2. TypeOK /\ Located /\ Together /\ [Next]_vars => Together'
  BY TogetherNext
<1>3. TypeOK /\ Located /\ Together => ModelsComeWithChampion
  <2>1. SUFFICES ASSUME TypeOK, Located, Together PROVE ModelsComeWithChampion
    OBVIOUS
  <2>2. champion # NoModel => champion \in Models /\ row[champion] # NoRow
    BY <2>1 DEF TypeOK, Located, ChampionIsRegistered
  <2>3. row = NoRows => champion = NoModel
    BY <2>2 DEF NoRows
  <2>4. QED
    BY <2>1, <2>2, <2>3 DEF Together, ModelsComeWithChampion
<1>4. QED
  BY <1>1, <1>2, <1>3, RegistryTypeCorrect, PTL DEF Spec

-----------------------------------------------------------------------------
(* No deadlock *)

(* The locks that a transaction may hold where it stands: model rows of    *)
(* earlier trainers while it is in the loop, model rows only until it has  *)
(* the champion row, none before its first statement and after its end.    *)
MayHold(c, l) ==
    /\ pc[c] \in {"train", "save", "register"} =>
            \E i \in DOMAIN Trainers : i < at[c] /\ l = Trainers[i]
    /\ pc[c] \in {"dropModel", "loadModel", "storeModel"} =>
            \E i \in DOMAIN Trainers : i <= at[c] /\ l = Trainers[i]
    /\ pc[c] \in {"select", "crown", "promote"} => l \in Models
    /\ pc[c] \notin {"idle", "touch", "done"}

LocksInOrder ==
    /\ \A l \in Lockable : lock[l] \in Writers \cup {NoClient}
    /\ \A c \in Writers, l \in Lockable : lock[l] = c => MayHold(c, l)

(* A step of client c takes and releases its own locks only *)
LEMMA OwnLocks ==
    ASSUME LocksInOrder, NEW c \in Clients,
           \A d \in Clients \ {c} : pc'[d] = pc[d] /\ at'[d] = at[d],
           \A l \in Lockable : lock'[l] \in {lock[l], c, NoClient},
           \A l \in Lockable : lock'[l] = c => c \in Writers /\ MayHold(c, l)'
    PROVE  LocksInOrder'
<1>1. \A l \in Lockable : lock'[l] \in Writers \cup {NoClient}
  BY DEF LocksInOrder
<1>2. ASSUME NEW d \in Writers, NEW l \in Lockable, lock'[l] = d PROVE MayHold(d, l)'
  <2>1. CASE d = c
    BY <1>2, <2>1 DEF MayHold
  <2>2. CASE d # c
    <3>1. d \in Clients \ {c} /\ lock[l] = d
      BY <1>2, <2>2, ClientsAssumption, RegistryAssumption DEF Writers
    <3>2. MayHold(d, l)
      BY <1>2, <3>1 DEF LocksInOrder
    <3>3. QED
      BY <3>1, <3>2 DEF MayHold
  <2>3. QED
    BY <2>1, <2>2
<1>3. QED
  BY <1>1, <1>2 DEF LocksInOrder

(* A step that leaves the locks alone need only keep what c may hold *)
LEMMA SameLocks ==
    ASSUME LocksInOrder, NEW c \in Clients,
           \A d \in Clients \ {c} : pc'[d] = pc[d] /\ at'[d] = at[d],
           lock' = lock,
           \A l \in Lockable : c \in Writers /\ MayHold(c, l) => MayHold(c, l)'
    PROVE  LocksInOrder'
<1>1. \A l \in Lockable : lock[l] = c => c \in Writers /\ MayHold(c, l)
  BY RegistryAssumption DEF LocksInOrder
<1>2. QED
  BY <1>1, OwnLocks

LEMMA KeptByNextTrainer ==
    ASSUME TypeOK, NEW c \in Clients, NEW from, NextTrainer(c, from),
           from \in {"train", "save", "loadModel", "storeModel"}
    PROVE  /\ \A d \in Clients \ {c} : pc'[d] = pc[d] /\ at'[d] = at[d]
           /\ \A l : MayHold(c, l) => MayHold(c, l)'
<1>1. at[c] \in 1 .. Len(Trainers) /\ Len(Trainers) \in Nat /\ DOMAIN Trainers = 1 .. Len(Trainers)
  BY TrainersCount DEF TypeOK
<1>2. pc[c] = from /\ \A d \in Clients \ {c} : pc'[d] = pc[d] /\ at'[d] = at[d]
  BY DEF NextTrainer, Goto, TypeOK
<1>3. CASE at[c] < Len(Trainers)
  <2>1. pc'[c] = "train" /\ at'[c] = at[c] + 1
    BY <1>3 DEF NextTrainer, Goto, TypeOK
  <2>2. ASSUME NEW l, MayHold(c, l) PROVE MayHold(c, l)'
    <3>1. PICK i \in DOMAIN Trainers : i <= at[c] /\ l = Trainers[i]
      BY <1>1, <1>2, <2>2 DEF MayHold
    <3>2. i < at'[c]
      BY <1>1, <2>1, <3>1
    <3>3. QED
      BY <2>1, <3>1, <3>2 DEF MayHold
  <2>3. QED
    BY <1>2, <2>2
<1>4. CASE ~(at[c] < Len(Trainers))
  <2>1. pc'[c] = "select"
    BY <1>4 DEF NextTrainer, Goto, TypeOK
  <2>2. ASSUME NEW l, MayHold(c, l) PROVE MayHold(c, l)'
    <3>1. PICK i \in DOMAIN Trainers : i <= at[c] /\ l = Trainers[i]
      BY <1>1, <1>2, <2>2 DEF MayHold
    <3>2. QED
      BY <2>1, <3>1, TrainerIsModel DEF MayHold
  <2>3. QED
    BY <1>2, <2>2
<1>5. QED
  BY <1>3, <1>4

LEMMA OrderPassive ==
    ASSUME TypeOK, LocksInOrder, NEW c \in Clients,
           \/ Start(c) \/ Train(c) \/ Save(c) \/ RegisterConflict(c) \/ RefreshDropModel(c)
           \/ Select(c) \/ CrownConflict(c) \/ RefreshDropAlias(c) \/ CommitFails(c) \/ Abort(c)
           \/ RollbackBegin(c)
    PROVE  LocksInOrder'
<1>t. pc \in [Clients -> Control] /\ at \in [Clients -> DOMAIN Trainers]
  BY DEF TypeOK
<1>n. \A i \in DOMAIN Trainers : i \in Nat
  BY TrainersCount
<1>l. lock' = lock
  BY DEF Start, Train, Save, RegisterConflict, RefreshDropModel, Select, CrownConflict,
     RefreshDropAlias, CommitFails, Abort, RollbackBegin, sharedVars
<1>1. CASE NextTrainer(c, "train") \/ NextTrainer(c, "save")
  BY <1>1, <1>l, KeptByNextTrainer, SameLocks
<1>2. CASE /\ at' = at
           /\ \E from, to \in Control :
                /\ Goto(c, from, to)
                /\ \/ from = "idle"
                   \/ <<from, to>> \in {<<"train", "save">>, <<"save", "register">>,
                          <<"dropModel", "loadModel">>, <<"select", "crown">>,
                          <<"select", "promote">>}
                   \/ to \in {"dropAlias", "loadAlias", "commit", "rollback"}
  <2>1. PICK from \in Control, to \in Control :
                /\ Goto(c, from, to)
                /\ \/ from = "idle"
                   \/ <<from, to>> \in {<<"train", "save">>, <<"save", "register">>,
                          <<"dropModel", "loadModel">>, <<"select", "crown">>,
                          <<"select", "promote">>}
                   \/ to \in {"dropAlias", "loadAlias", "commit", "rollback"}
    BY <1>2
  <2>2. pc[c] = from /\ pc'[c] = to /\ at'[c] = at[c] /\ \A d \in Clients \ {c} : pc'[d] = pc[d]
    BY <1>2, <1>t, <2>1 DEF Goto
  <2>3. \A l \in Lockable : MayHold(c, l) => MayHold(c, l)'
    BY <2>1, <2>2 DEF MayHold
  <2>4. QED
    BY <1>2, <1>l, <2>2, <2>3, SameLocks
<1>3. QED
  BY <1>1, <1>2 DEF Start, Train, Save, RegisterConflict, RefreshDropModel, Select, Choose,
     CrownConflict, RefreshDropAlias, CommitFails, Abort, RollbackBegin, sharedVars, Control, Goto

LEMMA OrderLookup ==
    ASSUME TypeOK, LocksInOrder, NEW c \in Clients, LookupStep(c) \/ (c \in Readers /\ Ask(c))
    PROVE  LocksInOrder'
<1>t. pc \in [Clients -> Control] /\ at \in [Clients -> DOMAIN Trainers]
  BY DEF TypeOK
<1>l. lock' = lock
  BY DEF LookupStep, LoadModel, FillModel, LoadAlias, LoadRow, FillName, FillId, Ask, sharedVars
<1>1. CASE \E from \in {"loadModel", "storeModel"} : NextTrainer(c, from)
  BY <1>1, <1>l, KeptByNextTrainer, SameLocks
<1>2. CASE /\ \/ c \in Readers
              \/ /\ at' = at
                 /\ \/ Goto(c, "loadModel", "storeModel")
                    \/ \E from, to \in {"dropAlias", "loadAlias", "loadRow", "storeName", "storeId",
                                        "commit"} : Goto(c, from, to)
           /\ \A d \in Clients \ {c} : pc'[d] = pc[d] /\ at'[d] = at[d]
  <2>1. \A l \in Lockable : c \in Writers /\ MayHold(c, l) => MayHold(c, l)'
    BY <1>2, <1>t, ClientsAssumption DEF MayHold, Goto, Writers
  <2>2. QED
    BY <1>2, <1>l, <2>1, SameLocks
<1>3. QED
  <2>1. CASE LoadModel(c) \/ FillModel(c)
    BY <2>1, <1>1, <1>2, <1>t DEF LoadModel, FillModel, ModelLookedUp, Goto
  <2>2. CASE LoadAlias(c) \/ LoadRow(c) \/ FillName(c) \/ FillId(c)
    BY <2>2, <1>2, <1>t DEF LoadAlias, LoadRow, FillName, FillId, AliasLookedUp, Goto
  <2>3. CASE c \in Readers /\ Ask(c)
    BY <2>3, <1>2, <1>t DEF Ask, Goto
  <2>4. QED
    BY <2>1, <2>2, <2>3 DEF LookupStep

LEMMA OrderRegister ==
    ASSUME TypeOK, LocksInOrder, NEW c \in Runs, Register(c)
    PROVE  LocksInOrder'
<1>1. /\ c \in Clients /\ c \in Writers /\ pc[c] = "register" /\ pc'[c] = "dropModel" /\ at' = at
      /\ lock' = [lock EXCEPT ![Current(c)] = c]
      /\ \A d \in Clients \ {c} : pc'[d] = pc[d]
  BY ClientsAssumption DEF Register, Goto, TypeOK, Writers
<1>2. lock \in [Lockable -> Clients \cup {NoClient}] /\ at[c] \in DOMAIN Trainers
  BY <1>1 DEF TypeOK
<1>3. ASSUME NEW l \in Lockable, lock'[l] = c PROVE MayHold(c, l)'
  <2>1. CASE l = Current(c)
    BY <1>1, <1>2, <2>1, TrainersCount DEF MayHold, Current
  <2>2. CASE l # Current(c)
    <3>1. MayHold(c, l)
      BY <1>1, <1>2, <1>3, <2>2 DEF LocksInOrder
    <3>2. PICK i \in DOMAIN Trainers : i < at[c] /\ l = Trainers[i]
      BY <1>1, <3>1 DEF MayHold
    <3>3. i <= at'[c]
      BY <1>1, <1>2, <3>2, TrainersCount
    <3>4. QED
      BY <1>1, <3>2, <3>3 DEF MayHold
  <2>3. QED
    BY <2>1, <2>2
<1>4. \A l \in Lockable : lock'[l] \in {lock[l], c, NoClient}
  BY <1>1, <1>2
<1>5. QED
  BY <1>1, <1>3, <1>4, OwnLocks

LEMMA OrderEnthrone ==
    ASSUME TypeOK, LocksInOrder, NEW c \in Writers, Crown(c) \/ Promote(c)
    PROVE  LocksInOrder'
<1>1. /\ c \in Clients /\ pc[c] \in {"crown", "promote"} /\ pc'[c] \in {"dropAlias", "commit"}
      /\ at' = at /\ lock' = [lock EXCEPT !["champion"] = c]
      /\ \A d \in Clients \ {c} : pc'[d] = pc[d]
  BY ClientsAssumption DEF Crown, Promote, Enthrone, Goto, TypeOK, Writers
<1>2. \A l \in Lockable : lock'[l] \in {lock[l], c, NoClient}
  BY <1>1 DEF TypeOK
<1>3. \A l \in Lockable : MayHold(c, l)'
  BY <1>1 DEF MayHold
<1>4. QED
  BY <1>1, <1>2, <1>3, OwnLocks

LEMMA OrderTouch ==
    ASSUME TypeOK, Located, LocksInOrder, NEW c \in Rollbacks, RollbackTouch(c)
    PROVE  LocksInOrder'
<1>1. /\ c \in Clients /\ c \in Writers /\ pc[c] = "touch" /\ pc'[c] = "promote" /\ at' = at
      /\ lock' = [lock EXCEPT ![pick[c]] = c]
      /\ \A d \in Clients \ {c} : pc'[d] = pc[d]
  BY ClientsAssumption DEF RollbackTouch, Goto, TypeOK, Writers
<1>2. pick[c] \in Models /\ lock \in [Lockable -> Clients \cup {NoClient}]
  BY <1>1 DEF Located, Holds, TypeOK
<1>3. \A l \in Lockable : lock[l] # c
  BY <1>1 DEF LocksInOrder, MayHold
<1>4. \A l \in Lockable : lock'[l] \in {lock[l], c, NoClient} /\ (lock'[l] = c => l = pick[c])
  BY <1>1, <1>2, <1>3
<1>5. \A l \in Lockable : lock'[l] = c => MayHold(c, l)'
  BY <1>1, <1>2, <1>4 DEF MayHold
<1>6. QED
  BY <1>1, <1>4, <1>5, OwnLocks

LEMMA OrderEnd ==
    ASSUME TypeOK, LocksInOrder, NEW c \in Clients, Commit(c) \/ Rollback(c)
    PROVE  LocksInOrder'
<1>1. /\ at' = at /\ \A d \in Clients \ {c} : pc'[d] = pc[d]
      /\ lock' = [l \in Lockable |-> IF lock[l] = c THEN NoClient ELSE lock[l]]
  BY DEF Commit, Rollback, Release, Goto, TypeOK
<1>2. \A l \in Lockable : lock'[l] \in {lock[l], NoClient} /\ lock'[l] # c
  BY <1>1, RegistryAssumption
<1>3. QED
  BY <1>1, <1>2, OwnLocks

LEMMA OrderNext ==
    ASSUME TypeOK, Located, LocksInOrder, [Next]_vars
    PROVE  LocksInOrder'
<1>r. Runs \subseteq Clients /\ Rollbacks \subseteq Clients /\ Readers \subseteq Clients
  BY ClientsAssumption
<1>1. ASSUME NEW c \in Runs, Start(c) PROVE LocksInOrder'
  BY <1>1, <1>r, OrderPassive
<1>2. ASSUME NEW b \in Rollbacks, RollbackBegin(b) PROVE LocksInOrder'
  BY <1>2, <1>r, OrderPassive
<1>3. ASSUME NEW r \in Readers, Ask(r) PROVE LocksInOrder'
  BY <1>3, <1>r, OrderLookup
<1>4. ASSUME NEW c \in Runs, RunStep(c) PROVE LocksInOrder'
  BY <1>4, <1>r, OrderPassive, OrderRegister, OrderEnthrone DEF RunStep, Writers
<1>5. ASSUME NEW c \in Clients, LookupStep(c) PROVE LocksInOrder'
  BY <1>5, OrderLookup
<1>6. ASSUME NEW c \in Writers, TxStep(c) \/ Failure(c) PROVE LocksInOrder'
  BY <1>6, <1>r, OrderPassive, OrderEnthrone, OrderEnd DEF TxStep, Failure, Writers
<1>7. ASSUME NEW b \in Rollbacks, RollbackTouch(b) PROVE LocksInOrder'
  BY <1>7, OrderTouch
<1>8. CASE Ttl \/ UNCHANGED vars
  BY <1>8 DEF Ttl, vars, txVars, sharedVars, LocksInOrder, MayHold
<1>9. QED
  BY <1>1, <1>2, <1>3, <1>4, <1>5, <1>6, <1>7, <1>8, <1>r DEF Next, Progress, Writers

-----------------------------------------------------------------------------
(* A circle of waiting transactions would climb the order for ever *)

(* The order of the locks: model rows as they are trained, the champion *)
IsRank(l, n) ==
    \/ n \in DOMAIN Trainers /\ l = Trainers[n]
    \/ n = Len(Trainers) + 1 /\ l = "champion"

LEMMA LargestElement ==
    ASSUME NEW n \in Nat, NEW S, S \subseteq 0 .. n, S # {}
    PROVE  \E m \in S : \A k \in S : k <= m
<1> DEFINE R == {p \in Nat \X Nat : p[1] < p[2]}
           T == {n - m : m \in S}
<1>0. \A m \in S : m \in Int /\ 0 <= m /\ m <= n
  OBVIOUS
<1>1. T \subseteq Nat /\ T # {}
  <2>1. \A m \in S : n - m \in Nat
    BY <1>0
  <2>2. QED
    BY <2>1
<1>2. IsWellFoundedOn(R, Nat)
  BY NatLessThanWellFounded DEF OpToRel
<1>3. PICK t \in T : \A u \in T : <<u, t>> \notin R
  <2> HIDE DEF R, T
  <2>1. QED
    BY <1>1, <1>2, WFMin
<1>4. \A u \in T : t <= u
  <2>1. \A u \in T : u \in Nat /\ t \in Nat
    BY <1>1, <1>3
  <2>2. \A u \in T : ~(u < t)
    BY <1>3, <2>1
  <2> HIDE DEF T
  <2>3. QED
    BY <2>1, <2>2
<1>5. PICK m \in S : t = n - m
  BY <1>3
<1>6. \A k \in S : n - m <= n - k
  BY <1>4, <1>5
<1>7. QED
  BY <1>0, <1>6

LEMMA LockableRank ==
    \A l \in Lockable : \E n \in 0 .. Len(Trainers) + 1 : IsRank(l, n)
  BY TrainersCount DEF Lockable, Models, IsRank

(* A transaction that holds a lock waits for one that comes later *)
LEMMA HolderClimbs ==
    ASSUME TypeOK, LocksInOrder, NEW c \in Writers, NEW l \in Lockable, lock[l] = c,
           NEW w \in Wanted(c), NEW n, IsRank(l, n), NEW k, IsRank(w, k)
    PROVE  n < k
<1>1. /\ c \in Clients /\ MayHold(c, l) /\ pc[c] \in Control /\ at[c] \in DOMAIN Trainers
  BY ClientsAssumption DEF LocksInOrder, TypeOK, Writers
<1>2. DOMAIN Trainers = 1 .. Len(Trainers) /\ Len(Trainers) \in Nat
  BY TrainersCount
<1>3. CASE pc[c] = "register"
  <2>1. w = Trainers[at[c]]
    BY <1>3 DEF Wanted, Current
  <2>2. PICK i \in DOMAIN Trainers : i < at[c] /\ l = Trainers[i]
    BY <1>1, <1>3 DEF MayHold
  <2>3. n = i /\ k = at[c]
    BY <1>1, <2>1, <2>2, LockingAssumption, TrainerIsModel DEF IsRank
  <2>4. QED
    BY <2>2, <2>3
<1>4. CASE pc[c] \in {"crown", "promote"}
  <2>1. w = "champion" /\ l \in Models
    BY <1>1, <1>4 DEF Wanted, MayHold
  <2>2. k = Len(Trainers) + 1 /\ n \in DOMAIN Trainers
    BY <2>1, LockingAssumption, TrainerIsModel DEF IsRank
  <2>3. QED
    BY <1>2, <2>2
<1>5. QED
  BY <1>1, <1>3, <1>4 DEF Wanted, MayHold

LEMMA OrderExcludesCircles ==
    ASSUME TypeOK, Located, LocksInOrder, NEW group \in SUBSET Writers, group # {}
    PROVE  \E c \in group : WaitsFor(c) \cap group = {}
<1>1. SUFFICES ASSUME \A c \in group : WaitsFor(c) \cap group # {} PROVE FALSE
  OBVIOUS
<1>2. \A c \in group : \E w \in Wanted(c) : lock[w] \in group \ {c}
  BY <1>1 DEF WaitsFor
<1>3. \A c \in Writers : Wanted(c) \subseteq Lockable
  <2>1. SUFFICES ASSUME NEW c \in Writers PROVE Wanted(c) \subseteq Lockable
    OBVIOUS
  <2>2. c \in Clients /\ Current(c) \in Models /\ (pc[c] = "touch" => pick[c] \in Models)
    BY ClientsAssumption, CurrentIsModel DEF Writers, Located, Holds, TypeOK
  <2>3. QED
    BY <2>2 DEF Wanted, Lockable
<1> DEFINE S == {n \in 0 .. Len(Trainers) + 1 :
                    \E c \in group, w \in Lockable : w \in Wanted(c) /\ IsRank(w, n)}
<1>4. S # {}
  <2>1. PICK c \in group : TRUE
    OBVIOUS
  <2>2. PICK w \in Wanted(c) : w \in Lockable
    BY <1>2, <1>3
  <2>3. QED
    BY <2>2, LockableRank
<1>5. PICK m \in S : \A k \in S : k <= m
  <2>1. Len(Trainers) + 1 \in Nat
    BY TrainersCount
  <2>2. S \subseteq 0 .. Len(Trainers) + 1
    OBVIOUS
  <2> HIDE DEF S
  <2>3. QED
    BY <1>4, <2>1, <2>2, LargestElement
<1>6. PICK c \in group, w \in Lockable : w \in Wanted(c) /\ IsRank(w, m)
  BY <1>5
<1>8. \E l \in Wanted(c) : l \in Lockable /\ lock[l] \in group
  BY <1>2, <1>3, <1>6
<1>9. PICK l \in Wanted(c) : l \in Lockable /\ lock[l] \in group
  BY <1>8
<1>10. l = w
  BY <1>6, <1>9 DEF Wanted
<1>11. PICK d \in group : d = lock[w]
  BY <1>9, <1>10
<1>12. PICK v \in Wanted(d) : v \in Lockable
  BY <1>2, <1>3
<1>13. PICK k \in 0 .. Len(Trainers) + 1 : IsRank(v, k)
  BY <1>12, LockableRank
<1>14. m < k
  BY <1>6, <1>11, <1>13, HolderClimbs
<1>15. k \in S
  BY <1>12, <1>13
<1>16. QED
  BY <1>5, <1>14, <1>15, TrainersCount

(* Runs and rollbacks of a dataset never wait for each other in a circle,  *)
(* however many there are and wherever their statements fail, and no lock  *)
(* outlives its transaction.                                               *)
THEOREM NobodyDeadlocks == Spec => []NoDeadlock
<1>1. Init => LocksInOrder
  BY RegistryAssumption, ClientsAssumption DEF Init, LocksInOrder, Writers
<1>2. TypeOK /\ Located /\ LocksInOrder /\ [Next]_vars => LocksInOrder'
  BY OrderNext
<1>3. TypeOK /\ Located /\ LocksInOrder => NoDeadlock
  <2>1. SUFFICES ASSUME TypeOK, Located, LocksInOrder PROVE NoDeadlock
    OBVIOUS
  <2>2. ASSUME NEW l \in Lockable, lock[l] # NoClient
        PROVE  lock[l] \in Writers /\ pc[lock[l]] \notin {"idle", "done"}
    <3>1. PICK c \in Writers : c = lock[l]
      BY <2>1, <2>2 DEF LocksInOrder
    <3>2. MayHold(c, l)
      BY <2>1, <3>1 DEF LocksInOrder
    <3>3. QED
      BY <3>1, <3>2 DEF MayHold
  <2>3. QED
    BY <2>1, <2>2, OrderExcludesCircles DEF NoDeadlock
<1>4. QED
  BY <1>1, <1>2, <1>3, RegistryTypeCorrect, PTL DEF Spec
=============================================================================

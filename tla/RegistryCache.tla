---------------------------- MODULE RegistryCache ----------------------------
(***************************************************************************)
(* app/cache/model_cache.py: the Redis cache of model rows and of the      *)
(* champion of a dataset, filled from PostgreSQL on a miss.                *)
(*                                                                         *)
(* One dataset, whose champion is cached under two keys: champion:{name}   *)
(* and champion:{id}.  A fill is four steps with awaits between them (GET, *)
(* one or two SELECTs in a session of its own, SETs), so a commit, a       *)
(* deletion or another fill can come between any two of them.  The key     *)
(* metadata:{id} follows the protocol of model:{id} and is left out.       *)
(***************************************************************************)
EXTENDS Naturals, Sequences, FiniteSets

CONSTANTS Clients,  \* coroutines that use the cache
          Trainers, \* the algorithms, in training order; each has one model row
          Accuracies, \* accuracies an evaluation may yield, in ranks
          NoRow, NoModel, NoClient, NoEntry,
          Faults,   \* what may fail: see FaultPoints
          Expiry    \* whether the TTL may expire cached entries

Models == {Trainers[i] : i \in DOMAIN Trainers}

FaultPoints == {"redis", "train", "explain", "db", "commit"}

(* A committed or cached version of a model row.  The author, the client   *)
(* that trained it, stands for its artifact's checksum.                    *)
Rows == [version : Nat \ {0}, acc : Accuracies, author : Clients]

Aliases == {"name", "id"}

Entries == [model : Models, row : Rows]

(* A champion whose model row is yet to be read *)
HalfRead == [model : Models, row : {NoRow}]

ASSUME RegistryAssumption ==
    /\ Trainers \in Seq(Models)
    /\ Trainers # << >>
    /\ Accuracies \subseteq Nat
    /\ NoRow \notin Rows
    /\ NoModel \notin Models
    /\ NoClient \notin Clients
    /\ NoEntry \notin Entries \cup HalfRead
    /\ Faults \subseteq FaultPoints
    /\ Expiry \in BOOLEAN

VARIABLES
    row,      \* PostgreSQL, committed: model -> row or NoRow
    champion, \* PostgreSQL, committed: the dataset's champion or NoModel
    cached,   \* Redis: model:{id} -> row or NoRow
    alias,    \* Redis: champion:{name}, champion:{id} -> entry or NoEntry
    held      \* client -> what it has read from PostgreSQL and will store

cacheVars == <<cached, alias, held>>
dbVars == <<row, champion>>

CacheTypeOK ==
    /\ cached \in [Models -> Rows \cup {NoRow}]
    /\ alias \in [Aliases -> Entries \cup {NoEntry}]
    /\ held \in [Clients -> Entries \cup HalfRead \cup {NoEntry}]

CacheInit ==
    /\ cached = [m \in Models |-> NoRow]
    /\ alias = [a \in Aliases |-> NoEntry]
    /\ held = [c \in Clients |-> NoEntry]

Fails(point) == point \in Faults

-----------------------------------------------------------------------------
ChampionKeysOf(m) == {a \in Aliases : alias[a] # NoEntry /\ alias[a].model = m}

(* delete_model_cache(): model:{m} and every champion key that holds m.    *)
(* The KEYS command or any of the DELs may fail without stopping the rest. *)
(* They are one step: what another client writes between them is written   *)
(* before or after the step, and a DEL that comes too late only makes a    *)
(* miss, as expiry does.                                                   *)
DropModel(m) ==
    /\ \E deleted \in SUBSET ChampionKeysOf(m) :
        /\ Fails("redis") \/ deleted = ChampionKeysOf(m)
        /\ alias' = [a \in Aliases |-> IF a \in deleted THEN NoEntry ELSE alias[a]]
    /\ \/ cached' = [cached EXCEPT ![m] = NoRow]
       \/ Fails("redis") /\ UNCHANGED cached
    /\ UNCHANGED held

(* get_model_with_fallback(): a hit, or no such row, ends the call *)
ModelIsServed(m) == cached[m] # NoRow \/ row[m] = NoRow

ReadModel(c, m) ==
    /\ cached[m] = NoRow \/ Fails("redis")
    /\ row[m] # NoRow
    /\ held' = [held EXCEPT ![c] = [model |-> m, row |-> row[m]]]
    /\ UNCHANGED <<cached, alias>>

StoreModel(c) ==
    /\ \/ cached' = [cached EXCEPT ![held[c].model] = held[c].row]
       \/ Fails("redis") /\ UNCHANGED cached
    /\ held' = [held EXCEPT ![c] = NoEntry]
    /\ UNCHANGED alias

(* refresh_champion_cache(): the DEL of the one alias it was given *)
DropAlias(a) ==
    /\ \/ alias' = [alias EXCEPT ![a] = NoEntry]
       \/ Fails("redis") /\ UNCHANGED alias
    /\ UNCHANGED <<cached, held>>

(* get_champion_with_fallback(): the champion row, then its model row *)
AliasIsServed(a) == alias[a] # NoEntry \/ champion = NoModel

ReadChampion(c, a) ==
    /\ alias[a] = NoEntry \/ Fails("redis")
    /\ champion # NoModel
    /\ held' = [held EXCEPT ![c] = [model |-> champion, row |-> NoRow]]
    /\ UNCHANGED <<cached, alias>>

(* Mutant: the champion's model is not loaded with it *)
ReadChampionAlone(c) == UNCHANGED cacheVars

ReadChampionRow(c) ==
    /\ held' = [held EXCEPT ![c].row = row[held[c].model]]
    /\ UNCHANGED <<cached, alias>>

(* store_champion(): whatever alias was asked for, both are SET *)
StoreAlias(c, a) ==
    /\ \/ alias' = [alias EXCEPT ![a] = held[c]]
       \/ Fails("redis") /\ UNCHANGED alias
    /\ held' = IF a = "id" THEN [held EXCEPT ![c] = NoEntry] ELSE held
    /\ UNCHANGED cached

(* redis_model_ttl *)
ExpireModel(m) ==
    /\ Expiry
    /\ cached[m] # NoRow
    /\ cached' = [cached EXCEPT ![m] = NoRow]
    /\ UNCHANGED <<alias, held, dbVars>>

(* Mutant: the entry under the dataset's id is stored without a TTL *)
ExpireNameOnly(a) ==
    /\ Expiry
    /\ a = "name"
    /\ alias[a] # NoEntry
    /\ alias' = [alias EXCEPT ![a] = NoEntry]
    /\ UNCHANGED <<cached, held, dbVars>>

ExpireAlias(a) ==
    /\ Expiry
    /\ alias[a] # NoEntry
    /\ alias' = [alias EXCEPT ![a] = NoEntry]
    /\ UNCHANGED <<cached, held, dbVars>>
=============================================================================

-------------------------- MODULE MCChampionRegistry --------------------------
(* Small instances of ChampionRegistry for TLC. *)
EXTENDS ChampionRegistry, TLC

CONSTANTS logistic, tree

(* Two of the three trainers, in their order *)
MCTrainers == <<logistic, tree>>
MCClients == Runs \cup Rollbacks \cup Readers

NoFaults == {}
RunFaults == {"train", "db", "commit"}
CacheFaults == {"redis", "train", "explain", "db", "commit"}

Symmetry == Permutations(Runs)
=============================================================================

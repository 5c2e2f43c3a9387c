----------------------------- MODULE FeatureStore -----------------------------
(***************************************************************************)
(* What the offline store (PostgreSQL) and the online store (Redis)        *)
(* promise each other, without uploads, events, tasks or failures: a value *)
(* once stored offline is never changed, and a vector the platform puts    *)
(* online holds, for every feature, the offline value or nothing.          *)
(***************************************************************************)
CONSTANTS Features, Entities, Keys, Versions, NoValue, NoVector, ClientVector

VARIABLES offline, \* <<feature, entity>> -> dataset version it was computed from
          online   \* <<key, entity>> -> vector in Redis

storeVars == <<offline, online>>

Init ==
    /\ offline = [c \in Features \X Entities |-> NoValue]
    /\ online = [k \in Keys \X Entities |-> NoVector]

(* One materialization: values for cells that had none *)
Commit ==
    /\ DOMAIN offline' = Features \X Entities
    /\ \A c \in Features \X Entities :
          offline'[c] \in IF offline[c] = NoValue THEN Versions \cup {NoValue} ELSE {offline[c]}
    /\ UNCHANGED online

(* A slot whose vector was read offline some time ago, was written by a    *)
(* client through the API, was dropped, or is left alone                   *)
Served(s) ==
    \/ online'[s] \in {online[s], NoVector, ClientVector}
    \/ \A f \in Features : online'[s][f] \in {NoValue, offline[<<f, s[2]>>]}

Serve ==
    /\ DOMAIN online' = Keys \X Entities
    /\ \A s \in Keys \X Entities : Served(s)
    /\ UNCHANGED offline

Next == Commit \/ Serve

Spec == Init /\ [][Next]_storeVars
=============================================================================

------------------------------- MODULE Flights -------------------------------
(***************************************************************************)
(* What PredictionCache.check_single_flight / release_single_flight        *)
(* promise, without events, caches or failures: at most one flight per     *)
(* key; callers that find one wait for it; when it lands, all the callers  *)
(* that wait for it go on, and the key is free again.                      *)
(***************************************************************************)
CONSTANTS Keys, Callers, NoCaller

VARIABLES leader,  \* key -> the caller that leads its flight, or NoCaller
          waiting  \* key -> the callers that wait for its flight

flightVars == <<leader, waiting>>

Init ==
    /\ leader = [k \in Keys |-> NoCaller]
    /\ waiting = [k \in Keys |-> {}]

Lead(k, c) ==
    /\ leader[k] = NoCaller
    /\ leader' = [leader EXCEPT ![k] = c]
    /\ UNCHANGED waiting

Join(k, c) ==
    /\ leader[k] \notin {NoCaller, c}
    /\ waiting' = [waiting EXCEPT ![k] = @ \cup {c}]
    /\ UNCHANGED leader

Land(k) ==
    /\ leader[k] # NoCaller
    /\ leader' = [leader EXCEPT ![k] = NoCaller]
    /\ waiting' = [waiting EXCEPT ![k] = {}]

Next == \E k \in Keys : Land(k) \/ \E c \in Callers : Lead(k, c) \/ Join(k, c)

Spec == Init /\ [][Next]_flightVars
=============================================================================

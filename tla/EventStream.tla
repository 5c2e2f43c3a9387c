------------------------------ MODULE EventStream ------------------------------
(***************************************************************************)
(* app/serving/websockets.py: the bus starts a broadcast for every event   *)
(* as a task of its own; it iterates over the list of connections while    *)
(* others connect, leave, and broadcast.                                   *)
(***************************************************************************)
EXTENDS Naturals, Sequences, FiniteSets, SequencesExt

CONSTANTS Clients, Sent \* connections; events

VARIABLES
    conns,  \* ConnectionManager.active_connections
    socket, \* client -> state of its socket
    cast,   \* event -> its broadcast
    got     \* client -> how often it received each event

streamVars == <<conns, socket, cast, got>>

IdleCast == [step |-> "idle", at |-> 1, dead |-> {}, audience |-> {}, shifted |-> FALSE]

StreamInit ==
    /\ conns = << >>
    /\ socket = [c \in Clients |-> "new"]
    /\ cast = [e \in Sent |-> IdleCast]
    /\ got = [c \in Clients |-> [e \in Sent |-> 0]]

(* Mutant: a new connection goes to the front of the list *)
ClientConnectsFirst(c) ==
    /\ socket[c] = "new"
    /\ socket' = [socket EXCEPT ![c] = "open"]
    /\ conns' = <<c>> \o conns
    /\ UNCHANGED <<cast, got>>

(* connect() *)
ClientConnects(c) ==
    /\ socket[c] = "new"
    /\ socket' = [socket EXCEPT ![c] = "open"]
    /\ conns' = Append(conns, c)
    /\ UNCHANGED <<cast, got>>

(* The client goes away: the endpoint has yet to learn of it *)
ClientVanishes(c) ==
    /\ socket[c] = "open"
    /\ socket' = [socket EXCEPT ![c] = "gone"]
    /\ UNCHANGED <<conns, cast, got>>

(* disconnect(): what comes after in the list moves forward, past a        *)
(* broadcast that is iterating                                             *)
Without(s, gone) ==
    LET kept == {i \in DOMAIN s : s[i] \notin gone}
        place(i) == Cardinality({j \in kept : j <= i})
    IN [k \in 1 .. Cardinality(kept) |-> s[CHOOSE i \in kept : place(i) = k]]

Shifted(gone) ==
    [e \in Sent |-> IF cast[e].step = "sending" /\ gone \cap Range(conns) # {}
                    THEN [cast[e] EXCEPT !.shifted = TRUE] ELSE cast[e]]

ClientNoticed(c) ==
    /\ socket[c] = "gone"
    /\ socket' = [socket EXCEPT ![c] = "left"]
    /\ conns' = Without(conns, {c})
    /\ cast' = Shifted({c})
    /\ UNCHANGED got

(* broadcast_event() *)
CastStart(e) ==
    /\ cast[e].step = "idle"
    /\ cast' = [cast EXCEPT ![e].step = IF conns = << >> THEN "done" ELSE "sending",
                            ![e].audience = Range(conns)]
    /\ UNCHANGED <<conns, socket, got>>

(* A send to a client that has gone raises, or is lost *)
CastSend(e) ==
    LET c == conns[cast[e].at]
    IN /\ cast[e].step = "sending"
       /\ cast[e].at <= Len(conns)
       /\ IF socket[c] = "open"
          THEN /\ got' = [got EXCEPT ![c][e] = @ + 1]
               /\ cast' = [cast EXCEPT ![e].at = @ + 1]
          ELSE /\ \E dead \in {{}, {c}} :
                     cast' = [cast EXCEPT ![e].at = @ + 1, ![e].dead = @ \cup dead]
               /\ UNCHANGED got
       /\ UNCHANGED <<conns, socket>>

CastEnd(e) ==
    /\ cast[e].step = "sending"
    /\ cast[e].at > Len(conns)
    /\ conns' = Without(conns, cast[e].dead)
    /\ cast' = [Shifted(cast[e].dead) EXCEPT ![e] = [cast[e] EXCEPT !.step = "done", !.at = 1, !.dead = {}]]
    /\ UNCHANGED <<socket, got>>

StreamNext ==
    \/ \E c \in Clients : ClientConnects(c) \/ ClientVanishes(c) \/ ClientNoticed(c)
    \/ \E e \in Sent : CastStart(e) \/ CastSend(e) \/ CastEnd(e)

StreamSpec == StreamInit /\ [][StreamNext]_streamVars

-----------------------------------------------------------------------------
(* Properties *)

(* Type invariant of the connection manager. *)
StreamTypeOK ==
    /\ conns \in Seq(Clients)
    /\ socket \in [Clients -> {"new", "open", "gone", "left"}]
    /\ cast \in [Sent -> [step : {"idle", "sending", "done"}, at : 1 .. Cardinality(Clients) + 1,
                          dead : SUBSET Clients, audience : SUBSET Clients, shifted : BOOLEAN]]
    /\ got \in [Clients -> [Sent -> Nat]]

(* A client receives an event at most once, and misses one that was        *)
(* broadcast while it was connected only if a connection was removed       *)
(* during that broadcast (websockets.py).                                  *)
StreamDelivers ==
    \A c \in Clients, e \in Sent :
        /\ got[c][e] <= 1
        /\ (/\ cast[e].step = "done"
            /\ c \in cast[e].audience
            /\ socket[c] = "open"
            /\ ~cast[e].shifted)
           => got[c][e] = 1
=============================================================================

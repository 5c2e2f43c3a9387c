------------------------------- MODULE EventBus -------------------------------
(***************************************************************************)
(* app/events/bus.py over Redis Pub/Sub, and the part of app/serving/      *)
(* main.py that creates it.  Redis hands an event only to who listens at   *)
(* that moment: nothing is stored, so an outage of Redis loses what is on  *)
(* the wire, and the listener task that an outage ends is not started      *)
(* again while the process lives.  Only events with a handler are put on   *)
(* the wire; all that was published is in the history variable log.        *)
(***************************************************************************)
EXTENDS Naturals, Sequences

CONSTANT Jobs \* uploads; every event descends from one

VARIABLES
    redisUp,  \* Redis answers
    listener, \* "absent": no bus in this process; "on"; "dead": task ended
    wire,     \* events the connection holds for the listener, in order
    log       \* history: the events ever published

busVars == <<redisUp, listener, wire, log>>

(* Events some handler of this process subscribes to *)
Handled == {"UPLOADED", "VALIDATED", "REGISTERED", "MATERIALIZED", "VALUES_CREATED"}

Kinds == Handled \cup {"FAILED", "PROFILED", "READY", "SYNCED", "JOB_FAILED"}

Event(kind, u) == [kind |-> kind, job |-> u]

Events == [kind : Kinds, job : Jobs]

BusTypeOK ==
    /\ redisUp \in BOOLEAN
    /\ listener \in {"absent", "on", "dead"}
    /\ wire \in Seq([kind : Handled, job : Jobs])
    /\ log \subseteq Events

(* lifespan(): the bus, and its subscribers, exist in this process only if *)
(* the connect() at start-up succeeded                                     *)
BusInit ==
    /\ redisUp \in BOOLEAN
    /\ listener = IF redisUp THEN "on" ELSE "absent"
    /\ wire = << >>
    /\ log = {}

(* publish() goes to the raw client, which raises while Redis is down.     *)
(* Without a bus, callers skip it.                                         *)
PublishFails == listener # "absent" /\ ~redisUp

Publish(e) ==
    /\ ~PublishFails
    /\ log' = IF listener = "absent" THEN log ELSE log \cup {e}
    /\ wire' = IF listener = "on" /\ e.kind \in Handled THEN Append(wire, e) ELSE wire
    /\ UNCHANGED <<redisUp, listener>>

(* _listen(): the next event leaves the wire for _dispatch() *)
Receive(e) ==
    /\ listener = "on"
    /\ redisUp
    /\ wire # << >>
    /\ e = Head(wire)
    /\ wire' = Tail(wire)
    /\ UNCHANGED <<redisUp, listener, log>>

RedisFails ==
    /\ redisUp
    /\ redisUp' = FALSE
    /\ wire' = << >>
    /\ UNCHANGED <<listener, log>>

RedisReturns ==
    /\ ~redisUp
    /\ redisUp' = TRUE
    /\ UNCHANGED <<listener, wire, log>>

(* The connection error reaches pubsub.listen() and ends the task, unless  *)
(* the client library reconnects first; _listener_task stays set           *)
ListenerDies ==
    /\ listener = "on"
    /\ ~redisUp
    /\ listener' = "dead"
    /\ UNCHANGED <<redisUp, wire, log>>

(* stop(), or a crash, and the next process's lifespan *)
BusRestart ==
    /\ listener' = IF redisUp THEN "on" ELSE "absent"
    /\ wire' = << >>
    /\ UNCHANGED <<redisUp, log>>
=============================================================================

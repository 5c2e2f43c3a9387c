------------------------------- MODULE RedisLink -------------------------------
(***************************************************************************)
(* The process's link to Redis:                                            *)
(*   redis_client.py      the client the caches share: its connected flag, *)
(*                        its lock and its retrying execute_with_retry()   *)
(*   recovery_manager.py  the probe that notices outages and warms caches  *)
(*   health_monitor.py    the sampler behind the status endpoints          *)
(*   main.py              lifespan(), which starts and stops the last two  *)
(* lifespan() connects a client of its own, RedisClient(), which is not    *)
(* the get_instance() of all the others: here it only decides whether they *)
(* are started.                                                            *)
(***************************************************************************)
EXTENDS Naturals, FiniteSets

CONSTANTS Ops,        \* calls of execute_with_retry()
          PoolSize,   \* permits of the semaphore
          MaxRetries, \* attempts of a call
          MaxEvents   \* bound: calls, health checks and outages of the server

ASSUME RedisAssumption ==
    /\ PoolSize \in Nat \ {0}
    /\ MaxRetries \in Nat \ {0}
    /\ MaxEvents \in Nat
    /\ Ops \cap {"nobody", "probe", "monitor", "health"} = {}

VARIABLES
    up,      \* the server answers
    events,  \* calls, checks and outages so far
    made,    \* RedisClient._instance is not None
    flag,    \* RedisClient._is_connected
    lock,    \* who holds RedisClient._lock around a PING, or "nobody"
    permits, \* free permits of _semaphore
    op,      \* the calls
    proc,    \* lifespan: "starting", "full", "degraded" (no Redis), "stopped"
    probe,   \* RedisRecoveryManager: where _probe() is, and _was_connected
    monitor, \* RedisHealthMonitor: where _sample() is, and the snapshot
    health,  \* a health_check() request
    warm     \* the caches that hold what PostgreSQL holds

server == <<up, events>>
link == <<made, flag, lock>>
callers == <<permits, op>>
watchers == <<proc, probe, monitor>>
redisVars == <<server, link, callers, watchers, health, warm>>

Caches == {"model", "prediction"}

RedisInit ==
    /\ up \in BOOLEAN
    /\ events = 0
    /\ made = FALSE
    /\ flag = FALSE
    /\ lock = "nobody"
    /\ permits = PoolSize
    /\ op = [o \in Ops |-> [step |-> "idle", attempt |-> 1, applied |-> 0, answer |-> "none"]]
    /\ proc = "starting"
    /\ probe = [step |-> "sleep", was |-> TRUE]
    /\ monitor = [step |-> "sleep", snapshot |-> "none"]
    /\ health = "idle"
    /\ warm = {}

Happens == events < MaxEvents /\ events' = events + 1

-----------------------------------------------------------------------------
(* connect(): the lock is held around the PING; who finds the flag set     *)
(* when it gets the lock returns TRUE without a PING                       *)

ConnectPings(who) ==
    /\ lock = "nobody"
    /\ ~flag
    /\ lock' = who
    /\ UNCHANGED <<made, flag>>

ConnectReturns(who, ok) ==
    \/ lock = "nobody" /\ flag /\ ok /\ UNCHANGED link
    \/ lock = who /\ lock' = "nobody" /\ flag' = up /\ ok = up /\ UNCHANGED made

(* get_instance(): whoever comes first makes the instance and connects it; *)
(* the others take it as it is.                                            *)
GetsInstance(connecting) ==
    /\ made' = TRUE
    /\ connecting = ~made
    /\ UNCHANGED <<flag, lock>>

-----------------------------------------------------------------------------
(* execute_with_retry() *)

OpAt(o, step) == op[o].step = step
OpGoes(o, step) == op' = [op EXCEPT ![o].step = step]

(* The caches take the client from get_instance(), the rate limiter and    *)
(* the explanation cache from get_instance_sync(), which never connects.   *)
OpCall(o) ==
    /\ OpAt(o, "idle")
    /\ Happens
    /\ proc \in {"full", "degraded"}
    /\ \E connecting \in BOOLEAN :
          /\ GetsInstance(connecting)
          /\ \/ connecting /\ OpGoes(o, "first")
             \/ OpGoes(o, IF flag THEN "queue" ELSE "connect")
    /\ UNCHANGED <<up, permits, watchers, health, warm>>

OpFirst(o) ==
    /\ OpAt(o, "first")
    /\ \/ ConnectPings(o) /\ UNCHANGED op
       \/ \E ok \in BOOLEAN :
            ConnectReturns(o, ok) /\ OpGoes(o, IF ok THEN "queue" ELSE "connect")
    /\ UNCHANGED <<server, permits, watchers, health, warm>>

(* Mutant: the attempt that has failed is repeated *)
RetriedForever(r) == [r EXCEPT !.step = IF flag THEN "queue" ELSE "connect"]

(* Mutant: one attempt more *)
RetriedOnceMore(r) ==
    IF r.attempt <= MaxRetries
    THEN [r EXCEPT !.attempt = @ + 1, !.step = IF flag THEN "queue" ELSE "connect"]
    ELSE [r EXCEPT !.step = "done", !.answer = "None"]

(* Connection errors and timeouts are retried; after the last attempt the  *)
(* caller gets None.  The flag stays as it is.                             *)
Retried(r) ==
    IF r.attempt < MaxRetries
    THEN [r EXCEPT !.attempt = @ + 1, !.step = IF flag THEN "queue" ELSE "connect"]
    ELSE [r EXCEPT !.step = "done", !.answer = "None"]

OpConnect(o) ==
    /\ OpAt(o, "connect")
    /\ \/ ConnectPings(o) /\ UNCHANGED op
       \/ ConnectReturns(o, TRUE) /\ OpGoes(o, "queue")
       \/ ConnectReturns(o, FALSE) /\ op' = [op EXCEPT ![o] = Retried(@)]
    /\ UNCHANGED <<server, permits, watchers, health, warm>>

OpEnter(o) ==
    /\ OpAt(o, "queue")
    /\ permits > 0
    /\ permits' = permits - 1
    /\ OpGoes(o, "run")
    /\ UNCHANGED <<server, link, watchers, health, warm>>

(* Mutant: a time-out returns a permit that was not taken *)
OpQueueGivesUp(o) ==
    /\ OpAt(o, "queue")
    /\ permits = 0
    /\ permits' = permits + 1
    /\ op' = [op EXCEPT ![o] = Retried(@)]
    /\ UNCHANGED <<server, link, watchers, health, warm>>

(* wait_for() covers the wait for a permit as well *)
OpQueueTimeout(o) ==
    /\ OpAt(o, "queue")
    /\ permits = 0
    /\ op' = [op EXCEPT ![o] = Retried(@)]
    /\ UNCHANGED <<server, link, permits, watchers, health, warm>>

Applied(r) == [r EXCEPT !.applied = @ + 1]

(* Leaving the semaphore: the answer, an error the server reports, or no   *)
(* answer in time, whether or not the server applied the operation         *)
OpRun(o) ==
    /\ OpAt(o, "run")
    /\ permits' = permits + 1
    /\ \/ up /\ op' = [op EXCEPT ![o] = [Applied(@) EXCEPT !.step = "done", !.answer = "ok"]]
       \/ up /\ op' = [op EXCEPT ![o] = [@ EXCEPT !.step = "done", !.answer = "None"]]
       \/ up /\ op' = [op EXCEPT ![o] = Retried(Applied(@))]
       \/ op' = [op EXCEPT ![o] = Retried(@)]
    /\ UNCHANGED <<server, link, watchers, health, warm>>

-----------------------------------------------------------------------------
(* RedisRecoveryManager._probe() *)

ProbeGoes(step) == probe' = [probe EXCEPT !.step = step]

(* Mutant: an outage is noted at the reconnection only *)
ProbeNotesReturn(now) ==
    CASE ~probe.was /\ now -> probe' = [step |-> "warmModel", was |-> TRUE]
      [] ~now -> ProbeGoes("reconnect")
      [] OTHER -> ProbeGoes("sleep")


(* What a probe does with "is connected and answers a PING" *)
ProbeNotes(now) ==
    CASE probe.was /\ ~now -> probe' = [step |-> "sleep", was |-> FALSE]
      [] ~probe.was /\ now -> probe' = [step |-> "warmModel", was |-> TRUE]
      [] ~probe.was /\ ~now -> ProbeGoes("reconnect")
      [] OTHER -> ProbeGoes("sleep")

(* A client that is not flagged connected is not asked *)
ProbeStart ==
    /\ proc = "full"
    /\ probe.step = "sleep"
    /\ \E connecting \in BOOLEAN :
          /\ GetsInstance(connecting)
          /\ CASE connecting -> ProbeGoes("connect")
               [] ~connecting /\ flag -> ProbeGoes("ping")
               [] ~connecting /\ ~flag -> ProbeNotes(FALSE)
    /\ UNCHANGED <<server, callers, proc, monitor, health, warm>>

(* The first get_instance() of all was the probe's *)
ProbeConnect ==
    /\ probe.step = "connect"
    /\ \/ ConnectPings("probe") /\ UNCHANGED probe
       \/ ConnectReturns("probe", TRUE) /\ ProbeGoes("ping")
       \/ ConnectReturns("probe", FALSE) /\ ProbeNotes(FALSE)
    /\ UNCHANGED <<server, callers, proc, monitor, health, warm>>

ProbePing ==
    /\ probe.step = "ping"
    /\ ProbeNotes(up)
    /\ UNCHANGED <<server, link, callers, proc, monitor, health, warm>>

(* The outcome is for the next probe to notice *)
ProbeReconnect ==
    /\ probe.step = "reconnect"
    /\ \/ ConnectPings("probe") /\ UNCHANGED probe
       \/ \E ok \in BOOLEAN : ConnectReturns("probe", ok) /\ ProbeGoes("sleep")
    /\ UNCHANGED <<server, callers, proc, monitor, health, warm>>

(* warm_caches_after_recovery(): a warm-up that fails is logged, and not   *)
(* tried again before the next recovery                                    *)
ProbeWarm ==
    /\ \/ probe.step = "warmModel" /\ ProbeGoes("warmPredictions") /\
          warm' = IF up THEN warm \cup {"model"} ELSE warm
       \/ probe.step = "warmPredictions" /\ ProbeGoes("sleep") /\
          warm' = IF up THEN warm \cup {"prediction"} ELSE warm
    /\ UNCHANGED <<server, link, callers, proc, monitor, health>>

-----------------------------------------------------------------------------
(* RedisHealthMonitor._sample() and RedisClient.health_check() *)

MonitorGoes(step) == monitor' = [monitor EXCEPT !.step = step]

Offline == monitor' = [step |-> "sleep", snapshot |-> "OFFLINE"]

(* A sample does not reconnect a client that is not flagged connected *)
MonitorStart ==
    /\ proc = "full"
    /\ monitor.step = "sleep"
    /\ \E connecting \in BOOLEAN :
          /\ GetsInstance(connecting)
          /\ CASE connecting -> MonitorGoes("connect")
               [] ~connecting /\ flag -> MonitorGoes("ping")
               [] ~connecting /\ ~flag -> Offline
    /\ UNCHANGED <<server, callers, proc, probe, health, warm>>

(* The first get_instance() of all was the monitor's *)
MonitorConnect ==
    /\ monitor.step = "connect"
    /\ \/ ConnectPings("monitor") /\ UNCHANGED monitor
       \/ ConnectReturns("monitor", TRUE) /\ MonitorGoes("ping")
       \/ ConnectReturns("monitor", FALSE) /\ Offline
    /\ UNCHANGED <<server, callers, proc, probe, health, warm>>

MonitorPing ==
    /\ monitor.step = "ping"
    /\ IF up THEN MonitorGoes("info") ELSE Offline
    /\ UNCHANGED <<server, link, callers, proc, probe, health, warm>>

(* The snapshot says ONLINE whether or not INFO was answered *)
MonitorInfo ==
    /\ monitor.step = "info"
    /\ monitor' = [step |-> "sleep", snapshot |-> "ONLINE"]
    /\ UNCHANGED <<server, link, callers, proc, probe, health, warm>>

HealthStart ==
    /\ health = "idle"
    /\ Happens
    /\ \E connecting \in BOOLEAN :
          /\ GetsInstance(connecting)
          /\ \/ connecting /\ health' = "first"
             \/ health' = IF flag THEN "ping" ELSE "connect"
    /\ UNCHANGED <<up, callers, watchers, warm>>

HealthFirst ==
    /\ health = "first"
    /\ \/ ConnectPings("health") /\ UNCHANGED health
       \/ \E ok \in BOOLEAN :
            ConnectReturns("health", ok) /\ health' = IF ok THEN "ping" ELSE "connect"
    /\ UNCHANGED <<server, callers, watchers, warm>>

HealthConnect ==
    /\ health = "connect"
    /\ \/ ConnectPings("health") /\ UNCHANGED health
       \/ \E ok \in BOOLEAN : ConnectReturns("health", ok) /\ health' = "ping"
    /\ UNCHANGED <<server, callers, watchers, warm>>

(* The one place that clears the flag of a connected client *)
HealthPing ==
    /\ health = "ping"
    /\ health' = "idle"
    /\ flag' = up
    /\ UNCHANGED <<server, made, lock, callers, watchers, warm>>

-----------------------------------------------------------------------------
(* The server, and lifespan() *)

(* A server that comes back may have lost its keys *)
ServerFails ==
    /\ up
    /\ Happens
    /\ up' = FALSE
    /\ warm' \in {warm, {}}
    /\ UNCHANGED <<link, callers, watchers, health>>

ServerReturns ==
    /\ ~up
    /\ up' = TRUE
    /\ UNCHANGED <<events, link, callers, watchers, health, warm>>

Startup ==
    /\ proc = "starting"
    /\ proc' = IF up THEN "full" ELSE "degraded"
    /\ UNCHANGED <<server, link, callers, probe, monitor, health, warm>>

(* stop() cancels the two tasks, also inside connect() *)
Shutdown ==
    /\ proc \in {"full", "degraded"}
    /\ proc' = "stopped"
    /\ probe' = [probe EXCEPT !.step = "sleep"]
    /\ monitor' = [monitor EXCEPT !.step = "sleep"]
    /\ lock' = IF lock \in {"probe", "monitor"} THEN "nobody" ELSE lock
    /\ UNCHANGED <<server, made, flag, callers, health, warm>>

OpStep(o) == OpFirst(o) \/ OpConnect(o) \/ OpEnter(o) \/ OpQueueTimeout(o) \/ OpRun(o)
ProbeStep == ProbeStart \/ ProbeConnect \/ ProbePing \/ ProbeReconnect \/ ProbeWarm
MonitorStep == MonitorStart \/ MonitorConnect \/ MonitorPing \/ MonitorInfo
HealthStep == HealthStart \/ HealthFirst \/ HealthConnect \/ HealthPing

RedisNext ==
    \/ \E o \in Ops : OpCall(o) \/ OpStep(o)
    \/ ProbeStep \/ MonitorStep \/ HealthStep
    \/ ServerFails \/ ServerReturns \/ Startup \/ Shutdown

RedisSpec == RedisInit /\ [][RedisNext]_redisVars

(* The event loop runs what can run; _lock serves its waiters in turn *)
RedisFairness ==
    /\ \A o \in Ops : SF_redisVars(OpStep(o))
    /\ SF_redisVars(ProbeStep)
    /\ SF_redisVars(MonitorStep)
    /\ SF_redisVars(HealthFirst \/ HealthConnect \/ HealthPing)

FairRedisSpec == RedisSpec /\ RedisFairness

-----------------------------------------------------------------------------
(* Properties *)

(* Type invariant of the link. *)
RedisTypeOK ==
    /\ up \in BOOLEAN /\ made \in BOOLEAN /\ flag \in BOOLEAN
    /\ events \in 0 .. MaxEvents
    /\ lock \in Ops \cup {"nobody", "probe", "monitor", "health"}
    /\ permits \in 0 .. PoolSize
    /\ op \in [Ops -> [step : {"idle", "first", "connect", "queue", "run", "done"},
                       attempt : 1 .. MaxRetries, applied : 0 .. MaxRetries,
                       answer : {"none", "ok", "None"}]]
    /\ proc \in {"starting", "full", "degraded", "stopped"}
    /\ probe \in [step : {"sleep", "connect", "ping", "reconnect", "warmModel", "warmPredictions"},
                  was : BOOLEAN]
    /\ monitor \in [step : {"sleep", "connect", "ping", "info"},
                    snapshot : {"none", "ONLINE", "OFFLINE"}]
    /\ health \in {"idle", "first", "connect", "ping"}
    /\ warm \subseteq Caches

(* Timeouts, errors and retries neither lose a permit of the semaphore nor *)
(* return one twice.  A caller that got an answer knows its operation was  *)
(* applied; one is applied more than once only after an attempt without an *)
(* answer (redis_client.py).                                               *)
AttemptsAccounted ==
    /\ permits + Cardinality({o \in Ops : OpAt(o, "run")}) = PoolSize
    /\ \A o \in Ops :
          /\ op[o].answer = "ok" => op[o].applied > 0
          /\ op[o].applied <= op[o].attempt
          /\ op[o].applied = op[o].attempt => op[o].step = "done"

(* Redis up or down, a call returns (redis_client.py).                     *)
CallsReturn == \A o \in Ops : ~OpAt(o, "idle") ~> OpAt(o, "done")

(* When Redis stays up, or down, the recovery manager and the monitor come *)
(* to say so, although only a probe reconnects, and only one that comes    *)
(* after the probe that noted the outage (recovery_manager.py,             *)
(* health_monitor.py).                                                     *)
WatchersConverge ==
    /\ <>[](up /\ proc = "full") => <>[](probe.was /\ monitor.snapshot = "ONLINE")
    /\ <>[](~up /\ proc = "full") => <>[](~probe.was /\ monitor.snapshot = "OFFLINE")

=============================================================================

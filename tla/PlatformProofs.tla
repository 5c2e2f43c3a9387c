---------------------------- MODULE PlatformProofs ----------------------------
(***************************************************************************)
(* Theorems about three subsystems around the engine: the Redis client and *)
(* its watchers (RedisLink), background explanations (Explanations) and    *)
(* the WebSocket stream (EventStream). Each section has the invariant of   *)
(* one of them, a lemma per action, and the theorems.                      *)
(***************************************************************************)
EXTENDS RedisLink, Explanations, EventStream,
        FiniteSetTheorems, SequenceTheorems, TLAPS

-----------------------------------------------------------------------------
(* Redis client, recovery manager and health monitor *)

(* The calls that hold a permit of the semaphore (cache/redis_client.py) *)
Running == {o \in Ops : OpAt(o, "run")}

(* A call of execute_with_retry() that is not over has an attempt that the *)
(* server has not applied; one that has answered "ok" has been applied     *)
CallSound(r) ==
    /\ r.answer = "ok" => r.applied > 0
    /\ r.applied <= r.attempt
    /\ r.applied = r.attempt => r.step = "done"

(* The inductive invariant: every permit is free or held by a running call *)
LinkInv ==
    /\ RedisTypeOK
    /\ IsFiniteSet(Running)
    /\ permits + Cardinality(Running) = PoolSize
    /\ \A o \in Ops : CallSound(op[o])

(* The record of a call *)
OpType == [step : {"idle", "first", "connect", "queue", "run", "done"},
           attempt : 1 .. MaxRetries, applied : 0 .. MaxRetries,
           answer : {"none", "ok", "None"}]

(* At the start nobody runs and every permit is free *)
LEMMA RedisInitInv == RedisInit => LinkInv
<1> SUFFICES ASSUME RedisInit PROVE LinkInv
  OBVIOUS
<1>1. RedisTypeOK
  <2>1. [step |-> "idle", attempt |-> 1, applied |-> 0, answer |-> "none"] \in OpType
    BY RedisAssumption DEF OpType
  <2>2. op \in [Ops -> OpType]
    BY <2>1 DEF RedisInit
  <2>3. up \in BOOLEAN /\ made \in BOOLEAN /\ flag \in BOOLEAN
    BY DEF RedisInit
  <2>4. probe \in [step : {"sleep", "connect", "ping", "reconnect", "warmModel", "warmPredictions"},
                   was : BOOLEAN]
    BY DEF RedisInit
  <2>5. /\ events \in 0 .. MaxEvents /\ permits \in 0 .. PoolSize
        /\ monitor \in [step : {"sleep", "connect", "ping", "info"},
                        snapshot : {"none", "ONLINE", "OFFLINE"}]
        /\ health \in {"idle", "first", "connect", "ping"} /\ warm \subseteq Caches
        /\ lock \in Ops \cup {"nobody", "probe", "monitor", "health"}
        /\ proc \in {"starting", "full", "degraded", "stopped"}
    BY RedisAssumption DEF RedisInit
  <2> QED BY <2>2, <2>3, <2>4, <2>5 DEF RedisTypeOK, OpType
<1>2. Running = {}
  BY DEF RedisInit, Running, OpAt
<1>3. permits + Cardinality(Running) = PoolSize /\ IsFiniteSet(Running)
  BY <1>2, FS_EmptySet, RedisAssumption DEF RedisInit
<1>4. \A o \in Ops : CallSound(op[o])
  BY DEF RedisInit, CallSound
<1> QED BY <1>1, <1>3, <1>4 DEF LinkInv

(* When one call moves and the others stay, it joins the running calls or  *)
(* leaves them, and the permits follow                                     *)
LEMMA OneCallMoves ==
  ASSUME LinkInv, NEW o \in Ops, NEW r \in OpType,
         op' = [op EXCEPT ![o] = r], CallSound(r),
         \/ permits' = permits /\ op[o].step # "run" /\ r.step # "run"
         \/ permits' = permits - 1 /\ op[o].step # "run" /\ r.step = "run"
         \/ permits' = permits + 1 /\ op[o].step = "run" /\ r.step # "run"
  PROVE  /\ op' \in [Ops -> OpType]
         /\ \A q \in Ops : CallSound(op'[q])
         /\ IsFiniteSet(Running') 
         /\ permits' + Cardinality(Running') = PoolSize
         /\ permits' <= PoolSize
<1>1. op \in [Ops -> OpType] /\ permits \in 0 .. PoolSize
  BY DEF LinkInv, RedisTypeOK, OpType
<1>2. op' \in [Ops -> OpType] /\ op'[o] = r /\ \A q \in Ops \ {o} : op'[q] = op[q]
  BY <1>1
<1>3. \A q \in Ops : CallSound(op'[q])
  BY <1>2 DEF LinkInv
<1>4. IsFiniteSet(Running) /\ Cardinality(Running) \in Nat /\ permits + Cardinality(Running) = PoolSize
  BY FS_CardinalityType DEF LinkInv
<1> DEFINE S == Running
<1>5. CASE permits' = permits /\ op[o].step # "run" /\ r.step # "run"
  <2>1. Running' = Running
    BY <1>2, <1>5 DEF Running, OpAt
  <2> QED BY <2>1, <1>1, <1>2, <1>3, <1>4, <1>5, RedisAssumption
<1>6. CASE permits' = permits - 1 /\ op[o].step # "run" /\ r.step = "run"
  <2>1. Running' = Running \cup {o} /\ o \notin Running
    BY <1>2, <1>6 DEF Running, OpAt
  <2>2. IsFiniteSet(Running') /\ Cardinality(Running') = Cardinality(Running) + 1
    BY <2>1, <1>4, FS_AddElement
  <2> QED BY <2>2, <1>1, <1>2, <1>3, <1>4, <1>6, RedisAssumption
<1>7. CASE permits' = permits + 1 /\ op[o].step = "run" /\ r.step # "run"
  <2>1. Running' = Running \ {o} /\ o \in Running
    BY <1>2, <1>7 DEF Running, OpAt
  <2>2. IsFiniteSet(Running') /\ Cardinality(Running') = Cardinality(Running) - 1
    BY <2>1, <1>4, FS_RemoveElement
  <2>3. Cardinality(Running') \in Nat
    BY <2>2, FS_CardinalityType
  <2> QED BY <2>2, <2>3, <1>1, <1>2, <1>3, <1>4, <1>7, RedisAssumption
<1> QED BY <1>5, <1>6, <1>7

(* A caller enters execute_with_retry() without a permit *)
LEMMA OpCallInv == ASSUME LinkInv, NEW o \in Ops, OpCall(o) PROVE LinkInv'
<1>1. PICK r \in OpType : /\ op' = [op EXCEPT ![o] = r]
                          /\ CallSound(r) /\ r.step # "run"
  <2>1. op[o] \in OpType /\ op[o].step = "idle" /\ CallSound(op[o])
    BY DEF LinkInv, RedisTypeOK, OpType, OpCall, OpAt
  <2>2. PICK step \in {"first", "connect", "queue"} : op' = [op EXCEPT ![o].step = step]
    BY DEF OpCall, OpGoes
  <2> DEFINE r == [op[o] EXCEPT !.step = step]
  <2>3. r \in OpType /\ r.step # "run" /\ CallSound(r)
    BY <2>1, <2>2 DEF OpType, CallSound
  <2> QED BY <2>2, <2>3
<1>2. op[o].step = "idle" /\ permits' = permits
  BY DEF OpCall, OpAt
<1>3. /\ op' \in [Ops -> OpType] /\ \A q \in Ops : CallSound(op'[q])
      /\ IsFiniteSet(Running') /\ permits' + Cardinality(Running') = PoolSize
  BY <1>1, <1>2, OneCallMoves
<1>4. RedisTypeOK'
  <2>1. made' \in BOOLEAN /\ UNCHANGED <<flag, lock>>
    BY DEF OpCall, GetsInstance
  <2> QED BY <1>2, <1>3, <2>1, RedisAssumption
      DEF OpCall, Happens, LinkInv, RedisTypeOK, OpType, watchers
<1> QED BY <1>3, <1>4 DEF LinkInv

(* What connect() does to the lock and to the connection flag *)
LEMMA ConnectType ==
  ASSUME LinkInv, NEW who \in Ops \cup {"probe", "monitor", "health"},
         \/ ConnectPings(who)
         \/ \E ok \in BOOLEAN : ConnectReturns(who, ok)
  PROVE  /\ made' \in BOOLEAN /\ flag' \in BOOLEAN
         /\ lock' \in Ops \cup {"nobody", "probe", "monitor", "health"}
<1>1. /\ made \in BOOLEAN /\ flag \in BOOLEAN /\ up \in BOOLEAN
      /\ lock \in Ops \cup {"nobody", "probe", "monitor", "health"}
  BY DEF LinkInv, RedisTypeOK
<1>2. CASE ConnectPings(who)
  BY <1>1, <1>2 DEF ConnectPings
<1>3. ASSUME NEW ok \in BOOLEAN, ConnectReturns(who, ok)
      PROVE  made' \in BOOLEAN /\ flag' \in BOOLEAN /\ lock' \in Ops \cup {"nobody", "probe", "monitor", "health"}
  BY <1>1, <1>3 DEF ConnectReturns, link
<1> QED BY <1>2, <1>3

(* An attempt that failed or timed out is repeated, or it was the last one *)
LEMMA RetriedSound ==
  ASSUME NEW r \in OpType, r.step # "done", r.applied <= r.attempt,
         r.answer = "ok" => r.applied > 0
  PROVE  Retried(r) \in OpType /\ CallSound(Retried(r)) /\ Retried(r).step # "run"
<1>1. /\ r.attempt \in 1 .. MaxRetries /\ r.applied \in 0 .. MaxRetries
      /\ r.answer \in {"none", "ok", "None"} /\ r.applied <= r.attempt
      /\ r.answer = "ok" => r.applied > 0
      /\ r = [step |-> r.step, attempt |-> r.attempt, applied |-> r.applied,
              answer |-> r.answer]
  BY RedisAssumption DEF OpType, CallSound
<1>2. CASE r.attempt < MaxRetries
  <2>1. PICK step \in {"connect", "queue"} : step = IF flag THEN "queue" ELSE "connect"
    OBVIOUS
  <2>2. Retried(r) = [step |-> step, attempt |-> r.attempt + 1, applied |-> r.applied,
                      answer |-> r.answer]
    BY <1>1, <1>2, <2>1 DEF Retried
  <2> QED BY <1>1, <1>2, <2>2, RedisAssumption DEF OpType, CallSound
<1>3. CASE ~(r.attempt < MaxRetries)
  <2>1. Retried(r) = [step |-> "done", attempt |-> r.attempt, applied |-> r.applied,
                      answer |-> "None"]
    BY <1>1, <1>3 DEF Retried
  <2> QED BY <1>1, <1>3, <2>1, RedisAssumption DEF OpType, CallSound
<1> QED BY <1>2, <1>3

(* An attempt that the server applied, whether or not the answer arrives *)
LEMMA AppliedSound ==
  ASSUME NEW r \in OpType, CallSound(r), r.step = "run"
  PROVE  /\ Applied(r) \in OpType
         /\ CallSound([Applied(r) EXCEPT !.step = "done", !.answer = "ok"])
         /\ [Applied(r) EXCEPT !.step = "done", !.answer = "ok"] \in OpType
         /\ Applied(r).step = "run"
         /\ r.answer = "ok" => Applied(r).applied > 0
         /\ Applied(r).applied <= Applied(r).attempt /\ Applied(r).answer = r.answer
<1>1. /\ r.attempt \in 1 .. MaxRetries /\ r.applied \in 0 .. MaxRetries
      /\ r.answer \in {"none", "ok", "None"} /\ r.applied + 1 <= r.attempt
      /\ r.answer = "ok" => r.applied > 0
      /\ r = [step |-> "run", attempt |-> r.attempt, applied |-> r.applied, answer |-> r.answer]
  BY RedisAssumption DEF OpType, CallSound
<1>2. Applied(r) = [step |-> "run", attempt |-> r.attempt, applied |-> r.applied + 1,
                    answer |-> r.answer]
  BY <1>1 DEF Applied
<1>3. [Applied(r) EXCEPT !.step = "done", !.answer = "ok"]
      = [step |-> "done", attempt |-> r.attempt, applied |-> r.applied + 1, answer |-> "ok"]
  <2>1. PICK a : a = Applied(r)
    OBVIOUS
  <2>2. PICK n : n = r.applied + 1
    OBVIOUS
  <2>3. a = [step |-> "run", attempt |-> r.attempt, applied |-> n, answer |-> r.answer]
    BY <1>2, <2>1, <2>2
  <2>4. PICK b : b = [a EXCEPT !.step = "done"]
    OBVIOUS
  <2>5. b = [step |-> "done", attempt |-> r.attempt, applied |-> n, answer |-> r.answer]
    BY <2>3, <2>4
  <2>6. [b EXCEPT !.answer = "ok"] = [step |-> "done", attempt |-> r.attempt,
                                      applied |-> n, answer |-> "ok"]
    BY <2>5
  <2> QED BY <2>1, <2>2, <2>4, <2>6
<1>4. r.applied + 1 \in 0 .. MaxRetries /\ r.applied + 1 > 0
  BY <1>1, RedisAssumption
<1>5. Applied(r) \in OpType
  BY <1>1, <1>2, <1>4 DEF OpType
<1>6. [Applied(r) EXCEPT !.step = "done", !.answer = "ok"] \in OpType
  BY <1>1, <1>3, <1>4 DEF OpType
<1>7. CallSound([Applied(r) EXCEPT !.step = "done", !.answer = "ok"])
  BY <1>1, <1>3, <1>4 DEF CallSound
<1>8. /\ Applied(r).step = "run" /\ Applied(r).applied > 0
      /\ Applied(r).applied <= Applied(r).attempt /\ Applied(r).answer = r.answer
  BY <1>1, <1>2, <1>4
<1> QED BY <1>5, <1>6, <1>7, <1>8

(* A caller that reconnects, or gives up, holds no permit *)
LEMMA OpConnectInv == ASSUME LinkInv, NEW o \in Ops, OpConnect(o) PROVE LinkInv'
<1>1. op[o] \in OpType /\ op[o].step = "connect" /\ CallSound(op[o]) /\ op \in [Ops -> OpType]
  BY DEF LinkInv, RedisTypeOK, OpType, OpConnect, OpAt
<1>2. PICK r \in OpType : op' = [op EXCEPT ![o] = r] /\ CallSound(r) /\ r.step # "run"
  <2>1. CASE UNCHANGED op
    <3>1. op' = [op EXCEPT ![o] = op[o]]
      BY <1>1, <2>1
    <3> QED BY <1>1, <3>1
  <2>2. CASE OpGoes(o, "queue")
    <3> DEFINE r == [op[o] EXCEPT !.step = "queue"]
    <3>1. r \in OpType /\ r.step # "run" /\ CallSound(r)
      BY <1>1 DEF OpType, CallSound
    <3> QED BY <3>1, <2>2 DEF OpGoes
  <2>3. CASE op' = [op EXCEPT ![o] = Retried(@)]
    <3>0. PICK was \in OpType : was = op[o]
      BY <1>1
    <3>1. Retried(was) \in OpType /\ CallSound(Retried(was)) /\ Retried(was).step # "run"
      BY <1>1, <3>0, RetriedSound DEF CallSound
    <3> QED BY <3>0, <3>1, <2>3
  <2> QED BY <2>1, <2>2, <2>3 DEF OpConnect
<1>3. permits' = permits
  BY DEF OpConnect
<1>4. /\ op' \in [Ops -> OpType] /\ \A q \in Ops : CallSound(op'[q])
      /\ IsFiniteSet(Running') /\ permits' + Cardinality(Running') = PoolSize
  BY <1>1, <1>2, <1>3, OneCallMoves
<1>5. made' \in BOOLEAN /\ flag' \in BOOLEAN /\ lock' \in Ops \cup {"nobody", "probe", "monitor", "health"}
  BY ConnectType DEF OpConnect
<1>6. RedisTypeOK'
  BY <1>3, <1>4, <1>5, RedisAssumption
  DEF OpConnect, LinkInv, RedisTypeOK, OpType, server, watchers
<1> QED BY <1>4, <1>6 DEF LinkInv

(* The caller that made the instance has connected it, or goes on without *)
LEMMA OpFirstInv == ASSUME LinkInv, NEW o \in Ops, OpFirst(o) PROVE LinkInv'
<1>1. op[o] \in OpType /\ op[o].step = "first" /\ CallSound(op[o]) /\ op \in [Ops -> OpType]
  BY DEF LinkInv, RedisTypeOK, OpType, OpFirst, OpAt
<1>2. PICK r \in OpType : op' = [op EXCEPT ![o] = r] /\ CallSound(r) /\ r.step # "run"
  <2>1. CASE UNCHANGED op
    <3>1. op' = [op EXCEPT ![o] = op[o]]
      BY <1>1, <2>1
    <3> QED BY <1>1, <3>1
  <2>2. ASSUME NEW step \in {"queue", "connect"}, OpGoes(o, step)
        PROVE  \E r \in OpType : op' = [op EXCEPT ![o] = r] /\ CallSound(r) /\ r.step # "run"
    <3> DEFINE r == [op[o] EXCEPT !.step = step]
    <3>1. r \in OpType /\ r.step # "run" /\ CallSound(r)
      BY <1>1 DEF OpType, CallSound
    <3> QED BY <3>1, <2>2 DEF OpGoes
  <2>3. UNCHANGED op \/ \E step \in {"queue", "connect"} : OpGoes(o, step)
    BY DEF OpFirst
  <2> QED BY <2>1, <2>2, <2>3
<1>3. permits' = permits
  BY DEF OpFirst
<1>4. /\ op' \in [Ops -> OpType] /\ \A q \in Ops : CallSound(op'[q])
      /\ IsFiniteSet(Running') /\ permits' + Cardinality(Running') = PoolSize
  BY <1>1, <1>2, <1>3, OneCallMoves
<1>5. made' \in BOOLEAN /\ flag' \in BOOLEAN /\ lock' \in Ops \cup {"nobody", "probe", "monitor", "health"}
  BY ConnectType DEF OpFirst
<1>6. RedisTypeOK'
  BY <1>3, <1>4, <1>5, RedisAssumption
  DEF OpFirst, LinkInv, RedisTypeOK, OpType, server, watchers
<1> QED BY <1>4, <1>6 DEF LinkInv

(* A caller takes a permit when there is one *)
LEMMA OpQueueInv ==
  ASSUME LinkInv, NEW o \in Ops, OpEnter(o) \/ OpQueueTimeout(o) PROVE LinkInv'
<1>1. op[o] \in OpType /\ op[o].step = "queue" /\ CallSound(op[o]) /\ op \in [Ops -> OpType]
  BY DEF LinkInv, RedisTypeOK, OpType, OpEnter, OpQueueTimeout, OpAt
<1>2. PICK r \in OpType :
        /\ op' = [op EXCEPT ![o] = r] /\ CallSound(r)
        /\ \/ permits' = permits /\ r.step # "run"
           \/ permits' = permits - 1 /\ r.step = "run"
  <2>1. CASE OpEnter(o)
    <3> DEFINE r == [op[o] EXCEPT !.step = "run"]
    <3>1. r \in OpType /\ r.step = "run" /\ CallSound(r)
      BY <1>1 DEF OpType, CallSound
    <3> QED BY <3>1, <2>1 DEF OpGoes, OpEnter
  <2>2. CASE OpQueueTimeout(o)
    <3>0. PICK was \in OpType : was = op[o]
      BY <1>1
    <3>1. Retried(was) \in OpType /\ CallSound(Retried(was)) /\ Retried(was).step # "run"
      BY <1>1, <3>0, RetriedSound DEF CallSound
    <3> QED BY <3>0, <3>1, <2>2 DEF OpQueueTimeout
  <2> QED BY <2>1, <2>2
<1>3. /\ op' \in [Ops -> OpType] /\ \A q \in Ops : CallSound(op'[q])
      /\ IsFiniteSet(Running') /\ permits' + Cardinality(Running') = PoolSize
  BY <1>1, <1>2, OneCallMoves
<1>4. permits' \in 0 .. PoolSize
  BY RedisAssumption DEF OpEnter, OpQueueTimeout, LinkInv, RedisTypeOK
<1>5. RedisTypeOK'
  BY <1>3, <1>4, RedisAssumption
  DEF OpEnter, OpQueueTimeout, LinkInv, RedisTypeOK, OpType, server, link, watchers
<1> QED BY <1>3, <1>5 DEF LinkInv

(* An attempt ends: the call returns its permit, or keeps it for the next  *)
(* attempt                                                                 *)
LEMMA OpRunInv == ASSUME LinkInv, NEW o \in Ops, OpRun(o) PROVE LinkInv'
<1>1. /\ op[o] \in OpType /\ op[o].step = "run" /\ CallSound(op[o])
      /\ op \in [Ops -> OpType]
  BY RedisAssumption DEF LinkInv, RedisTypeOK, OpType, OpRun, OpAt
<1>a. PICK was \in OpType : was = op[o]
  BY <1>1
<1>2. PICK r \in OpType : op' = [op EXCEPT ![o] = r] /\ CallSound(r) /\ r.step # "run"
  <2>1. CASE op' = [op EXCEPT ![o] = [Applied(@) EXCEPT !.step = "done", !.answer = "ok"]]
    <3> DEFINE r == [Applied(was) EXCEPT !.step = "done", !.answer = "ok"]
    <3>1. r \in OpType /\ CallSound(r)
      BY <1>1, <1>a, AppliedSound
    <3>2. r.step # "run"
      BY <1>1, <1>a, AppliedSound DEF OpType
    <3> QED BY <1>a, <3>1, <3>2, <2>1
  <2>2. CASE op' = [op EXCEPT ![o] = [@ EXCEPT !.step = "done", !.answer = "None"]]
    <3> DEFINE r == [was EXCEPT !.step = "done", !.answer = "None"]
    <3>1. r \in OpType /\ r.step # "run" /\ CallSound(r)
      BY <1>1, <1>a, RedisAssumption DEF OpType, CallSound
    <3> QED BY <1>a, <3>1, <2>2
  <2>3. CASE op' = [op EXCEPT ![o] = Retried(Applied(@))]
    <3>1. PICK tried \in OpType :
            /\ tried = Applied(was) /\ tried.step = "run" /\ tried.applied <= tried.attempt
            /\ tried.answer = "ok" => tried.applied > 0
      BY <1>1, <1>a, AppliedSound
    <3>2. /\ Retried(tried) \in OpType /\ CallSound(Retried(tried))
          /\ Retried(tried).step # "run"
      BY <3>1, RetriedSound
    <3> QED BY <1>a, <3>1, <3>2, <2>3
  <2>4. CASE op' = [op EXCEPT ![o] = Retried(@)]
    <3>1. Retried(was) \in OpType /\ CallSound(Retried(was)) /\ Retried(was).step # "run"
      BY <1>1, <1>a, RetriedSound DEF CallSound
    <3> QED BY <1>a, <3>1, <2>4
  <2> QED BY <2>1, <2>2, <2>3, <2>4 DEF OpRun
<1>3. permits' = permits + 1
  BY DEF OpRun
<1>4. /\ op' \in [Ops -> OpType] /\ \A q \in Ops : CallSound(op'[q])
      /\ IsFiniteSet(Running') /\ permits' + Cardinality(Running') = PoolSize
      /\ permits' <= PoolSize
  BY <1>1, <1>2, <1>3, OneCallMoves
<1>5. permits' \in 0 .. PoolSize
  BY <1>3, <1>4, RedisAssumption DEF LinkInv, RedisTypeOK
<1>6. RedisTypeOK'
  BY <1>4, <1>5 DEF OpRun, LinkInv, RedisTypeOK, OpType, server, link, watchers
<1> QED BY <1>4, <1>6 DEF LinkInv

(* The watchers, the health check, the server and lifespan() leave the     *)
(* calls alone                                                             *)
LEMMA CallsLeftAlone == ASSUME LinkInv, RedisTypeOK', UNCHANGED callers PROVE LinkInv'
  BY DEF LinkInv, Running, OpAt, callers

(* What the recovery manager notes of a probe *)
LEMMA ProbeNotesType ==
  ASSUME LinkInv, NEW now \in BOOLEAN, ProbeNotes(now)
  PROVE  probe' \in [step : {"sleep", "connect", "ping", "reconnect", "warmModel", "warmPredictions"},
                     was : BOOLEAN]
<1>1. probe \in [step : {"sleep", "connect", "ping", "reconnect", "warmModel", "warmPredictions"},
                 was : BOOLEAN]
  BY DEF LinkInv, RedisTypeOK
<1>2. \/ probe' = [step |-> "sleep", was |-> FALSE]
      \/ probe' = [step |-> "warmModel", was |-> TRUE]
      \/ probe' = [probe EXCEPT !.step = "reconnect"]
      \/ probe' = [probe EXCEPT !.step = "sleep"]
  BY DEF ProbeNotes, ProbeGoes
<1>3. PICK step \in {"sleep", "connect", "ping", "reconnect", "warmModel", "warmPredictions"},
           was \in BOOLEAN :
        probe' = [step |-> step, was |-> was]
  <2>1. probe = [step |-> probe.step, was |-> probe.was] /\ probe.was \in BOOLEAN
    BY <1>1
  <2>2. CASE probe' = [step |-> "sleep", was |-> FALSE] \/ probe' = [step |-> "warmModel",
                                                                     was |-> TRUE]
    BY <2>2
  <2>3. CASE probe' = [probe EXCEPT !.step = "reconnect"]
    BY <2>1, <2>3
  <2>4. CASE probe' = [probe EXCEPT !.step = "sleep"]
    BY <2>1, <2>4
  <2> QED BY <1>2, <2>2, <2>3, <2>4
<1> QED BY <1>3

(* The steps of the recovery manager *)
LEMMA ProbeStepInv == ASSUME LinkInv, ProbeStep PROVE LinkInv'
<1> USE DEF server, link, callers, ProbeGoes
<1>1. CASE ProbeStart
  <2>1. made' \in BOOLEAN /\ UNCHANGED <<flag, lock>>
    BY <1>1 DEF ProbeStart, GetsInstance
  <2>2. probe' \in [step : {"sleep", "connect", "ping", "reconnect", "warmModel", "warmPredictions"},
                    was : BOOLEAN]
    <3>1. \/ probe' = [probe EXCEPT !.step = "connect"]
          \/ probe' = [probe EXCEPT !.step = "ping"]
          \/ ProbeNotes(FALSE)
      BY <1>1 DEF ProbeStart
    <3>2. CASE ProbeNotes(FALSE)
      BY <3>2, ProbeNotesType
    <3>3. CASE probe' = [probe EXCEPT !.step = "connect"] \/ probe' = [probe EXCEPT !.step = "ping"]
      BY <3>3 DEF LinkInv, RedisTypeOK
    <3> QED BY <3>1, <3>2, <3>3
  <2>3. RedisTypeOK'
    BY <1>1, <2>1, <2>2 DEF LinkInv, RedisTypeOK, ProbeStart
  <2> QED BY <1>1, <2>3, CallsLeftAlone DEF ProbeStart
<1>2. CASE ProbeConnect
  <2>1. made' \in BOOLEAN /\ flag' \in BOOLEAN /\ lock' \in Ops \cup {"nobody", "probe", "monitor", "health"}
    BY <1>2, ConnectType DEF ProbeConnect
  <2>2. probe' \in [step : {"sleep", "connect", "ping", "reconnect", "warmModel", "warmPredictions"},
                    was : BOOLEAN]
    BY <1>2, ProbeNotesType DEF ProbeConnect, LinkInv, RedisTypeOK
  <2>3. RedisTypeOK'
    BY <1>2, <2>1, <2>2 DEF LinkInv, RedisTypeOK, ProbeConnect
  <2> QED BY <1>2, <2>3, CallsLeftAlone DEF ProbeConnect
<1>3. CASE ProbePing
  <2>1. probe' \in [step : {"sleep", "connect", "ping", "reconnect", "warmModel", "warmPredictions"},
                    was : BOOLEAN]
    <3>1. up \in BOOLEAN
      BY DEF LinkInv, RedisTypeOK
    <3> QED BY <1>3, <3>1, ProbeNotesType DEF ProbePing
  <2>2. RedisTypeOK'
    BY <1>3, <2>1 DEF LinkInv, RedisTypeOK, ProbePing
  <2> QED BY <1>3, <2>2, CallsLeftAlone DEF ProbePing
<1>4. CASE ProbeReconnect
  <2>1. made' \in BOOLEAN /\ flag' \in BOOLEAN /\ lock' \in Ops \cup {"nobody", "probe", "monitor", "health"}
    BY <1>4, ConnectType DEF ProbeReconnect
  <2>2. RedisTypeOK'
    BY <1>4, <2>1 DEF LinkInv, RedisTypeOK, ProbeReconnect
  <2> QED BY <1>4, <2>2, CallsLeftAlone DEF ProbeReconnect
<1>5. CASE ProbeWarm
  <2>1. RedisTypeOK'
    BY <1>5 DEF LinkInv, RedisTypeOK, ProbeWarm, Caches
  <2> QED BY <1>5, <2>1, CallsLeftAlone DEF ProbeWarm
<1> QED BY <1>1, <1>2, <1>3, <1>4, <1>5 DEF ProbeStep

(* The steps of the health monitor *)
LEMMA MonitorStepInv == ASSUME LinkInv, MonitorStep PROVE LinkInv'
<1> USE DEF server, link, callers, MonitorGoes
<1>0. monitor \in [step : {"sleep", "connect", "ping", "info"},
                   snapshot : {"none", "ONLINE", "OFFLINE"}]
  BY DEF LinkInv, RedisTypeOK
<1>1. CASE MonitorStart \/ MonitorPing \/ MonitorInfo
  <2>1. made' \in BOOLEAN /\ UNCHANGED <<flag, lock>>
    BY <1>1 DEF MonitorStart, MonitorPing, MonitorInfo, GetsInstance, LinkInv, RedisTypeOK
  <2>2. \/ \E step \in {"connect", "ping", "info"} : monitor' = [monitor EXCEPT !.step = step]
        \/ \E snapshot \in {"ONLINE", "OFFLINE"} : monitor' = [step |-> "sleep", snapshot |-> snapshot]
    BY <1>1 DEF MonitorStart, MonitorPing, MonitorInfo, Offline
  <2>3. monitor' \in [step : {"sleep", "connect", "ping", "info"},
                      snapshot : {"none", "ONLINE", "OFFLINE"}]
    BY <1>0, <2>2
  <2>4. RedisTypeOK'
    BY <1>1, <2>1, <2>3 DEF LinkInv, RedisTypeOK, MonitorStart, MonitorPing, MonitorInfo
  <2> QED BY <1>1, <2>4, CallsLeftAlone DEF MonitorStart, MonitorPing, MonitorInfo
<1>2. CASE MonitorConnect
  <2>1. made' \in BOOLEAN /\ flag' \in BOOLEAN /\ lock' \in Ops \cup {"nobody", "probe", "monitor", "health"}
    BY <1>2, ConnectType DEF MonitorConnect
  <2>2. monitor' \in [step : {"sleep", "connect", "ping", "info"},
                      snapshot : {"none", "ONLINE", "OFFLINE"}]
    <3>1. monitor \in [step : {"sleep", "connect", "ping", "info"},
                       snapshot : {"none", "ONLINE", "OFFLINE"}]
      BY DEF LinkInv, RedisTypeOK
    <3>2. \/ monitor' = monitor
          \/ monitor' = [monitor EXCEPT !.step = "ping"]
          \/ monitor' = [step |-> "sleep", snapshot |-> "OFFLINE"]
      BY <1>2 DEF MonitorConnect, Offline
    <3> QED BY <3>1, <3>2
  <2>3. RedisTypeOK'
    BY <1>2, <2>1, <2>2 DEF LinkInv, RedisTypeOK, MonitorConnect
  <2> QED BY <1>2, <2>3, CallsLeftAlone DEF MonitorConnect
<1> QED BY <1>1, <1>2 DEF MonitorStep

(* The steps of the health endpoint *)
LEMMA HealthStepInv == ASSUME LinkInv, HealthStep PROVE LinkInv'
<1> USE DEF server, link, callers, watchers
<1>1. CASE HealthStart \/ HealthPing
  <2>1. made' \in BOOLEAN /\ health' \in {"idle", "first", "connect", "ping"}
    BY <1>1 DEF LinkInv, RedisTypeOK, HealthStart, HealthPing, GetsInstance
  <2>2. RedisTypeOK'
    BY <1>1, <2>1, RedisAssumption
    DEF LinkInv, RedisTypeOK, HealthStart, HealthPing, GetsInstance, Happens
  <2> QED BY <1>1, <2>2, CallsLeftAlone DEF HealthStart, HealthPing
<1>2. CASE HealthFirst \/ HealthConnect
  <2>1. made' \in BOOLEAN /\ flag' \in BOOLEAN /\ lock' \in Ops \cup {"nobody", "probe", "monitor", "health"}
    BY <1>2, ConnectType DEF HealthFirst, HealthConnect
  <2>2. RedisTypeOK'
    BY <1>2, <2>1 DEF LinkInv, RedisTypeOK, HealthFirst, HealthConnect
  <2> QED BY <1>2, <2>2, CallsLeftAlone DEF HealthFirst, HealthConnect
<1> QED BY <1>1, <1>2 DEF HealthStep

(* The server, its outages, and what lifespan() starts and stops *)
LEMMA LifespanInv ==
  ASSUME LinkInv, ServerFails \/ ServerReturns \/ Startup \/ Shutdown PROVE LinkInv'
<1> USE DEF server, link, callers, watchers
<1>1. RedisTypeOK'
  <2>1. CASE ServerFails \/ ServerReturns
    <3>1. warm' \subseteq Caches /\ up' \in BOOLEAN
      BY <2>1 DEF LinkInv, RedisTypeOK, ServerFails, ServerReturns
    <3>2. events' \in 0 .. MaxEvents
      BY <2>1, RedisAssumption
      DEF LinkInv, RedisTypeOK, ServerFails, ServerReturns, Happens
    <3> QED BY <2>1, <3>1, <3>2 DEF LinkInv, RedisTypeOK, ServerFails, ServerReturns
  <2>2. CASE Startup \/ Shutdown
    <3>1. /\ probe' \in [step : {"sleep", "connect", "ping", "reconnect", "warmModel", "warmPredictions"},
                          was : BOOLEAN]
          /\ monitor' \in [step : {"sleep", "connect", "ping", "info"},
                           snapshot : {"none", "ONLINE", "OFFLINE"}]
      <4>1. probe = [step |-> probe.step, was |-> probe.was] /\ probe.was \in BOOLEAN
        BY DEF LinkInv, RedisTypeOK
      <4> QED BY <2>2, <4>1 DEF LinkInv, RedisTypeOK, Startup, Shutdown
    <3>2. /\ lock' \in Ops \cup {"nobody", "probe", "monitor", "health"}
          /\ proc' \in {"starting", "full", "degraded", "stopped"}
      BY <2>2 DEF LinkInv, RedisTypeOK, Startup, Shutdown
    <3> QED BY <2>2, <3>1, <3>2 DEF LinkInv, RedisTypeOK, Startup, Shutdown
  <2> QED BY <2>1, <2>2
<1>2. UNCHANGED callers
  BY DEF ServerFails, ServerReturns, Startup, Shutdown
<1> QED BY <1>1, <1>2, CallsLeftAlone

(* Every step keeps the invariant *)
LEMMA LinkInvInductive == LinkInv /\ [RedisNext]_redisVars => LinkInv'
<1> SUFFICES ASSUME LinkInv, [RedisNext]_redisVars PROVE LinkInv'
  OBVIOUS
<1>1. CASE RedisNext
  BY <1>1, OpCallInv, OpFirstInv, OpConnectInv, OpQueueInv, OpRunInv, ProbeStepInv, MonitorStepInv,
     HealthStepInv, LifespanInv DEF RedisNext, OpStep
<1>2. CASE UNCHANGED redisVars
  <2>1. RedisTypeOK' /\ UNCHANGED callers
    BY <1>2 DEF LinkInv, RedisTypeOK, redisVars, server, link, callers, watchers
  <2> QED BY <2>1, CallsLeftAlone
<1> QED BY <1>1, <1>2

(* Client, pool, lock, semaphore and watchers keep their types, for any    *)
(* callers, bounds and outages.                                            *)
THEOREM RedisTypeCorrect == RedisSpec => []RedisTypeOK
<1>1. LinkInv => RedisTypeOK
  BY DEF LinkInv
<1> QED BY <1>1, RedisInitInv, LinkInvInductive, PTL DEF RedisSpec

(* Whatever times out, fails or is repeated, no permit of the semaphore is *)
(* lost or returned twice, a caller that got an answer has had its command *)
(* applied, and no command is applied more often than it was attempted     *)
(* (execute_with_retry(), cache/redis_client.py).                          *)
THEOREM AttemptsAreAccounted == RedisSpec => []AttemptsAccounted
<1>1. LinkInv => AttemptsAccounted
  BY DEF LinkInv, AttemptsAccounted, Running, CallSound
<1> QED BY <1>1, RedisInitInv, LinkInvInductive, PTL DEF RedisSpec

(* Who is inside connect() *)
Connecting ==
    {o \in Ops : OpAt(o, "first") \/ OpAt(o, "connect")}
    \cup (IF probe.step \in {"connect", "reconnect"} THEN {"probe"} ELSE {})
    \cup (IF monitor.step = "connect" THEN {"monitor"} ELSE {})
    \cup (IF health \in {"first", "connect"} THEN {"health"} ELSE {})

(* The lock of the client is free or held by somebody who is going to give *)
(* it back, and a call that waits for a permit waits for a running call    *)
SomebodyGoesOn ==
    /\ lock \in Connecting \cup {"nobody"}
    /\ permits = 0 => \E o \in Ops : OpAt(o, "run")

(* Whoever takes the lock is inside connect(), and leaves the lock with it *)
LEMMA LockStays ==
  ASSUME LinkInv, lock \in Connecting \cup {"nobody"}, [RedisNext]_redisVars
  PROVE  lock' \in Connecting' \cup {"nobody"}
<1> USE DEF server, link, callers, watchers
<1>1. /\ op \in [Ops -> OpType] /\ Ops \cap {"nobody", "probe", "monitor", "health"} = {}
      /\ lock \in Ops => op[lock].step \in {"first", "connect"}
      /\ lock = "probe" => probe.step \in {"connect", "reconnect"}
      /\ lock = "monitor" => monitor.step = "connect"
      /\ lock = "health" => health \in {"first", "connect"}
      /\ lock \in Ops \cup {"nobody", "probe", "monitor", "health"}
  BY RedisAssumption DEF LinkInv, RedisTypeOK, OpType, Connecting, OpAt
<1>2. ASSUME /\ lock' \in Ops => op'[lock'].step \in {"first", "connect"}
             /\ lock' = "probe" => probe'.step \in {"connect", "reconnect"}
             /\ lock' = "monitor" => monitor'.step = "connect"
             /\ lock' = "health" => health' \in {"first", "connect"},
             lock' \in Ops \cup {"nobody", "probe", "monitor", "health"}
      PROVE  lock' \in Connecting' \cup {"nobody"}
  BY <1>2 DEF Connecting, OpAt
<1>3. ASSUME NEW o \in Ops, OpCall(o) \/ OpEnter(o) \/ OpQueueTimeout(o) \/ OpRun(o)
      PROVE  lock' \in Connecting' \cup {"nobody"}
  <2>1. /\ UNCHANGED <<lock, probe, monitor, health>>
        /\ op[o].step \notin {"first", "connect"}
        /\ \A q \in Ops \ {o} : op'[q] = op[q]
    BY <1>1, <1>3 DEF OpCall, GetsInstance, OpEnter, OpQueueTimeout, OpRun, OpAt, OpGoes
  <2>2. lock \in Ops => lock # o /\ op'[lock].step \in {"first", "connect"}
    BY <1>1, <2>1 DEF OpAt
  <2> QED BY <1>1, <1>2, <2>1, <2>2 DEF OpAt
<1>4. ASSUME NEW o \in Ops, OpFirst(o) \/ OpConnect(o) PROVE lock' \in Connecting' \cup {"nobody"}
  <2>1. UNCHANGED <<probe, monitor, health>> /\ \A q \in Ops \ {o} : op'[q] = op[q]
    BY <1>1, <1>4 DEF OpFirst, OpConnect, OpGoes
  <2>2. \/ lock' = o /\ op' = op /\ op[o].step \in {"first", "connect"}
        \/ lock' = "nobody"
    BY <1>4 DEF OpFirst, OpConnect, ConnectPings, ConnectReturns, OpAt
  <2> QED BY <1>1, <1>2, <2>1, <2>2 DEF OpAt
<1>5. CASE ProbeStep
  <2>1. UNCHANGED <<op, monitor, health>>
    BY <1>5 DEF ProbeStep, ProbeStart, ProbeConnect, ProbePing, ProbeReconnect, ProbeWarm
  <2>2. \/ lock' = "nobody"
        \/ lock' = "probe" /\ probe' = probe /\ probe.step \in {"connect", "reconnect"}
        \/ lock' = lock /\ probe.step \notin {"connect", "reconnect"}
    BY <1>5 DEF ProbeStep, ProbeStart, ProbeConnect, ProbePing, ProbeReconnect, ProbeWarm,
       ConnectPings, ConnectReturns, GetsInstance
  <2> QED BY <1>1, <1>2, <2>1, <2>2 DEF OpAt
<1>6. CASE MonitorStep
  <2>1. UNCHANGED <<op, probe, health>>
    BY <1>6 DEF MonitorStep, MonitorStart, MonitorConnect, MonitorPing, MonitorInfo
  <2>2. \/ lock' = "nobody"
        \/ lock' = "monitor" /\ monitor' = monitor /\ monitor.step = "connect"
        \/ lock' = lock /\ monitor.step # "connect"
    BY <1>6 DEF MonitorStep, MonitorStart, MonitorConnect, MonitorPing, MonitorInfo,
       ConnectPings, ConnectReturns, GetsInstance
  <2> QED BY <1>1, <1>2, <2>1, <2>2 DEF OpAt
<1>7. CASE HealthStep
  <2>1. UNCHANGED <<op, probe, monitor>>
    BY <1>7 DEF HealthStep, HealthStart, HealthFirst, HealthConnect, HealthPing
  <2>2. \/ lock' = "nobody"
        \/ lock' = "health" /\ health' = health /\ health \in {"first", "connect"}
        \/ lock' = lock /\ health \notin {"first", "connect"}
    BY <1>7 DEF HealthStep, HealthStart, HealthFirst, HealthConnect, HealthPing, ConnectPings,
       ConnectReturns, GetsInstance
  <2> QED BY <1>1, <1>2, <2>1, <2>2 DEF OpAt
<1>8. CASE ServerFails \/ ServerReturns \/ Startup \/ UNCHANGED redisVars
  <2>1. UNCHANGED <<lock, op, probe, monitor, health>>
    BY <1>8 DEF ServerFails, ServerReturns, Startup, redisVars
  <2> QED BY <1>1, <1>2, <2>1 DEF OpAt
<1>9. CASE Shutdown
  <2>1. UNCHANGED <<op, health>> /\ lock' \in {"nobody", lock} \ {"probe", "monitor"}
    BY <1>9 DEF Shutdown
  <2> QED BY <1>1, <1>2, <2>1 DEF OpAt
<1> QED BY <1>3, <1>4, <1>5, <1>6, <1>7, <1>8, <1>9 DEF RedisNext, OpStep

(* The safety behind CallsReturn: the client's lock is never left behind,  *)
(* by a failed PING or by a shutdown that cancels a watcher inside         *)
(* connect(), and when a call finds no permit another call is running that *)
(* returns one (cache/redis_client.py).                                    *)
THEOREM NobodyHoldsUpTheLink == RedisSpec => []SomebodyGoesOn
<1> DEFINE LockHeld == lock \in Connecting \cup {"nobody"}
<1>1. RedisInit => LockHeld
  BY DEF RedisInit
<1>2. LinkInv /\ LockHeld /\ [RedisNext]_redisVars => LockHeld'
  BY LockStays
<1>3. LinkInv /\ LockHeld => SomebodyGoesOn
  <2>1. ASSUME LinkInv, permits = 0 PROVE \E o \in Ops : OpAt(o, "run")
    <3>1. Running # {}
      BY <2>1, FS_EmptySet, RedisAssumption DEF LinkInv
    <3> QED BY <3>1 DEF Running
  <2> QED BY <2>1 DEF SomebodyGoesOn
<1> HIDE DEF LockHeld
<1> QED BY <1>1, <1>2, <1>3, RedisInitInv, LinkInvInductive, PTL DEF RedisSpec

-----------------------------------------------------------------------------
(* Explanations *)

(* The places of a background explanation, and its record *)
JobSteps == {"idle", "check", "attached", "queued", "hit", "miss", "shap",
             "store", "persist", "error", "done", "unreported", "lost"}
JobRecords == [step : JobSteps, of : Explained \cup {NoExpl}, data : Explained \cup {NoExpl}]

(* A job that has begun knows what it explains, and has nothing else in    *)
(* hand                                                                    *)
JobSound(r) ==
    /\ r.step # "idle" => r.of \in Explained
    /\ r.data \in {NoExpl, r.of}

(* The inductive invariant: the cache holds the explanation of its key *)
ExplInv ==
    /\ ExplTypeOK
    /\ \A k \in Explained : explCache[k] \in {NoExpl, k}
    /\ \A g \in Generations : JobSound(gen[g])
    /\ FailuresAudited

(* At the start nothing is cached and no job has begun *)
LEMMA ExplInitInv == ExplInit => ExplInv
<1> SUFFICES ASSUME ExplInit PROVE ExplInv
  OBVIOUS
<1>1. ExplTypeOK
  <2>1. gen \in [Generations -> JobRecords]
    BY DEF ExplInit, JobRecords, JobSteps
  <2> QED BY <2>1, ExplanationsAssumption DEF ExplInit, ExplTypeOK, JobRecords, JobSteps
<1>2. \A g \in Generations : JobSound(gen[g])
  BY DEF ExplInit, JobSound
<1> QED BY <1>1, <1>2 DEF ExplInit, ExplInv, FailuresAudited, GenAt

(* The cache key names the model, its version and the features explained *)
LEMMA KeyIsExplained == \A e \in Explained : CacheKey(e) = e
  BY DEF CacheKey, Explained

(* One job moves to another step, perhaps with an explanation in hand *)
LEMMA OneJobMoves ==
  ASSUME ExplInv, NEW g \in Generations, NEW step \in JobSteps, NEW of \in Explained,
         NEW data \in {NoExpl, of},
         gen' = [gen EXCEPT ![g] = [step |-> step, of |-> of, data |-> data]],
         explRows \subseteq explRows', audit \subseteq audit',
         step = "done" => g \in explRows' \/ <<"SHAP_FAILED", g>> \in audit'
  PROVE  /\ gen' \in [Generations -> JobRecords]
         /\ \A h \in Generations : JobSound(gen'[h])
         /\ FailuresAudited'
<1> DEFINE r == [step |-> step, of |-> of, data |-> data]
<1>1. r \in JobRecords /\ JobSound(r) /\ r.step = step
  BY DEF JobRecords, JobSound
<1> HIDE DEF r
<1>2. gen \in [Generations -> JobRecords]
  BY DEF ExplInv, ExplTypeOK, JobRecords, JobSteps
<1>3. /\ gen' \in [Generations -> JobRecords] /\ gen'[g] = r
      /\ \A h \in Generations \ {g} : gen'[h] = gen[h]
  BY <1>1, <1>2 DEF r
<1>4. \A h \in Generations : JobSound(gen'[h])
  BY <1>1, <1>3 DEF ExplInv
<1>5. ASSUME NEW h \in Generations, gen'[h].step = "done"
      PROVE  h \in explRows' \/ <<"SHAP_FAILED", h>> \in audit'
  <2>1. CASE h = g
    BY <2>1, <1>1, <1>3, <1>5
  <2>2. CASE h # g
    BY <2>2, <1>3, <1>5 DEF ExplInv, FailuresAudited, GenAt
  <2> QED BY <2>1, <2>2
<1> QED BY <1>3, <1>4, <1>5 DEF FailuresAudited, GenAt

(* The two shapes of the updates the actions make, as one record *)
LEMMA JobUpdates ==
  ASSUME ExplInv, NEW g \in Generations, gen[g].step # "idle"
  PROVE  /\ gen[g].of \in Explained /\ gen[g].data \in {NoExpl, gen[g].of}
         /\ \A step : [gen EXCEPT ![g].step = step]
                      = [gen EXCEPT ![g] = [step |-> step, of |-> gen[g].of,
                                            data |-> gen[g].data]]
         /\ \A step, data : [gen EXCEPT ![g].step = step, ![g].data = data]
                      = [gen EXCEPT ![g] = [step |-> step, of |-> gen[g].of, data |-> data]]
<1>1. gen \in [Generations -> JobRecords]
  BY DEF ExplInv, ExplTypeOK, JobRecords, JobSteps
<1>2. gen[g].of \in Explained /\ gen[g].data \in {NoExpl, gen[g].of}
  BY DEF ExplInv, JobSound
<1>3. PICK r \in JobRecords : r = gen[g]
  BY <1>1
<1>4. ASSUME NEW step
      PROVE  [r EXCEPT !.step = step] = [step |-> step, of |-> r.of, data |-> r.data]
  BY DEF JobRecords
<1>5. ASSUME NEW step, NEW data
      PROVE  [[r EXCEPT !.step = step] EXCEPT !.data = data] = [step |-> step, of |-> r.of,
                                                                data |-> data]
  <2>1. PICK s : s = [r EXCEPT !.step = step]
    OBVIOUS
  <2>2. s = [step |-> step, of |-> r.of, data |-> r.data]
    BY <2>1, <1>4
  <2>3. [s EXCEPT !.data = data] = [step |-> step, of |-> r.of, data |-> data]
    BY <2>2
  <2> QED BY <2>1, <2>3
<1>6. ASSUME NEW step
      PROVE  [gen EXCEPT ![g].step = step]
             = [gen EXCEPT ![g] = [step |-> step, of |-> gen[g].of, data |-> gen[g].data]]
  BY <1>1, <1>3, <1>4
<1>7. ASSUME NEW step, NEW data
      PROVE  [gen EXCEPT ![g].step = step, ![g].data = data]
             = [gen EXCEPT ![g] = [step |-> step, of |-> gen[g].of, data |-> data]]
  BY <1>1, <1>3, <1>5
<1> QED BY <1>2, <1>6, <1>7

(* A prediction asks for an explanation *)
LEMMA AskInv == ASSUME ExplInv, NEW g \in Generations, Ask(g) PROVE ExplInv'
<1>1. PICK x \in Payloads, step \in {"check", "queued"} :
         gen' = [gen EXCEPT ![g] = [step |-> step, of |-> <<loaded, x>>, data |-> NoExpl]]
  BY DEF Ask
<1>2. PICK of \in Explained : of = <<loaded, x>>
  BY <1>1 DEF ExplInv, ExplTypeOK, Explained
<1>3. /\ gen' \in [Generations -> JobRecords] /\ \A h \in Generations : JobSound(gen'[h])
      /\ FailuresAudited'
  BY <1>1, <1>2, OneJobMoves DEF Ask, JobSteps
<1> QED BY <1>3 DEF Ask, ExplInv, ExplTypeOK, JobRecords, JobSteps

(* A look into the cache finds the explanation of the job, or nothing *)
LEMMA FoundInv ==
  ASSUME ExplInv, NEW g \in Generations, NEW hit \in JobSteps, NEW miss \in JobSteps,
         "done" \notin {hit, miss}, gen[g].step # "idle", Found(g, hit, miss),
         UNCHANGED <<loaded, explCache, explRows, audit, clearing>>
  PROVE  ExplInv'
<1>1. PICK of \in Explained : of = gen[g].of
  BY JobUpdates
<1>2. CacheKey(of) = of /\ explCache[of] \in {NoExpl, of}
  BY KeyIsExplained DEF ExplInv
<1>3. PICK step \in {hit, miss}, data \in {NoExpl, of} :
         gen' = [gen EXCEPT ![g] = [step |-> step, of |-> of, data |-> data]]
  <2>1. CASE gen' = [gen EXCEPT ![g].step = hit, ![g].data = explCache[CacheKey(gen[g].of)]]
    <3>1. PICK data \in {NoExpl, of} : data = explCache[CacheKey(gen[g].of)]
      BY <1>1, <1>2
    <3>2. gen' = [gen EXCEPT ![g].step = hit, ![g].data = data]
      BY <2>1, <3>1
    <3>3. [gen EXCEPT ![g].step = hit, ![g].data = data]
          = [gen EXCEPT ![g] = [step |-> hit, of |-> gen[g].of, data |-> data]]
      BY JobUpdates, Zenon
    <3>4. gen' = [gen EXCEPT ![g] = [step |-> hit, of |-> of, data |-> data]]
      BY <1>1, <3>2, <3>3, Zenon
    <3> QED BY <3>4
  <2>2. CASE GenGoes(g, miss)
    <3>1. PICK data : data = gen[g].data /\ data \in {NoExpl, of}
      BY <1>1, JobUpdates
    <3>2. gen' = [gen EXCEPT ![g] = [step |-> miss, of |-> of, data |-> data]]
      BY <1>1, <2>2, <3>1, JobUpdates DEF GenGoes
    <3> QED BY <3>1, <3>2
  <2> QED BY <2>1, <2>2 DEF Found
<1>4. /\ gen' \in [Generations -> JobRecords] /\ \A h \in Generations : JobSound(gen'[h])
      /\ FailuresAudited'
  BY <1>3, OneJobMoves
<1>5. troubles' \in 0 .. MaxTroubles
  BY ExplanationsAssumption DEF Found, Trouble, ExplInv, ExplTypeOK
<1> QED BY <1>4, <1>5 DEF ExplInv, ExplTypeOK, JobRecords, JobSteps

(* An event of a job goes on record and the job moves on *)
LEMMA RecordsInv ==
  ASSUME ExplInv, NEW g \in Generations,
         NEW event \in {"SHAP_CACHE_HIT", "SHAP_CACHE_MISS", "SHAP_FAILED"},
         NEW next \in JobSteps, NEW otherwise \in JobSteps, otherwise # "done",
         next = "done" => event = "SHAP_FAILED",
         gen[g].step # "idle", Records(g, event, next, otherwise),
         UNCHANGED <<loaded, explCache, explRows, clearing>>
  PROVE  ExplInv'
<1>1. PICK of \in Explained, data \in Explained \cup {NoExpl} :
         data \in {NoExpl, of} /\ of = gen[g].of /\ data = gen[g].data
  BY JobUpdates
<1>2. CASE audit' = audit \cup {<<event, g>>} /\ GenGoes(g, next) /\ UNCHANGED troubles
  <2>1. gen' = [gen EXCEPT ![g] = [step |-> next, of |-> of, data |-> data]]
    BY <1>1, <1>2, JobUpdates DEF GenGoes
  <2>2. next = "done" => <<"SHAP_FAILED", g>> \in audit'
    BY <1>2
  <2>3. explRows \subseteq explRows' /\ audit \subseteq audit'
    BY <1>2
  <2>4. /\ gen' \in [Generations -> JobRecords] /\ \A h \in Generations : JobSound(gen'[h])
        /\ FailuresAudited'
    BY <1>1, <2>1, <2>2, <2>3, OneJobMoves
  <2> QED BY <1>2, <2>4 DEF ExplInv, ExplTypeOK, JobRecords, JobSteps
<1>3. CASE Trouble /\ GenGoes(g, otherwise) /\ UNCHANGED audit
  <2>1. gen' = [gen EXCEPT ![g] = [step |-> otherwise, of |-> of, data |-> data]]
    BY <1>1, <1>3, JobUpdates DEF GenGoes
  <2>2. /\ gen' \in [Generations -> JobRecords] /\ \A h \in Generations : JobSound(gen'[h])
        /\ FailuresAudited'
    <3>1. explRows \subseteq explRows' /\ audit \subseteq audit'
      BY <1>3
    <3> QED BY <1>1, <2>1, <3>1, OneJobMoves
  <2>3. troubles' \in 0 .. MaxTroubles
    BY <1>3, ExplanationsAssumption DEF Trouble, ExplInv, ExplTypeOK
  <2> QED BY <1>3, <2>2, <2>3 DEF ExplInv, ExplTypeOK, JobRecords, JobSteps
<1> QED BY <1>2, <1>3 DEF Records

(* SHAP explains what the job was given *)
LEMMA ShapInv == ASSUME ExplInv, NEW g \in Generations, Shap(g) PROVE ExplInv'
<1>1. gen[g].step # "idle"
  BY DEF Shap, GenAt
<1>2. PICK of \in Explained, had \in Explained \cup {NoExpl} :
         had \in {NoExpl, of} /\ of = gen[g].of /\ had = gen[g].data
  BY <1>1, JobUpdates
<1>3. PICK step \in {"store", "error"}, data \in {NoExpl, of} :
         gen' = [gen EXCEPT ![g] = [step |-> step, of |-> of, data |-> data]]
  <2>1. CASE gen' = [gen EXCEPT ![g].step = "store", ![g].data = gen[g].of]
    <3>1. gen' = [gen EXCEPT ![g].step = "store", ![g].data = of]
      BY <1>2, <2>1
    <3>2. [gen EXCEPT ![g].step = "store", ![g].data = of]
          = [gen EXCEPT ![g] = [step |-> "store", of |-> gen[g].of, data |-> of]]
      BY <1>1, JobUpdates, Zenon
    <3>3. gen' = [gen EXCEPT ![g] = [step |-> "store", of |-> of, data |-> of]]
      BY <1>2, <3>1, <3>2, Zenon
    <3> QED BY <3>3
  <2>2. CASE GenGoes(g, "error")
    <3>1. gen' = [gen EXCEPT ![g] = [step |-> "error", of |-> of, data |-> had]]
      BY <1>1, <1>2, <2>2, JobUpdates DEF GenGoes
    <3> QED BY <1>2, <3>1
  <2> QED BY <2>1, <2>2 DEF Shap
<1>4. /\ gen' \in [Generations -> JobRecords] /\ \A h \in Generations : JobSound(gen'[h])
      /\ FailuresAudited'
  <2>1. explRows \subseteq explRows' /\ audit \subseteq audit' /\ step \in JobSteps /\ step # "done"
    BY DEF Shap, JobSteps
  <2> QED BY <1>3, <2>1, OneJobMoves
<1>5. troubles' \in 0 .. MaxTroubles
  BY ExplanationsAssumption DEF Shap, Trouble, ExplInv, ExplTypeOK
<1> QED BY <1>4, <1>5 DEF Shap, ExplInv, ExplTypeOK, JobRecords, JobSteps

(* The explanation is cached under the key of what it explains *)
LEMMA StoreExplInv == ASSUME ExplInv, NEW g \in Generations, StoreExpl(g) PROVE ExplInv'
<1>1. gen[g].step # "idle"
  BY DEF StoreExpl, GenAt
<1>2. PICK of \in Explained, data \in Explained \cup {NoExpl} :
         data \in {NoExpl, of} /\ of = gen[g].of /\ data = gen[g].data
  BY <1>1, JobUpdates
<1>3. gen' = [gen EXCEPT ![g] = [step |-> "persist", of |-> of, data |-> data]]
  BY <1>1, <1>2, JobUpdates DEF StoreExpl, GenGoes
<1>4. /\ gen' \in [Generations -> JobRecords] /\ \A h \in Generations : JobSound(gen'[h])
      /\ FailuresAudited'
  <2>1. explRows \subseteq explRows' /\ audit \subseteq audit' /\ "persist" \in JobSteps
    BY DEF StoreExpl, JobSteps
  <2> QED BY <1>2, <1>3, <2>1, OneJobMoves
<1>5. explCache' = [explCache EXCEPT ![of] = data] \/ explCache' = explCache
  BY <1>2, KeyIsExplained DEF StoreExpl
<1>6. /\ explCache' \in [Explained -> Explained \cup {NoExpl}]
      /\ \A k \in Explained : explCache'[k] \in {NoExpl, k}
  BY <1>2, <1>5 DEF ExplInv, ExplTypeOK
<1>7. troubles' \in 0 .. MaxTroubles
  BY ExplanationsAssumption DEF StoreExpl, Trouble, ExplInv, ExplTypeOK
<1> QED BY <1>4, <1>6, <1>7 DEF StoreExpl, ExplInv, ExplTypeOK, JobRecords, JobSteps

(* The row is written, or the transaction fails and the failure is next *)
LEMMA PersistInv == ASSUME ExplInv, NEW g \in Generations, Persist(g) PROVE ExplInv'
<1>1. gen[g].step # "idle"
  BY DEF Persist, GenAt
<1>2. PICK of \in Explained, data \in Explained \cup {NoExpl} :
         data \in {NoExpl, of} /\ of = gen[g].of /\ data = gen[g].data
  BY <1>1, JobUpdates
<1>3. PICK step \in {"done", "error"} :
         /\ gen' = [gen EXCEPT ![g] = [step |-> step, of |-> of, data |-> data]]
         /\ step = "done" => g \in explRows'
  BY <1>1, <1>2, JobUpdates DEF Persist, GenGoes
<1>4. explRows \subseteq explRows' /\ explRows' \subseteq explRows \cup {g}
  BY DEF Persist
<1>5. /\ gen' \in [Generations -> JobRecords] /\ \A h \in Generations : JobSound(gen'[h])
      /\ FailuresAudited'
  <2>1. audit \subseteq audit' /\ step \in JobSteps
    BY DEF Persist, JobSteps
  <2> QED BY <1>2, <1>3, <1>4, <2>1, OneJobMoves
<1> QED BY <1>4, <1>5 DEF Persist, ExplInv, ExplTypeOK, JobRecords, JobSteps

(* Clearing the cache takes entries away only *)
LEMMA ClearInv == ASSUME ExplInv, ClearKeys \/ ClearDelete PROVE ExplInv'
<1>1. UNCHANGED <<loaded, explRows, audit, gen>>
  BY DEF ClearKeys, ClearDelete
<1>2. FailuresAudited' /\ \A g \in Generations : JobSound(gen'[g])
  BY <1>1 DEF ExplInv, FailuresAudited, GenAt
<1>3. /\ explCache' \in [Explained -> Explained \cup {NoExpl}]
      /\ \A k \in Explained : explCache'[k] \in {NoExpl, k}
  BY DEF ExplInv, ExplTypeOK, ClearKeys, ClearDelete
<1>4. clearing' \subseteq Explained
  BY DEF ClearKeys, ClearDelete
<1>5. troubles' \in 0 .. MaxTroubles
  BY ExplanationsAssumption DEF ClearKeys, ClearDelete, Trouble, ExplInv, ExplTypeOK
<1> QED BY <1>1, <1>2, <1>3, <1>4, <1>5 DEF ExplInv, ExplTypeOK

(* A restart loses the jobs that were running *)
LEMMA ProcessRestartInv == ASSUME ExplInv, ProcessRestart PROVE ExplInv'
<1>1. gen \in [Generations -> JobRecords]
  BY DEF ExplInv, ExplTypeOK, JobRecords, JobSteps
<1>2. ASSUME NEW g \in Generations
      PROVE  gen'[g] \in JobRecords /\ JobSound(gen'[g]) /\ (gen'[g] = gen[g] \/ gen'[g].step = "lost")
  <2>1. CASE gen'[g] = gen[g]
    BY <1>1, <2>1 DEF ExplInv
  <2>2. CASE gen[g].step # "idle" /\ gen'[g] = [gen[g] EXCEPT !.step = "lost"]
    <3>1. PICK r \in JobRecords : r = gen[g]
      BY <1>1
    <3>2. [r EXCEPT !.step = "lost"] = [step |-> "lost", of |-> r.of, data |-> r.data]
      BY DEF JobRecords
    <3> QED BY <2>2, <3>1, <3>2, JobUpdates DEF JobRecords, JobSteps, JobSound
  <2> QED BY <2>1, <2>2 DEF ProcessRestart
<1>3. gen' \in [Generations -> JobRecords]
  BY <1>2 DEF ProcessRestart
<1>4. FailuresAudited'
  BY <1>2 DEF ExplInv, FailuresAudited, GenAt, ProcessRestart
<1>5. troubles' \in 0 .. MaxTroubles
  BY ExplanationsAssumption DEF ProcessRestart, Trouble, ExplInv, ExplTypeOK
<1> QED BY <1>2, <1>3, <1>4, <1>5
        DEF ProcessRestart, ExplInv, ExplTypeOK, JobRecords, JobSteps

(* Every step keeps the invariant *)
LEMMA ExplInvInductive == ExplInv /\ [ExplNext]_explVars => ExplInv'
<1> SUFFICES ASSUME ExplInv, [ExplNext]_explVars PROVE ExplInv'
  OBVIOUS
<1>1. ASSUME NEW g \in Generations, CheckCache(g) PROVE ExplInv'
  BY <1>1, FoundInv DEF CheckCache, GenAt, JobSteps
<1>2. ASSUME NEW g \in Generations, LookUp(g) PROVE ExplInv'
  BY <1>2, FoundInv DEF LookUp, GenAt, JobSteps
<1>3. ASSUME NEW g \in Generations, AuditLookUp(g) PROVE ExplInv'
  BY <1>3, RecordsInv DEF AuditLookUp, GenAt, JobSteps
<1>4. ASSUME NEW g \in Generations, AuditFailure(g) PROVE ExplInv'
  BY <1>4, RecordsInv DEF AuditFailure, GenAt, JobSteps
<1>5. CASE UNCHANGED explVars
  BY <1>5 DEF ExplInv, ExplTypeOK, FailuresAudited, GenAt, explVars
<1> QED BY <1>1, <1>2, <1>3, <1>4, <1>5, AskInv, ShapInv, StoreExplInv, PersistInv,
           ClearInv, ProcessRestartInv DEF ExplNext

(* JobRecords, cache, rows and audit log of the explanations keep their types. *)
THEOREM ExplTypeCorrect == ExplSpec => []ExplTypeOK
<1>1. ExplInv => ExplTypeOK
  BY DEF ExplInv
<1> QED BY <1>1, ExplInitInv, ExplInvInductive, PTL DEF ExplSpec

(* What is attached to a prediction explains that prediction               *)
(* (explainability/manager.py), although jobs of several predictions and   *)
(* of two versions of a model share one cache that is cleared at any time. *)
THEOREM PredictionsExplained == ExplSpec => []ExplainsOwnPrediction
<1>1. ExplInv => ExplainsOwnPrediction
  BY DEF ExplInv, ExplainsOwnPrediction, JobSound
<1> QED BY <1>1, ExplInitInv, ExplInvInductive, PTL DEF ExplSpec

(* A background task that has ended has left its row or SHAP_FAILED behind *)
(* (explainability/manager.py), unless the process ended or the database   *)
(* refused the audit row itself, whatever other tasks, clearings and       *)
(* restarts do meanwhile.                                                  *)
THEOREM FailuresAreAudited == ExplSpec => []FailuresAudited
<1>1. ExplInv => FailuresAudited
  BY DEF ExplInv
<1> QED BY <1>1, ExplInitInv, ExplInvInductive, PTL DEF ExplSpec

-----------------------------------------------------------------------------
(* WebSocket stream *)

(* The others keep their order and never move back; nobody moves when      *)
(* nobody is removed                                                       *)
LEMMA WithoutMoves ==
  ASSUME NEW s, NEW n \in Nat, DOMAIN s = 1 .. n, NEW gone
  PROVE  \E m \in Nat : \E from \in [1 .. m -> 1 .. n] :
            /\ Without(s, gone) = [k \in 1 .. m |-> s[from[k]]]
            /\ \A k \in 1 .. m : k <= from[k] /\ s[from[k]] \notin gone
            /\ \A k, l \in 1 .. m : from[k] = from[l] => k = l
            /\ (\A i \in 1 .. n : s[i] \notin gone) => m = n /\ \A k \in 1 .. m : from[k] = k
<1> DEFINE kept == {i \in 1 .. n : s[i] \notin gone}
           upto(i) == {j \in kept : j <= i}
           place == [i \in kept |-> Cardinality(upto(i))]
<1>1. IsFiniteSet(1 .. n) /\ Cardinality(1 .. n) = n
  BY FS_Interval
<1>2. kept \subseteq 1 .. n /\ IsFiniteSet(kept)
  BY <1>1, FS_Subset
<1>3. PICK m \in Nat : m = Cardinality(kept)
  BY <1>2, FS_CardinalityType
<1>4. IsFiniteSet(1 .. m) /\ Cardinality(1 .. m) = m
  BY FS_Interval
<1>5. ASSUME NEW i \in kept
      PROVE  IsFiniteSet(upto(i)) /\ place[i] \in 1 .. m /\ place[i] <= i
  <2>1. i \in Nat /\ i \in upto(i) /\ upto(i) \subseteq kept
    BY <1>2
  <2>2. IsFiniteSet(upto(i)) /\ Cardinality(upto(i)) <= m
    BY <1>2, <1>3, <2>1, FS_Subset
  <2>3. Cardinality(upto(i)) \in Nat /\ Cardinality(upto(i)) # 0
    BY <2>1, <2>2, FS_CardinalityType, FS_EmptySet
  <2>4. IsFiniteSet(1 .. i) /\ Cardinality(1 .. i) = i
    BY <2>1, FS_Interval
  <2>5. upto(i) \subseteq 1 .. i
    BY <1>2, <2>1
  <2>6. Cardinality(upto(i)) <= i
    BY <2>4, <2>5, FS_Subset
  <2> QED BY <1>3, <2>2, <2>3, <2>6
<1>6. ASSUME NEW i \in kept, NEW j \in kept, i < j
      PROVE  place[i] # place[j]
  <2>1. upto(i) \subseteq upto(j) /\ j \in upto(j) /\ j \notin upto(i)
    BY <1>2, <1>6
  <2> QED BY <1>5, <2>1, FS_Subset
<1>7. place \in Injection(kept, 1 .. m)
  <2>1. place \in [kept -> 1 .. m]
    BY <1>5
  <2>2. ASSUME NEW i \in kept, NEW j \in kept, place[i] = place[j] PROVE i = j
    <3>1. i \in Nat /\ j \in Nat
      BY <1>2
    <3> QED BY <2>2, <3>1, <1>6
  <2> QED BY <2>1, <2>2 DEF Injection, IsInjective
<1>8. place \in Surjection(kept, 1 .. m)
  BY <1>3, <1>4, <1>7, FS_Injection
<1> DEFINE from == [k \in 1 .. m |-> CHOOSE i \in kept : place[i] = k]
<1>9. ASSUME NEW k \in 1 .. m PROVE from[k] \in kept /\ place[from[k]] = k
  BY <1>8 DEF Surjection
<1>10. from \in [1 .. m -> 1 .. n]
  BY <1>2, <1>9
<1>11. Without(s, gone) = [k \in 1 .. m |-> s[from[k]]]
  <2>1. Without(s, gone) = [k \in 1 .. m |-> s[CHOOSE i \in kept : Cardinality(upto(i)) = k]]
    BY <1>3 DEF Without
  <2>2. ASSUME NEW k \in 1 .. m
        PROVE  (CHOOSE i \in kept : Cardinality(upto(i)) = k) = (CHOOSE i \in kept : place[i] = k)
    OBVIOUS
  <2> QED BY <2>1, <2>2
<1>12. ASSUME \A i \in 1 .. n : s[i] \notin gone
       PROVE  m = n /\ \A k \in 1 .. m : from[k] = k
  <2>1. kept = 1 .. n
    BY <1>12
  <2>2. m = n
    BY <1>1, <1>3, <2>1
  <2>3. ASSUME NEW i \in kept PROVE place[i] = i
    <3>1. i \in Nat /\ upto(i) = 1 .. i
      BY <2>1
    <3>2. Cardinality(1 .. i) = i
      BY <3>1, FS_Interval
    <3> QED BY <3>1, <3>2
  <2> QED BY <1>9, <2>2, <2>3
<1>13. ASSUME NEW k \in 1 .. m PROVE k <= from[k] /\ s[from[k]] \notin gone
  <2>1. PICK i \in kept : i = from[k] /\ place[i] = k
    BY <1>9
  <2>2. k <= i
    BY <1>5, <2>1
  <2> QED BY <2>1, <2>2
<1>14. ASSUME NEW k \in 1 .. m, NEW l \in 1 .. m, from[k] = from[l] PROVE k = l
  BY <1>9, <1>14
<1> HIDE DEF from, place, kept
<1> QED BY <1>10, <1>11, <1>12, <1>13, <1>14

-----------------------------------------------------------------------------

(* The record of a broadcast, its place in the list any position *)
Casts == [step : {"idle", "sending", "done"}, at : Nat \ {0}, dead : SUBSET Clients,
          audience : SUBSET Clients, shifted : BOOLEAN]

(* The types, without the bounds that depend on the number of clients *)
StreamTypes ==
    /\ conns \in Seq(Clients)
    /\ socket \in [Clients -> {"new", "open", "gone", "left"}]
    /\ cast \in [Sent -> Casts]
    /\ got \in [Clients -> [Sent -> Nat]]

(* No connection is listed twice, or before it is accepted *)
Listed(list) ==
    /\ \A i, j \in 1 .. Len(list) : list[i] = list[j] => i = j
    /\ \A i \in 1 .. Len(list) : socket[list[i]] # "new"

(* Whom a broadcast still has to reach has not received it, and whom it    *)
(* need not reach any more has, unless the list moved under it             *)
Reaches(e) ==
    /\ \A c \in Clients : got[c][e] <= 1 /\ (socket[c] = "new" => got[c][e] = 0)
    /\ \A c \in cast[e].audience : socket[c] # "new"
    /\ cast[e].step = "idle" => cast[e].at = 1 /\ \A c \in Clients : got[c][e] = 0
    /\ cast[e].step = "sending" => \A i \in cast[e].at .. Len(conns) : got[conns[i]][e] = 0
    /\ cast[e].step # "idle" /\ ~cast[e].shifted =>
          \A c \in cast[e].audience :
             \/ socket[c] # "open" \/ got[c][e] = 1
             \/ cast[e].step = "sending" /\ \E i \in cast[e].at .. Len(conns) : conns[i] = c

(* The inductive invariant *)
StreamInv ==
    /\ StreamTypes
    /\ Listed(conns)
    /\ \A e \in Sent : Reaches(e)

(* At the start nobody is connected and nothing is sent *)
LEMMA StreamInitInv == StreamInit => StreamInv
<1> SUFFICES ASSUME StreamInit PROVE StreamInv
  OBVIOUS
<1>1. IdleCast \in Casts
  BY DEF IdleCast, Casts
<1>2. StreamTypes
  BY <1>1 DEF StreamInit, StreamTypes
<1> QED BY <1>2 DEF StreamInit, IdleCast, StreamInv, Listed, Reaches

(* A new client is appended, behind everybody a broadcast still has to     *)
(* reach                                                                   *)
LEMMA ClientConnectsInv ==
  ASSUME StreamInv, NEW c \in Clients, ClientConnects(c)
  PROVE  StreamInv'
<1>1. conns \in Seq(Clients) /\ Len(conns) \in Nat
  BY DEF StreamInv, StreamTypes
<1>2. /\ conns' \in Seq(Clients) /\ Len(conns') = Len(conns) + 1 /\ conns'[Len(conns) + 1] = c
      /\ \A i \in 1 .. Len(conns) : conns'[i] = conns[i]
  BY <1>1, AppendProperties DEF ClientConnects
<1>3. \A i \in 1 .. Len(conns) : conns[i] \in Clients /\ conns[i] # c
  BY <1>1, ElementOfSeq DEF StreamInv, Listed, ClientConnects
<1>4. /\ socket' \in [Clients -> {"new", "open", "gone", "left"}] /\ socket'[c] = "open"
      /\ \A d \in Clients \ {c} : socket'[d] = socket[d]
  BY DEF ClientConnects, StreamInv, StreamTypes
<1>5. StreamTypes'
  BY <1>2, <1>4 DEF ClientConnects, StreamInv, StreamTypes
<1>6. Listed(conns)'
  <2>1. \A i \in 1 .. Len(conns') : i \in 1 .. Len(conns) \/ i = Len(conns) + 1
    BY <1>1, <1>2
  <2>2. \A i, j \in 1 .. Len(conns') : conns'[i] = conns'[j] => i = j
    BY <1>2, <1>3, <2>1 DEF StreamInv, Listed
  <2>3. \A i \in 1 .. Len(conns') : socket'[conns'[i]] # "new"
    BY <1>2, <1>3, <1>4, <2>1 DEF StreamInv, Listed
  <2> QED BY <2>2, <2>3 DEF Listed
<1>7. ASSUME NEW e \in Sent PROVE Reaches(e)'
  <2>1. UNCHANGED <<cast[e], got>> /\ got[c][e] = 0 /\ socket[c] = "new"
    BY DEF ClientConnects, StreamInv, Reaches
  <2>2. cast[e].at \in Nat \ {0} /\ cast[e].audience \subseteq Clients
    BY DEF StreamInv, StreamTypes, Casts
  <2>3. \A i \in cast[e].at .. Len(conns') : i \in cast[e].at .. Len(conns) \/ i = Len(conns) + 1
    BY <1>1, <1>2, <2>2
  <2>4. \A i \in cast[e].at .. Len(conns) : i \in cast[e].at .. Len(conns') /\ conns'[i] = conns[i]
    BY <1>1, <1>2, <2>2
  <2>5. /\ \A d \in Clients : got'[d][e] <= 1 /\ (socket'[d] = "new" => got'[d][e] = 0)
        /\ \A d \in cast[e].audience : socket'[d] # "new"
        /\ cast[e].step = "idle" => cast[e].at = 1 /\ \A d \in Clients : got'[d][e] = 0
    BY <1>4, <2>1, <2>2 DEF StreamInv, Reaches
  <2>6. cast[e].step = "sending" => \A i \in cast[e].at .. Len(conns') : got'[conns'[i]][e] = 0
    BY <1>2, <2>1, <2>3, <2>4 DEF StreamInv, Reaches
  <2>7. ASSUME cast[e].step # "idle", ~cast[e].shifted, NEW d \in cast[e].audience
        PROVE  \/ socket'[d] # "open" \/ got'[d][e] = 1
               \/ cast[e].step = "sending" /\ \E i \in cast[e].at .. Len(conns') : conns'[i] = d
    <3>1. d \in Clients /\ d # c
      BY <2>1, <2>2, <2>7 DEF StreamInv, Reaches
    <3>2. \/ socket[d] # "open" \/ got[d][e] = 1
          \/ cast[e].step = "sending" /\ \E i \in cast[e].at .. Len(conns) : conns[i] = d
      BY <2>7 DEF StreamInv, Reaches
    <3> QED BY <1>4, <2>1, <2>4, <3>1, <3>2
  <2> QED BY <2>1, <2>5, <2>6, <2>7 DEF Reaches
<1> QED BY <1>5, <1>6, <1>7 DEF StreamInv, ClientConnects

(* A client that is gone need not be reached *)
LEMMA ClientVanishesInv ==
  ASSUME StreamInv, NEW c \in Clients, ClientVanishes(c)
  PROVE  StreamInv'
<1>1. /\ socket' \in [Clients -> {"new", "open", "gone", "left"}]
      /\ socket[c] = "open" /\ socket'[c] = "gone"
      /\ \A d \in Clients \ {c} : socket'[d] = socket[d]
  BY DEF ClientVanishes, StreamInv, StreamTypes
<1>2. UNCHANGED <<conns, cast, got>>
  BY DEF ClientVanishes
<1>3. StreamTypes'
  BY <1>1, <1>2 DEF StreamInv, StreamTypes
<1>4. Listed(conns)'
  <2>1. \A i \in 1 .. Len(conns) : conns[i] \in Clients
    BY ElementOfSeq DEF StreamInv, StreamTypes
  <2> QED BY <1>1, <1>2, <2>1 DEF StreamInv, Listed
<1>5. ASSUME NEW e \in Sent PROVE Reaches(e)'
  <2>1. cast[e].audience \subseteq Clients
    BY DEF StreamInv, StreamTypes, Casts
  <2> QED BY <1>1, <1>2, <2>1 DEF StreamInv, Reaches
<1> QED BY <1>3, <1>4, <1>5 DEF StreamInv

(* What a removal does to the list *)
LEMMA ConnsShrink ==
  ASSUME StreamInv, NEW gone, conns' = Without(conns, gone)
  PROVE  /\ conns' \in Seq(Clients)
         /\ \A i, j \in 1 .. Len(conns') : conns'[i] = conns'[j] => i = j
         /\ \A i \in 1 .. Len(conns') : \E j \in 1 .. Len(conns) : i <= j /\ conns'[i] = conns[j]
         /\ gone \cap Range(conns) = {} => conns' = conns
<1>1. conns \in Seq(Clients)
  BY DEF StreamInv, StreamTypes
<1>2. PICK n \in Nat : n = Len(conns) /\ DOMAIN conns = 1 .. n
  BY <1>1
<1>3. PICK m \in Nat : \E from \in [1 .. m -> 1 .. n] :
         /\ Without(conns, gone) = [k \in 1 .. m |-> conns[from[k]]]
         /\ \A k \in 1 .. m : k <= from[k] /\ conns[from[k]] \notin gone
         /\ \A k, l \in 1 .. m : from[k] = from[l] => k = l
         /\ (\A i \in 1 .. n : conns[i] \notin gone) => m = n /\ \A k \in 1 .. m : from[k] = k
  <2>1. PICK list : list = conns
    OBVIOUS
  <2>2. DOMAIN list = 1 .. n
    BY <1>2, <2>1
  <2> QED BY <2>1, <2>2, WithoutMoves
<1>4. PICK from \in [1 .. m -> 1 .. n] :
         /\ Without(conns, gone) = [k \in 1 .. m |-> conns[from[k]]]
         /\ \A k \in 1 .. m : k <= from[k] /\ conns[from[k]] \notin gone
         /\ \A k, l \in 1 .. m : from[k] = from[l] => k = l
         /\ (\A i \in 1 .. n : conns[i] \notin gone) => m = n /\ \A k \in 1 .. m : from[k] = k
  BY <1>3
<1>5. \A i \in 1 .. n : conns[i] \in Clients
  BY <1>1, <1>2, ElementOfSeq
<1>6. conns' = [k \in 1 .. m |-> conns[from[k]]]
  BY <1>4
<1>7. conns' \in Seq(Clients) /\ Len(conns') = m
  BY <1>5, <1>6
<1>8. \A i, j \in 1 .. m : conns'[i] = conns'[j] => i = j
  BY <1>2, <1>4, <1>6 DEF StreamInv, Listed
<1>9. \A i \in 1 .. m : \E j \in 1 .. n : i <= j /\ conns'[i] = conns[j]
  BY <1>4, <1>6
<1>10. ASSUME gone \cap Range(conns) = {} PROVE conns' = conns
  <2>1. \A i \in 1 .. n : conns[i] \notin gone
    BY <1>2, <1>10 DEF Range
  <2>2. m = n /\ \A k \in 1 .. m : from[k] = k
    BY <1>4, <2>1
  <2>3. conns' = [k \in 1 .. n |-> conns[k]]
    BY <1>6, <2>2
  <2>4. conns = [k \in 1 .. n |-> conns[k]]
    BY <1>1, <1>2
  <2> QED BY <2>3, <2>4
<1> QED BY <1>2, <1>7, <1>8, <1>9, <1>10

(* A list with clients removed is still a list of accepted connections *)
LEMMA ShrunkList ==
  ASSUME StreamInv, NEW gone, conns' = Without(conns, gone),
         \A d \in Clients : socket'[d] = socket[d] \/ (socket[d] = "gone" /\ socket'[d] = "left")
  PROVE  Listed(conns)'
<1>1. \A j \in 1 .. Len(conns) : conns[j] \in Clients /\ socket[conns[j]] # "new"
  BY ElementOfSeq DEF StreamInv, StreamTypes, Listed
<1>2. \A j \in 1 .. Len(conns) : socket'[conns[j]] # "new"
  BY <1>1
<1> QED BY <1>2, ConnsShrink DEF Listed

(* A removal disturbs the broadcasts that it shifts, and no other *)
LEMMA ShiftedReach ==
  ASSUME StreamInv, NEW gone, conns' = Without(conns, gone), NEW e \in Sent,
         cast'[e] = Shifted(gone)[e], UNCHANGED got,
         \A d \in Clients : socket'[d] = socket[d] \/ (socket[d] = "gone" /\ socket'[d] = "left")
  PROVE  Reaches(e)'
<1>1. PICK r \in Casts : r = cast[e]
  BY DEF StreamInv, StreamTypes
<1>2. PICK shifted \in BOOLEAN :
         /\ cast'[e].step = r.step /\ cast'[e].at = r.at /\ cast'[e].audience = r.audience
         /\ ~cast'[e].shifted => ~r.shifted /\ (r.step = "sending" => gone \cap Range(conns) = {})
  <2>1. CASE r.step = "sending" /\ gone \cap Range(conns) # {}
    <3>1. cast'[e] = [r EXCEPT !.shifted = TRUE]
      BY <1>1, <2>1 DEF Shifted
    <3>2. PICK yes : yes = TRUE
      OBVIOUS
    <3>3. PICK s : s = [r EXCEPT !.shifted = yes]
      OBVIOUS
    <3>4. s.step = r.step /\ s.at = r.at /\ s.audience = r.audience /\ s.shifted = yes
      BY <3>3 DEF Casts
    <3>5. cast'[e] = s
      BY <3>1, <3>2, <3>3, Zenon
    <3> QED BY <3>2, <3>4, <3>5, Zenon
  <2>2. CASE ~(r.step = "sending" /\ gone \cap Range(conns) # {})
    <3>1. cast'[e] = r
      BY <1>1, <2>2 DEF Shifted
    <3> QED BY <2>2, <3>1
  <2> QED BY <2>1, <2>2
<1>3. r.at \in Nat \ {0} /\ r.audience \subseteq Clients
  BY DEF Casts
<1>4. /\ conns' \in Seq(Clients)
      /\ \A i \in 1 .. Len(conns') : \E j \in 1 .. Len(conns) : i <= j /\ conns'[i] = conns[j]
      /\ gone \cap Range(conns) = {} => conns' = conns
  BY ConnsShrink
<1>5. Len(conns) \in Nat /\ Len(conns') \in Nat
  BY <1>4 DEF StreamInv, StreamTypes
<1>6. /\ \A d \in Clients : got'[d][e] <= 1 /\ (socket'[d] = "new" => got'[d][e] = 0)
      /\ \A d \in r.audience : socket'[d] # "new"
      /\ r.step = "idle" => r.at = 1 /\ \A d \in Clients : got'[d][e] = 0
  BY <1>1, <1>3 DEF StreamInv, Reaches
<1>7. ASSUME r.step = "sending", NEW i \in r.at .. Len(conns') PROVE got'[conns'[i]][e] = 0
  <2>1. PICK j \in 1 .. Len(conns) : i <= j /\ conns'[i] = conns[j]
    BY <1>3, <1>4, <1>5
  <2>2. j \in r.at .. Len(conns)
    BY <1>3, <1>5, <2>1
  <2> QED BY <1>1, <1>7, <2>1, <2>2 DEF StreamInv, Reaches
<1>8. ASSUME r.step # "idle", ~cast'[e].shifted, NEW d \in r.audience
      PROVE  \/ socket'[d] # "open" \/ got'[d][e] = 1
             \/ r.step = "sending" /\ \E i \in r.at .. Len(conns') : conns'[i] = d
  <2>1. \/ socket[d] # "open" \/ got[d][e] = 1
        \/ r.step = "sending" /\ \E i \in r.at .. Len(conns) : conns[i] = d
    BY <1>1, <1>2, <1>8 DEF StreamInv, Reaches
  <2>2. r.step = "sending" => conns' = conns
    BY <1>2, <1>4, <1>8
  <2> QED BY <1>3, <2>1, <2>2
<1> QED BY <1>2, <1>6, <1>7, <1>8 DEF Reaches

(* A removal leaves records of broadcasts *)
LEMMA ShiftedCasts == ASSUME StreamInv, NEW gone PROVE Shifted(gone) \in [Sent -> Casts]
<1>1. ASSUME NEW e \in Sent
      PROVE  (IF cast[e].step = "sending" /\ gone \cap Range(conns) # {}
              THEN [cast[e] EXCEPT !.shifted = TRUE] ELSE cast[e]) \in Casts
  <2>1. PICK r \in Casts : r = cast[e]
    BY DEF StreamInv, StreamTypes
  <2>2. [r EXCEPT !.shifted = TRUE] \in Casts
    BY DEF Casts
  <2> QED BY <2>1, <2>2
<1> QED BY <1>1 DEF Shifted

(* The endpoint removes a client that has disconnected *)
LEMMA ClientNoticedInv ==
  ASSUME StreamInv, NEW c \in Clients, ClientNoticed(c)
  PROVE  StreamInv'
<1>1. /\ socket' \in [Clients -> {"new", "open", "gone", "left"}]
      /\ \A d \in Clients : socket'[d] = socket[d] \/ (socket[d] = "gone" /\ socket'[d] = "left")
  BY DEF ClientNoticed, StreamInv, StreamTypes
<1>2. conns' = Without(conns, {c}) /\ UNCHANGED got /\ \A e \in Sent : cast'[e] = Shifted({c})[e]
  BY DEF ClientNoticed
<1>3. cast' \in [Sent -> Casts]
  BY ShiftedCasts DEF ClientNoticed
<1>4. StreamTypes'
  BY <1>1, <1>2, <1>3, ConnsShrink DEF StreamInv, StreamTypes
<1>5. Listed(conns)'
  BY <1>1, <1>2, ShrunkList
<1>6. \A e \in Sent : Reaches(e)'
  BY <1>1, <1>2, ShiftedReach
<1> QED BY <1>4, <1>5, <1>6 DEF StreamInv

(* One broadcast moves, and the list of connections does not *)
LEMMA OneCastMoves ==
  ASSUME StreamInv, NEW e \in Sent, NEW r \in Casts, cast' = [cast EXCEPT ![e] = r],
         UNCHANGED <<conns, socket>>, got' \in [Clients -> [Sent -> Nat]],
         \A d \in Clients, f \in Sent \ {e} : got'[d][f] = got[d][f],
         Reaches(e)'
  PROVE  StreamInv'
<1>1. cast' \in [Sent -> Casts] /\ \A f \in Sent \ {e} : cast'[f] = cast[f]
  BY DEF StreamInv, StreamTypes
<1>2. StreamTypes' /\ Listed(conns)'
  BY <1>1 DEF StreamInv, StreamTypes, Listed
<1>3. ASSUME NEW f \in Sent \ {e} PROVE Reaches(f)'
  <2>1. \A i \in 1 .. Len(conns) : conns[i] \in Clients
    BY ElementOfSeq DEF StreamInv, StreamTypes
  <2>2. cast[f].at \in Nat \ {0} /\ cast[f].audience \subseteq Clients
    BY DEF StreamInv, StreamTypes, Casts
  <2>3. \A i \in cast[f].at .. Len(conns) : conns[i] \in Clients
    BY <2>1, <2>2 DEF StreamInv, StreamTypes
  <2>4. PICK b \in Casts : b = cast[f] /\ b = cast'[f]
    BY <1>1 DEF StreamInv, StreamTypes
  <2>5. \A d \in Clients : got'[d][f] = got[d][f]
    OBVIOUS
  <2>6. /\ \A c \in Clients : got'[c][f] <= 1 /\ (socket[c] = "new" => got'[c][f] = 0)
        /\ \A c \in b.audience : socket[c] # "new"
        /\ b.step = "idle" => b.at = 1 /\ \A c \in Clients : got'[c][f] = 0
        /\ b.step = "sending" => \A i \in b.at .. Len(conns) : got'[conns[i]][f] = 0
    <3>1. /\ \A c \in Clients : got[c][f] <= 1 /\ (socket[c] = "new" => got[c][f] = 0)
          /\ \A c \in b.audience : socket[c] # "new"
          /\ b.step = "idle" => b.at = 1 /\ \A c \in Clients : got[c][f] = 0
          /\ b.step = "sending" => \A i \in b.at .. Len(conns) : got[conns[i]][f] = 0
      BY <2>4 DEF StreamInv, Reaches
    <3>2. b.step = "sending" => \A i \in b.at .. Len(conns) : got'[conns[i]][f] = 0
      BY <2>3, <2>4, <2>5, <3>1
    <3> QED BY <2>5, <3>1, <3>2
  <2>7. b.step # "idle" /\ ~b.shifted =>
          \A c \in b.audience :
             \/ socket[c] # "open" \/ got'[c][f] = 1
             \/ b.step = "sending" /\ \E i \in b.at .. Len(conns) : conns[i] = c
    BY <2>2, <2>4, <2>5 DEF StreamInv, Reaches
  <2> QED BY <2>4, <2>6, <2>7 DEF Reaches
<1> QED BY <1>2, <1>3 DEF StreamInv

(* A broadcast starts at the front of the list *)
LEMMA CastStartInv == ASSUME StreamInv, NEW e \in Sent, CastStart(e) PROVE StreamInv'
<1>1. conns \in Seq(Clients) /\ Len(conns) \in Nat /\ DOMAIN conns = 1 .. Len(conns)
  BY DEF StreamInv, StreamTypes
<1>2. \A i \in 1 .. Len(conns) : conns[i] \in Clients /\ socket[conns[i]] # "new"
  BY <1>1, ElementOfSeq DEF StreamInv, Listed
<1>3. PICK b \in Casts : b = cast[e]
  BY DEF StreamInv, StreamTypes
<1>4. b.step = "idle" /\ b.at = 1 /\ \A c \in Clients : got[c][e] = 0
  BY <1>3 DEF CastStart, StreamInv, Reaches
<1>5. PICK audience : audience = Range(conns)
  OBVIOUS
<1>6. audience \subseteq Clients /\ \A c \in audience : \E i \in 1 .. Len(conns) : conns[i] = c
  BY <1>1, <1>2, <1>5 DEF Range
<1>7. PICK step \in {"done", "sending"} : step = IF conns = << >> THEN "done" ELSE "sending"
  OBVIOUS
<1>8. PICK u : u = [b EXCEPT !.step = step]
  OBVIOUS
<1>9. PICK r : r = [u EXCEPT !.audience = audience]
  OBVIOUS
<1>10. u = [step |-> step, at |-> b.at, dead |-> b.dead, audience |-> b.audience,
            shifted |-> b.shifted]
  BY <1>8 DEF Casts
<1>11. r = [step |-> step, at |-> b.at, dead |-> b.dead, audience |-> audience,
            shifted |-> b.shifted]
  BY <1>9, <1>10
<1>12. r \in Casts
  BY <1>6, <1>11 DEF Casts
<1>13. cast' = [cast EXCEPT ![e] = r]
  <2>1. cast' = [cast EXCEPT ![e].step = step, ![e].audience = audience]
    BY <1>5, <1>7 DEF CastStart
  <2>2. r = [b EXCEPT !.step = step, !.audience = audience]
    BY <1>8, <1>9
  <2> QED BY <1>3, <2>1, <2>2 DEF StreamInv, StreamTypes
<1>14. cast'[e] = r /\ r.step = step /\ r.at = 1 /\ r.audience = audience
  BY <1>4, <1>11, <1>13 DEF StreamInv, StreamTypes
<1>15. UNCHANGED <<conns, socket, got>>
  BY DEF CastStart
<1>16. Reaches(e)'
  <2>1. /\ \A c \in Clients : got[c][e] <= 1 /\ (socket[c] = "new" => got[c][e] = 0)
        /\ \A c \in audience : socket[c] # "new"
    BY <1>2, <1>6 DEF StreamInv, Reaches
  <2>2. step = "done" => audience = {}
    BY <1>6, <1>7
  <2> QED BY <1>2, <1>4, <1>6, <1>7, <1>14, <1>15, <2>1, <2>2 DEF Reaches
<1>17. \A d \in Clients, f \in Sent \ {e} : got'[d][f] = got[d][f]
  BY <1>15
<1> QED BY <1>12, <1>13, <1>15, <1>16, <1>17, OneCastMoves DEF StreamInv, StreamTypes

(* A broadcast sends to the connection at its place and moves to the next *)
LEMMA CastSendInv == ASSUME StreamInv, NEW e \in Sent, CastSend(e) PROVE StreamInv'
<1>1. conns \in Seq(Clients) /\ Len(conns) \in Nat
  BY DEF StreamInv, StreamTypes
<1>2. PICK b \in Casts : b = cast[e]
  BY DEF StreamInv, StreamTypes
<1>3. b.step = "sending" /\ b.at \in 1 .. Len(conns)
  BY <1>1, <1>2 DEF CastSend, Casts
<1>4. PICK c \in Clients : c = conns[b.at]
  BY <1>1, <1>3, ElementOfSeq
<1>5. \A i \in b.at .. Len(conns) : conns[i] \in Clients /\ got[conns[i]][e] = 0
  <2>1. \A i \in b.at .. Len(conns) : i \in 1 .. Len(conns)
    BY <1>1, <1>3
  <2> QED BY <1>1, <1>2, <1>3, <2>1, ElementOfSeq DEF StreamInv, Reaches
<1>6. \A i \in b.at + 1 .. Len(conns) : i \in b.at .. Len(conns) /\ conns[i] # c
  <2>1. \A i \in b.at + 1 .. Len(conns) : i \in 1 .. Len(conns) /\ i # b.at /\ i \in b.at .. Len(conns)
    BY <1>1, <1>3
  <2> QED BY <1>3, <1>4, <2>1 DEF StreamInv, Listed
<1>7. \A i \in b.at .. Len(conns) : i = b.at \/ i \in b.at + 1 .. Len(conns)
  BY <1>1, <1>3
<1>8. PICK dead \in SUBSET Clients : \E x :
         /\ x = [step |-> b.step, at |-> b.at + 1, dead |-> dead, audience |-> b.audience,
                 shifted |-> b.shifted]
         /\ cast' = [cast EXCEPT ![e] = x]
  <2>1. PICK r : r = [b EXCEPT !.at = b.at + 1]
    OBVIOUS
  <2>2. r = [step |-> b.step, at |-> b.at + 1, dead |-> b.dead, audience |-> b.audience,
             shifted |-> b.shifted]
    BY <2>1 DEF Casts
  <2>3. CASE cast' = [cast EXCEPT ![e].at = @ + 1]
    <3>1. cast' = [cast EXCEPT ![e] = r]
      BY <1>2, <2>1, <2>3 DEF StreamInv, StreamTypes
    <3>2. b.dead \in SUBSET Clients
      BY DEF Casts
    <3> QED BY <2>2, <3>1, <3>2
  <2>4. CASE \E d \in {{}, {c}} : cast' = [cast EXCEPT ![e].at = @ + 1, ![e].dead = @ \cup d]
    <3>1. PICK d \in {{}, {c}} : cast' = [cast EXCEPT ![e].at = @ + 1, ![e].dead = @ \cup d]
      BY <2>4
    <3>2. PICK dead \in SUBSET Clients : dead = b.dead \cup d
      BY DEF Casts
    <3>3. PICK s : s = [r EXCEPT !.dead = dead]
      OBVIOUS
    <3>4. s = [step |-> b.step, at |-> b.at + 1, dead |-> dead, audience |-> b.audience,
               shifted |-> b.shifted]
      BY <2>2, <3>3
    <3>5. [b EXCEPT !.at = b.at + 1, !.dead = dead] = s
      BY <2>1, <3>3
    <3>6. cast' = [cast EXCEPT ![e] = [b EXCEPT !.at = b.at + 1, !.dead = dead]]
      BY <1>2, <3>1, <3>2 DEF StreamInv, StreamTypes
    <3> QED BY <3>4, <3>5, <3>6
  <2> QED BY <1>2, <1>4, <2>3, <2>4 DEF CastSend
<1>r. PICK r :
         /\ r = [step |-> b.step, at |-> b.at + 1, dead |-> dead, audience |-> b.audience,
                 shifted |-> b.shifted]
         /\ cast' = [cast EXCEPT ![e] = r]
  BY <1>8
<1>9. r \in Casts /\ cast'[e] = r
  BY <1>3, <1>r DEF Casts, StreamInv, StreamTypes
<1>10. UNCHANGED <<conns, socket>>
  BY DEF CastSend
<1>11. /\ got' \in [Clients -> [Sent -> Nat]]
       /\ \A d \in Clients, f \in Sent : d # c \/ f # e => got'[d][f] = got[d][f]
       /\ IF socket[c] = "open" THEN got'[c][e] = 1 ELSE got'[c][e] = 0
  <2>1. got \in [Clients -> [Sent -> Nat]] /\ got[c][e] = 0
    BY <1>1, <1>3, <1>4, <1>5 DEF StreamInv, StreamTypes
  <2>2. CASE socket[c] = "open"
    <3>1. got' = [got EXCEPT ![c][e] = @ + 1]
      BY <1>2, <1>4, <2>2 DEF CastSend
    <3> QED BY <2>1, <2>2, <3>1
  <2>3. CASE socket[c] # "open"
    <3>1. got' = got
      BY <1>2, <1>4, <2>3 DEF CastSend
    <3> QED BY <2>1, <2>3, <3>1
  <2> QED BY <2>2, <2>3
<1>12. Reaches(e)'
  <2>1. /\ \A d \in Clients : got'[d][e] <= 1 /\ (socket'[d] = "new" => got'[d][e] = 0)
        /\ \A d \in r.audience : socket'[d] # "new"
    <3>1. \A d \in Clients : got[d][e] <= 1 /\ (socket[d] = "new" => got[d][e] = 0)
      BY DEF StreamInv, Reaches
    <3>2. \A d \in r.audience : socket[d] # "new"
      BY <1>2, <1>r DEF StreamInv, Reaches
    <3> QED BY <1>10, <1>11, <3>1, <3>2
  <2>2. \A i \in r.at .. Len(conns') : got'[conns'[i]][e] = 0
    BY <1>5, <1>6, <1>r, <1>10, <1>11
  <2>3. ASSUME ~r.shifted, NEW d \in r.audience
        PROVE  socket'[d] # "open" \/ got'[d][e] = 1 \/ \E i \in r.at .. Len(conns') : conns'[i] = d
    <3>1. d \in Clients
      BY <1>r DEF Casts
    <3>2. socket[d] # "open" \/ got[d][e] = 1 \/ \E i \in b.at .. Len(conns) : conns[i] = d
      BY <1>2, <1>3, <1>r, <2>3 DEF StreamInv, Reaches
    <3>3. CASE d = c
      BY <1>10, <1>11, <3>3
    <3>4. CASE d # c
      BY <1>4, <1>7, <1>r, <1>10, <1>11, <3>1, <3>2, <3>4
    <3> QED BY <3>3, <3>4
  <2> QED BY <1>3, <1>r, <1>9, <2>1, <2>2, <2>3 DEF Reaches
<1>13. \A d \in Clients, f \in Sent \ {e} : got'[d][f] = got[d][f]
  BY <1>11
<1> QED BY <1>r, <1>9, <1>10, <1>11, <1>12, <1>13, OneCastMoves

(* A broadcast removes the connections it could not send to *)
LEMMA CastEndInv == ASSUME StreamInv, NEW e \in Sent, CastEnd(e) PROVE StreamInv'
<1>1. PICK b \in Casts : b = cast[e]
  BY DEF StreamInv, StreamTypes
<1>2. b.step = "sending" /\ b.at > Len(conns)
  BY <1>1 DEF CastEnd
<1>3. PICK gone \in SUBSET Clients : gone = b.dead
  BY DEF Casts
<1>4. PICK r : r = [b EXCEPT !.step = "done", !.at = 1, !.dead = {}]
  OBVIOUS
<1>5. r = [step |-> "done", at |-> 1, dead |-> {}, audience |-> b.audience,
           shifted |-> b.shifted]
  <2>1. PICK s : s = [b EXCEPT !.step = "done"]
    OBVIOUS
  <2>2. PICK u : u = [s EXCEPT !.at = 1]
    OBVIOUS
  <2>3. s = [step |-> "done", at |-> b.at, dead |-> b.dead, audience |-> b.audience,
             shifted |-> b.shifted]
    BY <2>1 DEF Casts
  <2>4. u = [step |-> "done", at |-> 1, dead |-> b.dead, audience |-> b.audience,
             shifted |-> b.shifted]
    BY <2>2, <2>3
  <2>5. [u EXCEPT !.dead = {}] = [step |-> "done", at |-> 1, dead |-> {},
                                  audience |-> b.audience, shifted |-> b.shifted]
    BY <2>4
  <2>6. r = [u EXCEPT !.dead = {}]
    BY <1>4, <2>1, <2>2
  <2> QED BY <2>5, <2>6
<1>6. r \in Casts
  BY <1>5 DEF Casts
<1>7. /\ conns' = Without(conns, gone) /\ UNCHANGED <<socket, got>>
      /\ cast' = [Shifted(gone) EXCEPT ![e] = r]
  BY <1>1, <1>3, <1>4 DEF CastEnd
<1>8. Shifted(gone) \in [Sent -> Casts]
  BY ShiftedCasts
<1>9. /\ cast' \in [Sent -> Casts] /\ cast'[e] = r
      /\ \A f \in Sent \ {e} : cast'[f] = Shifted(gone)[f]
  BY <1>6, <1>7, <1>8
<1>10. StreamTypes'
  BY <1>7, <1>9, ConnsShrink DEF StreamInv, StreamTypes
<1>11. Listed(conns)'
  BY <1>7, ShrunkList
<1>12. \A f \in Sent \ {e} : Reaches(f)'
  BY <1>7, <1>9, ShiftedReach
<1>13. Reaches(e)'
  <2>1. \A i \in b.at .. Len(conns) : FALSE
    BY <1>2 DEF Casts, StreamInv, StreamTypes
  <2>2. /\ \A c \in Clients : got[c][e] <= 1 /\ (socket[c] = "new" => got[c][e] = 0)
        /\ \A c \in b.audience : socket[c] # "new"
        /\ ~b.shifted => \A c \in b.audience : socket[c] # "open" \/ got[c][e] = 1
    BY <1>1, <1>2, <2>1 DEF StreamInv, Reaches
  <2> QED BY <1>5, <1>7, <1>9, <2>2 DEF Reaches
<1> QED BY <1>10, <1>11, <1>12, <1>13 DEF StreamInv

(* Every step keeps the invariant *)
LEMMA StreamInvInductive == StreamInv /\ [StreamNext]_streamVars => StreamInv'
<1> SUFFICES ASSUME StreamInv, [StreamNext]_streamVars PROVE StreamInv'
  OBVIOUS
<1>1. CASE UNCHANGED streamVars
  BY <1>1 DEF streamVars, StreamInv, StreamTypes, Listed, Reaches
<1>2. CASE StreamNext
  <2>1. CASE \E c \in Clients : ClientConnects(c) \/ ClientVanishes(c) \/ ClientNoticed(c)
    BY <2>1, ClientConnectsInv, ClientVanishesInv, ClientNoticedInv
  <2>2. CASE \E e \in Sent : CastStart(e) \/ CastSend(e) \/ CastEnd(e)
    BY <2>2, CastStartInv, CastSendInv, CastEndInv
  <2> QED BY <1>2, <2>1, <2>2 DEF StreamNext
<1> QED BY <1>1, <1>2

(* With any number of overlapping broadcasts, arrivals and departures      *)
(* nobody receives an event twice, and a broadcast that is over has        *)
(* reached every client that was connected when it began and still is,     *)
(* unless a connection was removed from the list under its loop            *)
(* (serving/websockets.py).                                                *)
THEOREM EventsDelivered == StreamSpec => []StreamDelivers
<1>1. StreamInv => StreamDelivers
  BY DEF StreamInv, Reaches, StreamDelivers
<1> QED BY <1>1, StreamInitInv, StreamInvInductive, PTL DEF StreamSpec

(* Since nobody is listed twice, the list is not longer than there are     *)
(* clients                                                                 *)
LEMMA ListIsShort ==
  ASSUME IsFiniteSet(Clients), StreamInv
  PROVE  Cardinality(Clients) \in Nat /\ Len(conns) \in Nat /\ Len(conns) <= Cardinality(Clients)
<1>1. conns \in Seq(Clients)
  BY DEF StreamInv, StreamTypes
<1>2. PICK n \in Nat : n = Len(conns) /\ DOMAIN conns = 1 .. n
  BY <1>1
<1>3. conns \in Injection(1 .. n, Clients)
  <2>1. conns \in [1 .. n -> Clients]
    BY <1>1, <1>2, ElementOfSeq
  <2> QED BY <1>2, <2>1 DEF Injection, IsInjective, StreamInv, Listed
<1>4. Cardinality(1 .. n) = n
  BY FS_Interval
<1> QED BY <1>2, <1>3, <1>4, FS_Injection, FS_CardinalityType

(* List, sockets and broadcasts keep their types; that a place in the list *)
(* is bounded by the number of clients needs a finite set of them.         *)
THEOREM StreamTypeCorrect == IsFiniteSet(Clients) => (StreamSpec => []StreamTypeOK)
<1> SUFFICES ASSUME IsFiniteSet(Clients) PROVE StreamSpec => []StreamTypeOK
  OBVIOUS
<1> DEFINE Near == \A e \in Sent : cast[e].at <= Cardinality(Clients) + 1
<1>1. StreamInit => Near
  BY FS_CardinalityType DEF StreamInit, IdleCast
<1>2. StreamInv /\ Near /\ [StreamNext]_streamVars => Near'
  <2> SUFFICES ASSUME StreamInv, Near, [StreamNext]_streamVars PROVE Near'
    OBVIOUS
  <2>1. PICK m \in Nat : m = Cardinality(Clients) /\ Len(conns) \in Nat /\ Len(conns) <= m
    BY ListIsShort
  <2>2. cast \in [Sent -> Casts] /\ \A e \in Sent : cast[e].at \in Nat \ {0} /\ cast[e].at <= m + 1
    BY <2>1 DEF StreamInv, StreamTypes, Casts
  <2>3. ASSUME NEW gone PROVE \A e \in Sent : Shifted(gone)[e].at = cast[e].at
    <3>1. ASSUME NEW b \in Casts PROVE [b EXCEPT !.shifted = TRUE].at = b.at
      BY DEF Casts
    <3> QED BY <2>2, <3>1 DEF Shifted
  <2>4. ASSUME NEW c \in Clients, ClientConnects(c) \/ ClientVanishes(c) \/ ClientNoticed(c) PROVE Near'
    BY <2>1, <2>2, <2>3, <2>4 DEF ClientConnects, ClientVanishes, ClientNoticed
  <2>5. ASSUME NEW e \in Sent, CastStart(e) PROVE Near'
    <3>1. PICK step, audience : cast' = [cast EXCEPT ![e].step = step, ![e].audience = audience]
      BY <2>5 DEF CastStart
    <3> QED BY <2>1, <2>2, <3>1 DEF Casts
  <2>6. ASSUME NEW e \in Sent, CastSend(e) PROVE Near'
    <3>1. cast[e].at <= Len(conns)
      BY <2>6 DEF CastSend
    <3>2. cast[e].at + 1 <= m + 1
      BY <2>1, <2>2, <3>1
    <3>3. PICK dead : \/ cast' = [cast EXCEPT ![e].at = @ + 1]
                      \/ cast' = [cast EXCEPT ![e].at = @ + 1, ![e].dead = @ \cup dead]
      BY <2>6 DEF CastSend
    <3> QED BY <2>1, <2>2, <3>2, <3>3 DEF Casts
  <2>7. ASSUME NEW e \in Sent, CastEnd(e) PROVE Near'
    <3>1. PICK b \in Casts : b = cast[e]
      BY <2>2
    <3>2. PICK r : r = [b EXCEPT !.step = "done", !.at = 1, !.dead = {}]
      OBVIOUS
    <3>3. r.at = 1
      BY <3>2 DEF Casts
    <3>4. cast' = [Shifted(b.dead) EXCEPT ![e] = r]
      BY <2>7, <3>1, <3>2 DEF CastEnd
    <3>5. cast'[e] = r /\ \A f \in Sent \ {e} : cast'[f] = Shifted(b.dead)[f]
      BY <3>4, ShiftedCasts
    <3> QED BY <2>1, <2>2, <2>3, <3>3, <3>5
  <2>8. CASE UNCHANGED streamVars
    BY <2>8 DEF streamVars
  <2> QED BY <2>4, <2>5, <2>6, <2>7, <2>8 DEF StreamNext
<1>3. StreamInv /\ Near => StreamTypeOK
  <2> SUFFICES ASSUME StreamInv, Near PROVE StreamTypeOK
    OBVIOUS
  <2>1. PICK m \in Nat : m = Cardinality(Clients)
    BY FS_CardinalityType
  <2>2. cast \in [Sent -> Casts] /\ \A e \in Sent : cast[e].at \in 1 .. m + 1
    BY <2>1 DEF StreamInv, StreamTypes, Casts
  <2>3. \A e \in Sent : cast[e] \in [step : {"idle", "sending", "done"}, at : 1 .. m + 1,
                          dead : SUBSET Clients, audience : SUBSET Clients, shifted : BOOLEAN]
    BY <2>2 DEF Casts
  <2> QED BY <2>1, <2>2, <2>3 DEF StreamInv, StreamTypes, StreamTypeOK
<1> HIDE DEF Near
<1> QED BY <1>1, <1>2, <1>3, StreamInitInv, StreamInvInductive, PTL DEF StreamSpec

=============================================================================

------------------------------ MODULE ScanPool ------------------------------
(***************************************************************************)
(* The concurrent scan of all topics: scanTopicsForActiveSchemas and       *)
(* mergeActiveSchemas (cmd/root.go).  The main goroutine resolves the      *)
(* endpoint of every cluster, spawns one goroutine per topic under the     *)
(* semaphore channel sem, receives one result per topic from the buffered  *)
(* channel results and merges them.  A goroutine sends its result before   *)
(* its deferred calls close the consumer and release the semaphore.        *)
(*                                                                         *)
(* TopicScan models what one goroutine does inside ScanActiveSchemas; here *)
(* that call returns the uses Found[s], or an error.                       *)
(***************************************************************************)
EXTENDS Integers, FiniteSets

CONSTANTS
    N,                 \* len(topics)
    Topics,            \* names of topics
    Clusters,          \* cluster IDs
    Uses,              \* (schema ID, role) pairs
    TopicOf,           \* topics[s].Topic
    ClusterOf,         \* topics[s].ClusterID
    Found,             \* what ScanActiveSchemas returns for s, if no error
    RequestedWorkers,  \* --workers
    MaxWorkers         \* 100, the ceiling runScan puts on it

ASSUME PoolAssumption ==
    /\ N \in Nat
    /\ TopicOf \in [1 .. N -> Topics]
    /\ ClusterOf \in [1 .. N -> Clusters]
    /\ Found \in [1 .. N -> SUBSET Uses]
    /\ RequestedWorkers \in Int
    /\ MaxWorkers \in Nat \ {0}

Scans == 1 .. N

\* runScan's clamp: a semaphore of capacity 0 would block the first spawn.
Workers ==
    IF RequestedWorkers < 1 THEN 1
    ELSE IF RequestedWorkers > MaxWorkers THEN MaxWorkers
    ELSE RequestedWorkers

\* Mutant: a channel sized like the semaphore.
BufferAsWorkers == Workers

\* make(chan scanResult, len(topics))
BufferCapacity == N

VARIABLES
    pc,           \* where the main goroutine stands
    next,         \* the topic its current loop is at
    endpoints,    \* clusters whose endpoint is cached
    sem,          \* tokens in the semaphore channel
    gor,          \* the state of every topic's goroutine
    outcome,      \* the result every goroutine has decided on
    results,      \* the results in the channel
    collected,    \* the results received
    active,       \* activeSchemas, once merged
    failedTopics  \* failedTopics, once merged

vars == <<pc, next, endpoints, sem, gor, outcome, results, collected, active, failedTopics>>
main == <<pc, next, endpoints, collected, active, failedTopics>>

GorStates == {"idle", "starting", "scanning", "sending", "closing", "ended"}

TypeOK ==
    /\ pc \in {"resolve", "spawn", "collect", "done", "aborted"}
    /\ next \in 1 .. N + 1
    /\ endpoints \subseteq Clusters
    /\ sem \in 0 .. Workers
    /\ gor \in [Scans -> GorStates]
    /\ outcome \in [Scans -> {"none", "ok", "error"}]
    /\ results \subseteq Scans
    /\ collected \subseteq Scans
    /\ active \subseteq Uses
    /\ failedTopics \subseteq Topics

Init ==
    /\ pc = "resolve"
    /\ next = 1
    /\ endpoints = {}
    /\ sem = 0
    /\ gor = [s \in Scans |-> "idle"]
    /\ outcome = [s \in Scans |-> "none"]
    /\ results = {}
    /\ collected = {}
    /\ active = {}
    /\ failedTopics = {}

-----------------------------------------------------------------------------
(* The main goroutine.                                                     *)

\* A cluster is described once; a cached endpoint cannot fail.
ResolveEndpoint ==
    /\ pc = "resolve"
    /\ next <= N
    /\ next' = next + 1
    /\ endpoints' = endpoints \cup {ClusterOf[next]}
    /\ UNCHANGED <<pc, sem, gor, outcome, results, collected, active, failedTopics>>

ResolveFails ==
    /\ pc = "resolve"
    /\ next <= N
    /\ ClusterOf[next] \notin endpoints
    /\ pc' = "aborted"
    /\ UNCHANGED <<next, endpoints, sem, gor, outcome, results, collected, active, failedTopics>>

ResolveDone ==
    /\ pc = "resolve"
    /\ next = N + 1
    /\ pc' = "spawn"
    /\ next' = 1
    /\ UNCHANGED <<endpoints, sem, gor, outcome, results, collected, active, failedTopics>>

\* Mutant: the semaphore has room for one token too many.
MayAcquireOneMore == sem <= Workers

MayAcquire == sem < Workers

\* sem <- struct{}{}, then go func; the send blocks while sem is full.
Spawn ==
    /\ pc = "spawn"
    /\ next <= N
    /\ MayAcquire
    /\ sem' = sem + 1
    /\ gor' = [gor EXCEPT ![next] = "starting"]
    /\ next' = next + 1
    /\ UNCHANGED <<pc, endpoints, outcome, results, collected, active, failedTopics>>

SpawnDone ==
    /\ pc = "spawn"
    /\ next = N + 1
    /\ pc' = "collect"
    /\ UNCHANGED <<next, endpoints, sem, gor, outcome, results, collected, active, failedTopics>>

Collect(s) ==
    /\ pc = "collect"
    /\ s \in results
    /\ results' = results \ {s}
    /\ collected' = collected \cup {s}
    /\ UNCHANGED <<pc, next, endpoints, sem, gor, outcome, active, failedTopics>>

Succeeded == {s \in collected : outcome[s] = "ok"}
Failed == {s \in collected : outcome[s] = "error"}

\* Mutant: the loop stops one result short.
CollectLoopEndsEarly == Cardinality(collected) + 1 >= N

\* The collect loop has received len(topics) results.
CollectLoopEnds == Cardinality(collected) = N

\* Mutant: a topic scanned in one cluster no longer counts as failed in another.
FailuresForgiven == {TopicOf[s] : s \in Failed} \ {TopicOf[s] : s \in Succeeded}

\* By name: a topic that failed in two clusters is listed once.
Failures == {TopicOf[s] : s \in Failed}

Merge ==
    /\ pc = "collect"
    /\ CollectLoopEnds
    /\ pc' = "done"
    /\ active' = UNION {Found[s] : s \in Succeeded}
    /\ failedTopics' = Failures
    /\ UNCHANGED <<next, endpoints, sem, gor, outcome, results, collected>>

-----------------------------------------------------------------------------
(* The goroutine of topic s.                                               *)

\* The consumer's configuration is refused, or it cannot be created.
ConsumerFails(s) ==
    /\ gor[s] = "starting"
    /\ gor' = [gor EXCEPT ![s] = "sending"]
    /\ outcome' = [outcome EXCEPT ![s] = "error"]
    /\ UNCHANGED <<main, sem, results>>

CreateConsumer(s) ==
    /\ gor[s] = "starting"
    /\ gor' = [gor EXCEPT ![s] = "scanning"]
    /\ UNCHANGED <<main, sem, outcome, results>>

ScanReturns(s) ==
    /\ gor[s] = "scanning"
    /\ gor' = [gor EXCEPT ![s] = "sending"]
    /\ \E o \in {"ok", "error"} : outcome' = [outcome EXCEPT ![s] = o]
    /\ UNCHANGED <<main, sem, results>>

\* results <- scanResult{...} blocks while the channel is full.
Send(s) ==
    /\ gor[s] = "sending"
    /\ Cardinality(results) < BufferCapacity
    /\ gor' = [gor EXCEPT ![s] = "closing"]
    /\ results' = results \cup {s}
    /\ UNCHANGED <<main, sem, outcome>>

\* The deferred consumer.Close and <-sem, in that order.
Release(s) ==
    /\ gor[s] = "closing"
    /\ gor' = [gor EXCEPT ![s] = "ended"]
    /\ sem' = sem - 1
    /\ UNCHANGED <<main, outcome, results>>

-----------------------------------------------------------------------------
Main ==
    \/ ResolveEndpoint \/ ResolveFails \/ ResolveDone
    \/ Spawn \/ SpawnDone
    \/ \E s \in Scans : Collect(s)
    \/ Merge

Goroutine(s) ==
    \/ ConsumerFails(s) \/ CreateConsumer(s) \/ ScanReturns(s)
    \/ Send(s) \/ Release(s)

Next == Main \/ \E s \in Scans : Goroutine(s)

Spec == Init /\ [][Next]_vars

\* DescribeCluster returns; a scan returns because of its deadline
\* (TopicScan!ScanEnds); the Go scheduler runs every goroutine.
FairSpec == Spec /\ WF_vars(Main) /\ \A s \in Scans : WF_vars(Goroutine(s))

-----------------------------------------------------------------------------
\* Goroutines that hold a token: an open consumer always has one.
Holders == {s \in Scans : gor[s] \notin {"idle", "ended"}}

(* At most --workers topics (clamped) are being scanned at a time, counting *)
(* those whose consumer is still closing.                                   *)
WorkerBound == Cardinality(Holders) <= Workers

(* Every scan is in the report exactly once: what the successful ones found *)
(* is active, and the topic of each of the others is reported as failed,    *)
(* though the same topic succeeded in another cluster.                      *)
MergedExact ==
    pc = "done" =>
      /\ \A s \in Scans : outcome[s] # "none"
      /\ active = UNION {Found[s] : s \in {t \in Scans : outcome[t] = "ok"}}
      /\ failedTopics = {TopicOf[s] : s \in {t \in Scans : outcome[t] = "error"}}

\* Goroutine s is not blocked on the results channel.
MayGo(s) ==
    \/ gor[s] \in {"starting", "scanning", "closing"}
    \/ gor[s] = "sending" /\ Cardinality(results) < BufferCapacity

(* Not everyone waits for everyone: while the main goroutine is blocked, on *)
(* a full semaphore or for a result, the goroutine of some topic is not.    *)
NeverStuck ==
    /\ pc = "spawn" /\ next <= N /\ ~MayAcquire => \E s \in Scans : MayGo(s)
    /\ pc = "collect" /\ results = {} /\ ~CollectLoopEnds => \E s \in Scans : MayGo(s)

(* The pool never hangs: the main goroutine blocked on the semaphore and    *)
(* the goroutines blocked on the results channel cannot wait for each other.*)
Terminates == <>(pc \in {"done", "aborted"})

-----------------------------------------------------------------------------
Status ==
    CASE pc = "done" -> "reported"
      [] pc = "aborted" -> "aborted"
      [] OTHER -> "scanning"

Abstract == INSTANCE ScanReport WITH status <- Status

(* The pool implements the one-step report.                                 *)
ImplementsReport == Abstract!Spec
=============================================================================

--------------------------- MODULE ScanPoolProofs ---------------------------
(***************************************************************************)
(* Proofs about ScanPool, for every number of topics, every value of       *)
(* --workers and every assignment of topics to clusters: type correctness, *)
(* the bound on concurrent scans, the exactness of the merged report, and  *)
(* the implementation of ScanReport.                                       *)
(***************************************************************************)
EXTENDS ScanPool, FiniteSetTheorems, TLAPS

\* The semaphore counts the goroutines that have one of its tokens.
TokensCounted == sem = Cardinality(Holders)

\* The topics that the spawn loop has not come to have no goroutine, and the
\* others have one.
NotSpawned ==
    /\ pc \in {"resolve", "aborted"} => \A s \in Scans : gor[s] = "idle"
    /\ pc = "spawn" => \A s \in Scans : s >= next <=> gor[s] = "idle"
    /\ pc = "collect" => \A s \in Scans : gor[s] # "idle"

\* A result is in the channel or received from the moment it is sent, and
\* a goroutine that has decided on one keeps it.
ResultsAccounted ==
    /\ results \cup collected = {s \in Scans : gor[s] \in {"closing", "ended"}}
    /\ \A s \in Scans : outcome[s] = "none" <=> gor[s] \in {"idle", "starting", "scanning"}

\* Nothing is reported before the merge, which needs every result.
ReportComplete ==
    /\ pc # "done" => active = {} /\ failedTopics = {}
    /\ pc = "done" => collected = Scans
    /\ MergedExact

IInv == TypeOK /\ TokensCounted /\ NotSpawned /\ ResultsAccounted /\ ReportComplete

-----------------------------------------------------------------------------
(* The clamp leaves between one worker and the ceiling.                    *)
LEMMA WorkersType == Workers \in Nat \ {0} /\ Workers <= MaxWorkers
BY PoolAssumption DEF Workers

LEMMA ScansFinite == IsFiniteSet(Scans) /\ Cardinality(Scans) = N
<1>1. N \in Nat
  BY PoolAssumption
<1>2. IsFiniteSet(1 .. N) /\ Cardinality(1 .. N) = IF 1 > N THEN 0 ELSE N - 1 + 1
  BY <1>1, FS_Interval
<1> QED
  BY <1>1, <1>2 DEF Scans

LEMMA HoldersFinite == IsFiniteSet(Holders)
<1>1. Holders \in SUBSET Scans
  BY DEF Holders
<1> QED
  BY <1>1, ScansFinite, FS_Subset

(* The merge waits for as many results as there are topics; as the results *)
(* are those of different topics, it has then received all of them.        *)
LEMMA AllReceived ==
  ASSUME collected \subseteq Scans, Cardinality(collected) = N
  PROVE  collected = Scans
<1>1. collected \in SUBSET Scans
  OBVIOUS
<1> QED
  BY <1>1, ScansFinite, FS_Subset

-----------------------------------------------------------------------------
LEMMA InitIInv == Init => IInv
<1> SUFFICES ASSUME Init PROVE IInv
  OBVIOUS
<1>1. TypeOK
  BY PoolAssumption, WorkersType DEF Init, TypeOK, GorStates, Scans
<1>2. TokensCounted
  <2>1. Holders = {}
    BY DEF Init, Holders
  <2> QED
    BY <2>1, FS_EmptySet DEF Init, TokensCounted
<1>3. NotSpawned /\ ResultsAccounted /\ ReportComplete
  BY DEF Init, NotSpawned, ResultsAccounted, ReportComplete, MergedExact
<1> QED
  BY <1>1, <1>2, <1>3 DEF IInv

-----------------------------------------------------------------------------
(* A step that changes no goroutine and no token keeps the count.          *)
LEMMA SameTokens ==
  ASSUME TokensCounted, UNCHANGED <<sem, gor>>
  PROVE  TokensCounted'
BY DEF TokensCounted, Holders

(* The steps of the main goroutine.                                        *)
LEMMA MainIInv == IInv /\ Main => IInv'
<1> SUFFICES ASSUME IInv, Main PROVE IInv'
  OBVIOUS
<1> USE DEF IInv
<1>1. CASE ResolveEndpoint
  <2>1. TypeOK'
    BY <1>1, PoolAssumption DEF ResolveEndpoint, TypeOK, Scans
  <2>2. TokensCounted'
    BY <1>1, SameTokens DEF ResolveEndpoint
  <2>3. NotSpawned' /\ ResultsAccounted' /\ ReportComplete'
    BY <1>1 DEF ResolveEndpoint, NotSpawned, ResultsAccounted, ReportComplete, MergedExact
  <2> QED
    BY <2>1, <2>2, <2>3
<1>2. CASE ResolveFails
  <2>1. TypeOK'
    BY <1>2 DEF ResolveFails, TypeOK
  <2>2. TokensCounted'
    BY <1>2, SameTokens DEF ResolveFails
  <2>3. NotSpawned' /\ ResultsAccounted' /\ ReportComplete'
    BY <1>2 DEF ResolveFails, NotSpawned, ResultsAccounted, ReportComplete, MergedExact
  <2> QED
    BY <2>1, <2>2, <2>3
<1>3. CASE ResolveDone
  <2>1. TypeOK'
    BY <1>3, PoolAssumption DEF ResolveDone, TypeOK
  <2>2. TokensCounted'
    BY <1>3, SameTokens DEF ResolveDone
  <2>3. NotSpawned' /\ ResultsAccounted' /\ ReportComplete'
    BY <1>3, PoolAssumption DEF Scans, ResolveDone, NotSpawned, ResultsAccounted, ReportComplete, MergedExact
  <2> QED
    BY <2>1, <2>2, <2>3
<1>4. CASE Spawn
  <2>1. next \in Scans /\ gor[next] = "idle"
    BY <1>4, PoolAssumption DEF Spawn, TypeOK, NotSpawned, Scans
  <2>2. Holders' = Holders \cup {next} /\ next \notin Holders
    BY <1>4, <2>1 DEF Spawn, TypeOK, Holders
  <2>3. Cardinality(Holders') = Cardinality(Holders) + 1
    BY <2>2, HoldersFinite, FS_AddElement
  <2>4. TypeOK'
    BY <1>4, <2>1, WorkersType, PoolAssumption DEF Spawn, MayAcquire, TypeOK, GorStates, Scans
  <2>5. TokensCounted'
    BY <1>4, <2>3 DEF Spawn, TokensCounted
  <2>6. NotSpawned'
    BY <1>4, <2>1, PoolAssumption DEF Spawn, NotSpawned, TypeOK, Scans
  <2>7. ResultsAccounted' /\ ReportComplete'
    BY <1>4, <2>1 DEF Spawn, TypeOK, ResultsAccounted, ReportComplete, MergedExact
  <2> QED
    BY <2>4, <2>5, <2>6, <2>7
<1>5. CASE SpawnDone
  <2>1. TypeOK'
    BY <1>5 DEF SpawnDone, TypeOK
  <2>2. TokensCounted'
    BY <1>5, SameTokens DEF SpawnDone
  <2>3. NotSpawned' /\ ResultsAccounted' /\ ReportComplete'
    BY <1>5, PoolAssumption DEF Scans, SpawnDone, NotSpawned, ResultsAccounted, ReportComplete, MergedExact
  <2> QED
    BY <2>1, <2>2, <2>3
<1>6. CASE \E s \in Scans : Collect(s)
  <2> PICK s \in Scans : Collect(s)
    BY <1>6
  <2>1. TypeOK'
    BY DEF Collect, TypeOK
  <2>2. TokensCounted'
    BY SameTokens DEF Collect
  <2>3. results' \cup collected' = results \cup collected
    BY DEF Collect
  <2>4. NotSpawned' /\ ResultsAccounted' /\ ReportComplete'
    BY <2>3 DEF Collect, NotSpawned, ResultsAccounted, ReportComplete, MergedExact
  <2> QED
    BY <2>1, <2>2, <2>4
<1>7. CASE Merge
  <2>1. collected = Scans
    BY <1>7, AllReceived DEF Merge, CollectLoopEnds, TypeOK
  <2>2. \A s \in Scans : outcome[s] \in {"ok", "error"}
    BY <2>1 DEF ResultsAccounted, TypeOK, GorStates
  <2>3. active' \subseteq Uses /\ failedTopics' \subseteq Topics
    BY <1>7, PoolAssumption DEF Merge, Failures, Succeeded, Failed, TypeOK, Scans
  <2>4. TypeOK'
    BY <1>7, <2>3 DEF Merge, TypeOK
  <2>5. TokensCounted'
    BY <1>7, SameTokens DEF Merge
  <2>6. MergedExact'
    BY <1>7, <2>1, <2>2 DEF Merge, Failures, MergedExact, Succeeded, Failed
  <2>7. NotSpawned' /\ ResultsAccounted' /\ ReportComplete'
    BY <1>7, <2>1, <2>6 DEF Merge, NotSpawned, ResultsAccounted, ReportComplete
  <2> QED
    BY <2>4, <2>5, <2>7
<1> QED
  BY <1>1, <1>2, <1>3, <1>4, <1>5, <1>6, <1>7 DEF Main

(* The steps of a topic's goroutine.  While one runs, the main goroutine   *)
(* has spawned it and has not merged.                                      *)
LEMMA GoroutineIInv == ASSUME NEW s \in Scans PROVE IInv /\ Goroutine(s) => IInv'
<1> SUFFICES ASSUME IInv, Goroutine(s) PROVE IInv'
  OBVIOUS
<1> USE DEF IInv
<1>a. gor[s] # "idle"
  BY DEF Goroutine, ConsumerFails, CreateConsumer, ScanReturns, Send, Release
<1>b. ASSUME gor' = [gor EXCEPT ![s] = gor'[s]], gor'[s] # "idle", UNCHANGED main
      PROVE  NotSpawned'
  BY <1>a, <1>b DEF NotSpawned, main, TypeOK
<1>1. CASE ConsumerFails(s)
  <2>1. TypeOK'
    BY <1>1 DEF ConsumerFails, main, TypeOK, GorStates
  <2>2. Holders' = Holders
    BY <1>1 DEF ConsumerFails, Holders, TypeOK
  <2>3. NotSpawned'
    BY <1>1, <1>b DEF ConsumerFails, TypeOK
  <2>4. ResultsAccounted'
    BY <1>1 DEF ConsumerFails, main, ResultsAccounted, TypeOK
  <2>5. ReportComplete'
    BY <1>1 DEF ConsumerFails, main, ReportComplete, MergedExact, ResultsAccounted
  <2> QED
    BY <1>1, <2>1, <2>2, <2>3, <2>4, <2>5 DEF ConsumerFails, TokensCounted
<1>2. CASE CreateConsumer(s)
  <2>1. TypeOK'
    BY <1>2 DEF CreateConsumer, main, TypeOK, GorStates
  <2>2. Holders' = Holders
    BY <1>2 DEF CreateConsumer, Holders, TypeOK
  <2>3. NotSpawned'
    BY <1>2, <1>b DEF CreateConsumer, TypeOK
  <2>4. ResultsAccounted'
    BY <1>2 DEF CreateConsumer, main, ResultsAccounted, TypeOK
  <2>5. ReportComplete'
    BY <1>2 DEF CreateConsumer, main, ReportComplete, MergedExact
  <2> QED
    BY <1>2, <2>1, <2>2, <2>3, <2>4, <2>5 DEF CreateConsumer, TokensCounted
<1>3. CASE ScanReturns(s)
  <2> PICK o \in {"ok", "error"} : outcome' = [outcome EXCEPT ![s] = o]
    BY <1>3 DEF ScanReturns
  <2>1. TypeOK'
    BY <1>3 DEF ScanReturns, main, TypeOK, GorStates
  <2>2. Holders' = Holders
    BY <1>3 DEF ScanReturns, Holders, TypeOK
  <2>3. NotSpawned'
    BY <1>3, <1>b DEF ScanReturns, TypeOK
  <2>4. ResultsAccounted'
    BY <1>3 DEF ScanReturns, main, ResultsAccounted, TypeOK
  <2>5. ReportComplete'
    BY <1>3 DEF ScanReturns, main, ReportComplete, MergedExact, ResultsAccounted
  <2> QED
    BY <1>3, <2>1, <2>2, <2>3, <2>4, <2>5 DEF ScanReturns, TokensCounted
<1>4. CASE Send(s)
  <2>1. TypeOK'
    BY <1>4 DEF Send, main, TypeOK, GorStates
  <2>2. Holders' = Holders
    BY <1>4 DEF Send, Holders, TypeOK
  <2>3. NotSpawned'
    BY <1>4, <1>b DEF Send, TypeOK
  <2>4. ResultsAccounted'
    BY <1>4 DEF Send, main, ResultsAccounted, TypeOK
  <2>5. ReportComplete'
    BY <1>4 DEF Send, main, ReportComplete, MergedExact
  <2> QED
    BY <1>4, <2>1, <2>2, <2>3, <2>4, <2>5 DEF Send, TokensCounted
<1>5. CASE Release(s)
  <2>1. Holders' = Holders \ {s} /\ s \in Holders
    BY <1>5 DEF Release, Holders, TypeOK
  <2>2. Cardinality(Holders') = Cardinality(Holders) - 1
    BY <2>1, HoldersFinite, FS_RemoveElement
  <2>3. Cardinality(Holders') \in Nat
    BY <2>1, HoldersFinite, FS_RemoveElement, FS_CardinalityType
  <2>4. TokensCounted'
    BY <1>5, <2>2 DEF Release, TokensCounted
  <2>5. TypeOK'
    BY <1>5, <2>3, <2>4, WorkersType DEF Release, main, TypeOK, GorStates, TokensCounted
  <2>6. NotSpawned'
    BY <1>5, <1>b DEF Release, TypeOK
  <2>7. ResultsAccounted'
    BY <1>5 DEF Release, main, ResultsAccounted, TypeOK
  <2>8. ReportComplete'
    BY <1>5 DEF Release, main, ReportComplete, MergedExact
  <2> QED
    BY <2>4, <2>5, <2>6, <2>7, <2>8
<1> QED
  BY <1>1, <1>2, <1>3, <1>4, <1>5 DEF Goroutine

LEMMA StepIInv == IInv /\ [Next]_vars => IInv'
<1>1. ASSUME IInv, UNCHANGED vars PROVE IInv'
  BY <1>1 DEF vars, IInv, TypeOK, TokensCounted, Holders, NotSpawned, ResultsAccounted,
              ReportComplete, MergedExact
<1> QED
  BY <1>1, MainIInv, GoroutineIInv DEF Next

LEMMA SpecIInv == Spec => []IInv
BY InitIInv, StepIInv, PTL DEF Spec

-----------------------------------------------------------------------------
(* Every reachable state of the pool has the declared types.               *)
THEOREM TypeCorrect == Spec => []TypeOK
BY SpecIInv, PTL DEF IInv

(* At most --workers topics (clamped) are scanned at a time, because the   *)
(* semaphore's tokens are exactly the goroutines that hold one.            *)
THEOREM Bounded == Spec => []WorkerBound
<1>1. IInv => WorkerBound
  BY WorkersType DEF IInv, TypeOK, TokensCounted, WorkerBound
<1> QED
  BY <1>1, SpecIInv, PTL

(* The merged report accounts for every scan exactly once.                 *)
THEOREM Exact == Spec => []MergedExact
<1>1. IInv => MergedExact
  BY DEF IInv, ReportComplete
<1> QED
  BY <1>1, SpecIInv, PTL

-----------------------------------------------------------------------------
\* The channel has room for every result: nobody blocks on sending.
LEMMA SenderGoes ==
  ASSUME IInv, NEW s \in Scans, gor[s] = "sending"
  PROVE  MayGo(s)
<1>1. s \notin results /\ results \subseteq Scans
  BY DEF IInv, TypeOK, ResultsAccounted
<1>2. results \in SUBSET (Scans \ {s})
  BY <1>1
<1>3. IsFiniteSet(Scans \ {s}) /\ Cardinality(Scans \ {s}) = N - 1
  BY ScansFinite, FS_RemoveElement
<1>4. Cardinality(results) <= N - 1 /\ Cardinality(results) \in Nat
  BY <1>2, <1>3, FS_Subset, FS_CardinalityType
<1> QED
  BY <1>4, PoolAssumption DEF MayGo, BufferCapacity

\* A goroutine that has been spawned and has not ended goes on by itself.
LEMMA HolderGoes ==
  ASSUME IInv, NEW s \in Scans, gor[s] \notin {"idle", "ended"}
  PROVE  MayGo(s)
<1>1. gor[s] \in {"starting", "scanning", "sending", "closing"}
  BY DEF IInv, TypeOK, GorStates
<1> QED
  BY <1>1, SenderGoes DEF MayGo

(* The pool never hangs, for any number of topics and workers: the clamp    *)
(* leaves at least one token, each token in use is held by a goroutine that *)
(* can go on, and a result still missing is on its way.                     *)
THEOREM NoHang == Spec => []NeverStuck
<1>1. ASSUME IInv, pc = "spawn", ~MayAcquire
      PROVE  \E s \in Scans : MayGo(s)
  <2>1. sem \in 0 .. Workers /\ sem = Cardinality(Holders) /\ Workers \in Nat \ {0}
    BY <1>1, WorkersType DEF IInv, TypeOK, TokensCounted
  <2>2. sem # 0
    BY <1>1, <2>1 DEF MayAcquire
  <2>3. Holders # {}
    BY <2>1, <2>2, FS_EmptySet
  <2>4. PICK s \in Scans : gor[s] \notin {"idle", "ended"}
    BY <2>3 DEF Holders
  <2> QED
    BY <1>1, <2>4, HolderGoes
<1>2. ASSUME IInv, pc = "collect", results = {}, ~CollectLoopEnds
      PROVE  \E s \in Scans : MayGo(s)
  <2>1. collected # Scans
    BY <1>2, ScansFinite DEF CollectLoopEnds
  <2>2. PICK s \in Scans : s \notin collected
    BY <1>2, <2>1 DEF IInv, TypeOK
  <2>3. gor[s] \notin {"idle", "ended"}
    BY <1>2, <2>2 DEF IInv, ResultsAccounted, NotSpawned
  <2> QED
    BY <1>2, <2>3, HolderGoes
<1>3. IInv => NeverStuck
  BY <1>1, <1>2 DEF NeverStuck
<1> QED
  BY <1>3, SpecIInv, PTL

-----------------------------------------------------------------------------
LEMMA InitAbstract == Init => Abstract!Init
BY DEF Init, Abstract!Init, Status

(* Merge is the abstract Report, with ok the scans that succeeded.         *)
LEMMA MergeReports == IInv /\ Merge => Abstract!Report
<1> SUFFICES ASSUME IInv, Merge PROVE Abstract!Report
  OBVIOUS
<1> DEFINE ok == {s \in Scans : outcome[s] = "ok"}
<1>1. collected = Scans
  BY AllReceived DEF Merge, CollectLoopEnds, IInv, TypeOK
<1>2. Succeeded = ok
  BY <1>1 DEF Succeeded
<1>3. Failed = Scans \ ok
  BY <1>1 DEF Failed, IInv, ResultsAccounted, TypeOK, GorStates
<1>4. Abstract!Scans = Scans
  BY DEF Abstract!Scans, Scans
<1>5. active' = Abstract!ActiveOf(ok)
  BY <1>2 DEF Merge, Abstract!ActiveOf
<1>6. failedTopics' = Abstract!FailedOf(ok)
  BY <1>3, <1>4 DEF Merge, Failures, Abstract!FailedOf
<1>7. ok \in SUBSET Abstract!Scans
  BY <1>4
<1>8. Status = "scanning" /\ Status' = "reported"
  BY DEF Merge, Status
<1> QED
  BY <1>5, <1>6, <1>7, <1>8 DEF Abstract!Report

LEMMA StepAbstract == IInv /\ [Next]_vars => [Abstract!Next]_Abstract!vars
<1> SUFFICES ASSUME IInv, [Next]_vars PROVE [Abstract!Next]_Abstract!vars
  OBVIOUS
<1> USE DEF Abstract!vars
<1>1. CASE Merge
  BY <1>1, MergeReports DEF Abstract!Next
<1>2. CASE ResolveFails
  BY <1>2 DEF ResolveFails, Status, Abstract!Next, Abstract!Abort
<1>3. CASE ResolveEndpoint \/ ResolveDone \/ Spawn \/ SpawnDone
  BY <1>3 DEF ResolveEndpoint, ResolveDone, Spawn, SpawnDone, Status
<1>4. CASE \E s \in Scans : Collect(s)
  BY <1>4 DEF Collect, Status
<1>5. CASE \E s \in Scans : Goroutine(s)
  <2>1. UNCHANGED main
    BY <1>5 DEF Goroutine, ConsumerFails, CreateConsumer, ScanReturns, Send, Release
  <2> QED
    BY <2>1 DEF main, Status
<1>6. CASE UNCHANGED vars
  BY <1>6 DEF vars, Status
<1> QED
  BY <1>1, <1>2, <1>3, <1>4, <1>5, <1>6 DEF Next, Main

(* The pool implements the one-step report: however many scans run at a    *)
(* time and in whatever order they end, the caller sees all or nothing.    *)
THEOREM Implements == Spec => ImplementsReport
<1>1. Spec => Abstract!Spec
  BY InitAbstract, StepAbstract, SpecIInv, PTL DEF Spec, Abstract!Spec
<1> QED
  BY <1>1 DEF ImplementsReport
=============================================================================

----------------------------- MODULE ScanReport -----------------------------
(***************************************************************************)
(* What scanTopicsForActiveSchemas promises (the comment above it in       *)
(* cmd/root.go): either nothing at all, or one report in which every scan  *)
(* of a topic counts exactly once, as the uses it found or as the name of  *)
(* a topic that could not be scanned.  How many scans run at a time and in *)
(* which order they end is not said.                                       *)
(***************************************************************************)
EXTENDS Integers

CONSTANTS
    N,        \* the number of (topic, cluster) pairs to scan
    Topics,   \* names of topics
    Uses,     \* (schema ID, role) pairs
    TopicOf,  \* the topic of each scan
    Found     \* the uses each scan finds when it succeeds

Scans == 1 .. N

VARIABLES status, active, failedTopics

vars == <<status, active, failedTopics>>

\* The report when exactly the scans of ok have succeeded.
ActiveOf(ok) == UNION {Found[s] : s \in ok}
FailedOf(ok) == {TopicOf[s] : s \in Scans \ ok}

Init ==
    /\ status = "scanning"
    /\ active = {}
    /\ failedTopics = {}

Report ==
    /\ status = "scanning"
    /\ status' = "reported"
    /\ \E ok \in SUBSET Scans :
         /\ active' = ActiveOf(ok)
         /\ failedTopics' = FailedOf(ok)

\* A cluster's endpoint cannot be resolved: no scan starts.
Abort ==
    /\ status = "scanning"
    /\ status' = "aborted"
    /\ UNCHANGED <<active, failedTopics>>

Next == Report \/ Abort

Spec == Init /\ [][Next]_vars
=============================================================================

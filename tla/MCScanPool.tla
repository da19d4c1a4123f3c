----------------------------- MODULE MCScanPool -----------------------------
(* An instance of ScanPool: the topics t1 and t2 exist in both clusters,   *)
(* t3 in one.  --workers asks for more than the ceiling of 2, and five     *)
(* scans are more than twice the workers: enough to fill a results channel *)
(* of the semaphore's size while both workers hold a result.               *)
EXTENDS ScanPool

CONSTANTS t1, t2, t3, c1, c2, u1, u2, u3

MCTopics == {t1, t2, t3}
MCClusters == {c1, c2}
MCUses == {u1, u2, u3}
MCTopicOf == <<t1, t2, t1, t3, t2>>
MCClusterOf == <<c1, c1, c2, c2, c2>>

\* Scans 1 and 3 find different uses; u2 is found twice; scan 4 nothing.
MCFound == <<{u1, u2}, {u2}, {u3}, {}, {u2}>>
=============================================================================

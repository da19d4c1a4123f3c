SPECIFICATION FairSpec
CONSTANTS
    t1 = t1
    t2 = t2
    t3 = t3
    c1 = c1
    c2 = c2
    u1 = u1
    u2 = u2
    u3 = u3
    N = 5
    Topics <- MCTopics
    Clusters <- MCClusters
    Uses <- MCUses
    TopicOf <- MCTopicOf
    ClusterOf <- MCClusterOf
    Found <- MCFound
    RequestedWorkers = 7
    MaxWorkers = 2
INVARIANTS
    TypeOK
    WorkerBound
    MergedExact
    NeverStuck
PROPERTIES
    Terminates
    ImplementsReport
\* The pool ends, and nothing follows it.
CHECK_DEADLOCK FALSE

----------------------------- MODULE Selection -----------------------------
(***************************************************************************)
(* What a scan looks at: runScan (cmd/root.go) from its flags to the       *)
(* subjects it calls unverified.  It selects subjects, clusters and        *)
(* topics, lists the schemas, scans the topics (see ScanPool) and ties the *)
(* topics that failed to subjects.  Every answer comes from a platform     *)
(* (pkg/platform_cp.go, pkg/platform_cloud.go), and topics are created     *)
(* meanwhile.                                                              *)
(***************************************************************************)
EXTENDS Naming, FiniteSets

CONSTANTS
    Underscored,   \* first segments that begin with "_"
    DefaultNames,  \* the name a CP cluster gets by its position
    Runs,          \* flags and surroundings of a run, see RunOK
    Creations      \* <<i, t>>: topic t may be created in cluster i meanwhile

(***************************************************************************)
(* platform, strategy, force: the flags.  subject: << >> for               *)
(* --all-subjects, else <<s>>.  context: << >> when not given, else <<c>>. *)
(* topics: --topics, {} when not given.  allTopics: --all-topics.          *)
(* registry: the registered subjects.  clusters: a sequence of [name,      *)
(* topics], names being unique on Cloud and anything, "" too, on CP.       *)
(* credentials: the clusters the config file has credentials for.          *)
(***************************************************************************)
RunOK(r) ==
    /\ r.platform \in {"cp", "cloud"}
    /\ r.strategy \in Strategies
    /\ r.force \in BOOLEAN /\ r.allTopics \in BOOLEAN
    /\ r.topics # {} => ~r.allTopics
    /\ r.registry \subseteq SubjectNames
    /\ r.subject # << >> => r.subject[1] \in SubjectNames
    /\ r.clusters \in Seq([name : STRING, topics : SUBSET Names])
    /\ Len(r.clusters) <= Len(DefaultNames)
    /\ r.platform = "cloud" =>
         \A i, j \in DOMAIN r.clusters : r.clusters[i].name = r.clusters[j].name => i = j

ASSUME SelectionAssumption ==
    /\ Dotted \subseteq STRING
    /\ DefaultNames \in Seq(STRING)
    /\ \A r \in Runs : RunOK(r)
    /\ \A n \in Creations : n[2] \in Names

VARIABLES
    pc,          \* the next step of runScan
    run,         \* flags and surroundings, chosen once
    world,       \* the topics of each cluster by now
    subjects,    \* the selected subjects
    clusters,    \* ctx.Clusters
    asked,       \* the clusters whose topics have been listed
    known,       \* the <<topic, cluster>> pairs listed
    scanned,     \* topicsWithCluster
    listed,      \* <<p, s>>: the request for subject p returned versions of s
    ok,          \* the pairs whose scan succeeded
    failed,      \* failedTopics
    unverified   \* unverifiedSubjects

vars == <<pc, run, world, subjects, clusters, asked, known, scanned, listed, ok, failed, unverified>>

NamesOf(pairs) == {p[1] : p \in pairs}

TypeOK ==
    /\ pc \in {"subjects", "clusters", "topics", "schemas", "scan", "done", "nothing", "error"}
    /\ run \in Runs
    /\ asked \subseteq clusters
    /\ known \subseteq {<<t, c>> : t \in UNION {world[i] : i \in DOMAIN world}, c \in asked}
    /\ scanned \subseteq known
    /\ listed \subseteq subjects \X run.registry
    /\ ok \subseteq scanned
    /\ failed = NamesOf(scanned \ ok) \/ pc # "done"
    /\ unverified \subseteq subjects

Init ==
    /\ pc = "subjects"
    /\ run \in Runs
    /\ world = [i \in DOMAIN run.clusters |-> run.clusters[i].topics]
    /\ subjects = {} /\ clusters = {} /\ asked = {} /\ known = {} /\ scanned = {}
    /\ listed = {} /\ ok = {} /\ failed = {} /\ unverified = {}

-----------------------------------------------------------------------------
(* The platform.                                                           *)

\* LoadCPConfig names a cluster that has no name after its position.
ClusterName(i) ==
    IF run.clusters[i].name = "" THEN DefaultNames[i] ELSE run.clusters[i].name

ListClusters == {ClusterName(i) : i \in DOMAIN run.clusters}

\* The first cluster of this name answers.
ClusterOf(c) ==
    CHOOSE i \in DOMAIN run.clusters :
        /\ ClusterName(i) = c
        /\ \A j \in DOMAIN run.clusters : ClusterName(j) = c => i <= j

CloudTopics(c) == world[ClusterOf(c)]
CPTopics(c) == {t \in world[ClusterOf(c)] : t[1] \notin Underscored}
TopicsOf(c) == IF run.platform = "cp" THEN CPTopics(c) ELSE CloudTopics(c)

\* ListSubjects of either platform.
SubjectsFor(strategy) == {s \in run.registry : VerifySubjectForStrategy(s, strategy)}

\* Mutant: the context is ignored by the platform.
SchemasByName(p) == {s \in run.registry : s.raw = p.raw}

\* CP lists a subject, Cloud a prefix.
SchemasOf(p) == {s \in run.registry : s = p}
SchemasUnder(p) == {s \in run.registry : NameBegins(s, p)}

CreateTopic ==
    /\ pc \notin {"done", "nothing", "error"}
    /\ \E n \in Creations :
         /\ n[1] \in DOMAIN world
         /\ world' = [world EXCEPT ![n[1]] = @ \cup {n[2]}]
    /\ UNCHANGED <<pc, run, subjects, clusters, asked, known, scanned, listed, ok, failed, unverified>>

-----------------------------------------------------------------------------
(* runScan.                                                                *)

\* A flag is refused, or a call of the platform fails.
Fail ==
    /\ pc \notin {"done", "nothing", "error"}
    /\ pc' = "error"
    /\ UNCHANGED <<run, world, subjects, clusters, asked, known, scanned, listed, ok, failed, unverified>>

FlagsOK ==
    /\ run.subject # << >> /\ run.strategy = "topic-name" => VerifySubject(run.subject[1])
    /\ run.strategy = "record-name" => run.topics # {} \/ run.allTopics

InContext(s) == run.context # << >> => GetContextFromSubject(s) = run.context[1]

ListSubjects ==
    /\ pc = "subjects"
    /\ FlagsOK
    /\ subjects' = IF run.subject = << >> THEN {s \in SubjectsFor(run.strategy) : InContext(s)}
                   ELSE {run.subject[1]}
    /\ pc' = IF subjects' = {} THEN "nothing" ELSE "clusters"
    /\ UNCHANGED <<run, world, clusters, asked, known, scanned, listed, ok, failed, unverified>>

\* What is missing in the file is typed in, unless --force forbids to ask.
ResolveCredentials(S) == run.force => S \subseteq run.credentials

SetupCP ==
    /\ run.platform = "cp"
    /\ clusters' = ListClusters

\* Without --force the operator may skip clusters.
SetupCloud ==
    /\ run.platform = "cloud"
    /\ \E skipped \in SUBSET ListClusters :
         /\ run.force => skipped = {}
         /\ clusters' = ListClusters \ skipped
    /\ ResolveCredentials(clusters')

SetupContext ==
    /\ pc = "clusters"
    /\ SetupCP \/ SetupCloud
    /\ pc' = "topics"
    /\ UNCHANGED <<run, world, subjects, asked, known, scanned, listed, ok, failed, unverified>>

ListTopics ==
    /\ pc = "topics"
    /\ \E c \in clusters \ asked :
         /\ asked' = asked \cup {c}
         /\ known' = known \cup {<<t, c>> : t \in TopicsOf(c)}
    /\ UNCHANGED <<pc, run, world, subjects, clusters, scanned, listed, ok, failed, unverified>>

\* Mutant: topic-record-name subjects lose a suffix, like those of topic-name.
TopicsBySuffix ==
    IF run.topics # {} THEN run.topics
    ELSE IF run.allTopics THEN NamesOf(known)
    ELSE {TopicFromSubject(s) : s \in subjects}

\* resolveTopicRecordName: each subject's topic, among all topics.
MatchedTopics == UNION {LongestPrefixTopic(GetRawSubject(s), NamesOf(known)) : s \in subjects}

TopicsToScan ==
    IF run.topics # {} THEN run.topics
    ELSE IF run.allTopics THEN NamesOf(known)
    ELSE IF run.strategy = "topic-record-name" THEN MatchedTopics
    ELSE {TopicFromSubject(s) : s \in subjects}

\* Mutant: a topic is looked for in clusters that do not have it.
ResolveEverywhere ==
    /\ pc = "topics"
    /\ asked = clusters
    /\ scanned' = TopicsToScan \X clusters
    /\ pc' = "schemas"
    /\ UNCHANGED <<run, world, subjects, clusters, asked, known, listed, ok, failed, unverified>>

ResolveTopics ==
    /\ pc = "topics"
    /\ asked = clusters
    /\ scanned' = {p \in known : p[1] \in TopicsToScan}
    /\ pc' = "schemas"
    /\ UNCHANGED <<run, world, subjects, clusters, asked, known, listed, ok, failed, unverified>>

ListSchemas ==
    /\ pc = "schemas"
    /\ listed' = UNION {{<<p, s>> : s \in IF run.platform = "cloud" THEN SchemasUnder(p) ELSE SchemasOf(p)} :
                       p \in subjects}
    /\ pc' = IF listed' = {} THEN "nothing" ELSE "scan"
    /\ UNCHANGED <<run, world, subjects, clusters, asked, known, scanned, ok, failed, unverified>>

\* Any of the scans may fail; a topic that fails in one cluster has failed.
ScanTopics ==
    /\ pc = "scan"
    /\ \E good \in SUBSET scanned :
         /\ ok' = good
         /\ failed' = NamesOf(scanned \ good)
    /\ unverified' =
         SubjectsForFailedTopics(failed', subjects, NamesOf(scanned), run.strategy)
    /\ pc' = "done"
    /\ UNCHANGED <<run, world, subjects, clusters, asked, known, scanned, listed>>

Next ==
    \/ ListSubjects \/ SetupContext \/ ListTopics \/ ResolveTopics
    \/ ListSchemas \/ ScanTopics
    \/ Fail
    \/ CreateTopic

Spec == Init /\ [][Next]_vars

-----------------------------------------------------------------------------
\* Messages of topic t may use the versions of subject s.
IsFor(t, s) == Holds(t, s, run.strategy)

\* They are taken for messages of a longer known topic.
Hidden(t, s) == Shadowed(t, s, NamesOf(known), run.strategy)

\* What the run was to look at: no topic beside --topics, no skipped cluster,
\* no CP cluster behind another one of its name, no "_" topic on CP.
InScope(i, t) ==
    /\ ClusterName(i) \in clusters
    /\ run.topics # {} => t \in run.topics
    /\ \A j \in DOMAIN run.clusters : ClusterName(j) = ClusterName(i) => i <= j
    /\ run.platform = "cp" => t[1] \notin Underscored

(* A selected subject that is not called unverified has been verified: each *)
(* topic in scope that existed when the run began and may hold its messages *)
(* was scanned to the end, in every cluster that has it - unless the name   *)
(* of the subject begins with that of a longer topic, too.                  *)
VerifiedMeansScanned ==
    pc = "done" =>
      \A i \in DOMAIN run.clusters : \A t \in run.clusters[i].topics : \A s \in subjects \ unverified :
        InScope(i, t) /\ IsFor(t, s) => Hidden(t, s) \/ <<t, ClusterName(i)>> \in ok

(* ResolveTopics looks for a subject's topic among all known topics, and    *)
(* SubjectsForFailedTopics among the scanned ones: they find the same topic *)
(* unless --topics leaves out topics.                                       *)
SameTopicFound ==
    pc = "done" /\ run.strategy = "topic-record-name" /\ run.topics = {} =>
      \A s \in subjects :
        LongestPrefixTopic(s.raw, NamesOf(scanned)) = LongestPrefixTopic(s.raw, NamesOf(known))

(* No version is withheld without need: when the topic of an unverified     *)
(* subject is known, the longest one that its name begins with, it is that  *)
(* topic that failed, except by record name or when --topics leaves it out. *)
UnverifiedForCause ==
    pc = "done" /\ run.strategy # "record-name" /\ run.topics = {} =>
      \A s \in unverified : \A t \in NamesOf(known) : IsFor(t, s) => Hidden(t, s) \/ t \in failed

(* "When specified, only subjects matching that exact context are           *)
(* processed" (README.md, --context with --all-subjects), whatever the      *)
(* platform lists for them.                                                 *)
ContextKept ==
    run.subject = << >> /\ run.context # << >> =>
      \A l \in listed : GetContextFromSubject(l[2]) = run.context[1]

(* "Subjects tied to a topic we couldn't scan have unverifiable usage;      *)
(* block them" (cmd/root.go): every subject whose versions are analysed,    *)
(* selected or not, and tied to any topic that its name admits.             *)
FailedTopicsBlock ==
    pc = "done" =>
      \A l \in listed : \A t \in failed : IsFor(t, l[2]) => l[2] \in unverified
=============================================================================

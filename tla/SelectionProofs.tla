-------------------------- MODULE SelectionProofs --------------------------
(***************************************************************************)
(* What a scan looks at is what it was to look at, for every registry,     *)
(* every set of clusters and topics, and all flags.                        *)
(***************************************************************************)
EXTENDS Selection, NamingProofs

CPRun == run.platform = "cp"

\* The topics of a cluster never become fewer.
Worlds ==
    /\ DOMAIN world = DOMAIN run.clusters
    /\ \A i \in DOMAIN world : run.clusters[i].topics \subseteq world[i] /\ world[i] \subseteq Names

\* What the steps before have left as it was.
Untouched ==
    /\ pc = "subjects" => clusters = {} /\ listed = {} /\ unverified = {}
    /\ pc \in {"subjects", "clusters"} => asked = {} /\ known = {}
    /\ pc \in {"subjects", "clusters", "topics"} => scanned = {}
    /\ pc \in {"subjects", "clusters", "topics", "schemas", "scan"} => ok = {}

\* The subjects are named like subjects, and the context is theirs.
Selected ==
    /\ subjects \subseteq SubjectNames
    /\ run.subject = << >> => \A s \in subjects : InContext(s)
    /\ pc \notin {"subjects", "error"} => FlagsOK

\* Of the clusters asked, every topic in scope is known.
Asked ==
    /\ clusters \subseteq ListClusters
    /\ NamesOf(known) \subseteq Names
    /\ \A i \in DOMAIN run.clusters : \A t \in run.clusters[i].topics :
         ClusterName(i) \in asked /\ InScope(i, t) => <<t, ClusterName(i)>> \in known

Resolved ==
    pc \in {"schemas", "scan", "done"} =>
      /\ asked = clusters
      /\ scanned = {p \in known : p[1] \in TopicsToScan}

\* A listing brings in what begins with the subject, on CP the subject alone.
Listed ==
    \A l \in listed : l[1].prefix = l[2].prefix /\ (CPRun => l[1] = l[2])

Judged ==
    pc = "done" =>
      /\ failed = NamesOf(scanned \ ok)
      /\ unverified = SubjectsForFailedTopics(failed, subjects, NamesOf(scanned), run.strategy)

IInv == TypeOK /\ Worlds /\ Untouched /\ Selected /\ Asked /\ Resolved /\ Listed /\ Judged

-----------------------------------------------------------------------------
(* The clusters.                                                           *)

LEMMA ClustersTyped ==
  ASSUME run \in Runs
  PROVE  /\ DOMAIN run.clusters \subseteq Nat
         /\ \A i \in DOMAIN run.clusters : run.clusters[i].topics \subseteq Names
<1>1. run.clusters \in Seq([name : STRING, topics : SUBSET Names])
  BY SelectionAssumption DEF SelectionAssumption, RunOK
<1> DEFINE S == [name : STRING, topics : SUBSET Names]
<1>2. \A c \in S : c.topics \subseteq Names
  OBVIOUS
<1> HIDE DEF S
<1>3. run.clusters \in Seq(S)
  BY <1>1 DEF S
<1>4. DOMAIN run.clusters \subseteq Nat /\ \A i \in DOMAIN run.clusters : run.clusters[i] \in S
  BY <1>3
<1> QED
  BY <1>2, <1>4

\* A name that is listed is answered for by its first cluster.
LEMMA FirstAnswers ==
  ASSUME run \in Runs, NEW c \in ListClusters
  PROVE  /\ ClusterOf(c) \in DOMAIN run.clusters
         /\ ClusterName(ClusterOf(c)) = c
         /\ \A j \in DOMAIN run.clusters : ClusterName(j) = c => ClusterOf(c) <= j
<1> DEFINE T == {i \in DOMAIN run.clusters : ClusterName(i) = c}
<1>1. T \in SUBSET Nat /\ T # {}
  BY ClustersTyped DEF ListClusters
<1>2. PICK x \in T : \A y \in T : x <= y
  BY <1>1, LeastNatural
<1>3. \E i \in DOMAIN run.clusters :
        /\ ClusterName(i) = c
        /\ \A j \in DOMAIN run.clusters : ClusterName(j) = c => i <= j
  BY <1>2
<1> QED
  BY <1>3 DEF ClusterOf

\* The first cluster of a name answers for it: what is in scope is listed.
LEMMA ScopeAnswers ==
  ASSUME run \in Runs, NEW i \in DOMAIN run.clusters, NEW t, InScope(i, t)
  PROVE  ClusterOf(ClusterName(i)) = i
<1>1. ClusterName(i) \in ListClusters
  BY DEF ListClusters
<1>2. /\ ClusterOf(ClusterName(i)) \in DOMAIN run.clusters
      /\ ClusterName(ClusterOf(ClusterName(i))) = ClusterName(i)
      /\ ClusterOf(ClusterName(i)) <= i
  BY <1>1, FirstAnswers
<1>3. i <= ClusterOf(ClusterName(i))
  BY <1>2 DEF InScope
<1> QED
  BY <1>2, <1>3, ClustersTyped

-----------------------------------------------------------------------------
(* The invariant holds initially, and every step keeps it.                 *)

LEMMA InitIInv == Init => IInv
<1> SUFFICES ASSUME Init PROVE IInv
  OBVIOUS
<1>1. TypeOK
  BY DEF Init, TypeOK, NamesOf
<1>2. Worlds
  BY ClustersTyped DEF Init, Worlds
<1>3. Untouched /\ Selected /\ Asked /\ Resolved /\ Listed /\ Judged
  BY DEF Init, Untouched, Selected, Asked, NamesOf, Resolved, Listed, Judged
<1> QED
  BY <1>1, <1>2, <1>3 DEF IInv

LEMMA SameTopicsToScan ==
  ASSUME UNCHANGED <<run, subjects, known>>
  PROVE  TopicsToScan' = TopicsToScan
<1>1. NamesOf(known)' = NamesOf(known)
  BY DEF NamesOf
<1>2. MatchedTopics' = MatchedTopics
  BY <1>1 DEF MatchedTopics
<1> QED
  BY <1>1, <1>2 DEF TopicsToScan

LEMMA CreateTopicIInv ==
  ASSUME IInv, CreateTopic
  PROVE  IInv'
<1>1. UNCHANGED <<pc, run, subjects, clusters, asked, known, scanned, listed, ok, failed, unverified>>
      /\ pc # "done"
  BY DEF CreateTopic
<1>2. PICK n \in Creations :
        /\ n[1] \in DOMAIN world
        /\ world' = [world EXCEPT ![n[1]] = @ \cup {n[2]}]
  BY DEF CreateTopic
<1>3. n[2] \in Names
  BY SelectionAssumption DEF SelectionAssumption
<1>4. /\ DOMAIN world' = DOMAIN world
      /\ \A i \in DOMAIN world : world[i] \subseteq world'[i]
  BY <1>2 DEF IInv, Worlds
<1>5. Worlds'
  BY <1>1, <1>2, <1>3 DEF IInv, Worlds
<1>6. TypeOK'
  BY <1>1, <1>4 DEF IInv, TypeOK, NamesOf
<1>7. Untouched' /\ Selected' /\ Resolved' /\ Listed' /\ Judged'
  BY <1>1, SameTopicsToScan DEF IInv, Untouched, Selected, InContext, FlagsOK, Resolved, Listed,
         CPRun, Judged
<1>8. Asked'
  BY <1>1 DEF IInv, Asked, NamesOf, InScope, ClusterName, ListClusters
<1> QED
  BY <1>5, <1>6, <1>7, <1>8 DEF IInv

LEMMA FailIInv ==
  ASSUME IInv, Fail
  PROVE  IInv'
<1>1. UNCHANGED <<run, world, subjects, clusters, asked, known, scanned, listed, ok, failed, unverified>>
      /\ pc' = "error" /\ pc # "done"
  BY DEF Fail
<1>2. TypeOK' /\ Worlds'
  BY <1>1 DEF IInv, TypeOK, NamesOf, Worlds
<1>3. Untouched' /\ Selected' /\ Resolved' /\ Listed' /\ Judged'
  BY <1>1 DEF IInv, Untouched, Selected, InContext, Resolved, Listed, CPRun, Judged
<1>4. Asked'
  BY <1>1 DEF IInv, Asked, NamesOf, InScope, ClusterName, ListClusters
<1> QED
  BY <1>2, <1>3, <1>4 DEF IInv

LEMMA ListSubjectsIInv ==
  ASSUME IInv, ListSubjects
  PROVE  IInv'
<1>1. /\ UNCHANGED <<run, world, clusters, asked, known, scanned, listed, ok, failed, unverified>>
      /\ pc = "subjects" /\ FlagsOK /\ pc' \in {"nothing", "clusters"}
      /\ subjects' = IF run.subject = << >> THEN {s \in SubjectsFor(run.strategy) : InContext(s)}
                     ELSE {run.subject[1]}
  BY DEF ListSubjects
<1>2. asked = {} /\ known = {} /\ scanned = {} /\ ok = {} /\ listed = {} /\ unverified = {} /\ clusters = {}
  BY <1>1 DEF IInv, Untouched
<1>3. RunOK(run)
  BY SelectionAssumption DEF IInv, TypeOK, SelectionAssumption
<1>4. TypeOK' /\ Worlds'
  BY <1>1, <1>2 DEF IInv, TypeOK, NamesOf, Worlds
<1>5. Untouched' /\ Resolved' /\ Listed' /\ Judged'
  BY <1>1, <1>2 DEF Untouched, Resolved, Listed, Judged
<1>6. Selected'
  <2>1. subjects' \subseteq SubjectNames
    BY <1>1, <1>3 DEF RunOK, SubjectsFor
  <2>2. run.subject = << >> => \A s \in subjects' : InContext(s)
    BY <1>1
  <2> QED
    BY <1>1, <2>1, <2>2 DEF Selected, InContext, FlagsOK
<1>7. Asked'
  BY <1>1, <1>2 DEF Asked, NamesOf
<1> QED
  BY <1>4, <1>5, <1>6, <1>7 DEF IInv

LEMMA SetupContextIInv ==
  ASSUME IInv, SetupContext
  PROVE  IInv'
<1>1. /\ UNCHANGED <<run, world, subjects, asked, known, scanned, listed, ok, failed, unverified>>
      /\ pc = "clusters" /\ pc' = "topics"
  BY DEF SetupContext
<1>2. clusters' \subseteq ListClusters
  BY DEF SetupContext, SetupCP, SetupCloud
<1>3. asked = {} /\ known = {} /\ scanned = {} /\ ok = {}
  BY <1>1 DEF IInv, Untouched
<1>4. TypeOK' /\ Worlds'
  BY <1>1, <1>3 DEF IInv, TypeOK, NamesOf, Worlds
<1>5. Untouched' /\ Selected' /\ Resolved' /\ Listed' /\ Judged'
  BY <1>1, <1>3 DEF IInv, Untouched, Selected, InContext, FlagsOK, Resolved, Listed, CPRun, Judged
<1>6. Asked'
  BY <1>1, <1>2, <1>3 DEF Asked, NamesOf, ListClusters, ClusterName
<1> QED
  BY <1>4, <1>5, <1>6 DEF IInv

\* The cluster that answers knows every topic that it had at the start.
LEMMA ListTopicsIInv ==
  ASSUME IInv, ListTopics
  PROVE  IInv'
<1>1. /\ UNCHANGED <<pc, run, world, subjects, clusters, scanned, listed, ok, failed, unverified>>
      /\ pc = "topics"
  BY DEF ListTopics
<1>2. PICK c \in clusters \ asked :
        /\ asked' = asked \cup {c}
        /\ known' = known \cup {<<t, c>> : t \in TopicsOf(c)}
  BY DEF ListTopics
<1>3. run \in Runs /\ c \in ListClusters
  BY <1>2 DEF IInv, TypeOK, Asked
<1>4. ClusterOf(c) \in DOMAIN world /\ TopicsOf(c) \subseteq world[ClusterOf(c)] /\ TopicsOf(c) \subseteq Names
  <2>1. ClusterOf(c) \in DOMAIN world
    BY <1>3, FirstAnswers DEF IInv, Worlds
  <2> QED
    BY <2>1 DEF IInv, Worlds, TopicsOf, CPTopics, CloudTopics
<1>5. scanned = {} /\ ok = {}
  BY <1>1 DEF IInv, Untouched
<1>6. TypeOK'
  <2>1. known' \subseteq {<<t, d>> : t \in UNION {world[i] : i \in DOMAIN world}, d \in asked'}
    BY <1>2, <1>4 DEF IInv, TypeOK
  <2> QED
    BY <1>1, <1>2, <1>5, <2>1 DEF IInv, TypeOK, NamesOf
<1>7. Worlds' /\ Untouched' /\ Selected' /\ Resolved' /\ Listed' /\ Judged'
  BY <1>1, <1>5 DEF IInv, Worlds, Untouched, Selected, InContext, FlagsOK, Resolved, Listed, CPRun, Judged
<1>8. Asked'
  <2>1. NamesOf(known') \subseteq Names
    BY <1>2, <1>4 DEF IInv, Asked, NamesOf
  <2>2. ASSUME NEW i \in DOMAIN run.clusters, NEW t \in run.clusters[i].topics,
               ClusterName(i) \in asked', InScope(i, t)
        PROVE  <<t, ClusterName(i)>> \in known'
    <3>1. CASE ClusterName(i) \in asked
      BY <1>2, <2>2, <3>1 DEF IInv, Asked
    <3>2. CASE ClusterName(i) = c
      <4>1. ClusterOf(c) = i
        BY <1>3, <2>2, <3>2, ScopeAnswers
      <4>2. t \in world[i]
        BY DEF IInv, Worlds
      <4>3. t \in TopicsOf(c)
        BY <2>2, <4>1, <4>2 DEF TopicsOf, CPTopics, CloudTopics, InScope
      <4> QED
        BY <1>2, <3>2, <4>3
    <3> QED
      BY <1>2, <2>2, <3>1, <3>2
  <2> QED
    BY <1>1, <2>1, <2>2 DEF IInv, Asked, NamesOf, InScope, ClusterName, ListClusters
<1> QED
  BY <1>6, <1>7, <1>8 DEF IInv

LEMMA ResolveTopicsIInv ==
  ASSUME IInv, ResolveTopics
  PROVE  IInv'
<1>1. /\ UNCHANGED <<run, world, subjects, clusters, asked, known, listed, ok, failed, unverified>>
      /\ pc = "topics" /\ pc' = "schemas" /\ asked = clusters
      /\ scanned' = {p \in known : p[1] \in TopicsToScan}
  BY DEF ResolveTopics
<1>2. ok = {}
  BY <1>1 DEF IInv, Untouched
<1>3. TypeOK' /\ Worlds'
  BY <1>1, <1>2 DEF IInv, TypeOK, NamesOf, Worlds
<1>4. Untouched' /\ Selected' /\ Listed' /\ Judged'
  BY <1>1, <1>2 DEF IInv, Untouched, Selected, InContext, FlagsOK, Listed, CPRun, Judged
<1>5. Asked'
  BY <1>1 DEF IInv, Asked, NamesOf, InScope, ClusterName, ListClusters
<1>6. Resolved'
  BY <1>1, SameTopicsToScan DEF Resolved
<1> QED
  BY <1>3, <1>4, <1>5, <1>6 DEF IInv

LEMMA ListSchemasIInv ==
  ASSUME IInv, ListSchemas
  PROVE  IInv'
<1>1. /\ UNCHANGED <<run, world, subjects, clusters, asked, known, scanned, ok, failed, unverified>>
      /\ pc = "schemas" /\ pc' \in {"nothing", "scan"}
  BY DEF ListSchemas
<1>2. ASSUME NEW l \in listed'
      PROVE  /\ l \in subjects \X run.registry
             /\ l[1].prefix = l[2].prefix /\ (CPRun => l[1] = l[2])
  <2>1. PICK p \in subjects :
          l \in {<<p, s>> : s \in IF run.platform = "cloud" THEN SchemasUnder(p) ELSE SchemasOf(p)}
    BY <1>2 DEF ListSchemas
  <2>2. PICK s \in IF run.platform = "cloud" THEN SchemasUnder(p) ELSE SchemasOf(p) : l = <<p, s>>
    BY <2>1
  <2>3. s \in run.registry /\ p.prefix = s.prefix /\ (CPRun => p = s)
    BY <2>2 DEF SchemasUnder, SchemasOf, NameBegins, CPRun
  <2> QED
    BY <2>2, <2>3
<1>3. listed' \subseteq subjects \X run.registry
  BY <1>2
<1>4. ok = {}
  BY <1>1 DEF IInv, Untouched
<1>5. TypeOK' /\ Worlds'
  BY <1>1, <1>3, <1>4 DEF IInv, TypeOK, NamesOf, Worlds
<1>6. Untouched' /\ Selected' /\ Judged'
  BY <1>1, <1>4 DEF IInv, Untouched, Selected, InContext, FlagsOK, Judged
<1>7. Asked'
  BY <1>1 DEF IInv, Asked, NamesOf, InScope, ClusterName, ListClusters
<1>8. Resolved'
  BY <1>1, SameTopicsToScan DEF IInv, Resolved
<1>9. Listed'
  BY <1>1, <1>2 DEF Listed, CPRun
<1> QED
  BY <1>5, <1>6, <1>7, <1>8, <1>9 DEF IInv

LEMMA ScanTopicsIInv ==
  ASSUME IInv, ScanTopics
  PROVE  IInv'
<1>1. /\ UNCHANGED <<run, world, subjects, clusters, asked, known, scanned, listed>>
      /\ pc = "scan" /\ pc' = "done"
      /\ unverified' = SubjectsForFailedTopics(failed', subjects, NamesOf(scanned), run.strategy)
  BY DEF ScanTopics
<1>2. ok' \subseteq scanned /\ failed' = NamesOf(scanned \ ok')
  BY DEF ScanTopics
<1>3. unverified' \subseteq subjects
  BY <1>1 DEF SubjectsForFailedTopics
<1>4. TypeOK' /\ Worlds'
  BY <1>1, <1>2, <1>3 DEF IInv, TypeOK, NamesOf, Worlds
<1>5. Untouched' /\ Selected' /\ Listed'
  BY <1>1 DEF IInv, Untouched, Selected, InContext, FlagsOK, Listed, CPRun
<1>6. Judged'
  BY <1>1, <1>2 DEF Judged, NamesOf
<1>7. Asked'
  BY <1>1 DEF IInv, Asked, NamesOf, InScope, ClusterName, ListClusters
<1>8. Resolved'
  BY <1>1, SameTopicsToScan DEF IInv, Resolved
<1> QED
  BY <1>4, <1>5, <1>6, <1>7, <1>8 DEF IInv

LEMMA StutterIInv ==
  ASSUME IInv, UNCHANGED vars
  PROVE  IInv'
<1>1. UNCHANGED <<pc, run, world, subjects, clusters, asked, known, scanned, listed, ok, failed, unverified>>
  BY DEF vars
<1>2. TypeOK' /\ Worlds' /\ Untouched'
  BY <1>1 DEF IInv, TypeOK, NamesOf, Worlds, Untouched
<1>3. Selected' /\ Listed' /\ Judged'
  BY <1>1 DEF IInv, Selected, InContext, FlagsOK, Listed, CPRun, Judged, NamesOf
<1>4. Asked'
  BY <1>1 DEF IInv, Asked, NamesOf, InScope, ClusterName, ListClusters
<1>5. Resolved'
  BY <1>1, SameTopicsToScan DEF IInv, Resolved
<1> QED
  BY <1>2, <1>3, <1>4, <1>5 DEF IInv

LEMMA Invariance == Spec => []IInv
<1>1. IInv /\ [Next]_vars => IInv'
  BY ListSubjectsIInv, SetupContextIInv, ListTopicsIInv, ResolveTopicsIInv, ListSchemasIInv,
     ScanTopicsIInv, FailIInv, CreateTopicIInv, StutterIInv DEF Next
<1> QED
  BY <1>1, InitIInv, PTL DEF Spec

(* The variables of a scan stay in their types: what is scanned was listed, *)
(* what is listed was asked for, and only selected subjects are judged.     *)
THEOREM TypeCorrect == Spec => []TypeOK
BY Invariance, PTL DEF IInv

-----------------------------------------------------------------------------
(* What the invariant says of a scan that is done.                         *)

LEMMA Facts ==
  ASSUME IInv, pc \in {"schemas", "scan", "done"}
  PROVE  /\ RunOK(run) /\ run.strategy \in Strategies
         /\ NamesOf(known) \in SUBSET Names /\ NamesOf(scanned) \in SUBSET NamesOf(known)
         /\ \A s \in subjects : s.raw \in Seq(STRING)
<1>1. RunOK(run)
  BY SelectionAssumption DEF IInv, TypeOK, SelectionAssumption
<1>2. NamesOf(known) \in SUBSET Names /\ NamesOf(scanned) \in SUBSET NamesOf(known)
  BY DEF IInv, Asked, TypeOK, NamesOf
<1>3. \A s \in subjects : s.raw \in Seq(STRING)
  BY DEF IInv, Selected, SubjectNames, Names
<1> QED
  BY <1>1, <1>2, <1>3 DEF RunOK

\* Both resolutions of a subject's topic agree.
LEMMA SameTopic ==
  ASSUME IInv, pc \in {"schemas", "scan", "done"},
         run.strategy = "topic-record-name", run.topics = {}, NEW s \in subjects
  PROVE  LongestPrefixTopic(s.raw, NamesOf(scanned)) = LongestPrefixTopic(s.raw, NamesOf(known))
<1>1. scanned = {p \in known : p[1] \in TopicsToScan}
  BY DEF IInv, Resolved
<1>2. LongestPrefixTopic(s.raw, NamesOf(known)) \subseteq TopicsToScan
  <2>1. LongestPrefixTopic(s.raw, NamesOf(known)) \subseteq MatchedTopics
    BY DEF MatchedTopics, GetRawSubject
  <2>2. LongestPrefixTopic(s.raw, NamesOf(known)) \subseteq NamesOf(known)
    BY DEF LongestPrefixTopic
  <2> QED
    BY <2>1, <2>2 DEF TopicsToScan
<1>3. LongestPrefixTopic(s.raw, NamesOf(known)) \subseteq NamesOf(scanned)
  BY <1>1, <1>2 DEF LongestPrefixTopic, NamesOf
<1> QED
  BY <1>3, Facts, LongestKept

\* What no known topic shadows, no scanned one shadows either.
LEMMA ShadowedByKnown ==
  ASSUME IInv, NEW t, NEW s, Shadowed(t, s, NamesOf(scanned), run.strategy)
  PROVE  Hidden(t, s)
<1>1. NamesOf(scanned) \subseteq NamesOf(known)
  BY DEF IInv, TypeOK, NamesOf
<1> QED
  BY <1>1 DEF Hidden, Shadowed

\* The topic of a subject is among those to scan, unless it is not known or
\* hidden.
LEMMA TopicResolved ==
  ASSUME IInv, pc \in {"schemas", "scan", "done"}, NEW s \in subjects, NEW t \in NamesOf(known),
         IsFor(t, s), ~Hidden(t, s), run.topics # {} => t \in run.topics
  PROVE  t \in TopicsToScan
<1>1. CASE run.topics # {}
  BY <1>1 DEF TopicsToScan
<1>2. CASE run.topics = {} /\ run.allTopics
  BY <1>2 DEF TopicsToScan
<1>3. CASE run.topics = {} /\ ~run.allTopics
  <2>1. run.strategy # "record-name"
    BY <1>3 DEF IInv, Selected, FlagsOK
  <2>2. CASE run.strategy = "topic-record-name"
    <3>1. t \in LongestPrefixTopic(s.raw, NamesOf(known))
      BY <2>2, Facts, OwnTopicFound DEF IsFor, Hidden
    <3> QED
      BY <1>3, <2>2, <3>1 DEF TopicsToScan, MatchedTopics, GetRawSubject
  <2>3. CASE run.strategy = "topic-name"
    <3>1. TopicFromSubject(s) = t
      BY <2>3, Facts, OwnTopicLeft DEF IsFor
    <3> QED
      BY <1>3, <2>3, <3>1 DEF TopicsToScan
  <2> QED
    BY <2>1, <2>2, <2>3, Facts DEF Strategies
<1> QED
  BY <1>1, <1>2, <1>3

\* Each topic in scope that may hold messages of a selected subject, unless
\* a longer topic hides it.
Covered ==
    pc \in {"schemas", "scan", "done"} =>
      \A i \in DOMAIN run.clusters : \A t \in run.clusters[i].topics : \A s \in subjects :
        InScope(i, t) /\ IsFor(t, s) => Hidden(t, s) \/ <<t, ClusterName(i)>> \in scanned

LEMMA IInvCovered == IInv => Covered
<1> SUFFICES ASSUME IInv, pc \in {"schemas", "scan", "done"}, NEW i \in DOMAIN run.clusters,
                    NEW t \in run.clusters[i].topics, NEW s \in subjects, InScope(i, t), IsFor(t, s),
                    ~Hidden(t, s)
             PROVE  <<t, ClusterName(i)>> \in scanned
  BY DEF Covered
<1>1. <<t, ClusterName(i)>> \in known
  BY DEF IInv, Asked, Resolved, InScope
<1>2. t \in NamesOf(known)
  BY <1>1 DEF NamesOf
<1>3. t \in TopicsToScan
  BY <1>2, TopicResolved DEF InScope
<1> QED
  BY <1>1, <1>3 DEF IInv, Resolved

(* From the moment the topics are resolved, every topic in scope that may   *)
(* hold messages of a selected subject is to be scanned, or a longer topic  *)
(* hides it: what CleanupProofs asks of the topics, by the same name.       *)
THEOREM TopicsCovered == Spec => []Covered
BY Invariance, IInvCovered, PTL

-----------------------------------------------------------------------------
(* The subjects that are not called unverified have been verified, whatever *)
(* the names of topics have in common and wherever the topics are: only the *)
(* topics that longer ones hide are taken out.                              *)
THEOREM Verified == Spec => []VerifiedMeansScanned
<1>1. ASSUME IInv PROVE VerifiedMeansScanned
  <2> SUFFICES ASSUME pc = "done", NEW i \in DOMAIN run.clusters, NEW t \in run.clusters[i].topics,
                      NEW s \in subjects \ unverified, InScope(i, t), IsFor(t, s), ~Hidden(t, s)
               PROVE  <<t, ClusterName(i)>> \in ok
    BY DEF VerifiedMeansScanned
  <2>1. <<t, ClusterName(i)>> \in scanned
    BY <1>1, IInvCovered DEF Covered
  <2>2. SUFFICES ASSUME <<t, ClusterName(i)>> \notin ok PROVE FALSE
    OBVIOUS
  <2>3. t \in NamesOf(scanned) \cap failed
    BY <1>1, <2>1, <2>2 DEF IInv, Judged, NamesOf
  <2>4. s \in SubjectsForFailedTopics(failed, subjects, NamesOf(scanned), run.strategy)
    <3>1. NamesOf(scanned) \in SUBSET Names /\ run.strategy \in Strategies
      BY <1>1, Facts
    <3>2. ~Shadowed(t, s, NamesOf(scanned), run.strategy)
      BY <1>1, ShadowedByKnown
    <3> QED
      BY <2>3, <3>1, <3>2, FailedTopicCovers DEF IsFor
  <2> QED
    BY <1>1, <2>4 DEF IInv, Judged
<1> QED
  BY <1>1, Invariance, PTL

(* ResolveTopics, which knows all topics, and SubjectsForFailedTopics,      *)
(* which knows the scanned ones, take the same topic for a subject's own.   *)
THEOREM SameFound == Spec => []SameTopicFound
<1>1. ASSUME IInv PROVE SameTopicFound
  BY <1>1, SameTopic DEF SameTopicFound
<1> QED
  BY <1>1, Invariance, PTL

(* A subject whose topic is known is unverified only when that topic has    *)
(* failed, not when one that its name also begins with has.                 *)
THEOREM ForCause == Spec => []UnverifiedForCause
<1>1. ASSUME IInv PROVE UnverifiedForCause
  <2> SUFFICES ASSUME pc = "done", run.strategy # "record-name", run.topics = {},
                      NEW s \in unverified, NEW t \in NamesOf(known), IsFor(t, s), ~Hidden(t, s)
               PROVE  t \in failed
    BY DEF UnverifiedForCause
  <2>1. s \in SubjectsForFailedTopics(failed, subjects, NamesOf(scanned), run.strategy)
    BY <1>1 DEF IInv, Judged
  <2>2. s \in subjects
    BY <1>1 DEF IInv, TypeOK
  <2>3. CASE run.strategy = "topic-record-name"
    <3>1. PICK u \in LongestPrefixTopic(s.raw, NamesOf(scanned)) : u \in failed
      BY <2>1, <2>3 DEF SubjectsForFailedTopics, GetRawSubject
    <3>2. u \in LongestPrefixTopic(s.raw, NamesOf(known))
      BY <1>1, <2>2, <2>3, <3>1, SameTopic
    <3>3. t \in LongestPrefixTopic(s.raw, NamesOf(known))
      BY <1>1, <2>3, Facts, OwnTopicFound DEF IsFor, Hidden
    <3>4. t = u
      BY <1>1, <3>2, <3>3, Facts, LongestUnique
    <3> QED
      BY <3>1, <3>4
  <2>4. CASE run.strategy = "topic-name"
    <3>1. TopicFromSubject(s) = t
      BY <1>1, <2>4, Facts, OwnTopicLeft DEF IsFor
    <3> QED
      BY <2>1, <2>4, <3>1 DEF SubjectsForFailedTopics
  <2> QED
    BY <1>1, <2>3, <2>4, Facts DEF Strategies
<1> QED
  BY <1>1, Invariance, PTL

(* With --context nothing of another context is listed, though Cloud lists  *)
(* by prefix.                                                               *)
THEOREM InOneContext == Spec => []ContextKept
<1>1. ASSUME IInv PROVE ContextKept
  <2> SUFFICES ASSUME run.subject = << >>, run.context # << >>, NEW l \in listed
               PROVE  GetContextFromSubject(l[2]) = run.context[1]
    BY DEF ContextKept
  <2>1. l[1] \in subjects /\ l[1].prefix = l[2].prefix
    BY <1>1 DEF IInv, TypeOK, Listed
  <2>2. GetContextFromSubject(l[1]) = run.context[1]
    BY <1>1, <2>1 DEF IInv, Selected, InContext
  <2> QED
    BY <2>1, <2>2 DEF GetContextFromSubject
<1> QED
  BY <1>1, Invariance, PTL

\* FailedTopicsBlock, but for the topics that longer scanned ones hide.
UnhiddenTopicsBlock ==
    pc = "done" =>
      \A l \in listed : \A t \in failed :
        IsFor(t, l[2]) => Hidden(t, l[2]) \/ l[2] \in unverified

LEMMA IInvUnhidden ==
  ASSUME IInv, CPRun
  PROVE  UnhiddenTopicsBlock
<1> SUFFICES ASSUME pc = "done", NEW l \in listed, NEW t \in failed, IsFor(t, l[2]), ~Hidden(t, l[2])
             PROVE  l[2] \in unverified
  BY DEF UnhiddenTopicsBlock
<1>1. l[2] \in subjects
  BY DEF IInv, TypeOK, Listed
<1>2. t \in NamesOf(scanned) \cap failed
  BY DEF IInv, Judged, NamesOf
<1>3. NamesOf(scanned) \in SUBSET Names /\ run.strategy \in Strategies
  BY Facts
<1>4. ~Shadowed(t, l[2], NamesOf(scanned), run.strategy)
  BY ShadowedByKnown
<1>5. l[2] \in SubjectsForFailedTopics(failed, subjects, NamesOf(scanned), run.strategy)
  BY <1>1, <1>2, <1>3, <1>4, FailedTopicCovers DEF IsFor
<1> QED
  BY <1>5 DEF IInv, Judged

(* On Confluent Platform, where a listing brings in the subject alone, every *)
(* subject whose versions are analysed is unverified when its topic fails,   *)
(* unless a longer topic hides that one.                                     *)
THEOREM UnhiddenBlockedOnCP ==
  ASSUME \A r \in Runs : r.platform = "cp"
  PROVE  Spec => []UnhiddenTopicsBlock
<1>1. ASSUME IInv PROVE UnhiddenTopicsBlock
  BY <1>1, IInvUnhidden DEF IInv, TypeOK, CPRun
<1> QED
  BY <1>1, Invariance, PTL

(* Nothing is hidden when subjects are not named by topic and record: there, *)
(* on Confluent Platform, the code keeps what its comment says.              *)
THEOREM BlockedOnCP ==
  ASSUME \A r \in Runs : r.platform = "cp" /\ r.strategy # "topic-record-name"
  PROVE  Spec => []FailedTopicsBlock
<1>1. ASSUME IInv PROVE FailedTopicsBlock
  <2>1. CPRun /\ run.strategy # "topic-record-name"
    BY <1>1 DEF IInv, TypeOK, CPRun
  <2>2. UnhiddenTopicsBlock
    BY <1>1, <2>1, IInvUnhidden
  <2> QED
    BY <2>1, <2>2 DEF UnhiddenTopicsBlock, FailedTopicsBlock, Hidden, Shadowed
<1> QED
  BY <1>1, Invariance, PTL
=============================================================================

------------------------------ MODULE Cleanup ------------------------------
(***************************************************************************)
(* Scan and delete as one behaviour (runScan and runDelete, cmd/root.go;   *)
(* WriteManifest, pkg/manifest.go): the topics are scanned, the report is  *)
(* analysed as in Safety, the manifest is written and deleted from as in   *)
(* Deletion, again and again, while producers go on writing.  A message is *)
(* [topic, uses, raw]: what its producer meant, and its bytes.  The log    *)
(* keeps [topic, uses, seen, status], seen being what a scan takes from    *)
(* the bytes, and status "open" as long as an undecided transaction hides  *)
(* the message.                                                            *)
(***************************************************************************)
EXTENDS Naming, WireFormat, FiniteSets

CONSTANTS
    Topics,      \* the topics that are scanned
    Strategy,    \* --strategy
    Platform,    \* --platform
    Subjects,    \* the registered subjects
    Selected,    \* the selected subjects
    Versions,    \* version numbers
    Registered,  \* the registry: versions by their key
    Messages,    \* what producers may write
    Qualified,   \* see Safety
    MaxLog,      \* bound: how many messages there are at most
    MaxScans,    \* bound: how many scans begin
    MaxCrashes   \* bound: how often a deletion is killed

Keys == Subjects \X Versions
KindOf == [s \in Subjects |->
             IF IsKeySchema(s.raw) THEN "key" ELSE IF IsValueSchema(s.raw) THEN "value" ELSE "other"]

ASSUME CleanupAssumption ==
    /\ Strategy \in Strategies /\ Dotted \subseteq STRING
    /\ Topics \subseteq Names
    /\ Platform \in {"cp", "cloud"}
    /\ Subjects \subseteq SubjectNames
    /\ IsFiniteSet(Subjects)
    /\ Selected \subseteq Subjects
    /\ Versions \subseteq Nat /\ IsFiniteSet(Versions)
    /\ DOMAIN Registered \subseteq Keys
    /\ \A k \in DOMAIN Registered : Registered[k].imports \subseteq Keys
    /\ MaxLog \in Nat /\ MaxScans \in Nat /\ MaxCrashes \in Nat

VARIABLES
    stage,     \* what the operator is at
    scans,     \* how many scans have begun
    log,       \* the messages of all topics
    atStart,   \* history: the messages readable when the scan began
    topicsLeft, activeSchemas, failedTopics,           \* the scan
    apc, sc, registry, listed, cand, todo, late,       \* Safety
    dpc, manifest, state, mode, force, allow,          \* Deletion
    deletable, i, consent, result, crashes,
    kept       \* history: what was in use when the manifest's scan began

scanVars == <<atStart, topicsLeft, activeSchemas, failedTopics>>
safetyVars == <<apc, sc, registry, listed, cand, todo, late>>
fileVars == <<manifest, kept>>
deleteVars == <<dpc, state, mode, force, allow, deletable, i, consent, result, crashes>>
vars == <<stage, scans, log, scanVars, safetyVars, fileVars, deleteVars>>

Analysis == INSTANCE Safety WITH
    pc <- apc, Ids <- Int, Scenarios <- {}, Registrations <- {}, CallsMayFail <- TRUE

Manifests == [unverified : BOOLEAN, candidates : Seq([key : Keys, status : Analysis!Statuses])]
Imports == UNION {{<<m, k>> : k \in Registered[m].imports} : m \in DOMAIN Registered}
Deleting == INSTANCE Deletion WITH pc <- dpc

\* What a producer writes, as a scan sees it.
Logged(m, status) ==
    [topic |-> m.topic, uses |-> m.uses, seen |-> UsesOfMessage(m.raw), status |-> status]
Written == {Logged(m, "open") : m \in Messages} \cup {Logged(m, "committed") : m \in Messages}

\* A scan, or a deletion, ends: the memory of its process is gone.
EndScan ==
    /\ atStart' = {} /\ topicsLeft' = {} /\ activeSchemas' = {} /\ failedTopics' = {}
    /\ apc' = "done" /\ sc' = << >> /\ registry' = << >> /\ listed' = {} /\ cand' = << >>
    /\ todo' = {} /\ late' = {}
EndDeletion ==
    /\ dpc' = "idle" /\ mode' = "soft" /\ force' = FALSE /\ allow' = FALSE
    /\ deletable' = << >> /\ i' = 1 /\ consent' = {} /\ result' = "none"

Init ==
    /\ stage = "deleting" /\ scans = 0 /\ crashes = 0
    /\ log \in {{}} \cup {{m} : m \in Written}
    /\ manifest = [unverified |-> FALSE, candidates |-> << >>] /\ kept = {}
    /\ state = [k \in Keys |-> "live"]
    /\ atStart = {} /\ topicsLeft = {} /\ activeSchemas = {} /\ failedTopics = {}
    /\ apc = "done" /\ sc = << >> /\ registry = << >> /\ listed = {} /\ cand = << >>
    /\ todo = {} /\ late = {}
    /\ dpc = "idle" /\ mode = "soft" /\ force = FALSE /\ allow = FALSE
    /\ deletable = << >> /\ i = 1 /\ consent = {} /\ result = "none"

-----------------------------------------------------------------------------
\* By its role, the suffix of a subject, a use of its ID keeps version k.
RolesOf(k) == IF KindOf[k[1]] = "other" THEN {"key", "value"} ELSE {KindOf[k[1]]}

\* The registered versions that a message uses, by its topic and ID.
InUse(messages) ==
    {k \in DOMAIN Registered :
       \E m \in messages : /\ Holds(m.topic, k[1], Strategy)
                           /\ \E r \in RolesOf(k) : <<Registered[k].id, r>> \in m.uses}

\* What read_committed lets a consumer read.
Readable == {m \in log : m.status = "committed"}

\* Nobody looks at what happens to the log after the last scan.
Watched == stage = "scanning" \/ scans < MaxScans

Produce ==
    /\ Watched
    /\ Cardinality(log) < MaxLog
    /\ \E m \in Written : log' = log \cup {m}
    /\ UNCHANGED <<stage, scans, scanVars, safetyVars, fileVars, deleteVars>>

\* A transaction is decided: the message can be read, or never will be.
EndTransaction ==
    /\ Watched
    /\ \E m \in log \ Readable :
         log' \in {log \ {m}, (log \ {m}) \cup {[m EXCEPT !.status = "committed"]}}
    /\ UNCHANGED <<stage, scans, scanVars, safetyVars, fileVars, deleteVars>>

StartScan ==
    /\ stage = "deleting" /\ dpc = "idle"
    /\ scans < MaxScans
    /\ scans' = scans + 1
    /\ stage' = "scanning"
    /\ atStart' = Readable
    /\ topicsLeft' = Topics
    /\ activeSchemas' = {}
    /\ failedTopics' = {}
    /\ EndDeletion
    /\ UNCHANGED <<log, safetyVars, fileVars, state, crashes>>

\* What a scan reads of its topic: all that could be read when the topics
\* began to be scanned, and any of what can be by now (TopicScan).
ScanTopic(t) ==
    /\ stage = "scanning" /\ t \in topicsLeft
    /\ topicsLeft' = topicsLeft \ {t}
    /\ \/ /\ \E read \in SUBSET {m \in Readable : m.topic = t} :
              /\ \A m \in atStart : m.topic = t => m \in read
              /\ activeSchemas' = activeSchemas \cup UNION {m.seen : m \in read}
          /\ UNCHANGED failedTopics
       \/ /\ failedTopics' = failedTopics \cup {t}
          /\ UNCHANGED activeSchemas
    /\ UNCHANGED <<stage, scans, log, atStart, safetyVars, fileVars, deleteVars>>

\* What a listing returns: soft-deleted versions are hidden.
LiveVersions ==
    [k \in {x \in DOMAIN Registered : state[x] = "live"} |-> Registered[k]]

\* CP lists a subject, Cloud a prefix.
ListedFor(p) == {s \in Subjects : IF Platform = "cloud" THEN NameBegins(s, p) ELSE s = p}

\* Candidates come from the listings, unverified subjects from the selection.
Scenario ==
    [registry |-> LiveVersions,
     copies |-> [k \in DOMAIN LiveVersions |-> Cardinality({p \in Selected : k[1] \in ListedFor(p)})],
     active |-> activeSchemas,
     ownRules |-> {}, globalRules |-> {}, transitive |-> {},
     unverified |-> SubjectsForFailedTopics(failedTopics, Selected, Topics, Strategy)]

StartAnalysis ==
    /\ stage = "scanning" /\ topicsLeft = {}
    /\ stage' = "analysing"
    /\ apc' = "unused"
    /\ sc' = Scenario
    /\ registry' = LiveVersions
    /\ listed' = Analysis!Listing(Scenario.copies)
    /\ cand' = << >> /\ todo' = {} /\ late' = {}
    /\ UNCHANGED <<scans, log, scanVars, fileVars, deleteVars>>

Analyse ==
    /\ stage = "analysing"
    /\ Analysis!Next
    /\ UNCHANGED <<stage, scans, log, scanVars, fileVars, deleteVars>>

\* Candidates are written in the order of the listing, whatever it is.
Orderings(S) ==
    {q \in [1 .. Cardinality(S) -> S] : \A m, n \in DOMAIN q : q[m] = q[n] => m = n}

\* Without a candidate an earlier manifest is left as it is.
WriteManifest ==
    /\ stage = "analysing" /\ apc = "done"
    /\ stage' = "deleting"
    /\ IF DOMAIN cand = {} THEN UNCHANGED fileVars
       ELSE /\ kept' = InUse(atStart)
            /\ \E q \in Orderings(DOMAIN cand) :
                 manifest' = [unverified |-> failedTopics # {},
                              candidates |-> [n \in DOMAIN q |-> [key |-> q[n][1], status |-> cand[q[n]].status]]]
    /\ EndScan
    /\ UNCHANGED <<scans, log, deleteVars>>

\* A scan that fails, is killed, or is not asked for a manifest.
AbandonScan ==
    /\ stage \in {"scanning", "analysing"}
    /\ stage' = "deleting"
    /\ EndScan
    /\ UNCHANGED <<scans, log, fileVars, deleteVars>>

DeleteStep ==
    /\ stage = "deleting"
    /\ Deleting!Next
    /\ UNCHANGED <<stage, scans, log, scanVars, safetyVars, kept>>

Next ==
    \/ Produce \/ EndTransaction
    \/ StartScan
    \/ \E t \in Topics : ScanTopic(t)
    \/ StartAnalysis \/ Analyse \/ WriteManifest \/ AbandonScan
    \/ DeleteStep

Spec == Init /\ [][Next]_vars

-----------------------------------------------------------------------------
Promise == INSTANCE Retirement

(* The whole tool, from the bytes of a message to a DELETE, retires only    *)
(* versions that no message used which could be read when the scan of the   *)
(* manifest began, be the topic scanned or failed, the flags what they are, *)
(* the manifest old and the registry half cleaned by earlier runs.  It does *)
(* so when the topics of all subjects that are listed are scanned, and each *)
(* subject that is listed is selected.                                      *)
ImplementsPromise == Promise!Spec
=============================================================================

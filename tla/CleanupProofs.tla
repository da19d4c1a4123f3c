---------------------------- MODULE CleanupProofs ----------------------------
(***************************************************************************)
(* The whole tool keeps its promise: Cleanup implements Retirement, for    *)
(* every set of topics, subjects, versions and messages, when a scan       *)
(* recognises what messages carry, covers the topics of the subjects, and  *)
(* lists no subject that was not selected.                                 *)
(***************************************************************************)
EXTENDS Cleanup, NamingProofs, WireFormatProofs, FiniteSetTheorems

DP == INSTANCE DeletionProofs WITH pc <- dpc

-----------------------------------------------------------------------------
(* The deletion.                                                           *)

LEMMA DeletionAssumed == DP!DeletionAssumption
<1>1. \A k \in DOMAIN Registered : k \in Keys /\ Registered[k].imports \subseteq Keys
  BY CleanupAssumption DEF CleanupAssumption
<1>2. Imports \subseteq Keys \X Keys
  BY <1>1 DEF Imports
<1>3. MaxCrashes \in Nat
  BY CleanupAssumption DEF CleanupAssumption
<1>4. ASSUME NEW m \in Manifests
      PROVE  m.unverified \in BOOLEAN /\ m.candidates \in Seq([key : Keys, status : DP!StatusesIn(m.candidates)])
  <2> DEFINE c == m.candidates
             T == [key : Keys, status : Analysis!Statuses]
             U == [key : Keys, status : DP!StatusesIn(c)]
  <2>1. m.unverified \in BOOLEAN /\ c \in Seq(T)
    BY DEF Manifests
  <2> HIDE DEF c
  <2>2. Len(c) \in Nat /\ c \in [1 .. Len(c) -> T]
    <3> HIDE DEF T
    <3> QED
      BY <2>1
  <2>3. \A j \in 1 .. Len(c) : c[j] \in U
    BY <2>2 DEF DP!StatusesIn
  <2>4. c \in [1 .. Len(c) -> U]
    BY <2>2, <2>3
  <2>5. c \in Seq(U)
    <3> HIDE DEF U
    <3> QED
      BY <2>2, <2>4
  <2> QED
    BY <2>1, <2>5 DEF c
<1> QED
  BY <1>2, <1>3, <1>4 DEF DP!DeletionAssumption

\* Cleanup instantiates Deletion, and so does this module, within its proofs:
\* the two instances are the same.
LEMMA DeletingStep == Deleting!Next => DP!Next
<1>1. /\ \A S : Deleting!KeysWith(S) = DP!KeysWith(S)
      /\ Deleting!SafeStatus = DP!SafeStatus /\ Deleting!WarnStatuses = DP!WarnStatuses
      /\ Deleting!Modes = DP!Modes
  BY DEF Deleting!KeysWith, DP!KeysWith, Deleting!SafeStatus, DP!SafeStatus,
         Deleting!WarnStatuses, DP!WarnStatuses, Deleting!Modes, DP!Modes
<1>2. Deleting!Safe = DP!Safe /\ Deleting!Warned = DP!Warned
  BY <1>1 DEF Deleting!Safe, DP!Safe, Deleting!Warned, DP!Warned
<1>3. /\ Deleting!IsRefused <=> DP!IsRefused
      /\ \A r : Deleting!Stop(r) <=> DP!Stop(r)
      /\ \A d : Deleting!Proceed(d) <=> DP!Proceed(d)
  BY DEF Deleting!IsRefused, DP!IsRefused, Deleting!Stop, DP!Stop, Deleting!Proceed,
         DP!Proceed, Deleting!flags, DP!flags
<1>4. ASSUME NEW m, NEW f, NEW a, Deleting!Start(m, f, a) PROVE DP!Start(m, f, a)
  BY <1>4 DEF Deleting!Start, DP!Start, Deleting!FirstIndex, DP!FirstIndex
<1>6. Deleting!RefuseUnverified \/ Deleting!SetupFails => DP!RefuseUnverified \/ DP!SetupFails
  BY <1>3 DEF Deleting!RefuseUnverified, DP!RefuseUnverified, Deleting!SetupFails,
         DP!SetupFails
<1>7. Deleting!Plan => DP!Plan
  BY <1>2, <1>3 DEF Deleting!Plan, DP!Plan, Deleting!flags, DP!flags
<1>8. Deleting!Prompted => DP!Prompted
  BY <1>2, <1>3 DEF Deleting!Prompted, DP!Prompted, Deleting!IncludeWarned, DP!IncludeWarned,
         Deleting!ExcludeWarned, DP!ExcludeWarned, Deleting!Confirm, DP!Confirm,
         Deleting!Decline, DP!Decline, Deleting!NoAnswer, DP!NoAnswer, Deleting!flags,
         DP!flags
<1>9. Deleting!SoftDelete => DP!SoftDelete
  BY DEF Deleting!SoftDelete, DP!SoftDelete, Deleting!Accepts, DP!Accepts,
         Deleting!Delete, DP!Delete, Deleting!Referenced, DP!Referenced, Deleting!flags,
         DP!flags
<1>10. Deleting!SoftDeleteFails => DP!SoftDeleteFails
  BY DEF Deleting!SoftDeleteFails, DP!SoftDeleteFails, Deleting!Accepts, DP!Accepts,
         Deleting!Delete, DP!Delete, Deleting!Referenced, DP!Referenced, Deleting!flags,
         DP!flags
<1>11. Deleting!SoftDone => DP!SoftDone
  BY DEF Deleting!SoftDone, DP!SoftDone, Deleting!SoftLoopEnds, DP!SoftLoopEnds,
         Deleting!flags, DP!flags
<1>12. ASSUME NEW k, Deleting!HardDelete(k) PROVE DP!HardDelete(k)
  BY <1>12 DEF Deleting!HardDelete, DP!HardDelete, Deleting!Accepts, DP!Accepts,
         Deleting!Delete, DP!Delete, Deleting!Referenced, DP!Referenced, Deleting!flags,
         DP!flags
<1>13. Deleting!HardDeleteFails => DP!HardDeleteFails
  BY DEF Deleting!HardDeleteFails, DP!HardDeleteFails, Deleting!Accepts, DP!Accepts,
         Deleting!Delete, DP!Delete, Deleting!Referenced, DP!Referenced, Deleting!flags,
         DP!flags
<1>14. Deleting!HardDone => DP!HardDone
  BY <1>3 DEF Deleting!HardDone, DP!HardDone
<1>15. Deleting!Crash => DP!Crash
  BY DEF Deleting!Crash, DP!Crash, Deleting!flags, DP!flags
<1>16. Deleting!Step => DP!Step
  BY <1>6, <1>7, <1>8, <1>9, <1>10, <1>11, <1>12, <1>13, <1>14 DEF Deleting!Step, DP!Step
<1> QED
  BY <1>1, <1>4, <1>15, <1>16 DEF Deleting!Next, DP!Next

-----------------------------------------------------------------------------
(* The invariant: from the use of a version, over the scan's report, to a  *)
(* blocked candidate and a line of the manifest that is never deleted.     *)

\* A scan finds in the bytes of a message what its producer meant.
Recognised == \A m \in Messages : m.uses \subseteq UsesOfMessage(m.raw)

\* The topics of the selected subjects are scanned, and each is the one that
\* a subject is taken for (see Selection).
Covered ==
    \A m \in Messages, s \in Selected :
      Holds(m.topic, s, Strategy) => m.topic \in Topics /\ ~Shadowed(m.topic, s, Topics, Strategy)

\* Nothing is listed that was not selected: true of CP, and of Cloud when no
\* other subject begins with the name of a selected one.
ListsSelected == \A p \in Selected : ListedFor(p) \subseteq Selected

Blocked == Analysis!BlockedStatuses

\* A version can be listed once for each selected subject.
Entries == Keys \X (1 .. Cardinality(Selected))

\* Message m shows that version k is in use.
Shows(m, k) ==
    /\ m.topic \in Topics
    /\ Holds(m.topic, k[1], Strategy) /\ ~Shadowed(m.topic, k[1], Topics, Strategy)
    /\ \E r \in RolesOf(k) : <<Registered[k].id, r>> \in m.seen

Stages ==
    /\ stage \in {"deleting", "scanning", "analysing"}
    /\ stage # "deleting" => dpc = "idle"
    /\ log \subseteq Written

FileKept ==
    /\ kept \subseteq Keys
    /\ \A n \in DOMAIN manifest.candidates :
         manifest.candidates[n].key \in kept => manifest.candidates[n].status \in Blocked

Scanning ==
    stage = "scanning" =>
      \A k \in InUse(atStart) : k[1] \in Selected =>
        \E m \in atStart :
          /\ Shows(m, k)
          /\ m.topic \in topicsLeft \cup failedTopics \/ m.seen \subseteq activeSchemas

Analysing ==
    stage = "analysing" =>
      /\ listed \subseteq Entries
      /\ DOMAIN cand \subseteq listed
      /\ \A e \in DOMAIN cand : cand[e].status \in Analysis!Statuses
      /\ \A e \in listed :
           e[1] \in InUse(atStart) => e[1][1] \in sc.unverified \/ ~Analysis!Unused(e[1])
      /\ \A e \in DOMAIN cand : e[1] \in InUse(atStart) => e[1][1] \in sc.unverified
      /\ apc = "done" =>
           \A e \in DOMAIN cand : e[1] \in InUse(atStart) => cand[e].status \in Blocked

IInv == DP!IInv /\ Stages /\ FileKept /\ Scanning /\ Analysing

-----------------------------------------------------------------------------
\* Between two runs nothing is asked of the deletion but its types.
LEMMA IdleIInv ==
  ASSUME manifest' \in Manifests, state' \in [Keys -> {"live", "soft", "gone"}],
         crashes' \in 0 .. MaxCrashes, EndDeletion
  PROVE  DP!IInv'
<1>1. << >> \in Seq(Keys) /\ Len(<< >>) = 0
  BY EmptySeq
<1>2. DP!TypeOK'
  <2>1. deletable' \in Seq(Keys) /\ i' \in 1 .. Len(deletable') + 1
    BY <1>1 DEF EndDeletion
  <2> QED
    BY <2>1 DEF EndDeletion, DP!TypeOK, DP!Modes
<1>3. DP!Listing' /\ DP!Agreed' /\ DP!Passed'
  BY DEF EndDeletion, DP!Listing, DP!Agreed, DP!Passed, DP!DoneMeansDeleted
<1> QED
  BY <1>2, <1>3 DEF DP!IInv

LEMMA InitIInv == Init => IInv
<1> SUFFICES ASSUME Init PROVE IInv
  OBVIOUS
<1>1. manifest \in Manifests
  <2>1. << >> \in Seq([key : Keys, status : Analysis!Statuses])
    BY EmptySeq
  <2> QED
    BY <2>1 DEF Init, Manifests
<1>2. DP!Init
  BY <1>1 DEF Init, DP!Init
<1>3. DP!IInv
  BY <1>2, DeletionAssumed, DP!InitIInv
<1>4. Stages
  BY DEF Init, Stages
<1>5. FileKept
  BY DEF Init, FileKept
<1>6. Scanning /\ Analysing
  BY DEF Init, Scanning, Analysing
<1> QED
  BY <1>3, <1>4, <1>5, <1>6 DEF IInv

\* What was in use stays known.
LEMMA SameInUse ==
  ASSUME atStart' = atStart
  PROVE  InUse(atStart)' = InUse(atStart)
BY DEF InUse, RolesOf, KindOf, IsKeySchema, IsValueSchema, HasSuffix, Holds, IsTopicPrefix

\* The log changes beside everything else.
LEMMA LogIInv ==
  ASSUME IInv, log' \subseteq Written,
         UNCHANGED <<stage, scans, scanVars, safetyVars, fileVars, deleteVars>>
  PROVE  IInv'
<1>1. DP!IInv'
  BY DeletionAssumed, DP!StutterIInv DEF IInv, fileVars, deleteVars, DP!vars
<1>2. Stages' /\ FileKept'
  BY DEF IInv, fileVars, deleteVars, Stages, FileKept, Written
<1>3. InUse(atStart)' = InUse(atStart) /\ atStart' = atStart
  BY SameInUse DEF scanVars
<1>4. ASSUME NEW m, NEW k PROVE Shows(m, k)' <=> Shows(m, k)
  BY DEF Shows
<1>5. Scanning'
  BY <1>3, <1>4 DEF IInv, scanVars, Scanning, Shows
<1>6. Analysing'
  BY <1>3 DEF IInv, scanVars, safetyVars, Analysing, Analysis!Unused
<1> QED
  BY <1>1, <1>2, <1>5, <1>6 DEF IInv

LEMMA ProduceIInv ==
  ASSUME IInv, Produce
  PROVE  IInv'
<1>1. log' \subseteq Written
  BY DEF IInv, Stages, Produce
<1> QED
  BY <1>1, LogIInv DEF Produce

LEMMA EndTransactionIInv ==
  ASSUME IInv, EndTransaction
  PROVE  IInv'
<1>1. PICK m \in log : log' \in {log \ {m}, (log \ {m}) \cup {[m EXCEPT !.status = "committed"]}}
  BY DEF EndTransaction, Readable
<1>2. PICK x \in Messages : m \in {Logged(x, "open"), Logged(x, "committed")}
  BY DEF IInv, Stages, Written
<1>3. [m EXCEPT !.status = "committed"] = Logged(x, "committed")
  BY <1>2 DEF Logged
<1>4. [m EXCEPT !.status = "committed"] \in Written
  BY <1>3 DEF Written
<1>5. log' \subseteq Written
  BY <1>1, <1>4 DEF IInv, Stages
<1> QED
  BY <1>5, LogIInv DEF EndTransaction

LEMMA StartScanIInv ==
  ASSUME Recognised, Covered, IInv, StartScan
  PROVE  IInv'
<1>1. manifest' = manifest /\ kept' = kept /\ state' = state /\ crashes' = crashes /\ log' = log
  BY DEF StartScan, fileVars
<1>2. DP!IInv'
  <2>1. manifest \in Manifests /\ state \in [Keys -> {"live", "soft", "gone"}] /\ crashes \in 0 .. MaxCrashes
    BY DEF IInv, DP!IInv, DP!TypeOK
  <2> QED
    BY <1>1, <2>1, IdleIInv DEF StartScan
<1>3. Stages' /\ FileKept'
  BY <1>1 DEF IInv, StartScan, EndDeletion, Stages, FileKept
<1>4. Scanning'
  <2>1. atStart' = Readable /\ topicsLeft' = Topics
    BY DEF StartScan
  <2>2. ASSUME NEW k \in InUse(atStart'), k[1] \in Selected PROVE \E m \in atStart' : Shows(m, k)
    <3>1. PICK m \in atStart' : /\ Holds(m.topic, k[1], Strategy)
                                /\ \E r \in RolesOf(k) : <<Registered[k].id, r>> \in m.uses
      BY <2>2 DEF InUse
    <3>2. PICK x \in Messages, y \in {"open", "committed"} :
            m = [topic |-> x.topic, uses |-> x.uses, seen |-> UsesOfMessage(x.raw), status |-> y]
      BY <2>1 DEF IInv, Stages, Readable, Written, Logged
    <3>3. m.uses \subseteq m.seen /\ m.topic = x.topic
      BY <3>2 DEF Recognised
    <3>4. m.topic \in Topics /\ ~Shadowed(m.topic, k[1], Topics, Strategy)
      BY <2>2, <3>1, <3>2, <3>3 DEF Covered
    <3> QED
      BY <3>1, <3>3, <3>4 DEF Shows
  <2>3. InUse(atStart)' = InUse(atStart')
    BY DEF InUse
  <2>4. ASSUME NEW k, NEW m PROVE Shows(m, k)' <=> Shows(m, k)
    BY DEF Shows
  <2> QED
    BY <2>1, <2>2, <2>3, <2>4 DEF Scanning, Shows
<1>5. Analysing'
  BY DEF StartScan, Analysing
<1> QED
  BY <1>2, <1>3, <1>4, <1>5 DEF IInv

\* A step beside the deletion and the file.
LEMMA BesideIInv ==
  ASSUME IInv, UNCHANGED <<log, fileVars, deleteVars>>, stage' \in {"scanning", "analysing", "deleting"},
         stage' # "deleting" => stage # "deleting"
  PROVE  DP!IInv' /\ Stages' /\ FileKept'
<1>1. DP!IInv'
  BY DeletionAssumed, DP!StutterIInv DEF IInv, fileVars, deleteVars, DP!vars
<1>2. Stages' /\ FileKept'
  BY DEF IInv, fileVars, deleteVars, Stages, FileKept
<1> QED
  BY <1>1, <1>2

LEMMA ScanTopicIInv ==
  ASSUME IInv, NEW t \in Topics, ScanTopic(t)
  PROVE  IInv'
<1>1. DP!IInv' /\ Stages' /\ FileKept'
  BY BesideIInv DEF ScanTopic
<1>2. atStart' = atStart /\ stage' = stage /\ stage = "scanning" /\ topicsLeft' = topicsLeft \ {t}
  BY DEF ScanTopic
<1>3. ASSUME NEW m \in atStart, m.topic \in topicsLeft \cup failedTopics \/ m.seen \subseteq activeSchemas
      PROVE  m.topic \in topicsLeft' \cup failedTopics' \/ m.seen \subseteq activeSchemas'
  <2>1. CASE m.topic = t /\ failedTopics' = failedTopics \cup {t}
    BY <2>1
  <2>2. ASSUME m.topic = t,
               NEW read, \A x \in atStart : x.topic = t => x \in read,
               activeSchemas' = activeSchemas \cup UNION {x.seen : x \in read}
        PROVE  m.seen \subseteq activeSchemas'
    BY <2>2
  <2>3. CASE m.topic # t
    BY <1>2, <1>3, <2>3 DEF ScanTopic
  <2> QED
    BY <2>1, <2>2, <2>3 DEF ScanTopic
<1>4. ASSUME NEW m, NEW k PROVE Shows(m, k)' <=> Shows(m, k)
  BY DEF Shows
<1>5. Scanning'
  <2>1. \A k \in InUse(atStart) : k[1] \in Selected =>
          \E m \in atStart :
            /\ Shows(m, k)
            /\ m.topic \in topicsLeft \cup failedTopics \/ m.seen \subseteq activeSchemas
    BY <1>2 DEF IInv, Scanning
  <2>2. InUse(atStart)' = InUse(atStart)
    BY <1>2, SameInUse
  <2> QED
    BY <1>2, <1>3, <1>4, <2>1, <2>2 DEF Scanning, Shows
<1>6. Analysing'
  BY <1>2 DEF Analysing
<1> QED
  BY <1>1, <1>5, <1>6 DEF IInv

\* Only versions of selected subjects are listed, and each at most once for
\* every selected one.
LEMMA ListedEntries ==
  ASSUME ListsSelected, NEW e \in Analysis!Listing(Scenario.copies)
  PROVE  e \in Entries /\ e[1] \in DOMAIN LiveVersions /\ e[1][1] \in Selected
<1> DEFINE k == e[1]
           Askers == {p \in Selected : k[1] \in ListedFor(p)}
<1>1. /\ DOMAIN Scenario.copies = DOMAIN LiveVersions
      /\ \A x \in DOMAIN LiveVersions :
           Scenario.copies[x] = Cardinality({p \in Selected : x[1] \in ListedFor(p)})
  BY DEF Scenario
<1>2. PICK x \in DOMAIN LiveVersions : e \in {x} \X (1 .. Scenario.copies[x])
  BY <1>1 DEF Analysis!Listing
<1>3. k = x /\ e = <<k, e[2]>> /\ e[2] \in 1 .. Scenario.copies[k]
  BY <1>2
<1>4. e[2] \in 1 .. Cardinality(Askers)
  BY <1>1, <1>3
<1>5. IsFiniteSet(Selected)
  BY CleanupAssumption, FS_Subset DEF CleanupAssumption
<1>6. /\ IsFiniteSet(Askers) /\ Cardinality(Askers) <= Cardinality(Selected)
      /\ Cardinality(Askers) \in Nat /\ Cardinality(Selected) \in Nat
  BY <1>5, FS_Subset, FS_CardinalityType
<1>7. e[2] \in 1 .. Cardinality(Selected)
  BY <1>4, <1>6
<1>8. Askers # {}
  <2>1. CASE Askers = {}
    BY <1>4, <2>1, FS_EmptySet
  <2> QED
    BY <2>1
<1>9. k[1] \in Selected
  BY <1>8 DEF ListsSelected
<1>10. k \in Keys
  BY <1>3, CleanupAssumption DEF LiveVersions, CleanupAssumption
<1> QED
  BY <1>3, <1>7, <1>9, <1>10 DEF Entries

\* What is in use has been seen, or its subject is unverified.
LEMMA StartAnalysisIInv ==
  ASSUME ListsSelected, IInv, StartAnalysis
  PROVE  IInv'
<1>1. DP!IInv' /\ Stages' /\ FileKept'
  BY BesideIInv DEF StartAnalysis
<1>2. /\ stage = "scanning" /\ topicsLeft = {} /\ stage' = "analysing" /\ apc' = "unused"
      /\ atStart' = atStart /\ sc' = Scenario /\ registry' = LiveVersions
      /\ listed' = Analysis!Listing(Scenario.copies) /\ cand' = << >>
  BY DEF StartAnalysis, scanVars
<1>3. \A k \in InUse(atStart) : k[1] \in Selected =>
        \E m \in atStart : Shows(m, k) /\ (m.topic \in failedTopics \/ m.seen \subseteq activeSchemas)
  BY <1>2 DEF IInv, Scanning
<1>4. \A k \in DOMAIN LiveVersions : k \in Keys /\ LiveVersions[k] = Registered[k]
  BY CleanupAssumption DEF LiveVersions, CleanupAssumption
<1>5. /\ sc'.active = activeSchemas
      /\ sc'.unverified = SubjectsForFailedTopics(failedTopics, Selected, Topics, Strategy)
  BY <1>2 DEF Scenario
<1>6. ASSUME NEW k \in InUse(atStart), k \in DOMAIN LiveVersions, k[1] \in Selected
      PROVE  k[1] \in sc'.unverified \/ ~Analysis!Unused(k)'
  <2>1. PICK m \in atStart : Shows(m, k) /\ (m.topic \in failedTopics \/ m.seen \subseteq activeSchemas)
    BY <1>3, <1>6
  <2>2. k[1] \in Subjects /\ registry'[k] = Registered[k]
    BY <1>2, <1>4, <1>6 DEF Keys
  <2>3. CASE m.topic \in failedTopics
    <3>1. Strategy \in Strategies /\ Topics \in SUBSET Names
      BY CleanupAssumption DEF CleanupAssumption
    <3>2. /\ m.topic \in Topics \cap failedTopics
          /\ Holds(m.topic, k[1], Strategy) /\ ~Shadowed(m.topic, k[1], Topics, Strategy)
      BY <2>1, <2>3 DEF Shows
    <3> QED
      BY <1>5, <1>6, <3>1, <3>2, FailedTopicCovers
  <2>4. CASE m.seen \subseteq activeSchemas
    <3>1. PICK r \in RolesOf(k) : <<Registered[k].id, r>> \in sc'.active
      BY <1>5, <2>1, <2>4 DEF Shows
    <3>2. <<registry'[k].id, r>> \in sc'.active
      BY <2>2, <3>1
    <3>3. KindOf[k[1]] \in {"key", "value", "other"}
      BY <2>2 DEF KindOf
    <3>4. ~Analysis!Unused(k)'
      BY <3>1, <3>2, <3>3 DEF Analysis!Unused, Analysis!Roles, RolesOf
    <3> QED
      BY <3>4
  <2> QED
    BY <2>1, <2>3, <2>4
<1>7. Scanning'
  BY <1>2 DEF Scanning
<1>8. Analysing'
  <2>1. DOMAIN cand' = {}
    BY <1>2, EmptySeq, LenProperties
  <2>2. \A e \in listed' : e \in Entries /\ e[1] \in DOMAIN LiveVersions /\ e[1][1] \in Selected
    BY <1>2, ListedEntries
  <2>3. InUse(atStart)' = InUse(atStart)
    BY <1>2, SameInUse
  <2>4. ASSUME NEW e \in listed', e[1] \in InUse(atStart)'
        PROVE  e[1][1] \in sc'.unverified \/ ~Analysis!Unused(e[1])'
    BY <1>6, <2>2, <2>3, <2>4
  <2>5. Entries' = Entries
    BY DEF Entries
  <2> QED
    BY <1>2, <2>1, <2>2, <2>4, <2>5 DEF Analysing
<1> QED
  BY <1>1, <1>7, <1>8 DEF IInv

-----------------------------------------------------------------------------
(* The analysis.                                                           *)

\* The candidates with their statuses, whatever else a pass changes.
Statused == \A e \in DOMAIN cand : cand[e].status \in Analysis!Statuses

LEMMA StatusNames ==
  /\ {"safe", "has_domain_rules", "has_migration_rules", "blocked_by_references",
      "blocked_by_migration_chain", "blocked_by_encryption_rules",
      "blocked_by_rule_reference", "blocked_unverified"} \subseteq Analysis!Statuses
  /\ Blocked \subseteq Analysis!Statuses
BY DEF Analysis!Statuses, Analysis!BlockedStatuses, Analysis!WarnStatuses, Blocked

LEMMA FindUnusedKeeps ==
  ASSUME Analysis!FindUnused, Analysing, stage = "analysing"
  PROVE  /\ DOMAIN cand' = Analysis!UnusedListed
         /\ Statused' /\ apc' # "done"
         /\ UNCHANGED <<sc, registry, listed>>
<1>1. cand' = [e \in Analysis!UnusedListed |-> [status |-> "safe", reasons |-> {}]]
  BY DEF Analysis!FindUnused
<1> QED
  BY <1>1, StatusNames DEF Analysis!FindUnused, Statused

LEMMA CheckReferencesKeeps ==
  ASSUME Statused, NEW e, Analysis!CheckReferences(e)
  PROVE  DOMAIN cand' = DOMAIN cand /\ Statused' /\ apc' # "done" /\ UNCHANGED <<sc, registry, listed>>
<1>1. CASE cand' = cand
  BY <1>1 DEF Analysis!CheckReferences, Statused
<1>2. CASE cand' = [cand EXCEPT ![e] = Analysis!Mark(@, "blocked_by_references", "references")]
  <2>1. DOMAIN cand' = DOMAIN cand
    BY <1>2
  <2>2. ASSUME NEW j \in DOMAIN cand PROVE cand'[j].status \in Analysis!Statuses
    <3>1. cand'[j] = IF j = e THEN Analysis!Mark(cand[e], "blocked_by_references", "references") ELSE cand[j]
      BY <1>2
    <3> QED
      BY <3>1, StatusNames DEF Analysis!Mark, Statused
  <2> QED
    BY <2>1, <2>2 DEF Analysis!CheckReferences, Statused
<1> QED
  BY <1>1, <1>2 DEF Analysis!CheckReferences

LEMMA CheckRulesKeeps ==
  ASSUME Statused, Analysis!CheckRules
  PROVE  DOMAIN cand' = DOMAIN cand /\ Statused' /\ apc' # "done" /\ UNCHANGED <<sc, registry, listed>>
<1>1. PICK noDetail \in Analysis!FailedCalls(DOMAIN cand), noChain \in Analysis!FailedCalls(Analysis!ListedKeys) :
         cand' = [e \in DOMAIN cand |->
                    Analysis!WithChain(IF e \in noDetail THEN cand[e]
                                       ELSE Analysis!WithOwnRules(cand[e], registry[e[1]].rules),
                                       e[1], noChain)]
  BY DEF Analysis!CheckRules
<1>2. ASSUME NEW c, c.status \in Analysis!Statuses, NEW rules PROVE Analysis!WithOwnRules(c, rules).status \in Analysis!Statuses
  BY <1>2, StatusNames DEF Analysis!Mark, Analysis!WithOwnRules
<1>3. ASSUME NEW c, c.status \in Analysis!Statuses, NEW k, NEW failed PROVE Analysis!WithChain(c, k, failed).status \in Analysis!Statuses
  BY <1>3, StatusNames DEF Analysis!Mark, Analysis!WithChain
<1>4. ASSUME NEW e \in DOMAIN cand PROVE cand'[e].status \in Analysis!Statuses
  <2>1. cand[e].status \in Analysis!Statuses
    BY DEF Statused
  <2>2. PICK c : c = IF e \in noDetail THEN cand[e] ELSE Analysis!WithOwnRules(cand[e], registry[e[1]].rules)
    OBVIOUS
  <2>3. c.status \in Analysis!Statuses
    BY <1>2, <2>1, <2>2
  <2>4. cand'[e] = Analysis!WithChain(c, e[1], noChain)
    BY <1>1, <2>2
  <2> QED
    BY <1>3, <2>3, <2>4
<1> QED
  BY <1>1, <1>4 DEF Analysis!CheckRules, Statused

LEMMA CheckGlobalRulesKeeps ==
  ASSUME Statused, Analysis!CheckGlobalRules
  PROVE  DOMAIN cand' = DOMAIN cand /\ Statused' /\ apc' # "done" /\ UNCHANGED <<sc, registry, listed>>
<1>1. PICK failed \in Analysis!FailedCalls(DOMAIN cand), unread \in Analysis!FailedCalls(DOMAIN cand) :
         cand' = [e \in DOMAIN cand |->
                    IF e \in failed THEN cand[e]
                    ELSE Analysis!WithGlobalRules(cand[e], e[1][1] \notin sc.ownRules \/ e \in unread)]
  BY DEF Analysis!CheckGlobalRules
<1>2. ASSUME NEW c, c.status \in Analysis!Statuses, NEW inherits PROVE Analysis!WithGlobalRules(c, inherits).status \in Analysis!Statuses
  BY <1>2, StatusNames DEF Analysis!Mark, Analysis!WithGlobalRules
<1>3. ASSUME NEW e \in DOMAIN cand PROVE cand'[e].status \in Analysis!Statuses
  <2>1. cand[e].status \in Analysis!Statuses
    BY DEF Statused
  <2>2. \E inherits : cand'[e] \in {cand[e], Analysis!WithGlobalRules(cand[e], inherits)}
    BY <1>1
  <2> QED
    BY <1>2, <2>1, <2>2
<1> QED
  BY <1>1, <1>3 DEF Analysis!CheckGlobalRules, Statused

LEMMA CheckRuleReferencesKeeps ==
  ASSUME Statused, Analysis!CheckRuleReferences
  PROVE  DOMAIN cand' = DOMAIN cand /\ Statused' /\ apc' # "done" /\ UNCHANGED <<sc, registry, listed>>
<1>1. PICK failed :
         cand' = [e \in DOMAIN cand |->
                    IF e[1] \in Analysis!RuleTargets(failed) /\ e = Analysis!LastEntry(e[1]) /\ ~Analysis!IsBlocked(cand[e])
                    THEN Analysis!Mark(cand[e], "blocked_by_rule_reference", "rule")
                    ELSE cand[e]]
  BY DEF Analysis!CheckRuleReferences
<1>2. ASSUME NEW e \in DOMAIN cand PROVE cand'[e].status \in Analysis!Statuses
  <2>1. cand[e].status \in Analysis!Statuses
    BY DEF Statused
  <2>2. cand'[e] = cand[e] \/ cand'[e] = Analysis!Mark(cand[e], "blocked_by_rule_reference", "rule")
    BY <1>1
  <2> QED
    BY <2>1, <2>2, StatusNames DEF Analysis!Mark
<1> QED
  BY <1>1, <1>2 DEF Analysis!CheckRuleReferences, Statused

LEMMA CheckCompatibilityKeeps ==
  ASSUME Statused, Analysis!CheckCompatibility
  PROVE  DOMAIN cand' = DOMAIN cand /\ Statused' /\ apc' # "done" /\ UNCHANGED <<sc, registry, listed>>
<1>1. PICK failed :
         cand' = [e \in DOMAIN cand |->
                    IF e[1][1] \in sc.transitive \ failed /\ ~Analysis!IsBlocked(cand[e])
                    THEN Analysis!Mark(cand[e], cand[e].status, "transitive")
                    ELSE cand[e]]
  BY DEF Analysis!CheckCompatibility
<1>2. ASSUME NEW e \in DOMAIN cand PROVE cand'[e].status \in Analysis!Statuses
  <2>1. cand[e].status \in Analysis!Statuses
    BY DEF Statused
  <2>2. cand'[e] = cand[e] \/ cand'[e] = Analysis!Mark(cand[e], cand[e].status, "transitive")
    BY <1>1
  <2> QED
    BY <2>1, <2>2, StatusNames DEF Analysis!Mark
<1> QED
  BY <1>1, <1>2 DEF Analysis!CheckCompatibility, Statused

\* The last pass blocks whatever belongs to an unverified subject.
LEMMA MarkUnverifiedBlocks ==
  ASSUME Statused, Analysis!MarkUnverified
  PROVE  /\ DOMAIN cand' = DOMAIN cand /\ Statused' /\ UNCHANGED <<sc, registry, listed>>
         /\ \A e \in DOMAIN cand : e[1][1] \in sc.unverified => cand'[e].status \in Blocked
<1>1. cand' = [e \in DOMAIN cand |->
                 IF e[1][1] \in sc.unverified THEN Analysis!Unverify(cand[e]) ELSE cand[e]]
  BY DEF Analysis!MarkUnverified
<1>2. ASSUME NEW c PROVE Analysis!Unverify(c).status \in Blocked
  <2>1. Analysis!Unverify(c).status = IF Analysis!IsBlocked(c) THEN c.status ELSE "blocked_unverified"
    BY StatusNames DEF Analysis!Mark, Analysis!Unverify
  <2> QED
    BY <2>1 DEF Analysis!IsBlocked, Blocked, Analysis!BlockedStatuses
<1>3. ASSUME NEW e \in DOMAIN cand
      PROVE  /\ cand'[e].status \in Analysis!Statuses
             /\ e[1][1] \in sc.unverified => cand'[e].status \in Blocked
  <2>1. cand[e].status \in Analysis!Statuses
    BY DEF Statused
  <2>2. cand'[e] = IF e[1][1] \in sc.unverified THEN Analysis!Unverify(cand[e]) ELSE cand[e]
    BY <1>1
  <2> QED
    BY <1>2, <2>1, <2>2, StatusNames
<1> QED
  BY <1>1, <1>3 DEF Analysis!MarkUnverified, Statused

LEMMA AnalyseIInv ==
  ASSUME IInv, Analyse
  PROVE  IInv'
<1>1. DP!IInv' /\ Stages' /\ FileKept'
  BY BesideIInv DEF Analyse
<1>2. stage = "analysing" /\ stage' = stage /\ InUse(atStart)' = InUse(atStart) /\ Entries' = Entries
  BY SameInUse DEF Analyse, scanVars, Entries
<1>3. /\ listed \subseteq Entries
      /\ DOMAIN cand \subseteq listed
      /\ Statused
      /\ \A e \in listed :
           e[1] \in InUse(atStart) => e[1][1] \in sc.unverified \/ ~Analysis!Unused(e[1])
      /\ \A e \in DOMAIN cand : e[1] \in InUse(atStart) => e[1][1] \in sc.unverified
  BY <1>2 DEF IInv, Analysing, Statused
<1>4. CASE Analysis!FindUnused
  <2>1. /\ DOMAIN cand' = Analysis!UnusedListed /\ Statused' /\ apc' # "done"
        /\ UNCHANGED <<sc, registry, listed>>
    BY <1>2, <1>4, FindUnusedKeeps DEF IInv
  <2>2. \A e \in DOMAIN cand' : e \in listed /\ Analysis!Unused(e[1])
    BY <2>1 DEF Analysis!UnusedListed
  <2>3. \A k : Analysis!Unused(k)' <=> Analysis!Unused(k)
    BY <2>1 DEF Analysis!Unused
  <2>4. Analysing'
    BY <1>2, <1>3, <2>1, <2>2, <2>3 DEF Analysing, Statused
  <2> QED
    BY <1>1, <1>2, <2>4 DEF IInv, Scanning
<1>5. CASE Analysis!MarkUnverified
  <2>1. /\ DOMAIN cand' = DOMAIN cand /\ Statused' /\ UNCHANGED <<sc, registry, listed>>
        /\ \A e \in DOMAIN cand : e[1][1] \in sc.unverified => cand'[e].status \in Blocked
    BY <1>3, <1>5, MarkUnverifiedBlocks
  <2>2. \A k : Analysis!Unused(k)' <=> Analysis!Unused(k)
    BY <2>1 DEF Analysis!Unused
  <2>3. Analysing'
    BY <1>2, <1>3, <2>1, <2>2 DEF Analysing, Statused, Blocked
  <2> QED
    BY <1>1, <1>2, <2>3 DEF IInv, Scanning
<1>6. CASE \/ \E e \in todo : Analysis!CheckReferences(e)
           \/ Analysis!CheckRules \/ Analysis!CheckGlobalRules
           \/ Analysis!CheckRuleReferences \/ Analysis!CheckCompatibility
  <2>1. DOMAIN cand' = DOMAIN cand /\ Statused' /\ apc' # "done" /\ UNCHANGED <<sc, registry, listed>>
    BY <1>3, <1>6, CheckReferencesKeeps, CheckRulesKeeps, CheckGlobalRulesKeeps,
       CheckRuleReferencesKeeps, CheckCompatibilityKeeps
  <2>2. \A k : Analysis!Unused(k)' <=> Analysis!Unused(k)
    BY <2>1 DEF Analysis!Unused
  <2>3. Analysing'
    BY <1>2, <1>3, <2>1, <2>2 DEF Analysing, Statused
  <2> QED
    BY <1>1, <1>2, <2>3 DEF IInv, Scanning
<1>7. ~Analysis!Register
  BY DEF Analysis!Register
<1> QED
  BY <1>4, <1>5, <1>6, <1>7 DEF Analyse, Analysis!Next

-----------------------------------------------------------------------------
(* The file.                                                               *)

\* A candidate as the file has it.
Line(e) == [key |-> e[1], status |-> cand[e].status]

LEMMA ManifestWritten ==
  ASSUME NEW unverified \in BOOLEAN, Analysing, stage = "analysing", NEW q \in Orderings(DOMAIN cand)
  PROVE  /\ [unverified |-> unverified, candidates |-> [n \in DOMAIN q |-> Line(q[n])]] \in Manifests
         /\ \A n \in DOMAIN q : q[n] \in DOMAIN cand
<1>1. IsFiniteSet(DOMAIN cand)
  <2>1. IsFiniteSet(Keys) /\ IsFiniteSet(Selected)
    BY CleanupAssumption, FS_Product, FS_Subset DEF CleanupAssumption, Keys
  <2>2. IsFiniteSet(1 .. Cardinality(Selected))
    <3>1. Cardinality(Selected) \in Int /\ 1 \in Int
      BY <2>1, FS_CardinalityType
    <3> QED
      BY <3>1, FS_Interval
  <2>3. IsFiniteSet(Entries)
    BY <2>1, <2>2, FS_Product DEF Entries
  <2>4. DOMAIN cand \in SUBSET Entries
    BY DEF Analysing
  <2> QED
    BY <2>3, <2>4, FS_Subset
<1>2. Cardinality(DOMAIN cand) \in Nat
  BY <1>1, FS_CardinalityType
<1>3. q \in [1 .. Cardinality(DOMAIN cand) -> DOMAIN cand]
  BY DEF Orderings
<1>4. \A e \in DOMAIN cand : Line(e) \in [key : Keys, status : Analysis!Statuses]
  BY DEF Analysing, Entries, Line
<1> DEFINE c == [n \in DOMAIN q |-> Line(q[n])]
<1>5. c \in [1 .. Cardinality(DOMAIN cand) -> [key : Keys, status : Analysis!Statuses]]
  BY <1>3, <1>4
<1>6. c \in Seq([key : Keys, status : Analysis!Statuses])
  <2> HIDE DEF c
  <2> QED
    BY <1>2, <1>5, SeqDef
<1> QED
  <2> HIDE DEF c
  <2>1. [unverified |-> unverified, candidates |-> c] \in Manifests
    BY <1>6 DEF Manifests
  <2> QED
    BY <1>3, <2>1 DEF c

\* Nothing of the deletion but the file changes between two runs.
LEMMA NewFileIInv ==
  ASSUME DP!IInv, dpc = "idle", UNCHANGED deleteVars, manifest' \in Manifests
  PROVE  DP!IInv'
<1>1. DP!TypeOK'
  BY DEF deleteVars, DP!IInv, DP!TypeOK
<1>2. DP!Listing' /\ DP!Agreed' /\ DP!Passed'
  BY DEF deleteVars, DP!IInv, DP!Listing, DP!Agreed, DP!Passed, DP!NoneLive, DP!DoneMeansDeleted
<1> QED
  BY <1>1, <1>2 DEF DP!IInv

LEMMA WriteManifestIInv ==
  ASSUME IInv, WriteManifest
  PROVE  IInv'
<1>1. /\ stage = "analysing" /\ apc = "done" /\ stage' = "deleting" /\ log' = log
      /\ UNCHANGED deleteVars /\ dpc = "idle" /\ dpc' = dpc
  BY DEF IInv, Stages, WriteManifest, deleteVars
<1>2. Stages' /\ Scanning' /\ Analysing'
  BY <1>1 DEF IInv, Stages, Scanning, Analysing
<1>3. CASE UNCHANGED fileVars
  <2>1. DP!IInv'
    BY <1>1, <1>3, DeletionAssumed, DP!StutterIInv DEF IInv, fileVars, deleteVars, DP!vars
  <2>2. FileKept'
    BY <1>3 DEF IInv, fileVars, FileKept
  <2> QED
    BY <1>2, <2>1, <2>2 DEF IInv
<1>4. CASE /\ kept' = InUse(atStart)
           /\ \E q \in Orderings(DOMAIN cand) :
                manifest' = [unverified |-> failedTopics # {},
                             candidates |-> [n \in DOMAIN q |-> Line(q[n])]]
  <2>1. PICK q \in Orderings(DOMAIN cand) :
               manifest' = [unverified |-> failedTopics # {},
                            candidates |-> [n \in DOMAIN q |-> Line(q[n])]]
    BY <1>4
  <2>2. manifest' \in Manifests /\ \A n \in DOMAIN q : q[n] \in DOMAIN cand
    BY <1>1, <2>1, ManifestWritten DEF IInv
  <2>3. DP!IInv'
    BY <1>1, <2>2, NewFileIInv DEF IInv
  <2>4. \A e \in DOMAIN cand : e[1] \in InUse(atStart) => cand[e].status \in Blocked
    BY <1>1 DEF IInv, Analysing
  <2>5. kept' \subseteq Keys
    BY <1>4, CleanupAssumption DEF InUse, CleanupAssumption
  <2>6. manifest'.candidates = [n \in DOMAIN q |-> Line(q[n])]
    BY <2>1
  <2>7. ASSUME NEW n \in DOMAIN manifest'.candidates, manifest'.candidates[n].key \in kept'
        PROVE  manifest'.candidates[n].status \in Blocked
    <3>1. n \in DOMAIN q /\ manifest'.candidates[n] = [key |-> q[n][1], status |-> cand[q[n]].status]
      BY <2>6 DEF Line
    <3>2. q[n] \in DOMAIN cand /\ q[n][1] \in InUse(atStart)
      BY <1>4, <2>2, <2>7, <3>1
    <3> QED
      BY <2>4, <3>1, <3>2
  <2>8. FileKept'
    BY <2>5, <2>7 DEF FileKept, Blocked
  <2> QED
    BY <1>2, <2>3, <2>8 DEF IInv
<1> QED
  BY <1>3, <1>4 DEF WriteManifest, Line

LEMMA AbandonScanIInv ==
  ASSUME IInv, AbandonScan
  PROVE  IInv'
<1>1. DP!IInv' /\ Stages' /\ FileKept'
  BY BesideIInv DEF AbandonScan
<1>2. Scanning' /\ Analysing'
  BY DEF AbandonScan, Scanning, Analysing
<1> QED
  BY <1>1, <1>2 DEF IInv

LEMMA DeletionKeepsFile == DP!Next => manifest' = manifest
BY DEF DP!Next, DP!Step, DP!Prompted, DP!Start, DP!RefuseUnverified, DP!SetupFails, DP!Plan,
       DP!IncludeWarned, DP!ExcludeWarned, DP!Confirm, DP!Decline, DP!NoAnswer, DP!SoftDelete,
       DP!SoftDeleteFails, DP!SoftDone, DP!HardDelete, DP!HardDeleteFails, DP!HardDone, DP!Crash,
       DP!Stop, DP!Proceed, DP!flags

LEMMA DeleteStepIInv ==
  ASSUME IInv, DeleteStep
  PROVE  IInv'
<1>1. DP!Next
  BY DeletingStep DEF DeleteStep
<1>2. DP!IInv'
  BY <1>1, DeletionAssumed, DP!StepIInv DEF IInv
<1>3. Stages'
  BY DEF IInv, DeleteStep, Stages
<1>4. FileKept'
  BY <1>1, DeletionKeepsFile DEF IInv, DeleteStep, FileKept
<1>5. Scanning' /\ Analysing'
  BY DEF DeleteStep, Scanning, Analysing
<1> QED
  BY <1>2, <1>3, <1>4, <1>5 DEF IInv

LEMMA StutterIInv ==
  ASSUME IInv, UNCHANGED vars
  PROVE  IInv'
<1>1. log' \subseteq Written
  BY DEF vars, IInv, Stages
<1> QED
  BY <1>1, LogIInv DEF vars

LEMMA StepIInv ==
  ASSUME Recognised, Covered, ListsSelected, IInv, [Next]_vars
  PROVE  IInv'
BY ProduceIInv, EndTransactionIInv, StartScanIInv, ScanTopicIInv, StartAnalysisIInv, AnalyseIInv, WriteManifestIInv,
   AbandonScanIInv, DeleteStepIInv, StutterIInv DEF Next

-----------------------------------------------------------------------------
\* A DELETE that takes effect is of a version that the manifest offers, and
\* what the manifest offers is not in use.
LEMMA DeleteStepRetires ==
  ASSUME IInv, DeleteStep
  PROVE  [Promise!Next]_Promise!vars
<1>1. DP!Next
  BY DeletingStep DEF DeleteStep
<1>2. kept' = kept
  BY DEF DeleteStep
<1>3. CASE state' = state
  BY <1>2, <1>3 DEF Promise!vars
<1>4. CASE state' # state
  <2>1. PICK k \in Keys :
          /\ DP!Statuses(k) \cap ({DP!SafeStatus} \cup DP!WarnStatuses) # {}
          /\ \/ state[k] = "live" /\ state' = [state EXCEPT ![k] = "soft"]
             \/ state[k] = "soft" /\ state' = [state EXCEPT ![k] = "gone"]
    BY <1>1, <1>4, DeletionAssumed, DP!DeletesOffered DEF IInv
  <2>2. PICK n \in DOMAIN manifest.candidates :
          /\ manifest.candidates[n].key = k
          /\ manifest.candidates[n].status \in {DP!SafeStatus} \cup DP!WarnStatuses
    BY <2>1 DEF DP!Statuses
  <2>3. manifest.candidates[n].status \notin Blocked
    BY <2>2 DEF DP!SafeStatus, DP!WarnStatuses, Blocked, Analysis!BlockedStatuses
  <2>4. k \notin kept
    BY <2>2, <2>3 DEF IInv, FileKept
  <2>5. Promise!Retire(k)
    BY <1>2, <2>1, <2>4 DEF Promise!Retire
  <2> QED
    BY <2>5 DEF Promise!Next
<1> QED
  BY <1>3, <1>4

LEMMA StepRetires ==
  ASSUME IInv, [Next]_vars
  PROVE  [Promise!Next]_Promise!vars
<1>1. CASE WriteManifest
  <2>1. state' = state
    BY <1>1 DEF WriteManifest, deleteVars
  <2>2. CASE UNCHANGED fileVars
    BY <2>1, <2>2 DEF fileVars, Promise!vars
  <2>3. CASE kept' = InUse(atStart)
    <3>1. kept' \in SUBSET Keys
      BY <2>3, CleanupAssumption DEF InUse, CleanupAssumption
    <3> QED
      BY <2>1, <3>1 DEF Promise!Next, Promise!Learn
  <2> QED
    BY <1>1, <2>2, <2>3 DEF WriteManifest
<1>2. CASE DeleteStep
  BY <1>2, DeleteStepRetires
<1>3. CASE Produce \/ EndTransaction \/ StartAnalysis \/ Analyse \/ AbandonScan \/ \E t \in Topics : ScanTopic(t)
  BY <1>3 DEF Produce, EndTransaction, StartAnalysis, Analyse, AbandonScan, ScanTopic, fileVars, deleteVars, Promise!vars
<1>4. CASE StartScan
  BY <1>4 DEF StartScan, fileVars, Promise!vars
<1>5. CASE UNCHANGED vars
  BY <1>5 DEF vars, fileVars, deleteVars, Promise!vars
<1> QED
  BY <1>1, <1>2, <1>3, <1>4, <1>5 DEF Next

(* Whatever is scanned, fails, is written, read, confirmed, forced, killed  *)
(* and repeated: versions are retired in two steps, and none that a message *)
(* used which could be read when the scan of the manifest began.  So it is  *)
(* if a scan recognises what messages carry, if every topic that may hold   *)
(* messages of a selected subject is scanned and hidden by no longer one,   *)
(* and if no listing brings in a subject that was not selected.  Messages   *)
(* behind an open transaction when a scan begins are outside the promise.   *)
THEOREM KeepsPromise ==
  ASSUME Recognised, Covered, ListsSelected
  PROVE  Spec => ImplementsPromise
<1>1. Init => Promise!Init
  BY DEF Init, Promise!Init
<1>2. IInv /\ [Next]_vars => IInv'
  BY StepIInv
<1>3. IInv /\ [Next]_vars => [Promise!Next]_Promise!vars
  BY StepRetires
<1> QED
  BY <1>1, <1>2, <1>3, InitIInv, PTL DEF Spec, ImplementsPromise, Promise!Spec

-----------------------------------------------------------------------------
(* The conditions, where the code and its surroundings grant them.         *)

\* On Confluent Platform, and on Cloud with all subjects selected, nothing
\* else is listed.
LEMMA ListsSelectedOnCP ==
  ASSUME Platform = "cp" \/ Selected = Subjects
  PROVE  ListsSelected
BY DEF ListsSelected, ListedFor

\* Each ID that is meant is written in one of the forms that are read.
Serialized(m) ==
    \A u \in m.uses : \E id, role :
      u = <<id, role>> /\ IsID(id) /\ Carries(m.raw, id, role)

LEMMA SerializedRecognised ==
  ASSUME \A m \in Messages : Serialized(m)
  PROVE  Recognised
BY CarriedIsFound DEF Serialized, Recognised

(* The promise in terms of bytes and flags: it is kept when serializers     *)
(* write their IDs behind the magic byte or in a header, as four bytes or   *)
(* as a text of any length but four, when all subjects are selected or the  *)
(* platform is CP, and when their topics are scanned and none hides another.*)
(* It speaks of what could be read when the scan began.                     *)
THEOREM SerializedKeepsPromise ==
  ASSUME \A m \in Messages : Serialized(m), Covered,
         Platform = "cp" \/ Selected = Subjects
  PROVE  Spec => ImplementsPromise
BY SerializedRecognised, ListsSelectedOnCP, KeepsPromise
=============================================================================

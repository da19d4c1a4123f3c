------------------------------- MODULE Safety -------------------------------
(***************************************************************************)
(* The analysis of deletion candidates (pkg/safety.go, called by runScan): *)
(* the listed versions whose ID no scanned message uses become candidates, *)
(* and a fixed sequence of checks blocks some of them.  Every check asks   *)
(* the Schema Registry, which other clients keep using, through calls that *)
(* may fail.                                                               *)
(*                                                                         *)
(* A key is <<subject, version>>.  The registry maps the registered keys   *)
(* to [id, imports, rules]; what a version holds never changes, and the    *)
(* same content gets the same ID under another subject.  A rule is         *)
(* [place, encrypts, disabled, refs], refs being the keys that its         *)
(* parameters name in the form subject:version.                            *)
(*                                                                         *)
(* Cloud lists by prefix, so that a selected subject whose name begins     *)
(* with another selected one is listed again for that one, and each entry  *)
(* of the listing becomes a candidate of its own.  An entry is <<key, n>>, *)
(* the n-th time the key is listed.                                        *)
(***************************************************************************)
EXTENDS Integers

CONSTANTS
    Subjects,      \* names of subjects
    Versions,      \* version numbers
    Ids,           \* schema IDs
    KindOf,        \* by the subject's suffix: "key", "value" or "other"
    Qualified,     \* subjects with a context prefix, ":.context:name"
    Scenarios,     \* what a run may start from, see ScenarioOK
    Registrations, \* keys with the version that clients may register meanwhile
    CallsMayFail   \* whether the platform's answers may be errors

Keys == Subjects \X Versions
Places == {"domain", "migration", "encoding"}
Rules == [place : Places, encrypts : BOOLEAN, disabled : BOOLEAN, refs : SUBSET Keys]
SchemaVersions == [id : Ids, imports : SUBSET Keys, rules : SUBSET Rules]
Roles == {"key", "value"}

\* An ID stands for a content.
SameIdSameContent(v, w) == v.id = w.id => v = w

(***************************************************************************)
(* registry: what is registered when ListSchemas answers.  copies: how     *)
(* often a version is listed, 0 outside the listing.  active: the report   *)
(* of the scan.  ownRules: subjects with a default or an override rule     *)
(* set.  globalRules: the global default rule set.  transitive: subjects   *)
(* whose level, own or global, is transitive.  unverified: the subjects    *)
(* tied to a failed topic.                                                 *)
(***************************************************************************)
ScenarioOK(x) ==
    /\ \E D \in SUBSET Keys : x.registry \in [D -> SchemaVersions]
    /\ \A k, m \in DOMAIN x.registry : SameIdSameContent(x.registry[k], x.registry[m])
    /\ x.copies \in [DOMAIN x.registry -> Nat]
    /\ x.active \subseteq Ids \X Roles
    /\ x.ownRules \subseteq Subjects
    /\ x.globalRules \subseteq Rules
    /\ x.transitive \subseteq Subjects
    /\ x.unverified \subseteq Subjects

ASSUME SafetyAssumption ==
    /\ Versions \subseteq Nat
    /\ KindOf \in [Subjects -> Roles \cup {"other"}]
    /\ Qualified \subseteq Subjects
    /\ \A x \in Scenarios : ScenarioOK(x)
    /\ Registrations \subseteq Keys \X SchemaVersions
    /\ CallsMayFail \in BOOLEAN

BlockedStatuses ==
    {"blocked_by_references", "blocked_by_migration_chain", "blocked_by_encryption_rules",
     "blocked_by_rule_reference", "blocked_unverified"}
WarnStatuses == {"has_domain_rules", "has_migration_rules"}
Statuses == BlockedStatuses \cup WarnStatuses \cup {"safe"}
Reasons == {"references", "encryption", "domain", "chain", "global", "rule", "transitive", "unverified"}

\* The entries of a listing.
Listing(copies) == UNION {{k} \X (1 .. copies[k]) : k \in DOMAIN copies}

VARIABLES
    pc,        \* the check that runs next
    sc,        \* the scenario of this run, chosen once
    registry,  \* what is registered
    listed,    \* schemas, the entries that ListSchemas returned
    cand,      \* candidates, entries all: their status and the block reasons
    todo,      \* candidates whose importers have not been asked for
    late       \* history: <<e, m>> where m was registered after e's check

vars == <<pc, sc, registry, listed, cand, todo, late>>

TypeOK ==
    /\ pc \in {"unused", "references", "rules", "global", "ruleRefs", "compat", "unverified", "done"}
    /\ DOMAIN registry \subseteq Keys
    /\ listed \subseteq (DOMAIN registry) \X Nat
    /\ DOMAIN cand \subseteq listed
    /\ \A e \in DOMAIN cand : cand[e] \in [status : Statuses, reasons : SUBSET Reasons]
    /\ todo \subseteq DOMAIN cand
    /\ late \subseteq (Keys \X Nat) \X Keys

Init ==
    /\ pc = "unused"
    /\ sc \in Scenarios
    /\ registry = sc.registry
    /\ listed = Listing(sc.copies)
    /\ cand = << >>
    /\ todo = {}
    /\ late = {}

-----------------------------------------------------------------------------
IsBlocked(c) == c.status \in BlockedStatuses

Mark(c, status, reason) == [status |-> status, reasons |-> c.reasons \cup {reason}]

\* What the code may do without: the members of S whose calls fail.
FailedCalls(S) == IF CallsMayFail THEN SUBSET S ELSE {{}}

\* Mutant: disabled rules count.
AnyRules(rules) == rules

ActiveRules(rules) == {r \in rules : ~r.disabled}

\* Mutant: the encoding rules are forgotten.
HasEncryptionOutsideEncoding(rules) ==
    \E r \in ActiveRules(rules) : r.encrypts /\ r.place # "encoding"

HasEncryptionRules(rules) == \E r \in ActiveRules(rules) : r.encrypts

RulesAt(place, rules) == {r \in ActiveRules(rules) : r.place = place}

Importers(k) == {m \in DOMAIN registry : k \in registry[m].imports}

ListedKeys == {e[1] : e \in listed}
CandidateKeys == {e[1] : e \in DOMAIN cand}
InUse == ListedKeys \ CandidateKeys
VersionsOf(s) == {k \in ListedKeys : k[1] = s}

-----------------------------------------------------------------------------
\* A client registers a version; identical content reuses an ID.
Register ==
    /\ pc # "done"
    /\ \E kv \in Registrations :
         /\ kv[1] \notin DOMAIN registry
         /\ kv[2].imports \subseteq DOMAIN registry
         /\ \A k \in DOMAIN registry : SameIdSameContent(kv[2], registry[k])
         /\ registry' = [k \in DOMAIN registry \cup {kv[1]} |->
                           IF k = kv[1] THEN kv[2] ELSE registry[k]]
         /\ late' = late \cup {<<e, kv[1]>> : e \in {x \in DOMAIN cand \ todo : x[1] \in kv[2].imports}}
    /\ UNCHANGED <<pc, sc, listed, cand, todo>>

\* By the suffix of the subject only one role counts, otherwise both do.
Unused(k) ==
    IF KindOf[k[1]] \in Roles
    THEN <<registry[k].id, KindOf[k[1]]>> \notin sc.active
    ELSE \A r \in Roles : <<registry[k].id, r>> \notin sc.active

\* Mutant: what has been registered since the listing is a candidate too.
UnusedRegistered == {<<k, 1>> : k \in {x \in DOMAIN registry : Unused(x)}}

UnusedListed == {e \in listed : Unused(e[1])}

FindUnused ==
    /\ pc = "unused"
    /\ pc' = "references"
    /\ todo' = UnusedListed
    /\ cand' = [e \in todo' |-> [status |-> "safe", reasons |-> {}]]
    /\ UNCHANGED <<sc, registry, listed, late>>

\* Mutant: the importers that are in use count as candidates.
ListedIds == {registry[k].id : k \in ListedKeys}

CandidateIds == {registry[k].id : k \in CandidateKeys}

\* checkReferences for one candidate: GetReferencedBy answers with IDs.
CheckReferences(e) ==
    /\ pc = "references"
    /\ e \in todo
    /\ todo' = todo \ {e}
    /\ \E failed \in FailedCalls({e}) :
         IF e \notin failed /\ \E m \in Importers(e[1]) : registry[m].id \notin CandidateIds
         THEN cand' = [cand EXCEPT ![e] = Mark(@, "blocked_by_references", "references")]
         ELSE cand' = cand
    /\ UNCHANGED <<pc, sc, registry, listed, late>>

-----------------------------------------------------------------------------
(* checkRules: the rules of each candidate, then the migration chain of    *)
(* each subject.  Only the candidates of one subject read one another, so  *)
(* the order of the subjects (a Go map's) does not show.                   *)

WithOwnRules(c, rules) ==
    IF IsBlocked(c) THEN c
    ELSE IF HasEncryptionRules(rules)
         THEN Mark(c, "blocked_by_encryption_rules", "encryption")
    ELSE LET domain == RulesAt("domain", rules) # {}
             migration == RulesAt("migration", rules) # {}
         IN [status  |-> IF domain THEN "has_domain_rules"
                         ELSE IF migration THEN "has_migration_rules" ELSE c.status,
             reasons |-> c.reasons \cup (IF domain THEN {"domain"} ELSE {})]

HasMigrationRules(k) == RulesAt("migration", registry[k].rules) # {}

Between(k) ==
    /\ \E a \in InUse \cap VersionsOf(k[1]) : a[2] < k[2]
    /\ \E b \in InUse \cap VersionsOf(k[1]) : b[2] > k[2]

\* Mutant: only a version that carries migration rules itself is protected.
BreaksOwnChain(k, failed) ==
    /\ k \notin failed /\ HasMigrationRules(k)
    /\ Between(k)

\* failed: the versions whose detail the chain check could not read.
BreaksChain(k, failed) ==
    /\ \E v \in VersionsOf(k[1]) \ failed : HasMigrationRules(v)
    /\ Between(k)

WithChain(c, k, failed) ==
    IF ~IsBlocked(c) /\ BreaksChain(k, failed)
    THEN Mark(c, "blocked_by_migration_chain", "chain")
    ELSE c

CheckRules ==
    /\ pc = "references"
    /\ todo = {}
    /\ pc' = "global"
    /\ \E noDetail \in FailedCalls(DOMAIN cand), noChain \in FailedCalls(ListedKeys) :
         cand' = [e \in DOMAIN cand |->
                    WithChain(IF e \in noDetail THEN cand[e]
                              ELSE WithOwnRules(cand[e], registry[e[1]].rules),
                              e[1], noChain)]
    /\ UNCHANGED <<sc, registry, listed, todo, late>>

-----------------------------------------------------------------------------
\* Only a subject without rules of its own inherits the global ones.
WithGlobalRules(c, inherits) ==
    IF ~IsBlocked(c) /\ inherits /\ HasEncryptionRules(sc.globalRules)
    THEN Mark(c, "blocked_by_encryption_rules", "global")
    ELSE c

\* A failed GetGlobalConfig is the same as failing for every candidate.  unread:
\* a configuration with rules is taken for an empty one (Cloud).
CheckGlobalRules ==
    /\ pc = "global"
    /\ pc' = "ruleRefs"
    /\ \E failed \in FailedCalls(DOMAIN cand), unread \in FailedCalls(DOMAIN cand) :
         cand' = [e \in DOMAIN cand |->
                    IF e \in failed THEN cand[e]
                    ELSE WithGlobalRules(cand[e], e[1][1] \notin sc.ownRules \/ e \in unread)]
    /\ UNCHANGED <<sc, registry, listed, todo, late>>

\* Mutant: the parameters of the domain rules only.
DomainSchemaRefs(rules) ==
    {k \in UNION {r.refs : r \in RulesAt("domain", rules)} : k[1] \notin Qualified}

\* A parameter is split at its first colon, so a context-qualified subject
\* leaves no number behind it and is not taken for a reference.
SchemaRefs(rules) == {k \in UNION {r.refs : r \in ActiveRules(rules)} : k[1] \notin Qualified}

RuleTargets(failed) == UNION {SchemaRefs(registry[m].rules) : m \in InUse \ failed}

\* candidateByKey: of several candidates for a version, the last.
LastEntry(k) == <<k, sc.copies[k]>>

CheckRuleReferences ==
    /\ pc = "ruleRefs"
    /\ pc' = "compat"
    /\ \E failed \in FailedCalls(InUse) :
         cand' = [e \in DOMAIN cand |->
                    IF e[1] \in RuleTargets(failed) /\ e = LastEntry(e[1]) /\ ~IsBlocked(cand[e])
                    THEN Mark(cand[e], "blocked_by_rule_reference", "rule")
                    ELSE cand[e]]
    /\ UNCHANGED <<sc, registry, listed, todo, late>>

-----------------------------------------------------------------------------
\* CheckCompatibility asks once for a subject; it adds a reason and leaves the
\* status alone.
CheckCompatibility ==
    /\ pc = "compat"
    /\ pc' = "unverified"
    /\ \E failed \in FailedCalls({k[1] : k \in CandidateKeys}) :
         cand' = [e \in DOMAIN cand |->
                    IF e[1][1] \in sc.transitive \ failed /\ ~IsBlocked(cand[e])
                    THEN Mark(cand[e], cand[e].status, "transitive")
                    ELSE cand[e]]
    /\ UNCHANGED <<sc, registry, listed, todo, late>>

\* Mutants: a warned candidate keeps its warning; the status is overwritten.
UnverifySafeOnly(c) ==
    Mark(c, IF c.status # "safe" THEN c.status ELSE "blocked_unverified", "unverified")
UnverifyAnyway(c) == Mark(c, "blocked_unverified", "unverified")

\* A blocked candidate keeps its more specific status, and gets the reason.
Unverify(c) ==
    Mark(c, IF IsBlocked(c) THEN c.status ELSE "blocked_unverified", "unverified")

MarkUnverified ==
    /\ pc = "unverified"
    /\ pc' = "done"
    /\ cand' = [e \in DOMAIN cand |->
                  IF e[1][1] \in sc.unverified THEN Unverify(cand[e]) ELSE cand[e]]
    /\ UNCHANGED <<sc, registry, listed, todo, late>>

-----------------------------------------------------------------------------
Next ==
    \/ FindUnused
    \/ \E e \in todo : CheckReferences(e)
    \/ CheckRules
    \/ CheckGlobalRules
    \/ CheckRuleReferences
    \/ CheckCompatibility
    \/ MarkUnverified
    \/ Register

Spec == Init /\ [][Next]_vars

-----------------------------------------------------------------------------
\* What GetSafe and GetWarned will hand to a deletion: a version is deleted
\* when any of its entries is among them.
Deletable == {e \in DOMAIN cand : ~IsBlocked(cand[e])}
DeletableKeys == {e[1] : e \in Deletable}

RulesFor(k) == registry[k].rules \cup (IF k[1] \in sc.ownRules THEN {} ELSE sc.globalRules)

(* Nothing imports a deletable version but other candidates and versions    *)
(* that were registered after its importers had been asked for.             *)
ImportersAreCandidates ==
    pc = "done" =>
      \A e \in Deletable : \A m \in Importers(e[1]) :
        m \in CandidateKeys \/ <<e, m>> \in late

(* No deletable version has an enabled encryption rule, be it in its own    *)
(* rule set or in the global one that its subject inherits.                 *)
EncryptionBlocks ==
    pc = "done" =>
      \A k \in DeletableKeys : \A r \in RulesFor(k) : r.encrypts => r.disabled

(* Between two versions in use of a subject that migrates messages, no      *)
(* version is deletable: each may be a step of the path between them.       *)
MigrationPathIntact ==
    pc = "done" =>
      \A a, b \in InUse : \A k \in DeletableKeys :
        /\ a[1] = k[1] /\ b[1] = k[1]
        /\ a[2] < k[2] /\ k[2] < b[2]
        => \A v \in VersionsOf(k[1]) :
             \A r \in registry[v].rules : r.place = "migration" => r.disabled

(* When an enabled rule of a version in use names a candidate, without a    *)
(* context, the last entry of that candidate is not deletable.              *)
RuleTargetsKept ==
    pc = "done" =>
      \A m \in InUse : \A r \in registry[m].rules :
        ~r.disabled =>
          \A k \in r.refs \cap CandidateKeys : k[1] \in Qualified \/ LastEntry(k) \notin Deletable

(* "Blocked: an active schema's rule references this version" (README.md):  *)
(* no enabled rule of a version in use names a deletable version, however   *)
(* it is written and however often the version has been listed.  The code   *)
(* keeps this only for versions listed once and names without a context,    *)
(* see TargetsBlocked in SafetyProofs.                                      *)
RuleTargetsBlocked ==
    pc = "done" =>
      \A m \in InUse : \A r \in registry[m].rules :
        ~r.disabled => r.refs \cap DeletableKeys = {}

(* No version of a subject that could not be verified is deletable, a       *)
(* warned one no more than a safe one.                                      *)
UnverifiedKept == pc = "done" => \A k \in DeletableKeys : k[1] \notin sc.unverified

(* A candidate that a check has blocked keeps that status to the end: the   *)
(* later checks can neither release it nor hide why it was blocked.         *)
BlockedStaysBlocked ==
    [][\A e \in DOMAIN cand : IsBlocked(cand[e]) =>
         e \in DOMAIN cand' /\ cand'[e].status = cand[e].status]_vars

\* What the status of a candidate for version k says is true.
HasCause(k, status) ==
    /\ status = "blocked_by_references" => Importers(k) # {}
    /\ status = "blocked_by_encryption_rules" =>
         \E r \in RulesFor(k) : r.encrypts /\ ~r.disabled
    /\ status = "blocked_by_migration_chain" =>
         \E v \in VersionsOf(k[1]), a, b \in InUse :
           /\ a[1] = k[1] /\ b[1] = k[1] /\ a[2] < k[2] /\ k[2] < b[2]
           /\ \E r \in registry[v].rules : r.place = "migration" /\ ~r.disabled
    /\ status = "blocked_by_rule_reference" =>
         \E m \in InUse : \E r \in registry[m].rules : ~r.disabled /\ k \in r.refs
    /\ status = "blocked_unverified" => k[1] \in sc.unverified
    /\ status = "has_domain_rules" =>
         \E r \in registry[k].rules : r.place = "domain" /\ ~r.disabled
    /\ status = "has_migration_rules" =>
         \E r \in registry[k].rules : r.place = "migration" /\ ~r.disabled

(* A candidate is blocked or warned about only for a cause that exists, so  *)
(* that an analysis does not withhold a version, or ask about it, for rules *)
(* that are disabled or not its own.                                        *)
StatusHasCause == pc = "done" => \A e \in DOMAIN cand : HasCause(e[1], cand[e].status)

(* "Subjects tied to a topic we couldn't scan have unverifiable usage;      *)
(* block them so a partial scan can never delete a schema that is still in  *)
(* use" (cmd/root.go): what such a subject imports may be in use as well.   *)
UnverifiedImporterBlocks ==
    pc = "done" =>
      \A e \in Deletable : \A m \in Importers(e[1]) :
        m[1] \notin sc.unverified \/ <<e, m>> \in late
=============================================================================

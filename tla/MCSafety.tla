------------------------------ MODULE MCSafety ------------------------------
(***************************************************************************)
(* Instances of Safety.  Subject a (a topic's values) has three versions;  *)
(* the keys of topic b have one, which imports something; q is a record's  *)
(* subject in a context, so that no suffix tells its role.                 *)
(***************************************************************************)
EXTENDS Safety

CONSTANTS a, b, q

MCSubjects == {a, b, q}
MCVersions == 1 .. 3
MCKindOf == [s \in MCSubjects |-> CASE s = a -> "value" [] s = b -> "key" [] OTHER -> "other"]
MCQualified == {q}
MCIds == 1 .. 6

a1 == <<a, 1>>
a2 == <<a, 2>>
a3 == <<a, 3>>
b1 == <<b, 1>>
b2 == <<b, 2>>
q1 == <<q, 1>>

Base == {a1, a2, a3, b1, q1}
DistinctId == [k \in Base |-> CASE k = a1 -> 1 [] k = a2 -> 2 [] k = a3 -> 3 [] k = b1 -> 4 [] k = q1 -> 5]

\* b1 is registered with the content, and so with the ID, of a1.
SharedId == [DistinctId EXCEPT ![b1] = 1]

Rule(place, encrypts, disabled, refs) ==
    [place |-> place, encrypts |-> encrypts, disabled |-> disabled, refs |-> refs]

Plain(place) == Rule(place, FALSE, FALSE, {})

\* What one rule set may hold: nothing, one rule, or two of different places.
RuleSets ==
    { {},
      {Plain("migration")},
      {Plain("domain"), Rule("migration", FALSE, TRUE, {})},
      {Rule("domain", FALSE, FALSE, {}), Rule("encoding", TRUE, FALSE, {})},
      {Rule("migration", TRUE, TRUE, {})},
      {Rule("encoding", FALSE, FALSE, {a2, q1})} }

Registry(ids, rulesOf, importsOf) ==
    [k \in Base |-> [id |-> ids[k], imports |-> importsOf[k], rules |-> rulesOf[k]]]

\* How often a version is listed: once; or a's are, and one of them twice.
Once == [k \in Base |-> 1]
Twice(x) == [k \in Base |-> IF k = x THEN 2 ELSE IF k[1] = a THEN 1 ELSE 0]

\* At most two versions carry rules, one of subject a and one other.
RuleAssignments ==
    { [k \in Base |-> IF k = x THEN rx ELSE IF k = y THEN ry ELSE {}] :
        x \in {a1, a2}, y \in {b1, q1}, rx \in RuleSets, ry \in {{}, {Plain("domain")}, {Rule("encoding", FALSE, FALSE, {a2, q1})}} }

\* b1 imports a version of a, or q1, which imports one in turn.
ImportAssignments ==
    { [k \in Base |-> IF k = b1 THEN x ELSE IF k = q1 THEN y ELSE {}] :
        x \in {{}, {a2}, {q1}}, y \in {{}, {a1}} }

\* What the scan saw: any of the versions of a, and b1 or q1 or neither.
ActiveSets ==
    { {<<i, "value">> : i \in as} \cup bs :
        as \in SUBSET (1 .. 3), bs \in {{}, {<<4, "key">>}, {<<4, "value">>, <<5, "value">>}} }

Scenario(registry_, copies, active, ownRules, globalRules, transitive, unverified) ==
    [registry |-> registry_, copies |-> copies, active |-> active, ownRules |-> ownRules,
     globalRules |-> globalRules, transitive |-> transitive, unverified |-> unverified]

MCScenarios ==
    { Scenario(Registry(DistinctId, rs, is), copies, act, {a}, gr, {a}, un) :
        rs \in RuleAssignments, is \in ImportAssignments, act \in ActiveSets,
        gr \in {{}, {Rule("domain", TRUE, FALSE, {})}}, un \in {{}, {a}},
        copies \in {Once, Twice(a2)} }

\* A new version of b that imports a1 and a2.
MCRegistrations == {<<b2, [id |-> 6, imports |-> {a1, a2}, rules |-> {}]>>}

NoRules == [k \in Base |-> {}]

\* One schema, q1's importer, is the value of topic a and the key of topic b.
SharedScenarios ==
    { Scenario(Registry(SharedId, NoRules, [k \in Base |-> IF k \in {a1, b1} THEN {q1} ELSE {}]),
               Once, act \cup ks, {}, {}, {}, {}) :
        act \in ActiveSets, ks \in SUBSET {<<1, "key">>} }

\* The topic of b could not be scanned.
UnverifiedScenarios ==
    { Scenario(Registry(DistinctId, NoRules, is), Once, act, {}, {}, {}, {b}) :
        is \in ImportAssignments, act \in ActiveSets }

\* a1 has an encryption rule and nothing is in use.
EncryptedScenarios ==
    { Scenario(Registry(DistinctId, [NoRules EXCEPT ![a1] = {Rule(place, TRUE, FALSE, {})}], is),
               Once, {}, {a}, {}, {}, {}) :
        place \in Places, is \in ImportAssignments }
=============================================================================

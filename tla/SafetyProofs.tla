---------------------------- MODULE SafetyProofs ----------------------------
(***************************************************************************)
(* Proofs about Safety, for every set of subjects, versions, scenarios and *)
(* registrations: type correctness, that no pass releases a candidate, and *)
(* what a deletable version cannot be.  The theorems about a check that    *)
(* asks the registry assume that its calls answer.                         *)
(***************************************************************************)
EXTENDS Safety, TLAPS

\* The candidates are a function, empty until they have been found, and the
\* reference check leaves none out.
Shape ==
    /\ cand = [e \in DOMAIN cand |-> cand[e]]
    /\ pc = "unused" => DOMAIN cand = {} /\ todo = {}
    /\ pc \notin {"unused", "references"} => todo = {}
    /\ \A e \in todo : cand[e].status = "safe"
    /\ sc \in Scenarios
    /\ listed = Listing(sc.copies)

IInv == TypeOK /\ Shape

\* What a pass after FindUnused does to the candidates: it names the same ones
\* and releases none, of those it blocks or finds blocked.
Tightens ==
    /\ cand' = [e \in DOMAIN cand |-> cand'[e]]
    /\ DOMAIN cand' = DOMAIN cand
    /\ \A e \in DOMAIN cand :
         /\ cand'[e] \in [status : Statuses, reasons : SUBSET Reasons]
         /\ IsBlocked(cand[e]) => cand'[e].status = cand[e].status

\* What stays as it is in every step after FindUnused.
Settled ==
    /\ listed' = listed /\ sc' = sc
    /\ \A k \in DOMAIN registry : k \in DOMAIN registry' /\ registry'[k] = registry[k]

-----------------------------------------------------------------------------
LEMMA MarkType ==
  ASSUME NEW c \in [status : Statuses, reasons : SUBSET Reasons],
         NEW status \in Statuses, NEW reason \in Reasons
  PROVE  /\ Mark(c, status, reason) \in [status : Statuses, reasons : SUBSET Reasons]
         /\ Mark(c, status, reason).status = status
BY DEF Mark

LEMMA StatusNames ==
  /\ BlockedStatuses \subseteq Statuses
  /\ {"safe", "has_domain_rules", "has_migration_rules"} \subseteq Statuses
BY DEF Statuses, WarnStatuses

(* The passes, one candidate at a time: a blocked one keeps its status.    *)
LEMMA WithOwnRulesTightens ==
  ASSUME NEW c \in [status : Statuses, reasons : SUBSET Reasons], NEW rules
  PROVE  /\ WithOwnRules(c, rules) \in [status : Statuses, reasons : SUBSET Reasons]
         /\ IsBlocked(c) => WithOwnRules(c, rules) = c
<1>1. CASE IsBlocked(c)
  BY <1>1 DEF WithOwnRules
<1>2. CASE ~IsBlocked(c) /\ HasEncryptionRules(rules)
  BY <1>2, MarkType, StatusNames DEF WithOwnRules, BlockedStatuses, Reasons
<1>3. CASE ~IsBlocked(c) /\ ~HasEncryptionRules(rules)
  BY <1>3, StatusNames DEF WithOwnRules, Reasons
<1> QED
  BY <1>1, <1>2, <1>3

LEMMA WithChainTightens ==
  ASSUME NEW c \in [status : Statuses, reasons : SUBSET Reasons], NEW k, NEW failed
  PROVE  /\ WithChain(c, k, failed) \in [status : Statuses, reasons : SUBSET Reasons]
         /\ IsBlocked(c) => WithChain(c, k, failed) = c
BY MarkType, StatusNames DEF WithChain, BlockedStatuses, Reasons

LEMMA WithGlobalRulesTightens ==
  ASSUME NEW c \in [status : Statuses, reasons : SUBSET Reasons], NEW inherits
  PROVE  /\ WithGlobalRules(c, inherits) \in [status : Statuses, reasons : SUBSET Reasons]
         /\ IsBlocked(c) => WithGlobalRules(c, inherits) = c
BY MarkType, StatusNames DEF WithGlobalRules, BlockedStatuses, Reasons

LEMMA UnverifyTightens ==
  ASSUME NEW c \in [status : Statuses, reasons : SUBSET Reasons]
  PROVE  /\ Unverify(c) \in [status : Statuses, reasons : SUBSET Reasons]
         /\ IsBlocked(c) => Unverify(c).status = c.status
         /\ IsBlocked(Unverify(c))
BY MarkType, StatusNames DEF Unverify, IsBlocked, BlockedStatuses, Reasons

-----------------------------------------------------------------------------
(* The passes as actions.                                                  *)
LEMMA CheckReferencesTightens ==
  ASSUME IInv, NEW e \in todo, CheckReferences(e)
  PROVE  Tightens
<1> DEFINE m == Mark(cand[e], "blocked_by_references", "references")
<1>1. CASE cand' = cand
  BY <1>1 DEF IInv, TypeOK, Shape, Tightens
<1>2. CASE cand' = [cand EXCEPT ![e] = m]
  <2>1. e \in DOMAIN cand /\ cand[e] \in [status : Statuses, reasons : SUBSET Reasons]
    BY DEF IInv, TypeOK
  <2>2. ~IsBlocked(cand[e])
    BY DEF IInv, Shape, IsBlocked, BlockedStatuses
  <2>3. m \in [status : Statuses, reasons : SUBSET Reasons]
    BY <2>1, MarkType, StatusNames DEF BlockedStatuses, Reasons
  <2> HIDE DEF m
  <2>4. cand' = [j \in DOMAIN cand |-> IF j = e THEN m ELSE cand[j]]
    BY <1>2
  <2> QED
    BY <2>1, <2>2, <2>3, <2>4 DEF IInv, TypeOK, Tightens
<1> QED
  BY <1>1, <1>2 DEF CheckReferences

LEMMA CheckRulesTightens ==
  ASSUME IInv, CheckRules
  PROVE  Tightens
<1>1. PICK noDetail \in FailedCalls(DOMAIN cand), noChain \in FailedCalls(ListedKeys) :
         cand' = [e \in DOMAIN cand |->
                    WithChain(IF e \in noDetail THEN cand[e]
                              ELSE WithOwnRules(cand[e], registry[e[1]].rules),
                              e[1], noChain)]
  BY DEF CheckRules
<1>2. ASSUME NEW e \in DOMAIN cand
      PROVE  /\ cand'[e] \in [status : Statuses, reasons : SUBSET Reasons]
             /\ IsBlocked(cand[e]) => cand'[e].status = cand[e].status
  <2> DEFINE c == IF e \in noDetail THEN cand[e] ELSE WithOwnRules(cand[e], registry[e[1]].rules)
  <2>1. cand[e] \in [status : Statuses, reasons : SUBSET Reasons]
    BY DEF IInv, TypeOK
  <2>2. c \in [status : Statuses, reasons : SUBSET Reasons] /\ (IsBlocked(cand[e]) => c = cand[e])
    BY <2>1, WithOwnRulesTightens
  <2>3. cand'[e] = WithChain(c, e[1], noChain)
    BY <1>1
  <2> HIDE DEF c
  <2> QED
    BY <2>2, <2>3, WithChainTightens
<1> QED
  BY <1>1, <1>2 DEF Tightens

LEMMA CheckGlobalRulesTightens ==
  ASSUME IInv, CheckGlobalRules
  PROVE  Tightens
<1>1. PICK failed \in FailedCalls(DOMAIN cand), unread \in FailedCalls(DOMAIN cand) :
         cand' = [e \in DOMAIN cand |->
                    IF e \in failed THEN cand[e]
                    ELSE WithGlobalRules(cand[e], e[1][1] \notin sc.ownRules \/ e \in unread)]
  BY DEF CheckGlobalRules
<1> QED
  BY <1>1, WithGlobalRulesTightens DEF IInv, TypeOK, Tightens

LEMMA CheckRuleReferencesTightens ==
  ASSUME IInv, CheckRuleReferences
  PROVE  Tightens
<1>1. PICK failed \in FailedCalls(InUse) :
         cand' = [e \in DOMAIN cand |->
                    IF e[1] \in RuleTargets(failed) /\ e = LastEntry(e[1]) /\ ~IsBlocked(cand[e])
                    THEN Mark(cand[e], "blocked_by_rule_reference", "rule")
                    ELSE cand[e]]
  BY DEF CheckRuleReferences
<1>2. "blocked_by_rule_reference" \in Statuses /\ "rule" \in Reasons
  BY StatusNames DEF BlockedStatuses, Reasons
<1> QED
  BY <1>1, <1>2, MarkType DEF IInv, TypeOK, Tightens

LEMMA CheckCompatibilityTightens ==
  ASSUME IInv, CheckCompatibility
  PROVE  Tightens
<1>1. PICK failed \in FailedCalls({k[1] : k \in CandidateKeys}) :
         cand' = [e \in DOMAIN cand |->
                    IF e[1][1] \in sc.transitive \ failed /\ ~IsBlocked(cand[e])
                    THEN Mark(cand[e], cand[e].status, "transitive")
                    ELSE cand[e]]
  BY DEF CheckCompatibility
<1>2. ASSUME NEW e \in DOMAIN cand PROVE cand[e].status \in Statuses
  BY DEF IInv, TypeOK
<1>3. "transitive" \in Reasons
  BY DEF Reasons
<1> QED
  BY <1>1, <1>2, <1>3, MarkType DEF IInv, TypeOK, Tightens

LEMMA MarkUnverifiedTightens ==
  ASSUME IInv, MarkUnverified
  PROVE  Tightens
BY UnverifyTightens DEF IInv, TypeOK, Tightens, MarkUnverified

-----------------------------------------------------------------------------
(* The passes after FindUnused, together.                                  *)
Pass ==
    \/ \E e \in todo : CheckReferences(e)
    \/ CheckRules \/ CheckGlobalRules \/ CheckRuleReferences
    \/ CheckCompatibility \/ MarkUnverified

LEMMA PassTightens == IInv /\ Pass => Tightens
BY CheckReferencesTightens, CheckRulesTightens, CheckGlobalRulesTightens,
   CheckRuleReferencesTightens, CheckCompatibilityTightens, MarkUnverifiedTightens DEF Pass

LEMMA PassSettled ==
  ASSUME Pass
  PROVE  registry' = registry /\ late' = late /\ listed' = listed /\ sc' = sc
BY DEF Pass, CheckReferences, CheckRules, CheckGlobalRules, CheckRuleReferences,
       CheckCompatibility, MarkUnverified

LEMMA RegisterSettled ==
  ASSUME IInv, Register
  PROVE  /\ Settled
         /\ UNCHANGED <<pc, cand, todo>>
         /\ DOMAIN registry' \subseteq Keys
         /\ late' \subseteq (Keys \X Nat) \X Keys
<1>1. PICK kv \in Registrations :
         /\ kv[1] \notin DOMAIN registry
         /\ registry' = [k \in DOMAIN registry \cup {kv[1]} |->
                           IF k = kv[1] THEN kv[2] ELSE registry[k]]
         /\ late' = late \cup {<<e, kv[1]>> : e \in {x \in DOMAIN cand \ todo : x[1] \in kv[2].imports}}
  BY DEF Register
<1>2. kv[1] \in Keys
  BY SafetyAssumption
<1>3. DOMAIN cand \subseteq Keys \X Nat /\ late \subseteq (Keys \X Nat) \X Keys
  BY DEF IInv, TypeOK
<1>4. late' \subseteq (Keys \X Nat) \X Keys
  BY <1>1, <1>2, <1>3
<1>5. UNCHANGED <<pc, sc, listed, cand, todo>>
  BY DEF Register
<1> QED
  BY <1>1, <1>2, <1>4, <1>5 DEF Settled, IInv, TypeOK

LEMMA InitIInv == Init => IInv
<1> SUFFICES ASSUME Init PROVE IInv
  OBVIOUS
<1>1. DOMAIN cand = {} /\ cand = [e \in DOMAIN cand |-> cand[e]]
  BY DEF Init
<1>2. DOMAIN registry \subseteq Keys /\ listed \subseteq (DOMAIN registry) \X Nat
  <2>1. ScenarioOK(sc) /\ registry = sc.registry
    BY SafetyAssumption DEF Init
  <2>2. PICK D \in SUBSET Keys : sc.registry \in [D -> SchemaVersions]
    BY <2>1 DEF ScenarioOK
  <2>3. sc.copies \in [D -> Nat] /\ DOMAIN registry = D
    BY <2>1, <2>2 DEF ScenarioOK
  <2>4. \A k \in D : 1 .. sc.copies[k] \subseteq Nat
    BY <2>3
  <2>5. Listing(sc.copies) \subseteq D \X Nat
    BY <2>3, <2>4 DEF Listing
  <2> QED
    BY <2>2, <2>3, <2>5 DEF Init
<1> QED
  BY <1>1, <1>2 DEF Init, IInv, TypeOK, Shape

LEMMA FindUnusedIInv ==
  ASSUME IInv, FindUnused
  PROVE  IInv'
<1>1. cand' = [e \in todo' |-> [status |-> "safe", reasons |-> {}]]
      /\ todo' = UnusedListed /\ pc' = "references"
  BY DEF FindUnused
<1>2. UnusedListed \subseteq listed
  BY DEF UnusedListed
<1>3. UNCHANGED <<sc, registry, listed, late>>
  BY DEF FindUnused
<1>4. "safe" \in Statuses
  BY StatusNames
<1> QED
  BY <1>1, <1>2, <1>3, <1>4 DEF IInv, TypeOK, Shape

LEMMA PassIInv ==
  ASSUME IInv, Pass
  PROVE  IInv'
<1>1. Tightens
  BY PassTightens
<1>2. registry' = registry /\ late' = late /\ listed' = listed /\ sc' = sc
  BY PassSettled
<1>3. /\ pc' \in {"references", "global", "ruleRefs", "compat", "unverified", "done"}
      /\ pc' # "references" => todo' = {}
      /\ todo' \subseteq todo
      /\ \A e \in todo' : cand'[e] = cand[e]
  <2>1. CASE \E e \in todo : CheckReferences(e)
    <3>1. PICK e \in todo : CheckReferences(e)
      BY <2>1
    <3>2. \A j \in todo' : j # e /\ j \in DOMAIN cand
      BY <3>1 DEF CheckReferences, IInv, TypeOK
    <3> QED
      BY <3>1, <3>2 DEF CheckReferences
  <2>2. CASE CheckRules
    BY <2>2 DEF CheckRules
  <2>3. CASE CheckGlobalRules
    BY <2>3 DEF CheckGlobalRules, IInv, Shape
  <2>4. CASE CheckRuleReferences
    BY <2>4 DEF CheckRuleReferences, IInv, Shape
  <2>5. CASE CheckCompatibility
    BY <2>5 DEF CheckCompatibility, IInv, Shape
  <2>6. CASE MarkUnverified
    BY <2>6 DEF MarkUnverified, IInv, Shape
  <2> QED
    BY <2>1, <2>2, <2>3, <2>4, <2>5, <2>6 DEF Pass
<1>4. TypeOK'
  BY <1>1, <1>2, <1>3 DEF IInv, TypeOK, Tightens
<1>5. Shape'
  BY <1>1, <1>2, <1>3 DEF IInv, Shape, Tightens
<1> QED
  BY <1>4, <1>5 DEF IInv

LEMMA StepIInv == IInv /\ [Next]_vars => IInv'
<1> SUFFICES ASSUME IInv, [Next]_vars PROVE IInv'
  OBVIOUS
<1>1. CASE FindUnused
  BY <1>1, FindUnusedIInv
<1>2. CASE Pass
  BY <1>2, PassIInv
<1>3. CASE Register
  BY <1>3, RegisterSettled DEF IInv, TypeOK, Shape, Settled
<1>4. CASE UNCHANGED vars
  BY <1>4 DEF IInv, TypeOK, Shape, vars
<1> QED
  BY <1>1, <1>2, <1>3, <1>4 DEF Next, Pass

LEMMA SpecIInv == Spec => []IInv
<1> QED
  BY InitIInv, StepIInv, PTL DEF Spec

(* Every candidate is a listed version with one of the known statuses.     *)
THEOREM TypeCorrect == Spec => []TypeOK
<1>1. IInv => TypeOK
  BY DEF IInv
<1> QED
  BY <1>1, SpecIInv, PTL

(* A candidate that a check has blocked keeps its status to the end,       *)
(* whichever calls fail and whatever is registered meanwhile.              *)
THEOREM Sticky == Spec => BlockedStaysBlocked
<1> DEFINE A == \A e \in DOMAIN cand : IsBlocked(cand[e]) =>
                  e \in DOMAIN cand' /\ cand'[e].status = cand[e].status
<1>1. ASSUME IInv, [Next]_vars PROVE [A]_vars
  <2>1. CASE FindUnused
    BY <1>1, <2>1 DEF IInv, Shape, FindUnused
  <2>2. CASE Pass
    BY <1>1, <2>2, PassTightens DEF Tightens
  <2>3. CASE Register
    BY <1>1, <2>3, RegisterSettled
  <2> QED
    BY <1>1, <2>1, <2>2, <2>3 DEF Next, Pass
<1> QED
  BY <1>1, SpecIInv, PTL DEF Spec, BlockedStaysBlocked

-----------------------------------------------------------------------------
(* What a pass establishes about the deletable versions stays true: a later *)
(* pass only takes some of them away, and registered content is immutable.  *)
Narrows ==
    /\ DOMAIN cand' = DOMAIN cand
    /\ Deletable' \subseteq Deletable
    /\ Settled

LEMMA PassNarrows ==
  ASSUME IInv, Pass
  PROVE  Narrows
<1>1. Tightens /\ Settled
  BY PassTightens, PassSettled DEF Settled
<1>2. ASSUME NEW e \in DOMAIN cand, ~IsBlocked(cand'[e]) PROVE ~IsBlocked(cand[e])
  BY <1>1, <1>2 DEF Tightens, IsBlocked
<1> QED
  BY <1>1, <1>2 DEF Narrows, Tightens, Deletable

LEMMA RegisterNarrows ==
  ASSUME IInv, Register
  PROVE  Narrows
BY RegisterSettled DEF Narrows, Deletable

LEMMA StutterNarrows ==
  ASSUME UNCHANGED vars
  PROVE  Narrows
BY DEF Narrows, Settled, Deletable, vars

LEMMA DeletableListed ==
  ASSUME IInv
  PROVE  /\ ListedKeys \subseteq DOMAIN registry
         /\ CandidateKeys \subseteq ListedKeys /\ DeletableKeys \subseteq CandidateKeys
         /\ InUse \subseteq ListedKeys
BY DEF IInv, TypeOK, Deletable, DeletableKeys, CandidateKeys, ListedKeys, InUse

LEMMA NarrowsNames ==
  ASSUME Narrows
  PROVE  /\ InUse' = InUse /\ CandidateKeys' = CandidateKeys /\ ListedKeys' = ListedKeys
         /\ DeletableKeys' \subseteq DeletableKeys
         /\ \A s : VersionsOf(s)' = VersionsOf(s)
         /\ \A k : LastEntry(k)' = LastEntry(k)
BY DEF Narrows, Settled, InUse, CandidateKeys, ListedKeys, DeletableKeys, VersionsOf, LastEntry

(* No version of an unverified subject is deletable when the analysis ends. *)
THEOREM Kept == Spec => []UnverifiedKept
<1> DEFINE K == IInv /\ UnverifiedKept
<1>1. Init => K
  BY InitIInv DEF Init, UnverifiedKept
<1>2. ASSUME K, [Next]_vars PROVE K'
  <2>1. IInv'
    BY <1>2, StepIInv
  <2>2. CASE FindUnused
    BY <2>1, <2>2 DEF FindUnused, UnverifiedKept
  <2>3. CASE MarkUnverified
    <3>1. cand' = [e \in DOMAIN cand |->
                     IF e[1][1] \in sc.unverified THEN Unverify(cand[e]) ELSE cand[e]]
          /\ sc' = sc
      BY <2>3 DEF MarkUnverified
    <3>2. ASSUME NEW e \in DOMAIN cand, e[1][1] \in sc.unverified PROVE IsBlocked(cand'[e])
      BY <1>2, <3>1, <3>2, UnverifyTightens DEF IInv, TypeOK
    <3> QED
      BY <2>1, <3>1, <3>2 DEF UnverifiedKept, Deletable, DeletableKeys
  <2>4. CASE \E e \in todo : CheckReferences(e)
    BY <2>1, <2>4 DEF CheckReferences, UnverifiedKept
  <2>5. CASE CheckRules \/ CheckGlobalRules \/ CheckRuleReferences \/ CheckCompatibility
    BY <2>1, <2>5 DEF CheckRules, CheckGlobalRules, CheckRuleReferences, CheckCompatibility, UnverifiedKept
  <2>6. CASE Register
    BY <1>2, <2>1, <2>6, RegisterNarrows, NarrowsNames, RegisterSettled DEF Settled, UnverifiedKept
  <2>7. CASE UNCHANGED vars
    BY <1>2, <2>1, <2>7 DEF vars, UnverifiedKept, Deletable, DeletableKeys
  <2> QED
    BY <1>2, <2>2, <2>3, <2>4, <2>5, <2>6, <2>7 DEF Next
<1>3. K => UnverifiedKept
  OBVIOUS
<1> QED
  BY <1>1, <1>2, <1>3, PTL DEF Spec

-----------------------------------------------------------------------------
(* The checks that ask the registry, when its calls answer.                 *)
LEMMA NoFailures ==
  ASSUME CallsMayFail = FALSE, NEW S, NEW failed \in FailedCalls(S)
  PROVE  failed = {}
BY DEF FailedCalls

\* What the checks leave: nothing encrypts a deletable version's messages, ...
OwnEncryption ==
    \A k \in DeletableKeys : \A r \in registry[k].rules : r.encrypts => r.disabled

\* ... by its own rules or by the global ones, ...
GlobalEncryption ==
    \A k \in DeletableKeys : k[1] \notin sc.ownRules =>
      \A r \in sc.globalRules : r.encrypts => r.disabled

\* ... it is no step of a migration between two versions in use, ...
PathKept ==
    \A a, b \in InUse : \A k \in DeletableKeys :
      a[1] = k[1] /\ b[1] = k[1] /\ a[2] < k[2] /\ k[2] < b[2]
      => \A v \in VersionsOf(k[1]) :
           \A r \in registry[v].rules : r.place = "migration" => r.disabled

\* ... and no rule of a version in use names a candidate whose last entry is
\* deletable.
TargetsKept ==
    \A m \in InUse : \A r \in registry[m].rules :
      ~r.disabled =>
        \A k \in r.refs \cap CandidateKeys : k[1] \in Qualified \/ LastEntry(k) \notin Deletable

Checked ==
    /\ pc \notin {"unused", "references"} => OwnEncryption /\ PathKept
    /\ pc \notin {"unused", "references", "global"} => GlobalEncryption
    /\ pc \notin {"unused", "references", "global", "ruleRefs"} => TargetsKept

LEMMA NarrowsKeeps ==
  ASSUME IInv, Narrows
  PROVE  /\ OwnEncryption => OwnEncryption'
         /\ GlobalEncryption => GlobalEncryption'
         /\ PathKept => PathKept'
         /\ TargetsKept => TargetsKept'
<1>1. /\ InUse' = InUse /\ InUse \subseteq DOMAIN registry
      /\ DeletableKeys' \subseteq DeletableKeys /\ DeletableKeys \subseteq DOMAIN registry
      /\ CandidateKeys' = CandidateKeys
  BY NarrowsNames, DeletableListed
<1>2. \A s : VersionsOf(s)' = VersionsOf(s) /\ VersionsOf(s) \subseteq DOMAIN registry
  BY NarrowsNames, DeletableListed DEF VersionsOf
<1>3. OwnEncryption => OwnEncryption'
  BY <1>1 DEF Narrows, Settled, OwnEncryption
<1>4. GlobalEncryption => GlobalEncryption'
  BY <1>1 DEF Narrows, Settled, GlobalEncryption
<1>5. PathKept => PathKept'
  BY <1>1, <1>2 DEF Narrows, Settled, PathKept
<1>6. TargetsKept => TargetsKept'
  BY <1>1, NarrowsNames DEF Narrows, Settled, TargetsKept
<1> QED
  BY <1>3, <1>4, <1>5, <1>6

(* checkRules establishes the first two facts: a candidate that it leaves   *)
(* deletable has no encryption rule and lies on no migration path.          *)
LEMMA CheckRulesChecks ==
  ASSUME CallsMayFail = FALSE, IInv, CheckRules
  PROVE  OwnEncryption' /\ PathKept'
<1>1. cand' = [e \in DOMAIN cand |->
                 WithChain(WithOwnRules(cand[e], registry[e[1]].rules), e[1], {})]
  <2>1. PICK noDetail \in FailedCalls(DOMAIN cand), noChain \in FailedCalls(ListedKeys) :
           cand' = [e \in DOMAIN cand |->
                      WithChain(IF e \in noDetail THEN cand[e]
                                ELSE WithOwnRules(cand[e], registry[e[1]].rules),
                                e[1], noChain)]
    BY DEF CheckRules
  <2>2. noDetail = {} /\ noChain = {}
    BY <2>1, NoFailures
  <2> QED
    BY <2>1, <2>2
<1>2. registry' = registry /\ listed' = listed
  BY DEF CheckRules
<1>3. ASSUME NEW e \in Deletable'
      PROVE  /\ e \in DOMAIN cand
             /\ ~HasEncryptionRules(registry[e[1]].rules)
             /\ ~BreaksChain(e[1], {})
  <2> DEFINE c == WithOwnRules(cand[e], registry[e[1]].rules)
  <2>1. e \in DOMAIN cand /\ cand'[e] = WithChain(c, e[1], {}) /\ ~IsBlocked(cand'[e])
    BY <1>1, <1>3 DEF Deletable
  <2>2. cand[e] \in [status : Statuses, reasons : SUBSET Reasons]
    BY <2>1 DEF IInv, TypeOK
  <2>3. c \in [status : Statuses, reasons : SUBSET Reasons] /\ (IsBlocked(cand[e]) => c = cand[e])
    BY <2>2, WithOwnRulesTightens
  <2>4. HasEncryptionRules(registry[e[1]].rules) => IsBlocked(c)
    BY <2>2 DEF WithOwnRules, IsBlocked, Mark, BlockedStatuses
  <2> HIDE DEF c
  <2>5. IsBlocked(c) => IsBlocked(WithChain(c, e[1], {}))
    BY <2>3, WithChainTightens
  <2>6. ~IsBlocked(c) /\ BreaksChain(e[1], {}) => IsBlocked(WithChain(c, e[1], {}))
    BY DEF WithChain, IsBlocked, Mark, BlockedStatuses
  <2> QED
    BY <2>1, <2>4, <2>5, <2>6
<1>4. ASSUME NEW k \in DeletableKeys'
      PROVE  ~HasEncryptionRules(registry[k].rules) /\ ~BreaksChain(k, {})
  BY <1>3, <1>4 DEF DeletableKeys
<1>5. OwnEncryption'
  BY <1>2, <1>4 DEF OwnEncryption, HasEncryptionRules, ActiveRules
<1>6. PathKept'
  <2> SUFFICES ASSUME NEW a \in InUse', NEW b \in InUse', NEW k \in DeletableKeys',
                      a[1] = k[1], b[1] = k[1], a[2] < k[2], k[2] < b[2],
                      NEW v \in VersionsOf(k[1]), NEW r \in registry[v].rules, r.place = "migration"
               PROVE  r.disabled
    BY <1>2 DEF PathKept, VersionsOf, ListedKeys
  <2>1. InUse' = InUse /\ InUse \subseteq ListedKeys
    BY <1>1, <1>2 DEF InUse, ListedKeys, CandidateKeys
  <2>2. a \in VersionsOf(k[1]) /\ b \in VersionsOf(k[1])
    BY <2>1 DEF VersionsOf
  <2>3. Between(k)
    BY <2>1, <2>2 DEF Between
  <2>4. ~HasMigrationRules(v)
    BY <1>4, <2>3 DEF BreaksChain
  <2> QED
    BY <2>4 DEF HasMigrationRules, RulesAt, ActiveRules
<1> QED
  BY <1>5, <1>6

LEMMA CheckGlobalRulesChecks ==
  ASSUME CallsMayFail = FALSE, IInv, CheckGlobalRules
  PROVE  GlobalEncryption'
<1>1. /\ cand' = [e \in DOMAIN cand |-> WithGlobalRules(cand[e], e[1][1] \notin sc.ownRules)]
      /\ sc' = sc
  <2>1. PICK failed \in FailedCalls(DOMAIN cand), unread \in FailedCalls(DOMAIN cand) :
           cand' = [e \in DOMAIN cand |->
                      IF e \in failed THEN cand[e]
                      ELSE WithGlobalRules(cand[e], e[1][1] \notin sc.ownRules \/ e \in unread)]
    BY DEF CheckGlobalRules
  <2>2. failed = {} /\ unread = {}
    BY <2>1, NoFailures
  <2>3. ASSUME NEW e \in DOMAIN cand
        PROVE  (e[1][1] \notin sc.ownRules \/ e \in unread) = (e[1][1] \notin sc.ownRules)
    BY <2>2
  <2> QED
    BY <2>1, <2>2, <2>3 DEF CheckGlobalRules
<1>2. ASSUME NEW e \in Deletable', e[1][1] \notin sc.ownRules
      PROVE  ~HasEncryptionRules(sc.globalRules)
  <2>1. e \in DOMAIN cand /\ ~IsBlocked(WithGlobalRules(cand[e], e[1][1] \notin sc.ownRules))
    BY <1>1, <1>2 DEF Deletable
  <2> QED
    BY <1>2, <2>1 DEF WithGlobalRules, IsBlocked, Mark, BlockedStatuses
<1> QED
  BY <1>1, <1>2 DEF GlobalEncryption, HasEncryptionRules, ActiveRules, DeletableKeys

LEMMA CheckRuleReferencesChecks ==
  ASSUME CallsMayFail = FALSE, IInv, CheckRuleReferences
  PROVE  TargetsKept'
<1>1. /\ cand' = [e \in DOMAIN cand |->
                    IF e[1] \in RuleTargets({}) /\ e = LastEntry(e[1]) /\ ~IsBlocked(cand[e])
                    THEN Mark(cand[e], "blocked_by_rule_reference", "rule")
                    ELSE cand[e]]
      /\ registry' = registry /\ listed' = listed /\ sc' = sc
  <2>1. PICK failed \in FailedCalls(InUse) :
           cand' = [e \in DOMAIN cand |->
                      IF e[1] \in RuleTargets(failed) /\ e = LastEntry(e[1]) /\ ~IsBlocked(cand[e])
                      THEN Mark(cand[e], "blocked_by_rule_reference", "rule")
                      ELSE cand[e]]
    BY DEF CheckRuleReferences
  <2>2. failed = {}
    BY <2>1, NoFailures
  <2> QED
    BY <2>1, <2>2 DEF CheckRuleReferences
<1>2. ASSUME NEW k, LastEntry(k) \in Deletable' PROVE k \notin RuleTargets({})
  <2> DEFINE e == LastEntry(k)
  <2>1. e \in DOMAIN cand /\ ~IsBlocked(cand'[e]) /\ e[1] = k /\ e = LastEntry(e[1])
    BY <1>1, <1>2 DEF Deletable, LastEntry
  <2> HIDE DEF e
  <2>2. CASE k \in RuleTargets({})
    BY <1>1, <2>1, <2>2 DEF IsBlocked, Mark, BlockedStatuses
  <2> QED
    BY <2>2
<1>3. SUFFICES ASSUME NEW m \in InUse', NEW r \in registry[m].rules, ~r.disabled,
                      NEW k \in r.refs, k[1] \notin Qualified, LastEntry(k) \in Deletable'
               PROVE  FALSE
  BY <1>1 DEF TargetsKept, LastEntry
<1>4. m \in InUse
  BY <1>1 DEF InUse, ListedKeys, CandidateKeys
<1>5. k \in SchemaRefs(registry[m].rules)
  BY <1>3 DEF SchemaRefs, ActiveRules
<1>6. k \in RuleTargets({})
  BY <1>4, <1>5 DEF RuleTargets
<1> QED
  BY <1>2, <1>3, <1>6

LEMMA StepChecked ==
  ASSUME CallsMayFail = FALSE, IInv, Checked, [Next]_vars
  PROVE  Checked'
<1>1. CASE FindUnused
  BY <1>1 DEF FindUnused, Checked
<1>2. CASE \E e \in todo : CheckReferences(e)
  BY <1>2 DEF CheckReferences, Checked
<1>3. CASE CheckRules
  BY <1>3, CheckRulesChecks DEF CheckRules, Checked
<1>4. CASE CheckGlobalRules
  <2>1. Narrows /\ pc = "global" /\ pc' = "ruleRefs"
    BY <1>4, PassNarrows DEF Pass, CheckGlobalRules
  <2> QED
    BY <1>4, <2>1, NarrowsKeeps, CheckGlobalRulesChecks DEF Checked
<1>5. CASE CheckRuleReferences
  <2>1. Narrows /\ pc = "ruleRefs" /\ pc' = "compat"
    BY <1>5, PassNarrows DEF Pass, CheckRuleReferences
  <2> QED
    BY <1>5, <2>1, NarrowsKeeps, CheckRuleReferencesChecks DEF Checked
<1>6. CASE CheckCompatibility \/ MarkUnverified
  <2>1. Narrows /\ pc \in {"compat", "unverified"}
    BY <1>6, PassNarrows DEF Pass, CheckCompatibility, MarkUnverified
  <2> QED
    BY <2>1, NarrowsKeeps DEF Checked
<1>7. CASE Register
  <2>1. Narrows /\ pc' = pc
    BY <1>7, RegisterNarrows, RegisterSettled
  <2> QED
    BY <2>1, NarrowsKeeps DEF Checked
<1>8. CASE UNCHANGED vars
  <2>1. Narrows /\ pc' = pc
    BY <1>8, StutterNarrows DEF vars
  <2> QED
    BY <2>1, NarrowsKeeps DEF Checked
<1> QED
  BY <1>1, <1>2, <1>3, <1>4, <1>5, <1>6, <1>7, <1>8 DEF Next

LEMMA SpecChecked ==
  ASSUME CallsMayFail = FALSE
  PROVE  Spec => []Checked
<1>1. Init => Checked
  BY DEF Init, Checked
<1>2. IInv /\ Checked /\ [Next]_vars => Checked'
  BY StepChecked
<1> QED
  BY <1>1, <1>2, SpecIInv, PTL DEF Spec

(* No enabled encryption rule, of its own or inherited, on a deletable      *)
(* version.                                                                 *)
THEOREM Encryption ==
  ASSUME CallsMayFail = FALSE
  PROVE  Spec => []EncryptionBlocks
<1>1. Checked => EncryptionBlocks
  BY DEF Checked, OwnEncryption, GlobalEncryption, EncryptionBlocks, RulesFor
<1> QED
  BY <1>1, SpecChecked, PTL

(* No deletable version between two versions in use of a subject that has   *)
(* migration rules.                                                         *)
THEOREM MigrationPath ==
  ASSUME CallsMayFail = FALSE
  PROVE  Spec => []MigrationPathIntact
<1>1. Checked => MigrationPathIntact
  BY DEF Checked, PathKept, MigrationPathIntact
<1> QED
  BY <1>1, SpecChecked, PTL

(* A rule of a version in use that names a candidate without a context      *)
(* blocks its last entry.                                                   *)
THEOREM Targets ==
  ASSUME CallsMayFail = FALSE
  PROVE  Spec => []RuleTargetsKept
<1>1. Checked => RuleTargetsKept
  BY DEF Checked, TargetsKept, RuleTargetsKept
<1> QED
  BY <1>1, SpecChecked, PTL

(* No rule of a version in use names a deletable version, when no name has  *)
(* a context and no version is listed twice, as on Confluent Platform.      *)
THEOREM TargetsBlocked ==
  ASSUME CallsMayFail = FALSE, Qualified = {},
         \A x \in Scenarios : \A k \in DOMAIN x.copies : x.copies[k] <= 1
  PROVE  Spec => []RuleTargetsBlocked
<1>1. ASSUME IInv, Checked, pc = "done" PROVE RuleTargetsBlocked
  <2>1. TargetsKept
    BY <1>1 DEF Checked
  <2>2. ASSUME NEW e \in Deletable PROVE e = LastEntry(e[1])
    <3>1. e \in Listing(sc.copies)
      BY <1>1, <2>2 DEF Deletable, IInv, TypeOK, Shape
    <3>2. PICK k \in DOMAIN sc.copies : e \in {k} \X (1 .. sc.copies[k])
      BY <3>1 DEF Listing
    <3>3. sc \in Scenarios /\ sc.copies[k] \in Nat
      BY <1>1, <3>2, SafetyAssumption DEF IInv, Shape, ScenarioOK
    <3> QED
      BY <3>2, <3>3 DEF LastEntry
  <2>3. ASSUME NEW m \in InUse, NEW r \in registry[m].rules, ~r.disabled,
               NEW k \in r.refs \cap DeletableKeys
        PROVE  FALSE
    <3>1. PICK e \in Deletable : e[1] = k
      BY <2>3 DEF DeletableKeys
    <3>2. LastEntry(k) \in Deletable /\ k \in CandidateKeys
      BY <2>2, <3>1 DEF Deletable, CandidateKeys
    <3> QED
      BY <2>1, <2>3, <3>2 DEF TargetsKept
  <2> QED
    BY <2>3 DEF RuleTargetsBlocked
<1>2. IInv /\ Checked => RuleTargetsBlocked
  BY <1>1 DEF RuleTargetsBlocked
<1> QED
  BY <1>2, SpecIInv, SpecChecked, PTL

-----------------------------------------------------------------------------
(* The reference check identifies importers by schema ID.  It is right as   *)
(* long as every ID belongs to one version.                                 *)
UniqueIds == \A k, m \in DOMAIN registry : registry[k].id = registry[m].id => k = m

\* The candidates that have been asked for are imported by candidates only.
Asked ==
    \A e \in Deletable \ todo : \A m \in Importers(e[1]) :
      m \in CandidateKeys \/ <<e, m>> \in late

LEMMA StepAsked ==
  ASSUME CallsMayFail = FALSE, IInv, IInv', UniqueIds, Asked, [Next]_vars
  PROVE  Asked'
<1>1. CASE FindUnused
  BY <1>1 DEF FindUnused, Asked, Deletable
<1>2. ASSUME NEW e \in todo, CheckReferences(e) PROVE Asked'
  <2>1. Narrows /\ Tightens /\ registry' = registry /\ late' = late /\ todo' = todo \ {e}
    BY <1>2, PassNarrows, PassTightens, PassSettled DEF Pass, CheckReferences
  <2>2. ASSUME e \in Deletable', NEW m \in Importers(e[1]) PROVE m \in CandidateKeys
    <3>1. PICK failed \in FailedCalls({e}) :
             IF e \notin failed /\ \E n \in Importers(e[1]) : registry[n].id \notin CandidateIds
             THEN cand' = [cand EXCEPT ![e] = Mark(@, "blocked_by_references", "references")]
             ELSE cand' = cand
      BY <1>2 DEF CheckReferences
    <3>2. e \notin failed
      BY <3>1, NoFailures
    <3>3. e \in DOMAIN cand
      BY DEF IInv, TypeOK
    <3>4. CASE registry[m].id \notin CandidateIds
      <4>1. cand'[e] = Mark(cand[e], "blocked_by_references", "references")
        BY <3>1, <3>2, <3>3, <3>4, <2>2
      <4> QED
        BY <2>2, <4>1 DEF Deletable, IsBlocked, Mark, BlockedStatuses
    <3>5. CASE registry[m].id \in CandidateIds
      <4>1. PICK k \in CandidateKeys : registry[k].id = registry[m].id
        BY <3>5 DEF CandidateIds
      <4>2. k \in DOMAIN registry /\ m \in DOMAIN registry
        BY <2>2, DeletableListed DEF Importers
      <4> QED
        BY <4>1, <4>2 DEF UniqueIds
    <3> QED
      BY <3>4, <3>5
  <2>3. CandidateKeys' = CandidateKeys /\ \A k : Importers(k)' = Importers(k)
    BY <2>1, NarrowsNames DEF Importers
  <2> QED
    BY <2>1, <2>2, <2>3 DEF Asked, Narrows
<1>3. CASE Register
  <2>1. PICK kv \in Registrations :
           /\ registry' = [k \in DOMAIN registry \cup {kv[1]} |->
                             IF k = kv[1] THEN kv[2] ELSE registry[k]]
           /\ late' = late \cup {<<e, kv[1]>> : e \in {x \in DOMAIN cand \ todo : x[1] \in kv[2].imports}}
    BY <1>3 DEF Register
  <2>2. UNCHANGED <<cand, todo>> /\ Deletable' = Deletable /\ CandidateKeys' = CandidateKeys
    BY <1>3, RegisterSettled DEF Deletable, CandidateKeys
  <2>3. ASSUME NEW e \in Deletable \ todo, NEW m \in Importers(e[1])'
        PROVE  m \in CandidateKeys \/ <<e, m>> \in late'
    <3>1. CASE m = kv[1]
      <4>1. e[1] \in kv[2].imports
        BY <2>1, <2>3, <3>1 DEF Importers
      <4> QED
        BY <2>1, <2>3, <3>1, <4>1 DEF Deletable
    <3>2. CASE m # kv[1]
      <4>1. m \in Importers(e[1])
        BY <2>1, <2>3, <3>2 DEF Importers
      <4> QED
        BY <2>1, <2>3, <4>1 DEF Asked
    <3> QED
      BY <3>1, <3>2
  <2> QED
    BY <2>2, <2>3 DEF Asked
<1>4. CASE CheckRules \/ CheckGlobalRules \/ CheckRuleReferences \/ CheckCompatibility \/ MarkUnverified
  <2>1. Narrows /\ registry' = registry /\ late' = late
    BY <1>4, PassNarrows, PassSettled DEF Pass
  <2>2. todo' = todo
    BY <1>4 DEF CheckRules, CheckGlobalRules, CheckRuleReferences, CheckCompatibility, MarkUnverified
  <2>3. CandidateKeys' = CandidateKeys /\ \A k : Importers(k)' = Importers(k)
    BY <2>1, NarrowsNames DEF Importers
  <2> QED
    BY <2>1, <2>2, <2>3 DEF Asked, Narrows
<1>5. CASE UNCHANGED vars
  <2>1. /\ Deletable' = Deletable /\ CandidateKeys' = CandidateKeys
        /\ \A k : Importers(k)' = Importers(k)
    BY <1>5 DEF vars, Deletable, CandidateKeys, Importers
  <2> QED
    BY <1>5, <2>1 DEF vars, Asked
<1> QED
  BY <1>1, <1>2, <1>3, <1>4, <1>5 DEF Next

(* In a registry where no two versions share an ID, what imports a          *)
(* deletable version is a candidate itself, or was registered after the     *)
(* check.                                                                   *)
THEOREM Importing ==
  ASSUME CallsMayFail = FALSE
  PROVE  Spec /\ []UniqueIds => []ImportersAreCandidates
<1>1. Init => Asked
  BY InitIInv DEF Init, Asked, Deletable
<1>2. IInv /\ IInv' /\ UniqueIds /\ Asked /\ [Next]_vars => Asked'
  BY StepAsked
<1>3. IInv /\ Asked => ImportersAreCandidates
  BY DEF IInv, Shape, Asked, ImportersAreCandidates
<1> QED
  BY <1>1, <1>2, <1>3, SpecIInv, PTL DEF Spec

-----------------------------------------------------------------------------
(* What the statuses say of their candidates is true.                      *)
Caused == \A e \in DOMAIN cand : HasCause(e[1], cand[e].status)

\* Safe needs no cause.
LEMMA NoCauseNeeded ==
  ASSUME NEW k
  PROVE  HasCause(k, "safe")
BY DEF HasCause

\* A cause stays one while versions are registered and passes go on.
LEMMA CauseStays ==
  ASSUME IInv, Settled, DOMAIN cand' = DOMAIN cand,
         NEW k \in CandidateKeys, NEW status, HasCause(k, status)
  PROVE  HasCause(k, status)'
<1>1. /\ InUse' = InUse /\ \A s : VersionsOf(s)' = VersionsOf(s)
      /\ \A m \in ListedKeys : registry'[m] = registry[m]
      /\ k \in ListedKeys /\ InUse \subseteq ListedKeys /\ \A s : VersionsOf(s) \subseteq ListedKeys
  BY DeletableListed DEF Settled, InUse, VersionsOf, ListedKeys, CandidateKeys
<1>2. Importers(k) # {} => Importers(k)' # {}
  BY DEF Importers, Settled
<1>3. status = "blocked_by_encryption_rules" =>
        \E r \in RulesFor(k)' : r.encrypts /\ ~r.disabled
  BY <1>1 DEF Settled, HasCause, RulesFor
<1>4. status = "blocked_by_migration_chain" =>
        \E v \in VersionsOf(k[1]), a, b \in InUse :
          /\ a[1] = k[1] /\ b[1] = k[1] /\ a[2] < k[2] /\ k[2] < b[2]
          /\ \E r \in registry'[v].rules : r.place = "migration" /\ ~r.disabled
  BY <1>1 DEF HasCause
<1>5. status = "blocked_by_rule_reference" =>
        \E m \in InUse : \E r \in registry'[m].rules : ~r.disabled /\ k \in r.refs
  BY <1>1 DEF HasCause
<1>6. status = "blocked_unverified" => k[1] \in sc'.unverified
  BY DEF Settled, HasCause
<1>7. status = "blocked_by_references" => Importers(k)' # {}
  BY <1>2 DEF HasCause
<1>8. /\ status = "has_domain_rules" =>
           \E r \in registry'[k].rules : r.place = "domain" /\ ~r.disabled
      /\ status = "has_migration_rules" =>
           \E r \in registry'[k].rules : r.place = "migration" /\ ~r.disabled
  BY <1>1 DEF HasCause
<1> QED
  BY <1>1, <1>3, <1>4, <1>5, <1>6, <1>7, <1>8 DEF HasCause

LEMMA OwnRulesCause ==
  ASSUME NEW k, NEW c, HasCause(k, c.status)
  PROVE  HasCause(k, WithOwnRules(c, registry[k].rules).status)
<1>1. CASE IsBlocked(c)
  BY <1>1 DEF WithOwnRules
<1>2. CASE ~IsBlocked(c) /\ HasEncryptionRules(registry[k].rules)
  BY <1>2 DEF WithOwnRules, Mark, HasCause, RulesFor, HasEncryptionRules, ActiveRules
<1>3. CASE ~IsBlocked(c) /\ ~HasEncryptionRules(registry[k].rules)
  <2> DEFINE st == WithOwnRules(c, registry[k].rules).status
  <2>1. \/ st = "has_domain_rules" /\ RulesAt("domain", registry[k].rules) # {}
        \/ st = "has_migration_rules" /\ RulesAt("migration", registry[k].rules) # {}
        \/ st = c.status
    BY <1>3 DEF WithOwnRules
  <2> HIDE DEF st
  <2>2. HasCause(k, st)
    BY <2>1 DEF HasCause, RulesAt, ActiveRules
  <2> QED
    BY <2>2 DEF st
<1> QED
  BY <1>1, <1>2, <1>3

LEMMA ChainCause ==
  ASSUME NEW k, NEW c, NEW failed, HasCause(k, c.status), \A a \in InUse : a[2] \in Int, k[2] \in Int
  PROVE  HasCause(k, WithChain(c, k, failed).status)
<1>1. CASE ~IsBlocked(c) /\ BreaksChain(k, failed)
  <2>1. PICK v \in VersionsOf(k[1]) : HasMigrationRules(v)
    BY <1>1 DEF BreaksChain
  <2>2. PICK r \in registry[v].rules : r.place = "migration" /\ ~r.disabled
    BY <2>1 DEF HasMigrationRules, RulesAt, ActiveRules
  <2>3. PICK a \in InUse \cap VersionsOf(k[1]) : a[2] < k[2]
    BY <1>1 DEF BreaksChain, Between
  <2>4. PICK b \in InUse \cap VersionsOf(k[1]) : b[2] > k[2]
    BY <1>1 DEF BreaksChain, Between
  <2>5. a[1] = k[1] /\ b[1] = k[1] /\ k[2] < b[2]
    BY <2>3, <2>4 DEF VersionsOf
  <2>6. WithChain(c, k, failed).status = "blocked_by_migration_chain"
    BY <1>1 DEF WithChain, Mark
  <2> QED
    BY <2>1, <2>2, <2>3, <2>4, <2>5, <2>6 DEF HasCause
<1>2. CASE ~(~IsBlocked(c) /\ BreaksChain(k, failed))
  BY <1>2 DEF WithChain
<1> QED
  BY <1>1, <1>2

\* A pass has to give a cause only for the statuses it leaves behind.
LEMMA PassCaused ==
  ASSUME IInv, Pass, \A e \in DOMAIN cand : HasCause(e[1], cand'[e].status)
  PROVE  Caused'
<1>1. Settled /\ DOMAIN cand' = DOMAIN cand
  BY PassSettled, PassTightens DEF Tightens, Settled
<1>2. ASSUME NEW k \in CandidateKeys, NEW status, HasCause(k, status) PROVE HasCause(k, status)'
  BY <1>1, <1>2, CauseStays
<1>3. ASSUME NEW e \in DOMAIN cand' PROVE HasCause(e[1], cand[e].status)'
  <2>1. PICK status : status = cand'[e].status
    OBVIOUS
  <2>2. PICK k \in CandidateKeys : k = e[1]
    BY <1>1, <1>3 DEF CandidateKeys
  <2>3. HasCause(k, status)
    BY <1>1, <1>3, <2>1, <2>2
  <2>4. HasCause(k, status)'
    BY <1>2, <2>3
  <2> QED
    BY <2>1, <2>2, <2>4 DEF HasCause
<1> QED
  BY <1>3 DEF Caused

LEMMA ReferencesCause ==
  ASSUME IInv, Caused, NEW e \in todo, CheckReferences(e)
  PROVE  \A j \in DOMAIN cand : HasCause(j[1], cand'[j].status)
<1> DEFINE m == Mark(cand[e], "blocked_by_references", "references")
<1>1. CASE cand' = cand
  BY <1>1 DEF Caused
<1>2. CASE cand' = [cand EXCEPT ![e] = m] /\ Importers(e[1]) # {}
  <2>1. m.status = "blocked_by_references"
    BY DEF Mark
  <2>2. HasCause(e[1], m.status)
    BY <1>2, <2>1 DEF HasCause
  <2> HIDE DEF m
  <2>3. cand' = [j \in DOMAIN cand |-> IF j = e THEN m ELSE cand[j]]
    BY <1>2 DEF IInv, Shape
  <2> QED
    BY <2>2, <2>3 DEF Caused
<1> QED
  BY <1>1, <1>2 DEF CheckReferences

LEMMA RulesCause ==
  ASSUME IInv, Caused, CheckRules
  PROVE  \A e \in DOMAIN cand : HasCause(e[1], cand'[e].status)
<1>1. PICK noDetail \in FailedCalls(DOMAIN cand), noChain \in FailedCalls(ListedKeys) :
         cand' = [e \in DOMAIN cand |->
                    WithChain(IF e \in noDetail THEN cand[e]
                              ELSE WithOwnRules(cand[e], registry[e[1]].rules),
                              e[1], noChain)]
  BY DEF CheckRules
<1>2. \A k \in ListedKeys : k[2] \in Int
  <2>1. \A v \in Versions : v \in Int
    BY SafetyAssumption
  <2>2. ListedKeys \subseteq Subjects \X Versions
    BY DEF IInv, TypeOK, Keys, ListedKeys
  <2> QED
    BY <2>1, <2>2
<1>3. ASSUME NEW e \in DOMAIN cand PROVE HasCause(e[1], cand'[e].status)
  <2> DEFINE c == IF e \in noDetail THEN cand[e] ELSE WithOwnRules(cand[e], registry[e[1]].rules)
  <2>1. HasCause(e[1], c.status)
    BY OwnRulesCause DEF Caused
  <2>2. cand'[e] = WithChain(c, e[1], noChain)
    BY <1>1
  <2>3. e[1][2] \in Int /\ \A a \in InUse : a[2] \in Int
    BY <1>2, DeletableListed DEF InUse, CandidateKeys
  <2> HIDE DEF c
  <2> QED
    BY <2>1, <2>2, <2>3, ChainCause
<1> QED
  BY <1>3

LEMMA GlobalRulesCause ==
  ASSUME CallsMayFail = FALSE, IInv, Caused, CheckGlobalRules
  PROVE  \A e \in DOMAIN cand : HasCause(e[1], cand'[e].status)
<1>1. PICK failed \in FailedCalls(DOMAIN cand), unread \in FailedCalls(DOMAIN cand) :
         cand' = [e \in DOMAIN cand |->
                    IF e \in failed THEN cand[e]
                    ELSE WithGlobalRules(cand[e], e[1][1] \notin sc.ownRules \/ e \in unread)]
  BY DEF CheckGlobalRules
<1>2. failed = {} /\ unread = {}
  BY <1>1, NoFailures
<1>3. ASSUME NEW e \in DOMAIN cand PROVE HasCause(e[1], cand'[e].status)
  <2> DEFINE c == WithGlobalRules(cand[e], e[1][1] \notin sc.ownRules \/ e \in unread)
  <2>1. cand'[e] = c /\ HasCause(e[1], cand[e].status)
    BY <1>1, <1>2 DEF Caused
  <2>2. CASE c = cand[e]
    BY <2>1, <2>2
  <2>3. CASE c # cand[e]
    <3>1. e[1][1] \notin sc.ownRules /\ HasEncryptionRules(sc.globalRules)
      BY <1>2, <2>3 DEF WithGlobalRules
    <3>2. cand'[e].status = "blocked_by_encryption_rules"
      BY <2>1, <2>3 DEF WithGlobalRules, Mark
    <3> QED
      BY <3>1, <3>2 DEF HasCause, RulesFor, HasEncryptionRules, ActiveRules
  <2> QED
    BY <2>2, <2>3
<1> QED
  BY <1>3

LEMMA RuleReferencesCause ==
  ASSUME IInv, Caused, CheckRuleReferences
  PROVE  \A e \in DOMAIN cand : HasCause(e[1], cand'[e].status)
<1>1. PICK failed \in FailedCalls(InUse) :
         cand' = [e \in DOMAIN cand |->
                    IF e[1] \in RuleTargets(failed) /\ e = LastEntry(e[1]) /\ ~IsBlocked(cand[e])
                    THEN Mark(cand[e], "blocked_by_rule_reference", "rule")
                    ELSE cand[e]]
  BY DEF CheckRuleReferences
<1>2. ASSUME NEW e \in DOMAIN cand PROVE HasCause(e[1], cand'[e].status)
  <2>1. CASE cand'[e] = cand[e]
    BY <2>1 DEF Caused
  <2>2. CASE e[1] \in RuleTargets(failed) /\ cand'[e] = Mark(cand[e], "blocked_by_rule_reference", "rule")
    <3>1. PICK m \in InUse : e[1] \in SchemaRefs(registry[m].rules)
      BY <2>2 DEF RuleTargets
    <3>2. \E r \in registry[m].rules : ~r.disabled /\ e[1] \in r.refs
      BY <3>1 DEF SchemaRefs, ActiveRules
    <3>3. cand'[e].status = "blocked_by_rule_reference"
      BY <2>2 DEF Mark
    <3> QED
      BY <3>2, <3>3 DEF HasCause
  <2> QED
    BY <1>1, <2>1, <2>2
<1> QED
  BY <1>2

LEMMA LastPassesCause ==
  ASSUME IInv, Caused, CheckCompatibility \/ MarkUnverified
  PROVE  \A e \in DOMAIN cand : HasCause(e[1], cand'[e].status)
<1>1. CASE CheckCompatibility
  <2>1. \A e \in DOMAIN cand : cand'[e].status = cand[e].status
    BY <1>1 DEF CheckCompatibility, Mark
  <2> QED
    BY <2>1 DEF Caused
<1>2. CASE MarkUnverified
  <2>1. ASSUME NEW e \in DOMAIN cand
        PROVE  \/ cand'[e].status = cand[e].status
               \/ e[1][1] \in sc.unverified /\ cand'[e].status = "blocked_unverified"
    BY <1>2 DEF MarkUnverified, Unverify, Mark
  <2>2. \A e \in DOMAIN cand : e[1][1] \in sc.unverified => HasCause(e[1], "blocked_unverified")
    BY DEF HasCause
  <2> QED
    BY <2>1, <2>2 DEF Caused
<1> QED
  BY <1>1, <1>2

LEMMA StepCaused ==
  ASSUME CallsMayFail = FALSE, IInv, Caused, [Next]_vars
  PROVE  Caused'
<1>1. CASE FindUnused
  <2>1. \A e \in DOMAIN cand' : cand'[e].status = "safe"
    BY <1>1 DEF FindUnused
  <2>2. \A k : HasCause(k, "safe")'
    BY DEF HasCause
  <2> QED
    BY <2>1, <2>2 DEF Caused
<1>2. CASE Pass
  BY <1>2, PassCaused, ReferencesCause, RulesCause, GlobalRulesCause, RuleReferencesCause,
     LastPassesCause DEF Pass
<1>3. CASE Register \/ UNCHANGED vars
  <2>1. Settled /\ cand' = cand
    BY <1>3, RegisterSettled DEF Settled, vars
  <2>2. ASSUME NEW e \in DOMAIN cand PROVE HasCause(e[1], cand[e].status)'
    <3> DEFINE status == cand[e].status
    <3>1. HasCause(e[1], status) /\ e[1] \in CandidateKeys
      BY DEF Caused, CandidateKeys
    <3>2. status' = status
      BY <2>1
    <3> HIDE DEF status
    <3>3. ASSUME NEW k \in CandidateKeys, NEW st, HasCause(k, st) PROVE HasCause(k, st)'
      BY <2>1, <3>3, CauseStays
    <3> QED
      BY <3>1, <3>2, <3>3 DEF status
  <2> QED
    BY <2>1, <2>2 DEF Caused
<1> QED
  BY <1>1, <1>2, <1>3 DEF Next, Pass

(* Nothing is blocked or warned about without the cause its status names.  *)
THEOREM ForCause ==
  ASSUME CallsMayFail = FALSE
  PROVE  Spec => []StatusHasCause
<1>1. Init => Caused
  BY DEF Init, Caused
<1>2. IInv /\ Caused /\ [Next]_vars => Caused'
  BY StepCaused
<1>3. Caused => StatusHasCause
  BY DEF Caused, StatusHasCause
<1> QED
  BY <1>1, <1>2, <1>3, SpecIInv, PTL DEF Spec
=============================================================================

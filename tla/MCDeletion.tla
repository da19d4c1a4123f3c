----------------------------- MODULE MCDeletion -----------------------------
(***************************************************************************)
(* Instances of Deletion.  k2 imports k1: one manifest lists the importer  *)
(* first, one the imported version, and in one the warned versions move    *)
(* behind the safe one.  One has versions that Cloud has listed twice, and *)
(* the last one offers nothing to delete.                                  *)
(***************************************************************************)
EXTENDS Deletion

CONSTANTS k1, k2, k3

MCKeys == {k1, k2, k3}
MCImports == {<<k2, k1>>}

Candidate(k, s) == [key |-> k, status |-> s]

MCManifests ==
    { [unverified |-> u, candidates |-> c] :
        u \in BOOLEAN,
        c \in { <<Candidate(k2, "safe"), Candidate(k1, "safe"), Candidate(k3, "blocked_unverified")>>,
                <<Candidate(k1, "safe"), Candidate(k2, "safe"), Candidate(k3, "safe")>>,
                <<Candidate(k1, "has_domain_rules"), Candidate(k2, "safe"), Candidate(k3, "has_migration_rules")>>,
                <<Candidate(k2, "safe"), Candidate(k3, "safe"), Candidate(k3, "safe"), Candidate(k2, "blocked_by_rule_reference")>>,
                <<Candidate(k2, "blocked_by_references"), Candidate(k3, "edited by hand")>> } }
=============================================================================

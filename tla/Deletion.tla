------------------------------ MODULE Deletion ------------------------------
(***************************************************************************)
(* Deleting what a manifest lists: runDelete and failIfUnverified          *)
(* (cmd/root.go), ExecuteDeletion (pkg/manifest.go).  An operator runs the *)
(* command again and again with the same manifest file, in any mode, and   *)
(* may kill it at any point; a DELETE may fail, or take effect while its   *)
(* answer is lost.  The Schema Registry is modelled by the four answers    *)
(* that ExecuteDeletion can get from it.                                   *)
(***************************************************************************)
EXTENDS Integers, Sequences

CONSTANTS
    Keys,       \* <<subject, version>> pairs
    Imports,    \* <<m, k>>: version m imports version k
    Manifests,  \* the manifests a scan may have written
    MaxCrashes  \* bound: how often the command is killed

Modes == {"soft", "hard", "full"}
SafeStatus == "safe"
WarnStatuses == {"has_domain_rules", "has_migration_rules"}

(***************************************************************************)
(* A candidate's status is anything that stands in the file: IsBlocked,    *)
(* IsWarning and the test for "safe" ignore what they do not know.         *)
(***************************************************************************)
StatusesIn(candidates) == {candidates[n].status : n \in DOMAIN candidates}

ASSUME DeletionAssumption ==
    /\ Imports \subseteq Keys \X Keys
    /\ MaxCrashes \in Nat
    /\ \A m \in Manifests :
         /\ m.unverified \in BOOLEAN
         /\ m.candidates \in Seq([key : Keys, status : StatusesIn(m.candidates)])

VARIABLES
    manifest,   \* the file
    state,      \* the registry: every key is "live", "soft" or "gone"
    pc,         \* where the command stands; "idle" between two runs
    mode,       \* --mode
    force,      \* --force
    allow,      \* --allow-unverified
    deletable,  \* the keys to delete, in order
    i,          \* the index of the next DELETE
    consent,    \* the prompts of this run that were answered with yes
    result,     \* how the last run ended
    crashes     \* how often the command has been killed

vars == <<manifest, state, pc, mode, force, allow, deletable, i, consent, result, crashes>>
flags == <<manifest, mode, force, allow>>

TypeOK ==
    /\ manifest \in Manifests
    /\ state \in [Keys -> {"live", "soft", "gone"}]
    /\ pc \in {"idle", "loaded", "warned", "confirmSoft", "soft", "confirmHard", "hard"}
    /\ mode \in Modes
    /\ force \in BOOLEAN
    /\ allow \in BOOLEAN
    /\ deletable \in Seq(Keys)
    /\ i \in 1 .. Len(deletable) + 1
    /\ consent \subseteq {"warned", "soft", "hard"}
    /\ result \in {"none", "done", "cancelled", "error"}
    /\ crashes \in 0 .. MaxCrashes

Init ==
    /\ manifest \in Manifests
    /\ state = [k \in Keys |-> "live"]
    /\ pc = "idle"
    /\ mode = "soft"
    /\ force = FALSE
    /\ allow = FALSE
    /\ deletable = << >>
    /\ i = 1
    /\ consent = {}
    /\ result = "none"
    /\ crashes = 0

-----------------------------------------------------------------------------
(* The Schema Registry.                                                    *)

\* A version that a live version imports cannot be deleted.
Referenced(k) == \E m \in Keys : <<m, k>> \in Imports /\ state[m] = "live"

\* A soft delete needs a live version, a permanent one a soft-deleted version.
Accepts(k, permanent) ==
    /\ state[k] = (IF permanent THEN "soft" ELSE "live")
    /\ ~Referenced(k)

\* The DELETE of k has been carried out.
Delete(k, permanent) ==
    state' = [state EXCEPT ![k] = IF permanent THEN "gone" ELSE "soft"]

-----------------------------------------------------------------------------
(* runDelete, up to the call of ExecuteDeletion.                           *)

\* Mutant: the index of the last run is kept.
FirstIndexKept == i

FirstIndex == 1

Start(m, f, a) ==
    /\ pc = "idle"
    /\ pc' = "loaded"
    /\ mode' = m
    /\ force' = f
    /\ allow' = a
    /\ deletable' = << >>
    /\ i' = FirstIndex
    /\ consent' = {}
    /\ result' = "none"
    /\ UNCHANGED <<manifest, state, crashes>>

Stop(r) ==
    /\ pc' = "idle"
    /\ result' = r
    /\ UNCHANGED <<flags, state, deletable, i, consent, crashes>>

\* Mutant: --force bypasses it.
IsRefusedUnlessForced == manifest.unverified /\ ~allow /\ ~force

\* failIfUnverified: --force does not get past it.
IsRefused == manifest.unverified /\ ~allow

RefuseUnverified == pc = "loaded" /\ IsRefused /\ Stop("error")

\* The manifest cannot be read, or the platform cannot be set up.
SetupFails == pc = "loaded" /\ Stop("error")

-----------------------------------------------------------------------------
(* ExecuteDeletion: what is deleted, and the prompts.                      *)

\* The keys with one of these statuses, in the order of the manifest.
KeysWith(statuses) ==
    LET keys[n \in 0 .. Len(manifest.candidates)] ==
          IF n = 0 THEN << >>
          ELSE IF manifest.candidates[n].status \in statuses
               THEN Append(keys[n - 1], manifest.candidates[n].key)
               ELSE keys[n - 1]
    IN keys[Len(manifest.candidates)]
Safe == KeysWith({SafeStatus})
Warned == KeysWith(WarnStatuses)

\* With the keys d: stop, prompt, or go ahead under --force.
Proceed(d) ==
    /\ deletable' = d
    /\ pc' = IF d = << >> THEN "idle"
             ELSE IF mode = "hard"
                  THEN IF force THEN "hard" ELSE "confirmHard"
                  ELSE IF force THEN "soft" ELSE "confirmSoft"
    /\ result' = IF d = << >> THEN "done" ELSE result
    /\ UNCHANGED <<flags, state, i, crashes>>

Plan ==
    /\ pc = "loaded"
    /\ ~IsRefused
    /\ IF Warned # << >> /\ ~force
       THEN /\ pc' = "warned"
            /\ UNCHANGED <<flags, state, deletable, i, consent, result, crashes>>
       ELSE /\ Proceed(Safe \o Warned)
            /\ UNCHANGED consent

IncludeWarned ==
    /\ pc = "warned"
    /\ consent' = consent \cup {"warned"}
    /\ Proceed(Safe \o Warned)

ExcludeWarned ==
    /\ pc = "warned"
    /\ Proceed(Safe)
    /\ UNCHANGED consent

Confirm ==
    /\ pc \in {"confirmSoft", "confirmHard"}
    /\ pc' = IF pc = "confirmSoft" THEN "soft" ELSE "hard"
    /\ consent' = consent \cup {pc'}
    /\ UNCHANGED <<flags, state, deletable, i, result, crashes>>

Decline == pc \in {"confirmSoft", "confirmHard"} /\ Stop("cancelled")

\* ReadLine meets the end of its input: a second prompt finds what a pipe held
\* already in the reader of the first one.
NoAnswer == pc \in {"warned", "confirmSoft", "confirmHard"} /\ Stop("error")

-----------------------------------------------------------------------------
(* ExecuteDeletion: the deletions.                                         *)

SoftDelete ==
    /\ pc = "soft"
    /\ i <= Len(deletable)
    /\ Accepts(deletable[i], FALSE)
    /\ Delete(deletable[i], FALSE)
    /\ i' = i + 1
    /\ UNCHANGED <<flags, pc, deletable, consent, result, crashes>>

\* An error stops the command, whether or not the version is deleted.
SoftDeleteFails ==
    /\ pc = "soft"
    /\ i <= Len(deletable)
    /\ \/ UNCHANGED state
       \/ Accepts(deletable[i], FALSE) /\ Delete(deletable[i], FALSE)
    /\ pc' = "idle"
    /\ result' = "error"
    /\ UNCHANGED <<flags, deletable, i, consent, crashes>>

\* Mutant: the last version is left out.
SoftLoopEndsEarly == i >= Len(deletable)

SoftLoopEnds == i = Len(deletable) + 1

SoftDone ==
    /\ pc = "soft"
    /\ SoftLoopEnds
    /\ IF mode = "soft"
       THEN pc' = "idle" /\ result' = "done" /\ UNCHANGED i
       ELSE /\ pc' = IF force THEN "hard" ELSE "confirmHard"
            /\ i' = 1
            /\ UNCHANGED result
    /\ UNCHANGED <<flags, state, deletable, consent, crashes>>

HardDelete(k) ==
    /\ pc = "hard"
    /\ i <= Len(deletable)
    /\ deletable[i] = k
    /\ Accepts(k, TRUE)
    /\ Delete(k, TRUE)
    /\ i' = i + 1
    /\ UNCHANGED <<flags, pc, deletable, consent, result, crashes>>

\* Mutant: an error stops the command, as in the soft deletion.
HardDeleteFailsStop ==
    /\ pc = "hard"
    /\ i <= Len(deletable)
    /\ \/ UNCHANGED state
       \/ Accepts(deletable[i], TRUE) /\ Delete(deletable[i], TRUE)
    /\ pc' = "idle"
    /\ result' = "error"
    /\ UNCHANGED <<flags, deletable, i, consent, crashes>>

\* An error is a warning: the next version follows.
HardDeleteFails ==
    /\ pc = "hard"
    /\ i <= Len(deletable)
    /\ \/ UNCHANGED state
       \/ Accepts(deletable[i], TRUE) /\ Delete(deletable[i], TRUE)
    /\ i' = i + 1
    /\ UNCHANGED <<flags, pc, deletable, consent, result, crashes>>

HardDone == pc = "hard" /\ i = Len(deletable) + 1 /\ Stop("done")

Crash ==
    /\ pc # "idle"
    /\ crashes < MaxCrashes
    /\ crashes' = crashes + 1
    /\ pc' = "idle"
    /\ result' = "error"
    /\ UNCHANGED <<flags, state, deletable, i, consent>>

-----------------------------------------------------------------------------
Prompted == IncludeWarned \/ ExcludeWarned \/ Confirm \/ Decline \/ NoAnswer

Step ==
    \/ RefuseUnverified \/ SetupFails \/ Plan \/ Prompted
    \/ SoftDelete \/ SoftDeleteFails \/ SoftDone
    \/ \E k \in Keys : HardDelete(k)
    \/ HardDeleteFails \/ HardDone

Next ==
    \/ \E m \in Modes, f, a \in BOOLEAN : Start(m, f, a)
    \/ Step
    \/ Crash

Spec == Init /\ [][Next]_vars

(***************************************************************************)
(* A run goes on until it ends.  The operator keeps coming back to a       *)
(* forced hard run that allows unverified topics, its setup does not fail  *)
(* every time, and nor does a DELETE that the registry accepts.            *)
(***************************************************************************)
FairSpec ==
    /\ Spec
    /\ WF_vars(Step)
    /\ SF_vars(Start("hard", TRUE, TRUE))
    /\ SF_vars(Plan /\ mode = "hard" /\ force /\ allow)
    /\ \A k \in Keys : SF_vars(HardDelete(k))

-----------------------------------------------------------------------------
Statuses(k) == {manifest.candidates[n].status :
                  n \in {j \in DOMAIN manifest.candidates : manifest.candidates[j].key = k}}

(* The registry changes only for a version that the manifest calls safe, or *)
(* warned and included by an answer or --force; only after the prompt for   *)
(* this kind of deletion, or under --force; and for a manifest of a partial *)
(* scan only under --allow-unverified, whatever --force says.               *)
OnlyConsented ==
    [][\A k \in Keys : state'[k] # state[k] =>
         /\ \/ SafeStatus \in Statuses(k)
            \/ Statuses(k) \cap WarnStatuses # {} /\ (force \/ "warned" \in consent)
         /\ force \/ (IF state'[k] = "gone" THEN "hard" ELSE "soft") \in consent
         /\ manifest.unverified => allow]_vars

(* In full mode no version is deleted for good while another one that this  *)
(* run deletes is still live: a failure of the soft half keeps everything   *)
(* recoverable.                                                             *)
PermanentAfterAllSoft ==
    [][\A k \in Keys : state'[k] = "gone" /\ state[k] # "gone" /\ mode = "full" =>
         \A n \in DOMAIN deletable : state[deletable[n]] # "live"]_vars

(* A soft or full run that reports success has left no version it was to    *)
(* delete live.                                                             *)
DoneMeansDeleted ==
    result = "done" /\ mode # "hard" =>
      \A n \in DOMAIN deletable : state[deletable[n]] # "live"

(* Hard runs with the same manifest resume each other: whatever failed or   *)
(* was interrupted, every soft-deleted version that the manifest offers is  *)
(* permanently deleted in the end, in whatever order the manifest has them: *)
(* the registry refuses what a live version imports, and the importers of a *)
(* soft-deleted version are soft-deleted or gone.                           *)
HardRunsFinish ==
    \A k \in Keys :
      (state[k] = "soft" /\ (SafeStatus \in Statuses(k) \/ Statuses(k) \cap WarnStatuses # {}))
      ~> state[k] = "gone"
=============================================================================

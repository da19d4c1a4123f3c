----------------------------- MODULE Retirement -----------------------------
(***************************************************************************)
(* What cleaning up promises, whatever way it takes: versions are retired  *)
(* one at a time and in two steps, first hidden and then gone, and none    *)
(* that is known to be in use.                                             *)
(***************************************************************************)
CONSTANT Keys

VARIABLES
    state,  \* every version is "live", "soft" or "gone"
    kept    \* the versions known to be in use

vars == <<state, kept>>

Init ==
    /\ state = [k \in Keys |-> "live"]
    /\ kept = {}

Learn ==
    /\ kept' \in SUBSET Keys
    /\ UNCHANGED state

Retire(k) ==
    /\ k \notin kept
    /\ \/ state[k] = "live" /\ state' = [state EXCEPT ![k] = "soft"]
       \/ state[k] = "soft" /\ state' = [state EXCEPT ![k] = "gone"]
    /\ UNCHANGED kept

Next == Learn \/ \E k \in Keys : Retire(k)

Spec == Init /\ [][Next]_vars
=============================================================================

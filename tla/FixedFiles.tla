------------------------------ MODULE FixedFiles ------------------------------
(* What a registry of immutable releases promises its readers, whatever    *)
(* happens inside: a file of a version may appear, be withdrawn and appear *)
(* again, but once somebody could fetch it, its content is that for good.  *)
CONSTANTS File, None

VARIABLES
    shown,  \* what a reader gets for each file, or None
    fixed   \* the content each file was first seen with, or None

Init ==
    /\ shown = [f \in File |-> None]
    /\ fixed = shown

\* Some files appear or disappear; one that was never seen brings its content.
Next ==
    /\ fixed' = [f \in File |-> IF fixed[f] = None THEN shown'[f] ELSE fixed[f]]
    /\ \A f \in File : shown'[f] \in {None, fixed'[f]}
    /\ DOMAIN shown' = File

Spec == Init /\ [][Next]_<<shown, fixed>>
=============================================================================

------------------------ MODULE MCModuleLifecycle ------------------------
(* Instances of ModuleLifecycle for TLC. *)
EXTENDS ModuleLifecycle

CONSTANTS base, addon   \* model values: module names

\* addon depends on base; a third module, if there is one, stands alone.
MCDepends == [m \in Module |-> IF m = addon THEN {base} ELSE {}]

\* Job ids are interchangeable.  Only used where no liveness is checked.
JobSymmetry == Permutations(JobId)
=============================================================================

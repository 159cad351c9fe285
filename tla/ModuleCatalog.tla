--------------------------- MODULE ModuleCatalog ---------------------------
(***************************************************************************)
(* What the module system promises to a user of the dashboard: a catalog   *)
(* of installed modules that changes one module at a time, in which every  *)
(* module's dependencies are installed as long as it is (decision D-15 of  *)
(* the module system).  How the engine gets there (jobs, a lock, a worker  *)
(* thread, scripts, a registry file) is left to ModuleLifecycle, which     *)
(* implements this specification.                                          *)
(***************************************************************************)
CONSTANTS
    Module,   \* names of the modules in the modules/ directory
    Depends   \* Depends[m]: the "depends" list of m's manifest

VARIABLE
    installed \* modules that have an entry in registry.json

Init == installed = {}

Install(m) ==
    /\ m \notin installed
    /\ Depends[m] \subseteq installed
    /\ installed' = installed \cup {m}

Uninstall(m) ==
    /\ m \in installed
    /\ \A other \in installed : m \notin Depends[other]
    /\ installed' = installed \ {m}

Next == \E m \in Module : Install(m) \/ Uninstall(m)

Spec == Init /\ [][Next]_installed

=============================================================================

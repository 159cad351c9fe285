SPECIFICATION Spec
CONSTANTS
    base = base
    addon = addon
    Module = {base, addon}
    Depends <- MCDepends
    Runtime = {addon}
    JobId = {j1, j2, j3}
    Overlap = {"boot", "config"}
SYMMETRY JobSymmetry
INVARIANTS SerialJobs DependenciesFirst
PROPERTIES ImplementsCatalog

SPECIFICATION FairSpec
CONSTANTS
    base = base
    addon = addon
    Module = {base, addon}
    Depends <- MCDepends
    Runtime = {base, addon}
    JobId = {j1, j2}
    Overlap = {}
INVARIANTS IInv HandlesRegistered PromptsCurrent
PROPERTIES StopsDependentsFirst OutcomeTruthful JobsEnd

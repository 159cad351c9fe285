SPECIFICATION Spec
CONSTANTS
    base = base
    addon = addon
    Module = {base, addon}
    Depends <- MCDepends
    Runtime = {base, addon}
    JobId = {j1, j2}
    Overlap = {"config"}
PROPERTY DoneInstallRecorded

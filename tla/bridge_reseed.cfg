SPECIFICATION Spec
CONSTANTS
    ann = ann
    bob = bob
    nobody = nobody
    User = {ann, bob}
    NoUser = nobody
    EnvOwners = {bob, nobody}
    AttemptCap = 3
    MaxCodes = 2
    MaxInbox = 1
PROPERTY SeededOnce

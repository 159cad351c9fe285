SPECIFICATION FairSpec
CONSTANTS
    ann = ann
    bob = bob
    nobody = nobody
    User = {ann, bob}
    NoUser = nobody
    EnvOwners = {bob, nobody}
    AttemptCap = 2
    MaxCodes = 2
    MaxInbox = 1
INVARIANTS IInv GuessesBounded UninstalledOwnerless
PROPERTIES OwnerProven TurnsForOwner UninstallEnds

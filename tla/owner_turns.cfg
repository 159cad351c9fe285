SPECIFICATION FairSpec
CONSTANTS
    s1 = s1
    s2 = s2
    s3 = s3
    ann = ann
    bob = bob
    none = none
    Stream = {s1, s2, s3}
    Owner = {ann}
    None = none
    MaxEvents = 2
INVARIANTS IInv RunsSerial AnswersComplete
PROPERTIES ImplementsTurnQueue EveryoneServed

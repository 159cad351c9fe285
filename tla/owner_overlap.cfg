SPECIFICATION Spec
CONSTANTS
    s1 = s1
    s2 = s2
    s3 = s3
    ann = ann
    bob = bob
    none = none
    Stream = {s1}
    Owner = {ann}
    None = none
    MaxEvents = 1
INVARIANT NeverOverlap

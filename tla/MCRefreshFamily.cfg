CONSTANTS
    f1 = f1
    d1 = d1
    d2 = d2
    d3 = d3
    d4 = d4
    s1 = s1
    s2 = s2
    s3 = s3
    NoFamily = NoFamily
    NoDigest = NoDigest
    NoSession = NoSession
    Never = Never
    Families = {f1}
    Digests = {d1, d2, d3, d4}
    Sessions = {s1, s2, s3}
    TokenLife = 2
    FamilyLife = 3
    MaxTime = 3
SPECIFICATION Spec
SYMMETRY MCSymmetry
INVARIANTS
    OneLiveToken
    TombstoneIsComplete
    BothOrNeither
PROPERTIES
    IsAChain

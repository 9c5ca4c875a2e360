SPECIFICATION Spec
CONSTANTS
    None = None
    Orphan = Orphan
    Appts = {a1}
    Singles = {i1}
    Runs = {c1, c2}
    Lead = 2
    Horizon = 2
    MaxSends = 2
INVARIANTS
    TypeOK
    OneHolder
    NoDuplicateUnlessLapsed
    StampedAfterAttempt

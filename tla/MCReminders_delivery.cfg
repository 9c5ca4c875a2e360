SPECIFICATION FairSpec
CONSTANTS
    None = None
    Orphan = Orphan
    Appts = {a1}
    Singles = {i1, i2}
    Runs = {c1}
    Lead = 0
    Horizon = 2
    MaxSends = 0
PROPERTY
    DueIsEventuallyStamped

SPECIFICATION FairSpec
CONSTANTS
    Replicas = {n1, n2}
    Limit = 2
    Ttl = 3
INVARIANTS
    TypeOK
    WindowBound
PROPERTY
    LetInAgain

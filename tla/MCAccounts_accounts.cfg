SPECIFICATION FairSpec
CONSTANTS
    None = None
    Users = {u1, u2}
    Emails = {e1}
    Googles = {g1}
    Tokens = {t1, t2, t3}
    Links = {x1, x2}
    Requests = {r1, r2}
    MaxPassword = 2
    Mixes <- MCMixes
INVARIANTS
    TypeOK
    AccountsAreWhole
    LiveTokensAreAuthorized
    OneTokenPerSession
    ResetVoidsLinks
    CachedUserIsCurrent
PROPERTIES
    LinkWorksOnce
    ImplementsSessions
    DisabledIsShutOut
CHECK_DEADLOCK FALSE

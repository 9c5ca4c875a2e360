SPECIFICATION FairSpec
CONSTANTS
    None = None
    Absent = Absent
    Services = {s1}
    SlotIds = {i1, i2}
    SlotsPage = SlotsPage
    Times = {1, 2}
    Days = {0}
    Patches <- MCPatches
    Requests = {r1, r2}
    Mixes <- MCMixes
INVARIANTS
    TypeOK
    PricingIsWhole
    SlotsAreSound
    PagesAreCurrent
PROPERTY
    RemovedServiceVanishes
CHECK_DEADLOCK FALSE

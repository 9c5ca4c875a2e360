SPECIFICATION FairSpec
CONSTANTS
    None = None
    Absent = Absent
    p1 = p1
    i1 = i1
    fixed = fixed
    flexible = flexible
    Appts = {a1, a2}
    Customers = {c1}
    Providers = {p1}
    Services = {flexible}
    SlotIds = {i1, i2}
    Owner <- MCOwner
    Catalogue <- MCCatalogue
    Timetable <- MCShortTimetable
    Requests = {r1, r2}
    Mixes <- MCMixes
    ServiceEdits <- MCServiceEdits
    SlotEdits <- MCSlotEdits
    Horizon = 0
    StartTimes = {1, 2}
    Durations = {1, 2}
    CancelWindow = 1
    DayLength = 6
    ClockStep = 1
    MinLength = 1
INVARIANTS
    TypeOK
    NoDoubleBookingUnlessRevived
    UniqueActiveStart
    InsideCheckedAvailability
    PriceIsSnapshot
    ClosedOffersNothingUnlessCrossed
PROPERTY
    RequestsEnd
CHECK_DEADLOCK FALSE

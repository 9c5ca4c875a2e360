SPECIFICATION Spec
CONSTANTS
    None = None
    Absent = Absent
    p1 = p1
    i1 = i1
    fixed = fixed
    flexible = flexible
    Appts = {a1, a2}
    Customers = {c1}
    Providers = {p1}
    Services = {flexible}
    SlotIds = {i1}
    Owner <- MCOwner
    Catalogue <- MCCatalogue
    Timetable <- MCTimetable
    Requests = {r1, r2}
    Mixes = {{"create", "reschedule", "CONFIRMED", "CANCELLED"}}
    ServiceEdits = {}
    SlotEdits = {}
    Horizon = 0
    StartTimes = {1, 2}
    Durations = {1, 2}
    CancelWindow = 1
    DayLength = 6
    ClockStep = 1
    MinLength = 1
INVARIANT
    NoDoubleBooking
CHECK_DEADLOCK FALSE

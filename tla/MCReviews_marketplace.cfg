SPECIFICATION Spec
CONSTANTS
    None = None
    Gone = Gone
    p1 = p1
    p2 = p2
    c1 = c1
    c2 = c2
    haircut = haircut
    Appts = {a1, a2}
    Customers = {c1, c2}
    Providers = {p1, p2}
    Services = {haircut}
    Slots <- MCSlots
    Bookings <- MCBookings
    ReviewIds = {v1, v2}
    Ratings = {2, 5}
    Requests = {r1, r2}
    Instants = {0, 5}
    AskedDays = {0, 1, 7}
    Mixes <- MCMixes
    DayLength = 4
    ClockStep = 1
    MinLength = 1
    MonthStarts = {0, 1}
    MaxRange = 6
    DefaultDays = 2
    MaxDays = 3
SYMMETRY Symmetric
INVARIANTS
    TypeOK
    ReviewsAreEarned
    FreeIsBookable
    ViewsAgree
CHECK_DEADLOCK FALSE

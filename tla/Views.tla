-------------------------------- MODULE Views --------------------------------
(***************************************************************************)
(* What is read off the appointments and reviews tables: the calendar of a *)
(* provider's open and booked times, and the figures of the admin,         *)
(* provider and customer dashboards.  Every view is an operator of the     *)
(* tables and the clock.                                                   *)
(***************************************************************************)
EXTENDS Booking, FiniteSetsExt, Functions

CONSTANTS
    Slots,          \* the active availability slots of each provider
    MonthStarts,    \* the days on which a month begins
    MaxRange,       \* the longest range of days the calendar shows
    DefaultDays,    \* the window of the trends when none, or 0, is asked for
    MaxDays         \* the longest window of the trends

ASSUME ViewsAssumption ==
    /\ MonthStarts \subseteq Nat /\ 0 \in MonthStarts
    /\ MaxRange \in Nat
    /\ DefaultDays \in Nat /\ MaxDays \in Nat
    /\ 1 <= DefaultDays /\ DefaultDays <= MaxDays
    /\ IsFiniteSet(Appts) /\ IsFiniteSet(Providers) /\ IsFiniteSet(Customers)  \* UUIDs
    /\ \A p \in Providers : \A slot \in Slots[p] :        \* "HH:MM" strings
           /\ slot.day \in 0..6
           /\ \E n, m \in 0..DayLength : slot.start = n * ClockStep /\ slot.end = m * ClockStep

Day(t) == t \div DayLength

-----------------------------------------------------------------------------
(* The calendar: availability.service findSlotsForRange *)

ParseUtcDate(day) == day * DayLength
FromAfter(base, days) == base + days * DayLength

\* Mutant: the end of the range is taken for exclusive
ToAfterExclusive(base, days) == FromAfter(base, days)

\* The first instant after the range
ToAfter(base, days) == FromAfter(base, days + 1)

RangeAccepted(from, to) == 0 <= to - from /\ to - from <= MaxRange

\* For each day of the range, its open slots and the appointments that touch it
FindSlotsForRange(table, p, from, to) ==
    LET fromDate == ParseUtcDate(from)
        appointments ==
            {a \in Appts : /\ IsActive(table, a)
                           /\ table[a].provider = p
                           /\ table[a].start < ToAfter(fromDate, to - from)
                           /\ table[a].end > fromDate}
    IN  [day \in from..to |->
           [open   |-> {slot \in Slots[p] : slot.day = UTCDay(ParseUtcDate(day))},
            booked |-> {a \in appointments :
                           Overlaps(table[a], ParseUtcDate(day),
                                    FromAfter(ParseUtcDate(day), 1))}]]

-----------------------------------------------------------------------------
(* The dashboards: dashboard.service *)

Having(table, status) == {a \in Appts : Exists(table, a) /\ table[a].status = status}
OfProvider(table, p) == {a \in Appts : Exists(table, a) /\ table[a].provider = p}
OfCustomer(table, c) == {a \in Appts : Exists(table, a) /\ table[a].customer = c}

\* A missing price counts as 0
SumPrices(table, rows) ==
    SumFunction([a \in rows |-> IF table[a].price = None THEN 0 ELSE table[a].price])

\* In hundredths, rounded to the nearest; null without a review
AverageRating(reviews) ==
    LET sum == MapThenSumSet(LAMBDA v : v.rating, reviews)
        n == MapThenSumSet(LAMBDA v : 1, reviews)
    IN  IF n = 0 THEN None ELSE (200 * sum + n) \div (2 * n)

ReviewsOf(reviews, p) == {v \in reviews : v.provider = p}

AdminOverview(table, reviews) ==
    [totalAppointments |-> Cardinality({a \in Appts : Exists(table, a)}),
     revenue           |-> SumPrices(table, Having(table, "COMPLETED")),
     averageRating     |-> AverageRating(reviews),
     totalReviews      |-> Cardinality(reviews)]

AdminAppointments(table) ==
    [status \in Statuses |-> Cardinality(Having(table, status))]

\* NaN and 0 fall back to the default, the rest is clamped
ValidateDays(days) ==
    LET asked == IF days \in {None, 0} THEN DefaultDays ELSE days
    IN  IF asked < 1 THEN 1 ELSE IF asked > MaxDays THEN MaxDays ELSE asked

FirstTrendDay(now, days) == Day(now) - (days - 1)

\* Bookings and revenue by the day they start, in a window that ends today
AdminTrends(table, now, days) ==
    LET clamped == ValidateDays(days)
        start == FirstTrendDay(now, clamped)
        appointments == {a \in Appts : /\ Exists(table, a)
                                       /\ table[a].start >= ParseUtcDate(start)}
    IN  [day \in start..(start + clamped - 1) |->
           LET bookings == {a \in appointments : Day(table[a].start) = day}
           IN  [bookings |-> Cardinality(bookings),
                revenue  |-> SumPrices(table, bookings \cap Having(table, "COMPLETED"))]]

\* A line of the list of top providers
ProviderFigures(table, reviews, p) ==
    [completedAppointments |->
         Cardinality(OfProvider(table, p) \cap Having(table, "COMPLETED")),
     totalReviews  |-> Cardinality(ReviewsOf(reviews, p)),
     averageRating |-> AverageRating(ReviewsOf(reviews, p))]

StartOfMonth(now) == ParseUtcDate(Max({day \in MonthStarts : day <= Day(now)}))

ProviderOverview(table, reviews, p, now) ==
    LET startOfDay == ParseUtcDate(Day(now))
        active == {a \in OfProvider(table, p) : IsActive(table, a)}
        thisMonth == {a \in OfProvider(table, p) \cap Having(table, "COMPLETED") :
                         table[a].start >= StartOfMonth(now)}
    IN  [todayAppointments    |->
             Cardinality({a \in active : /\ startOfDay <= table[a].start
                                         /\ table[a].start < FromAfter(startOfDay, 1)}),
         upcomingAppointments |-> Cardinality({a \in active : table[a].start >= now}),
         completedThisMonth   |-> Cardinality(thisMonth),
         revenueThisMonth     |-> SumPrices(table, thisMonth),
         averageRating        |-> AverageRating(ReviewsOf(reviews, p))]

\* Mutant: the appointments that touch the day
ProviderScheduleTouching(table, p, day) ==
    {a \in OfProvider(table, p) : Overlaps(table[a], ParseUtcDate(day),
                                           FromAfter(ParseUtcDate(day), 1))}

\* The appointments that start on a day
ProviderSchedule(table, p, day) ==
    LET start == ParseUtcDate(day)
    IN  {a \in OfProvider(table, p) : /\ start <= table[a].start
                                      /\ table[a].start < FromAfter(start, 1)}

CustomerOverview(table, reviews, c, now) ==
    LET own == OfCustomer(table, c)
        completed == own \cap Having(table, "COMPLETED")
    IN  [upcomingAppointments  |->
             Cardinality({a \in own : IsActive(table, a) /\ table[a].start >= now}),
         completedAppointments |-> Cardinality({a \in completed : table[a].start < now}),
         cancelledAppointments |-> Cardinality(own \cap Having(table, "CANCELLED")),
         pendingReviews        |->
             Cardinality({a \in completed : \A v \in reviews : v.appointment # a})]
=============================================================================

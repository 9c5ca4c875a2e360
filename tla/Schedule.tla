------------------------------ MODULE Schedule ------------------------------
(***************************************************************************)
(* The time and price arithmetic of a booking, which the appointment       *)
(* handlers apply between reading the service and opening the booking      *)
(* transaction.  Instants are natural numbers of ticks since a midnight    *)
(* UTC; the length of a tick is the reader's choice.                       *)
(***************************************************************************)
EXTENDS Integers

CONSTANTS
    DayLength,      \* ticks in a UTC day
    ClockStep,      \* ticks in the unit that "HH:MM" can tell apart
    MinLength,      \* the shortest duration a customer may ask for
    None            \* SQL NULL, a missing row, a lock nobody holds

ASSUME ScheduleAssumption ==
    /\ DayLength \in Nat \ {0}
    /\ ClockStep \in 1..DayLength
    /\ MinLength \in Nat \ {0}

\* Date.getUTCDay of an instant, counted from the day of tick 0
UTCDay(t) == (t \div DayLength) % 7

\* toTimeString: the "HH:MM" of an instant, what is below a minute cut off
ToTimeString(t) == ((t % DayLength) \div ClockStep) * ClockStep

\* Mutant: the end of the interval is not compared with the end of the slot
FitsSlotStart(slot, start, end) ==
    /\ slot.day = UTCDay(start)
    /\ slot.day = UTCDay(end)
    /\ slot.start <= ToTimeString(start)

(***************************************************************************)
(* An availability slot [day, start, end] holds an interval when both ends *)
(* fall on the slot's day of the week and inside its clock times.          *)
(***************************************************************************)
FitsSlot(slot, start, end) ==
    /\ slot.day = UTCDay(start)
    /\ slot.day = UTCDay(end)
    /\ slot.start <= ToTimeString(start)
    /\ slot.end >= ToTimeString(end)

WithinAvailability(slots, start, end) ==
    \E slot \in slots : FitsSlot(slot, start, end)

\* A service's own working hours, which bind only when both ends are set
WithinServiceHours(hours, start, end) ==
    hours # None =>
        /\ ToTimeString(start) >= hours.start
        /\ ToTimeString(end) <= hours.end
        /\ UTCDay(start) = UTCDay(end)

(***************************************************************************)
(* resolveDuration, as the set of lengths a booking of the service may     *)
(* take when customers ask for the lengths in `requested`: the service's   *)
(* own duration when it has one (0 counts as having none), else a request  *)
(* of at least MinLength.                                                  *)
(***************************************************************************)
HasDuration(service) == service.duration \notin {None, 0}

BookableLengths(service, requested) ==
    IF HasDuration(service)
    THEN {service.duration}
    ELSE {length \in requested : length >= MinLength}

\* The lengths of a reschedule: without a request the old length is kept
RescheduleLengths(service, requested, oldLength) ==
    IF HasDuration(service)
    THEN {service.duration}
    ELSE {length \in requested : length >= MinLength} \cup {oldLength}

\* Prices are counted so that a price "per hour" is the price of one tick
ChargedByTime(service) ==
    \/ service.pricing.type = "PER_HOUR"
    \/ service.pricing.type = "FIXED" /\ service.pricing.unit = "PER_HOUR"

PriceAtBooking(service, length) ==
    IF service.pricing.type = "FREE" THEN 0
    ELSE IF service.pricing.type \notin {"FIXED", "PER_HOUR"} \/ service.pricing.price = None
         THEN None
    ELSE IF ChargedByTime(service) THEN service.pricing.price * length
    ELSE service.pricing.price
=============================================================================

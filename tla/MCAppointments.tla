--------------------------- MODULE MCAppointments ---------------------------
(* A small instance of Appointments: one provider on one day. *)
EXTENDS Appointments

CONSTANTS p1, fixed, flexible, i1

\* One service with a duration of two ticks and its own hours, one priced by time
MCCatalogue ==
    [s \in Services |->
        IF s = fixed
        THEN [duration |-> 2, hours |-> [start |-> 1, end |-> 4], isActive |-> TRUE,
              pricing |-> [type |-> "FIXED", unit |-> "PER_SERVICE", price |-> 7]]
        ELSE [duration |-> None, hours |-> None, isActive |-> TRUE,
              pricing |-> [type |-> "PER_HOUR", unit |-> None, price |-> 5]]]

MCOwner == [s \in Services |-> p1]

Slot(start, end) ==
    [provider |-> p1, day |-> 0, start |-> start, end |-> end, isActive |-> TRUE]

MCTimetable == [i \in SlotIds |-> IF i = i1 THEN Slot(1, 5) ELSE None]

\* A slot that leaves no room for the longest request at the latest start
MCShortTimetable == [i \in SlotIds |-> IF i = i1 THEN Slot(1, 3) ELSE None]

Nothing == [duration |-> Absent, hours |-> Absent, pricing |-> Absent, isActive |-> Absent]

\* Off the offer and back
MCActivations == {[Nothing EXCEPT !.isActive = isActive] : isActive \in BOOLEAN}

\* Another price, on the offer; and a duration
MCServiceEdits ==
    {[Nothing EXCEPT !.isActive = TRUE,
                     !.pricing = [type |-> "FIXED", unit |-> "PER_SERVICE", price |-> 7]],
     [Nothing EXCEPT !.duration = 2]}

\* A shorter slot, in the place of the one there is or beside it
MCSlotEdits == {[day |-> 0, start |-> 1, end |-> 2]}

\* Bookings against status changes and against edits; role switches against edits
MCMixes ==
    {{"create", "reschedule", "CONFIRMED", "CANCELLED"},
     {"create", "reschedule", "service"},
     {"create", "reschedule", "slots"},
     {"switch", "service", "lookup", "verify"}}
=============================================================================

------------------------------- MODULE Booking -------------------------------
(***************************************************************************)
(* The rows of the appointments table and the rules that every module      *)
(* about appointments shares: statuses, the transitions between them, and  *)
(* when two rows of a provider collide.                                    *)
(***************************************************************************)
EXTENDS Schedule

CONSTANTS
    Appts,          \* appointment ids
    Customers,      \* users who book
    Providers,      \* provider profiles
    Services        \* services

Statuses == {"PENDING", "CONFIRMED", "COMPLETED", "CANCELLED", "REJECTED"}

\* The statuses that occupy a slot: the partial index and every conflict query
Active == {"PENDING", "CONFIRMED"}

Transitions ==
    [PENDING   |-> {"CONFIRMED", "CANCELLED", "REJECTED"},
     CONFIRMED |-> {"COMPLETED", "CANCELLED"},
     COMPLETED |-> {},
     CANCELLED |-> {},
     REJECTED  |-> {}]

CanTransition(current, next) == next \in Transitions[current]

Terminal == Statuses \ Active

Prices == Nat \cup {None}

Rows == [status   : Statuses,
         customer : Customers,
         provider : Providers,
         service  : Services,
         start    : Nat,
         end      : Nat,
         price    : Prices]

Table == [Appts -> Rows \cup {None}]

ASSUME BookingAssumption ==
    /\ None \notin Rows
    /\ None \notin Appts
    /\ None \notin Providers

Exists(table, a) == table[a] # None

IsActive(table, a) == Exists(table, a) /\ table[a].status \in Active

\* Mutant: the two ends swapped
LengthOfSwapped(row) == row.start - row.end

\* The old length, which a reschedule without a duration keeps
LengthOf(row) == row.end - row.start

\* The interval test of the conflict queries: touching ends do not collide
Overlaps(row, start, end) == row.start < end /\ row.end > start

\* What SELECT id ... WHERE "id" <> own AND overlap finds
Conflicts(table, own, provider, start, end) ==
    {b \in Appts : /\ b # own
                   /\ IsActive(table, b)
                   /\ table[b].provider = provider
                   /\ Overlaps(table[b], start, end)}

\* Mutant: the index covers PENDING rows only
IndexCoversPendingOnly(table, own, provider, start) ==
    \E b \in Appts : /\ b # own
                     /\ Exists(table, b)
                     /\ table[b].status = "PENDING"
                     /\ table[b].provider = provider
                     /\ table[b].start = start

\* The partial unique index on (providerProfileId, startTime) refuses a write
IndexRefuses(table, own, provider, start) ==
    \E b \in Appts : /\ b # own
                     /\ IsActive(table, b)
                     /\ table[b].provider = provider
                     /\ table[b].start = start

\* Two active appointments of one provider at overlapping times
DoubleBooked(table, a, b) ==
    /\ a # b
    /\ IsActive(table, a)
    /\ IsActive(table, b)
    /\ table[a].provider = table[b].provider
    /\ Overlaps(table[a], table[b].start, table[b].end)
=============================================================================

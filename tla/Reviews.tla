------------------------------- MODULE Reviews -------------------------------
(***************************************************************************)
(* Reviews of completed appointments.  The appointments change underneath: *)
(* bookings, moves and status changes as Ledger allows them, and status    *)
(* writes that were checked before the appointment ended.  Review requests *)
(* read the appointment, then look for a review, then write; nothing is    *)
(* locked, and the unique index on appointmentId is the last word.         *)
(***************************************************************************)
EXTENDS Ledger, Views

CONSTANTS
    Gone,       \* a deleted review, whose id never returns
    ReviewIds,  \* ids of reviews: bounds how many are ever written
    Ratings,    \* the ratings customers give
    Bookings,   \* the appointments customers book
    Requests,   \* review requests that can be in flight at the same time
    Instants,   \* bound: the instants at which something happens
    AskedDays,  \* bound: the first and last days of the ranges clients ask for
    Mixes       \* bound: the sets of operations that are combined

ReviewRows == [appointment : Appts, customer : Customers, provider : Providers,
               rating : Ratings]

ASSUME ReviewsAssumption ==
    /\ Bookings \subseteq Rows
    /\ \A b \in Bookings : /\ b.status = "PENDING"
                           /\ b.start < b.end
                           /\ WithinAvailability(Slots[b.provider], b.start, b.end)
    /\ Ratings \subseteq Nat
    /\ IsFiniteSet(ReviewIds)
    /\ Instants \subseteq Nat /\ 0 \in Instants
    /\ AskedDays \subseteq Nat
    /\ Gone # None /\ {Gone, None} \cap ReviewRows = {}

VARIABLES
    review,     \* table reviews
    req,        \* what each review request carries to its next step
    now,        \* the clock
    calls,      \* the operations of this behaviour, one of Mixes
    completed   \* history: appointments that have been COMPLETED

vars == <<appt, review, req, now, calls, completed>>

Idle == [step |-> "idle", id |-> None, row |-> None]

Init ==
    /\ LedgerInit
    /\ review = [v \in ReviewIds |-> None]
    /\ req = [r \in Requests |-> Idle]
    /\ now = 0
    /\ calls \in Mixes
    /\ completed = {}

Written(v) == review[v] \notin {None, Gone}
Stored == {review[v] : v \in {w \in ReviewIds : Written(w)}}

GoTo(r, step, id, row) == req' = [req EXCEPT ![r] = [step |-> step, id |-> id, row |-> row]]
Answer(r) == req' = [req EXCEPT ![r] = Idle]

-----------------------------------------------------------------------------
(* The appointments *)

BookOrMove ==
    /\ \E a \in Appts, b \in Bookings :
         /\ b.start > now
         /\ appt' = [appt EXCEPT ![a] =
                [b EXCEPT !.status = IF Exists(appt, a) THEN appt[a].status ELSE "PENDING"]]
         /\ Book(a) \/ Move(a)
    /\ UNCHANGED <<review, req, now, calls, completed>>

ChangeStatus ==
    /\ \E a \in Appts : Decide(a)
    /\ completed' = completed \cup Having(appt', "COMPLETED")
    /\ UNCHANGED <<review, req, now, calls>>

\* A status write that passed its checks while the appointment was still active
OverwriteStatus ==
    /\ "overwrite" \in calls
    /\ \E a \in Appts, status \in {"CONFIRMED", "COMPLETED", "CANCELLED", "REJECTED"} :
         /\ Exists(appt, a) /\ appt[a].status \in Terminal \ {status}
         /\ status \in Active => ~IndexRefuses(appt, a, appt[a].provider, appt[a].start)
         /\ appt' = [appt EXCEPT ![a].status = status]
    /\ completed' = completed \cup Having(appt', "COMPLETED")
    /\ UNCHANGED <<review, req, now, calls>>

Tick ==
    /\ now' \in Instants
    /\ now' > now
    /\ UNCHANGED <<appt, review, req, calls, completed>>

-----------------------------------------------------------------------------
(* POST reviews *)

Reviewable(a, customer) ==
    /\ Exists(appt, a)
    /\ appt[a].customer = customer
    /\ appt[a].status = "COMPLETED"

CreateRead(r, a, customer, rating) ==
    /\ req[r] = Idle
    /\ Reviewable(a, customer)
    /\ GoTo(r, "look", None, [appointment |-> a, customer |-> customer,
                              provider |-> appt[a].provider, rating |-> rating])
    /\ UNCHANGED <<appt, review, now, calls, completed>>

HasReview(a) == \E row \in Stored : row.appointment = a

LookForReview(r) ==
    /\ req[r].step = "look"
    /\ IF HasReview(req[r].row.appointment)
       THEN Answer(r)
       ELSE GoTo(r, "insert", None, req[r].row)
    /\ UNCHANGED <<appt, review, now, calls, completed>>

\* Mutant: appointmentId is not unique
InsertTwice(r) ==
    /\ req[r].step = "insert"
    /\ \E v \in ReviewIds :
           review[v] = None /\ review' = [review EXCEPT ![v] = req[r].row]
    /\ Answer(r)
    /\ UNCHANGED <<appt, now, calls, completed>>

\* The unique index on appointmentId refuses a second review
Insert(r) ==
    /\ req[r].step = "insert"
    /\ IF HasReview(req[r].row.appointment)
       THEN UNCHANGED review
       ELSE \E v \in ReviewIds :
              review[v] = None /\ review' = [review EXCEPT ![v] = req[r].row]
    /\ Answer(r)
    /\ UNCHANGED <<appt, now, calls, completed>>

-----------------------------------------------------------------------------
(* PATCH and DELETE reviews/:id *)

Owns(customer, v) == Written(v) /\ review[v].customer = customer

\* A body without a rating edits the comment only
UpdateRead(r, v, customer, rating) ==
    /\ "update" \in calls
    /\ req[r] = Idle
    /\ Owns(customer, v)
    /\ GoTo(r, "update", v, rating)
    /\ UNCHANGED <<appt, review, now, calls, completed>>

\* Mutant: a rating that was not sent is written all the same
UpdateAll(r) ==
    /\ req[r].step = "update"
    /\ IF Written(req[r].id)
       THEN review' = [review EXCEPT ![req[r].id].rating = req[r].row]
       ELSE UNCHANGED review
    /\ Answer(r)
    /\ UNCHANGED <<appt, now, calls, completed>>

\* A row deleted meanwhile is not found, and the request fails
Update(r) ==
    /\ req[r].step = "update"
    /\ IF Written(req[r].id) /\ req[r].row # None
       THEN review' = [review EXCEPT ![req[r].id].rating = req[r].row]
       ELSE UNCHANGED review
    /\ Answer(r)
    /\ UNCHANGED <<appt, now, calls, completed>>

RemoveRead(r, v, customer) ==
    /\ "remove" \in calls
    /\ req[r] = Idle
    /\ Owns(customer, v)
    /\ GoTo(r, "delete", v, None)
    /\ UNCHANGED <<appt, review, now, calls, completed>>

Remove(r) ==
    /\ req[r].step = "delete"
    /\ review' = [review EXCEPT ![req[r].id] = Gone]
    /\ Answer(r)
    /\ UNCHANGED <<appt, now, calls, completed>>

\* A query fails, or the process stops: the request is gone, its writes stay
Fail(r) ==
    /\ req[r] # Idle
    /\ Answer(r)
    /\ UNCHANGED <<appt, review, now, calls, completed>>

Receive(r) ==
    \E customer \in Customers :
        \/ \E a \in Appts, rating \in Ratings : CreateRead(r, a, customer, rating)
        \/ \E v \in ReviewIds :
             \/ \E rating \in Ratings \cup {None} : UpdateRead(r, v, customer, rating)
             \/ RemoveRead(r, v, customer)

Advance(r) == LookForReview(r) \/ Insert(r) \/ Update(r) \/ Remove(r)

Next ==
    \/ BookOrMove \/ ChangeStatus \/ OverwriteStatus \/ Tick
    \/ \E r \in Requests : Receive(r) \/ Advance(r) \/ Fail(r)

Spec == Init /\ [][Next]_vars

-----------------------------------------------------------------------------
(* Properties *)

RequestStates ==
    {Idle}
    \cup [step : {"look", "insert"}, id : {None}, row : ReviewRows]
    \cup [step : {"update"}, id : ReviewIds, row : Ratings \cup {None}]
    \cup [step : {"delete"}, id : ReviewIds, row : {None}]

(***************************************************************************)
(* The values the tables and the review requests can hold: whatever was    *)
(* sent and whatever was deleted meanwhile, a stored review is whole.      *)
(***************************************************************************)
TypeOK ==
    /\ appt \in Table
    /\ review \in [ReviewIds -> ReviewRows \cup {None, Gone}]
    /\ req \in [Requests -> RequestStates]
    /\ now \in Nat
    /\ completed \subseteq Appts

(***************************************************************************)
(* However creations, deletions and late status writes interleave, every   *)
(* review is of an appointment that has been completed, by its customer    *)
(* and for its provider, and an appointment has at most one.               *)
(***************************************************************************)
ReviewsAreEarned ==
    \A v \in ReviewIds : Written(v) =>
        /\ review[v].appointment \in completed
        /\ review[v].customer = appt[review[v].appointment].customer
        /\ review[v].provider = appt[review[v].appointment].provider
        /\ \A w \in ReviewIds \ {v} :
               Written(w) => review[w].appointment # review[v].appointment

Ranges == {range \in AskedDays \X AskedDays : RangeAccepted(range[1], range[2])}

\* An interval that a day of the calendar shows as open and not booked
ShownFree(calendar, day, start, end) ==
    /\ \E slot \in calendar[day].open :
           ParseUtcDate(day) + slot.start <= start /\ end <= ParseUtcDate(day) + slot.end
    /\ \A a \in calendar[day].booked : ~Overlaps(appt[a], start, end)

(***************************************************************************)
(* What the calendar shows as free can be booked: whatever range of days a *)
(* client asks for, an interval inside an open slot of a shown day, clear  *)
(* of what the day shows as booked, passes the availability check and      *)
(* meets no conflict, though the calendar and the booking are computed by  *)
(* different services from different queries.                              *)
(***************************************************************************)
FreeIsBookable ==
    \A p \in Providers, range \in Ranges :
        LET calendar == FindSlotsForRange(appt, p, range[1], range[2])
        IN  \A day \in range[1]..range[2], i, j \in 0..(DayLength - 1) :
                LET start == ParseUtcDate(day) + i
                    end == ParseUtcDate(day) + j
                IN  i < j /\ ShownFree(calendar, day, start, end) =>
                        /\ WithinAvailability(Slots[p], start, end)
                        /\ Conflicts(appt, None, p, start, end) = {}

\* A provider's schedule, overview and calendar count the same day
DayAgrees(p) ==
    LET today == Day(now)
        active == {a \in ProviderSchedule(appt, p, today) : IsActive(appt, a)}
    IN  /\ ProviderOverview(appt, Stored, p, now).todayAppointments = Cardinality(active)
        /\ active \subseteq FindSlotsForRange(appt, p, today, today)[today].booked

\* The trends hold what the schedules of their days hold, and not more than was earned
TrendsAgree(days) ==
    LET trends == AdminTrends(appt, now, days)
    IN  /\ Max(DOMAIN trends) = Day(now)
        /\ \A day \in DOMAIN trends :
             trends[day].bookings =
                 Cardinality(UNION {ProviderSchedule(appt, p, day) : p \in Providers})
        /\ SumFunction([day \in DOMAIN trends |-> trends[day].revenue])
               <= AdminOverview(appt, Stored).revenue

\* The admin's totals are the sums over the statuses and over the providers
TotalsAgree ==
    LET overview == AdminOverview(appt, Stored)
        byStatus == AdminAppointments(appt)
        figures(p) == ProviderFigures(appt, Stored, p)
    IN  /\ overview.totalAppointments = SumFunction(byStatus)
        /\ byStatus["COMPLETED"] =
               SumFunction([p \in Providers |-> figures(p).completedAppointments])
        /\ overview.totalReviews =
               SumFunction([p \in Providers |-> figures(p).totalReviews])
        /\ \A p \in Providers : ProviderOverview(appt, Stored, p, now).completedThisMonth
                                  <= figures(p).completedAppointments

\* Every completed appointment the admin counts has its review, or its customer
\* is asked for one, and nobody is asked for more than was completed
ReviewsAgree ==
    LET pending == [c \in Customers |->
                       CustomerOverview(appt, Stored, c, now).pendingReviews]
        completedOnes == AdminAppointments(appt)["COMPLETED"]
    IN  /\ SumFunction(pending) <= completedOnes
        /\ completedOnes <= SumFunction(pending) + AdminOverview(appt, Stored).totalReviews

(***************************************************************************)
(* Read off one state of the tables, the views of the admin, the providers *)
(* and the customers agree with each other, on every day and for every     *)
(* window asked for.                                                       *)
(***************************************************************************)
ViewsAgree ==
    /\ TotalsAgree
    /\ \A p \in Providers : DayAgrees(p)
    /\ \A days \in {None} \cup -1..(MaxDays + 1) : TrendsAgree(days)
    /\ ReviewsAgree
=============================================================================

---------------------------- MODULE Appointments ----------------------------
(***************************************************************************)
(* The appointment handlers, the role switch of a provider, and the edits  *)
(* of services and availability slots, as requests that run concurrently   *)
(* on the API replicas against one database.  A request is cut where its   *)
(* handler awaits the database: one action per database step together with *)
(* the synchronous code that follows it.  Only the provider row lock of    *)
(* the booking transactions, and the unique indexes, stand between two     *)
(* requests; every other check is made on what an earlier step read.       *)
(***************************************************************************)
EXTENDS Booking

CONSTANTS
    Absent,         \* a property the request body leaves out
    SlotIds,        \* availability ids
    Owner,          \* Owner[s]: the provider of service s
    Catalogue,      \* the rows of the services at first
    Timetable,      \* the rows of the availability slots at first, or None
    Requests,       \* requests that can be in flight at the same time
    Mixes,          \* bound: the sets of operations clients combine
    ServiceEdits,   \* bound: the columns that edits of services write
    SlotEdits,      \* bound: the bodies of edits of slots
    Horizon,        \* bound: the clock stops here
    StartTimes,     \* start instants clients ask for
    Durations,      \* durations clients ask for
    CancelWindow    \* ticks before the start a customer may still cancel

Hours == [start : Nat, end : Nat]

PricingTypes == {"FIXED", "PER_HOUR", "ON_REQUEST", "FREE", "NOT_SHOWN"}
Pricings == [type  : PricingTypes,
             unit  : {"PER_SERVICE", "PER_HOUR", None},
             price : Prices]

\* Of a service, what a booking reads
ServiceRows == [duration : Nat \cup {None},
                hours    : Hours \cup {None},
                pricing  : Pricings,
                isActive : BOOLEAN]

SlotRows == [provider : Providers,
             day      : 0..6,
             start    : Nat,
             end      : Nat,
             isActive : BOOLEAN]

\* What an edit leaves out it leaves alone
ServiceBodies == [duration : Nat \cup {None, Absent},
                  hours    : Hours \cup {None, Absent},
                  pricing  : Pricings \cup {Absent},
                  isActive : BOOLEAN \cup {Absent}]

SlotBodies == [day   : 0..6 \cup {Absent},
               start : Nat \cup {Absent},
               end   : Nat \cup {Absent}]

Roles == {"PROVIDER", "CUSTOMER"}

ASSUME AppointmentsAssumption ==
    /\ None \notin Requests \cup SlotRows \cup Roles
    /\ Owner \in [Services -> Providers]
    /\ Catalogue \in [Services -> ServiceRows]
    /\ Timetable \in [SlotIds -> SlotRows \cup {None}]
    /\ ServiceEdits \subseteq ServiceBodies
    /\ SlotEdits \subseteq SlotBodies
    /\ Horizon \in Nat
    /\ StartTimes \subseteq Nat
    /\ Durations \subseteq Nat \ {0}
    /\ CancelWindow \in Nat

VARIABLES
    appt,       \* table appointments, by id
    service,    \* table services, by id
    slot,       \* table availabilities, by id
    open,       \* providers whose profile isActive (and whose user's role is PROVIDER)
    verified,   \* providers with isVerified
    cached,     \* the role in the cached user of each provider
    now,        \* Date.now()
    calls,      \* the operations of this behaviour, one of Mixes
    req,        \* what each request carries from one step to the next
    lock,       \* holder of each provider row's FOR UPDATE lock
    revived,    \* history: appointments that left a terminal status
    basis,      \* history: what the request read that gave an appointment its interval
    excused     \* history: closed providers of whom an admitted request may be left

offer == <<service, slot, open, verified>>
tables == <<appt, offer>>
history == <<revived, basis, excused>>
vars == <<tables, cached, now, calls, req, lock, history>>

Idle == [op |-> "none", step |-> "idle", id |-> None, provider |-> None,
         data |-> None, read |-> None]

\* The interval-changing handlers end in a transaction that locks the provider row
Locking == {"create", "reschedule"}

Intervals == [start : Nat, end : Nat, price : Prices]
StatusUpdates == [status : Statuses]
ServiceUpdates == [service : Services, edit : ServiceEdits]
Readings == [service : ServiceRows, slots : SUBSET SlotRows]

Init ==
    /\ appt = [a \in Appts |-> None]
    /\ service = Catalogue
    /\ slot = Timetable
    /\ open = Providers
    /\ verified = {}
    /\ cached = [p \in Providers |-> None]
    /\ now = 0
    /\ calls \in Mixes
    /\ req = [r \in Requests |-> Idle]
    /\ lock = [p \in Providers |-> None]
    /\ revived = {}
    /\ basis = [a \in Appts |-> None]
    /\ excused = {}

\* A request that has read the service `row` and is yet to read the availability
BookingRequest(op, id, provider, data, row) ==
    [op |-> op, step |-> "availability", id |-> id, provider |-> provider,
     data |-> data, read |-> [service |-> row, slots |-> {}]]

\* A request whose checks have passed: it goes on to its write with `data`
WriteRequest(op, id, provider, data) ==
    [op |-> op, step |-> "begin", id |-> id, provider |-> provider,
     data |-> data, read |-> None]

Admit(r, request) ==
    /\ req[r] = Idle
    /\ req' = [req EXCEPT ![r] = request]
    /\ UNCHANGED <<tables, cached, now, calls, lock, revived, basis>>

Proceed(r, request) == Admit(r, request) /\ UNCHANGED excused

\* Request r is answered; the end of a transaction releases its row lock
Answer(r) ==
    /\ req' = [req EXCEPT ![r] = Idle]
    /\ lock' = [p \in Providers |-> IF lock[p] = r THEN None ELSE lock[p]]

Else(given, current) == IF given = Absent THEN current ELSE given

-----------------------------------------------------------------------------
(* Reading and checking *)

\* Ids are generated on insert: any id no row or pending insert has
FreshIds ==
    {a \in Appts : /\ ~Exists(appt, a)
                   /\ \A r \in Requests : req[r].id # a}

CreateRead(r, customer, s, start) ==
    LET row == service[s]
    IN  /\ "create" \in calls
        /\ row.isActive
        /\ Owner[s] \in open
        /\ start > now
        /\ FreshIds # {}                                    \* bound: ids run out
        /\ \E length \in BookableLengths(row, Durations) :
              Proceed(r, BookingRequest(
                  "create", CHOOSE a \in FreshIds : TRUE, Owner[s],
                  [status   |-> "PENDING",
                   customer |-> customer,
                   provider |-> Owner[s],
                   service  |-> s,
                   start    |-> start,
                   end      |-> start + length,
                   price    |-> PriceAtBooking(row, length)],
                  row))

\* Mutant: the status of the appointment is not checked
RescheduleReadAnyStatus(r, a, start) ==
    LET row == service[appt[a].service]
    IN  /\ "reschedule" \in calls
        /\ Exists(appt, a)
        /\ start > now
        /\ \E length \in RescheduleLengths(row, Durations, LengthOf(appt[a])) :
              Proceed(r, BookingRequest(
                  "reschedule", a, appt[a].provider,
                  [start |-> start,
                   end   |-> start + length,
                   price |-> PriceAtBooking(row, length)],
                  row))

RescheduleRead(r, a, start) ==
    LET row == service[appt[a].service]
    IN  /\ "reschedule" \in calls
        /\ Exists(appt, a)
        /\ CanTransition(appt[a].status, "CANCELLED")
        /\ start > now
        /\ \E length \in RescheduleLengths(row, Durations, LengthOf(appt[a])) :
              Proceed(r, BookingRequest(
                  "reschedule", a, appt[a].provider,
                  [start |-> start,
                   end   |-> start + length,
                   price |-> PriceAtBooking(row, length)],
                  row))

\* The rows prisma.availability.findMany returns to a booking
ActiveSlots(p) ==
    {slot[i] : i \in {j \in SlotIds : /\ slot[j] # None
                                      /\ slot[j].provider = p
                                      /\ slot[j].isActive}}

(***************************************************************************)
(* assertWithinAvailability, an await later.  A service's own hours bind a *)
(* create only: the select of a reschedule leaves them out.                *)
(***************************************************************************)
CheckAvailability(r) ==
    LET slots == ActiveSlots(req[r].provider)
        data == req[r].data
    IN  /\ req[r].step = "availability"
        /\ IF /\ WithinAvailability(slots, data.start, data.end)
              /\ req[r].op = "create" =>
                    WithinServiceHours(req[r].read.service.hours, data.start, data.end)
           THEN /\ req' = [req EXCEPT ![r] = [@ EXCEPT !.step = "begin", !.read.slots = slots]]
                /\ UNCHANGED lock
           ELSE Answer(r)
        /\ UNCHANGED <<tables, cached, now, calls, history>>

\* confirm, reject and complete, by the provider or an admin
TransitionRead(r, a, next) ==
    /\ next \in calls \cap {"CONFIRMED", "REJECTED", "COMPLETED"}
    /\ Exists(appt, a)
    /\ CanTransition(appt[a].status, next)
    /\ Proceed(r, WriteRequest("status", a, appt[a].provider, [status |-> next]))

\* A customer must be early enough, the provider or an admin need not
CancelRead(r, a, role) ==
    /\ "CANCELLED" \in calls
    /\ Exists(appt, a)
    /\ CanTransition(appt[a].status, "CANCELLED")
    /\ role = "CUSTOMER" => appt[a].start - now >= CancelWindow
    /\ Proceed(r, WriteRequest("status", a, appt[a].provider, [status |-> "CANCELLED"]))

\* switchRole to CUSTOMER is refused while upcoming active appointments exist
SwitchToCustomerRead(r, p) ==
    /\ "switch" \in calls
    /\ p \in open
    /\ \A a \in Appts :
          IsActive(appt, a) /\ appt[a].provider = p => appt[a].start <= now
    /\ Proceed(r, WriteRequest("close", None, p, None))

SwitchToProviderRead(r, p) ==
    /\ "switch" \in calls
    /\ p \notin open
    /\ Proceed(r, WriteRequest("reopen", None, p, None))

Role(p) == IF p \in open THEN "PROVIDER" ELSE "CUSTOMER"

\* What JwtStrategy.validate answers RolesGuard with
SeenRole(p) == IF cached[p] # None THEN cached[p] ELSE Role(p)

\* A request that misses the user cache reads the row, to fill the cache with it
Lookup(r, p) ==
    /\ "lookup" \in calls
    /\ cached[p] = None
    /\ Proceed(r, [op |-> "lookup", step |-> "fill", id |-> None, provider |-> p,
                   data |-> Role(p), read |-> None])

\* The role switch of p has committed and the cached user is still to be deleted
DeletionPending(p) ==
    \E r \in Requests : /\ req[r].op = "close"
                        /\ req[r].step = "invalidate"
                        /\ req[r].provider = p

(***************************************************************************)
(* services.update and remove: the guard asks for the role of the cached   *)
(* user, assertOwner for the owner, nobody whether the profile is open.    *)
(***************************************************************************)
ServiceRead(r, s, edit) ==
    LET p == Owner[s]
    IN  /\ "service" \in calls
        /\ SeenRole(p) = "PROVIDER"
        /\ Admit(r, WriteRequest("service", None, p, [service |-> s, edit |-> edit]))
        /\ excused' = IF p \notin open /\ DeletionPending(p)
                      THEN excused \cup {p} ELSE excused

-----------------------------------------------------------------------------
(* The booking transaction *)

\* Mutant: a plain SELECT, which waits for nobody
LockProviderNoWait(r) ==
    /\ req[r].op \in Locking
    /\ req[r].step = "begin"
    /\ lock' = [lock EXCEPT ![req[r].provider] = r]
    /\ req' = [req EXCEPT ![r].step = "locked"]
    /\ UNCHANGED <<tables, cached, now, calls, history>>

\* SELECT ... FOR UPDATE on the provider row waits for its holder
LockProvider(r) ==
    /\ req[r].op \in Locking
    /\ req[r].step = "begin"
    /\ lock[req[r].provider] = None
    /\ lock' = [lock EXCEPT ![req[r].provider] = r]
    /\ req' = [req EXCEPT ![r].step = "locked"]
    /\ UNCHANGED <<tables, cached, now, calls, history>>

\* Mutant: a conflict answers the request and leaves the transaction open
CheckConflictsKeepsLock(r) ==
    /\ req[r].step = "locked"
    /\ req' = [req EXCEPT ![r] =
                  IF Conflicts(appt, @.id, @.provider, @.data.start, @.data.end) = {}
                  THEN [@ EXCEPT !.step = "clear"] ELSE Idle]
    /\ UNCHANGED <<tables, cached, now, calls, lock, history>>

\* The conflict query: a row in the way rolls the transaction back with a 409
CheckConflicts(r) ==
    /\ req[r].step = "locked"
    /\ IF Conflicts(appt, req[r].id, req[r].provider, req[r].data.start, req[r].data.end) = {}
       THEN req' = [req EXCEPT ![r].step = "clear"] /\ UNCHANGED lock
       ELSE Answer(r)
    /\ UNCHANGED <<tables, cached, now, calls, history>>

\* Whether the index lets row `own` be active at `start`: P2002 is answered with a 409
Collides(r) ==
    IndexRefuses(appt, req[r].id, req[r].provider, req[r].data.start)

InsertAppointment(r) ==
    /\ req[r].op = "create"
    /\ req[r].step = "clear"
    /\ IF Collides(r)
       THEN UNCHANGED <<appt, basis>>
       ELSE /\ appt' = [appt EXCEPT ![req[r].id] = req[r].data]
            /\ basis' = [basis EXCEPT ![req[r].id] = req[r].read]
    /\ Answer(r)
    /\ UNCHANGED <<offer, cached, now, calls, revived, excused>>

\* Mutant: the price is left as it was
UpdateIntervalOldPrice(r) ==
    LET a == req[r].id
        data == req[r].data
    IN  /\ req[r].op = "reschedule"
        /\ req[r].step = "clear"
        /\ IF IsActive(appt, a) /\ Collides(r)
           THEN UNCHANGED <<appt, basis>>
           ELSE /\ appt' = [appt EXCEPT ![a].start = data.start, ![a].end = data.end]
                /\ basis' = [basis EXCEPT ![a] = req[r].read]
        /\ Answer(r)
        /\ UNCHANGED <<offer, cached, now, calls, revived, excused>>

\* The update goes by id alone; the status it was checked against may be gone
UpdateInterval(r) ==
    LET a == req[r].id
        data == req[r].data
    IN  /\ req[r].op = "reschedule"
        /\ req[r].step = "clear"
        /\ IF IsActive(appt, a) /\ Collides(r)
           THEN UNCHANGED <<appt, basis>>
           ELSE /\ appt' = [appt EXCEPT ![a].start = data.start,
                                        ![a].end   = data.end,
                                        ![a].price = data.price]
                /\ basis' = [basis EXCEPT ![a] = req[r].read]
        /\ Answer(r)
        /\ UNCHANGED <<offer, cached, now, calls, revived, excused>>

-----------------------------------------------------------------------------
(* Writes outside a locking transaction *)

\* The update goes by id alone, here too
UpdateStatus(r) ==
    LET a == req[r].id
        next == req[r].data.status
    IN  /\ req[r].op = "status"
        /\ IF next \in Active /\ IndexRefuses(appt, a, appt[a].provider, appt[a].start)
           THEN UNCHANGED <<appt, revived>>
           ELSE /\ appt' = [appt EXCEPT ![a].status = next]
                /\ revived' = IF appt[a].status \in Terminal /\ next # appt[a].status
                              THEN revived \cup {a} ELSE revived
        /\ Answer(r)
        /\ UNCHANGED <<offer, cached, now, calls, basis, excused>>

\* Mutant: the cached user stays
InvalidateKeeps(r) ==
    /\ req[r].step = "invalidate"
    /\ Answer(r)
    /\ UNCHANGED <<tables, cached, now, calls, history>>

\* invalidateUserCache, after the role switch has committed and been read back
Invalidate(r) ==
    /\ req[r].step = "invalidate"
    /\ cached' = [cached EXCEPT ![req[r].provider] = None]
    /\ Answer(r)
    /\ UNCHANGED <<tables, now, calls, history>>

\* The end of Lookup; the answer of the guard to this request is ServiceRead's
FillUser(r) ==
    /\ req[r].step = "fill"
    /\ cached' = [cached EXCEPT ![req[r].provider] = req[r].data]
    /\ Answer(r)
    /\ UNCHANGED <<tables, now, calls, history>>

\* Other requests of provider p that were let in as a provider's, or may let such in
Crossing(r, p) ==
    \E q \in Requests \ {r} :
        /\ req[q].provider = p
        /\ req[q].op = "service" \/ (req[q].op = "lookup" /\ req[q].data = "PROVIDER")

\* The profile update waits for a booking transaction that holds the provider row
CloseProfile(r) ==
    LET p == req[r].provider
    IN  /\ req[r].op = "close"
        /\ req[r].step = "begin"
        /\ lock[p] = None
        /\ open' = open \ {p}
        /\ service' = [s \in Services |-> IF Owner[s] = p
                                          THEN [service[s] EXCEPT !.isActive = FALSE]
                                          ELSE service[s]]
        /\ req' = [req EXCEPT ![r].step = "invalidate"]
        /\ excused' = IF Crossing(r, p) THEN excused \cup {p} ELSE excused \ {p}
        /\ UNCHANGED <<appt, slot, verified, cached, now, calls, lock, revived, basis>>

\* The services stay inactive when their provider comes back
ReopenProfile(r) ==
    /\ req[r].op = "reopen"
    /\ req[r].step = "begin"
    /\ lock[req[r].provider] = None
    /\ open' = open \cup {req[r].provider}
    /\ req' = [req EXCEPT ![r].step = "invalidate"]
    /\ UNCHANGED <<appt, service, slot, verified, cached, now, calls, lock, history>>

\* The columns of the body, by id; the pricing is what Catalog's merge came to
UpdateService(r) ==
    LET edit == req[r].data.edit
    IN  /\ req[r].op = "service"
        /\ service' = [service EXCEPT ![req[r].data.service] =
               [duration |-> Else(edit.duration, @.duration),
                hours    |-> Else(edit.hours, @.hours),
                pricing  |-> Else(edit.pricing, @.pricing),
                isActive |-> Else(edit.isActive, @.isActive)]]
        /\ Answer(r)
        /\ UNCHANGED <<appt, slot, open, verified, cached, now, calls, history>>

-----------------------------------------------------------------------------
(* Writes in one step *)

\* An admin sets or clears isVerified
SetVerification(p, isVerified) ==
    /\ "verify" \in calls
    /\ lock[p] = None
    /\ verified' = IF isVerified THEN verified \cup {p} ELSE verified \ {p}
    /\ UNCHANGED <<appt, service, slot, open, cached, now, calls, req, lock, history>>

(***************************************************************************)
(* Edits of slots are written by id and decide by nothing they read but    *)
(* the owner, so they are steps of their own.  The role they were let in   *)
(* with may be gone when they write.  The unique index on provider, day,   *)
(* start and end counts removed slots too.                                 *)
(***************************************************************************)
WriteSlot(i, row) ==
    /\ "slots" \in calls
    /\ \A j \in SlotIds \ {i} :
          slot[j] # None => \E f \in {"provider", "day", "start", "end"} : slot[j][f] # row[f]
    /\ slot' = [slot EXCEPT ![i] = row]
    /\ UNCHANGED <<appt, service, open, verified, cached, now, calls, req, lock, history>>

CreateSlot(i, p, body) ==
    /\ slot[i] = None
    /\ Absent \notin {body.day, body.start, body.end}
    /\ body.start < body.end
    /\ WriteSlot(i, [provider |-> p, day |-> body.day, start |-> body.start,
                     end |-> body.end, isActive |-> TRUE])

\* The range is checked only when both bounds are sent, a removed slot is updated too
UpdateSlot(i, body) ==
    /\ slot[i] # None
    /\ Absent \notin {body.start, body.end} => body.start < body.end
    /\ WriteSlot(i, [slot[i] EXCEPT !.day   = Else(body.day, @),
                                    !.start = Else(body.start, @),
                                    !.end   = Else(body.end, @)])

RemoveSlot(i) ==
    /\ slot[i] # None
    /\ WriteSlot(i, [slot[i] EXCEPT !.isActive = FALSE])

-----------------------------------------------------------------------------
(***************************************************************************)
(* A database error, a transaction timeout or the end of the replica:      *)
(* rolled back.  A deletion from the cache that fails is swallowed.        *)
(***************************************************************************)
Fail(r) ==
    /\ req[r] # Idle
    /\ excused' = IF req[r].op = "close" /\ req[r].step = "invalidate"
                  THEN excused \cup {req[r].provider} ELSE excused
    /\ Answer(r)
    /\ UNCHANGED <<tables, cached, now, calls, revived, basis>>

CacheExpires(p) ==
    /\ cached[p] # None
    /\ cached' = [cached EXCEPT ![p] = None]
    /\ UNCHANGED <<tables, now, calls, req, lock, history>>

Tick ==
    /\ now < Horizon
    /\ now' = now + 1
    /\ UNCHANGED <<tables, cached, calls, req, lock, history>>

Receive(r) ==
    \/ \E customer \in Customers, s \in Services, start \in StartTimes :
          CreateRead(r, customer, s, start)
    \/ \E a \in Appts, start \in StartTimes : RescheduleRead(r, a, start)
    \/ \E a \in Appts, next \in Statuses : TransitionRead(r, a, next)
    \/ \E a \in Appts, role \in Roles \cup {"ADMIN"} : CancelRead(r, a, role)
    \/ \E p \in Providers :
          SwitchToCustomerRead(r, p) \/ SwitchToProviderRead(r, p) \/ Lookup(r, p)
    \/ \E s \in Services, edit \in ServiceEdits : ServiceRead(r, s, edit)

\* The rest of a request, once it has read what it starts from
Advance(r) ==
    \/ CheckAvailability(r)
    \/ CheckConflicts(r)
    \/ InsertAppointment(r)
    \/ UpdateInterval(r)
    \/ UpdateStatus(r)
    \/ UpdateService(r)
    \/ Invalidate(r)
    \/ FillUser(r)

\* The steps that wait for the provider row
WaitForProvider(r) ==
    \/ LockProvider(r)
    \/ CloseProfile(r)
    \/ ReopenProfile(r)

\* What happens without a request in flight
Around ==
    \/ \E p \in Providers, isVerified \in BOOLEAN : SetVerification(p, isVerified)
    \/ \E i \in SlotIds :
          \/ \E p \in Providers, body \in SlotEdits : CreateSlot(i, p, body)
          \/ \E body \in SlotEdits : UpdateSlot(i, body)
          \/ RemoveSlot(i)
    \/ \E p \in Providers : CacheExpires(p)
    \/ Tick

Next ==
    \/ \E r \in Requests :
         Receive(r) \/ Advance(r) \/ WaitForProvider(r) \/ Fail(r)
    \/ Around

Spec == Init /\ [][Next]_vars

(***************************************************************************)
(* An admitted request runs on.  PostgreSQL serves the waiters of a row    *)
(* lock in turn, so a request does not wait for the provider row forever.  *)
(***************************************************************************)
Fairness ==
    \A r \in Requests : WF_vars(Advance(r)) /\ SF_vars(WaitForProvider(r))

FairSpec == Spec /\ Fairness

-----------------------------------------------------------------------------
(* Properties *)

L == INSTANCE Ledger WITH appt <- appt

(***************************************************************************)
(* The values the tables and the requests in flight can hold: a request    *)
(* carries exactly the data its handler passes to its write, and a booking *)
(* what it has read of the catalogue.                                      *)
(***************************************************************************)
BookingSteps == {"availability", "begin", "locked", "clear"}

InFlight(ops, steps, ids, data, read) ==
    [op : ops, step : steps, id : ids, provider : Providers, data : data, read : read]

RequestStates ==
    {Idle}
    \cup InFlight({"create"}, BookingSteps, Appts, Rows, Readings)
    \cup InFlight({"reschedule"}, BookingSteps, Appts, Intervals, Readings)
    \cup InFlight({"status"}, {"begin"}, Appts, StatusUpdates, {None})
    \cup InFlight({"service"}, {"begin"}, {None}, ServiceUpdates, {None})
    \cup InFlight({"close", "reopen"}, {"begin", "invalidate"}, {None}, {None}, {None})
    \cup InFlight({"lookup"}, {"fill"}, {None}, Roles, {None})

TypeOK ==
    /\ appt \in Table
    /\ service \in [Services -> ServiceRows]
    /\ slot \in [SlotIds -> SlotRows \cup {None}]
    /\ open \subseteq Providers
    /\ verified \subseteq Providers
    /\ cached \in [Providers -> Roles \cup {None}]
    /\ now \in Nat
    /\ calls \in Mixes
    /\ req \in [Requests -> RequestStates]
    /\ lock \in [Providers -> Requests \cup {None}]
    /\ revived \subseteq Appts
    /\ basis \in [Appts -> Readings \cup {None}]
    /\ excused \subseteq Providers

(***************************************************************************)
(* Two active appointments of a provider overlap only if one of them had   *)
(* been completed, cancelled or rejected and was made active again by a    *)
(* status write that was checked before: booking and rescheduling alone,   *)
(* whatever their interleaving, never double-book.                         *)
(***************************************************************************)
NoDoubleBookingUnlessRevived ==
    \A a, b \in Appts : DoubleBooked(appt, a, b) => a \in revived \/ b \in revived

(***************************************************************************)
(* No interleaving of inserts, moves and status writes leaves a provider   *)
(* with two active appointments that start at the same instant: what the   *)
(* partial unique index guarantees also against revived appointments.      *)
(***************************************************************************)
UniqueActiveStart ==
    \A a, b \in Appts :
        a # b /\ IsActive(appt, a) /\ IsActive(appt, b)
              /\ appt[a].provider = appt[b].provider
        => appt[a].start # appt[b].start

(***************************************************************************)
(* Every appointment has a positive length and fits a slot that was on the *)
(* timetable of its provider when the request that gave it its present     *)
(* interval asked for it: one that opens before the time of day it starts  *)
(* and closes after the time of day it ends, on that weekday.  An end may  *)
(* run over the slot by what "HH:MM" cuts off, always less than one clock  *)
(* step.  The slot may have been edited or removed since, also before the  *)
(* appointment was written: no appointment follows its provider's slots.   *)
(***************************************************************************)
OpensBefore(row, t) == row.day = UTCDay(t) /\ row.start <= t % DayLength
ClosesAfter(row, t) == row.day = UTCDay(t) /\ t % DayLength < row.end + ClockStep

InsideCheckedAvailability ==
    \A a \in Appts : Exists(appt, a) =>
        /\ appt[a].start < appt[a].end
        /\ \E row \in basis[a].slots :
              /\ row.provider = appt[a].provider
              /\ OpensBefore(row, appt[a].start)
              /\ ClosesAfter(row, appt[a].end)

(***************************************************************************)
(* The price of an appointment is a snapshot: what the row of its service  *)
(* said, when the last request that gave the appointment an interval read  *)
(* it, for the length the appointment has now; and that length is the      *)
(* duration in that row, if it has one.  However reschedules and edits of  *)
(* the service interleave, no price of one reading meets a length of       *)
(* another.  Later edits of the service do not reach the appointment.      *)
(***************************************************************************)
PriceIsSnapshot ==
    \A a \in Appts : Exists(appt, a) =>
        LET row == basis[a].service
        IN  /\ appt[a].price = PriceAtBooking(row, LengthOf(appt[a]))
            /\ HasDuration(row) => LengthOf(appt[a]) = row.duration

(***************************************************************************)
(* Every request that passed its checks is eventually answered: no lock is *)
(* left behind by a conflict, a collision or a failure for the next one.   *)
(***************************************************************************)
RequestsEnd == \A r \in Requests : req[r] # Idle ~> req[r] = Idle

(***************************************************************************)
(* Requests that do not overlap in time implement the ledger: booking,     *)
(* rescheduling and status changes are single legal steps of it.           *)
(***************************************************************************)
ImplementsLedger == L!LedgerSpec

(***************************************************************************)
(* No service of a provider who has become a customer is on offer, unless  *)
(* the role switch was crossed: a request let in as the provider's, or a   *)
(* lookup of his user, was under way when it committed; such a request was *)
(* let in before the cached user was deleted; or that deletion was lost.   *)
(* Nothing but the cached role keeps his later requests out.               *)
(***************************************************************************)
ClosedOffersNothingUnlessCrossed ==
    \A s \in Services : service[s].isActive => Owner[s] \in open \cup excused

(***************************************************************************)
(* README "Atomic booking": of simultaneous bookings of one slot only one  *)
(* wins, so no two active appointments of a provider overlap.              *)
(***************************************************************************)
NoDoubleBooking == \A a, b \in Appts : ~DoubleBooked(appt, a, b)

(***************************************************************************)
(* switchRole's own refusal: a provider who has become a customer has no   *)
(* pending or confirmed appointment still to come.                         *)
(***************************************************************************)
ClosedHasNoUpcoming ==
    \A a \in Appts :
        IsActive(appt, a) /\ appt[a].start > now => appt[a].provider \in open
=============================================================================

------------------------- MODULE AppointmentsProofs -------------------------
(***************************************************************************)
(* Proofs about Appointments for every value of its constants: any number  *)
(* of requests in flight, providers, services, slots, edits, appointments  *)
(* and instants.  They are about requests that overlap in time, except the *)
(* part about the ledger and the one about requests that do not overlap,   *)
(* which implement it.                                                     *)
(***************************************************************************)
EXTENDS Appointments, TLAPS

(***************************************************************************)
(* Types.  An end is a start plus a length, so that ends stay natural      *)
(* numbers needs that lengths, also of the requests in flight, stay        *)
(* positive; and an update by id leaves a row only if the id has one.      *)
(* With both facts the type invariant is inductive.                        *)
(***************************************************************************)
WellFormed ==
    /\ \A a \in Appts : Exists(appt, a) => appt[a].start < appt[a].end
    /\ \A r \in Requests :
          /\ req[r].op \in Locking => req[r].data.start < req[r].data.end
          /\ req[r].op \in {"reschedule", "status"} => Exists(appt, req[r].id)

TypeInv == TypeOK /\ WellFormed

\* What computePriceAtBooking returns is a price or null
LEMMA PriceType ==
    ASSUME NEW row \in ServiceRows, NEW length \in Nat
    PROVE  PriceAtBooking(row, length) \in Prices
  <1>1. row.pricing.price \in Nat \cup {None}
    BY DEF ServiceRows, Pricings, Prices
  <1>2. CASE row.pricing.price = None
    BY <1>2 DEF PriceAtBooking, Prices
  <1>3. CASE row.pricing.price # None
    <2>1. row.pricing.price \in Nat
      BY <1>1, <1>3
    <2>2. row.pricing.price * length \in Nat
      BY <2>1
    <2> QED
      BY <2>1, <2>2 DEF PriceAtBooking, Prices
  <1> QED
    BY <1>2, <1>3

\* Every length a booking or a reschedule can take is positive
LEMMA LengthsPositive ==
    ASSUME NEW row \in ServiceRows
    PROVE  /\ BookableLengths(row, Durations) \subseteq Nat \ {0}
           /\ \A old \in Nat \ {0} :
                 RescheduleLengths(row, Durations, old) \subseteq Nat \ {0}
  <1>1. row.duration \in Nat \cup {None}
    BY DEF ServiceRows
  <1> QED
    BY <1>1, AppointmentsAssumption DEF BookableLengths, RescheduleLengths, HasDuration

\* An unused request slot is well typed
LEMMA IdleType == Idle \in RequestStates
  BY DEF RequestStates

\* Admitting a request of a proper type keeps the request table well typed
LEMMA AdmitType ==
    ASSUME req \in [Requests -> RequestStates],
           NEW r \in Requests, NEW request \in RequestStates, Admit(r, request)
    PROVE  /\ req' \in [Requests -> RequestStates]
           /\ req'[r] = request
           /\ \A q \in Requests : q # r => req'[q] = req[q]
           /\ UNCHANGED <<tables, cached, now, calls, lock, revived, basis>>
  BY DEF Admit

\* Answering a request frees it and touches no other
LEMMA AnswerType ==
    ASSUME TypeOK, NEW r \in Requests, Answer(r)
    PROVE  /\ req' \in [Requests -> RequestStates]
           /\ lock' \in [Providers -> Requests \cup {None}]
           /\ req'[r] = Idle
           /\ \A q \in Requests : q # r => req'[q] = req[q]
  BY IdleType DEF TypeOK, Answer

\* A create carries an id, a whole row and what it has read
LEMMA CreateType ==
    ASSUME TypeOK, NEW r \in Requests, req[r].op = "create"
    PROVE  req[r] \in InFlight({"create"}, BookingSteps, Appts, Rows, Readings)
           /\ req[r].id \in Appts /\ req[r].provider \in Providers /\ req[r].data \in Rows
           /\ req[r].read \in Readings
  BY DEF TypeOK, RequestStates, InFlight, Idle

\* A reschedule carries an appointment, an interval and what it has read
LEMMA RescheduleType ==
    ASSUME TypeOK, NEW r \in Requests, req[r].op = "reschedule"
    PROVE  req[r] \in InFlight({"reschedule"}, BookingSteps, Appts, Intervals, Readings)
           /\ req[r].id \in Appts /\ req[r].provider \in Providers /\ req[r].data \in Intervals
           /\ req[r].read \in Readings
  BY DEF TypeOK, RequestStates, InFlight, Idle

\* A status write carries an appointment and a status
LEMMA StatusType ==
    ASSUME TypeOK, NEW r \in Requests, req[r].op = "status"
    PROVE  /\ req[r].id \in Appts
           /\ req[r].provider \in Providers
           /\ req[r].data \in StatusUpdates
  BY DEF TypeOK, RequestStates, InFlight, Idle

\* An edit of a service carries the service and the columns
LEMMA ServiceType ==
    ASSUME TypeOK, NEW r \in Requests, req[r].op = "service"
    PROVE  req[r].provider \in Providers /\ req[r].data \in ServiceUpdates
  BY DEF TypeOK, RequestStates, InFlight, Idle

\* A role switch carries the provider, at both of its steps
LEMMA SwitchType ==
    ASSUME TypeOK, NEW r \in Requests, req[r].op \in {"close", "reopen"}
    PROVE  /\ req[r] \in InFlight({"close", "reopen"}, {"begin", "invalidate"},
                                  {None}, {None}, {None})
           /\ req[r].provider \in Providers
  BY DEF TypeOK, RequestStates, InFlight, Idle

\* A lookup carries the role it has read
LEMMA LookupType ==
    ASSUME TypeOK, NEW r \in Requests, req[r].op = "lookup" \/ req[r].step = "fill"
    PROVE  /\ req[r].op = "lookup" /\ req[r].step = "fill"
           /\ req[r].provider \in Providers /\ req[r].data \in Roles
  BY DEF TypeOK, RequestStates, InFlight, Idle, BookingSteps

\* Only a booking gets to the steps of its checks and of its transaction
LEMMA BookingOnly ==
    ASSUME TypeOK, NEW r \in Requests, req[r].step \in {"availability", "locked", "clear"}
    PROVE  req[r].op \in Locking
  BY DEF TypeOK, RequestStates, InFlight, Idle, Locking

\* Only a role switch deletes a cached user
LEMMA SwitchOnly ==
    ASSUME TypeOK, NEW r \in Requests, req[r].step = "invalidate"
    PROVE  req[r].op \in {"close", "reopen"} /\ req[r].provider \in Providers
  BY DEF TypeOK, RequestStates, InFlight, Idle, BookingSteps

-----------------------------------------------------------------------------
(***************************************************************************)
(* The shapes of a step.  A request that goes on keeps its operation, its  *)
(* target and its data; what changes is one of four things.                *)
(***************************************************************************)
Moved(r, new) ==
    /\ req' = [req EXCEPT ![r] = new]
    /\ new \in RequestStates
    /\ new.op = req[r].op
    /\ new.id = req[r].id
    /\ new.provider = req[r].provider
    /\ new.data = req[r].data
    /\ UNCHANGED <<appt, now, calls, revived, basis>>

\* It has found its interval in the availability
Reads(r, new) ==
    /\ req[r].op \in Locking
    /\ req[r].step = "availability" /\ new.step = "begin"
    /\ new.read.service = req[r].read.service
    /\ new.read.slots = ActiveSlots(req[r].provider)
    /\ WithinAvailability(new.read.slots, req[r].data.start, req[r].data.end)
    /\ UNCHANGED <<lock, offer, cached, excused>>

\* It has locked its provider
Locks(r, new) ==
    /\ req[r].op \in Locking
    /\ new.step = "locked" /\ req[r].step = "begin" /\ new.read = req[r].read
    /\ lock[req[r].provider] = None
    /\ lock' = [lock EXCEPT ![req[r].provider] = r]
    /\ UNCHANGED <<offer, cached, excused>>

\* It has found no conflict
Clears(r, new) ==
    /\ req[r].op \in Locking
    /\ req[r].step = "locked" /\ new.step = "clear" /\ new.read = req[r].read
    /\ Conflicts(appt, req[r].id, req[r].provider,
                 req[r].data.start, req[r].data.end) = {}
    /\ UNCHANGED <<lock, offer, cached, excused>>

\* It has switched the role of its provider
Switches(r, new) ==
    /\ req[r].op \in {"close", "reopen"}
    /\ req[r].step = "begin" /\ new.step = "invalidate" /\ new.read = req[r].read
    /\ UNCHANGED <<lock, slot, verified, cached>>

\* A booking that has read the slots stays well typed
LEMMA ReadType ==
    ASSUME TypeOK, NEW r \in Requests, req[r].op \in Locking,
           NEW slots, slots \subseteq SlotRows
    PROVE  \E new \in RequestStates :
              /\ new = [req[r] EXCEPT !.step = "begin", !.read.slots = slots]
              /\ new.op = req[r].op /\ new.id = req[r].id
              /\ new.provider = req[r].provider /\ new.data = req[r].data
              /\ new.step = "begin"
              /\ new.read.service = req[r].read.service /\ new.read.slots = slots
  <1>0. PICK new : new = [req[r] EXCEPT !.step = "begin", !.read.slots = slots]
    OBVIOUS
  <1>1. \/ req[r] \in InFlight({"create"}, BookingSteps, Appts, Rows, Readings)
        \/ req[r] \in InFlight({"reschedule"}, BookingSteps, Appts, Intervals, Readings)
    BY CreateType, RescheduleType DEF Locking
  <1>2. req[r].read \in Readings
    BY CreateType, RescheduleType DEF Locking
  <1>3. PICK read : read = [req[r].read EXCEPT !.slots = slots]
    OBVIOUS
  <1>4. read \in Readings /\ read.service = req[r].read.service /\ read.slots = slots
    BY <1>2, <1>3 DEF Readings
  <1>5. new = [req[r] EXCEPT !.step = "begin", !.read = read]
    BY <1>0, <1>3
  <1>6. /\ new \in RequestStates
        /\ new.op = req[r].op /\ new.id = req[r].id
        /\ new.provider = req[r].provider /\ new.data = req[r].data
        /\ new.step = "begin" /\ new.read = read
    BY <1>1, <1>4, <1>5 DEF InFlight, RequestStates, BookingSteps
  <1> QED
    BY <1>0, <1>4, <1>6

\* And so does one that takes another step
LEMMA StepType ==
    ASSUME TypeOK, NEW r \in Requests, req[r].op \in Locking, NEW step \in BookingSteps,
           NEW new, new = [req[r] EXCEPT !.step = step]
    PROVE  /\ new \in RequestStates
           /\ new.op = req[r].op /\ new.id = req[r].id
           /\ new.provider = req[r].provider /\ new.data = req[r].data
           /\ new.step = step /\ new.read = req[r].read
  <1>1. \/ req[r] \in InFlight({"create"}, BookingSteps, Appts, Rows, Readings)
        \/ req[r] \in InFlight({"reschedule"}, BookingSteps, Appts, Intervals, Readings)
    BY CreateType, RescheduleType DEF Locking
  <1> QED
    BY <1>1 DEF InFlight, RequestStates

\* The rows a booking finds are rows of active slots of its provider
LEMMA SlotsFound ==
    ASSUME TypeOK, NEW p \in Providers
    PROVE  /\ ActiveSlots(p) \subseteq SlotRows
           /\ \A row \in ActiveSlots(p) : row.provider = p
  BY DEF TypeOK, ActiveSlots

\* Every step of a request answers it or moves it on in one of the four ways
LEMMA StepShape ==
    ASSUME TypeOK, NEW r \in Requests, Advance(r) \/ WaitForProvider(r) \/ Fail(r)
    PROVE  \/ Answer(r)
           \/ \E new : /\ Moved(r, new)
                       /\ Reads(r, new) \/ Locks(r, new) \/ Clears(r, new) \/ Switches(r, new)
  <1>1. CASE CheckAvailability(r) /\ ~Answer(r)
    <2>1. req[r].op \in Locking
      BY <1>1, BookingOnly DEF CheckAvailability
    <2>2. PICK slots : slots = ActiveSlots(req[r].provider)
      OBVIOUS
    <2>3. slots \subseteq SlotRows
      BY <2>1, <2>2, CreateType, RescheduleType, SlotsFound DEF Locking
    <2>4. PICK new \in RequestStates :
             /\ new = [req[r] EXCEPT !.step = "begin", !.read.slots = slots]
             /\ new.op = req[r].op /\ new.id = req[r].id
             /\ new.provider = req[r].provider /\ new.data = req[r].data
             /\ new.step = "begin"
             /\ new.read.service = req[r].read.service /\ new.read.slots = slots
      BY <2>1, <2>3, ReadType
    <2>5. req' = [req EXCEPT ![r] = new]
      BY <1>1, <2>2, <2>4 DEF CheckAvailability
    <2>6. Moved(r, new)
      BY <1>1, <2>4, <2>5 DEF CheckAvailability, Moved, tables, history
    <2>7. Reads(r, new)
      BY <1>1, <2>1, <2>2, <2>4 DEF CheckAvailability, Reads, tables, history
    <2> QED
      BY <2>6, <2>7
  <1>2. CASE LockProvider(r)
    <2>1. PICK new : new = [req[r] EXCEPT !.step = "locked"]
      OBVIOUS
    <2>2. req' = [req EXCEPT ![r] = new]
      BY <1>2, <2>1 DEF LockProvider
    <2>3. Moved(r, new) /\ new.step = "locked" /\ new.read = req[r].read
      BY <1>2, <2>1, <2>2, StepType DEF LockProvider, BookingSteps, Moved, tables, history
    <2> QED
      BY <1>2, <2>3 DEF LockProvider, Locks, tables, history
  <1>3. CASE CheckConflicts(r) /\ ~Answer(r)
    <2>1. PICK new : new = [req[r] EXCEPT !.step = "clear"]
      OBVIOUS
    <2>2. req' = [req EXCEPT ![r] = new] /\ req[r].op \in Locking
      BY <1>3, <2>1, BookingOnly DEF CheckConflicts
    <2>3. Moved(r, new) /\ new.step = "clear" /\ new.read = req[r].read
      BY <1>3, <2>1, <2>2, StepType DEF CheckConflicts, BookingSteps, Moved, tables, history
    <2> QED
      BY <1>3, <2>2, <2>3 DEF CheckConflicts, Clears, tables, history
  <1>4. CASE CloseProfile(r) \/ ReopenProfile(r)
    <2>1. PICK new : new = [req[r] EXCEPT !.step = "invalidate"]
      OBVIOUS
    <2>2. req' = [req EXCEPT ![r] = new] /\ req[r].op \in {"close", "reopen"}
          /\ req[r].step = "begin"
      BY <1>4, <2>1 DEF CloseProfile, ReopenProfile
    <2>3. /\ new \in RequestStates
          /\ new.op = req[r].op /\ new.id = req[r].id
          /\ new.provider = req[r].provider /\ new.data = req[r].data
          /\ new.step = "invalidate" /\ new.read = req[r].read
      BY <2>1, <2>2, SwitchType DEF InFlight, RequestStates
    <2>4. UNCHANGED <<appt, slot, verified, cached, now, calls, lock, revived, basis>>
      BY <1>4 DEF CloseProfile, ReopenProfile, history
    <2> QED
      BY <2>2, <2>3, <2>4 DEF Moved, Switches
  <1> QED
    BY <1>1, <1>2, <1>3, <1>4
       DEF Advance, WaitForProvider, Fail, InsertAppointment, UpdateInterval, UpdateStatus,
           UpdateService, Invalidate, FillUser

-----------------------------------------------------------------------------
(***************************************************************************)
(* What a request has settled when it is let through.  A booking carries a *)
(* length that the row it has read of its service allows, and the price of *)
(* that row for that length.                                               *)
(***************************************************************************)
Quoted(data, row) ==
    /\ data.start < data.end
    /\ data.price = PriceAtBooking(row, data.end - data.start)
    /\ HasDuration(row) => data.end - data.start = row.duration

Admits(request) ==
    /\ request # Idle
    /\ request.step \in {"availability", "begin", "fill"}
    /\ request.op \in Locking =>
          request.step = "availability" /\ Quoted(request.data, request.read.service)
    /\ request.op = "create" =>
          /\ request.id \in FreshIds
          /\ request.data.provider = request.provider
          /\ request.data.status = "PENDING"
    /\ request.op = "reschedule" =>
          IsActive(appt, request.id) /\ appt[request.id].provider = request.provider
    /\ request.op = "status" =>
          /\ Exists(appt, request.id)
          /\ appt[request.id].provider = request.provider
          /\ CanTransition(appt[request.id].status, request.data.status)
    /\ request.op \notin {"create", "reschedule", "status"} => request.id = None
    /\ request.op = "service" => Owner[request.data.service] = request.provider

\* Only an active appointment can be cancelled, so only such a one is moved
LEMMA CancellableIsActive ==
    ASSUME NEW status \in Statuses, CanTransition(status, "CANCELLED")
    PROVE  status \in Active
  BY DEF Statuses, CanTransition, Transitions, Active

\* A booking that is let through is well typed and carries what it has read
LEMMA BookingType ==
    ASSUME NEW op, NEW id \in Appts, NEW provider \in Providers, NEW data,
           \/ op = "create" /\ data \in Rows
           \/ op = "reschedule" /\ data \in Intervals,
           NEW row \in ServiceRows,
           NEW request, request = BookingRequest(op, id, provider, data, row)
    PROVE  /\ request \in RequestStates /\ request # Idle
           /\ request.op = op /\ request.step = "availability" /\ request.id = id
           /\ request.provider = provider /\ request.data = data
           /\ request.read.service = row
  <1>1. PICK read : read = [service |-> row, slots |-> {}]
    OBVIOUS
  <1>2. read \in Readings /\ read.service = row
    BY <1>1 DEF Readings
  <1>3. request = [op |-> op, step |-> "availability", id |-> id, provider |-> provider,
                   data |-> data, read |-> read]
    BY <1>1 DEF BookingRequest
  <1> QED
    BY <1>2, <1>3 DEF RequestStates, InFlight, BookingSteps, Idle

\* A length that was resolved and priced with one row quotes that row
LEMMA QuotedLength ==
    ASSUME NEW row \in ServiceRows, NEW start \in Nat, NEW length \in Nat \ {0},
           HasDuration(row) => length = row.duration,
           NEW data, data.start = start, data.end = start + length,
           data.price = PriceAtBooking(row, length)
    PROVE  Quoted(data, row)
  <1>1. data.end - data.start = length /\ data.start < data.end
    OBVIOUS
  <1> QED
    BY <1>1 DEF Quoted

\* A create that is let through
LEMMA CreateShape ==
    ASSUME TypeInv, NEW r \in Requests, NEW customer \in Customers, NEW s \in Services,
           NEW start \in StartTimes, CreateRead(r, customer, s, start)
    PROVE  \E request \in RequestStates : Proceed(r, request) /\ Admits(request)
  <1> USE DEF TypeInv, TypeOK
  <1>1. PICK row \in ServiceRows : row = service[s]
    OBVIOUS
  <1>2. PICK id : id = CHOOSE a \in FreshIds : TRUE
    OBVIOUS
  <1>3. id \in FreshIds /\ id \in Appts /\ Owner[s] \in Providers
    BY <1>2, AppointmentsAssumption DEF CreateRead, FreshIds
  <1>4. PICK length \in BookableLengths(row, Durations) :
           Proceed(r, BookingRequest("create", id, Owner[s],
               [status   |-> "PENDING",
                customer |-> customer,
                provider |-> Owner[s],
                service  |-> s,
                start    |-> start,
                end      |-> start + length,
                price    |-> PriceAtBooking(row, length)], row))
    BY <1>1, <1>2 DEF CreateRead
  <1>5. length \in Nat \ {0} /\ start \in Nat /\ (HasDuration(row) => length = row.duration)
    BY <1>4, LengthsPositive, AppointmentsAssumption DEF BookableLengths
  <1>6. PICK data : data = [status   |-> "PENDING",
                            customer |-> customer,
                            provider |-> Owner[s],
                            service  |-> s,
                            start    |-> start,
                            end      |-> start + length,
                            price    |-> PriceAtBooking(row, length)]
    OBVIOUS
  <1>7. data \in Rows
    BY <1>3, <1>5, <1>6, PriceType DEF Rows, Statuses
  <1>8. Quoted(data, row)
    BY <1>5, <1>6, QuotedLength
  <1>9. PICK request : request = BookingRequest("create", id, Owner[s], data, row)
    OBVIOUS
  <1>10. /\ request \in RequestStates /\ request # Idle
         /\ request.op = "create" /\ request.step = "availability" /\ request.id = id
         /\ request.provider = Owner[s] /\ request.data = data
         /\ request.read.service = row
    BY <1>3, <1>7, <1>9, BookingType
  <1>11. Proceed(r, request)
    BY <1>4, <1>6, <1>9
  <1>12. Admits(request)
    BY <1>3, <1>6, <1>8, <1>10 DEF Admits, Locking
  <1> QED
    BY <1>10, <1>11, <1>12

\* A reschedule that is let through
LEMMA RescheduleShape ==
    ASSUME TypeInv, NEW r \in Requests, NEW a \in Appts, NEW start \in StartTimes,
           RescheduleRead(r, a, start)
    PROVE  \E request \in RequestStates : Proceed(r, request) /\ Admits(request)
  <1> USE DEF TypeInv, TypeOK
  <1>1. /\ Exists(appt, a) /\ appt[a] \in Rows /\ appt[a].start < appt[a].end
        /\ CanTransition(appt[a].status, "CANCELLED")
    BY DEF RescheduleRead, Exists, Table, WellFormed
  <1>2. PICK row \in ServiceRows : row = service[appt[a].service]
    BY <1>1 DEF Rows
  <1>3. PICK old \in Nat \ {0} : old = LengthOf(appt[a])
    BY <1>1 DEF LengthOf, Rows
  <1>4. PICK length \in RescheduleLengths(row, Durations, old) :
           Proceed(r, BookingRequest("reschedule", a, appt[a].provider,
               [start |-> start,
                end   |-> start + length,
                price |-> PriceAtBooking(row, length)], row))
    BY <1>2, <1>3 DEF RescheduleRead
  <1>5. length \in Nat \ {0} /\ start \in Nat /\ (HasDuration(row) => length = row.duration)
    BY <1>4, LengthsPositive, AppointmentsAssumption DEF RescheduleLengths
  <1>6. PICK data : data = [start |-> start,
                            end   |-> start + length,
                            price |-> PriceAtBooking(row, length)]
    OBVIOUS
  <1>7. data \in Intervals
    BY <1>5, <1>6, PriceType DEF Intervals
  <1>8. Quoted(data, row)
    BY <1>5, <1>6, QuotedLength
  <1>9. PICK request :
           request = BookingRequest("reschedule", a, appt[a].provider, data, row)
    OBVIOUS
  <1>10. /\ request \in RequestStates /\ request # Idle
         /\ request.op = "reschedule" /\ request.step = "availability" /\ request.id = a
         /\ request.provider = appt[a].provider /\ request.data = data
         /\ request.read.service = row
    <2>1. appt[a].provider \in Providers
      BY <1>1 DEF Rows
    <2> QED
      BY <1>7, <1>9, <2>1, BookingType
  <1>11. Proceed(r, request)
    BY <1>4, <1>6, <1>9
  <1>12. IsActive(appt, a)
    BY <1>1, CancellableIsActive DEF IsActive, Rows
  <1>13. Admits(request)
    BY <1>8, <1>10, <1>12 DEF Admits, Locking
  <1> QED
    BY <1>10, <1>11, <1>13

\* A change of status, of role or of a service that is let through
LEMMA WriteRequestShape ==
    ASSUME TypeInv, NEW r \in Requests, NEW op, NEW id, NEW provider \in Providers, NEW data,
           \/ /\ op = "status" /\ id \in Appts /\ Exists(appt, id)
              /\ provider = appt[id].provider
              /\ data \in StatusUpdates /\ CanTransition(appt[id].status, data.status)
           \/ op \in {"close", "reopen"} /\ id = None /\ data = None
           \/ /\ op = "service" /\ id = None
              /\ data \in ServiceUpdates /\ Owner[data.service] = provider
    PROVE  /\ WriteRequest(op, id, provider, data) \in RequestStates
           /\ Admits(WriteRequest(op, id, provider, data))
  <1>1. PICK request : request = WriteRequest(op, id, provider, data)
    OBVIOUS
  <1>2. /\ request.op = op /\ request.step = "begin" /\ request.id = id
        /\ request.provider = provider /\ request.data = data /\ request.read = None
    BY <1>1 DEF WriteRequest
  <1>3. request \in RequestStates
    BY <1>1 DEF WriteRequest, RequestStates, InFlight
  <1>4. Admits(request)
    BY <1>2 DEF Admits, Idle, Locking
  <1> QED
    BY <1>1, <1>3, <1>4

\* Every request that is let through is well typed and has settled what Admits says
LEMMA ReceiveShape ==
    ASSUME TypeInv, NEW r \in Requests, Receive(r)
    PROVE  \E request \in RequestStates : Admit(r, request) /\ Admits(request)
  <1>1. ASSUME NEW a \in Appts, NEW next \in Statuses, Exists(appt, a),
               CanTransition(appt[a].status, next),
               Proceed(r, WriteRequest("status", a, appt[a].provider, [status |-> next]))
        PROVE  \E request \in RequestStates : Admit(r, request) /\ Admits(request)
    <2>1. appt[a].provider \in Providers
      BY <1>1 DEF TypeInv, TypeOK, Table, Rows, Exists
    <2>2. PICK data : data = [status |-> next]
      OBVIOUS
    <2>3. data \in StatusUpdates /\ data.status = next
      BY <2>2 DEF StatusUpdates
    <2> QED
      BY <1>1, <2>1, <2>2, <2>3, WriteRequestShape DEF Proceed
  <1>2. ASSUME NEW p \in Providers, NEW op \in {"close", "reopen"},
               Proceed(r, WriteRequest(op, None, p, None))
        PROVE  \E request \in RequestStates : Admit(r, request) /\ Admits(request)
    BY <1>2, WriteRequestShape DEF Proceed
  <1>3. ASSUME NEW s \in Services, NEW edit \in ServiceEdits, ServiceRead(r, s, edit)
        PROVE  \E request \in RequestStates : Admit(r, request) /\ Admits(request)
    <2>1. Owner[s] \in Providers
      BY AppointmentsAssumption
    <2>2. PICK data : data = [service |-> s, edit |-> edit]
      OBVIOUS
    <2>3. Admit(r, WriteRequest("service", None, Owner[s], data))
      BY <1>3, <2>2 DEF ServiceRead
    <2>4. data \in ServiceUpdates /\ Owner[data.service] = Owner[s]
      BY <2>2 DEF ServiceUpdates
    <2> QED
      BY <2>1, <2>3, <2>4, WriteRequestShape
  <1>4. ASSUME NEW p \in Providers, Lookup(r, p)
        PROVE  \E request \in RequestStates : Admit(r, request) /\ Admits(request)
    <2>1. PICK request : request = [op |-> "lookup", step |-> "fill", id |-> None,
                                    provider |-> p, data |-> Role(p), read |-> None]
      OBVIOUS
    <2>2. /\ request \in RequestStates /\ request # Idle
          /\ request.op = "lookup" /\ request.step = "fill" /\ request.id = None
      BY <2>1 DEF RequestStates, InFlight, Role, Roles, Idle
    <2>3. Admits(request)
      BY <2>2 DEF Admits, Locking
    <2> QED
      BY <1>4, <2>1, <2>2, <2>3 DEF Lookup, Proceed
  <1>5. ASSUME NEW a \in Appts, NEW role, CancelRead(r, a, role)
        PROVE  \E request \in RequestStates : Admit(r, request) /\ Admits(request)
    BY <1>1, <1>5 DEF CancelRead, Statuses
  <1>6. ASSUME NEW a \in Appts, NEW next \in Statuses, TransitionRead(r, a, next)
        PROVE  \E request \in RequestStates : Admit(r, request) /\ Admits(request)
    BY <1>1, <1>6 DEF TransitionRead
  <1> QED
    BY <1>2, <1>3, <1>4, <1>5, <1>6, CreateShape, RescheduleShape
       DEF Receive, SwitchToCustomerRead, SwitchToProviderRead, Proceed

-----------------------------------------------------------------------------
(* Types, step by step *)

\* What an edit leaves out stays, so an edited service is a service
LEMMA EditedService ==
    ASSUME NEW row \in ServiceRows, NEW edit \in ServiceBodies
    PROVE  [duration |-> Else(edit.duration, row.duration),
            hours    |-> Else(edit.hours, row.hours),
            pricing  |-> Else(edit.pricing, row.pricing),
            isActive |-> Else(edit.isActive, row.isActive)] \in ServiceRows
  <1>1. Else(edit.duration, row.duration) \in Nat \cup {None}
    BY DEF Else, ServiceRows, ServiceBodies
  <1>2. Else(edit.hours, row.hours) \in Hours \cup {None}
    BY DEF Else, ServiceRows, ServiceBodies
  <1>3. Else(edit.pricing, row.pricing) \in Pricings
    BY DEF Else, ServiceRows, ServiceBodies
  <1>4. Else(edit.isActive, row.isActive) \in BOOLEAN
    BY Zenon DEF Else, ServiceRows, ServiceBodies
  <1> QED
    BY <1>1, <1>2, <1>3, <1>4 DEF ServiceRows

\* Letting a request in excuses at most the owner of a service
LEMMA ReceiveExcuses ==
    ASSUME TypeOK, NEW r \in Requests, Receive(r)
    PROVE  excused' \subseteq Providers
  <1>1. ASSUME NEW s \in Services, NEW edit \in ServiceEdits, ServiceRead(r, s, edit)
        PROVE  excused' \subseteq Providers
    <2>1. Owner[s] \in Providers
      BY AppointmentsAssumption
    <2>2. excused' = excused \cup {Owner[s]} \/ excused' = excused
      BY <1>1 DEF ServiceRead
    <2> QED
      BY <2>1, <2>2 DEF TypeOK
  <1>2. CASE UNCHANGED excused
    BY <1>2 DEF TypeOK
  <1> QED
    BY <1>1, <1>2
       DEF Receive, CreateRead, RescheduleRead, TransitionRead, CancelRead,
           SwitchToCustomerRead, SwitchToProviderRead, Lookup, Proceed

\* A request that is let in keeps the types
LEMMA ReceiveTypes ==
    ASSUME TypeInv, NEW r \in Requests, Receive(r)
    PROVE  TypeInv'
  <1> USE DEF TypeInv
  <1>1. PICK request \in RequestStates : Admit(r, request) /\ Admits(request)
    BY ReceiveShape
  <1>2. /\ req' \in [Requests -> RequestStates]
        /\ req'[r] = request
        /\ \A q \in Requests : q # r => req'[q] = req[q]
        /\ UNCHANGED <<tables, cached, now, calls, lock, revived, basis>>
    BY <1>1, AdmitType DEF TypeOK
  <1>3. /\ request.op \in Locking => request.data.start < request.data.end
        /\ request.op \in {"reschedule", "status"} => Exists(appt, request.id)
    BY <1>1 DEF Admits, Quoted, IsActive
  <1>4. WellFormed'
    BY <1>2, <1>3 DEF WellFormed, Exists, tables
  <1>5. TypeOK'
    BY <1>2, ReceiveExcuses DEF TypeOK, tables, offer
  <1> QED
    BY <1>4, <1>5

\* A request that goes on keeps its data, and so the types
LEMMA MovedTypes ==
    ASSUME TypeInv, NEW r \in Requests, NEW new, Moved(r, new)
    PROVE  /\ req' \in [Requests -> RequestStates]
           /\ req'[r] = new
           /\ \A q \in Requests : q # r => req'[q] = req[q]
           /\ WellFormed'
  <1> USE DEF TypeInv
  <1>1. /\ req' \in [Requests -> RequestStates]
        /\ req'[r] = new
        /\ \A q \in Requests : q # r => req'[q] = req[q]
    BY DEF Moved, TypeOK
  <1>2. WellFormed'
    BY <1>1 DEF Moved, WellFormed, Exists
  <1> QED
    BY <1>1, <1>2

\* A request that is answered leaves well-formed ones behind, if no row is deleted
LEMMA AnswerTypes ==
    ASSUME TypeInv, NEW r \in Requests, Answer(r),
           \A a \in Appts : /\ Exists(appt, a) => Exists(appt', a)
                            /\ Exists(appt', a) => appt'[a].start < appt'[a].end
    PROVE  /\ req' \in [Requests -> RequestStates]
           /\ lock' \in [Providers -> Requests \cup {None}]
           /\ WellFormed'
  <1> USE DEF TypeInv
  <1>1. \A q \in Requests : req'[q] = Idle \/ req'[q] = req[q]
    BY AnswerType
  <1>2. Idle.op \notin Locking \cup {"reschedule", "status"}
    BY DEF Idle, Locking
  <1>3. \A q \in Requests : req[q].op \in {"reschedule", "status"} => req[q].id \in Appts
    BY RescheduleType, StatusType
  <1> QED
    BY <1>1, <1>2, <1>3, AnswerType DEF WellFormed

\* An insert of a well-typed row
LEMMA InsertTypes ==
    ASSUME TypeInv, NEW r \in Requests, InsertAppointment(r)
    PROVE  TypeInv'
  <1> USE DEF TypeInv
  <1>1. /\ req[r].data \in Rows /\ req[r].id \in Appts /\ req[r].read \in Readings
        /\ req[r].data.start < req[r].data.end
    BY CreateType DEF InsertAppointment, WellFormed, Locking
  <1>2. appt' \in Table /\ basis' \in [Appts -> Readings \cup {None}]
    BY <1>1 DEF InsertAppointment, Table, TypeOK
  <1>3. \A a \in Appts : /\ Exists(appt, a) => Exists(appt', a)
                         /\ Exists(appt', a) => appt'[a].start < appt'[a].end
    BY <1>1, BookingAssumption DEF InsertAppointment, WellFormed, TypeOK, Exists, Table
  <1>4. /\ req' \in [Requests -> RequestStates]
        /\ lock' \in [Providers -> Requests \cup {None}]
        /\ WellFormed'
    BY <1>3, AnswerTypes DEF InsertAppointment
  <1> QED
    BY <1>2, <1>4 DEF InsertAppointment, offer, TypeOK

\* A move of a well-typed row
LEMMA UpdateIntervalTypes ==
    ASSUME TypeInv, NEW r \in Requests, UpdateInterval(r)
    PROVE  TypeInv'
  <1> USE DEF TypeInv
  <1>1. PICK a, data : a = req[r].id /\ data = req[r].data
    OBVIOUS
  <1>2. data \in Intervals /\ a \in Appts /\ data.start < data.end /\ req[r].read \in Readings
    BY <1>1, RescheduleType DEF UpdateInterval, WellFormed, Locking
  <1>3. Exists(appt, a) /\ appt[a] \in Rows
    BY <1>1, <1>2 DEF UpdateInterval, WellFormed, TypeOK, Exists, Table
  <1>4. PICK new : new = [appt[a] EXCEPT !.start = data.start, !.end = data.end,
                                         !.price = data.price]
    OBVIOUS
  <1>5. new \in Rows /\ new # None /\ new.start = data.start /\ new.end = data.end
    BY <1>2, <1>3, <1>4, BookingAssumption DEF Rows, Intervals
  <1>6. appt' = appt \/ appt' = [appt EXCEPT ![a] = new]
    BY <1>1, <1>4 DEF UpdateInterval
  <1>7. basis' \in [Appts -> Readings \cup {None}]
    BY <1>1, <1>2 DEF UpdateInterval, TypeOK
  <1>8. /\ appt' \in Table
        /\ \A b \in Appts : /\ Exists(appt, b) => Exists(appt', b)
                            /\ Exists(appt', b) => appt'[b].start < appt'[b].end
    BY <1>2, <1>5, <1>6 DEF WellFormed, TypeOK, Exists, Table
  <1>9. /\ req' \in [Requests -> RequestStates]
        /\ lock' \in [Providers -> Requests \cup {None}]
        /\ WellFormed'
    BY <1>8, AnswerTypes DEF UpdateInterval
  <1> QED
    BY <1>7, <1>8, <1>9 DEF UpdateInterval, offer, TypeOK

\* A new status for a well-typed row
LEMMA UpdateStatusTypes ==
    ASSUME TypeInv, NEW r \in Requests, UpdateStatus(r)
    PROVE  TypeInv'
  <1> USE DEF TypeInv
  <1>1. PICK a, next : a = req[r].id /\ next = req[r].data.status
    OBVIOUS
  <1>2. a \in Appts /\ next \in Statuses
    BY <1>1, StatusType DEF UpdateStatus, StatusUpdates
  <1>3. Exists(appt, a) /\ appt[a] \in Rows
    BY <1>1, <1>2 DEF UpdateStatus, WellFormed, TypeOK, Exists, Table
  <1>4. PICK new : new = [appt[a] EXCEPT !.status = next]
    OBVIOUS
  <1>5. new \in Rows /\ new # None /\ new.start = appt[a].start /\ new.end = appt[a].end
    BY <1>2, <1>3, <1>4, BookingAssumption DEF Rows
  <1>6. appt' = appt \/ appt' = [appt EXCEPT ![a] = new]
    BY <1>1, <1>4 DEF UpdateStatus
  <1>7. revived' \subseteq Appts
    BY <1>1, <1>2 DEF UpdateStatus, TypeOK
  <1>8. /\ appt' \in Table
        /\ \A b \in Appts : /\ Exists(appt, b) => Exists(appt', b)
                            /\ Exists(appt', b) => appt'[b].start < appt'[b].end
    BY <1>2, <1>3, <1>5, <1>6 DEF WellFormed, TypeOK, Exists, Table
  <1>9. /\ req' \in [Requests -> RequestStates]
        /\ lock' \in [Providers -> Requests \cup {None}]
        /\ WellFormed'
    BY <1>8, AnswerTypes DEF UpdateStatus
  <1> QED
    BY <1>7, <1>8, <1>9 DEF UpdateStatus, offer, TypeOK

\* An edit of a service
LEMMA UpdateServiceTypes ==
    ASSUME TypeInv, NEW r \in Requests, UpdateService(r)
    PROVE  TypeInv'
  <1> USE DEF TypeInv
  <1>1. PICK s, edit : s = req[r].data.service /\ edit = req[r].data.edit
    OBVIOUS
  <1>2. s \in Services /\ edit \in ServiceBodies
    BY <1>1, ServiceType, AppointmentsAssumption DEF UpdateService, ServiceUpdates
  <1>3. service[s] \in ServiceRows
    BY <1>2 DEF TypeOK
  <1>4. PICK new : new = [duration |-> Else(edit.duration, service[s].duration),
                          hours    |-> Else(edit.hours, service[s].hours),
                          pricing  |-> Else(edit.pricing, service[s].pricing),
                          isActive |-> Else(edit.isActive, service[s].isActive)]
    OBVIOUS
  <1>5. new \in ServiceRows
    BY <1>2, <1>3, <1>4, EditedService
  <1>6. service' = [service EXCEPT ![s] = new]
    BY <1>1, <1>4 DEF UpdateService
  <1>7. /\ req' \in [Requests -> RequestStates]
        /\ lock' \in [Providers -> Requests \cup {None}]
        /\ WellFormed'
    BY AnswerTypes DEF UpdateService, WellFormed, Exists
  <1>8. UNCHANGED <<appt, slot, open, verified, cached, now, calls, history>>
    BY DEF UpdateService
  <1> QED
    BY <1>5, <1>6, <1>7, <1>8 DEF TypeOK, history

\* A role switch: the profile and the services, then the cached user
LEMMA SwitchTypes ==
    ASSUME TypeInv, NEW r \in Requests,
           CloseProfile(r) \/ ReopenProfile(r) \/ Invalidate(r)
    PROVE  TypeInv'
  <1> USE DEF TypeInv
  <1>1. req[r].provider \in Providers
    BY SwitchType, SwitchOnly DEF CloseProfile, ReopenProfile, Invalidate
  <1>2. CASE CloseProfile(r) \/ ReopenProfile(r)
    <2>1. ~Answer(r)
      <3>1. PICK new : new = [req[r] EXCEPT !.step = "invalidate"]
        OBVIOUS
      <3>2. req' = [req EXCEPT ![r] = new] /\ req[r].op \in {"close", "reopen"}
        BY <1>2, <3>1 DEF CloseProfile, ReopenProfile
      <3>3. new.step = "invalidate" /\ req'[r] = new
        BY <3>1, <3>2, SwitchType DEF InFlight, TypeOK
      <3> QED
        BY <3>3, AnswerType DEF Idle
    <2>2. PICK new : Moved(r, new) /\ req[r].op \in {"close", "reopen"}
      BY <1>2, <2>1, StepShape DEF WaitForProvider, CloseProfile, ReopenProfile
    <2>3. req' \in [Requests -> RequestStates] /\ WellFormed'
      BY <2>2, MovedTypes
    <2>4. service' \in [Services -> ServiceRows]
      <3>1. \A s \in Services : [service[s] EXCEPT !.isActive = FALSE] \in ServiceRows
        BY DEF TypeOK, ServiceRows
      <3> QED
        BY <1>2, <3>1 DEF CloseProfile, ReopenProfile, TypeOK
    <2>5. open' \subseteq Providers /\ excused' \subseteq Providers
      BY <1>1, <1>2 DEF CloseProfile, ReopenProfile, TypeOK, history
    <2>6. UNCHANGED <<appt, slot, verified, cached, now, calls, lock, revived, basis>>
      BY <1>2 DEF CloseProfile, ReopenProfile, history
    <2> QED
      BY <2>3, <2>4, <2>5, <2>6 DEF TypeOK
  <1>3. CASE Invalidate(r)
    <2>1. /\ req' \in [Requests -> RequestStates]
          /\ lock' \in [Providers -> Requests \cup {None}]
          /\ WellFormed'
      BY <1>3, AnswerTypes DEF Invalidate, tables, WellFormed, Exists
    <2>2. cached' \in [Providers -> Roles \cup {None}]
      BY <1>1, <1>3 DEF Invalidate, TypeOK
    <2>3. UNCHANGED <<appt, service, slot, open, verified, now, calls, revived, basis, excused>>
      BY <1>3 DEF Invalidate, tables, offer, history
    <2> QED
      BY <2>1, <2>2, <2>3 DEF TypeOK
  <1> QED
    BY <1>2, <1>3

\* The end of a lookup
LEMMA FillTypes ==
    ASSUME TypeInv, NEW r \in Requests, FillUser(r)
    PROVE  TypeInv'
  <1> USE DEF TypeInv
  <1>1. req[r].provider \in Providers /\ req[r].data \in Roles
    BY LookupType DEF FillUser
  <1>2. /\ req' \in [Requests -> RequestStates]
        /\ lock' \in [Providers -> Requests \cup {None}]
        /\ WellFormed'
    BY AnswerTypes DEF FillUser, tables, WellFormed, Exists
  <1>3. cached' \in [Providers -> Roles \cup {None}]
    BY <1>1 DEF FillUser, TypeOK
  <1>4. UNCHANGED <<appt, service, slot, open, verified, now, calls, revived, basis, excused>>
    BY DEF FillUser, tables, offer, history
  <1> QED
    BY <1>2, <1>3, <1>4 DEF TypeOK

\* The steps that check and lock, and a failure
LEMMA CheckTypes ==
    ASSUME TypeInv, NEW r \in Requests,
           CheckAvailability(r) \/ LockProvider(r) \/ CheckConflicts(r) \/ Fail(r)
    PROVE  TypeInv'
  <1> USE DEF TypeInv
  <1>1. UNCHANGED <<tables, cached, now, calls, revived, basis>>
    BY DEF CheckAvailability, LockProvider, CheckConflicts, Fail, history
  <1>2. excused' \subseteq Providers
    BY SwitchOnly DEF CheckAvailability, LockProvider, CheckConflicts, Fail, history, TypeOK
  <1>3. CASE Answer(r)
    <2>1. /\ req' \in [Requests -> RequestStates]
          /\ lock' \in [Providers -> Requests \cup {None}]
          /\ WellFormed'
      BY <1>1, <1>3, AnswerTypes DEF tables, WellFormed, Exists
    <2> QED
      BY <1>1, <1>2, <2>1 DEF TypeOK, tables, offer
  <1>4. CASE ~Answer(r)
    <2>1. PICK new : /\ Moved(r, new)
                     /\ Reads(r, new) \/ Locks(r, new) \/ Clears(r, new) \/ Switches(r, new)
      BY <1>4, StepShape DEF Advance, WaitForProvider
    <2>2. req' \in [Requests -> RequestStates] /\ WellFormed'
      BY <2>1, MovedTypes
    <2>3. lock' \in [Providers -> Requests \cup {None}]
      BY <2>1 DEF Reads, Locks, Clears, Switches, TypeOK
    <2> QED
      BY <1>1, <1>2, <2>2, <2>3 DEF TypeOK, tables, offer
  <1> QED
    BY <1>3, <1>4

\* Edits of the slots and the other steps without a request in flight
LEMMA AroundTypes ==
    ASSUME TypeInv, Around
    PROVE  TypeInv'
  <1> USE DEF TypeInv
  <1>1. UNCHANGED <<appt, calls, req, lock, history>>
    BY DEF Around, SetVerification, CreateSlot, UpdateSlot, RemoveSlot, WriteSlot,
           CacheExpires, Tick, tables, offer
  <1>2. WellFormed'
    BY <1>1 DEF WellFormed, Exists
  <1>3. ASSUME NEW i \in SlotIds, NEW row \in SlotRows, WriteSlot(i, row)
        PROVE  slot' \in [SlotIds -> SlotRows \cup {None}]
    BY <1>3 DEF WriteSlot, TypeOK
  <1>4. ASSUME NEW i \in SlotIds, NEW p \in Providers, NEW body \in SlotEdits,
               CreateSlot(i, p, body)
        PROVE  slot' \in [SlotIds -> SlotRows \cup {None}]
    <2>1. body \in SlotBodies
      BY AppointmentsAssumption
    <2>2. [provider |-> p, day |-> body.day, start |-> body.start,
           end |-> body.end, isActive |-> TRUE] \in SlotRows
      BY <1>4, <2>1 DEF CreateSlot, SlotBodies, SlotRows
    <2> QED
      BY <1>3, <1>4, <2>2 DEF CreateSlot
  <1>5. ASSUME NEW i \in SlotIds, NEW body \in SlotEdits, UpdateSlot(i, body)
        PROVE  slot' \in [SlotIds -> SlotRows \cup {None}]
    <2>1. body \in SlotBodies /\ slot[i] \in SlotRows
      BY <1>5, AppointmentsAssumption DEF UpdateSlot, TypeOK
    <2>2. /\ Else(body.day, slot[i].day) \in 0..6
          /\ Else(body.start, slot[i].start) \in Nat
          /\ Else(body.end, slot[i].end) \in Nat
      BY <2>1 DEF Else, SlotBodies, SlotRows
    <2>3. PICK row : row = [slot[i] EXCEPT !.day   = Else(body.day, @),
                                           !.start = Else(body.start, @),
                                           !.end   = Else(body.end, @)]
      OBVIOUS
    <2>4. row \in SlotRows
      BY <2>1, <2>2, <2>3 DEF SlotRows
    <2> QED
      BY <1>3, <1>5, <2>3, <2>4 DEF UpdateSlot
  <1>6. ASSUME NEW i \in SlotIds, RemoveSlot(i)
        PROVE  slot' \in [SlotIds -> SlotRows \cup {None}]
    <2>1. PICK row : row = [slot[i] EXCEPT !.isActive = FALSE]
      OBVIOUS
    <2>2. row \in SlotRows
      BY <1>6, <2>1 DEF RemoveSlot, TypeOK, SlotRows
    <2> QED
      BY <1>3, <1>6, <2>1, <2>2 DEF RemoveSlot
  <1>7. slot' \in [SlotIds -> SlotRows \cup {None}]
    BY <1>4, <1>5, <1>6 DEF Around, SetVerification, CacheExpires, Tick, tables, offer, TypeOK
  <1>8. verified' \subseteq Providers
    <2>1. ASSUME NEW p \in Providers, NEW isVerified, SetVerification(p, isVerified)
          PROVE  verified' \subseteq Providers
      BY <2>1 DEF SetVerification, TypeOK
    <2> QED
      BY <2>1 DEF Around, CreateSlot, UpdateSlot, RemoveSlot, WriteSlot,
                  CacheExpires, Tick, tables, offer, TypeOK
  <1>9. cached' \in [Providers -> Roles \cup {None}]
    <2>1. ASSUME NEW p \in Providers, CacheExpires(p)
          PROVE  cached' \in [Providers -> Roles \cup {None}]
      BY <2>1 DEF CacheExpires, TypeOK
    <2> QED
      BY <2>1 DEF Around, SetVerification, CreateSlot, UpdateSlot, RemoveSlot, WriteSlot,
                  Tick, TypeOK
  <1>10. now' \in Nat
    <2>1. now' = now \/ now' = now + 1
      BY DEF Around, SetVerification, CreateSlot, UpdateSlot, RemoveSlot, WriteSlot,
             CacheExpires, Tick
    <2> QED
      BY <2>1 DEF TypeOK
  <1>11. UNCHANGED <<service, open>>
    BY DEF Around, SetVerification, CreateSlot, UpdateSlot, RemoveSlot, WriteSlot,
           CacheExpires, Tick, tables, offer
  <1> QED
    BY <1>1, <1>2, <1>7, <1>8, <1>9, <1>10, <1>11 DEF TypeOK, history

\* Types and well-formedness together are inductive
LEMMA TypeInvariant == Spec => []TypeInv
  <1>1. Init => TypeInv
    <2> SUFFICES ASSUME Init
                 PROVE  TypeInv
      OBVIOUS
    <2>1. TypeOK
      BY IdleType, AppointmentsAssumption DEF Init, TypeOK, Table
    <2>2. WellFormed
      BY DEF Init, WellFormed, Exists, Idle, Locking
    <2> QED
      BY <2>1, <2>2 DEF TypeInv
  <1>2. TypeInv /\ [Next]_vars => TypeInv'
    <2> SUFFICES ASSUME TypeInv, [Next]_vars
                 PROVE  TypeInv'
      OBVIOUS
    <2>1. ASSUME NEW r \in Requests, Advance(r) \/ WaitForProvider(r) \/ Fail(r)
          PROVE  TypeInv'
      BY <2>1, InsertTypes, UpdateIntervalTypes, UpdateStatusTypes, UpdateServiceTypes,
         SwitchTypes, FillTypes, CheckTypes DEF Advance, WaitForProvider
    <2>2. CASE UNCHANGED vars
      BY <2>2 DEF vars, tables, offer, history, TypeInv, TypeOK, WellFormed, Exists
    <2> QED
      BY <2>1, <2>2, ReceiveTypes, AroundTypes DEF Next
  <1> QED
    BY <1>1, <1>2, PTL DEF Spec

(***************************************************************************)
(* Every request in flight carries exactly the data of its operation, and  *)
(* every row of the tables is well typed.                                  *)
(***************************************************************************)
THEOREM TypeCorrect == Spec => []TypeOK
  BY TypeInvariant, PTL DEF TypeInv

-----------------------------------------------------------------------------
(***************************************************************************)
(* Locks and targets.  A transaction past its first statement holds the    *)
(* row lock of its provider; a create has an id no row and no other        *)
(* request has; an update by id belongs to a row of the provider it locks. *)
(***************************************************************************)
LockInv ==
    \A r \in Requests :
        req[r].step \in {"locked", "clear"} => lock[req[r].provider] = r

TargetInv ==
    \A r \in Requests :
        /\ req[r].op = "create" =>
              /\ ~Exists(appt, req[r].id)
              /\ req[r].data.provider = req[r].provider
              /\ \A q \in Requests : q # r => req[q].id # req[r].id
        /\ req[r].op \in {"reschedule", "status"} =>
              appt[req[r].id].provider = req[r].provider

\* Row locks are held by the transactions that rely on them
LEMMA LockInvariant == Spec => []LockInv
  <1>1. Init => LockInv
    BY DEF Init, LockInv, Idle
  <1>2. TypeInv /\ LockInv /\ [Next]_vars => LockInv'
    <2> SUFFICES ASSUME TypeInv, LockInv, [Next]_vars
                 PROVE  LockInv'
      OBVIOUS
    <2> USE DEF TypeInv
    <2>1. ASSUME NEW r \in Requests, Receive(r)
          PROVE  LockInv'
      <3>1. PICK request \in RequestStates : Admit(r, request) /\ Admits(request)
        BY <2>1, ReceiveShape
      <3>2. /\ req'[r] = request /\ lock' = lock
            /\ \A q \in Requests : q # r => req'[q] = req[q]
        BY <3>1, AdmitType DEF TypeOK
      <3> QED
        BY <3>1, <3>2 DEF Admits, LockInv
    <2>2. ASSUME NEW r \in Requests, Answer(r)
          PROVE  LockInv'
      <3>1. ASSUME NEW q \in Requests, req'[q].step \in {"locked", "clear"}
            PROVE  lock'[req'[q].provider] = q
        <4>1. q # r /\ req'[q] = req[q]
          BY <2>2, <3>1, AnswerType DEF Idle
        <4>2. req[q].provider \in Providers
          BY <3>1, <4>1, BookingOnly, CreateType, RescheduleType DEF Locking
        <4> QED
          BY <2>2, <3>1, <4>1, <4>2 DEF Answer, LockInv
      <3> QED
        BY <3>1 DEF LockInv
    <2>3. ASSUME NEW r \in Requests, NEW new, Moved(r, new), Locks(r, new)
          PROVE  LockInv'
      <3>1. req'[r] = new /\ \A q \in Requests : q # r => req'[q] = req[q]
        BY <2>3, MovedTypes
      <3>2. req[r].provider \in Providers /\ new.provider = req[r].provider
        BY <2>3, CreateType, RescheduleType DEF Locks, Moved, Locking
      <3>3. ASSUME NEW q \in Requests, q # r, req[q].step \in {"locked", "clear"}
            PROVE  req[q].provider # req[r].provider
        BY <2>3, <3>3, AppointmentsAssumption DEF Locks, LockInv
      <3> QED
        BY <2>3, <3>1, <3>2, <3>3 DEF Locks, LockInv, TypeOK
    <2>4. ASSUME NEW r \in Requests, NEW new, Moved(r, new),
                 Reads(r, new) \/ Clears(r, new) \/ Switches(r, new)
          PROVE  LockInv'
      <3>1. req'[r] = new /\ \A q \in Requests : q # r => req'[q] = req[q]
        BY <2>4, MovedTypes
      <3>2. /\ lock' = lock /\ new.provider = req[r].provider
            /\ new.step \in {"locked", "clear"} => req[r].step = "locked"
        BY <2>4 DEF Moved, Reads, Clears, Switches
      <3> QED
        BY <3>1, <3>2 DEF LockInv
    <2>5. CASE UNCHANGED <<req, lock>>
      BY <2>5 DEF LockInv
    <2>6. ASSUME NEW r \in Requests, Advance(r) \/ WaitForProvider(r) \/ Fail(r)
          PROVE  LockInv'
      BY <2>2, <2>3, <2>4, <2>6, StepShape
    <2> QED
      BY <2>1, <2>5, <2>6
         DEF Next, Around, SetVerification, CreateSlot, UpdateSlot, RemoveSlot, WriteSlot,
             CacheExpires, Tick, vars
  <1> QED
    BY <1>1, <1>2, TypeInvariant, PTL DEF Spec

-----------------------------------------------------------------------------
(***************************************************************************)
(* What a request does to the table: nothing, put a row into the interval  *)
(* its transaction cleared, or overwrite a status.                         *)
(***************************************************************************)
Untouched == UNCHANGED <<appt, revived, basis>>

Placed(r) ==
    LET a == req[r].id
    IN  /\ req[r].step = "clear"
        /\ req[r].op \in Locking
        /\ a \in Appts
        /\ \E row \in Rows :
              /\ appt' = [appt EXCEPT ![a] = row]
              /\ row.start = req[r].data.start
              /\ row.end = req[r].data.end
              /\ row.price = req[r].data.price
              /\ IF req[r].op = "create"
                 THEN row = req[r].data
                 ELSE /\ Exists(appt, a)
                      /\ row.status = appt[a].status
                      /\ row.provider = appt[a].provider
                      /\ row.service = appt[a].service
              /\ row.status \in Active => ~Collides(r)
        /\ basis' = [basis EXCEPT ![a] = req[r].read]
        /\ revived' = revived

Overwritten(r) ==
    LET a == req[r].id
    IN  /\ req[r].op = "status"
        /\ a \in Appts
        /\ Exists(appt, a)
        /\ \E row \in Rows :
              /\ appt' = [appt EXCEPT ![a] = row]
              /\ row.start = appt[a].start
              /\ row.end = appt[a].end
              /\ row.price = appt[a].price
              /\ row.provider = appt[a].provider
              /\ row.service = appt[a].service
              /\ row.status \in Active =>
                    /\ ~IndexRefuses(appt, a, appt[a].provider, appt[a].start)
                    /\ appt[a].status \notin Active => a \in revived'
        /\ revived \subseteq revived'
        /\ basis' = basis

\* Every step of a request that is let through is of one of the three kinds
LEMMA WriteShape ==
    ASSUME TypeInv, NEW r \in Requests, Advance(r) \/ WaitForProvider(r) \/ Fail(r)
    PROVE  Untouched \/ (Answer(r) /\ (Placed(r) \/ Overwritten(r)))
  <1> USE DEF TypeInv
  <1>1. ASSUME InsertAppointment(r)
        PROVE  Untouched \/ (Answer(r) /\ Placed(r))
    <2>1. req[r].data \in Rows /\ req[r].id \in Appts
      BY <1>1, CreateType DEF InsertAppointment
    <2>2. CASE Collides(r)
      BY <1>1, <2>2 DEF InsertAppointment, Untouched
    <2>3. CASE ~Collides(r)
      <3>1. /\ appt' = [appt EXCEPT ![req[r].id] = req[r].data]
            /\ basis' = [basis EXCEPT ![req[r].id] = req[r].read]
        BY <1>1, <2>3 DEF InsertAppointment
      <3> QED
        BY <1>1, <2>1, <2>3, <3>1 DEF InsertAppointment, Placed, Locking
    <2> QED
      BY <2>2, <2>3
  <1>2. ASSUME UpdateInterval(r)
        PROVE  Untouched \/ (Answer(r) /\ Placed(r))
    <2>1. PICK a, data : a = req[r].id /\ data = req[r].data
      OBVIOUS
    <2>2. data \in Intervals /\ a \in Appts
      BY <1>2, <2>1, RescheduleType DEF UpdateInterval
    <2>3. Exists(appt, a) /\ appt[a] \in Rows
      BY <1>2, <2>1, <2>2 DEF UpdateInterval, WellFormed, Exists, TypeOK, Table
    <2>4. PICK row : row = [appt[a] EXCEPT !.start = data.start, !.end = data.end,
                                           !.price = data.price]
      OBVIOUS
    <2>5. /\ row \in Rows
          /\ row.start = data.start /\ row.end = data.end /\ row.price = data.price
          /\ row.status = appt[a].status
          /\ row.provider = appt[a].provider
          /\ row.service = appt[a].service
      BY <2>2, <2>3, <2>4 DEF Rows, Intervals
    <2>6. CASE IsActive(appt, a) /\ Collides(r)
      BY <1>2, <2>1, <2>6 DEF UpdateInterval, Untouched
    <2>7. CASE ~(IsActive(appt, a) /\ Collides(r))
      <3>1. /\ appt' = [appt EXCEPT ![a] = row]
            /\ basis' = [basis EXCEPT ![a] = req[r].read]
        BY <1>2, <2>1, <2>4, <2>7 DEF UpdateInterval
      <3>2. row.status \in Active => ~Collides(r)
        BY <2>3, <2>5, <2>7 DEF IsActive
      <3> QED
        BY <1>2, <2>1, <2>2, <2>3, <2>5, <3>1, <3>2 DEF UpdateInterval, Placed, Locking
    <2> QED
      BY <2>6, <2>7
  <1>3. ASSUME UpdateStatus(r)
        PROVE  Untouched \/ (Answer(r) /\ Overwritten(r))
    <2>1. PICK a, next : a = req[r].id /\ next = req[r].data.status
      OBVIOUS
    <2>2. a \in Appts /\ next \in Statuses
      BY <1>3, <2>1, StatusType DEF UpdateStatus, StatusUpdates
    <2>3. Exists(appt, a) /\ appt[a] \in Rows
      BY <1>3, <2>1, <2>2 DEF UpdateStatus, WellFormed, Exists, TypeOK, Table
    <2>4. PICK row : row = [appt[a] EXCEPT !.status = next]
      OBVIOUS
    <2>5. /\ row \in Rows
          /\ row.start = appt[a].start /\ row.end = appt[a].end
          /\ row.price = appt[a].price
          /\ row.status = next
          /\ row.provider = appt[a].provider
          /\ row.service = appt[a].service
      BY <2>2, <2>3, <2>4 DEF Rows
    <2>6. CASE next \in Active /\ IndexRefuses(appt, a, appt[a].provider, appt[a].start)
      BY <1>3, <2>1, <2>6 DEF UpdateStatus, Untouched
    <2>7. CASE ~(next \in Active /\ IndexRefuses(appt, a, appt[a].provider, appt[a].start))
      <3>1. /\ appt' = [appt EXCEPT ![a] = row]
            /\ revived' = IF appt[a].status \in Terminal /\ next # appt[a].status
                          THEN revived \cup {a} ELSE revived
        BY <1>3, <2>1, <2>4, <2>7 DEF UpdateStatus
      <3>2. next \in Active /\ appt[a].status \notin Active => a \in revived'
        BY <2>3, <3>1 DEF Terminal, Rows
      <3> QED
        BY <1>3, <2>1, <2>2, <2>3, <2>5, <2>7, <3>1, <3>2 DEF UpdateStatus, Overwritten
    <2> QED
      BY <2>6, <2>7
  <1> QED
    BY <1>1, <1>2, <1>3
       DEF Advance, WaitForProvider, Fail, CheckAvailability, CheckConflicts, UpdateService,
           Invalidate, FillUser, LockProvider, CloseProfile, ReopenProfile, Untouched,
           tables, history

\* What happens without a request in flight does not touch appointments
LEMMA AroundShape ==
    ASSUME Around
    PROVE  UNCHANGED <<appt, req, lock, revived, basis, excused>>
  BY DEF Around, SetVerification, CreateSlot, UpdateSlot, RemoveSlot, WriteSlot,
         CacheExpires, Tick, tables, history

\* Ids and providers of the requests in flight stay right
LEMMA TargetInvariant == Spec => []TargetInv
  <1>1. Init => TargetInv
    BY DEF Init, TargetInv, Idle
  <1>2. TypeInv /\ TargetInv /\ [Next]_vars => TargetInv'
    <2> SUFFICES ASSUME TypeInv, TargetInv, [Next]_vars
                 PROVE  TargetInv'
      OBVIOUS
    <2> USE DEF TypeInv
    <2>1. ASSUME NEW r \in Requests, Receive(r)
          PROVE  TargetInv'
      <3>1. PICK request \in RequestStates : Admit(r, request) /\ Admits(request)
        BY <2>1, ReceiveShape
      <3>2. /\ req'[r] = request /\ appt' = appt
            /\ \A q \in Requests : q # r => req'[q] = req[q]
        BY <3>1, AdmitType DEF TypeOK, tables
      <3>3. \A q \in Requests : q # r /\ req[q].op = "create" => req[q].id # request.id
        <4>1. \A q \in Requests : req[q].op = "create" =>
                 ~Exists(appt, req[q].id) /\ req[q].id \in Appts
          BY CreateType DEF TargetInv
        <4>2. CASE request.op = "create"
          BY <3>1, <4>2 DEF Admits, FreshIds
        <4>3. CASE request.op \in {"reschedule", "status"}
          BY <3>1, <4>1, <4>3 DEF Admits, IsActive
        <4>4. CASE request.op \notin {"create", "reschedule", "status"}
          BY <3>1, <4>1, <4>4, BookingAssumption DEF Admits
        <4> QED
          BY <4>2, <4>3, <4>4
      <3>4. request.op = "create" => /\ ~Exists(appt, request.id)
                                     /\ \A q \in Requests : req[q].id # request.id
        BY <3>1 DEF Admits, FreshIds
      <3> QED
        BY <3>1, <3>2, <3>3, <3>4 DEF Admits, TargetInv, Exists
    <2>2. ASSUME NEW r \in Requests, Answer(r), Untouched \/ Placed(r) \/ Overwritten(r)
          PROVE  TargetInv'
      <3>1. req'[r] = Idle /\ \A q \in Requests : q # r => req'[q] = req[q]
        BY <2>2, AnswerType
      <3>2. \A b \in Appts : Exists(appt, b) =>
               Exists(appt', b) /\ appt'[b].provider = appt[b].provider
        BY <2>2, BookingAssumption
           DEF Untouched, Placed, Overwritten, TargetInv, Exists, Locking, TypeOK, Table
      <3>3. \A b \in Appts : ~Exists(appt, b) /\ Exists(appt', b) =>
               req[r].op = "create" /\ b = req[r].id
        BY <2>2 DEF Untouched, Placed, Overwritten, Exists, Locking, TypeOK, Table
      <3>4. \A q \in Requests :
               /\ req[q].op = "create" => req[q].id \in Appts
               /\ req[q].op \in {"reschedule", "status"} =>
                     req[q].id \in Appts /\ Exists(appt, req[q].id)
        BY CreateType, RescheduleType, StatusType DEF WellFormed
      <3>5. Idle.op = "none" /\ Idle.id = None
        BY DEF Idle
      <3> QED
        BY <3>1, <3>2, <3>3, <3>4, <3>5, BookingAssumption DEF TargetInv
    <2>3. ASSUME NEW r \in Requests, NEW new, Moved(r, new)
          PROVE  TargetInv'
      <3>1. req'[r] = new /\ \A q \in Requests : q # r => req'[q] = req[q]
        BY <2>3, MovedTypes
      <3> QED
        BY <2>3, <3>1 DEF Moved, TargetInv, Exists
    <2>4. CASE UNCHANGED <<req, appt>>
      BY <2>4 DEF TargetInv, Exists
    <2>5. ASSUME NEW r \in Requests, Advance(r) \/ WaitForProvider(r) \/ Fail(r)
          PROVE  TargetInv'
      BY <2>2, <2>3, <2>5, StepShape, WriteShape
    <2> QED
      BY <2>1, <2>4, <2>5, AroundShape DEF Next, vars, tables
  <1> QED
    BY <1>1, <1>2, TypeInvariant, PTL DEF Spec

-----------------------------------------------------------------------------
(***************************************************************************)
(* No double booking.  Between its conflict query and its write a          *)
(* transaction holds the provider's row, so the only rows that can have    *)
(* come to lie in its interval are those a status write made active.       *)
(***************************************************************************)
ClearInv ==
    \A r \in Requests :
        req[r].step = "clear" =>
            Conflicts(appt, req[r].id, req[r].provider,
                      req[r].data.start, req[r].data.end) \subseteq revived

SafeInv == ClearInv /\ NoDoubleBookingUnlessRevived

\* Writing a cleared interval keeps the table safe
LEMMA PlacedSafe ==
    ASSUME TypeInv, LockInv, TargetInv, SafeInv, NEW r \in Requests, Answer(r), Placed(r)
    PROVE  SafeInv'
  <1> DEFINE a == req[r].id
             p == req[r].provider
  <1> USE DEF TypeInv
  <1>1. PICK row \in Rows :
           /\ appt' = [appt EXCEPT ![a] = row]
           /\ row.start = req[r].data.start
           /\ row.end = req[r].data.end
           /\ row.provider = p
    BY DEF Placed, TargetInv, Locking
  <1>2. a \in Appts /\ row # None /\ revived' = revived
    BY <1>1, BookingAssumption DEF Placed
  <1>3. \A b \in Appts : appt'[b] = IF b = a THEN row ELSE appt[b]
    BY <1>1, <1>2 DEF TypeOK, Table
  <1>4. Conflicts(appt, a, p, row.start, row.end) \subseteq revived
    BY <1>1 DEF Placed, SafeInv, ClearInv
  <1>5. ASSUME NEW x \in Appts, NEW y \in Appts, DoubleBooked(appt', x, y)
        PROVE  x \in revived \/ y \in revived
    <2>1. CASE x = a
      <3>1. y \in Conflicts(appt, a, p, row.start, row.end)
        BY <1>1, <1>3, <1>5, <2>1
           DEF DoubleBooked, Conflicts, IsActive, Exists, Overlaps
      <3> QED
        BY <1>4, <3>1
    <2>2. CASE y = a
      <3>1. x \in Conflicts(appt, a, p, row.start, row.end)
        BY <1>1, <1>3, <1>5, <2>2
           DEF DoubleBooked, Conflicts, IsActive, Exists, Overlaps
      <3> QED
        BY <1>4, <3>1
    <2>3. CASE x # a /\ y # a
      <3>1. DoubleBooked(appt, x, y)
        BY <1>3, <1>5, <2>3 DEF DoubleBooked, IsActive, Exists
      <3> QED
        BY <3>1 DEF SafeInv, NoDoubleBookingUnlessRevived
    <2> QED
      BY <2>1, <2>2, <2>3
  <1>6. ASSUME NEW q \in Requests, req'[q].step = "clear"
        PROVE  Conflicts(appt', req'[q].id, req'[q].provider,
                         req'[q].data.start, req'[q].data.end) \subseteq revived
    <2>1. q # r /\ req'[q] = req[q]
      BY <1>6, AnswerType DEF Idle
    <2>2. req[q].provider # p
      BY <1>6, <2>1 DEF LockInv, Placed
    <2>3. Conflicts(appt', req[q].id, req[q].provider, req[q].data.start, req[q].data.end)
             \subseteq
          Conflicts(appt, req[q].id, req[q].provider, req[q].data.start, req[q].data.end)
      BY <1>1, <1>3, <2>2 DEF Conflicts, IsActive, Exists
    <2> QED
      BY <1>6, <2>1, <2>3 DEF SafeInv, ClearInv
  <1> QED
    BY <1>2, <1>5, <1>6 DEF SafeInv, ClearInv, NoDoubleBookingUnlessRevived

\* A status write keeps the table safe up to the appointments it revives
LEMMA OverwrittenSafe ==
    ASSUME TypeInv, SafeInv, NEW r \in Requests, Answer(r), Overwritten(r)
    PROVE  SafeInv'
  <1> DEFINE a == req[r].id
  <1> USE DEF TypeInv
  <1>1. PICK row \in Rows :
           /\ appt' = [appt EXCEPT ![a] = row]
           /\ row.start = appt[a].start
           /\ row.end = appt[a].end
           /\ row.provider = appt[a].provider
           /\ row.status \in Active /\ appt[a].status \notin Active => a \in revived'
    BY DEF Overwritten
  <1>2. a \in Appts /\ Exists(appt, a) /\ revived \subseteq revived'
    BY DEF Overwritten
  <1>3. \A b \in Appts : appt'[b] = IF b = a THEN row ELSE appt[b]
    BY <1>1, <1>2 DEF TypeOK, Table
  <1>4. \A b \in Appts :
           IsActive(appt', b) =>
              /\ b \in revived' \/ IsActive(appt, b)
              /\ appt'[b].start = appt[b].start
              /\ appt'[b].end = appt[b].end
              /\ appt'[b].provider = appt[b].provider
    BY <1>1, <1>2, <1>3 DEF IsActive, Exists
  <1>5. ASSUME NEW x \in Appts, NEW y \in Appts, DoubleBooked(appt', x, y)
        PROVE  x \in revived' \/ y \in revived'
    BY <1>2, <1>4, <1>5 DEF DoubleBooked, Overlaps, SafeInv, NoDoubleBookingUnlessRevived
  <1>6. ASSUME NEW q \in Requests, req'[q].step = "clear"
        PROVE  Conflicts(appt', req'[q].id, req'[q].provider,
                         req'[q].data.start, req'[q].data.end) \subseteq revived'
    <2>1. req'[q] = req[q] /\ req[q].step = "clear"
      BY <1>6, AnswerType DEF Idle
    <2>2. Conflicts(appt, req[q].id, req[q].provider, req[q].data.start, req[q].data.end)
             \subseteq revived
      BY <2>1 DEF SafeInv, ClearInv
    <2> QED
      BY <1>2, <1>4, <2>1, <2>2 DEF Conflicts, Overlaps
  <1> QED
    BY <1>5, <1>6 DEF SafeInv, ClearInv, NoDoubleBookingUnlessRevived

(***************************************************************************)
(* Bookings and reschedules of any number of concurrent requests never     *)
(* double-book a provider by themselves: create and reschedule lock, query *)
(* and write in an order that leaves only stale status writes to blame.    *)
(***************************************************************************)
THEOREM BookingsDoNotCollide == Spec => []NoDoubleBookingUnlessRevived
  <1>1. Init => SafeInv
    BY DEF Init, SafeInv, ClearInv, NoDoubleBookingUnlessRevived, DoubleBooked, IsActive,
           Exists, Idle
  <1>2. TypeInv /\ LockInv /\ TargetInv /\ SafeInv /\ [Next]_vars => SafeInv'
    <2> SUFFICES ASSUME TypeInv, LockInv, TargetInv, SafeInv, [Next]_vars
                 PROVE  SafeInv'
      OBVIOUS
    <2> USE DEF TypeInv
    <2>1. ASSUME UNCHANGED <<appt, revived>>,
                 \A q \in Requests : req'[q].step = "clear" =>
                     /\ req'[q].id = req[q].id
                     /\ req'[q].provider = req[q].provider
                     /\ req'[q].data = req[q].data
                     /\ \/ req[q].step = "clear"
                        \/ Conflicts(appt, req[q].id, req[q].provider,
                                     req[q].data.start, req[q].data.end) = {}
          PROVE  SafeInv'
      BY <2>1 DEF SafeInv, ClearInv, NoDoubleBookingUnlessRevived, DoubleBooked, IsActive,
                  Exists, Conflicts
    <2>2. ASSUME NEW r \in Requests, Receive(r)
          PROVE  SafeInv'
      <3>1. PICK request \in RequestStates : Admit(r, request) /\ Admits(request)
        BY <2>2, ReceiveShape
      <3>2. /\ req'[r] = request /\ UNCHANGED <<appt, revived>>
            /\ \A q \in Requests : q # r => req'[q] = req[q]
        BY <3>1, AdmitType DEF TypeOK, tables
      <3>3. request.step # "clear"
        BY <3>1 DEF Admits
      <3> QED
        BY <2>1, <3>2, <3>3
    <2>3. ASSUME NEW r \in Requests, NEW new, Moved(r, new),
                 Reads(r, new) \/ Locks(r, new) \/ Clears(r, new) \/ Switches(r, new)
          PROVE  SafeInv'
      <3>1. req'[r] = new /\ \A q \in Requests : q # r => req'[q] = req[q]
        BY <2>3, MovedTypes
      <3>2. /\ UNCHANGED <<appt, revived>> /\ new.id = req[r].id
            /\ new.provider = req[r].provider /\ new.data = req[r].data
            /\ new.step = "clear" =>
                  Conflicts(appt, req[r].id, req[r].provider,
                            req[r].data.start, req[r].data.end) = {}
        BY <2>3 DEF Moved, Reads, Locks, Clears, Switches
      <3> QED
        BY <2>1, <3>1, <3>2
    <2>4. ASSUME NEW r \in Requests, Answer(r), Untouched
          PROVE  SafeInv'
      <3>1. \A q \in Requests : req'[q] = Idle \/ req'[q] = req[q]
        BY <2>4, AnswerType
      <3> QED
        BY <2>1, <2>4, <3>1 DEF Untouched, Idle
    <2>5. ASSUME NEW r \in Requests, Advance(r) \/ WaitForProvider(r) \/ Fail(r)
          PROVE  SafeInv'
      BY <2>3, <2>4, <2>5, StepShape, WriteShape, PlacedSafe, OverwrittenSafe
    <2>6. CASE UNCHANGED <<req, appt, revived>>
      BY <2>1, <2>6
    <2> QED
      BY <2>2, <2>5, <2>6, AroundShape DEF Next, vars, tables, history
  <1>3. SafeInv => NoDoubleBookingUnlessRevived
    BY DEF SafeInv
  <1> QED
    BY <1>1, <1>2, <1>3, TypeInvariant, LockInvariant, TargetInvariant, PTL DEF Spec

-----------------------------------------------------------------------------
(***************************************************************************)
(* The partial index, seen from the table: no interleaving of inserts,     *)
(* moves and status writes leaves two active rows with one start.          *)
(***************************************************************************)
THEOREM IndexHolds == Spec => []UniqueActiveStart
  <1>1. Init => UniqueActiveStart
    BY DEF Init, UniqueActiveStart, IsActive, Exists
  <1>2. TypeInv /\ TargetInv /\ UniqueActiveStart /\ [Next]_vars => UniqueActiveStart'
    <2> SUFFICES ASSUME TypeInv, TargetInv, UniqueActiveStart, [Next]_vars
                 PROVE  UniqueActiveStart'
      OBVIOUS
    <2> USE DEF TypeInv
    <2>1. CASE UNCHANGED appt
      BY <2>1 DEF UniqueActiveStart, IsActive, Exists
    <2>2. ASSUME NEW a \in Appts, NEW row \in Rows, appt' = [appt EXCEPT ![a] = row],
                 row.status \in Active => ~IndexRefuses(appt, a, row.provider, row.start)
          PROVE  UniqueActiveStart'
      <3>1. \A b \in Appts : appt'[b] = IF b = a THEN row ELSE appt[b]
        BY <2>2 DEF TypeOK, Table
      <3>2. ASSUME NEW x \in Appts, NEW y \in Appts, x # y,
                   IsActive(appt', x), IsActive(appt', y),
                   appt'[x].provider = appt'[y].provider
            PROVE  appt'[x].start # appt'[y].start
        <4>1. CASE x = a
          BY <2>2, <3>1, <3>2, <4>1 DEF IndexRefuses, IsActive, Exists
        <4>2. CASE y = a
          BY <2>2, <3>1, <3>2, <4>2 DEF IndexRefuses, IsActive, Exists
        <4>3. CASE x # a /\ y # a
          BY <3>1, <3>2, <4>3 DEF UniqueActiveStart, IsActive, Exists
        <4> QED
          BY <4>1, <4>2, <4>3
      <3> QED
        BY <3>2 DEF UniqueActiveStart
    <2>3. ASSUME NEW r \in Requests, Placed(r)
          PROVE  UniqueActiveStart'
      <3>1. PICK row \in Rows :
               /\ appt' = [appt EXCEPT ![req[r].id] = row]
               /\ row.start = req[r].data.start
               /\ row.provider = req[r].provider
               /\ row.status \in Active => ~Collides(r)
        BY <2>3 DEF Placed, TargetInv, Locking
      <3>2. req[r].id \in Appts
        BY <2>3 DEF Placed
      <3> QED
        BY <2>2, <3>1, <3>2 DEF Collides
    <2>4. ASSUME NEW r \in Requests, Overwritten(r)
          PROVE  UniqueActiveStart'
      BY <2>2, <2>4 DEF Overwritten
    <2>5. ASSUME NEW r \in Requests, Receive(r)
          PROVE  UNCHANGED appt
      BY <2>5, ReceiveShape DEF Admit, tables
    <2> QED
      BY <2>1, <2>3, <2>4, <2>5, WriteShape, AroundShape DEF Next, vars, tables, Untouched
  <1> QED
    BY <1>1, <1>2, TypeInvariant, TargetInvariant, PTL DEF Spec

-----------------------------------------------------------------------------
(***************************************************************************)
(* Intervals and prices.  What a booking has checked and computed goes     *)
(* into the row together with what it was checked against; the tables of   *)
(* services and slots may say something else by then.                      *)
(***************************************************************************)
\* A row of data fits a slot among those of the provider that were read
Fits(data, provider, slots) ==
    \E row \in slots : row.provider = provider /\ FitsSlot(row, data.start, data.end)

QuoteInv ==
    \A r \in Requests : req[r].op \in Locking =>
        /\ Quoted(req[r].data, req[r].read.service)
        /\ req[r].step # "availability" =>
              Fits(req[r].data, req[r].provider, req[r].read.slots)

RowsFit ==
    \A a \in Appts : Exists(appt, a) =>
        /\ basis[a] \in Readings
        /\ Quoted(appt[a], basis[a].service)
        /\ Fits(appt[a], appt[a].provider, basis[a].slots)

FitInv == QuoteInv /\ RowsFit

\* A row put where its request has checked it fits what the request has read
LEMMA PlacedFits ==
    ASSUME TypeInv, TargetInv, FitInv, NEW r \in Requests, Placed(r)
    PROVE  RowsFit'
  <1> USE DEF TypeInv
  <1>1. PICK a, read : a = req[r].id /\ read = req[r].read
    OBVIOUS
  <1>2. a \in Appts /\ req[r].op \in Locking /\ req[r].step = "clear" /\ read \in Readings
    BY <1>1, CreateType, RescheduleType DEF Placed, Locking
  <1>3. PICK row \in Rows :
           /\ appt' = [appt EXCEPT ![a] = row]
           /\ row.start = req[r].data.start /\ row.end = req[r].data.end
           /\ row.price = req[r].data.price
           /\ row.provider = req[r].provider
    BY <1>1 DEF Placed, TargetInv, Locking
  <1>4. Quoted(row, read.service) /\ Fits(row, row.provider, read.slots)
    BY <1>1, <1>2, <1>3 DEF FitInv, QuoteInv, Quoted, Fits
  <1>5. basis' = [basis EXCEPT ![a] = read]
    BY <1>1 DEF Placed
  <1>6. \A b \in Appts : /\ appt'[b] = IF b = a THEN row ELSE appt[b]
                         /\ basis'[b] = IF b = a THEN read ELSE basis[b]
    BY <1>3, <1>5 DEF TypeOK, Table
  <1> QED
    BY <1>2, <1>4, <1>6 DEF RowsFit, FitInv, Exists

\* A status write leaves interval, price and what they were read from alone
LEMMA OverwrittenFits ==
    ASSUME TypeInv, FitInv, NEW r \in Requests, Overwritten(r)
    PROVE  RowsFit'
  <1> USE DEF TypeInv
  <1>1. PICK a : a = req[r].id
    OBVIOUS
  <1>2. a \in Appts /\ Exists(appt, a) /\ basis' = basis
    BY <1>1 DEF Overwritten
  <1>3. PICK row \in Rows :
           /\ appt' = [appt EXCEPT ![a] = row]
           /\ row.start = appt[a].start /\ row.end = appt[a].end
           /\ row.price = appt[a].price /\ row.provider = appt[a].provider
    BY <1>1 DEF Overwritten
  <1>4. \A b \in Appts : appt'[b] = IF b = a THEN row ELSE appt[b]
    BY <1>3 DEF TypeOK, Table
  <1>5. \A b \in Appts : Exists(appt', b) =>
           /\ Exists(appt, b)
           /\ appt'[b].start = appt[b].start /\ appt'[b].end = appt[b].end
           /\ appt'[b].price = appt[b].price /\ appt'[b].provider = appt[b].provider
    BY <1>2, <1>3, <1>4 DEF Exists
  <1> QED
    BY <1>2, <1>5 DEF RowsFit, FitInv, Quoted, Fits

\* Rows and requests in flight fit what was read for them
LEMMA FitInvariant == Spec => []FitInv
  <1>1. Init => FitInv
    BY DEF Init, FitInv, QuoteInv, RowsFit, Exists, Idle, Locking
  <1>2. TypeInv /\ TargetInv /\ FitInv /\ [Next]_vars => FitInv'
    <2> SUFFICES ASSUME TypeInv, TargetInv, FitInv, [Next]_vars
                 PROVE  FitInv'
      OBVIOUS
    <2> USE DEF TypeInv
    <2>1. ASSUME Untouched
          PROVE  RowsFit'
      BY <2>1 DEF Untouched, RowsFit, FitInv, Exists
    <2>2. ASSUME NEW r \in Requests, Receive(r)
          PROVE  FitInv'
      <3>1. PICK request \in RequestStates : Admit(r, request) /\ Admits(request)
        BY <2>2, ReceiveShape
      <3>2. /\ req'[r] = request /\ Untouched
            /\ \A q \in Requests : q # r => req'[q] = req[q]
        BY <3>1, AdmitType DEF TypeOK, tables, Untouched
      <3>3. QuoteInv'
        BY <3>1, <3>2 DEF Admits, QuoteInv, FitInv
      <3> QED
        BY <2>1, <3>2, <3>3 DEF FitInv
    <2>3. ASSUME NEW r \in Requests, Answer(r)
          PROVE  QuoteInv'
      <3>1. \A q \in Requests : req'[q] = Idle \/ req'[q] = req[q]
        BY <2>3, AnswerType
      <3>2. Idle.op \notin Locking
        BY DEF Idle, Locking
      <3> QED
        BY <3>1, <3>2 DEF QuoteInv, FitInv
    <2>4. ASSUME NEW r \in Requests, NEW new, Moved(r, new), Reads(r, new)
          PROVE  FitInv'
      <3>1. req'[r] = new /\ \A q \in Requests : q # r => req'[q] = req[q]
        BY <2>4, MovedTypes
      <3>2. PICK p, data, slots : p = req[r].provider /\ data = req[r].data
                                  /\ slots = new.read.slots
        OBVIOUS
      <3>3. /\ p \in Providers /\ req[r].op \in Locking
            /\ new.op = req[r].op /\ new.provider = p /\ new.data = data
            /\ new.read.service = req[r].read.service
            /\ slots = ActiveSlots(p) /\ WithinAvailability(slots, data.start, data.end)
        BY <2>4, <3>2, CreateType, RescheduleType DEF Moved, Reads, Locking
      <3>4. Fits(data, p, slots)
        BY <3>3, SlotsFound DEF Fits, WithinAvailability
      <3>5. Quoted(new.data, new.read.service) /\ Fits(new.data, new.provider, new.read.slots)
        BY <3>2, <3>3, <3>4 DEF FitInv, QuoteInv
      <3>6. QuoteInv'
        BY <3>1, <3>5 DEF QuoteInv, FitInv
      <3> QED
        BY <2>1, <2>4, <3>6 DEF FitInv, Moved, Untouched
    <2>5. ASSUME NEW r \in Requests, NEW new, Moved(r, new),
                 Locks(r, new) \/ Clears(r, new) \/ Switches(r, new)
          PROVE  FitInv'
      <3>1. req'[r] = new /\ \A q \in Requests : q # r => req'[q] = req[q]
        BY <2>5, MovedTypes
      <3>2. /\ new.op = req[r].op /\ new.provider = req[r].provider
            /\ new.data = req[r].data /\ new.read = req[r].read
            /\ req[r].step # "availability"
        BY <2>5, SwitchType DEF Moved, Locks, Clears, Switches
      <3>3. QuoteInv'
        BY <3>1, <3>2 DEF QuoteInv, FitInv
      <3> QED
        BY <2>1, <2>5, <3>3 DEF FitInv, Moved, Untouched
    <2>6. ASSUME NEW r \in Requests, Advance(r) \/ WaitForProvider(r) \/ Fail(r)
          PROVE  FitInv'
      <3>1. CASE Answer(r)
        <4>1. RowsFit'
          BY <2>1, <2>6, WriteShape, PlacedFits, OverwrittenFits
        <4> QED
          BY <2>3, <3>1, <4>1 DEF FitInv
      <3> QED
        BY <2>4, <2>5, <2>6, <3>1, StepShape
    <2>7. CASE UNCHANGED <<req, appt, revived, basis>>
      BY <2>1, <2>7 DEF FitInv, QuoteInv, Untouched
    <2> QED
      BY <2>2, <2>6, <2>7, AroundShape DEF Next, vars, tables, history
  <1> QED
    BY <1>1, <1>2, TypeInvariant, TargetInvariant, PTL DEF Spec

\* The clock reading of an instant is at most the instant and less than one step behind it
LEMMA ClockReading ==
    ASSUME NEW t \in Nat
    PROVE  /\ ToTimeString(t) \in Nat
           /\ ToTimeString(t) <= t % DayLength
           /\ t % DayLength < ToTimeString(t) + ClockStep
  <1>1. t % DayLength \in Nat /\ ClockStep \in Nat \ {0}
    BY ScheduleAssumption
  <1>2. ASSUME NEW m \in Nat, NEW k \in Nat \ {0}
        PROVE  /\ (m \div k) * k \in Nat
               /\ (m \div k) * k <= m
               /\ m < (m \div k) * k + k
    OBVIOUS
  <1> QED
    BY <1>1, <1>2 DEF ToTimeString

\* What the handler compares as strings holds of the clock times
LEMMA FitsSlotReads ==
    ASSUME NEW row, row.start \in Nat, row.end \in Nat, NEW start \in Nat, NEW end \in Nat,
           FitsSlot(row, start, end)
    PROVE  OpensBefore(row, start) /\ ClosesAfter(row, end)
  <1>1. /\ UTCDay(start) = row.day /\ UTCDay(end) = row.day
        /\ row.start <= ToTimeString(start) /\ ToTimeString(end) <= row.end
    BY DEF FitsSlot
  <1>2. /\ start % DayLength \in Nat /\ end % DayLength \in Nat
        /\ ClockStep \in Nat
    BY ScheduleAssumption
  <1> QED
    BY <1>1, <1>2, ClockReading DEF OpensBefore, ClosesAfter

(***************************************************************************)
(* Whatever slots are added, changed and removed while requests run, every *)
(* appointment fits a slot its provider had when its interval was checked. *)
(***************************************************************************)
THEOREM StaysInsideCheckedAvailability == Spec => []InsideCheckedAvailability
  <1>1. TypeInv /\ FitInv => InsideCheckedAvailability
    <2> SUFFICES ASSUME TypeInv, FitInv, NEW a \in Appts, Exists(appt, a)
                 PROVE  /\ appt[a].start < appt[a].end
                        /\ \E row \in basis[a].slots :
                              /\ row.provider = appt[a].provider
                              /\ OpensBefore(row, appt[a].start)
                              /\ ClosesAfter(row, appt[a].end)
      BY DEF InsideCheckedAvailability
    <2>1. appt[a] \in Rows /\ basis[a] \in Readings
      BY DEF TypeInv, TypeOK, Table, Exists, FitInv, RowsFit
    <2>2. PICK row \in basis[a].slots :
             row.provider = appt[a].provider /\ FitsSlot(row, appt[a].start, appt[a].end)
      BY DEF FitInv, RowsFit, Fits
    <2>3. row.start \in Nat /\ row.end \in Nat
      BY <2>1, <2>2 DEF Readings, SlotRows
    <2>4. appt[a].start \in Nat /\ appt[a].end \in Nat
      BY <2>1 DEF Rows
    <2>5. OpensBefore(row, appt[a].start) /\ ClosesAfter(row, appt[a].end)
      BY <2>2, <2>3, <2>4, FitsSlotReads
    <2> QED
      BY <2>2, <2>5 DEF FitInv, RowsFit, Quoted
  <1> QED
    BY <1>1, TypeInvariant, FitInvariant, PTL

(***************************************************************************)
(* Whatever edits of the service and reschedules cross, length and price   *)
(* of every appointment come from one reading of the row of its service.   *)
(***************************************************************************)
THEOREM PriceStaysSnapshot == Spec => []PriceIsSnapshot
  <1>1. FitInv => PriceIsSnapshot
    BY DEF FitInv, RowsFit, Quoted, PriceIsSnapshot, LengthOf
  <1> QED
    BY <1>1, FitInvariant, PTL

-----------------------------------------------------------------------------
(***************************************************************************)
(* The ledger, for every run of its own: what it guarantees carries over   *)
(* to whatever implements it.                                              *)
(***************************************************************************)
\* The ledger means by its terms what the handlers mean
LEMMA LedgerTerms ==
    /\ L!Rows = Rows /\ L!Transitions = Transitions
    /\ \A a : /\ L!Exists(appt, a) <=> Exists(appt, a)
              /\ L!IsActive(appt, a) <=> IsActive(appt, a)
    /\ \A a, p, from, to : L!Conflicts(appt, a, p, from, to) = Conflicts(appt, a, p, from, to)
  BY DEF L!Rows, Rows, L!Statuses, Statuses, L!Prices, Prices, L!Transitions, Transitions,
         L!Exists, Exists, L!IsActive, IsActive, L!Active, Active,
         L!Conflicts, Conflicts, L!Overlaps, Overlaps

LedgerInv == appt \in L!Table /\ L!NoDoubleBooking

\* Writing row a, if it is active only in a free interval, double-books nobody
LEMMA FreeIntervalSafe ==
    ASSUME LedgerInv, NEW a \in Appts, L!Writes(a),
           appt'[a].status \in L!Active => L!LandsInFreeInterval(a)
    PROVE  LedgerInv'
  <1>1. \A b \in Appts : b # a => appt'[b] = appt[b]
    BY DEF L!Writes, LedgerInv, L!Table
  <1>2. appt' \in L!Table
    BY DEF L!Writes, LedgerInv, L!Table
  <1>3. ASSUME NEW x \in Appts, NEW y \in Appts, L!DoubleBooked(appt', x, y)
        PROVE  FALSE
    <2>1. CASE x = a
      <3>1. y \in L!Conflicts(appt, a, appt'[a].provider, appt'[a].start, appt'[a].end)
        BY <1>1, <1>3, <2>1 DEF L!DoubleBooked, L!Conflicts, L!IsActive, L!Exists, L!Overlaps
      <3> QED
        BY <1>3, <2>1, <3>1 DEF L!LandsInFreeInterval, L!DoubleBooked, L!IsActive
    <2>2. CASE y = a
      <3>1. x \in L!Conflicts(appt, a, appt'[a].provider, appt'[a].start, appt'[a].end)
        BY <1>1, <1>3, <2>2 DEF L!DoubleBooked, L!Conflicts, L!IsActive, L!Exists, L!Overlaps
      <3> QED
        BY <1>3, <2>2, <3>1 DEF L!LandsInFreeInterval, L!DoubleBooked, L!IsActive
    <2>3. CASE x # a /\ y # a
      <3>1. L!DoubleBooked(appt, x, y)
        BY <1>1, <1>3, <2>3 DEF L!DoubleBooked, L!IsActive, L!Exists
      <3> QED
        BY <3>1 DEF LedgerInv, L!NoDoubleBooking
    <2> QED
      BY <2>1, <2>2, <2>3
  <1> QED
    BY <1>2, <1>3 DEF LedgerInv, L!NoDoubleBooking

\* A status change along TRANSITIONS never makes a row active again
LEMMA DecideSafe ==
    ASSUME LedgerInv, NEW a \in Appts, L!Decide(a)
    PROVE  /\ LedgerInv'
           /\ L!Exists(appt', a)
           /\ L!CanTransition(appt[a].status, appt'[a].status)
  <1>1. PICK status \in L!Transitions[appt[a].status] :
           appt' = [appt EXCEPT ![a].status = status]
    BY DEF L!Decide
  <1>2. L!Exists(appt, a) /\ appt[a] \in L!Rows
    BY DEF L!Decide, LedgerInv, L!Table, L!Exists
  <1>3. status \in L!Statuses /\ (status \in L!Active => appt[a].status \in L!Active)
    BY <1>1, <1>2 DEF L!Transitions, L!Statuses, L!Active, L!Rows
  <1> DEFINE row == [appt[a] EXCEPT !.status = status]
  <1>4. /\ row \in L!Rows /\ row.status = status
        /\ row.provider = appt[a].provider
        /\ row.start = appt[a].start /\ row.end = appt[a].end
    BY <1>2, <1>3 DEF L!Rows
  <1>5. \A b \in Appts : appt'[b] = IF b = a THEN row ELSE appt[b]
    BY <1>1 DEF LedgerInv, L!Table
  <1>6. appt' \in L!Table
    BY <1>1, <1>4 DEF LedgerInv, L!Table
  <1> HIDE DEF row
  <1>7. \A x, y \in Appts : L!DoubleBooked(appt', x, y) => L!DoubleBooked(appt, x, y)
    BY <1>2, <1>3, <1>4, <1>5 DEF L!DoubleBooked, L!IsActive, L!Exists, L!Overlaps
  <1>8. L!Exists(appt', a) /\ L!CanTransition(appt[a].status, appt'[a].status)
    <2>1. None \notin L!Rows
      BY BookingAssumption, LedgerTerms
    <2> QED
      BY <1>1, <1>4, <1>5, <2>1 DEF L!Exists, L!CanTransition
  <1> QED
    BY <1>6, <1>7, <1>8 DEF LedgerInv, L!NoDoubleBooking

\* The table is well typed and double-books nobody: inductive
LEMMA LedgerInvariant == L!LedgerSpec => []LedgerInv
  <1>1. L!LedgerInit => LedgerInv
    BY DEF L!LedgerInit, LedgerInv, L!Table, L!NoDoubleBooking, L!DoubleBooked, L!IsActive, L!Exists
  <1>2. LedgerInv /\ [L!LedgerNext]_appt => LedgerInv'
    <2> SUFFICES ASSUME LedgerInv, [L!LedgerNext]_appt
                 PROVE  LedgerInv'
      OBVIOUS
    <2>1. ASSUME NEW a \in Appts, L!Book(a) \/ L!Move(a)
          PROVE  LedgerInv'
      BY <2>1, FreeIntervalSafe DEF L!Book, L!Move
    <2>2. ASSUME NEW a \in Appts, L!Decide(a)
          PROVE  LedgerInv'
      BY <2>2, DecideSafe
    <2>3. CASE UNCHANGED appt
      BY <2>3 DEF LedgerInv, L!NoDoubleBooking, L!DoubleBooked, L!IsActive, L!Exists
    <2> QED
      BY <2>1, <2>2, <2>3 DEF L!LedgerNext
  <1> QED
    BY <1>1, <1>2, PTL DEF L!LedgerSpec

(***************************************************************************)
(* A ledger that books, moves and decides one step at a time never puts    *)
(* two active appointments of a provider on top of each other.             *)
(***************************************************************************)
THEOREM LedgerNeverDoubleBooks == L!LedgerSpec => []L!NoDoubleBooking
  BY LedgerInvariant, PTL DEF LedgerInv

(***************************************************************************)
(* In the ledger statuses only move along TRANSITIONS and rows stay.       *)
(***************************************************************************)
THEOREM LedgerFollowsTransitions == L!LedgerSpec => L!StatusFollowsTransitions
  <1> DEFINE Follows ==
               \A a \in Appts :
                  L!Exists(appt, a) =>
                     /\ L!Exists(appt', a)
                     /\ appt'[a].status = appt[a].status
                        \/ L!CanTransition(appt[a].status, appt'[a].status)
  <1>1. LedgerInv /\ [L!LedgerNext]_appt => [Follows]_appt
    <2> SUFFICES ASSUME LedgerInv, L!LedgerNext
                 PROVE  Follows
      OBVIOUS
    <2>1. PICK a \in Appts : L!Book(a) \/ L!Move(a) \/ L!Decide(a)
      BY DEF L!LedgerNext
    <2>2. \A b \in Appts : b # a => appt'[b] = appt[b]
      BY <2>1 DEF L!Book, L!Move, L!Decide, L!Writes, LedgerInv, L!Table
    <2>3. CASE L!Book(a)
      BY <2>2, <2>3 DEF L!Book, L!Exists
    <2>4. CASE L!Move(a)
      <3>1. L!Exists(appt', a)
        <4>1. None \notin L!Rows
          BY BookingAssumption, LedgerTerms
        <4> QED
          BY <2>4, <4>1 DEF L!Move, L!Writes, L!Exists
      <3> QED
        BY <2>2, <2>4, <3>1 DEF L!Move, L!Exists
    <2>5. CASE L!Decide(a)
      BY <2>2, <2>5, DecideSafe DEF L!Exists
    <2> QED
      BY <2>1, <2>3, <2>4, <2>5
  <1> QED
    BY <1>1, LedgerInvariant, PTL DEF L!LedgerSpec, L!StatusFollowsTransitions
-----------------------------------------------------------------------------
(***************************************************************************)
(* Requests that do not overlap in time, any number of them: the handlers  *)
(* then implement the ledger.  That fails as soon as two requests overlap, *)
(* because what a handler has read may be gone when it writes.             *)
(***************************************************************************)
\* No two requests are in flight at the same time
Sequential == \A q, r \in Requests : req[q] # Idle /\ req[r] # Idle => q = r

(***************************************************************************)
(* What a request has read of the appointments still holds while it is the *)
(* only one: an appointment to be moved is active, a status change is      *)
(* legal, and an interval that was found free is free.                     *)
(***************************************************************************)
Granted(request) ==
    /\ request.op = "create" => request.data.status = "PENDING"
    /\ request.op = "reschedule" => IsActive(appt, request.id)
    /\ request.op = "status" => CanTransition(appt[request.id].status, request.data.status)
    /\ request.step = "clear" =>
          Conflicts(appt, request.id, request.provider,
                    request.data.start, request.data.end) = {}

ChecksHold == \A r \in Requests : Granted(req[r])

\* Nothing is owed to an unused request slot
LEMMA IdleGranted == Granted(Idle)
  BY DEF Granted, Idle

\* A request that takes a step other than its first is in flight
LEMMA StepsAreInFlight ==
    ASSUME NEW r \in Requests, Advance(r) \/ WaitForProvider(r) \/ Fail(r)
    PROVE  req[r] # Idle
  <1> SUFFICES ASSUME req[r] = Idle
               PROVE  FALSE
    OBVIOUS
  <1>1. req[r].op = "none" /\ req[r].step = "idle"
    BY DEF Idle
  <1> QED
    BY <1>1
       DEF Advance, WaitForProvider, Fail, CheckAvailability, CheckConflicts,
           InsertAppointment, UpdateInterval, UpdateStatus, UpdateService, Invalidate,
           FillUser, LockProvider, CloseProfile, ReopenProfile, Locking

\* A step after which no request is in flight owes nothing to any of them
LEMMA AnswerEndsAll ==
    ASSUME TypeOK, Sequential, NEW r \in Requests, req[r] # Idle, Answer(r)
    PROVE  ChecksHold'
  <1>1. \A q \in Requests : req'[q] = Idle
    BY AnswerType DEF Sequential
  <1>2. Granted(Idle)'
    BY DEF Granted, Idle
  <1> QED
    BY <1>1, <1>2 DEF ChecksHold, Granted, Idle

\* The checks of the only request in flight are kept by every step
LEMMA StepSequential ==
    TypeInv /\ ChecksHold /\ Sequential /\ [Next]_vars => ChecksHold'
  <1> SUFFICES ASSUME TypeInv, ChecksHold, Sequential, [Next]_vars
               PROVE  ChecksHold'
    OBVIOUS
  <1>0. TypeOK
    BY DEF TypeInv
  <1>1. ASSUME UNCHANGED appt, NEW r \in Requests, Granted(req'[r]),
               \A q \in Requests : q # r => req'[q] = req[q]
        PROVE  ChecksHold'
    <2>1. \A q \in Requests : Granted(req'[q])
      BY <1>1 DEF ChecksHold
    <2> QED
      BY <1>1, <2>1 DEF ChecksHold, Granted, IsActive, Exists, Conflicts
  <1>2. ASSUME NEW r \in Requests, Receive(r)
        PROVE  ChecksHold'
    <2>1. PICK request \in RequestStates : Admit(r, request) /\ Admits(request)
      BY <1>2, ReceiveShape
    <2>2. /\ req'[r] = request /\ UNCHANGED appt
          /\ \A q \in Requests : q # r => req'[q] = req[q]
      BY <1>0, <2>1, AdmitType DEF TypeOK, tables
    <2>3. Granted(request)
      BY <2>1 DEF Admits, Granted
    <2> QED
      BY <1>1, <2>2, <2>3
  <1>3. ASSUME NEW r \in Requests, NEW new, Moved(r, new),
               Reads(r, new) \/ Locks(r, new) \/ Clears(r, new) \/ Switches(r, new)
        PROVE  ChecksHold'
    <2>1. req'[r] = new /\ \A q \in Requests : q # r => req'[q] = req[q]
      BY <1>3, MovedTypes
    <2>2. Granted(new)
      BY <1>3 DEF Moved, Reads, Locks, Clears, Switches, ChecksHold, Granted
    <2> QED
      BY <1>1, <1>3, <2>1, <2>2 DEF Moved
  <1>4. ASSUME NEW r \in Requests, Advance(r) \/ WaitForProvider(r) \/ Fail(r)
        PROVE  ChecksHold'
    BY <1>0, <1>3, <1>4, StepsAreInFlight, AnswerEndsAll, StepShape
  <1>5. CASE UNCHANGED <<appt, req>>
    BY <1>5 DEF ChecksHold, Granted, IsActive, Exists, Conflicts
  <1> QED
    BY <1>2, <1>4, <1>5, AroundShape DEF Next, vars, tables

\* The checks hold of the only request in flight
LEMMA SequentialInvariant == Spec /\ []Sequential => []ChecksHold
  <1>1. Init => ChecksHold
    BY IdleGranted DEF Init, ChecksHold
  <1> QED
    BY <1>1, StepSequential, TypeInvariant, PTL DEF Spec

\* One step of a request that is alone is a step of the ledger, or leaves the table as it is
LEMMA StepLedger ==
    TypeInv /\ TargetInv /\ ChecksHold /\ [Next]_vars => [L!LedgerNext]_appt
  <1> SUFFICES ASSUME TypeInv, TargetInv, ChecksHold, [Next]_vars, appt' # appt
               PROVE  L!LedgerNext
    OBVIOUS
  <1>0. TypeOK /\ appt \in Table
    BY DEF TypeInv, TypeOK
  <1>1. ASSUME NEW r \in Requests, InsertAppointment(r)
        PROVE  L!LedgerNext
    <2>1. PICK a, row : a = req[r].id /\ row = req[r].data
      OBVIOUS
    <2>2. a \in Appts /\ row \in Rows
      BY <1>0, <1>1, <2>1, CreateType DEF InsertAppointment
    <2>3. appt' = [appt EXCEPT ![a] = row]
      BY <1>1, <2>1 DEF InsertAppointment
    <2>4. /\ ~Exists(appt, a) /\ row.provider = req[r].provider /\ row.status = "PENDING"
          /\ Conflicts(appt, a, row.provider, row.start, row.end) = {}
      BY <1>1, <2>1 DEF InsertAppointment, TargetInv, ChecksHold, Granted
    <2>5. appt'[a] = row
      BY <1>0, <2>2, <2>3 DEF Table
    <2>6. ~L!Exists(appt, a) /\ L!Writes(a)
      <3>1. ~L!Exists(appt, a)
        BY <2>4, LedgerTerms, Zenon
      <3>2. L!Writes(a)
        <4>1. appt'[a] \in L!Rows
          BY <2>2, <2>5, LedgerTerms, Zenon
        <4>2. appt' = [appt EXCEPT ![a] = appt'[a]]
          BY <2>3, <2>5
        <4> QED
          BY <4>1, <4>2, Zenon DEF L!Writes
      <3> QED
        BY <3>1, <3>2
    <2>7. L!Conflicts(appt, a, row.provider, row.start, row.end) = {}
      BY <2>4, LedgerTerms, Zenon
    <2>8. L!LandsInFreeInterval(a)
      BY <2>5, <2>7 DEF L!LandsInFreeInterval
    <2>9. L!Book(a)
      BY <2>4, <2>5, <2>6, <2>8 DEF L!Book
    <2> QED
      BY <2>2, <2>9 DEF L!LedgerNext
  <1>2. ASSUME NEW r \in Requests, UpdateInterval(r)
        PROVE  L!LedgerNext
    <2>1. PICK a, data : a = req[r].id /\ data = req[r].data
      OBVIOUS
    <2>2. a \in Appts /\ data \in Intervals
      BY <1>0, <1>2, <2>1, RescheduleType DEF UpdateInterval
    <2>3. /\ IsActive(appt, a) /\ appt[a].provider = req[r].provider
          /\ Conflicts(appt, a, appt[a].provider, data.start, data.end) = {}
      BY <1>2, <2>1 DEF UpdateInterval, TargetInv, ChecksHold, Granted
    <2>4. appt[a] \in Rows
      BY <1>0, <2>2, <2>3 DEF IsActive, Exists, Table
    <2>5. PICK row : row = [appt[a] EXCEPT !.start = data.start, !.end = data.end,
                                           !.price = data.price]
      OBVIOUS
    <2>6. /\ row \in Rows /\ row.start = data.start /\ row.end = data.end
          /\ row.status = appt[a].status /\ row.customer = appt[a].customer
          /\ row.provider = appt[a].provider /\ row.service = appt[a].service
      BY <2>2, <2>4, <2>5 DEF Rows, Intervals
    <2>7. appt' = [appt EXCEPT ![a] = row]
      BY <1>2, <2>1, <2>5 DEF UpdateInterval
    <2>8. appt'[a] = row
      BY <1>0, <2>2, <2>7 DEF Table
    <2>9. \A f \in {"status", "customer", "provider", "service"} : appt'[a][f] = appt[a][f]
      BY <2>6, <2>8
    <2>10. L!IsActive(appt, a) /\ L!Writes(a)
      <3>1. L!IsActive(appt, a)
        BY <2>3, LedgerTerms, Zenon
      <3>2. L!Writes(a)
        <4>1. appt'[a] \in L!Rows
          BY <2>6, <2>8, LedgerTerms, Zenon
        <4>2. appt' = [appt EXCEPT ![a] = appt'[a]]
          BY <2>7, <2>8
        <4> QED
          BY <4>1, <4>2, Zenon DEF L!Writes
      <3> QED
        BY <3>1, <3>2
    <2>11. L!Conflicts(appt, a, row.provider, row.start, row.end) = {}
      <3>1. Conflicts(appt, a, row.provider, row.start, row.end) = {}
        BY <2>3, <2>6
      <3> QED
        BY <3>1, LedgerTerms, Zenon
    <2>12. L!LandsInFreeInterval(a)
      BY <2>8, <2>11 DEF L!LandsInFreeInterval
    <2>13. L!Move(a)
      BY <2>9, <2>10, <2>12 DEF L!Move
    <2> QED
      BY <2>2, <2>13 DEF L!LedgerNext
  <1>3. ASSUME NEW r \in Requests, UpdateStatus(r)
        PROVE  L!LedgerNext
    <2>1. PICK a, next : a = req[r].id /\ next = req[r].data.status
      OBVIOUS
    <2>2. a \in Appts /\ Exists(appt, a)
      BY <1>0, <1>3, <2>1, StatusType DEF UpdateStatus, TypeInv, WellFormed
    <2>3. next \in Transitions[appt[a].status]
      BY <1>3, <2>1 DEF UpdateStatus, ChecksHold, Granted, CanTransition
    <2>4. appt' = [appt EXCEPT ![a].status = next]
      BY <1>3, <2>1 DEF UpdateStatus
    <2>5. L!Decide(a)
      <3>1. L!Exists(appt, a)
        BY <2>2, LedgerTerms, Zenon
      <3>2. next \in L!Transitions[appt[a].status]
        BY <2>3, LedgerTerms, Zenon
      <3> QED
        BY <2>4, <3>1, <3>2 DEF L!Decide
    <2> QED
      BY <2>2, <2>5 DEF L!LedgerNext
  <1>4. ASSUME NEW r \in Requests, Receive(r)
        PROVE  FALSE
    BY <1>4, ReceiveShape DEF Admit, tables
  <1> QED
    BY <1>1, <1>2, <1>3, <1>4, AroundShape
       DEF Next, Advance, WaitForProvider, Fail, CheckAvailability, CheckConflicts,
           UpdateService, Invalidate, FillUser, LockProvider, CloseProfile, ReopenProfile,
           vars, tables

(***************************************************************************)
(* Requests that do not overlap in time implement the ledger: each of them *)
(* books, moves or decides in one legal step, or leaves the table alone.   *)
(***************************************************************************)
THEOREM SequentialIsLedger == Spec /\ []Sequential => ImplementsLedger
  <1>1. Init => L!LedgerInit
    BY DEF Init, L!LedgerInit
  <1> QED
    BY <1>1, StepLedger, SequentialInvariant, TypeInvariant, TargetInvariant, PTL
       DEF Spec, ImplementsLedger, L!LedgerSpec

(***************************************************************************)
(* What the ledger guarantees the handlers then guarantee too: of requests *)
(* that do not overlap in time none double-books a provider, though of     *)
(* simultaneous ones two can.                                              *)
(***************************************************************************)
THEOREM SequentialNeverDoubleBooks == Spec /\ []Sequential => []NoDoubleBooking
  <1>1. L!NoDoubleBooking => NoDoubleBooking
    BY DEF L!NoDoubleBooking, NoDoubleBooking, L!DoubleBooked, DoubleBooked, L!IsActive, IsActive,
           L!Exists, Exists, L!Active, Active, L!Overlaps, Overlaps
  <1> QED
    BY <1>1, SequentialIsLedger, LedgerNeverDoubleBooks, PTL DEF ImplementsLedger

(***************************************************************************)
(* And an appointment that is completed, cancelled or rejected stays so.   *)
(***************************************************************************)
THEOREM SequentialFollowsTransitions ==
    Spec /\ []Sequential => L!StatusFollowsTransitions
  BY SequentialIsLedger, LedgerFollowsTransitions, PTL DEF ImplementsLedger

-----------------------------------------------------------------------------
(***************************************************************************)
(* Role switches.  Of a provider who has become a customer, and of whom    *)
(* nothing excuses a service on offer, no request is left that was let in  *)
(* as a provider's or can let one in, and the cached user still says       *)
(* PROVIDER only while its deletion is on its way.                         *)
(***************************************************************************)
LetsIn(request) ==
    request.op = "service" \/ (request.op = "lookup" /\ request.data = "PROVIDER")

EditsAreOwned ==
    \A r \in Requests :
        req[r].op = "service" => Owner[req[r].data.service] = req[r].provider

ShutOut(p) ==
    /\ cached[p] = "PROVIDER" => DeletionPending(p)
    /\ \A r \in Requests : req[r].provider = p => ~LetsIn(req[r])
    /\ \A s \in Services : Owner[s] = p => ~service[s].isActive

ClosedInv ==
    /\ EditsAreOwned
    /\ \A p \in Providers \ (open \cup excused) : ShutOut(p)

\* A step that changes neither the cache nor the services, and of the requests only r
LEMMA ShutOutStays ==
    ASSUME TypeInv, ClosedInv, NEW r \in Requests,
           \A q \in Requests : q # r => req'[q] = req[q],
           open \subseteq open', excused \subseteq excused',
           NEW p \in Providers \ (open' \cup excused'),
           cached'[p] = "PROVIDER" => /\ cached[p] = "PROVIDER"
                                      /\ DeletionPending(p) => DeletionPending(p)',
           req'[r].provider = p => ~LetsIn(req'[r]),
           \A s \in Services : Owner[s] = p => (service'[s].isActive => service[s].isActive)
    PROVE  ShutOut(p)'
  <1>1. ShutOut(p)
    BY DEF ClosedInv
  <1>2. \A q \in Requests : req'[q].provider = p => ~LetsIn(req'[q])
    BY <1>1 DEF ShutOut
  <1>3. cached'[p] = "PROVIDER" => DeletionPending(p)'
    BY <1>1 DEF ShutOut
  <1>4. \A s \in Services : Owner[s] = p => ~service'[s].isActive
    BY <1>1 DEF ShutOut
  <1> QED
    BY <1>2, <1>3, <1>4 DEF ShutOut, LetsIn

\* A pending deletion stays pending while its request takes no step
LEMMA DeletionStays ==
    ASSUME NEW r \in Requests, NEW p, \A q \in Requests : q # r => req'[q] = req[q],
           DeletionPending(p),
           \/ req[r].op # "close" \/ req[r].step # "invalidate" \/ req[r].provider # p
    PROVE  DeletionPending(p)'
  BY DEF DeletionPending

\* The guards let nobody in for a provider who is shut out
LEMMA ReceiveClosed ==
    ASSUME TypeInv, ClosedInv, NEW r \in Requests, Receive(r)
    PROVE  ClosedInv'
  <1> USE DEF TypeInv
  <1>1. PICK request \in RequestStates : Admit(r, request) /\ Admits(request)
    BY ReceiveShape
  <1>2. /\ req'[r] = request /\ UNCHANGED <<service, open, cached>> /\ req[r] = Idle
        /\ \A q \in Requests : q # r => req'[q] = req[q]
    BY <1>1, AdmitType DEF Admit, TypeOK, tables, offer
  <1>3. EditsAreOwned'
    BY <1>1, <1>2 DEF EditsAreOwned, ClosedInv, Admits
  <1>4. ASSUME NEW s \in Services, NEW edit \in ServiceEdits, ServiceRead(r, s, edit)
        PROVE  /\ excused \subseteq excused'
               /\ req'[r].provider \in open \cup excused'
    <2>1. PICK p : p = Owner[s]
      OBVIOUS
    <2>2. p \in Providers
      BY <2>1, AppointmentsAssumption
    <2>3. excused' = IF p \notin open /\ DeletionPending(p) THEN excused \cup {p} ELSE excused
      BY <1>4, <2>1 DEF ServiceRead
    <2>4. SeenRole(p) = "PROVIDER"
      BY <1>4, <2>1 DEF ServiceRead
    <2>5. req'[r].provider = p
      <3>1. PICK new : new = WriteRequest("service", None, p, [service |-> s, edit |-> edit])
        OBVIOUS
      <3>2. new.provider = p
        BY <3>1 DEF WriteRequest
      <3>3. req' = [req EXCEPT ![r] = new]
        BY <1>4, <2>1, <3>1 DEF ServiceRead, Admit
      <3> QED
        BY <3>2, <3>3 DEF TypeOK
    <2>6. CASE p \in open \cup excused
      BY <2>3, <2>5, <2>6
    <2>7. CASE p \notin open \cup excused
      <3>1. cached[p] = "PROVIDER"
        BY <2>4, <2>7 DEF SeenRole, Role
      <3>2. DeletionPending(p)
        BY <2>2, <2>7, <3>1 DEF ClosedInv, ShutOut
      <3> QED
        BY <2>3, <2>5, <2>7, <3>2
    <2> QED
      BY <2>6, <2>7
  <1>5. ASSUME NEW p \in Providers, Lookup(r, p)
        PROVE  /\ UNCHANGED excused
               /\ LetsIn(req'[r]) => req'[r].provider \in open
    <2>1. PICK new : new = [op |-> "lookup", step |-> "fill", id |-> None, provider |-> p,
                            data |-> Role(p), read |-> None]
      OBVIOUS
    <2>2. req' = [req EXCEPT ![r] = new] /\ UNCHANGED excused
      BY <1>5, <2>1 DEF Lookup, Proceed, Admit
    <2>3. req'[r] = new
      BY <2>2 DEF TypeOK
    <2>4. new.op = "lookup" /\ new.provider = p /\ new.data = Role(p)
      BY <2>1
    <2> QED
      BY <2>2, <2>3, <2>4 DEF LetsIn, Role
  <1>6. /\ excused \subseteq excused'
        /\ LetsIn(req'[r]) => req'[r].provider \in open \cup excused'
    <2>1. ASSUME NEW op \in {"create", "reschedule", "status", "close", "reopen"},
                 NEW step, NEW id, NEW provider, NEW data, NEW read,
                 Proceed(r, [op |-> op, step |-> step, id |-> id, provider |-> provider,
                             data |-> data, read |-> read])
          PROVE  excused' = excused /\ ~LetsIn(req'[r])
      <3>1. PICK new : new = [op |-> op, step |-> step, id |-> id, provider |-> provider,
                              data |-> data, read |-> read]
        OBVIOUS
      <3>2. req' = [req EXCEPT ![r] = new] /\ UNCHANGED excused /\ new.op = op
        BY <2>1, <3>1 DEF Proceed, Admit
      <3>3. req'[r].op = op
        BY <3>2 DEF TypeOK
      <3> QED
        BY <3>2, <3>3 DEF LetsIn
    <2> QED
      BY <1>4, <1>5, <2>1
         DEF Receive, CreateRead, RescheduleRead, TransitionRead, CancelRead,
             SwitchToCustomerRead, SwitchToProviderRead, BookingRequest, WriteRequest
  <1>7. ASSUME NEW p \in Providers \ (open' \cup excused')
        PROVE  ShutOut(p)'
    <2>1. DeletionPending(p) => DeletionPending(p)'
      BY <1>2, DeletionStays DEF Idle
    <2>2. req'[r].provider = p => ~LetsIn(req'[r])
      BY <1>2, <1>6
    <2> QED
      BY <1>2, <1>6, <2>1, <2>2, ShutOutStays
  <1> QED
    BY <1>3, <1>7 DEF ClosedInv

\* What a request writes as it ends puts nothing of a shut-out provider on offer
LEMMA AnswerClosed ==
    ASSUME TypeInv, ClosedInv, NEW r \in Requests, Advance(r) \/ Fail(r), Answer(r)
    PROVE  ClosedInv'
  <1> USE DEF TypeInv
  <1>1. /\ req'[r] = Idle
        /\ \A q \in Requests : q # r => req'[q] = req[q]
    BY AnswerType
  <1>2. Idle.op = "none"
    BY DEF Idle
  <1>3. EditsAreOwned'
    BY <1>1, <1>2 DEF EditsAreOwned, ClosedInv
  <1>4. UNCHANGED open /\ excused \subseteq excused'
    BY DEF Advance, Fail, CheckAvailability, CheckConflicts, InsertAppointment,
           UpdateInterval, UpdateStatus, UpdateService, Invalidate, FillUser,
           tables, offer, history
  <1>5. ASSUME NEW p \in Providers \ (open' \cup excused')
        PROVE  ShutOut(p)'
    <2>1. p \in Providers \ (open \cup excused) /\ ShutOut(p)
      BY <1>4, <1>5 DEF ClosedInv
    <2>2. req'[r].provider = p => ~LetsIn(req'[r])
      BY <1>1, <1>2 DEF LetsIn
    <2>3. CASE UpdateService(r)
      <3>1. PICK s, edit : s = req[r].data.service /\ edit = req[r].data.edit
        OBVIOUS
      <3>2. s \in Services /\ req[r].op = "service" /\ Owner[s] = req[r].provider
        BY <2>3, <3>1, ServiceType DEF UpdateService, ServiceUpdates, EditsAreOwned, ClosedInv
      <3>3. Owner[s] # p
        BY <2>1, <3>2 DEF ShutOut, LetsIn
      <3>4. /\ \A t \in Services : t # s => service'[t] = service[t]
            /\ UNCHANGED cached
        BY <2>3, <3>1 DEF UpdateService, TypeOK
      <3>5. DeletionPending(p) => DeletionPending(p)'
        BY <1>1, <3>2, DeletionStays
      <3> QED
        BY <1>1, <1>4, <2>2, <3>3, <3>4, <3>5, ShutOutStays
    <2>4. CASE Invalidate(r)
      <3>1. CASE req[r].provider = p
        <4>1. cached'[p] = None
          BY <2>4, <3>1 DEF Invalidate, TypeOK
        <4>2. UNCHANGED service
          BY <2>4 DEF Invalidate, tables, offer
        <4>3. cached'[p] # "PROVIDER"
          BY <4>1, AppointmentsAssumption DEF Roles
        <4> QED
          BY <1>1, <1>4, <2>2, <4>2, <4>3, ShutOutStays
      <3>2. CASE req[r].provider # p
        <4>1. cached'[p] = cached[p] /\ UNCHANGED service
          BY <2>4, <3>2 DEF Invalidate, tables, offer, TypeOK
        <4>2. DeletionPending(p) => DeletionPending(p)'
          BY <1>1, <3>2, DeletionStays
        <4> QED
          BY <1>1, <1>4, <2>2, <4>1, <4>2, ShutOutStays
      <3> QED
        BY <3>1, <3>2
    <2>5. CASE FillUser(r)
      <3>1. req[r].op = "lookup" /\ req[r].data \in Roles
        BY <2>5, LookupType DEF FillUser
      <3>2. req[r].provider = p => req[r].data # "PROVIDER"
        BY <2>1, <3>1 DEF ShutOut, LetsIn
      <3>3. cached' = [cached EXCEPT ![req[r].provider] = req[r].data] /\ UNCHANGED service
        BY <2>5 DEF FillUser, tables, offer
      <3>4. cached'[p] = "PROVIDER" => cached[p] = "PROVIDER"
        BY <3>2, <3>3 DEF TypeOK
      <3>5. DeletionPending(p) => DeletionPending(p)'
        BY <1>1, <3>1, DeletionStays
      <3> QED
        BY <1>1, <1>4, <2>2, <3>3, <3>4, <3>5, ShutOutStays
    <2>6. CASE /\ UNCHANGED <<service, cached>>
               /\ \/ req[r].op # "close" \/ req[r].step # "invalidate"
                  \/ req[r].provider \in excused'
      <3>1. DeletionPending(p) => DeletionPending(p)'
        BY <1>1, <1>5, <2>6, DeletionStays
      <3> QED
        BY <1>1, <1>4, <2>2, <2>6, <3>1, ShutOutStays
    <2>7. ASSUME ~UpdateService(r), ~Invalidate(r), ~FillUser(r)
          PROVE  /\ UNCHANGED <<service, cached>>
                 /\ \/ req[r].op # "close" \/ req[r].step # "invalidate"
                    \/ req[r].provider \in excused'
      BY <2>7 DEF Advance, Fail, CheckAvailability, CheckConflicts, InsertAppointment,
                  UpdateInterval, UpdateStatus, tables, offer
    <2> QED
      BY <2>3, <2>4, <2>5, <2>6, <2>7
  <1> QED
    BY <1>3, <1>5 DEF ClosedInv

\* A request that goes on without switching a role changes nothing here
LEMMA MovedClosed ==
    ASSUME TypeInv, ClosedInv, NEW r \in Requests, NEW new, Moved(r, new),
           Reads(r, new) \/ Locks(r, new) \/ Clears(r, new)
    PROVE  ClosedInv'
  <1> USE DEF TypeInv
  <1>1. /\ req'[r] = new /\ \A q \in Requests : q # r => req'[q] = req[q]
        /\ new.op = req[r].op /\ new.provider = req[r].provider /\ new.data = req[r].data
        /\ UNCHANGED <<service, open, cached, excused>> /\ req[r].op \in Locking
    BY MovedTypes DEF Moved, Reads, Locks, Clears, offer
  <1>2. EditsAreOwned'
    BY <1>1 DEF EditsAreOwned, ClosedInv, Locking
  <1>3. ASSUME NEW p \in Providers \ (open' \cup excused')
        PROVE  ShutOut(p)'
    <2>1. DeletionPending(p) => DeletionPending(p)'
      BY <1>1, DeletionStays DEF Locking
    <2>2. ~LetsIn(req'[r])
      BY <1>1 DEF LetsIn, Locking
    <2> QED
      BY <1>1, <1>3, <2>1, <2>2, ShutOutStays
  <1> QED
    BY <1>2, <1>3 DEF ClosedInv

\* switchRole takes the services off the offer and deletes the cached user afterwards
LEMMA SwitchClosed ==
    ASSUME TypeInv, ClosedInv, NEW r \in Requests, CloseProfile(r) \/ ReopenProfile(r)
    PROVE  ClosedInv'
  <1> USE DEF TypeInv
  <1>1. PICK p, new : p = req[r].provider /\ new = [req[r] EXCEPT !.step = "invalidate"]
    OBVIOUS
  <1>2. /\ p \in Providers /\ req[r].op \in {"close", "reopen"} /\ req[r].step = "begin"
        /\ new.op = req[r].op /\ new.provider = p /\ new.step = "invalidate"
    BY <1>1, SwitchType DEF CloseProfile, ReopenProfile, InFlight
  <1>3. /\ req'[r] = new /\ \A q \in Requests : q # r => req'[q] = req[q]
        /\ UNCHANGED cached
    BY <1>1 DEF CloseProfile, ReopenProfile, TypeOK
  <1>4. ~LetsIn(new)
    BY <1>2 DEF LetsIn
  <1>5. EditsAreOwned'
    BY <1>2, <1>3 DEF EditsAreOwned, ClosedInv
  <1>6. CASE ReopenProfile(r)
    <2>1. open \subseteq open' /\ UNCHANGED <<service, excused>>
      BY <1>6 DEF ReopenProfile, history
    <2>2. ASSUME NEW c \in Providers \ (open' \cup excused')
          PROVE  ShutOut(c)'
      <3>1. DeletionPending(c) => DeletionPending(c)'
        BY <1>2, <1>3, DeletionStays
      <3> QED
        BY <1>3, <1>4, <2>1, <2>2, <3>1, ShutOutStays
    <2> QED
      BY <1>5, <2>2 DEF ClosedInv
  <1>7. CASE CloseProfile(r)
    <2>1. /\ open' = open \ {p}
          /\ excused' = IF Crossing(r, p) THEN excused \cup {p} ELSE excused \ {p}
          /\ req[r].op = "close"
          /\ \A s \in Services :
                /\ Owner[s] = p => service'[s] = [service[s] EXCEPT !.isActive = FALSE]
                /\ Owner[s] # p => service'[s] = service[s]
      BY <1>1, <1>7 DEF CloseProfile
    <2>2. ASSUME NEW c \in Providers \ (open' \cup excused')
          PROVE  ShutOut(c)'
      <3>1. CASE c = p
        <4>1. ~Crossing(r, p)
          BY <2>1, <2>2, <3>1
        <4>2. DeletionPending(p)'
          BY <1>2, <1>3, <2>1 DEF DeletionPending
        <4>3. \A q \in Requests : req'[q].provider = p => ~LetsIn(req'[q])
          BY <1>3, <1>4, <4>1 DEF Crossing, LetsIn
        <4>4. \A s \in Services : Owner[s] = p => ~service'[s].isActive
          BY <2>1 DEF TypeOK, ServiceRows
        <4> QED
          BY <3>1, <4>2, <4>3, <4>4 DEF ShutOut, LetsIn
      <3>2. CASE c # p
        <4>1. ShutOut(c)
          BY <2>1, <2>2, <3>2 DEF ClosedInv
        <4>2. DeletionPending(c) => DeletionPending(c)'
          BY <1>2, <1>3, DeletionStays
        <4>3. \A q \in Requests : req'[q].provider = c => ~LetsIn(req'[q])
          BY <1>3, <1>4, <4>1 DEF ShutOut
        <4>4. \A s \in Services : Owner[s] = c => ~service'[s].isActive
          BY <2>1, <3>2, <4>1 DEF ShutOut
        <4> QED
          BY <1>3, <4>1, <4>2, <4>3, <4>4 DEF ShutOut, LetsIn
      <3> QED
        BY <3>1, <3>2
    <2> QED
      BY <1>5, <2>2 DEF ClosedInv
  <1> QED
    BY <1>6, <1>7

(***************************************************************************)
(* However role switches, edits of services, lookups of the user and lost  *)
(* deletions interleave, a provider who has become a customer has nothing  *)
(* on offer, unless his switch was crossed in one of the three ways that   *)
(* the property names.                                                     *)
(***************************************************************************)
THEOREM SwitchTakesOffOffer == Spec => []ClosedOffersNothingUnlessCrossed
  <1>1. Init => ClosedInv
    BY DEF Init, ClosedInv, EditsAreOwned, Idle
  <1>2. TypeInv /\ ClosedInv /\ [Next]_vars => ClosedInv'
    <2> SUFFICES ASSUME TypeInv, ClosedInv, [Next]_vars
                 PROVE  ClosedInv'
      OBVIOUS
    <2>1. ASSUME NEW r \in Requests, Advance(r) \/ WaitForProvider(r) \/ Fail(r)
          PROVE  ClosedInv'
      <3>1. CASE CloseProfile(r) \/ ReopenProfile(r)
        BY <3>1, SwitchClosed
      <3>2. CASE (Advance(r) \/ Fail(r)) /\ Answer(r)
        BY <3>2, AnswerClosed
      <3>3. ASSUME Advance(r) \/ LockProvider(r) \/ Fail(r), ~Answer(r)
            PROVE  ClosedInv'
        <4>1. PICK new : /\ Moved(r, new)
                         /\ Reads(r, new) \/ Locks(r, new) \/ Clears(r, new) \/ Switches(r, new)
          BY <3>3, StepShape DEF WaitForProvider, TypeInv
        <4>2. ~Switches(r, new)
          BY <3>3, SwitchType DEF Switches, Advance, Fail, CheckAvailability, CheckConflicts,
             InsertAppointment, UpdateInterval, UpdateStatus, UpdateService, Invalidate,
             FillUser, LockProvider, TypeInv, Locking
        <4> QED
          BY <4>1, <4>2, MovedClosed
      <3>4. CASE LockProvider(r) /\ Answer(r)
        <4>1. PICK new : new = [req[r] EXCEPT !.step = "locked"]
          OBVIOUS
        <4>2. req'[r] = new /\ new.step = "locked"
          BY <3>4, <4>1, StepType DEF LockProvider, TypeInv, TypeOK, BookingSteps
        <4> QED
          BY <3>4, <4>2, AnswerType DEF TypeInv, Idle
      <3> QED
        BY <2>1, <3>1, <3>2, <3>3, <3>4 DEF WaitForProvider
    <2>2. CASE Around
      <3>1. UNCHANGED <<service, open, excused, req>>
        BY <2>2 DEF Around, SetVerification, CreateSlot, UpdateSlot, RemoveSlot, WriteSlot,
                    CacheExpires, Tick, tables, offer, history
      <3>2. ASSUME NEW c \in Providers
            PROVE  cached'[c] = "PROVIDER" => cached[c] = "PROVIDER"
        <4>1. ASSUME NEW p \in Providers, CacheExpires(p)
              PROVE  cached'[c] = "PROVIDER" => cached[c] = "PROVIDER"
          BY <4>1, AppointmentsAssumption DEF CacheExpires, TypeInv, TypeOK, Roles
        <4> QED
          BY <2>2, <4>1 DEF Around, SetVerification, CreateSlot, UpdateSlot, RemoveSlot,
                            WriteSlot, Tick
      <3> QED
        BY <3>1, <3>2 DEF ClosedInv, EditsAreOwned, ShutOut, DeletionPending, LetsIn
    <2>3. CASE UNCHANGED vars
      BY <2>3 DEF vars, tables, offer, history, ClosedInv, EditsAreOwned, ShutOut,
                  DeletionPending, LetsIn
    <2> QED
      BY <2>1, <2>2, <2>3, ReceiveClosed DEF Next
  <1>3. ClosedInv => ClosedOffersNothingUnlessCrossed
    BY AppointmentsAssumption DEF ClosedInv, ShutOut, ClosedOffersNothingUnlessCrossed
  <1> QED
    BY <1>1, <1>2, <1>3, TypeInvariant, PTL DEF Spec
=============================================================================

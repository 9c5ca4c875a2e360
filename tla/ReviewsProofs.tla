---------------------------- MODULE ReviewsProofs ----------------------------
(***************************************************************************)
(* Proofs about Reviews for every value of its constants: any number of    *)
(* appointments, reviews and review requests, whatever bookings customers  *)
(* make.                                                                   *)
(***************************************************************************)
EXTENDS Reviews, SumTheorems

-----------------------------------------------------------------------------
(* The inductive invariant *)

\* A review, written or about to be, of an appointment that was completed, by
\* its customer and for its provider
Earned(row) ==
    /\ row.appointment \in completed
    /\ row.customer = appt[row.appointment].customer
    /\ row.provider = appt[row.appointment].provider

\* An appointment that was completed is still there, and counts as completed
\* however its status is overwritten
CompletedStay ==
    /\ Having(appt, "COMPLETED") \subseteq completed
    /\ \A a \in completed : Exists(appt, a)

AlreadyEarned == \A r \in Requests : req[r].step \in {"look", "insert"} => Earned(req[r].row)

\* An appointment starts before it ends
Lasting == \A a \in Appts : Exists(appt, a) => appt[a].start < appt[a].end

ReviewsInv ==
    /\ TypeOK
    /\ CompletedStay
    /\ Lasting
    /\ AlreadyEarned
    /\ ReviewsAreEarned

-----------------------------------------------------------------------------
(* What happens to the appointments *)

\* A step that neither removes an appointment nor gives it to somebody else
ApptStep ==
    /\ appt' \in Table
    /\ completed \subseteq completed' /\ completed' \subseteq Appts
    /\ CompletedStay' /\ Lasting'
    /\ \A a \in Appts : Exists(appt, a) => /\ appt'[a].customer = appt[a].customer
                                           /\ appt'[a].provider = appt[a].provider
    /\ now' \in Nat
    /\ UNCHANGED <<review, req>>

\* Such a step keeps every review earned
LEMMA ApptStepKeeps ==
    ASSUME ReviewsInv, ApptStep
    PROVE  ReviewsInv'
  <1>1. TypeOK'
    BY DEF ApptStep, ReviewsInv, TypeOK
  <1>2. completed \subseteq Appts /\ \A a \in completed : Exists(appt, a)
    BY DEF ReviewsInv, TypeOK, CompletedStay
  <1>3. AlreadyEarned'
    BY <1>2 DEF ApptStep, ReviewsInv, AlreadyEarned, Earned
  <1>4. ReviewsAreEarned'
    BY <1>2 DEF ApptStep, ReviewsInv, ReviewsAreEarned, Written
  <1> QED
    BY <1>1, <1>3, <1>4 DEF ApptStep, ReviewsInv

\* A row of the table
LEMMA RowType ==
    ASSUME ReviewsInv, NEW a \in Appts, Exists(appt, a)
    PROVE  /\ appt[a] \in Rows /\ appt[a].status \in Statuses
           /\ appt[a].customer \in Customers /\ appt[a].provider \in Providers
  BY DEF ReviewsInv, TypeOK, Table, Exists, Rows

\* A status that is written over another, checked or not
LEMMA StatusStep ==
    ASSUME ReviewsInv, NEW a \in Appts, NEW status \in Statuses, Exists(appt, a),
           appt' = [appt EXCEPT ![a].status = status],
           completed' = completed \cup Having(appt', "COMPLETED"),
           UNCHANGED <<review, req, now>>
    PROVE  ReviewsInv'
  <1>1. PICK row : row = [appt[a] EXCEPT !.status = status]
    OBVIOUS
  <1>2. appt[a] \in Rows
    BY RowType
  <1>3. /\ row \in Rows /\ row.customer = appt[a].customer /\ row.provider = appt[a].provider
        /\ row.start = appt[a].start /\ row.end = appt[a].end
    BY <1>1, <1>2 DEF Rows
  <1>4. row # None
    BY <1>3, BookingAssumption
  <1>5. appt' = [appt EXCEPT ![a] = row] /\ appt \in Table
    BY <1>1 DEF ReviewsInv, TypeOK
  <1>6. /\ appt' \in Table /\ appt'[a] = row
        /\ \A b \in Appts \ {a} : appt'[b] = appt[b]
    BY <1>3, <1>5 DEF Table
  <1>7. CompletedStay'
    BY <1>4, <1>6 DEF ReviewsInv, TypeOK, CompletedStay, Exists, Having
  <1>8. completed' \subseteq Appts
    BY DEF ReviewsInv, TypeOK, Having
  <1>9. Lasting'
    BY <1>3, <1>6 DEF ReviewsInv, Lasting, Exists
  <1> QED
    BY <1>3, <1>6, <1>7, <1>8, <1>9, ApptStepKeeps DEF ApptStep, ReviewsInv, TypeOK

\* Bookings and moves, status changes and late status writes, and the clock
LEMMA ApptStepsKeep ==
    ASSUME ReviewsInv, BookOrMove \/ ChangeStatus \/ OverwriteStatus \/ Tick
    PROVE  ReviewsInv'
  <1>0. /\ appt \in Table /\ now \in Nat /\ completed \subseteq Appts
        /\ CompletedStay /\ Lasting
    BY DEF ReviewsInv, TypeOK
  <1>1. CASE BookOrMove
    <2>1. PICK a \in Appts, b \in Bookings :
             /\ Book(a) \/ Move(a)
             /\ appt' = [appt EXCEPT ![a] =
                    [b EXCEPT !.status = IF Exists(appt, a) THEN appt[a].status ELSE "PENDING"]]
      BY <1>1 DEF BookOrMove
    <2>2. UNCHANGED <<review, req, now, completed>>
      BY <1>1 DEF BookOrMove
    <2>3. appt'[a] \in Rows /\ appt' = [appt EXCEPT ![a] = appt'[a]]
      BY <2>1 DEF Book, Move, Writes
    <2>4. appt'[a] # None
      BY <2>3, BookingAssumption
    <2>5. appt' \in Table /\ \A c \in Appts \ {a} : appt'[c] = appt[c]
      BY <1>0, <2>3 DEF Table
    <2>6. Exists(appt, a) => /\ appt'[a].customer = appt[a].customer
                             /\ appt'[a].provider = appt[a].provider
                             /\ appt'[a].status = appt[a].status
      BY <2>1 DEF Book, Move
    <2>7. ~Exists(appt, a) => appt'[a].status # "COMPLETED"
      BY <2>1 DEF Book, Move, IsActive
    <2>8. CompletedStay'
      BY <1>0, <2>2, <2>4, <2>5, <2>6, <2>7 DEF CompletedStay, Exists, Having
    <2>9. appt'[a].start < appt'[a].end
      <3>1. PICK row : row = [b EXCEPT !.status = IF Exists(appt, a) THEN appt[a].status
                                                  ELSE "PENDING"]
        OBVIOUS
      <3>2. b \in Rows /\ b.start < b.end
        BY ReviewsAssumption
      <3>3. row.start = b.start /\ row.end = b.end
        BY <3>1, <3>2 DEF Rows
      <3>4. appt'[a] = row
        BY <1>0, <2>1, <3>1 DEF Table
      <3> QED
        BY <3>2, <3>3, <3>4
    <2>10. Lasting'
      BY <1>0, <2>5, <2>9 DEF Lasting, Exists
    <2> QED
      BY <1>0, <2>2, <2>5, <2>6, <2>8, <2>10, ApptStepKeeps DEF ApptStep
  <1>2. CASE ChangeStatus
    <2>1. PICK a \in Appts : Decide(a)
      BY <1>2 DEF ChangeStatus
    <2>2. PICK status \in Transitions[appt[a].status] :
             appt' = [appt EXCEPT ![a].status = status]
      BY <2>1 DEF Decide
    <2>3. Exists(appt, a)
      BY <2>1 DEF Decide
    <2>4. status \in Statuses
      BY <2>2, <2>3, RowType DEF Transitions, Statuses
    <2>5. completed' = completed \cup Having(appt', "COMPLETED")
          /\ UNCHANGED <<review, req, now>>
      BY <1>2 DEF ChangeStatus
    <2> QED
      BY <2>2, <2>3, <2>4, <2>5, StatusStep
  <1>3. CASE OverwriteStatus
    <2>1. PICK a \in Appts, status \in {"CONFIRMED", "COMPLETED", "CANCELLED", "REJECTED"} :
             Exists(appt, a) /\ appt' = [appt EXCEPT ![a].status = status]
      BY <1>3 DEF OverwriteStatus
    <2>2. completed' = completed \cup Having(appt', "COMPLETED")
          /\ UNCHANGED <<review, req, now>>
      BY <1>3 DEF OverwriteStatus
    <2>3. status \in Statuses
      BY DEF Statuses
    <2> QED
      BY <2>1, <2>2, <2>3, StatusStep
  <1>4. CASE Tick
    <2>1. now' \in Nat /\ UNCHANGED <<appt, review, req, completed>>
      BY <1>4, ReviewsAssumption DEF Tick
    <2> QED
      BY <1>0, <2>1, ApptStepKeeps DEF ApptStep, CompletedStay, Lasting
  <1> QED
    BY <1>1, <1>2, <1>3, <1>4

-----------------------------------------------------------------------------
(* The review requests *)

\* What a request carries at each step
LEMMA RequestType ==
    ASSUME ReviewsInv, NEW r \in Requests
    PROVE  /\ req[r] \in RequestStates
           /\ req[r].step \in {"look", "insert"} => req[r].row \in ReviewRows
           /\ req[r].step = "update" =>
                  req[r].id \in ReviewIds /\ req[r].row \in Ratings \cup {None}
           /\ req[r].step = "delete" => req[r].id \in ReviewIds
  <1>1. req[r] \in RequestStates
    BY DEF ReviewsInv, TypeOK
  <1> QED
    BY <1>1 DEF RequestStates, Idle

\* Steps of a request that leave the appointments alone: what the request goes
\* on with is typed and earned, and so are the reviews
LEMMA RequestStep ==
    ASSUME ReviewsInv, NEW r \in Requests, NEW m \in RequestStates,
           req' = [req EXCEPT ![r] = m],
           m.step \in {"look", "insert"} => Earned(m.row),
           review' \in [ReviewIds -> ReviewRows \cup {None, Gone}], ReviewsAreEarned',
           UNCHANGED <<appt, now, completed>>
    PROVE  ReviewsInv'
  <1>1. /\ req' \in [Requests -> RequestStates] /\ req'[r] = m
        /\ \A q \in Requests \ {r} : req'[q] = req[q]
    BY DEF ReviewsInv, TypeOK
  <1>2. TypeOK'
    BY <1>1 DEF ReviewsInv, TypeOK
  <1>3. CompletedStay' /\ Lasting'
    BY DEF ReviewsInv, CompletedStay, Lasting
  <1>4. AlreadyEarned'
    BY <1>1 DEF ReviewsInv, AlreadyEarned, Earned
  <1> QED
    BY <1>2, <1>3, <1>4 DEF ReviewsInv

\* A request that reads or gives up
LEMMA ReadStep ==
    ASSUME ReviewsInv, NEW r \in Requests, NEW m \in RequestStates,
           req' = [req EXCEPT ![r] = m],
           m.step \in {"look", "insert"} => Earned(m.row),
           UNCHANGED <<appt, review, now, completed>>
    PROVE  ReviewsInv'
  <1>1. ReviewsAreEarned'
    BY DEF ReviewsInv, ReviewsAreEarned, Written
  <1> QED
    BY <1>1, RequestStep DEF ReviewsInv, TypeOK

\* A request that is answered writes what keeps the reviews earned
LEMMA AnswerStep ==
    ASSUME ReviewsInv, NEW r \in Requests, Answer(r),
           review' \in [ReviewIds -> ReviewRows \cup {None, Gone}], ReviewsAreEarned',
           UNCHANGED <<appt, now, completed>>
    PROVE  ReviewsInv'
  <1>1. PICK m : m = Idle
    OBVIOUS
  <1>2. m \in RequestStates /\ m.step = "idle"
    BY <1>1 DEF RequestStates, Idle
  <1> QED
    BY <1>1, <1>2, RequestStep DEF Answer

\* Answering without a write
LEMMA AnswerOnly ==
    ASSUME ReviewsInv, NEW r \in Requests, Answer(r),
           UNCHANGED <<appt, review, now, completed>>
    PROVE  ReviewsInv'
  <1>1. ReviewsAreEarned'
    BY DEF ReviewsInv, ReviewsAreEarned, Written
  <1> QED
    BY <1>1, AnswerStep DEF ReviewsInv, TypeOK

\* Requests that come in: a new review is of an appointment that is completed
LEMMA ReceiveKeeps ==
    ASSUME ReviewsInv, NEW r \in Requests, Receive(r)
    PROVE  ReviewsInv'
  <1>1. ASSUME NEW customer \in Customers, NEW a \in Appts, NEW rating \in Ratings,
               CreateRead(r, a, customer, rating)
        PROVE  ReviewsInv'
    <2>1. PICK row : row = [appointment |-> a, customer |-> customer,
                            provider |-> appt[a].provider, rating |-> rating]
      OBVIOUS
    <2>2. PICK m : m = [step |-> "look", id |-> None, row |-> row]
      OBVIOUS
    <2>3. Exists(appt, a) /\ appt[a].customer = customer /\ appt[a].status = "COMPLETED"
      BY <1>1 DEF CreateRead, Reviewable
    <2>4. row \in ReviewRows
      BY <2>1, <2>3, RowType DEF ReviewRows
    <2>5. a \in completed
      BY <2>3 DEF ReviewsInv, CompletedStay, Having
    <2>6. Earned(row)
      BY <2>1, <2>3, <2>5 DEF Earned
    <2>7. m \in RequestStates /\ m.row = row
      BY <2>2, <2>4 DEF RequestStates
    <2>8. req' = [req EXCEPT ![r] = m] /\ UNCHANGED <<appt, review, now, completed>>
      BY <1>1, <2>1, <2>2 DEF CreateRead, GoTo
    <2> QED
      BY <2>6, <2>7, <2>8, ReadStep
  <1>2. ASSUME NEW customer \in Customers, NEW v \in ReviewIds, NEW rating \in Ratings \cup {None},
               UpdateRead(r, v, customer, rating)
        PROVE  ReviewsInv'
    <2>1. PICK m : m = [step |-> "update", id |-> v, row |-> rating]
      OBVIOUS
    <2>2. m \in RequestStates /\ m.step = "update"
      BY <2>1 DEF RequestStates
    <2> QED
      BY <1>2, <2>1, <2>2, ReadStep DEF UpdateRead, GoTo
  <1>3. ASSUME NEW customer \in Customers, NEW v \in ReviewIds, RemoveRead(r, v, customer)
        PROVE  ReviewsInv'
    <2>1. PICK m : m = [step |-> "delete", id |-> v, row |-> None]
      OBVIOUS
    <2>2. m \in RequestStates /\ m.step = "delete"
      BY <2>1 DEF RequestStates
    <2> QED
      BY <1>3, <2>1, <2>2, ReadStep DEF RemoveRead, GoTo
  <1> QED
    BY <1>1, <1>2, <1>3, Zenon DEF Receive

\* A review that was found missing is looked for once more by the index
LEMMA LookForReviewKeeps ==
    ASSUME ReviewsInv, NEW r \in Requests, LookForReview(r)
    PROVE  ReviewsInv'
  <1>1. CASE HasReview(req[r].row.appointment)
    BY <1>1, AnswerOnly DEF LookForReview
  <1>2. CASE ~HasReview(req[r].row.appointment)
    <2>1. PICK m, row : m = [step |-> "insert", id |-> None, row |-> row] /\ row = req[r].row
      OBVIOUS
    <2>2. row \in ReviewRows /\ Earned(row)
      BY <2>1, RequestType DEF LookForReview, ReviewsInv, AlreadyEarned
    <2>3. m \in RequestStates /\ m.row = row
      BY <2>1, <2>2 DEF RequestStates
    <2>4. req' = [req EXCEPT ![r] = m] /\ UNCHANGED <<appt, review, now, completed>>
      BY <1>2, <2>1 DEF LookForReview, GoTo
    <2> QED
      BY <2>2, <2>3, <2>4, ReadStep
  <1> QED
    BY <1>1, <1>2

\* The index lets no second review of an appointment in
LEMMA InsertKeeps ==
    ASSUME ReviewsInv, NEW r \in Requests, Insert(r)
    PROVE  ReviewsInv'
  <1>1. PICK row : row = req[r].row
    OBVIOUS
  <1>2. row \in ReviewRows /\ Earned(row) /\ Answer(r) /\ UNCHANGED <<appt, now, completed>>
    BY <1>1, RequestType DEF Insert, ReviewsInv, AlreadyEarned
  <1>3. CASE HasReview(row.appointment)
    BY <1>1, <1>2, <1>3, AnswerOnly DEF Insert
  <1>4. CASE ~HasReview(row.appointment)
    <2>1. PICK v \in ReviewIds : review[v] = None /\ review' = [review EXCEPT ![v] = row]
      BY <1>1, <1>4 DEF Insert
    <2>2. review \in [ReviewIds -> ReviewRows \cup {None, Gone}]
      BY DEF ReviewsInv, TypeOK
    <2>3. /\ review' \in [ReviewIds -> ReviewRows \cup {None, Gone}] /\ review'[v] = row
          /\ \A w \in ReviewIds \ {v} : review'[w] = review[w]
      BY <1>2, <2>1, <2>2
    <2>4. \A w \in ReviewIds : Written(w) => review[w].appointment # row.appointment
      BY <1>4 DEF HasReview, Stored
    <2>5. ReviewsAreEarned'
      BY <1>2, <2>3, <2>4 DEF ReviewsInv, ReviewsAreEarned, Written, Earned
    <2> QED
      BY <1>2, <2>3, <2>5, AnswerStep
  <1> QED
    BY <1>3, <1>4

\* An update writes the rating of the row that is left
LEMMA UpdateKeeps ==
    ASSUME ReviewsInv, NEW r \in Requests, Update(r)
    PROVE  ReviewsInv'
  <1>1. PICK v, rating : v = req[r].id /\ rating = req[r].row
    OBVIOUS
  <1>2. /\ v \in ReviewIds /\ rating \in Ratings \cup {None}
        /\ Answer(r) /\ UNCHANGED <<appt, now, completed>>
    BY <1>1, RequestType DEF Update
  <1>3. CASE ~(Written(v) /\ rating # None)
    BY <1>1, <1>2, <1>3, AnswerOnly DEF Update
  <1>4. CASE Written(v) /\ rating # None
    <2>1. review \in [ReviewIds -> ReviewRows \cup {None, Gone}] /\ review[v] \in ReviewRows
      BY <1>2, <1>4 DEF ReviewsInv, TypeOK, Written
    <2>2. PICK row : row = [review[v] EXCEPT !.rating = rating]
      OBVIOUS
    <2>3. /\ row \in ReviewRows /\ row.appointment = review[v].appointment
          /\ row.customer = review[v].customer /\ row.provider = review[v].provider
      BY <1>2, <1>4, <2>1, <2>2 DEF ReviewRows
    <2>4. review' = [review EXCEPT ![v] = row]
      BY <1>1, <1>4, <2>2 DEF Update
    <2>5. /\ review' \in [ReviewIds -> ReviewRows \cup {None, Gone}] /\ review'[v] = row
          /\ \A w \in ReviewIds \ {v} : review'[w] = review[w]
      BY <1>2, <2>1, <2>3, <2>4
    <2>6. ReviewsAreEarned'
      BY <1>2, <1>4, <2>3, <2>5 DEF ReviewsInv, ReviewsAreEarned, Written
    <2> QED
      BY <1>2, <2>5, <2>6, AnswerStep
  <1> QED
    BY <1>3, <1>4

\* A review that is deleted, or was already
LEMMA RemoveKeeps ==
    ASSUME ReviewsInv, NEW r \in Requests, Remove(r)
    PROVE  ReviewsInv'
  <1>1. PICK v : v = req[r].id
    OBVIOUS
  <1>2. /\ v \in ReviewIds /\ Answer(r) /\ UNCHANGED <<appt, now, completed>>
        /\ review' = [review EXCEPT ![v] = Gone]
    BY <1>1, RequestType DEF Remove
  <1>3. /\ review' \in [ReviewIds -> ReviewRows \cup {None, Gone}] /\ review'[v] = Gone
        /\ \A w \in ReviewIds \ {v} : review'[w] = review[w]
    BY <1>2 DEF ReviewsInv, TypeOK
  <1>4. ReviewsAreEarned'
    BY <1>2, <1>3 DEF ReviewsInv, ReviewsAreEarned, Written
  <1> QED
    BY <1>2, <1>3, <1>4, AnswerStep

-----------------------------------------------------------------------------
(* The reviews *)

\* Nobody has booked anything
LEMMA InitReviewsInv == Init => ReviewsInv
  <1> SUFFICES ASSUME Init
               PROVE  ReviewsInv
    OBVIOUS
  <1>1. appt \in Table /\ \A a \in Appts : ~Exists(appt, a)
    BY DEF Init, LedgerInit, Table, Exists
  <1>2. Idle \in RequestStates
    BY DEF RequestStates
  <1>3. TypeOK
    BY <1>1, <1>2 DEF Init, TypeOK
  <1>4. CompletedStay /\ Lasting
    BY <1>1 DEF Init, CompletedStay, Lasting, Having
  <1>5. AlreadyEarned /\ ReviewsAreEarned
    BY DEF Init, AlreadyEarned, ReviewsAreEarned, Written, Idle
  <1> QED
    BY <1>3, <1>4, <1>5 DEF ReviewsInv

\* Every step keeps the invariant
LEMMA StepReviewsInv == ReviewsInv /\ [Next]_vars => ReviewsInv'
  <1> SUFFICES ASSUME ReviewsInv, [Next]_vars
               PROVE  ReviewsInv'
    OBVIOUS
  <1>1. CASE BookOrMove \/ ChangeStatus \/ OverwriteStatus \/ Tick
    BY <1>1, ApptStepsKeep
  <1>2. ASSUME NEW r \in Requests, Receive(r) \/ Advance(r) \/ Fail(r)
        PROVE  ReviewsInv'
    <2>1. CASE Receive(r)
      BY <2>1, ReceiveKeeps
    <2>2. CASE Advance(r)
      BY <2>2, LookForReviewKeeps, InsertKeeps, UpdateKeeps, RemoveKeeps, Zenon DEF Advance
    <2>3. CASE Fail(r)
      BY <2>3, AnswerOnly DEF Fail
    <2> QED
      BY <1>2, <2>1, <2>2, <2>3
  <1>3. CASE UNCHANGED vars
    BY <1>3, ApptStepKeeps DEF vars, ApptStep, ReviewsInv, TypeOK, CompletedStay, Lasting
  <1> QED
    BY <1>1, <1>2, <1>3, Zenon DEF Next

\* The invariant holds in every state of every behaviour
THEOREM ReviewsInvariant == Spec => []ReviewsInv
  <1> QED
    BY InitReviewsInv, StepReviewsInv, PTL DEF Spec

\* The tables and the review requests keep their types: a stored review is whole
THEOREM ReviewTypes == Spec => []TypeOK
  <1>1. ReviewsInv => TypeOK
    BY DEF ReviewsInv
  <1> QED
    BY <1>1, ReviewsInvariant, PTL

\* Every review is of an appointment that has been completed, by its customer
\* and for its provider, and an appointment has at most one, however creations,
\* deletions and late status writes interleave
THEOREM ReviewsStayEarned == Spec => []ReviewsAreEarned
  <1>1. ReviewsInv => ReviewsAreEarned
    BY DEF ReviewsInv
  <1> QED
    BY <1>1, ReviewsInvariant, PTL

-----------------------------------------------------------------------------
(* Days and clock times *)

\* Multiplication keeps the order
LEMMA TimesMonotone ==
    ASSUME NEW i \in Int, NEW j \in Int, i <= j, NEW n \in Nat
    PROVE  i * n <= j * n
  OBVIOUS

\* An instant lies in the day that its offset does not leave
LEMMA DayOfInstant ==
    ASSUME NEW day \in Nat, NEW n \in Nat \ {0}, NEW i \in 0..(n - 1)
    PROVE  (day * n + i) \div n = day /\ (day * n + i) % n = i
  OBVIOUS

\* What is cut off below a minute does not bring a clock time under another
LEMMA CutOff ==
    ASSUME NEW t \in Nat, NEW step \in Nat \ {0}, NEW n \in Nat
    PROVE  /\ (t \div step) * step <= t
           /\ n * step <= t => n * step <= (t \div step) * step
  <1>1. PICK q, rest : q = t \div step /\ rest = t % step
    OBVIOUS
  <1>2. q \in Nat /\ rest \in 0..(step - 1) /\ t = q * step + rest
    BY <1>1
  <1>3. q * step <= t
    BY <1>2
  <1>4. ASSUME n * step <= t
        PROVE  n * step <= q * step
    <2>1. n <= q
      <3> SUFFICES ASSUME q + 1 <= n
                   PROVE  FALSE
        BY <1>2
      <3>1. (q + 1) * step <= n * step
        BY <1>2, TimesMonotone
      <3>2. (q + 1) * step = q * step + step
        BY <1>2
      <3> QED
        BY <1>2, <1>4, <3>1, <3>2
    <2> QED
      BY <1>2, <2>1, TimesMonotone
  <1> QED
    BY <1>1, <1>3, <1>4

-----------------------------------------------------------------------------
(* The calendar *)

\* An interval of a day inside one of the day's open slots passes the check
LEMMA OpenIsWithin ==
    ASSUME NEW p \in Providers, NEW slot \in Slots[p], NEW day \in Nat,
           NEW i \in 0..(DayLength - 1), NEW j \in 0..(DayLength - 1),
           slot.day = UTCDay(ParseUtcDate(day)), slot.start <= i, j <= slot.end
    PROVE  FitsSlot(slot, ParseUtcDate(day) + i, ParseUtcDate(day) + j)
  <1>1. DayLength \in Nat \ {0} /\ ClockStep \in Nat \ {0}
    BY ScheduleAssumption
  <1>2. /\ (day * DayLength + i) \div DayLength = day /\ (day * DayLength + i) % DayLength = i
        /\ (day * DayLength + j) \div DayLength = day /\ (day * DayLength + j) % DayLength = j
    BY <1>1, DayOfInstant
  <1>3. (day * DayLength) \div DayLength = day
    <2>1. 0 \in 0..(DayLength - 1) /\ day * DayLength + 0 = day * DayLength
      BY <1>1
    <2> QED
      BY <1>1, <2>1, DayOfInstant
  <1>4. PICK n \in 0..DayLength, m \in 0..DayLength :
           slot.start = n * ClockStep /\ slot.end = m * ClockStep
    BY ViewsAssumption
  <1>5. n * ClockStep <= (i \div ClockStep) * ClockStep
    <2>1. n * ClockStep <= i /\ n \in Nat /\ i \in Nat
      BY <1>1, <1>4
    <2> QED
      BY <1>1, <2>1, CutOff, Zenon
  <1>6. (j \div ClockStep) * ClockStep <= j
    BY <1>1, CutOff
  <1>7. (j \div ClockStep) * ClockStep \in Nat /\ (i \div ClockStep) * ClockStep \in Nat
        /\ m * ClockStep \in Nat
    BY <1>1
  <1> QED
    BY <1>2, <1>3, <1>4, <1>5, <1>6, <1>7 DEF FitsSlot, UTCDay, ToTimeString, ParseUtcDate

\* The calendar shows every appointment that a booking on the day would meet
LEMMA ConflictsAreShown ==
    ASSUME appt \in Table, NEW p \in Providers, NEW from \in Nat, NEW to \in Nat,
           NEW day \in from..to, NEW i \in 0..(DayLength - 1), NEW j \in 0..(DayLength - 1),
           NEW a \in Conflicts(appt, None, p, ParseUtcDate(day) + i, ParseUtcDate(day) + j)
    PROVE  a \in FindSlotsForRange(appt, p, from, to)[day].booked
  <1>1. DayLength \in Nat \ {0} /\ day \in Nat
    BY ScheduleAssumption
  <1>2. /\ a \in Appts /\ IsActive(appt, a) /\ appt[a].provider = p
        /\ appt[a].start < day * DayLength + j /\ appt[a].end > day * DayLength + i
        /\ appt[a].start \in Nat /\ appt[a].end \in Nat
    BY DEF Conflicts, Overlaps, ParseUtcDate, IsActive, Exists, Table, Rows
  <1>3. /\ from * DayLength <= day * DayLength
        /\ (day + 1) * DayLength <= (to + 1) * DayLength
        /\ (day + 1) * DayLength = day * DayLength + DayLength
        /\ from * DayLength + (to - from + 1) * DayLength = (to + 1) * DayLength
    <2>1. from <= day /\ day + 1 <= to + 1
      BY <1>1
    <2>2. (day + 1) * DayLength = day * DayLength + DayLength
      BY <1>1
    <2>3. from * DayLength + (to - from + 1) * DayLength = (to + 1) * DayLength
      BY <1>1
    <2> QED
      BY <1>1, <2>1, <2>2, <2>3, TimesMonotone
  <1>4. /\ from * DayLength \in Nat /\ day * DayLength \in Nat
        /\ (to + 1) * DayLength \in Nat
    BY <1>1
  <1>5. /\ appt[a].start < (to + 1) * DayLength /\ appt[a].end > from * DayLength
        /\ appt[a].start < day * DayLength + DayLength /\ appt[a].end > day * DayLength
    BY <1>1, <1>2, <1>3, <1>4
  <1>6. ToAfter(ParseUtcDate(from), to - from) = (to + 1) * DayLength
        /\ FromAfter(ParseUtcDate(day), 1) = day * DayLength + DayLength
    BY <1>1, <1>3 DEF ToAfter, FromAfter, ParseUtcDate
  <1> QED
    BY <1>2, <1>5, <1>6 DEF FindSlotsForRange, ParseUtcDate, Overlaps

\* What the calendar shows as free can be booked, whatever the table holds:
\* findSlotsForRange and the checks of a booking agree on every interval
THEOREM FreeStaysBookable == Spec => []FreeIsBookable
  <1>1. ASSUME ReviewsInv
        PROVE  FreeIsBookable
    <2>1. ASSUME NEW p \in Providers, NEW from \in AskedDays, NEW to \in AskedDays,
                 NEW day \in from..to,
                 NEW i \in 0..(DayLength - 1), NEW j \in 0..(DayLength - 1),
                 ShownFree(FindSlotsForRange(appt, p, from, to), day,
                           ParseUtcDate(day) + i, ParseUtcDate(day) + j)
          PROVE  /\ WithinAvailability(Slots[p], ParseUtcDate(day) + i, ParseUtcDate(day) + j)
                 /\ Conflicts(appt, None, p, ParseUtcDate(day) + i, ParseUtcDate(day) + j) = {}
      <3>1. PICK start, end, calendar :
               /\ start = ParseUtcDate(day) + i /\ end = ParseUtcDate(day) + j
               /\ calendar = FindSlotsForRange(appt, p, from, to)
        OBVIOUS
      <3>2. appt \in Table /\ from \in Nat /\ to \in Nat /\ day \in Nat
        BY <1>1, ReviewsAssumption DEF ReviewsInv, TypeOK
      <3>3. ShownFree(calendar, day, start, end)
        BY <2>1, <3>1
      <3>4. PICK slot \in Slots[p] :
               /\ slot.day = UTCDay(ParseUtcDate(day))
               /\ ParseUtcDate(day) + slot.start <= start
               /\ end <= ParseUtcDate(day) + slot.end
        BY <3>1, <3>3 DEF ShownFree, FindSlotsForRange
      <3>5. slot.start <= i /\ j <= slot.end
        <4>1. slot.start \in Int /\ slot.end \in Int
          BY ViewsAssumption, ScheduleAssumption
        <4>2. ParseUtcDate(day) \in Int
          BY <3>2, ScheduleAssumption DEF ParseUtcDate
        <4> QED
          BY <3>1, <3>4, <4>1, <4>2
      <3>6. WithinAvailability(Slots[p], start, end)
        BY <3>1, <3>2, <3>4, <3>5, OpenIsWithin DEF WithinAvailability
      <3>7. ASSUME NEW a \in Conflicts(appt, None, p, start, end)
            PROVE  FALSE
        <4>1. a \in calendar[day].booked
          BY <3>1, <3>2, <3>7, ConflictsAreShown
        <4> QED
          BY <3>3, <3>7, <4>1 DEF ShownFree, Conflicts
      <3> QED
        BY <3>1, <3>6, <3>7
    <2> QED
      BY <2>1 DEF FreeIsBookable, Ranges
  <1> QED
    BY <1>1, ReviewsInvariant, PTL

-----------------------------------------------------------------------------
(* The schedule, the calendar and what is left to review *)

\* A provider's overview counts the active appointments that the schedule of
\* the day holds, and the calendar shows each of them as booked
THEOREM DaysAgree == Spec => [](\A p \in Providers : DayAgrees(p))
  <1>1. ASSUME ReviewsInv, NEW p \in Providers
        PROVE  DayAgrees(p)
    <2>1. PICK today, active :
             /\ today = Day(now)
             /\ active = {a \in ProviderSchedule(appt, p, today) : IsActive(appt, a)}
      OBVIOUS
    <2>2. DayLength \in Nat \ {0} /\ now \in Nat
      BY <1>1, ScheduleAssumption DEF ReviewsInv, TypeOK
    <2>3. today \in Nat /\ today * DayLength \in Nat
      BY <2>1, <2>2 DEF Day
    <2>4. ProviderOverview(appt, Stored, p, now).todayAppointments = Cardinality(active)
      <3>1. active = {a \in {x \in OfProvider(appt, p) : IsActive(appt, x)} :
                         /\ ParseUtcDate(Day(now)) <= appt[a].start
                         /\ appt[a].start < FromAfter(ParseUtcDate(Day(now)), 1)}
        BY <2>1 DEF ProviderSchedule
      <3> QED
        BY <3>1 DEF ProviderOverview
    <2>5. ASSUME NEW a \in active
          PROVE  a \in FindSlotsForRange(appt, p, today, today)[today].booked
      <3>1. /\ a \in Appts /\ IsActive(appt, a) /\ appt[a].provider = p
            /\ today * DayLength <= appt[a].start
            /\ appt[a].start < today * DayLength + 1 * DayLength
        BY <2>1, <2>5 DEF ProviderSchedule, OfProvider, ParseUtcDate, FromAfter
      <3>2. /\ appt[a].start \in Nat /\ appt[a].end \in Nat
            /\ appt[a].start < appt[a].end
        BY <1>1, <3>1 DEF ReviewsInv, TypeOK, Lasting, IsActive, Exists, Table, Rows
      <3>3. appt[a].end > today * DayLength
        BY <2>3, <3>1, <3>2
      <3>4. ToAfter(ParseUtcDate(today), today - today) = today * DayLength + 1 * DayLength
        BY <2>3 DEF ToAfter, FromAfter, ParseUtcDate
      <3>5. today \in today..today
        BY <2>3
      <3> QED
        BY <3>1, <3>3, <3>4, <3>5 DEF FindSlotsForRange, Overlaps, ParseUtcDate, FromAfter
    <2> QED
      BY <2>1, <2>4, <2>5 DEF DayAgrees
  <1>2. ReviewsInv => \A p \in Providers : DayAgrees(p)
    BY <1>1
  <1> QED
    BY <1>2, ReviewsInvariant, PTL

-----------------------------------------------------------------------------
(* The figures of the dashboards *)

\* What SumFunction adds up
LEMMA SumFunctionIs ==
    ASSUME NEW f
    PROVE  SumFunction(f) = SumFunctionOnSet(f, DOMAIN f)
  BY DEF SumFunction

\* What an appointment adds to a revenue
Worth(a) == IF Exists(appt, a) /\ appt[a].price # None THEN appt[a].price ELSE 0

LEMMA WorthType ==
    ASSUME TypeOK, NEW a \in Appts
    PROVE  Worth(a) \in Nat
  BY DEF Worth, TypeOK, Table, Rows, Prices, Exists

\* A revenue is the sum of what the appointments add to it
LEMMA PricesAreWorth ==
    ASSUME TypeOK, NEW rows \in SUBSET Appts, \A a \in rows : Exists(appt, a)
    PROVE  SumPrices(appt, rows) = SumFunctionOnSet([a \in Appts |-> Worth(a)], rows)
  <1>1. PICK f, g : /\ f = [a \in rows |-> IF appt[a].price = None THEN 0 ELSE appt[a].price]
                    /\ g = [a \in Appts |-> Worth(a)]
    OBVIOUS
  <1>2. IsFiniteSet(rows)
    BY FS_Subset, ViewsAssumption
  <1>3. \A a \in rows : f[a] \in Nat /\ f[a] = g[a]
    <2> SUFFICES ASSUME NEW a \in rows
                 PROVE  f[a] \in Nat /\ f[a] = g[a]
      OBVIOUS
    <2>1. f[a] = Worth(a)
      BY <1>1 DEF Worth
    <2>2. g[a] = Worth(a)
      BY <1>1
    <2> QED
      BY <2>1, <2>2, WorthType
  <1>4. SumFunctionOnSet(f, rows) = SumFunctionOnSet(g, rows)
    BY <1>2, <1>3, SumEqual
  <1>5. DOMAIN f = rows
    BY <1>1
  <1>6. SumPrices(appt, rows) = SumFunctionOnSet(f, rows)
    BY <1>1, <1>5 DEF SumPrices, SumFunction
  <1> QED
    BY <1>1, <1>4, <1>6

\* The statuses, and the stored reviews, are finitely many
LEMMA FiniteViews == IsFiniteSet(Statuses) /\ IsFiniteSet(Stored)
  <1>1. IsFiniteSet(Statuses)
    <2>1. Statuses = ({"PENDING"} \cup {"CONFIRMED"}) \cup
                     (({"COMPLETED"} \cup {"CANCELLED"}) \cup {"REJECTED"})
      BY DEF Statuses
    <2>2. /\ IsFiniteSet({"PENDING"} \cup {"CONFIRMED"})
          /\ IsFiniteSet({"COMPLETED"} \cup {"CANCELLED"})
      BY FS_Singleton, FS_Union
    <2>3. IsFiniteSet(({"COMPLETED"} \cup {"CANCELLED"}) \cup {"REJECTED"})
      BY <2>2, FS_Singleton, FS_Union
    <2> QED
      BY <2>1, <2>2, <2>3, FS_Union
  <1>2. IsFiniteSet(Stored)
    <2> DEFINE W == {w \in ReviewIds : Written(w)}
               f == [v \in W |-> review[v]]
    <2>1. IsFiniteSet(W)
      BY FS_Subset, ReviewsAssumption
    <2>2. f \in Surjection(W, Stored)
      BY DEF Surjection, Stored
    <2> QED
      BY <2>1, <2>2, FS_Surjection
  <1> QED
    BY <1>1, <1>2

(***************************************************************************)
(* The admin's totals are the sums over the statuses and over the          *)
(* providers: no appointment and no review is counted twice or left out.   *)
(***************************************************************************)
LEMMA TotalsAlwaysAgree ==
    ASSUME TypeOK
    PROVE  TotalsAgree
  <1>0. /\ IsFiniteSet(Appts) /\ IsFiniteSet(Providers)
        /\ IsFiniteSet(Statuses) /\ IsFiniteSet(Stored)
    BY ViewsAssumption, FiniteViews
  <1>1. \A a \in Appts : Exists(appt, a) => appt[a].status \in Statuses
                                            /\ appt[a].provider \in Providers
    BY DEF TypeOK, Table, Rows, Exists
  <1>2. AdminOverview(appt, Stored).totalAppointments = SumFunction(AdminAppointments(appt))
    <2>1. PICK P : P = [s \in Statuses |-> Having(appt, s)]
      OBVIOUS
    <2>2. Joined(P, Statuses) = {a \in Appts : Exists(appt, a)}
      BY <1>1, <2>1 DEF Joined, Having
    <2>3. /\ \A s \in Statuses : P[s] \subseteq Appts
          /\ \A s, u \in Statuses : s # u => P[s] \cap P[u] = {}
      BY <2>1 DEF Having
    <2>4. Cardinality(Joined(P, Statuses)) =
              SumFunctionOnSet([s \in Statuses |-> Cardinality(P[s])], Statuses)
      BY <1>0, <2>3, SizeOfParts
    <2>5. AdminAppointments(appt) = [s \in Statuses |-> Cardinality(P[s])]
      BY <2>1 DEF AdminAppointments
    <2>6. SumFunction(AdminAppointments(appt)) =
              SumFunctionOnSet([s \in Statuses |-> Cardinality(P[s])], Statuses)
      BY <2>5 DEF SumFunction
    <2>7. AdminOverview(appt, Stored).totalAppointments =
              Cardinality({a \in Appts : Exists(appt, a)})
      BY DEF AdminOverview
    <2> QED
      BY <2>2, <2>4, <2>6, <2>7
  <1>3. AdminAppointments(appt)["COMPLETED"] =
            SumFunction([p \in Providers |->
                            ProviderFigures(appt, Stored, p).completedAppointments])
    <2>1. PICK P : P = [p \in Providers |-> OfProvider(appt, p) \cap Having(appt, "COMPLETED")]
      OBVIOUS
    <2>2. Joined(P, Providers) = Having(appt, "COMPLETED")
      BY <1>1, <2>1 DEF Joined, Having, OfProvider
    <2>3. /\ \A p \in Providers : P[p] \subseteq Appts
          /\ \A p, q \in Providers : p # q => P[p] \cap P[q] = {}
      BY <2>1 DEF OfProvider, Having
    <2>4. Cardinality(Joined(P, Providers)) =
              SumFunctionOnSet([p \in Providers |-> Cardinality(P[p])], Providers)
      BY <1>0, <2>3, SizeOfParts
    <2>5. [p \in Providers |-> ProviderFigures(appt, Stored, p).completedAppointments]
              = [p \in Providers |-> Cardinality(P[p])]
      BY <2>1 DEF ProviderFigures
    <2>6. SumFunction([p \in Providers |->
                          ProviderFigures(appt, Stored, p).completedAppointments])
              = SumFunctionOnSet([p \in Providers |-> Cardinality(P[p])], Providers)
      BY <2>5 DEF SumFunction
    <2>7. AdminAppointments(appt)["COMPLETED"] = Cardinality(Having(appt, "COMPLETED"))
      BY DEF AdminAppointments, Statuses
    <2> QED
      BY <2>2, <2>4, <2>6, <2>7
  <1>4. AdminOverview(appt, Stored).totalReviews =
            SumFunction([p \in Providers |-> ProviderFigures(appt, Stored, p).totalReviews])
    <2>1. PICK P : P = [p \in Providers |-> ReviewsOf(Stored, p)]
      OBVIOUS
    <2>2. \A row \in Stored : row.provider \in Providers
      BY DEF Stored, Written, TypeOK, ReviewRows
    <2>3. Joined(P, Providers) = Stored
      BY <2>1, <2>2 DEF Joined, ReviewsOf
    <2>4. /\ \A p \in Providers : P[p] \subseteq Stored
          /\ \A p, q \in Providers : p # q => P[p] \cap P[q] = {}
      BY <2>1 DEF ReviewsOf
    <2>5. Cardinality(Joined(P, Providers)) =
              SumFunctionOnSet([p \in Providers |-> Cardinality(P[p])], Providers)
      BY <1>0, <2>4, SizeOfParts
    <2>6. [p \in Providers |-> ProviderFigures(appt, Stored, p).totalReviews]
              = [p \in Providers |-> Cardinality(P[p])]
      BY <2>1 DEF ProviderFigures
    <2>7. SumFunction([p \in Providers |-> ProviderFigures(appt, Stored, p).totalReviews])
              = SumFunctionOnSet([p \in Providers |-> Cardinality(P[p])], Providers)
      BY <2>6 DEF SumFunction
    <2>8. AdminOverview(appt, Stored).totalReviews = Cardinality(Stored)
      BY DEF AdminOverview
    <2> QED
      BY <2>3, <2>5, <2>7, <2>8
  <1>5. ASSUME NEW p \in Providers
        PROVE  ProviderOverview(appt, Stored, p, now).completedThisMonth
                   <= ProviderFigures(appt, Stored, p).completedAppointments
    <2>1. PICK completedOnes, thisMonth :
             /\ completedOnes = OfProvider(appt, p) \cap Having(appt, "COMPLETED")
             /\ thisMonth = {a \in OfProvider(appt, p) \cap Having(appt, "COMPLETED") :
                                appt[a].start >= StartOfMonth(now)}
      OBVIOUS
    <2>2. thisMonth \in SUBSET completedOnes /\ completedOnes \in SUBSET Appts
      BY <2>1 DEF OfProvider
    <2>3. Cardinality(thisMonth) <= Cardinality(completedOnes)
      BY <1>0, <2>2, FS_Subset
    <2>4. /\ ProviderOverview(appt, Stored, p, now).completedThisMonth = Cardinality(thisMonth)
          /\ ProviderFigures(appt, Stored, p).completedAppointments = Cardinality(completedOnes)
      BY <2>1 DEF ProviderOverview, ProviderFigures
    <2> QED
      BY <2>3, <2>4
  <1> QED
    BY <1>2, <1>3, <1>4, <1>5, Zenon DEF TotalsAgree

(***************************************************************************)
(* The completed appointments are those of which a customer is asked for a *)
(* review and those that have one, which are no more than the reviews.     *)
(***************************************************************************)
LEMMA ReviewsAlwaysAgree ==
    ASSUME TypeOK
    PROVE  ReviewsAgree
  <1>0. /\ IsFiniteSet(Appts) /\ IsFiniteSet(Customers) /\ IsFiniteSet(Stored)
        /\ \A a \in Appts : Exists(appt, a) => appt[a].customer \in Customers
    BY ViewsAssumption, FiniteViews DEF TypeOK, Table, Rows, Exists
  <1>1. PICK P : P = [c \in Customers |->
                        {a \in OfCustomer(appt, c) \cap Having(appt, "COMPLETED") :
                            \A v \in Stored : v.appointment # a}]
    OBVIOUS
  <1>2. PICK asked, reviewed, done :
           /\ asked = Joined(P, Customers)
           /\ done = Having(appt, "COMPLETED")
           /\ reviewed = {a \in done : \E v \in Stored : v.appointment = a}
    OBVIOUS
  <1>3. asked \cup reviewed = done /\ asked \cap reviewed = {} /\ done \subseteq Appts
    BY <1>0, <1>1, <1>2 DEF Joined, OfCustomer, Having
  <1>4. Cardinality(asked) = SumFunctionOnSet([c \in Customers |-> Cardinality(P[c])], Customers)
    <2>1. /\ \A c \in Customers : P[c] \subseteq Appts
          /\ \A c, d \in Customers : c # d => P[c] \cap P[d] = {}
      BY <1>1 DEF OfCustomer
    <2> QED
      BY <1>0, <1>2, <2>1, SizeOfParts
  <1>5. IsFiniteSet(asked) /\ IsFiniteSet(reviewed)
    BY <1>0, <1>3, FS_Subset
  <1>6. Cardinality(reviewed) <= Cardinality(Stored)
    <2> DEFINE source == {v \in Stored : v.appointment \in done}
               f == [v \in source |-> v.appointment]
    <2>1. f \in Surjection(source, reviewed)
      BY <1>2 DEF Surjection
    <2>2. IsFiniteSet(source) /\ Cardinality(source) <= Cardinality(Stored)
      BY <1>0, FS_Subset
    <2>3. Cardinality(reviewed) <= Cardinality(source)
      BY <2>1, <2>2, FS_Surjection
    <2>4. /\ Cardinality(reviewed) \in Nat /\ Cardinality(source) \in Nat
          /\ Cardinality(Stored) \in Nat
      BY <1>0, <1>5, <2>2, FS_CardinalityType
    <2> QED
      BY <2>2, <2>3, <2>4
  <1>7. Cardinality(done) = Cardinality(asked) + Cardinality(reviewed)
    <2>1. Cardinality(asked \cap reviewed) = 0
      BY <1>3, FS_EmptySet
    <2>2. Cardinality(asked) \in Nat /\ Cardinality(reviewed) \in Nat
      BY <1>5, FS_CardinalityType
    <2>3. Cardinality(asked \cup reviewed) =
              Cardinality(asked) + Cardinality(reviewed) - Cardinality(asked \cap reviewed)
      BY <1>5, FS_Union
    <2> QED
      BY <1>3, <2>1, <2>2, <2>3
  <1>8. PICK pending : pending = [c \in Customers |->
                                    CustomerOverview(appt, Stored, c, now).pendingReviews]
    OBVIOUS
  <1>9. SumFunction(pending) = Cardinality(asked)
    <2>1. \A c \in Customers :
             CustomerOverview(appt, Stored, c, now).pendingReviews = Cardinality(P[c])
      BY <1>1 DEF CustomerOverview
    <2>2. pending = [c \in Customers |-> Cardinality(P[c])]
      BY <1>8, <2>1
    <2> QED
      BY <1>4, <2>2 DEF SumFunction
  <1>10. /\ AdminAppointments(appt)["COMPLETED"] = Cardinality(done)
         /\ AdminOverview(appt, Stored).totalReviews = Cardinality(Stored)
    BY <1>2 DEF AdminAppointments, AdminOverview, Statuses
  <1>11. /\ Cardinality(asked) \in Nat /\ Cardinality(reviewed) \in Nat
         /\ Cardinality(Stored) \in Nat
    BY <1>0, <1>5, FS_CardinalityType
  <1>12. /\ Cardinality(asked) <= Cardinality(done)
         /\ Cardinality(done) <= Cardinality(asked) + Cardinality(Stored)
    BY <1>6, <1>7, <1>11
  <1> QED
    BY <1>8, <1>9, <1>10, <1>12, Zenon DEF ReviewsAgree

\* A day's instants are those between its midnight and the next, also before
\* the day of tick 0
LEMMA DaySpan ==
    ASSUME NEW t \in Nat, NEW day \in Int
    PROVE  /\ Day(t) \in Int
           /\ Day(t) = day <=> /\ ParseUtcDate(day) <= t
                               /\ t < FromAfter(ParseUtcDate(day), 1)
  <1>1. PICK n \in Nat \ {0} : n = DayLength
    BY ScheduleAssumption
  <1>2. PICK q, rest : q = t \div n /\ rest = t % n
    OBVIOUS
  <1>3. q \in Int /\ rest \in 0..(n - 1) /\ t = q * n + rest
    BY <1>1, <1>2
  <1>4. q * n <= t /\ t < q * n + n
    BY <1>1, <1>3
  <1>5. ASSUME day * n <= t, t < day * n + n
        PROVE  q = day
    <2>1. CASE q + 1 <= day
      <3>1. (q + 1) * n <= day * n /\ (q + 1) * n = q * n + n
        BY <1>1, <1>3, <2>1, TimesMonotone
      <3> QED
        BY <1>1, <1>3, <1>4, <1>5, <3>1
    <2>2. CASE day + 1 <= q
      <3>1. (day + 1) * n <= q * n /\ (day + 1) * n = day * n + n
        BY <1>1, <1>3, <2>2, TimesMonotone
      <3> QED
        BY <1>1, <1>3, <1>4, <1>5, <3>1
    <2> QED
      BY <1>3, <2>1, <2>2
  <1>6. Day(t) = q
    BY <1>1, <1>2 DEF Day
  <1>7. ParseUtcDate(day) = day * n /\ FromAfter(ParseUtcDate(day), 1) = day * n + n
    BY <1>1 DEF ParseUtcDate, FromAfter
  <1> QED
    BY <1>3, <1>4, <1>5, <1>6, <1>7

\* The window of the trends is never empty
LEMMA WindowType ==
    ASSUME NEW days \in {None} \cup -1..(MaxDays + 1)
    PROVE  ValidateDays(days) \in 1..MaxDays
  <1>1. PICK asked \in Int : ValidateDays(days) = IF asked < 1 THEN 1
                                                  ELSE IF asked > MaxDays THEN MaxDays ELSE asked
    <2>1. CASE days \in {None, 0}
      BY <2>1, ViewsAssumption DEF ValidateDays
    <2>2. CASE days \notin {None, 0}
      <3>1. days \in Int
        BY <2>2, ViewsAssumption
      <3> QED
        BY <2>2, <3>1 DEF ValidateDays
    <2> QED
      BY <2>1, <2>2
  <1>2. MaxDays \in Nat /\ 1 <= MaxDays
    BY ViewsAssumption
  <1> QED
    BY <1>1, <1>2

(***************************************************************************)
(* For every window asked for, the trends end today, each day holds the    *)
(* bookings of its schedules, and the revenue of all days is at most what  *)
(* was earned: no booking counts on two days.                              *)
(***************************************************************************)
LEMMA TrendsAlwaysAgree ==
    ASSUME TypeOK, NEW days \in {None} \cup -1..(MaxDays + 1)
    PROVE  TrendsAgree(days)
  <1> DEFINE trends == AdminTrends(appt, now, days)
             OnDay(day) == {a \in Appts : Exists(appt, a) /\ Day(appt[a].start) = day}
  <1>0. IsFiniteSet(Appts) /\ DayLength \in Nat \ {0} /\ now \in Nat
    BY ViewsAssumption, ScheduleAssumption DEF TypeOK
  <1>1. PICK today, first : today = Day(now) /\ first = FirstTrendDay(now, ValidateDays(days))
    OBVIOUS
  <1>2. PICK clamped \in 1..MaxDays : clamped = ValidateDays(days)
    BY WindowType
  <1>3. today \in Nat
    BY <1>0, <1>1 DEF Day
  <1>4. first \in Int /\ first <= today /\ first + clamped - 1 = today
    BY <1>1, <1>2, <1>3, ViewsAssumption DEF FirstTrendDay
  <1>5. \A a \in Appts : Exists(appt, a) =>
           /\ appt[a].start \in Nat /\ appt[a].provider \in Providers
           /\ appt[a].price \in Prices
    BY DEF TypeOK, Table, Rows, Exists
  <1>6. ASSUME NEW day \in first..today
        PROVE  {a \in {x \in Appts : /\ Exists(appt, x)
                                     /\ appt[x].start >= ParseUtcDate(first)} :
                   Day(appt[a].start) = day} = OnDay(day)
    <2> SUFFICES ASSUME NEW a \in OnDay(day)
                 PROVE  appt[a].start >= ParseUtcDate(first)
      OBVIOUS
    <2>1. ParseUtcDate(day) <= appt[a].start /\ appt[a].start \in Nat
      BY <1>5, DaySpan
    <2>2. ParseUtcDate(first) <= ParseUtcDate(day)
      BY <1>0, <1>4, TimesMonotone DEF ParseUtcDate
    <2>3. ParseUtcDate(first) \in Int /\ ParseUtcDate(day) \in Int
      BY <1>0, <1>4 DEF ParseUtcDate
    <2> QED
      BY <2>1, <2>2, <2>3
  <1>7. trends = [day \in first..today |->
                    [bookings |-> Cardinality(OnDay(day)),
                     revenue  |-> SumPrices(appt, OnDay(day) \cap Having(appt, "COMPLETED"))]]
    <2>1. trends = [day \in first..(first + clamped - 1) |->
              [bookings |-> Cardinality({a \in {x \in Appts :
                                /\ Exists(appt, x)
                                /\ appt[x].start >= ParseUtcDate(first)} :
                                    Day(appt[a].start) = day}),
               revenue  |-> SumPrices(appt,
                   {a \in {x \in Appts : /\ Exists(appt, x)
                                         /\ appt[x].start >= ParseUtcDate(first)} :
                        Day(appt[a].start) = day} \cap Having(appt, "COMPLETED"))]]
      BY <1>1, <1>2 DEF AdminTrends
    <2> HIDE DEF trends, OnDay
    <2> QED
      BY <1>4, <1>6, <2>1
  <1>8. DOMAIN trends = first..today
    BY <1>7
  <1> HIDE DEF trends
  <1>9. Max(DOMAIN trends) = Day(now)
    <2>1. today \in first..today /\ \A x \in first..today : today >= x
      BY <1>3, <1>4
    <2>2. \A x \in first..today : (\A y \in first..today : x >= y) => x = today
      BY <1>3, <1>4
    <2>3. Max(first..today) = today
      BY <2>1, <2>2 DEF Max
    <2> QED
      BY <1>1, <1>8, <2>3
  <1>10. ASSUME NEW day \in DOMAIN trends
         PROVE  trends[day].bookings =
                    Cardinality(UNION {ProviderSchedule(appt, p, day) : p \in Providers})
    <2>1. day \in Int /\ day \in first..today
      BY <1>4, <1>8
    <2>2. \A p \in Providers : ProviderSchedule(appt, p, day) =
             {a \in OfProvider(appt, p) : Day(appt[a].start) = day}
      <3> SUFFICES ASSUME NEW p \in Providers, NEW a \in OfProvider(appt, p)
                   PROVE  Day(appt[a].start) = day <=>
                              /\ ParseUtcDate(day) <= appt[a].start
                              /\ appt[a].start < FromAfter(ParseUtcDate(day), 1)
        BY DEF ProviderSchedule
      <3>1. appt[a].start \in Nat
        BY <1>5 DEF OfProvider
      <3> QED
        BY <2>1, <3>1, DaySpan
    <2>3. UNION {ProviderSchedule(appt, p, day) : p \in Providers} = OnDay(day)
      BY <1>5, <2>2 DEF OfProvider
    <2>4. trends[day].bookings = Cardinality(OnDay(day))
      <3> HIDE DEF OnDay
      <3> QED
        BY <1>7, <2>1
    <2> QED
      BY <2>3, <2>4
  <1>11. SumFunction([day \in DOMAIN trends |-> trends[day].revenue])
             <= AdminOverview(appt, Stored).revenue
    <2>1. PICK worth : worth = [a \in Appts |-> Worth(a)]
      OBVIOUS
    <2>2. \A a \in Appts : worth[a] \in Nat
      BY <2>1, WorthType
    <2>3. PICK earned : earned = Having(appt, "COMPLETED")
      OBVIOUS
    <2>4. PICK P : P = [day \in first..today |-> OnDay(day) \cap earned]
      OBVIOUS
    <2>5. /\ \A day \in first..today : P[day] \subseteq Appts /\ P[day] \subseteq earned
          /\ \A day, other \in first..today : day # other => P[day] \cap P[other] = {}
      BY <2>4
    <2>6. /\ earned \in SUBSET Appts /\ Joined(P, first..today) \in SUBSET earned
          /\ \A a \in earned : Exists(appt, a)
      BY <2>3, <2>5 DEF Joined, Having
    <2>7. IsFiniteSet(first..today) /\ IsFiniteSet(earned)
      BY <1>0, <1>3, <1>4, <2>6, FS_Interval, FS_Subset
    <2>8. SumFunctionOnSet(worth, Joined(P, first..today)) =
              SumFunctionOnSet([day \in first..today |-> SumFunctionOnSet(worth, P[day])],
                               first..today)
      <3>1. PICK K : K = first..today
        OBVIOUS
      <3>2. \A day \in K : P[day] \subseteq Appts
        BY <2>5, <3>1
      <3>3. \A day, other \in K : day # other => P[day] \cap P[other] = {}
        BY <2>5, <3>1
      <3>4. IsFiniteSet(K)
        BY <2>7, <3>1
      <3>5. SumFunctionOnSet(worth, Joined(P, K)) =
                SumFunctionOnSet([day \in K |-> SumFunctionOnSet(worth, P[day])], K)
        BY <1>0, <2>2, <3>2, <3>3, <3>4, SumOfParts
      <3> QED
        BY <3>1, <3>5
    <2>9. SumFunctionOnSet(worth, Joined(P, first..today)) <= SumFunctionOnSet(worth, earned)
      BY <2>2, <2>6, <2>7, SumOfPart
    <2>10. AdminOverview(appt, Stored).revenue = SumFunctionOnSet(worth, earned)
      BY <2>1, <2>3, <2>6, PricesAreWorth DEF AdminOverview
    <2>11. ASSUME NEW day \in first..today
           PROVE  trends[day].revenue = SumFunctionOnSet(worth, P[day])
      <3>1. trends[day].revenue = SumPrices(appt, P[day])
        <4> HIDE DEF OnDay
        <4> QED
          BY <1>7, <2>3, <2>4
      <3>2. P[day] \in SUBSET Appts /\ \A a \in P[day] : Exists(appt, a)
        BY <2>5, <2>6
      <3> QED
        BY <2>1, <3>1, <3>2, PricesAreWorth
    <2>12. PICK f : f = [day \in first..today |-> SumFunctionOnSet(worth, P[day])]
      OBVIOUS
    <2>13. [day \in DOMAIN trends |-> trends[day].revenue] = f /\ DOMAIN f = first..today
      BY <1>8, <2>11, <2>12
    <2>14. SumFunction(f) = SumFunctionOnSet(f, first..today)
      BY <2>13 DEF SumFunction
    <2> QED
      BY <2>8, <2>9, <2>10, <2>12, <2>13, <2>14
  <1> QED
    BY <1>9, <1>10, <1>11 DEF TrendsAgree, trends

(***************************************************************************)
(* The views of the admin, the providers and the customers agree in every  *)
(* state that bookings, reviews and the clock can reach.                   *)
(***************************************************************************)
THEOREM ViewsAlwaysAgree == Spec => []ViewsAgree
  <1>1. ReviewsInv => /\ TotalsAgree /\ ReviewsAgree
                      /\ \A days \in {None} \cup -1..(MaxDays + 1) : TrendsAgree(days)
    BY TotalsAlwaysAgree, ReviewsAlwaysAgree, TrendsAlwaysAgree DEF ReviewsInv
  <1> QED
    BY <1>1, ReviewsInvariant, DaysAgree, PTL DEF ViewsAgree
=============================================================================

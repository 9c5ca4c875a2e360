------------------------------ MODULE Reminders ------------------------------
(***************************************************************************)
(* Appointment reminders: the requests that set and delete them, and the   *)
(* hourly job that every replica starts and that the Redis lock            *)
(* `cron:appointment-reminders` is to keep to one run at a time.  A run    *)
(* queries what is due, then notifies and stamps one reminder after the    *)
(* other.  Booking, moving and ending an appointment are single steps      *)
(* here: Appointments is the module that takes them apart.                 *)
(***************************************************************************)
EXTENDS Integers, FiniteSets

CONSTANTS
    Appts,      \* appointment ids
    Singles,    \* ids of individual reminders
    Runs,       \* runs of the hourly job that can be in flight at once
    Lead,       \* REMINDER_LEAD_HOURS
    Horizon,    \* bound: the clock stops here
    MaxSends,   \* bound: messages are counted up to here
    None,
    Orphan      \* the token of a run that is over, still in the lock key

VARIABLES
    appt,       \* the reminder columns of table appointments
    single,     \* table appointment_reminders
    deleting,   \* deleteReminder requests between their find and their delete
    now,        \* the clock
    redis,      \* whether the lock client is ready
    lock,       \* the run whose token the lock key holds, Orphan or None
    run,        \* the state of each run
    holding,    \* history: runs at work that took the lock and whose TTL has not passed
    lapsed,     \* history: a run worked without the lock, or broke off before a stamp
    sends,      \* history: how often a message of each reminder went out
    tried       \* history: reminders that were handed to the notifications

vars == <<appt, single, deleting, now, redis, lock, run, holding, lapsed, sends, tried>>

Times == 0..Horizon

Rows == [active : BOOLEAN, start : Times, reminderAt : Times \cup {None}, sent : BOOLEAN]
SingleRows == [appt : Appts, reminderAt : Times, sent : BOOLEAN]

ASSUME RemindersAssumption ==
    /\ Lead \in Nat
    /\ Horizon \in Nat
    /\ MaxSends \in Nat
    /\ None \notin Runs \cup Appts \cup Singles \cup Nat \cup Rows \cup SingleRows
    /\ Orphan \notin Runs \cup {None}
    /\ Appts \cap Singles = {}

\* A run between two ticks of the job: nothing read, nothing to stamp
Waiting == [step |-> "waiting", shared |-> {}, singles |-> {}, stamp |-> None]

Init ==
    /\ appt = [a \in Appts |-> None]
    /\ single = [i \in Singles |-> None]
    /\ deleting = {}
    /\ now = 0
    /\ redis = TRUE
    /\ lock = None
    /\ run = [c \in Runs |-> Waiting]
    /\ holding = {}
    /\ lapsed = FALSE
    /\ sends = [x \in Appts \cup Singles |-> 0]
    /\ tried = {}

Exists(a) == appt[a] # None
IsActive(a) == Exists(a) /\ appt[a].active

jobVars == <<redis, lock, run, holding, lapsed, sends, tried>>

-----------------------------------------------------------------------------
(* Appointments and their reminders, on the request path *)

Create(a, start) ==
    /\ ~Exists(a)
    /\ start > now
    /\ appt' = [appt EXCEPT ![a] = [active |-> TRUE, start |-> start,
                                    reminderAt |-> None, sent |-> FALSE]]
    /\ UNCHANGED <<single, deleting, now, jobVars>>

\* Neither reminderAt nor reminderSentAt follows the appointment
Reschedule(a, start) ==
    /\ IsActive(a)
    /\ start > now
    /\ appt' = [appt EXCEPT ![a].start = start]
    /\ UNCHANGED <<single, deleting, now, jobVars>>

\* Cancelled, rejected or completed
End(a) ==
    /\ IsActive(a)
    /\ appt' = [appt EXCEPT ![a].active = FALSE]
    /\ UNCHANGED <<single, deleting, now, jobVars>>

ReminderWindow(reminderAt, start) == now < reminderAt /\ reminderAt < start

\* reminderSentAt is left alone, and the status is not looked at
SetSharedReminder(a, reminderAt) ==
    /\ Exists(a)
    /\ ReminderWindow(reminderAt, appt[a].start)
    /\ appt' = [appt EXCEPT ![a].reminderAt = reminderAt]
    /\ UNCHANGED <<single, deleting, now, jobVars>>

CreateIndividualReminder(i, a, reminderAt) ==
    /\ single[i] = None
    /\ i \notin deleting
    /\ Exists(a)
    /\ ReminderWindow(reminderAt, appt[a].start)
    /\ \A c \in Runs : i \notin run[c].singles /\ run[c].stamp # i    \* ids are not reused
    /\ single' = [single EXCEPT ![i] = [appt |-> a, reminderAt |-> reminderAt, sent |-> FALSE]]
    /\ sends' = [sends EXCEPT ![i] = 0]
    /\ tried' = tried \ {i}
    /\ UNCHANGED <<appt, deleting, now, redis, lock, run, holding, lapsed>>

DeleteReminderFind(i) ==
    /\ single[i] # None
    /\ ~single[i].sent
    /\ deleting' = deleting \cup {i}
    /\ UNCHANGED <<appt, single, now, jobVars>>

\* The job may have stamped it since: the delete goes by id alone
DeleteReminder(i) ==
    /\ i \in deleting
    /\ single' = [single EXCEPT ![i] = None]
    /\ deleting' = deleting \ {i}
    /\ UNCHANGED <<appt, now, jobVars>>

Tick ==
    /\ now < Horizon
    /\ now' = now + 1
    /\ UNCHANGED <<appt, single, deleting, jobVars>>

-----------------------------------------------------------------------------
(* The hourly job *)

\* Mutant: SET without NX overwrites the token of the run at work
AcquireWithoutNX(c) ==
    /\ run[c] = Waiting
    /\ run' = [run EXCEPT ![c].step = "query"]
    /\ lock' = IF redis THEN c ELSE lock
    /\ holding' = IF redis THEN {c} ELSE holding
    /\ lapsed' = (lapsed \/ ~redis)
    /\ UNCHANGED <<appt, single, deleting, now, redis, sends, tried>>

\* SET key token NX PX; without a ready client the job proceeds
Acquire(c) ==
    /\ run[c] = Waiting
    /\ IF redis
       THEN IF lock = None
            THEN /\ lock' = c
                 /\ holding' = holding \cup {c}
                 /\ run' = [run EXCEPT ![c].step = "query"]
                 /\ UNCHANGED lapsed
            ELSE UNCHANGED <<lock, holding, run, lapsed>>       \* skipped until the next hour
       ELSE /\ run' = [run EXCEPT ![c].step = "query"]
            /\ lapsed' = TRUE
            /\ UNCHANGED <<lock, holding>>
    /\ UNCHANGED <<appt, single, deleting, now, redis, sends, tried>>

Pending(a) == IsActive(a) /\ ~appt[a].sent

\* What the three queries return
SharedDue == {a \in Appts : Pending(a) /\ appt[a].reminderAt # None
                            /\ appt[a].reminderAt <= now}
LegacyDue == {a \in Appts : Pending(a) /\ appt[a].reminderAt = None
                            /\ now < appt[a].start /\ appt[a].start < now + Lead}
SinglesDue == {i \in Singles : /\ single[i] # None /\ ~single[i].sent
                               /\ single[i].reminderAt <= now /\ IsActive(single[i].appt)}

\* Mutant: the run claims what it is about to send by stamping it up front
QueryAndStamp(c) ==
    /\ run[c].step = "query"
    /\ run' = [run EXCEPT ![c] = [step    |-> "notify",
                                  shared  |-> SharedDue \cup LegacyDue,
                                  singles |-> SinglesDue,
                                  stamp   |-> None]]
    /\ appt' = [a \in Appts |-> IF a \in SharedDue \cup LegacyDue
                                THEN [appt[a] EXCEPT !.sent = TRUE] ELSE appt[a]]
    /\ UNCHANGED <<single, deleting, now, redis, lock, holding, lapsed, sends, tried>>

Query(c) ==
    /\ run[c].step = "query"
    /\ run' = [run EXCEPT ![c] = [step    |-> "notify",
                                  shared  |-> SharedDue \cup LegacyDue,
                                  singles |-> SinglesDue,
                                  stamp   |-> None]]
    /\ UNCHANGED <<appt, single, deleting, now, redis, lock, holding, lapsed, sends, tried>>

\* notifyAppointmentEvent returns whether a message went out or not: without
\* preferences or a mail key nothing is sent, and a failure is only logged
Deliver(x) ==
    /\ tried' = tried \cup {x}
    /\ \/ sends' = [sends EXCEPT ![x] = IF @ < MaxSends THEN @ + 1 ELSE @]
       \/ UNCHANGED sends

\* The status was checked by the query only
NotifyShared(c, a) ==
    /\ run[c].step = "notify"
    /\ a \in run[c].shared
    /\ run' = [run EXCEPT ![c].step = "stamp", ![c].stamp = a]
    /\ Deliver(a)
    /\ UNCHANGED <<appt, single, deleting, now, redis, lock, holding, lapsed>>

StampShared(c) ==
    /\ run[c].step = "stamp"
    /\ run[c].stamp \in Appts
    /\ appt' = [appt EXCEPT ![run[c].stamp].sent = TRUE]
    /\ run' = [run EXCEPT ![c].step = "notify", ![c].stamp = None,
                          ![c].shared = @ \ {run[c].stamp}]
    /\ UNCHANGED <<single, deleting, now, redis, lock, holding, lapsed, sends, tried>>

\* Individual reminders come after the shared ones
NotifySingle(c, i) ==
    /\ run[c].step = "notify"
    /\ run[c].shared = {}
    /\ i \in run[c].singles
    /\ run' = [run EXCEPT ![c].step = "stamp", ![c].stamp = i]
    /\ Deliver(i)
    /\ UNCHANGED <<appt, single, deleting, now, redis, lock, holding, lapsed>>

\* Mutant: release deletes the key whosever token it holds
FinishWithoutToken(c) ==
    /\ run' = [run EXCEPT ![c] = Waiting]
    /\ lock' = IF redis THEN None ELSE IF lock = c THEN Orphan ELSE lock
    /\ holding' = holding \ {c}

\* `finally` releases the lock if the client is ready and the key still holds
\* this run's token; otherwise the key is left to expire
Finish(c) ==
    /\ run' = [run EXCEPT ![c] = Waiting]
    /\ lock' = IF lock # c THEN lock ELSE IF redis THEN None ELSE Orphan
    /\ holding' = holding \ {c}

\* Mutant: an upsert brings the deleted row back, without its appointment
StampSingleUpsert(c) ==
    LET i == run[c].stamp
    IN  /\ run[c].step = "stamp"
        /\ i \in Singles
        /\ single' = [single EXCEPT ![i] =
                         IF @ = None THEN [appt |-> None, reminderAt |-> now, sent |-> TRUE]
                         ELSE [@ EXCEPT !.sent = TRUE]]
        /\ run' = [run EXCEPT ![c].step = "notify", ![c].stamp = None,
                              ![c].singles = @ \ {i}]
        /\ UNCHANGED <<appt, deleting, now, redis, lock, holding, lapsed, sends, tried>>

\* Mutant: a reminder that was deleted in the meantime is tried again and again
StampSingleRetries(c) ==
    LET i == run[c].stamp
    IN  /\ run[c].step = "stamp"
        /\ i \in Singles
        /\ single[i] # None
        /\ single' = [single EXCEPT ![i].sent = TRUE]
        /\ run' = [run EXCEPT ![c].step = "notify", ![c].stamp = None,
                              ![c].singles = @ \ {i}]
        /\ UNCHANGED <<appt, deleting, now, redis, lock, holding, lapsed, sends, tried>>

\* Updating a reminder that was deleted in the meantime throws and ends the run
StampSingle(c) ==
    LET i == run[c].stamp
    IN  /\ run[c].step = "stamp"
        /\ i \in Singles
        /\ IF single[i] = None
           THEN Finish(c) /\ UNCHANGED single
           ELSE /\ single' = [single EXCEPT ![i].sent = TRUE]
                /\ run' = [run EXCEPT ![c].step = "notify", ![c].stamp = None,
                                      ![c].singles = @ \ {i}]
                /\ UNCHANGED <<lock, holding>>
        /\ UNCHANGED <<appt, deleting, now, redis, lapsed, sends, tried>>

Done(c) ==
    /\ run[c].step = "notify"
    /\ run[c].shared = {} /\ run[c].singles = {}
    /\ Finish(c)
    /\ UNCHANGED <<appt, single, deleting, now, redis, lapsed, sends, tried>>

\* A database error in a query, a notification or a stamp
Throw(c) ==
    /\ run[c].step \in {"query", "notify", "stamp"}
    /\ Finish(c)
    /\ lapsed' = (lapsed \/ run[c].step = "stamp")
    /\ UNCHANGED <<appt, single, deleting, now, redis, sends, tried>>

\* The replica dies: nobody releases the lock
Crash(c) ==
    /\ run[c] # Waiting
    /\ run' = [run EXCEPT ![c] = Waiting]
    /\ lock' = IF lock = c THEN Orphan ELSE lock
    /\ holding' = holding \ {c}
    /\ lapsed' = (lapsed \/ run[c].step = "stamp")
    /\ UNCHANGED <<appt, single, deleting, now, redis, sends, tried>>

\* PX: the key expires, whether or not its run is still at work
Expire ==
    /\ lock # None
    /\ lock' = None
    /\ holding' = holding \ {lock}
    /\ lapsed' = (lapsed \/ lock \in Runs)
    /\ UNCHANGED <<appt, single, deleting, now, redis, run, sends, tried>>

RedisChanges ==
    /\ redis' = ~redis
    /\ UNCHANGED <<appt, single, deleting, now, lock, run, holding, lapsed, sends, tried>>

-----------------------------------------------------------------------------
Request ==
    \/ \E a \in Appts, t \in Times :
          Create(a, t) \/ Reschedule(a, t) \/ SetSharedReminder(a, t)
    \/ \E a \in Appts : End(a)
    \/ \E i \in Singles, a \in Appts, t \in Times : CreateIndividualReminder(i, a, t)
    \/ \E i \in Singles : DeleteReminderFind(i) \/ DeleteReminder(i)

Work(c) ==
    \/ Query(c)
    \/ \E a \in Appts : NotifyShared(c, a)
    \/ StampShared(c)
    \/ \E i \in Singles : NotifySingle(c, i)
    \/ StampSingle(c)
    \/ Done(c)

Next ==
    \/ Request
    \/ Tick
    \/ \E c \in Runs : Acquire(c) \/ Work(c) \/ Throw(c) \/ Crash(c)
    \/ Expire
    \/ RedisChanges

Spec == Init /\ [][Next]_vars

\* The job is started every hour, the key's TTL ends a lock that was left
\* behind, and a run goes on unless an error or the end of its replica stops
\* it; strong fairness: that does not happen at the same step for ever
Fairness ==
    /\ WF_vars(Expire)
    /\ \A c \in Runs :
          /\ SF_vars(Acquire(c))
          /\ SF_vars(Query(c))
          /\ \A a \in Appts : SF_vars(NotifyShared(c, a))
          /\ SF_vars(StampShared(c))
          /\ \A i \in Singles : SF_vars(NotifySingle(c, i))
          /\ SF_vars(StampSingle(c))
          /\ WF_vars(Done(c))

FairSpec == Spec /\ Fairness

-----------------------------------------------------------------------------
(* Properties *)

RunStates == [step    : {"waiting", "query", "notify", "stamp"},
              shared  : SUBSET Appts,
              singles : SUBSET Singles,
              stamp   : {None} \cup Appts \cup Singles]

\* The variables keep their types (Appointment and AppointmentReminder of the
\* schema, the key of the distributed lock, the locals of sendDueReminders)
TypeOK ==
    /\ appt \in [Appts -> Rows \cup {None}]
    /\ single \in [Singles -> SingleRows \cup {None}]
    /\ deleting \subseteq Singles
    /\ now \in Times
    /\ redis \in BOOLEAN
    /\ lock \in Runs \cup {None, Orphan}
    /\ run \in [Runs -> RunStates]
    /\ holding \subseteq Runs
    /\ lapsed \in BOOLEAN
    /\ sends \in [Appts \cup Singles -> 0..MaxSends]
    /\ tried \subseteq Appts \cup Singles

\* At most one run holds a lock that Redis granted and that has not expired,
\* whichever run releases, loses or outlives its lock in between
OneHolder == \A c, d \in holding : c = d

\* A reminder goes out twice only if some run worked without the lock or broke
\* off between the notification and its stamp
NoDuplicateUnlessLapsed ==
    ~lapsed => \A x \in Appts \cup Singles : sends[x] <= 1

\* reminderSentAt and sentAt are set only on reminders that some run handed to
\* the notifications before: no run that breaks off, finds its reminder deleted
\* or works beside another marks as done what nobody tried to send.  Whether a
\* message went out the stamp does not say
StampedAfterAttempt ==
    /\ \A a \in Appts : Exists(a) /\ appt[a].sent => a \in tried
    /\ \A i \in Singles : single[i] # None /\ single[i].sent => i \in tried

\* The shared reminder of a live appointment whose time has come
Due(a) == Pending(a) /\ appt[a].reminderAt # None /\ appt[a].reminderAt <= now

\* A due reminder, shared or individual, is tried and stamped in the end, or its
\* appointment ends, or it is put off or deleted: no crash, skipped hour or lapsed
\* lock loses it, nor does the deletion of another reminder, which ends the run
\* that meets it before the individual reminders left in it
DueIsEventuallyStamped ==
    /\ \A a \in Appts : Due(a) ~> ~Due(a)
    /\ \A i \in Singles : i \in SinglesDue ~> i \notin SinglesDue

\* A reminder set for a later time has not been sent yet: "When to fire the
\* reminder" (set-reminder.dto.ts)
FutureReminderIsPending ==
    \A a \in Appts :
        Exists(a) /\ appt[a].reminderAt # None /\ now < appt[a].reminderAt => ~appt[a].sent
=============================================================================

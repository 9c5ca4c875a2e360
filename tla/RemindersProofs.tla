-------------------------- MODULE RemindersProofs --------------------------
(***************************************************************************)
(* Proofs about Reminders for every value of its constants: any number of  *)
(* appointments, reminders and overlapping runs of the job.                *)
(***************************************************************************)
EXTENDS Reminders, TLAPS

-----------------------------------------------------------------------------
(* The inductive invariant *)

Targets == Appts \cup Singles

\* A run has nothing to send before its query, has tried what it is to stamp,
\* and queried appointments stay in their table
RunFits(c) ==
    /\ run[c].step \in {"waiting", "query"} => run[c].shared = {} /\ run[c].singles = {}
    /\ run[c].step # "stamp" => run[c].stamp = None
    /\ run[c].step = "stamp" => run[c].stamp \in run[c].shared \cup run[c].singles
    /\ \A a \in run[c].shared : Exists(a)
    /\ run[c].stamp # None => run[c].stamp \in tried

\* What Redis granted and has not expired is the lock
HeldIsLock == \A c \in holding : lock = c

\* While nothing lapsed, whoever works holds the lock
WorkIsHeld == ~lapsed => \A c \in Runs : run[c].step # "waiting" => c \in holding

\* While nothing lapsed, what a run has yet to send has not been sent
YetToSend ==
    ~lapsed =>
        \A c \in Runs : \A x \in run[c].shared \cup run[c].singles :
            x # run[c].stamp => sends[x] = 0

Stamping(x) == \E c \in Runs : run[c].stamp = x

\* While nothing lapsed, a reminder without its stamp went out only if a run is
\* about to stamp it
UnsentIsPending ==
    ~lapsed =>
        /\ \A a \in Appts : Exists(a) /\ ~appt[a].sent /\ ~Stamping(a) => sends[a] = 0
        /\ \A i \in Singles :
              single[i] # None /\ ~single[i].sent /\ ~Stamping(i) => sends[i] = 0

\* A row that was never written has no reminder
NoneWithoutRow == \A a \in Appts : ~Exists(a) => sends[a] = 0

JobInv ==
    /\ TypeOK
    /\ \A c \in Runs : RunFits(c)
    /\ HeldIsLock
    /\ WorkIsHeld
    /\ YetToSend
    /\ UnsentIsPending
    /\ NoneWithoutRow
    /\ StampedAfterAttempt
    /\ NoDuplicateUnlessLapsed
-----------------------------------------------------------------------------
(* The request path *)

\* Requests that write appointments: rows stay, and no stamp is set or removed
ApptStep ==
    /\ appt' \in [Appts -> Rows \cup {None}]
    /\ \A a \in Appts :
          /\ Exists(a) => Exists(a)' /\ appt'[a].sent = appt[a].sent
          /\ ~Exists(a) /\ Exists(a)' => ~appt'[a].sent
    /\ UNCHANGED <<single, now, redis, lock, run, holding, lapsed, sends, tried>>
    /\ deleting' \subseteq Singles

\* Such a request keeps the invariant: what was sent stays sent, and a stamp stays
LEMMA ApptStepKeeps ==
    ASSUME JobInv, ApptStep
    PROVE  JobInv'
  <1>1. TypeOK'
    BY DEF ApptStep, JobInv, TypeOK
  <1>2. (\A c \in Runs : RunFits(c))'
    BY DEF ApptStep, JobInv, TypeOK, RunStates, RunFits
  <1>3. HeldIsLock' /\ WorkIsHeld' /\ YetToSend' /\ NoDuplicateUnlessLapsed'
    BY DEF ApptStep, JobInv, HeldIsLock, WorkIsHeld, YetToSend, NoDuplicateUnlessLapsed
  <1>4. UnsentIsPending'
    BY DEF ApptStep, JobInv, UnsentIsPending, Stamping, NoneWithoutRow
  <1>5. NoneWithoutRow' /\ StampedAfterAttempt'
    BY DEF ApptStep, JobInv, NoneWithoutRow, StampedAfterAttempt
  <1> QED
    BY <1>1, <1>2, <1>3, <1>4, <1>5 DEF JobInv

\* Booking, moving, ending and setting the shared reminder are such requests
LEMMA ApptSteps ==
    ASSUME JobInv,
           \/ \E a \in Appts, t \in Times :
                 Create(a, t) \/ Reschedule(a, t) \/ SetSharedReminder(a, t)
           \/ \E a \in Appts : End(a)
           \/ \E i \in Singles : DeleteReminderFind(i)
    PROVE  ApptStep
  <1>0. appt \in [Appts -> Rows \cup {None}] /\ deleting \subseteq Singles
    BY DEF JobInv, TypeOK
  <1>1. ASSUME NEW a \in Appts, NEW t \in Times, Create(a, t)
        PROVE  ApptStep
    <2>1. PICK row : row = [active |-> TRUE, start |-> t, reminderAt |-> None, sent |-> FALSE]
      OBVIOUS
    <2>2. row \in Rows /\ ~row.sent
      BY <2>1 DEF Rows
    <2>3. appt' = [appt EXCEPT ![a] = row] /\ ~Exists(a)
      BY <1>1, <2>1 DEF Create
    <2> QED
      BY <1>0, <1>1, <2>2, <2>3 DEF ApptStep, Create, jobVars, Exists
  <1>2. ASSUME NEW a \in Appts, Exists(a), NEW row \in Rows, appt' = [appt EXCEPT ![a] = row],
               row.sent = appt[a].sent, UNCHANGED <<single, deleting, now, jobVars>>
        PROVE  ApptStep
    <2>1. row # None
      BY RemindersAssumption
    <2> QED
      BY <1>0, <1>2, <2>1 DEF ApptStep, jobVars, Exists
  <1>3. ASSUME NEW a \in Appts, NEW t \in Times,
               Reschedule(a, t) \/ SetSharedReminder(a, t) \/ End(a)
        PROVE  ApptStep
    <2>1. appt[a] \in Rows /\ Exists(a)
      BY <1>0, <1>3 DEF Reschedule, SetSharedReminder, End, IsActive, Exists
    <2>2. \E row \in Rows : appt' = [appt EXCEPT ![a] = row] /\ row.sent = appt[a].sent
      <3>1. CASE Reschedule(a, t)
        <4>1. PICK row : row = [appt[a] EXCEPT !.start = t]
          OBVIOUS
        <4>2. row \in Rows /\ row.sent = appt[a].sent
          BY <2>1, <4>1 DEF Rows
        <4> QED
          BY <3>1, <4>1, <4>2 DEF Reschedule
      <3>2. CASE SetSharedReminder(a, t)
        <4>1. PICK row : row = [appt[a] EXCEPT !.reminderAt = t]
          OBVIOUS
        <4>2. row \in Rows /\ row.sent = appt[a].sent
          BY <2>1, <4>1 DEF Rows
        <4> QED
          BY <3>2, <4>1, <4>2 DEF SetSharedReminder
      <3>3. CASE End(a)
        <4>1. PICK row : row = [appt[a] EXCEPT !.active = FALSE]
          OBVIOUS
        <4>2. row \in Rows /\ row.sent = appt[a].sent
          BY <2>1, <4>1 DEF Rows
        <4> QED
          BY <3>3, <4>1, <4>2 DEF End
      <3> QED
        BY <1>3, <3>1, <3>2, <3>3
    <2>3. UNCHANGED <<single, deleting, now, jobVars>>
      BY <1>3 DEF Reschedule, SetSharedReminder, End
    <2> QED
      BY <1>2, <2>1, <2>2, <2>3
  <1>4. ASSUME NEW i \in Singles, DeleteReminderFind(i)
        PROVE  ApptStep
    BY <1>0, <1>4 DEF DeleteReminderFind, ApptStep, jobVars, Exists
  <1>5. 0 \in Times
    BY RemindersAssumption DEF Times
  <1> QED
    BY <1>1, <1>3, <1>4, <1>5

\* A new individual reminder has not gone out, and no run knows it
LEMMA CreateIndividualReminderKeeps ==
    ASSUME JobInv, NEW i \in Singles, NEW a \in Appts, NEW t \in Times,
           CreateIndividualReminder(i, a, t)
    PROVE  JobInv'
  <1>1. PICK row : row = [appt |-> a, reminderAt |-> t, sent |-> FALSE]
    OBVIOUS
  <1>2. /\ single' = [single EXCEPT ![i] = row]
        /\ sends' = [sends EXCEPT ![i] = 0]
        /\ tried' = tried \ {i}
        /\ UNCHANGED <<appt, deleting, now, redis, lock, run, holding, lapsed>>
        /\ \A c \in Runs : i \notin run[c].singles /\ run[c].stamp # i
    BY <1>1 DEF CreateIndividualReminder
  <1>3. row \in SingleRows /\ ~row.sent
    BY <1>1 DEF SingleRows
  <1>4. TypeOK'
    BY <1>2, <1>3, RemindersAssumption DEF JobInv, TypeOK
  <1>5. /\ sends'[i] = 0 /\ i \notin Appts
        /\ \A x \in Targets \ {i} : sends'[x] = sends[x]
        /\ single'[i] = row /\ \A j \in Singles \ {i} : single'[j] = single[j]
    BY <1>2, RemindersAssumption DEF JobInv, TypeOK, Targets
  <1>6. \A c \in Runs : /\ run[c].stamp \in Targets \cup {None}
                        /\ run[c].shared \subseteq Appts /\ run[c].singles \subseteq Singles
    BY DEF JobInv, TypeOK, RunStates, Targets
  <1>7. (\A c \in Runs : RunFits(c))'
    BY <1>2, <1>5, <1>6 DEF JobInv, RunFits, Exists
  <1>8. HeldIsLock' /\ WorkIsHeld'
    BY <1>2 DEF JobInv, HeldIsLock, WorkIsHeld
  <1>9. YetToSend'
    BY <1>2, <1>5, <1>6 DEF JobInv, YetToSend
  <1>10. UnsentIsPending'
    BY <1>2, <1>5 DEF JobInv, UnsentIsPending, Stamping, Targets, Exists
  <1>11. NoneWithoutRow' /\ StampedAfterAttempt' /\ NoDuplicateUnlessLapsed'
    BY <1>2, <1>3, <1>5
    DEF JobInv, NoneWithoutRow, StampedAfterAttempt, NoDuplicateUnlessLapsed, Targets, Exists
  <1> QED
    BY <1>4, <1>7, <1>8, <1>9, <1>10, <1>11 DEF JobInv

\* A deleted reminder is nobody's any more, except of the run that is sending it
LEMMA DeleteReminderKeeps ==
    ASSUME JobInv, NEW i \in Singles, DeleteReminder(i)
    PROVE  JobInv'
  <1>1. /\ single' = [single EXCEPT ![i] = None] /\ deleting' = deleting \ {i}
        /\ UNCHANGED <<appt, now, redis, lock, run, holding, lapsed, sends, tried>>
    BY DEF DeleteReminder, jobVars
  <1>2. TypeOK'
    BY <1>1 DEF JobInv, TypeOK
  <1>3. single'[i] = None /\ \A j \in Singles \ {i} : single'[j] = single[j]
    BY <1>1 DEF JobInv, TypeOK
  <1>4. (\A c \in Runs : RunFits(c))'
    BY <1>1 DEF JobInv, RunFits, Exists
  <1>5. HeldIsLock' /\ WorkIsHeld' /\ YetToSend' /\ NoDuplicateUnlessLapsed' /\ NoneWithoutRow'
    BY <1>1
    DEF JobInv, HeldIsLock, WorkIsHeld, YetToSend, NoDuplicateUnlessLapsed, NoneWithoutRow,
        Exists
  <1>6. UnsentIsPending' /\ StampedAfterAttempt'
    BY <1>1, <1>3 DEF JobInv, UnsentIsPending, Stamping, StampedAfterAttempt, Exists
  <1> QED
    BY <1>2, <1>4, <1>5, <1>6 DEF JobInv

-----------------------------------------------------------------------------
(* The lock *)

\* Steps that move the lock and leave every run and reminder where it is
LEMMA LockKeeps ==
    ASSUME JobInv, UNCHANGED <<appt, single, deleting, run, sends, tried>>,
           now' \in Times, redis' \in BOOLEAN, lapsed' \in BOOLEAN, lapsed => lapsed',
           lock' \in Runs \cup {None, Orphan}, holding' \subseteq Runs, HeldIsLock',
           ~lapsed' => holding' = holding
    PROVE  JobInv'
  <1>1. TypeOK'
    BY DEF JobInv, TypeOK
  <1>2. (\A c \in Runs : RunFits(c))'
    BY DEF JobInv, RunFits, Exists
  <1>3. WorkIsHeld' /\ YetToSend' /\ NoDuplicateUnlessLapsed' /\ NoneWithoutRow'
    BY DEF JobInv, WorkIsHeld, YetToSend, NoDuplicateUnlessLapsed, NoneWithoutRow, Exists
  <1>4. UnsentIsPending' /\ StampedAfterAttempt'
    BY DEF JobInv, UnsentIsPending, Stamping, StampedAfterAttempt, Exists
  <1> QED
    BY <1>1, <1>2, <1>3, <1>4 DEF JobInv

\* The clock, the expiry of the key and a client that comes and goes
LEMMA LockSteps ==
    ASSUME JobInv, Tick \/ Expire \/ RedisChanges
    PROVE  JobInv'
  <1>1. CASE Tick
    <2>1. now' \in Times
      BY <1>1, RemindersAssumption DEF Tick, JobInv, TypeOK, Times
    <2>2. UNCHANGED <<appt, single, deleting, jobVars>>
      BY <1>1 DEF Tick
    <2> QED
      BY <2>1, <2>2, LockKeeps DEF jobVars, JobInv, TypeOK, HeldIsLock
  <1>2. CASE Expire
    <2>1. /\ lock' = None /\ holding' = holding \ {lock}
          /\ lapsed' = (lapsed \/ lock \in Runs)
          /\ UNCHANGED <<appt, single, deleting, now, redis, run, sends, tried>>
      BY <1>2 DEF Expire
    <2>2. holding' = {}
      BY <2>1 DEF JobInv, HeldIsLock
    <2>3. lock \notin Runs => holding = {}
      BY DEF JobInv, HeldIsLock, TypeOK
    <2>4. lapsed' \in BOOLEAN /\ (lapsed => lapsed') /\ (~lapsed' => holding' = holding)
      BY <2>1, <2>2, <2>3 DEF JobInv, TypeOK
    <2> QED
      BY <2>1, <2>2, <2>4, LockKeeps DEF JobInv, TypeOK, HeldIsLock
  <1>3. CASE RedisChanges
    BY <1>3, LockKeeps DEF RedisChanges, JobInv, TypeOK, HeldIsLock
  <1> QED
    BY <1>1, <1>2, <1>3
-----------------------------------------------------------------------------
(* The runs of the job *)

\* The state of a run is a record of its step and what it carries
RunState(step, shared, singles, stamp) ==
    [step |-> step, shared |-> shared, singles |-> singles, stamp |-> stamp]

\* The fields of a run have their types
LEMMA RunType ==
    ASSUME JobInv, NEW c \in Runs
    PROVE  /\ run[c] \in RunStates
           /\ run[c].shared \subseteq Appts /\ run[c].singles \subseteq Singles
           /\ run[c].stamp \in {None} \cup Appts \cup Singles
           /\ RunFits(c)
           /\ None \notin Targets
  <1>1. run[c] \in RunStates /\ RunFits(c)
    BY DEF JobInv, TypeOK
  <1>2. None \notin Targets
    BY RemindersAssumption DEF Targets
  <1> QED
    BY <1>1, <1>2 DEF RunStates

\* A run that ends, one way or another
LEMMA RunEndsKeeps ==
    ASSUME JobInv, NEW c \in Runs, run' = [run EXCEPT ![c] = Waiting],
           holding' = holding \ {c}, lock' \in Runs \cup {None, Orphan},
           lock # c => lock' = lock,
           lapsed' \in BOOLEAN, lapsed => lapsed',
           ~lapsed' /\ run[c].step = "stamp" =>
               run[c].stamp \in Singles /\ single[run[c].stamp] = None,
           UNCHANGED <<appt, single, deleting, now, redis, sends, tried>>
    PROVE  JobInv'
  <1>1. Waiting \in RunStates
    BY DEF Waiting, RunStates
  <1>2. run' \in [Runs -> RunStates] /\ run'[c] = Waiting
        /\ \A d \in Runs \ {c} : run'[d] = run[d]
    BY <1>1 DEF JobInv, TypeOK
  <1>3. TypeOK'
    BY <1>2 DEF JobInv, TypeOK
  <1>4. (\A d \in Runs : RunFits(d))'
    BY <1>2 DEF JobInv, RunFits, Waiting, Exists
  <1>5. HeldIsLock'
    BY DEF JobInv, HeldIsLock
  <1>6. WorkIsHeld'
    BY <1>2 DEF JobInv, WorkIsHeld, Waiting
  <1>7. YetToSend'
    BY <1>2 DEF JobInv, YetToSend, Waiting
  <1>8. ASSUME ~lapsed', NEW x \in Targets, Stamping(x), ~Stamping(x)'
        PROVE  x \in Singles /\ single[x] = None
    <2>1. run[c].stamp = x
      BY <1>2, <1>8 DEF Stamping
    <2>2. run[c].step = "stamp"
      BY <1>8, <2>1, RunType DEF RunFits
    <2> QED
      BY <1>8, <2>1, <2>2
  <1>9. UnsentIsPending'
    BY <1>8, RemindersAssumption DEF JobInv, UnsentIsPending, Targets, Exists
  <1>10. NoneWithoutRow' /\ StampedAfterAttempt' /\ NoDuplicateUnlessLapsed'
    BY DEF JobInv, NoneWithoutRow, StampedAfterAttempt, NoDuplicateUnlessLapsed, Exists
  <1> QED
    BY <1>3, <1>4, <1>5, <1>6, <1>7, <1>9, <1>10 DEF JobInv

\* Ending with `finally`, or with the replica
LEMMA EndingsKeep ==
    ASSUME JobInv, NEW c \in Runs,
           \/ Done(c) \/ Throw(c) \/ Crash(c)
           \/ StampSingle(c) /\ single[run[c].stamp] = None
    PROVE  JobInv'
  <1>0. lock \in Runs \cup {None, Orphan} /\ lapsed \in BOOLEAN
    BY DEF JobInv, TypeOK
  <1>1. /\ run' = [run EXCEPT ![c] = Waiting] /\ holding' = holding \ {c}
        /\ lock' \in Runs \cup {None, Orphan} /\ (lock # c => lock' = lock)
        /\ UNCHANGED <<appt, single, deleting, now, redis, sends, tried>>
    BY <1>0 DEF Done, Throw, Crash, StampSingle, Finish
  <1>2. CASE Done(c)
    BY <1>0, <1>1, <1>2, RunEndsKeeps DEF Done
  <1>3. CASE Throw(c) \/ Crash(c)
    BY <1>0, <1>1, <1>3, RunEndsKeeps DEF Throw, Crash
  <1>4. CASE StampSingle(c) /\ single[run[c].stamp] = None
    BY <1>0, <1>1, <1>4, RunEndsKeeps DEF StampSingle
  <1> QED
    BY <1>2, <1>3, <1>4

\* A run that starts holds the lock, or nothing can be relied on
LEMMA AcquireKeeps ==
    ASSUME JobInv, NEW c \in Runs, Acquire(c)
    PROVE  JobInv'
  <1>1. CASE UNCHANGED <<lock, holding, run, lapsed>>
    BY <1>1, LockKeeps DEF Acquire, JobInv, TypeOK, HeldIsLock
  <1>2. CASE ~UNCHANGED <<lock, holding, run, lapsed>>
    <2>1. PICK m : m = RunState("query", {}, {}, None)
      OBVIOUS
    <2>2. m \in RunStates
      BY <2>1 DEF RunStates, RunState
    <2>3. run' = [run EXCEPT ![c] = m]
      <3>1. run[c] = Waiting /\ run' = [run EXCEPT ![c] = [run[c] EXCEPT !.step = "query"]]
        BY <1>2 DEF Acquire
      <3>2. [Waiting EXCEPT !.step = "query"] = m
        BY <2>1 DEF Waiting, RunState
      <3> QED
        BY <3>1, <3>2
    <2>4. run' \in [Runs -> RunStates] /\ run'[c] = m /\ \A d \in Runs \ {c} : run'[d] = run[d]
      BY <2>2, <2>3 DEF JobInv, TypeOK
    <2>5. /\ UNCHANGED <<appt, single, deleting, now, redis, sends, tried>>
          /\ \/ lock = None /\ lock' = c /\ holding' = holding \cup {c} /\ lapsed' = lapsed
             \/ lapsed' = TRUE /\ UNCHANGED <<lock, holding>>
      BY <1>2 DEF Acquire
    <2>6. TypeOK'
      BY <2>4, <2>5 DEF JobInv, TypeOK
    <2>7. lock = None => holding = {}
      BY RemindersAssumption DEF JobInv, TypeOK, HeldIsLock
    <2>8. (\A d \in Runs : RunFits(d))'
      BY <2>1, <2>4, <2>5 DEF JobInv, RunFits, RunState, Exists
    <2>9. HeldIsLock'
      BY <2>5, <2>7 DEF JobInv, HeldIsLock
    <2>10. WorkIsHeld'
      BY <2>4, <2>5 DEF JobInv, WorkIsHeld
    <2>11. YetToSend'
      BY <2>1, <2>4, <2>5 DEF JobInv, YetToSend, RunState
    <2>12. \A x \in Targets : Stamping(x) => Stamping(x)'
      <3>1. run[c].stamp = None
        BY <1>2 DEF Acquire, Waiting
      <3> QED
        BY <2>4, <3>1, RunType DEF Stamping
    <2>13. UnsentIsPending'
      BY <2>5, <2>12 DEF JobInv, UnsentIsPending, Targets, Exists
    <2>14. NoneWithoutRow' /\ StampedAfterAttempt' /\ NoDuplicateUnlessLapsed'
      BY <2>5 DEF JobInv, NoneWithoutRow, StampedAfterAttempt, NoDuplicateUnlessLapsed, Exists
    <2> QED
      BY <2>6, <2>8, <2>9, <2>10, <2>11, <2>13, <2>14 DEF JobInv
  <1> QED
    BY <1>1, <1>2

\* While nothing lapsed, a run at work is alone
LEMMA WorksAlone ==
    ASSUME JobInv, ~lapsed, NEW c \in Runs, run[c].step # "waiting",
           NEW d \in Runs, run[d].step # "waiting"
    PROVE  c = d
  BY DEF JobInv, WorkIsHeld, HeldIsLock

\* What a query returns has not been sent, unless something lapsed
LEMMA QueryKeeps ==
    ASSUME JobInv, NEW c \in Runs, Query(c)
    PROVE  JobInv'
  <1>1. PICK m, shared : /\ shared = SharedDue \cup LegacyDue
                         /\ m = RunState("notify", shared, SinglesDue, None)
    OBVIOUS
  <1>2. run' = [run EXCEPT ![c] = m]
    BY <1>1 DEF Query, RunState
  <1>3. /\ \A a \in shared : a \in Appts /\ Exists(a) /\ ~appt[a].sent
        /\ \A i \in SinglesDue : i \in Singles /\ single[i] # None /\ ~single[i].sent
    BY <1>1 DEF SharedDue, LegacyDue, SinglesDue, Pending, IsActive
  <1>4. m \in RunStates
    BY <1>1, <1>3 DEF RunStates, RunState
  <1>5. run' \in [Runs -> RunStates] /\ run'[c] = m /\ \A d \in Runs \ {c} : run'[d] = run[d]
    BY <1>2, <1>4 DEF JobInv, TypeOK
  <1>6. /\ UNCHANGED <<appt, single, deleting, now, redis, lock, holding, lapsed, sends, tried>>
        /\ run[c].step = "query" /\ run[c].stamp = None
    BY RunType DEF Query, RunFits
  <1>7. m.step = "notify" /\ m.shared = shared /\ m.singles = SinglesDue /\ m.stamp = None
    BY <1>1 DEF RunState
  <1>8. TypeOK'
    BY <1>5, <1>6 DEF JobInv, TypeOK
  <1>9. (\A d \in Runs : RunFits(d))'
    BY <1>3, <1>5, <1>6, <1>7 DEF JobInv, RunFits, Exists
  <1>10. HeldIsLock' /\ WorkIsHeld'
    BY <1>5, <1>6, <1>7 DEF JobInv, HeldIsLock, WorkIsHeld
  <1>11. \A x \in Targets : Stamping(x)' <=> Stamping(x)
    BY <1>5, <1>6, <1>7, RunType DEF Stamping
  <1>12. ~lapsed => \A x \in Targets : ~Stamping(x)
    <2> SUFFICES ASSUME ~lapsed, NEW x \in Targets, NEW d \in Runs, run[d].stamp = x
                 PROVE  FALSE
      BY DEF Stamping
    <2>1. run[d].step = "stamp"
      BY RunType DEF RunFits
    <2> QED
      BY <1>6, <2>1, WorksAlone
  <1>13. ~lapsed => \A x \in shared \cup SinglesDue : sends[x] = 0
    BY <1>3, <1>12 DEF JobInv, UnsentIsPending, Targets
  <1>14. YetToSend'
    BY <1>5, <1>6, <1>7, <1>13 DEF JobInv, YetToSend
  <1>15. UnsentIsPending'
    BY <1>6, <1>11 DEF JobInv, UnsentIsPending, Targets, Exists
  <1>16. NoneWithoutRow' /\ StampedAfterAttempt' /\ NoDuplicateUnlessLapsed'
    BY <1>6 DEF JobInv, NoneWithoutRow, StampedAfterAttempt, NoDuplicateUnlessLapsed, Exists
  <1> QED
    BY <1>8, <1>9, <1>10, <1>14, <1>15, <1>16 DEF JobInv

\* Sending a reminder the run has yet to send
LEMMA NotifyKeeps ==
    ASSUME JobInv, NEW c \in Runs,
           \/ \E a \in Appts : NotifyShared(c, a)
           \/ \E i \in Singles : NotifySingle(c, i)
    PROVE  JobInv'
  <1>1. PICK x \in Targets :
            /\ run[c].step = "notify" /\ x \in run[c].shared \cup run[c].singles
            /\ run' = [run EXCEPT ![c].step = "stamp", ![c].stamp = x]
            /\ Deliver(x)
            /\ UNCHANGED <<appt, single, deleting, now, redis, lock, holding, lapsed>>
    BY Zenon DEF NotifyShared, NotifySingle, Targets
  <1>2. PICK m : m = RunState("stamp", run[c].shared, run[c].singles, x)
    OBVIOUS
  <1>3. run[c].stamp = None /\ run[c] \in RunStates
    BY <1>1, RunType DEF RunFits
  <1>4. run' = [run EXCEPT ![c] = m]
    <2>1. PICK going : going = [run[c] EXCEPT !.step = "stamp"]
      OBVIOUS
    <2>2. going = RunState("stamp", run[c].shared, run[c].singles, run[c].stamp)
      BY <1>3, <2>1 DEF RunStates, RunState
    <2>3. [run[c] EXCEPT !.step = "stamp", !.stamp = x] = [going EXCEPT !.stamp = x]
      BY <2>1
    <2>4. [going EXCEPT !.stamp = x] = m
      BY <1>2, <2>2 DEF RunState
    <2>5. run' = [run EXCEPT ![c] = [run[c] EXCEPT !.step = "stamp", !.stamp = x]]
      BY <1>1, Zenon DEF JobInv, TypeOK
    <2> QED
      BY <2>3, <2>4, <2>5, Zenon
  <1>5. m \in RunStates
    BY <1>1, <1>2, RunType DEF RunStates, RunState, Targets
  <1>6. run' \in [Runs -> RunStates] /\ run'[c] = m /\ \A d \in Runs \ {c} : run'[d] = run[d]
    BY <1>4, <1>5 DEF JobInv, TypeOK
  <1>7. m.step = "stamp" /\ m.shared = run[c].shared /\ m.singles = run[c].singles /\ m.stamp = x
    BY <1>2 DEF RunState
  <1>8. sends \in [Targets -> 0..MaxSends]
    BY DEF JobInv, TypeOK, Targets
  <1>9. /\ sends' \in [Targets -> 0..MaxSends]
        /\ sends[x] = 0 => sends'[x] <= 1
        /\ \A y \in Targets \ {x} : sends'[y] = sends[y]
        /\ tried' = tried \cup {x}
    BY <1>1, <1>8, RemindersAssumption DEF Deliver
  <1>10. x # None /\ \A d \in Runs : run[d].stamp \in Targets \cup {None}
    BY RunType DEF Targets
  <1>11. TypeOK'
    BY <1>1, <1>6, <1>9 DEF JobInv, TypeOK, Targets
  <1>12. (\A d \in Runs : RunFits(d))'
    BY <1>1, <1>6, <1>7, <1>9, <1>10 DEF JobInv, RunFits, Exists
  <1>13. HeldIsLock' /\ WorkIsHeld'
    BY <1>1, <1>6, <1>7 DEF JobInv, HeldIsLock, WorkIsHeld
  <1>14. ~lapsed => \A d \in Runs \ {c} : run[d].shared = {} /\ run[d].singles = {}
    BY <1>1, WorksAlone, RunType DEF RunFits
  <1>15. YetToSend'
    BY <1>1, <1>3, <1>6, <1>7, <1>9, <1>14, RunType DEF JobInv, YetToSend, Targets
  <1>16. Stamping(x)' /\ \A y \in Targets : Stamping(y) => Stamping(y)'
    BY <1>3, <1>6, <1>7, RunType DEF Stamping
  <1>17. UnsentIsPending'
    BY <1>1, <1>9, <1>16 DEF JobInv, UnsentIsPending, Targets, Exists
  <1>18. NoneWithoutRow'
    <2>1. x \in Appts => Exists(x)
      BY <1>1, RunType, RemindersAssumption DEF RunFits
    <2> QED
      BY <1>1, <1>9, <2>1 DEF JobInv, NoneWithoutRow, Targets, Exists
  <1>19. StampedAfterAttempt'
    BY <1>1, <1>9 DEF JobInv, StampedAfterAttempt, Targets, Exists
  <1>20. NoDuplicateUnlessLapsed'
    <2>1. ~lapsed => sends[x] = 0
      BY <1>1, <1>3, <1>10 DEF JobInv, YetToSend
    <2> QED
      BY <1>1, <1>9, <2>1 DEF JobInv, NoDuplicateUnlessLapsed, Targets
  <1> QED
    BY <1>11, <1>12, <1>13, <1>15, <1>17, <1>18, <1>19, <1>20 DEF JobInv

\* Stamping what was sent takes it off the run's list
LEMMA StampKeeps ==
    ASSUME JobInv, NEW c \in Runs, NEW x \in Targets,
           run[c].step = "stamp", run[c].stamp = x,
           run' = [run EXCEPT ![c] = RunState("notify", run[c].shared \ {x},
                                              run[c].singles \ {x}, None)],
           \/ /\ x \in Appts /\ Exists(x) /\ appt' = [appt EXCEPT ![x].sent = TRUE]
              /\ single' = single
           \/ /\ x \in Singles /\ single[x] # None /\ single' = [single EXCEPT ![x].sent = TRUE]
              /\ appt' = appt,
           UNCHANGED <<deleting, now, redis, lock, holding, lapsed, sends, tried>>
    PROVE  JobInv'
  <1>1. PICK m : m = RunState("notify", run[c].shared \ {x}, run[c].singles \ {x}, None)
    OBVIOUS
  <1>2. /\ m.step = "notify" /\ m.shared = run[c].shared \ {x}
        /\ m.singles = run[c].singles \ {x} /\ m.stamp = None
    BY <1>1 DEF RunState
  <1>3. m \in RunStates
    BY <1>1, RunType DEF RunStates, RunState
  <1>4. run' \in [Runs -> RunStates] /\ run'[c] = m /\ \A d \in Runs \ {c} : run'[d] = run[d]
    BY <1>1, <1>3 DEF JobInv, TypeOK
  <1>5. /\ appt' \in [Appts -> Rows \cup {None}]
        /\ \A a \in Appts : Exists(a)' = Exists(a)
        /\ \A a \in Appts \ {x} : appt'[a] = appt[a]
        /\ x \in Appts => appt'[x].sent
    <2>1. CASE appt' = appt /\ x \notin Appts
      BY <2>1 DEF JobInv, TypeOK, Exists
    <2>2. CASE x \in Appts /\ Exists(x) /\ appt' = [appt EXCEPT ![x].sent = TRUE]
      <3>1. PICK row : row = [appt[x] EXCEPT !.sent = TRUE]
        OBVIOUS
      <3>2. appt[x] \in Rows
        BY <2>2 DEF JobInv, TypeOK, Exists
      <3>3. row \in Rows /\ row.sent
        BY <3>1, <3>2 DEF Rows
      <3>4. row # None
        BY <3>3, RemindersAssumption
      <3>5. appt' = [appt EXCEPT ![x] = row]
        BY <2>2, <3>1
      <3>6. appt \in [Appts -> Rows \cup {None}]
        BY DEF JobInv, TypeOK
      <3>7. appt' \in [Appts -> Rows \cup {None}]
        BY <3>3, <3>5, <3>6
      <3>8. appt'[x] = row /\ \A a \in Appts \ {x} : appt'[a] = appt[a]
        BY <2>2, <3>5, <3>6
      <3> QED
        BY <2>2, <3>3, <3>4, <3>7, <3>8 DEF Exists
    <2> QED
      BY <2>1, <2>2, RemindersAssumption
  <1>6. /\ single' \in [Singles -> SingleRows \cup {None}]
        /\ \A i \in Singles \ {x} : single'[i] = single[i]
        /\ x \in Singles => single'[x].sent
    <2>1. CASE single' = single /\ x \notin Singles
      BY <2>1 DEF JobInv, TypeOK
    <2>2. CASE x \in Singles /\ single[x] # None /\ single' = [single EXCEPT ![x].sent = TRUE]
      <3>1. PICK row : row = [single[x] EXCEPT !.sent = TRUE]
        OBVIOUS
      <3>2. single[x] \in SingleRows
        BY <2>2 DEF JobInv, TypeOK
      <3>3. row \in SingleRows /\ row.sent
        BY <3>1, <3>2 DEF SingleRows
      <3>4. single' = [single EXCEPT ![x] = row]
        BY <2>2, <3>1
      <3>5. single \in [Singles -> SingleRows \cup {None}]
        BY DEF JobInv, TypeOK
      <3>6. single' \in [Singles -> SingleRows \cup {None}]
        BY <3>3, <3>4, <3>5
      <3>7. single'[x] = row /\ \A i \in Singles \ {x} : single'[i] = single[i]
        BY <2>2, <3>4, <3>5
      <3> QED
        BY <3>3, <3>6, <3>7
    <2> QED
      BY <2>1, <2>2, RemindersAssumption
  <1>7. TypeOK'
    BY <1>4, <1>5, <1>6 DEF JobInv, TypeOK
  <1>8. (\A d \in Runs : RunFits(d))'
    <2>1. ASSUME NEW d \in Runs
          PROVE  RunFits(d)'
      <3>1. \A a \in run[d].shared : Exists(a)' = Exists(a)
        BY <1>5, RunType
      <3>2. CASE d = c
        BY <1>2, <1>4, <3>1, <3>2, RunType DEF RunFits
      <3>3. CASE d # c
        BY <1>4, <3>1, <3>3, RunType DEF RunFits
      <3> QED
        BY <3>2, <3>3
    <2> QED
      BY <2>1
  <1>9. HeldIsLock' /\ WorkIsHeld'
    BY <1>2, <1>4 DEF JobInv, HeldIsLock, WorkIsHeld
  <1>10. YetToSend'
    BY <1>2, <1>4 DEF JobInv, YetToSend
  <1>11. \A y \in Targets \ {x} : Stamping(y) => Stamping(y)'
    BY <1>4 DEF Stamping
  <1>12. UnsentIsPending'
    BY <1>5, <1>6, <1>11 DEF JobInv, UnsentIsPending, Targets, Exists
  <1>13. NoneWithoutRow' /\ NoDuplicateUnlessLapsed'
    BY <1>5 DEF JobInv, NoneWithoutRow, NoDuplicateUnlessLapsed
  <1>14. x \in tried
    BY RunType DEF RunFits
  <1>15. StampedAfterAttempt'
    BY <1>5, <1>6, <1>14 DEF JobInv, StampedAfterAttempt, Exists
  <1> QED
    BY <1>7, <1>8, <1>9, <1>10, <1>12, <1>13, <1>15 DEF JobInv
\* Stamping is what StampKeeps speaks of, unless the reminder is gone
LEMMA StampSteps ==
    ASSUME JobInv, NEW c \in Runs,
           \/ StampShared(c)
           \/ StampSingle(c) /\ single[run[c].stamp] # None
    PROVE  JobInv'
  <1>1. PICK x : x = run[c].stamp
    OBVIOUS
  <1>2. /\ x \in Targets /\ run[c].step = "stamp" /\ run[c] \in RunStates
        /\ x \in run[c].shared \cup run[c].singles
        /\ \A a \in run[c].shared : Exists(a)
        /\ run[c].shared \subseteq Appts /\ run[c].singles \subseteq Singles
    BY <1>1, RunType DEF StampShared, StampSingle, RunFits, Targets
  <1>3. PICK m : m = RunState("notify", run[c].shared \ {x}, run[c].singles \ {x}, None)
    OBVIOUS
  <1>4. PICK going : going = [run[c] EXCEPT !.step = "notify"]
    OBVIOUS
  <1>5. PICK stamped : stamped = [going EXCEPT !.stamp = None]
    OBVIOUS
  <1>6. /\ going \in RunStates /\ stamped \in RunStates
        /\ stamped = RunState("notify", run[c].shared, run[c].singles, None)
        /\ going.shared = run[c].shared /\ going.singles = run[c].singles
    BY <1>2, <1>4, <1>5 DEF RunStates, RunState
  <1>7. run \in [Runs -> RunStates]
    BY DEF JobInv, TypeOK
  <1>8. CASE StampShared(c)
    <2>1. /\ x \in Appts /\ appt' = [appt EXCEPT ![x].sent = TRUE]
          /\ run' = [run EXCEPT ![c].step = "notify", ![c].stamp = None, ![c].shared = @ \ {x}]
          /\ UNCHANGED <<single, deleting, now, redis, lock, holding, lapsed, sends, tried>>
      BY <1>1, <1>8, Zenon DEF StampShared
    <2>2. Exists(x) /\ run[c].singles \ {x} = run[c].singles
      BY <1>2, <2>1, RemindersAssumption
    <2>3. PICK rest : rest = [stamped EXCEPT !.shared = run[c].shared \ {x}]
      OBVIOUS
    <2>4. rest = m
      BY <1>3, <1>6, <2>2, <2>3 DEF RunState
    <2>5. run' = [run EXCEPT ![c] = [run[c] EXCEPT !.step = "notify", !.stamp = None,
                                                   !.shared = run[c].shared \ {x}]]
      BY <1>7, <2>1
    <2>6. [run[c] EXCEPT !.step = "notify", !.stamp = None, !.shared = run[c].shared \ {x}]
              = rest
      BY <1>2, <1>4, <1>5, <2>3 DEF RunStates
    <2>7. run' = [run EXCEPT ![c] = m]
      BY <2>4, <2>5, <2>6, Zenon
    <2> QED
      BY <1>1, <1>2, <1>3, <2>1, <2>2, <2>7, StampKeeps
  <1>9. CASE StampSingle(c) /\ single[x] # None
    <2>1. /\ x \in Singles /\ single' = [single EXCEPT ![x].sent = TRUE]
          /\ run' = [run EXCEPT ![c].step = "notify", ![c].stamp = None, ![c].singles = @ \ {x}]
          /\ UNCHANGED <<appt, deleting, now, redis, lock, holding, lapsed, sends, tried>>
      BY <1>1, <1>9, Zenon DEF StampSingle
    <2>2. run[c].shared \ {x} = run[c].shared
      BY <1>2, <2>1, RemindersAssumption
    <2>3. PICK rest : rest = [stamped EXCEPT !.singles = run[c].singles \ {x}]
      OBVIOUS
    <2>4. rest = m
      BY <1>3, <1>6, <2>2, <2>3 DEF RunState
    <2>5. run' = [run EXCEPT ![c] = [run[c] EXCEPT !.step = "notify", !.stamp = None,
                                                   !.singles = run[c].singles \ {x}]]
      BY <1>7, <2>1
    <2>6. [run[c] EXCEPT !.step = "notify", !.stamp = None, !.singles = run[c].singles \ {x}]
              = rest
      BY <1>2, <1>4, <1>5, <2>3 DEF RunStates
    <2>7. run' = [run EXCEPT ![c] = m]
      BY <2>4, <2>5, <2>6, Zenon
    <2> QED
      BY <1>1, <1>2, <1>3, <1>9, <2>1, <2>7, StampKeeps
  <1> QED
    BY <1>1, <1>8, <1>9

-----------------------------------------------------------------------------
(* The theorems *)

\* No reminder is set and no run is at work
LEMMA InitJobInv == Init => JobInv
  <1> SUFFICES ASSUME Init
               PROVE  JobInv
    OBVIOUS
  <1>1. Waiting \in RunStates /\ 0 \in Times
    BY RemindersAssumption DEF Waiting, RunStates, Times
  <1>2. TypeOK
    <2>1. /\ appt \in [Appts -> Rows \cup {None}] /\ single \in [Singles -> SingleRows \cup {None}]
          /\ run \in [Runs -> RunStates] /\ sends \in [Appts \cup Singles -> 0..MaxSends]
      BY <1>1, RemindersAssumption DEF Init
    <2>2. /\ deleting \subseteq Singles /\ now \in Times /\ redis \in BOOLEAN
          /\ lock \in Runs \cup {None, Orphan} /\ holding \subseteq Runs /\ lapsed \in BOOLEAN
          /\ tried \subseteq Appts \cup Singles
      BY <1>1 DEF Init
    <2> QED
      BY <2>1, <2>2 DEF TypeOK
  <1>3. \A c \in Runs : /\ run[c].step = "waiting" /\ run[c].stamp = None
                        /\ run[c].shared = {} /\ run[c].singles = {}
    BY DEF Init, Waiting
  <1>4. \A c \in Runs : RunFits(c)
    BY <1>3 DEF RunFits
  <1>5. HeldIsLock /\ WorkIsHeld
    BY <1>3 DEF Init, HeldIsLock, WorkIsHeld
  <1>6. \A x \in Appts \cup Singles : sends[x] = 0
    BY DEF Init
  <1>7. YetToSend
    BY <1>3 DEF YetToSend
  <1>8. UnsentIsPending /\ NoneWithoutRow /\ NoDuplicateUnlessLapsed
    BY <1>6 DEF UnsentIsPending, NoneWithoutRow, NoDuplicateUnlessLapsed
  <1>9. StampedAfterAttempt
    BY DEF Init, StampedAfterAttempt, Exists
  <1> QED
    BY <1>2, <1>4, <1>5, <1>7, <1>8, <1>9 DEF JobInv

\* Every step keeps the invariant
LEMMA StepJobInv == JobInv /\ [Next]_vars => JobInv'
  <1> SUFFICES ASSUME JobInv, [Next]_vars
               PROVE  JobInv'
    OBVIOUS
  <1>1. CASE Request
    <2>1. CASE \E i \in Singles, a \in Appts, t \in Times : CreateIndividualReminder(i, a, t)
      BY <2>1, CreateIndividualReminderKeeps, Zenon
    <2>2. CASE \E i \in Singles : DeleteReminder(i)
      BY <2>2, DeleteReminderKeeps, Zenon
    <2>3. CASE \/ \E a \in Appts, t \in Times :
                     Create(a, t) \/ Reschedule(a, t) \/ SetSharedReminder(a, t)
               \/ \E a \in Appts : End(a)
               \/ \E i \in Singles : DeleteReminderFind(i)
      BY <2>3, ApptSteps, ApptStepKeeps, Zenon
    <2> QED
      BY <1>1, <2>1, <2>2, <2>3, Zenon DEF Request
  <1>2. CASE Tick \/ Expire \/ RedisChanges
    BY <1>2, LockSteps
  <1>3. ASSUME NEW c \in Runs, Acquire(c) \/ Work(c) \/ Throw(c) \/ Crash(c)
        PROVE  JobInv'
    <2>1. CASE Acquire(c)
      BY <2>1, AcquireKeeps, Zenon
    <2>2. CASE Query(c)
      BY <2>2, QueryKeeps, Zenon
    <2>3. ASSUME NEW a \in Appts, NotifyShared(c, a)
          PROVE  JobInv'
      BY <2>3, NotifyKeeps, Zenon
    <2>4. ASSUME NEW i \in Singles, NotifySingle(c, i)
          PROVE  JobInv'
      BY <2>4, NotifyKeeps, Zenon
    <2>5. CASE StampShared(c)
      BY <2>5, StampSteps, Zenon
    <2>6. CASE StampSingle(c)
      <3>1. CASE single[run[c].stamp] = None
        BY <2>6, <3>1, EndingsKeep, Zenon
      <3>2. CASE single[run[c].stamp] # None
        BY <2>6, <3>2, StampSteps, Zenon
      <3> QED
        BY <3>1, <3>2
    <2>7. CASE Done(c) \/ Throw(c) \/ Crash(c)
      BY <2>7, EndingsKeep, Zenon
    <2> QED
      BY <1>3, <2>1, <2>2, <2>3, <2>4, <2>5, <2>6, <2>7, Zenon DEF Work
  <1>4. CASE UNCHANGED vars
    BY <1>4
    DEF vars, JobInv, TypeOK, RunFits, HeldIsLock, WorkIsHeld, YetToSend, UnsentIsPending,
        Stamping, NoneWithoutRow, StampedAfterAttempt, NoDuplicateUnlessLapsed, Exists
  <1> QED
    BY <1>1, <1>2, <1>3, <1>4, Zenon DEF Next

\* The invariant holds in every state of every behaviour
THEOREM JobInvariant == Spec => []JobInv
  <1> QED
    BY InitJobInv, StepJobInv, PTL DEF Spec

\* The tables, the lock and the locals of sendDueReminders keep their types
THEOREM ReminderTypes == Spec => []TypeOK
  <1>1. JobInv => TypeOK
    BY DEF JobInv
  <1> QED
    BY <1>1, JobInvariant, PTL

\* At most one run holds a lock that Redis granted and that has not expired,
\* whichever run releases, loses or outlives its lock in between
THEOREM LockHasOneHolder == Spec => []OneHolder
  <1>1. JobInv => OneHolder
    BY DEF JobInv, HeldIsLock, OneHolder
  <1> QED
    BY <1>1, JobInvariant, PTL

\* While every run worked under a lock that lasted, and none broke off between
\* a notification and its stamp, no reminder went out twice
THEOREM SentOnceUnlessLapsed == Spec => []NoDuplicateUnlessLapsed
  <1>1. JobInv => NoDuplicateUnlessLapsed
    BY DEF JobInv
  <1> QED
    BY <1>1, JobInvariant, PTL

\* reminderSentAt and sentAt are only set on reminders that were handed to the
\* notifications, whatever runs overlap, crash or find their reminder deleted
THEOREM StampsFollowAttempts == Spec => []StampedAfterAttempt
  <1>1. JobInv => StampedAfterAttempt
    BY DEF JobInv
  <1> QED
    BY <1>1, JobInvariant, PTL
=============================================================================

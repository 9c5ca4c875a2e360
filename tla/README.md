# Formal model of the appointment booking API

TLA+ modules that model this repository (a NestJS API over PostgreSQL and Redis):
bookings, reminders, accounts and sessions, notifications, the catalogue with its
cached pages, rate limiting, reviews and the figures computed from them. TLC
configurations check them on small instances, and TLAPS proves every safety property
that holds, and two refinements, for every instance (section 4). Source paths are
relative to the repository root.

    tlc -workers 2 -config MCAppointments_concurrent.cfg MCAppointments.tla
    tlapm AppointmentsProofs.tla

The slowest proof module (`AccountsProofs`) takes three minutes.

`PROJECT.json` lists the components, runs, theorems and hazards, and maps each
definition to the lines it models.

## 1. The system

Any number of API replicas serve HTTP requests against one PostgreSQL database;
Redis, when configured, carries a response cache, the rate-limit counters and
the lock of the hourly reminder job. Handlers are `async` functions: between two
`await`s of a handler any other request, on the same replica or another one, can
run. The database is used at READ COMMITTED, mostly one statement at a time; few
handlers open a transaction. So the question about every handler is what it
*read before* an await and *relies on after* it.

| Component | State | Operations that change state | Hard part | Modelled by |
|---|---|---|---|---|
| appointments (`src/appointments/appointments.service.ts`) | table `appointments`, partial unique index | create, reschedule, confirm, reject, complete, cancel | concurrent bookings; checks on stale rows; the row lock | Appointments |
| reminders (`src/appointments/appointment-reminders.service.ts`) | `reminderAt`, `reminderSentAt`, table `appointment_reminders` | set, create, delete; the hourly job | overlapping runs, crash between mail and stamp | Reminders |
| distributed lock (`src/common/services/distributed-lock.service.ts`) | one Redis key with a TTL | acquire, release | expiry under a slow run, Redis down | Reminders |
| authentication (`src/auth/auth.service.ts`) | refresh and reset tokens, users | register, login, oauthLogin, refresh, logout, forgot/resetPassword | token rotation and revocation under concurrency | Accounts, Sessions |
| accounts (`src/users/users.service.ts`) | users, preferences | changePassword, deleteMe, (de)activate, settings | revocation racing issuance | Accounts, Notifications |
| JWT user cache (`src/auth/strategies/jwt.strategy.ts`, `src/common/services/cache.service.ts`) | cache entry per user, 60 s | wrap, del | a fill that races the invalidation; a lost deletion | Accounts, Appointments |
| role switch (`src/users/users.service.ts`) | role, profile, services | switchRole | count first, transaction later | Appointments, Accounts, Catalog |
| services (`src/services/services.service.ts`) | table `services`, cached page | create, update, remove | partial updates completed from a stale row | Catalog, Appointments |
| availability (`src/availability/availability.service.ts`) | table `availabilities`, cached page | create, update, remove | validation of half an update; slots that change under a booking; the calendar against the bookings | Catalog, Appointments, Views |
| providers (`src/providers/providers.service.ts`) | table `provider_profiles` | setVerification, update | verification is never consulted | Appointments |
| notifications (`src/notifications/`) | tables `notifications`, `notification_preferences` | dispatch, deliver with retries, markRead, settings | background delivery, swallowed errors, retries | Notifications |
| rate limiting (`src/common/services/throttler-storage.service.ts`) | counter per key | increment | Redis/memory fallback | Throttle |
| reviews (`src/reviews/reviews.service.ts`) | table `reviews` | create, update, remove | check-then-insert over a changing appointment | Reviews |
| dashboard (`src/dashboard/dashboard.service.ts`) | none | reads only | figures computed in several places must agree | Views |
| public pages, health, HTTP layer, configuration, seed | none | none | | not modelled |

What makes each part correct:

- *Appointments*: no two active (PENDING or CONFIRMED) appointments of a provider
  overlap; statuses move along `TRANSITIONS`; an appointment lies inside the
  availability its request was shown; its price is the price its service had for its
  length at that time; every request ends.
- *Reminders and lock*: one run at a time while Redis answers; a reminder goes out
  once unless a run breaks off before its stamp; a stamp means that it was tried;
  a due reminder is tried in the end; a newly set reminder fires.
- *Role switch and services*: a provider who became a customer has no service on
  offer, unless a request let in as the provider's crossed the switch, and no
  appointment to come; his role and his profile agree.
- *Authentication and accounts*: an address and a Google account have one user; after
  a reset, deactivation or deletion no session survives; a session has one good
  token; an ended session is never resumed; a reset link works once.
- *Notifications*: one row and one mail per event and person; a failure at one person
  does not reach the other; chosen settings are kept; every delivery ends.
- *Caches*: what is served after an invalidation is not older than it, and what is
  stale vanishes in the end.
- *Rate limiting*: how many requests a window admits; that it always ends.
- *Reviews and dashboard*: one earned review per appointment; the calendar offers
  what can be booked; the figures agree with each other and with the handlers.

The hazards, each at its line, with the properties that would catch it, are in
`PROJECT.json`.

## 2. The modules

    Schedule --> Booking --> Ledger
                    |          |  ^
                    |          |  | INSTANCE (refinement mapping: same table)
                    +----------|--Appointments --> MCAppointments, AppointmentsProofs
                    |          +--> Reviews --> MCReviews, ReviewsProofs
                    +--> Views -----^
    Accounts --> MCAccounts, AccountsProofs
       | INSTANCE (refinement)
       v
    Sessions
    Reminders     --> MCReminders, RemindersProofs
    Notifications --> MCNotifications, NotificationsProofs
    Catalog       --> MCCatalog, CatalogProofs
    Throttle      --> MCThrottle, ThrottleProofs
    SumTheorems   --> ReviewsProofs, ThrottleProofs

In every module of concurrent handlers a request is a record in `req`: `step` says
where its handler awaits, the rest is what it carries over the await. One action is
one database or Redis step with the synchronous code after it; `Receive` begins a
request whose first read passes its checks, `Advance` takes it on, and `Fail` is an
error or the death of the replica at any step. A request refused by its first checks
(401, 403, 404, 409) leaves no trace and is no action.

**Schedule** is the arithmetic of a booking: `UTCDay`, `ToTimeString`,
availability slots, service hours, durations, prices (`assertWithinAvailability`,
`resolveDuration`, `computePriceAtBooking`). Instants are ticks since a midnight;
`ClockStep` is the unit "HH:MM" can tell apart. A price "per hour" is counted per
tick, which changes its unit and nothing else. The working hours of a service bind
only where the handler passes them: create does, reschedule does not.

**Booking** is the row of table `appointments` and the rules shared by everything
that touches it: statuses, `Transitions`, the overlap of the conflict queries
(touching ends do not collide), the partial unique index on
(provider, start) for active rows.

**Ledger** is the abstract specification of the table: booking, moving and deciding
are single steps, an interval is only taken when it is free, a status only moves
along `Transitions`.

**Appointments** is the implementation, as requests that run concurrently:

| Code | Actions |
|---|---|
| `create` | `CreateRead`, `CheckAvailability`, `LockProvider`, `CheckConflicts`, `InsertAppointment` |
| `reschedule` | `RescheduleRead`, `CheckAvailability`, `LockProvider`, `CheckConflicts`, `UpdateInterval` |
| `confirm`, `reject`, `complete` | `TransitionRead`, `UpdateStatus` |
| `cancel` | `CancelRead`, `UpdateStatus` |
| `switchRole` to customer / provider | `SwitchToCustomerRead`, `CloseProfile` / `SwitchToProviderRead`, `ReopenProfile`, then `Invalidate` |
| `services.update`, `remove` | `ServiceRead`, `UpdateService` |
| `availability.create`, `update`, `remove` | `CreateSlot`, `UpdateSlot`, `RemoveSlot` |
| `JwtStrategy.validate` through `CacheService.wrap` | `Lookup`, `FillUser`, `CacheExpires`; a hit changes nothing |
| `setVerification` | `SetVerification` |
| database error, 5 s transaction timeout, replica ends, lost cache deletion | `Fail` (rolled back, lock released) |

`appt`, `service` and `slot` are the tables, `open` the providers whose profile is
active (both transactions of switchRole set the profile's isActive and the user's
role together), `verified` the verified profiles, `cached` the role in each cached
user, `lock` the holder of each provider row's FOR UPDATE lock, `now` the clock, and
`calls` the operations of a behaviour, one of the bound `Mixes`. Three history
variables, which no guard reads: `revived` are the appointments that left a terminal
status; `basis` is what the request had read of service and slots that gave an
appointment its interval; `excused` are the closed providers of whom an admitted
request may be left.

Service and slots are read by two queries before the booking transaction, so any edit
can come between them and the write. Whether an edit of a service is let in is decided
by the role of the cached user (`SeenRole`, which is the row's when nothing is cached)
and by who owns the service; nothing asks whether the profile is open. `Lookup` is the
read of a request that misses the cache, and `FillUser` its fill; what else such a
request does is the business of another one in the model. A pricing is written as
Catalog's merge leaves it. Edits of slots read only what decides whether they go on,
and are one step each. The last write of a transaction and its commit are one step
too: no other step can see what lies between them. Ids are generated by the client
library, so any free id serves.

**Reminders** is the hourly job and the requests around it. A run acquires the
lock (`Acquire`), queries (`Query`), then per reminder notifies and stamps
(`NotifyShared`/`StampShared`, `NotifySingle`/`StampSingle`), and releases
(`Done`). `Throw` is an error anywhere, after which `finally` releases; `Crash`
is the end of the replica, which releases nothing; `Expire` is the TTL;
`RedisChanges` makes the lock client ready or not. The lock holds the token of one
run, and `Orphan` stands for the token of a run that is over. `redis` flips at any
time, so that one replica may find the client ready and another not. The request
path appears as single steps, since `Appointments` takes it apart, except for
`deleteReminder`, whose find and delete the job can come between. The reminder that
`deleteReminder` removed makes the stamp throw (Prisma P2025), which ends the run.
Setting a reminder reads and writes in one step: what it reads (the start) only
bounds the time it writes. `holding`, `lapsed`, `sends` and `tried` are history
variables. A notification (`Deliver`) always returns: deliver swallows errors, a
recipient may have no preferences, the mail client may have no key. So it adds the
reminder to `tried` and may or may not add to `sends`, which is counted up to
`MaxSends`; the stamp follows either way. A replica that restarts starts from `Waiting` again.

**Sessions** is the abstract specification of signing in: a login session is opened
once and, once ended, is never resumed.

**Accounts** is what implements it, and everything else that decides who gets in:

| Code | Actions |
|---|---|
| `register` | `RegisterRead`, `InsertUser`, `Issue` |
| `login` | `LoginRead`, `Issue` |
| `oauthLogin` | `OAuthRead`, then `InsertUser` or `LinkGoogle` or neither, `Issue` |
| `refresh` | `RefreshRead`, `Rotate` (revoked by id), `Issue` |
| `logout` | `Logout` (one `updateMany`) |
| `forgotPassword`, `resetPassword` | `ForgotRead`, `CreateLink` / `ResetRead`, `ResetPassword`, `Invalidate` |
| `changePassword`, `deleteMe`, `deactivateUser`, `activateUser` | `ChangeRead`, `ChangePassword` / `DeleteRead`, `DeleteAccount` / `DeactivateRead`, `Deactivate` / `ActivateRead`, `Activate`, then `Invalidate` |
| `switchRole` | `SwitchRead`, `Switch`, `Invalidate` |
| `JwtStrategy.validate` through `CacheService.wrap` | `ValidateMiss`, `Lookup`, `Fill`; a hit changes nothing |
| expiry | `TokenExpires`, `LinkExpires`, `CacheExpires` |

Passwords are counted, so that a changed one is new; a password hash, a token and a
link are ids. `family`, `password` and `late` in a token's row, `resetTo` in a user's
and `outdated` are history: the login a token descends from, the password that login
was checked against, whether it was issued by a request that did not see what had
been done to its grounds. Session `f` of `Sessions` is the family of the token first
issued to it; it is open while it has a good token or a refresh of one under way.
That no upcoming appointment may exist at a role switch is left to `Appointments`,
which has the appointments; the columns `updateMe` writes decide nothing. `Fail` at
"invalidate" is the deletion whose Redis error the cache service swallows.

**Notifications** follows one appointment's events to its two recipients.
`Dispatch` is the fire-and-forget call of the handlers, `Remind` the awaited one of
the reminder job, `StampReminder` the stamp after it. `ReadRecipients`, `InApp` and
`Mail` are `notifyAppointmentEvent` and `deliver` with `sendEmailWithRetry`: the
customer is served first, an error is caught per recipient. A mail has four
outcomes: accepted; not accepted although the call returns (no key, or an answer
with an error); thrown before or after it was accepted. `Lose` is the death of the
replica. `FindSettings`/`CreateSettings` and `UpdateSettings` are the
notification settings, a find-then-create and an upsert. This is where
`Reminders` takes its "notify" step from: there the step is one, here it is the
delivery, and `StampedAfterBoth` is what justifies the difference.

**Catalog** is services, availability slots and their cached pages.
`CreateService`, `UpdateServiceRead`/`WriteService`, `RemoveServiceRead` are the
service handlers: a partial pricing is completed from the row that was read and
written whole, other columns only when sent (`Absent` is a property the body leaves
out, `None` is null). `CreateSlot`, `UpdateSlot` and `RemoveSlot` are the slot
handlers; what their find reads only decides whether they go on (rows are never
deleted), so find and write are one step. `Browse`/`Fill` is the response cache of
a page, `Invalidate` the deletion after a write, `CloseProvider` what switchRole
does to the services. Of a price only its presence is kept.

**Throttle** is `ThrottlerStorageService`: `HitRedis` runs the Lua script (one step),
`HitMemory` counts in the memory of the replica, either because the client is not
ready or because the script threw, in which case it may have run. `Tick` ages the
counts; `Connection` makes a client ready or not. The memory store is a class of the
library, modelled as what this code expects of it.

**Views** holds the pure reads: `findSlotsForRange` (the calendar) and every overview
of the dashboard, as operators of the tables and the clock, with the validation of
ranges and windows.

**Reviews** is `POST`, `PATCH` and `DELETE reviews` as concurrent requests
(`CreateRead`, `LookForReview`, `Insert`; `UpdateRead`, `Update`; `RemoveRead`,
`Remove`) over appointments that change meanwhile. The appointments are `Ledger`'s
steps (`Book`, `Move`, `Decide`), which `Appointments` implements with one request at
a time, plus `OverwriteStatus`, the status write on a stale check that it adds when
requests overlap. `Reviews` composes `Ledger` and `Views`, so every state of
the two tables is also a state in which the views are compared. The availability slots
are a constant here: the views are compared as of one state of the tables, whatever
slots it has, and edits of slots are the business of `Appointments` and `Catalog`. `completed` is
history: the review checks COMPLETED before it inserts, and the status may be
overwritten in between.

The MC modules give the constants small values.

## 3. The runs

| Run | Configuration | Question | Result |
|---|---|---|---|
| booking_concurrent | `MCAppointments_concurrent.cfg` | two requests interleave at every step, under edits of services and slots and role switches | holds |
| booking_sequential | `MCAppointments_sequential.cfg` | one request at a time implements the ledger | holds |
| accounts | `MCAccounts_accounts.cfg` | sign-up, sessions, revocation and the user cache | holds |
| reminder_job | `MCReminders_job.cfg` | two runs, Redis, crashes, deletions | holds |
| reminder_delivery | `MCReminders_delivery.cfg` | due reminders are tried and stamped in the end | holds |
| notifications | `MCNotifications_notifications.cfg` | two overlapping deliveries with failures | holds |
| catalog | `MCCatalog_catalog.cfg` | edits of the offer against edits and visits | holds |
| throttle | `MCThrottle_throttle.cfg` | what a window admits, and that it ends | holds |
| marketplace | `MCReviews_marketplace.cfg` | reviews, the calendar and the dashboards | holds |
| double_booking | `MCAppointments_double_booking.cfg` | no overlap, unconditionally | violated |
| closed_provider | `MCAppointments_closed_provider.cfg` | no upcoming appointment of a closed provider | violated |
| late_reminder | `MCReminders_late_reminder.cfg` | a reminder set for later is still to be sent | violated |

What the properties say, besides one `TypeOK` per run:

*Appointments*
- `NoDoubleBookingUnlessRevived`: booking and rescheduling never double-book in any
  interleaving; the only way to an overlap is a status write on a stale check.
- `UniqueActiveStart`: what the partial unique index adds, also against revived rows.
- `InsideCheckedAvailability`: a row, after any number of interleaved reschedules and
  edits of slots, fits a slot that its provider had when the request that gave it its
  interval asked. Slots that change later, or between that check and the write, do
  not move appointments, and the property does not say they do. It is stated on
  instants, not on the "HH:MM" the code compares: an end may overrun its slot, but by
  less than a clock step. It speaks of weekday and time of day only, because the code
  does (see section 5).
- `PriceIsSnapshot`: price and length of a row are of one reading of its service: the
  price that row said for this length, and its duration if it had one. Edits of the
  service that come later, or between the read and the write, change neither.
- `ClosedOffersNothingUnlessCrossed`: a service of a provider who became a customer is
  on offer only if his switch was crossed, in one of three ways: a request let in as
  the provider's, or a lookup of his user, was under way when it committed; a request
  was let in before the cached user was deleted; or that deletion was lost.
- `RequestsEnd`: no exit of a transaction leaves the provider row locked.
- `ImplementsLedger`: with requests that do not overlap in time, `Appointments`
  refines `Ledger`; the table maps to itself.

*Reminders*
- `OneHolder`: at most one run at work holds an unexpired lock, whichever run
  releases, loses or outlives its lock in between.
- `NoDuplicateUnlessLapsed`: a reminder goes out twice only after a run worked
  without the lock, outlived it, or broke off between notification and stamp.
- `StampedAfterAttempt`: no reminder is marked as sent that no run handed to the
  notifications, whichever runs overlap, break off or find a reminder deleted. That
  a message went out the stamp does not say (see section 5).
- `DueIsEventuallyStamped`: shared and individual reminders, once due, are tried and
  stamped in the end (see fairness), although a reminder deleted under a run ends that
  run before the reminders behind it.

*Accounts*
- `AccountsAreWhole`: racing sign-ups, links and role switches leave no two users
  with one address or Google account, and no role without its profile. register and
  oauthLogin only look; the unique indexes decide.
- `LiveTokensAreAuthorized`: a good refresh token belongs to an enabled account and
  to its present password. Excepted is a token issued by a request that had passed
  its checks before the change: the code has that window (see section 5), and the
  invariant says that there is no other.
- `OneTokenPerSession`: with the same exception, rotation keeps one good token per login.
- `ResetVoidsLinks`, `LinkWorksOnce`: a reset uses up all links sent before, and a
  link sets a password once.
- `CachedUserIsCurrent`: a cache entry differs from its row only until the handler
  that changed it deletes it, after a lost deletion, or after a late fill.
- `DisabledIsShutOut`: a disabled account leaves the cache for good in the end.
- `ImplementsSessions`: an ended session is never resumed, not even by the requests
  excepted above: theirs counts as open until they are done.

*Notifications*
- `NoDuplicates`: one in-app row always, one mail unless an answer was lost.
- `FailureStaysWithItsRecipient`: what fails for one recipient does not keep the
  event from the other, nor a failed mail the in-app row.
- `StampedAfterBoth`: a reminder is stamped after both recipients had their turn.
- `ChosenSettingsStay`: the find-then-create of the settings never overwrites a choice.
- `EveryDeliveryEnds`: retries are finite.

*Catalog*
- `PricingIsWhole`: no interleaving of partial updates leaves a pricing whose type,
  unit and price do not fit.
- `SlotsAreSound`: slots are distinct, and ordered unless one bound was sent alone.
- `PagesAreCurrent`, `RemovedServiceVanishes`: as for the user cache; in addition the
  role switch leaves the pages of its services behind until they expire.

*Throttle*
- `WindowBound`: any `Ttl` ticks in a row admit at most `2 * Limit - 1` requests
  while Redis counts (a fixed window, met in its middle), and one `Limit` more per
  replica when replicas change between Redis and memory.
- `LetInAgain`: a client that goes on asking is let in infinitely often.

*Reviews and views*
- `ReviewsAreEarned`: one review per appointment, by its customer, for its provider,
  of an appointment that has been completed, also when its status is overwritten
  between check and insert.
- `FreeIsBookable`: what the calendar shows as free passes the check of the booking
  and meets no conflict. Two services compute the two sides: the calendar by whole
  days from one query, the booking by instants from another.
- `ViewsAgree`: totals against statuses and providers, a provider's day in overview,
  schedule and calendar, trends against the schedules of their days, and every
  completed appointment is reviewed or its customer is asked for a review.

### What the violations show

- **double_booking.** `confirm` reads PENDING; the customer cancels; another booking
  takes the interval at a different start; `confirm` writes CONFIRMED by id. The
  update has no condition on the status it was checked against
  (`appointments.service.ts:414`). If the starts are equal the unique index stops
  the write; otherwise two active appointments overlap.
- **closed_provider.** An appointment whose start has passed is still PENDING and is
  not counted by switchRole; after the switch it is rescheduled to the future.
  `reschedule` never looks at the provider. No concurrency is needed.
- **late_reminder.** `reminderSentAt` is never reset, and the job only looks at rows
  where it is null.

### Bounds, and why they are enough

- *booking_concurrent*: 2 requests, 2 appointments, one flexible service, starts and
  lengths in {1, 2} in a slot that ends at 3, so that two intervals can touch, overlap
  with the same start and overlap with different starts, and that one interval is
  refused. `Mixes` combines bookings and moves with status changes, with edits of the
  service (another price that puts it on offer; a duration), and with edits of slots
  (a shorter one, in place of the first or beside it, and removal), and role switches
  with edits of the service and lookups of the user. Every property of the core relates
  two rows or two requests; more requests only queue for the same lock. The clock
  stands still (`Horizon = 0`): the guards that read it only compare it with a start
  at the beginning of a request. The theorems below
  cover any number.
- *booking_sequential*: one request, every operation but lookups and edits of slots,
  which touch no appointment, two services (fixed duration and hours; flexible), a clock of three instants and starts on both sides of it, so
  that cancellation windows open and close and active appointments come to lie in
  the past.
- *reminder_job*: one appointment, one individual reminder, two overlapping runs,
  three instants, lead of two ticks: a reminder can be set before, at and after the
  lead window. Two runs suffice for a lock of one; a run slot starts over when its
  run ends. `MaxSends` is 2.
- *reminder_delivery*: one appointment, two individual reminders, so that one can be
  deleted under the run that would go on to the other. One run, which crashes and
  starts again while its lock lives on: another one beside it can only stamp more.
  Reminders that were set are sent by their time, not by the lead, which is 0; sends
  are not counted (`MaxSends` is 0).
- *accounts*: 2 requests, 2 users, one address and one Google account (what collides
  is the same one), 3 tokens (a login, its rotation, and a rival of either), 2 links,
  2 password changes. `Mixes` restricts a behaviour to a set of operations that
  interfere: each handler occurs with those that change what it reads. All
  operations at once exceed what TLC can search; a property relates one session,
  link, account or entry to one request that changes it.
- *notifications*: two deliveries, one retry (`EMAIL_RETRIES` is 2 in the code; the
  properties compare with it, and one is enough for "again" and "no more"), the
  customer uses the API (`Callers`), and `Choices` holds one choice that differs
  from the defaults in mail, in-app and kind.
- *catalog*: one service, two slots on a day of two clock times, seven bodies of an
  update that cover whole and partial pricings, clearing and activation. Services
  and slots share no state but the cache and are searched one at a time (`Mixes`).
- *throttle*: two replicas, a limit of 2 and windows of 3 ticks: the limit can be
  reached at the end of one window and again at the start of the next, and the
  bound of `WindowBound` is met with equality. Hits beyond the limit are not
  counted apart. No bound cuts off behaviours.
- *marketplace*: two appointments, two reviews, two review requests, two providers
  with slots on two days, three bookings (next to each other, a week long, and of
  the other provider without a price); days of four instants; `Instants` puts
  the clock on the first and the second day, `AskedDays` gives ranges of one day,
  of several, and of a weekday that comes round again. Appointments, review ids and
  requests are interchangeable, so the run uses symmetry; it checks no liveness.
- `CHECK_DEADLOCK FALSE` is set for the runs in which the instance does run out: all
  ids are used, every appointment or delivery is over and the clock has stopped.

### Fairness

- `Appointments`: weak fairness of the steps of an admitted request: a handler that
  awaits is resumed, and a transaction ends by itself or by Prisma's timeout. Strong
  fairness of the steps that wait for a provider row: PostgreSQL serves the waiters
  of a row lock in turn. No fairness of arriving requests, of the clock or of
  `Fail`.
- `Reminders`: weak fairness of `Expire` (the key has a TTL) and `Done`. Strong
  fairness of starting a run (the schedule fires every hour; some hour finds the lock
  free), of the query, and of notifying and stamping one reminder: this says that
  the database does not fail, and the replica does not die, at that same step every
  hour for ever. Without it nothing could be promised of a retried job.
- `Accounts`, `Catalog`: a request that was started goes on or fails, and an entry
  with a TTL expires. Nothing makes a deletion succeed: the liveness properties hold
  although every deletion may be lost.
- `Notifications`: a delivery goes on as long as its replica lives; mails may all fail.
- `Throttle`: time passes, and the client goes on asking, which is the premise of
  `LetInAgain`. Nothing is assumed of the connections.

## 4. The proofs

The theorems hold for every value of the constants that satisfies the assumptions
named in the modules (`ScheduleAssumption`, `BookingAssumption`, ...): any number of
requests, users, appointments, instants. The assumptions state what columns can
hold (a slot's weekday is 0..6 and its bounds are "HH:MM"; prices and durations are
natural numbers or null), that ids are no null and of one kind each (an
appointment is no individual reminder), that there are finitely many replicas and,
where rows are added up, rows, and, of the bounds, that they are numbers. TLC
evaluates them in every run.

The properties follow from one inductive invariant per module, in `Appointments`
from several that rest on each other.

### Appointments (`AppointmentsProofs`)

| Theorem | Property | Inductive invariant |
|---|---|---|
| `TypeCorrect` | `TypeOK` | `TypeInv`: the types, positive lengths, and an existing row behind every reschedule or status request |
| `BookingsDoNotCollide` | `NoDoubleBookingUnlessRevived` | `SafeInv` |
| `IndexHolds` | `UniqueActiveStart` | the property itself, on top of `TypeInv` and `TargetInv` |
| `StaysInsideCheckedAvailability` | `InsideCheckedAvailability` | `FitInv`: rows and requests past the check have intervals that fit the slots they read; `ClockReading` then bounds what "HH:MM" cuts off |
| `PriceStaysSnapshot` | `PriceIsSnapshot` | `FitInv`, whose part `QuoteInv` says that requests in flight carry the price and the length of the service row they read |
| `SwitchTakesOffOffer` | `ClosedOffersNothingUnlessCrossed` | `ClosedInv` |
| `SequentialIsLedger` | `ImplementsLedger` | `ChecksHold` |
| `SequentialNeverDoubleBooks` | `NoDoubleBooking` | the refinement and the ledger |
| `SequentialFollowsTransitions` | `Ledger`'s `StatusFollowsTransitions` | the refinement and the ledger |

`NoDoubleBookingUnlessRevived` is not inductive: an insert looks safe only because
of what the request found before. The strengthening says that a request past
`LockProvider` holds its provider's lock (`LockInv`), that an insert aims at a free
id and a move at its own row (`TargetInv`), and that a request that found no
conflict still has none except with revived rows (`ClearInv`). The last part is
stable because only the lock holder changes an interval of that provider and
because a status write that makes a row active from a terminal status marks it
revived.

`ClosedInv` says that a closed provider whose switch nothing crossed is shut out
(`ShutOut`): his services are off the offer, no request that was let in as a
provider's or could fill the cache with that role is left, and his cached user is
none, a customer, or about to be deleted. It holds in every interleaving; what crosses
a switch is the history `excused`.

The sequential theorems have the premise `[]Sequential`: no two of the requests,
however many there are, are in flight at the same time. `ChecksHold` says that
what a handler has read (the appointment is active, the change is legal,
the interval is free) still holds when it writes. Only the
premise makes that stable; the run *booking_sequential* meets it by having one
request slot, and the runs that expect a violation show what happens without it.

The ledger itself never double-books (`LedgerNeverDoubleBooks`) and its statuses follow
the transitions (`LedgerFollowsTransitions`). With the refinement this carries over:
requests that do not overlap in time never double-book
(`SequentialNeverDoubleBooks`), while the run *double_booking* violates the same
`NoDoubleBooking` with two that do. The documented property thus fails through
concurrency and through nothing else.

### Accounts (`AccountsProofs`)

| Theorem | Property | Rests on |
|---|---|---|
| `Types` | `TypeOK` | `TypeInv` with the payload each step needs |
| `AuthorizedTokens` | `LiveTokensAreAuthorized` | `IInv` |
| `VoidLinks` | `ResetVoidsLinks` | `IInv` |
| `LinksWorkOnce` | `LinkWorksOnce` (of steps) | `IInv` |
| `SessionsHaveOneToken` | `OneTokenPerSession` | `IInv`, `HolderInv` |
| `SessionsImplemented` | `ImplementsSessions` (refinement) | `IInv` |
| `WholeAccounts` | `AccountsAreWhole` | `IInv`, `UniqueInv` |
| `CurrentCache` | `CachedUserIsCurrent` | `IInv` and the property |

A token is issued on grounds that were read one or two steps before. `IInv`
(`IInvariant`) therefore says of every request in flight that what it read is still
so unless it is `late` (`Sound`: the password it was checked against is the present
one, the token it exchanges is of the session it names, the link it presents is
not used up), of every id reserved for an insert that one request has it
(`OwnIds`), and of every stored token and link that its user and session exist
(`TableInv`). Every handler that changes a password or disables an account marks
the requests it overtakes; this is the step the proof has to make for each of
them (`SoundOvertaken`). `HolderInv` closes the gap between the two writes of a
refresh: there the session has no good token, and the request that will issue the
next one stands for it.

### Reminders (`RemindersProofs`)

`JobInvariant` (`JobInv`) yields `ReminderTypes` (`TypeOK`), `LockHasOneHolder`
(`OneHolder`), `SentOnceUnlessLapsed` (`NoDuplicateUnlessLapsed`) and
`StampsFollowAttempts` (`StampedAfterAttempt`). `NoDuplicateUnlessLapsed` needs a chain:
a run that holds the lock is the one whose token Redis has (`HeldIsLock`), while
nothing has lapsed every run that works holds it (`WorkIsHeld`), so what such a
run has queried and not yet sent nobody else has sent (`YetToSend`), and what was
never sent is not marked as sent (`UnsentIsPending`).

### Services and slots (`CatalogProofs`)

`CatalogInvariant` (`CatalogInv`) yields `CatalogTypes`, `PricingStaysWhole`
(`PricingIsWhole`), `SlotsStaySound` (`SlotsAreSound`) and `PagesStayCurrent`
(`PagesAreCurrent`). A pricing is completed from a row that may have changed when
it is written. The invariant says that what an update carries is whole by itself, or
leaves the pricing alone (`Edits`), so that the row it meets does not matter.

### Notifications (`NotificationsProofs`)

`NotificationsInvariant` (`NotificationsInv`) yields `NotificationTypes`,
`NobodyIsToldTwice` (`NoDuplicates`), `FailuresStay`
(`FailureStaysWithItsRecipient`), `StampsAwaitBoth` (`StampedAfterBoth`) and
`ChoicesStay` (`ChosenSettingsStay`). The strengthening, `DeliveryFits`, says what a
person can have received by the step a delivery is at: nothing before his turn
(`Ahead`), his in-app row or its failure once it is over (`Past`), and during his
mails only accepted ones whose answer was lost. Inboxes are sequences of any length.

### Reviews and views (`ReviewsProofs`)

`ReviewsInvariant` (`ReviewsInv`) yields `ReviewTypes` and `ReviewsStayEarned`
(`ReviewsAreEarned`). A review under way is earned although its appointment can
leave COMPLETED before the insert, because `completed` only grows and a row never
changes its parties (`CompletedStay`, `AlreadyEarned`).

`FreeStaysBookable` (`FreeIsBookable`) is arithmetic rather than induction: that a day
and a time of day make an instant with that day and time (`DayOfInstant`), that a
bound in "HH:MM" is not cut off (`CutOff`), that an appointment the conflict query
finds lies on a day the calendar query reaches (`ConflictsAreShown`).

`ViewsAlwaysAgree` (`ViewsAgree`) compares figures that different queries add up. It is
a matter of sets: the statuses, and the providers, divide the appointments into
disjoint parts whose sizes add up (`SizeOfParts`); an instant belongs to one day
(`DaySpan`), so what the days of a window earned is a part of what was earned in all,
and prices are never negative (`SumOfParts`, `SumOfPart`). `DaysAgree` is its part without sums. That every
completed appointment is reviewed or still asked for (`ReviewsAlwaysAgree`) divides the
completed ones by their reviews, of which there is at most one each.

### Rate limiting (`ThrottleProofs`)

`ThrottleInvariant` (`ThrottleInv`) yields `ThrottleTypes` (`TypeOK`) and
`WindowsAreBounded` (`WindowBound`). `WindowBound` adds up what any span of `Ttl` ticks
let in, while the code counts in a window that began somewhere in that span, and
in the memory of each replica. The invariant takes the two apart. `ByRedis` is what was
let in less what the memories hold, age by age; each memory holds at most `Limit`
(`MemoryInv`). `InWindow` says of `ByRedis`, with `left` ticks to go: what is younger than
the window is at most what the counter says; as the first hit is as old as the window,
what came after it is one less; and what is older, left of the windows before, is
less than `Limit`. When the key expires the first hit is forgotten with the same
tick, which is why a whole window leaves `Limit - 1` behind, and why the bound is
`2 * Limit - 1`. That the sum over ages and replicas is the sum over replicas and ages
(`SumExchange`) puts the two together.

### Sums (`SumTheorems`)

The models add up with the folds of the community modules, whose definition chooses an
order of the summands and recurses on subsets. `SumTheorems` shows that the
function this recursion defines exists on the subsets of a finite set (`TableExists`),
and that the choice of order does not matter (`SumPicked`, `SumSplits`). The usual laws
follow: disjoint parts, bounds, equal summands, exchange, sizes. The induction
theorems of the library take an operator as a parameter, which no installed prover can
instantiate. Here induction is over a *set* `F` of sets or numbers instead
(`PartsInSet`, `NaturalsInSet`): a smallest subset that is not in `F` would contradict
the step. A fact to prove by induction is put as membership in a set `{T \in SUBSET S : ...}`.

### Only model-checked

Liveness under fairness is out of the prover's reach: `RequestsEnd`,
`DueIsEventuallyStamped`, `DisabledIsShutOut`, `EveryDeliveryEnds`,
`RemovedServiceVanishes`, `LetInAgain`. All other properties of the runs that hold are
theorems.

## 5. What reading the code showed besides

The models follow the code in each of these; no run is devoted to them.

- `create` and `reschedule` never look at `isVerified`
  (`src/appointments/appointments.service.ts:57`), although `README.md:56` names
  verification as a condition.
- An appointment of a week passes `assertWithinAvailability`
  (`appointments.service.ts:495`), which compares weekday and time of day of both
  ends; a requested duration has no maximum.
- `reschedule` (`appointments.service.ts:194`) selects neither the hours of the
  service nor its isActive.
- Nothing but the role of the cached user keeps a provider who became a customer from
  editing his services (`src/services/services.service.ts:147` asks who owns them): an
  update let in before the switch, or within a minute of it on a cache whose deletion
  was lost or overtaken by a fill, puts a service back on offer. `create` then refuses
  the booking, as it asks for the profile (`appointments.service.ts:57`), while
  `GET services` shows the service.
- Slots and prices are read before the booking transaction
  (`appointments.service.ts:483`, `:46`, `:150`). An edit in between is not noticed,
  and no later edit moves an appointment or changes its price.
- The job stamps a reminder as sent whether or not anything went out
  (`appointment-reminders.service.ts:86`, `:98`): deliver swallows every error
  (`notifications.service.ts:175`), and without a mail key nothing is sent at all
  (`resend.service.ts:24`). The stamp is never taken back.
- A run of the reminder job works through what it queried: an appointment cancelled
  since is reminded of (`appointment-reminders.service.ts:81`).
- Background deliveries read the appointment when they run: the mail about a
  creation can follow the one about the cancellation
  (`src/notifications/notifications.service.ts:87`).
- `ResendService` logs an answer with an error and returns
  (`src/notifications/resend.service.ts:34`), so that only thrown transport
  errors are tried again.
- `forgotPassword` fails when the mail keeps failing (`src/auth/auth.service.ts:304`);
  `README.md:197` says that sending gives up rather than fail the request.
- A refresh, login or OAuth sign-in under way during a password change, deactivation
  or deletion issues a refresh token afterwards (`late` in `Accounts`).
- `deleteMe` keeps the Google id, so a later sign-in with the same Google account
  finds no address and is refused by the unique index; the profile of a deleted
  provider stays open.
- A cache entry filled with what was read before an invalidation outlives it by up to
  its TTL; `updateMe` and, for service pages, `switchRole` delete none.
- An update of one bound of a slot is not compared with the other
  (`src/availability/availability.service.ts:144`). A removed slot keeps its place in
  the unique index and cannot be created again.
- The global rate limit passes `ttl` in the unit of its variable
  (`src/app.module.ts:62`), while the limits of the authentication routes multiply
  by 1000.
- `customerOverview` counts as completed what started before now, and as pending
  every completed appointment without a review: as `complete` does not look at the
  clock, the second can exceed the first.

## 6. Not modelled

- *Dashboard and cached pages*: the queries of an overview run side by side
  and are no snapshot, and overviews are cached for a minute; `Views` reads them off
  one state. The sorting of the top providers.
- *List caches* (`GET services`, public pages): they expire and are never deleted.
- *Providers*: the descriptive columns of `update`, which behave as those of a service.
  A cached service page also carries the name and the place of its provider, whose
  `update` deletes no service page; `Catalog` follows only what the row of the service
  says.
- *HTTP layer*: guards, filters, DTO validation, response shaping, pagination. What
  the guards admit is the guard of the modelled request.
- *Texts, configuration, seed, deployment, health*: no state the rest relies on.
- In the booking handlers a row lock taken by the foreign keys of an insert is
  compatible with the other statements and left out, as are the range of
  `Decimal(10, 2)` and the rounding of prices to cents.

## 7. Plan

Every component with state is modelled, and every safety property that holds is proved;
liveness stays with the runs (section 4). What could follow:

1. The snapshots behind an overview: its queries as separate steps, with what still
   holds of the figures then.
2. The queries of the list caches, if handlers ever delete them.

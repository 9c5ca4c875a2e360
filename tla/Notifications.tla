---------------------------- MODULE Notifications ----------------------------
(***************************************************************************)
(* How the events of an appointment reach its customer and its provider.   *)
(* A delivery reads both recipients with their preferences, then serves    *)
(* the customer and after him the provider: an in-app row, then a mail     *)
(* that is tried again when the transport throws.  Request handlers start  *)
(* a delivery and do not wait for it; the reminder job does, and stamps    *)
(* the reminder afterwards.  Deliveries run side by side, and die with     *)
(* their replica.                                                          *)
(***************************************************************************)
EXTENDS Integers, Sequences

CONSTANTS
    None,               \* no row
    Customer, Provider, \* the two recipients of every event
    MaxDeliveries,      \* bound: deliveries started
    EmailRetries,       \* EMAIL_RETRIES
    Callers,            \* bound: recipients who use the API meanwhile
    Choices             \* bound: the preferences they choose between

Events == {"CREATED", "CONFIRMED", "CANCELLED", "REMINDER"}

Preferences == [emailEnabled : BOOLEAN, inAppEnabled : BOOLEAN, types : SUBSET Events]

ASSUME NotificationsAssumption ==
    /\ Customer # Provider
    /\ MaxDeliveries \in Nat
    /\ EmailRetries \in Nat
    /\ Callers \subseteq {Customer, Provider}
    /\ Choices \subseteq Preferences
    /\ None \notin Preferences

People == {Customer, Provider}
Deliveries == 1..MaxDeliveries

VARIABLES
    stage,      \* the last event of the appointment
    delivery,   \* the deliveries, numbered as they were started
    inbox,      \* table notifications: the deliveries each person has a row of, in order
    read,       \* rows with readAt
    mails,      \* mails the transport accepted, by delivery and person
    reminded,   \* reminderSentAt is set
    prefs,      \* table notification_preferences
    creating,   \* people with a request for settings that found no row
    chosen,     \* history: what each person last chose
    excused,    \* history: deliveries and persons with a lost answer or a failed insert
    tried       \* history: deliveries and persons whose turn came to its end

vars == <<stage, delivery, inbox, read, mails, reminded, prefs, creating, chosen, excused, tried>>

Defaults == [emailEnabled |-> TRUE, inAppEnabled |-> TRUE, types |-> Events]

Init ==
    /\ stage = "none"
    /\ delivery = <<>>
    /\ inbox = [p \in People |-> <<>>]
    /\ read = {}
    /\ mails = [d \in Deliveries |-> [p \in People |-> 0]]
    /\ reminded = FALSE
    /\ prefs \in [People -> {None, Defaults}]
    /\ creating = {}
    /\ chosen = [p \in People |-> None]
    /\ excused = {}
    /\ tried = {}

Started == 1..Len(delivery)
Step(d) == delivery[d].step
Over(d) == Step(d) \in {"over", "stamped", "lost"}

-----------------------------------------------------------------------------
(* What starts a delivery *)

Start(event) ==
    /\ Len(delivery) < MaxDeliveries
    /\ delivery' = Append(delivery, [event |-> event, step |-> "read", to |-> Customer,
                                     attempt |-> 0, wants |-> [p \in People |-> None]])

\* create, confirm and cancel dispatch when their write is done
Dispatch(event) ==
    /\ \/ event = "CREATED" /\ stage = "none"
       \/ event = "CONFIRMED" /\ stage = "CREATED"
       \/ event = "CANCELLED" /\ stage \in {"CREATED", "CONFIRMED"}
    /\ Start(event)
    /\ stage' = event
    /\ UNCHANGED <<inbox, read, mails, reminded, prefs, creating, chosen, excused, tried>>

\* The job, one run at a time, for an active appointment
Remind ==
    /\ stage \in {"CREATED", "CONFIRMED"}
    /\ ~reminded
    /\ \A d \in Started : delivery[d].event = "REMINDER" => Step(d) = "lost"
    /\ Start("REMINDER")
    /\ UNCHANGED <<stage, inbox, read, mails, reminded, prefs, creating, chosen, excused, tried>>

\* Mutant: the job starts the delivery as the request handlers do
StampWithoutWaiting(d) ==
    /\ delivery[d].event = "REMINDER"
    /\ Step(d) # "lost"
    /\ ~reminded
    /\ reminded' = TRUE
    /\ UNCHANGED <<stage, delivery, inbox, read, mails, prefs, creating, chosen, excused, tried>>

StampReminder(d) ==
    /\ delivery[d].event = "REMINDER"
    /\ Step(d) = "over"
    /\ delivery' = [delivery EXCEPT ![d].step = "stamped"]
    /\ reminded' = TRUE
    /\ UNCHANGED <<stage, inbox, read, mails, prefs, creating, chosen, excused, tried>>

-----------------------------------------------------------------------------
(* A delivery *)

\* The appointment with both recipients and their preferences in one query
ReadRecipients(d) ==
    /\ Step(d) = "read"
    /\ delivery' = [delivery EXCEPT ![d].step = "in-app", ![d].wants = prefs]
    /\ UNCHANGED <<stage, inbox, read, mails, reminded, prefs, creating, chosen, excused, tried>>

Wants(d) == delivery[d].wants[delivery[d].to]
Served(d) == <<d, delivery[d].to>>

\* Mutant: an error at the customer ends the delivery
NextRecipientUnlessFailed(d, failed) ==
    /\ tried' = tried \cup {Served(d)}
    /\ delivery' = [delivery EXCEPT ![d] =
           IF @.to = Customer /\ ~failed
           THEN [@ EXCEPT !.to = Provider, !.step = "in-app", !.attempt = 0]
           ELSE [@ EXCEPT !.step = "over"]]

\* deliver returns to notifyAppointmentEvent, whether or not it caught an error
NextRecipient(d, failed) ==
    /\ tried' = tried \cup {Served(d)}
    /\ delivery' = [delivery EXCEPT ![d] =
           IF @.to = Customer
           THEN [@ EXCEPT !.to = Provider, !.step = "in-app", !.attempt = 0]
           ELSE [@ EXCEPT !.step = "over"]]

ToMail(d) == delivery' = [delivery EXCEPT ![d].step = "mail"] /\ UNCHANGED tried

\* A person without a preference row is passed over
InApp(d) ==
    /\ Step(d) = "in-app"
    /\ IF Wants(d) = None THEN NextRecipient(d, FALSE) /\ UNCHANGED <<inbox, excused>>
       ELSE IF ~Wants(d).inAppEnabled THEN ToMail(d) /\ UNCHANGED <<inbox, excused>>
       ELSE \/ /\ inbox' = [inbox EXCEPT ![delivery[d].to] = Append(@, d)]
               /\ ToMail(d)
               /\ UNCHANGED excused
            \/ /\ NextRecipient(d, TRUE)                        \* the insert fails
               /\ excused' = excused \cup {Served(d)}
               /\ UNCHANGED inbox
    /\ UNCHANGED <<stage, read, mails, reminded, prefs, creating, chosen>>

WantsMail(d) == Wants(d).emailEnabled /\ delivery[d].event \in Wants(d).types

Accept(d) == mails' = [mails EXCEPT ![d][delivery[d].to] = @ + 1]

\* Mutant: the loop starts over instead of giving up
RetryForEver(d) ==
    /\ delivery' = [delivery EXCEPT ![d].attempt = IF @ < EmailRetries THEN @ + 1 ELSE 0]
    /\ UNCHANGED tried

\* Mutant: the limit is compared after one attempt too many
RetryOnceMore(d) ==
    IF delivery[d].attempt <= EmailRetries
    THEN /\ delivery' = [delivery EXCEPT ![d].attempt = @ + 1]
         /\ UNCHANGED tried
    ELSE NextRecipient(d, TRUE)

\* Mutant: the retry is around the whole delivery to a person
RetryDeliver(d) ==
    IF delivery[d].attempt < EmailRetries
    THEN /\ delivery' = [delivery EXCEPT ![d].attempt = @ + 1, ![d].step = "in-app"]
         /\ UNCHANGED tried
    ELSE NextRecipient(d, TRUE)

\* sendEmailWithRetry after the transport threw
Retry(d) ==
    IF delivery[d].attempt < EmailRetries
    THEN /\ delivery' = [delivery EXCEPT ![d].attempt = @ + 1]
         /\ UNCHANGED tried
    ELSE NextRecipient(d, TRUE)

(***************************************************************************)
(* One call of ResendService.sendEmail: it returns when the mail was       *)
(* accepted, and also when Resend answered with an error or no key is      *)
(* configured; it throws when the transport fails, before or after Resend  *)
(* took the mail.                                                          *)
(***************************************************************************)
Mail(d) ==
    /\ Step(d) = "mail"
    /\ IF ~WantsMail(d) THEN NextRecipient(d, FALSE) /\ UNCHANGED <<mails, excused>>
       ELSE \/ NextRecipient(d, FALSE) /\ Accept(d) /\ UNCHANGED excused
            \/ NextRecipient(d, FALSE) /\ UNCHANGED <<mails, excused>>
            \/ Retry(d) /\ UNCHANGED <<mails, excused>>
            \/ Retry(d) /\ Accept(d) /\ excused' = excused \cup {Served(d)}
    /\ UNCHANGED <<stage, inbox, read, reminded, prefs, creating, chosen>>

\* The replica dies, or the query for the recipients throws
Lose(d) ==
    /\ ~Over(d)
    /\ delivery' = [delivery EXCEPT ![d].step = "lost"]
    /\ UNCHANGED <<stage, inbox, read, mails, reminded, prefs, creating, chosen, excused, tried>>

-----------------------------------------------------------------------------
(* What people do *)

\* PATCH notifications/:id/read finds a row of the caller's own
MarkRead(p, d) ==
    /\ \E i \in 1..Len(inbox[p]) : inbox[p][i] = d
    /\ read' = read \cup {<<d, p>>}
    /\ UNCHANGED <<stage, delivery, inbox, mails, reminded, prefs, creating, chosen, excused, tried>>

\* getNotificationSettings: find, and create when there is no row
FindSettings(p) ==
    /\ prefs[p] = None
    /\ p \notin creating                                         \* bound
    /\ creating' = creating \cup {p}
    /\ UNCHANGED <<stage, delivery, inbox, read, mails, reminded, prefs, chosen, excused, tried>>

\* Mutant: the row is written whether or not there is one
CreateSettingsAnyway(p) ==
    /\ p \in creating
    /\ prefs' = [prefs EXCEPT ![p] = Defaults]
    /\ creating' = creating \ {p}
    /\ UNCHANGED <<stage, delivery, inbox, read, mails, reminded, chosen, excused, tried>>

\* userId is unique: the second create is refused
CreateSettings(p) ==
    /\ p \in creating
    /\ prefs' = [prefs EXCEPT ![p] = IF @ = None THEN Defaults ELSE @]
    /\ creating' = creating \ {p}
    /\ UNCHANGED <<stage, delivery, inbox, read, mails, reminded, chosen, excused, tried>>

\* An upsert
UpdateSettings(p, choice) ==
    /\ prefs' = [prefs EXCEPT ![p] = choice]
    /\ chosen' = [chosen EXCEPT ![p] = choice]
    /\ UNCHANGED <<stage, delivery, inbox, read, mails, reminded, creating, excused, tried>>

-----------------------------------------------------------------------------
Work(d) == ReadRecipients(d) \/ InApp(d) \/ Mail(d)

Next ==
    \/ \E event \in Events : Dispatch(event)
    \/ Remind
    \/ \E d \in Started : Work(d) \/ Lose(d) \/ StampReminder(d)
    \/ \E p \in Callers :
          \/ \E d \in Deliveries : MarkRead(p, d)
          \/ FindSettings(p)
          \/ CreateSettings(p)
          \/ \E choice \in Choices : UpdateSettings(p, choice)

Spec == Init /\ [][Next]_vars

\* A delivery goes on unless its replica dies
Fairness == \A d \in Deliveries : WF_vars(d \in Started /\ Work(d))

FairSpec == Spec /\ Fairness

-----------------------------------------------------------------------------
(* Properties *)

\* The variables keep their types, and no delivery tries a mail too often.
TypeOK ==
    /\ stage \in Events \cup {"none"}
    /\ \A d \in Started :
          delivery[d] \in [event : Events,
                           step : {"read", "in-app", "mail", "over", "stamped", "lost"},
                           to : People, attempt : 0..EmailRetries,
                           wants : [People -> Preferences \cup {None}]]
    /\ \A p \in People : \A i \in 1..Len(inbox[p]) : inbox[p][i] \in Started
    /\ read \subseteq Deliveries \X People
    /\ mails \in [Deliveries -> [People -> 0..EmailRetries + 1]]
    /\ prefs \in [People -> Preferences \cup {None}]

RowsOf(d, p) == {i \in 1..Len(inbox[p]) : inbox[p][i] = d}

(***************************************************************************)
(* One event gives a person one in-app row and one mail at most: retries   *)
(* repeat a mail only when Resend took it and its answer was lost.         *)
(***************************************************************************)
NoDuplicates ==
    \A d \in Started, p \in People :
        /\ \A i, j \in RowsOf(d, p) : i = j
        /\ <<d, p>> \notin excused => mails[d][p] <= 1

(***************************************************************************)
(* Neither a mail that fails for good nor a failed insert for the customer *)
(* keeps the event from the provider: whoever wants in-app rows has his    *)
(* when the delivery is over, unless the insert of that very row failed.   *)
(***************************************************************************)
FailureStaysWithItsRecipient ==
    \A d \in Started, p \in People :
        /\ Step(d) \in {"over", "stamped"}
        /\ delivery[d].wants[p] # None
        /\ delivery[d].wants[p].inAppEnabled
        /\ <<d, p>> \notin excused
        => RowsOf(d, p) # {}

(***************************************************************************)
(* The job "awaits delivery before marking a reminder sent" (README.md):   *)
(* a reminder is stamped only when both recipients had their turn.         *)
(***************************************************************************)
StampedAfterBoth ==
    reminded => \E d \in Started : /\ delivery[d].event = "REMINDER"
                                   /\ \A p \in People : <<d, p>> \in tried

(***************************************************************************)
(* Settings a person chose stay until he chooses again: a request for the  *)
(* settings that found no row does not put the defaults over them.         *)
(***************************************************************************)
ChosenSettingsStay == \A p \in People : chosen[p] # None => prefs[p] = chosen[p]

(***************************************************************************)
(* Every delivery comes to an end, also when no mail ever gets through.    *)
(***************************************************************************)
EveryDeliveryEnds == []<>(\A d \in Started : Over(d))
=============================================================================

------------------------- MODULE NotificationsProofs -------------------------
(***************************************************************************)
(* Proofs about Notifications for every value of its constants: any number *)
(* of deliveries, retries and preferences.                                 *)
(***************************************************************************)
EXTENDS Notifications, SequenceTheorems, TLAPS

-----------------------------------------------------------------------------
(* The inductive invariant *)

DeliveryStates == [event   : Events,
                   step    : {"read", "in-app", "mail", "over", "stamped", "lost"},
                   to      : People,
                   attempt : 0..EmailRetries,
                   wants   : [People -> Preferences \cup {None}]]

RowIn(d, p) == \E i \in 1..Len(inbox[p]) : inbox[p][i] = d
RowOnce(d, p) == \A i, j \in 1..Len(inbox[p]) : inbox[p][i] = d /\ inbox[p][j] = d => i = j
Excused(d, p) == <<d, p>> \in excused
Tried(d, p) == <<d, p>> \in tried

\* The delivery has not reached this person yet
Ahead(d, p) ==
    \/ Step(d) = "read"
    \/ delivery[d].to = Customer /\ p = Provider
    \/ Step(d) = "in-app" /\ delivery[d].to = p

Untouched(d, p) == ~RowIn(d, p) /\ mails[d][p] = 0 /\ ~Excused(d, p)

\* The delivery is past the in-app row of this person
Past(d, p) ==
    \/ Step(d) \in {"over", "stamped"}
    \/ delivery[d].to = Provider /\ p = Customer
    \/ Step(d) = "mail" /\ delivery[d].to = p

Entitled(d, p) == delivery[d].wants[p] # None /\ delivery[d].wants[p].inAppEnabled

\* While a mail is tried again, every mail accepted so far is one whose answer
\* was lost
PersonFits(d, p) ==
    /\ RowOnce(d, p)
    /\ ~Excused(d, p) => mails[d][p] <= 1
    /\ Ahead(d, p) => Untouched(d, p)
    /\ Past(d, p) /\ Entitled(d, p) => RowIn(d, p) \/ Excused(d, p)
    /\ Step(d) = "mail" /\ delivery[d].to = p =>
           /\ mails[d][p] <= delivery[d].attempt
           /\ mails[d][p] > 0 => Excused(d, p)

DeliveryFits(d) ==
    /\ Step(d) = "read" => delivery[d].to = Customer /\ delivery[d].attempt = 0
    /\ Step(d) = "in-app" => delivery[d].attempt = 0
    /\ Step(d) = "mail" => Wants(d) # None
    /\ Step(d) \in {"over", "stamped"} => delivery[d].to = Provider /\ Tried(d, Provider)
    /\ delivery[d].to = Provider => Tried(d, Customer)
    /\ \A p \in People : PersonFits(d, p)

Typed ==
    /\ stage \in Events \cup {"none"}
    /\ delivery \in Seq(DeliveryStates)
    /\ Len(delivery) <= MaxDeliveries
    /\ inbox \in [People -> Seq(Deliveries)]
    /\ read \subseteq Deliveries \X People
    /\ mails \in [Deliveries -> [People -> 0..EmailRetries + 1]]
    /\ prefs \in [People -> Preferences \cup {None}]
    /\ chosen \in [People -> Preferences \cup {None}]

\* Nobody heard of a delivery that was not started
Unstarted == \A d \in Deliveries \ Started, p \in People : Untouched(d, p)

NotificationsInv ==
    /\ Typed
    /\ \A d \in Started : DeliveryFits(d)
    /\ Unstarted
    /\ StampedAfterBoth
    /\ ChosenSettingsStay

-----------------------------------------------------------------------------
(* Deliveries, rows and mails *)

\* What the invariant says of a delivery that was started
LEMMA DeliveryType ==
    ASSUME NotificationsInv, NEW d \in Started
    PROVE  /\ delivery[d] \in DeliveryStates
           /\ delivery[d].event \in Events /\ delivery[d].to \in People
           /\ delivery[d].step \in {"read", "in-app", "mail", "over", "stamped", "lost"}
           /\ delivery[d].attempt \in 0..EmailRetries
           /\ delivery[d].wants \in [People -> Preferences \cup {None}]
           /\ Step(d) = delivery[d].step
           /\ d \in Deliveries
           /\ DeliveryFits(d)
  <1>1. delivery \in Seq(DeliveryStates) /\ Len(delivery) <= MaxDeliveries /\ DeliveryFits(d)
    BY DEF NotificationsInv, Typed
  <1>2. delivery[d] \in DeliveryStates
    BY <1>1, ElementOfSeq DEF Started
  <1>3. d \in Deliveries
    BY <1>1, LenProperties, NotificationsAssumption DEF Started, Deliveries
  <1> QED
    BY <1>1, <1>2, <1>3 DEF DeliveryStates, Step

\* A delivery that moves on leaves the others where they are
LEMMA DeliveryMoves ==
    ASSUME NotificationsInv, NEW d \in Started, NEW q \in DeliveryStates,
           delivery' = [delivery EXCEPT ![d] = q]
    PROVE  /\ delivery' \in Seq(DeliveryStates)
           /\ Len(delivery') = Len(delivery) /\ Started' = Started
           /\ delivery'[d] = q
           /\ \A e \in Started \ {d} : delivery'[e] = delivery[e]
  <1>1. delivery \in Seq(DeliveryStates)
    BY DEF NotificationsInv, Typed
  <1> QED
    BY <1>1, ExceptSeq DEF Started

\* What a step leaves as it was between a delivery and a person
Same(e, p) ==
    /\ RowIn(e, p)' <=> RowIn(e, p)
    /\ RowOnce(e, p)' <=> RowOnce(e, p)
    /\ mails'[e][p] = mails[e][p]
    /\ Excused(e, p)' <=> Excused(e, p)

\* A delivery that neither moves nor is touched still fits
LEMMA OthersFit ==
    ASSUME NotificationsInv, NEW e \in Started, delivery'[e] = delivery[e],
           \A p \in People : Same(e, p), tried \subseteq tried'
    PROVE  DeliveryFits(e)'
  <1>1. DeliveryFits(e)
    BY DEF NotificationsInv
  <1>2. ASSUME NEW p \in People
        PROVE  PersonFits(e, p)'
    <2>1. PersonFits(e, p) /\ Same(e, p)
      BY <1>1 DEF DeliveryFits
    <2>2. (Ahead(e, p)' <=> Ahead(e, p)) /\ (Past(e, p)' <=> Past(e, p))
          /\ (Entitled(e, p)' <=> Entitled(e, p)) /\ Step(e)' = Step(e)
      BY DEF Ahead, Past, Entitled, Step
    <2> QED
      BY <2>1, <2>2 DEF PersonFits, Same, Untouched
  <1>3. /\ Step(e)' = Step(e) /\ Wants(e)' = Wants(e)
        /\ \A p \in People : Tried(e, p) => Tried(e, p)'
    BY DEF Step, Wants, Tried
  <1>4. Customer \in People /\ Provider \in People
    BY DEF People
  <1> QED
    BY <1>1, <1>2, <1>3, <1>4 DEF DeliveryFits

\* A step of one delivery
LEMMA DeliveryStep ==
    ASSUME NotificationsInv, NEW d \in Started, NEW q \in DeliveryStates,
           delivery' = [delivery EXCEPT ![d] = q], q.event = delivery[d].event,
           inbox' \in [People -> Seq(Deliveries)],
           mails' \in [Deliveries -> [People -> 0..EmailRetries + 1]],
           \A e \in Deliveries \ {d}, p \in People : Same(e, p),
           tried \subseteq tried', DeliveryFits(d)',
           reminded' => reminded \/ (q.event = "REMINDER" /\ q.step = "stamped"),
           UNCHANGED <<stage, read, prefs, chosen>>
    PROVE  NotificationsInv'
  <1>1. /\ delivery' \in Seq(DeliveryStates)
        /\ Len(delivery') = Len(delivery) /\ Started' = Started /\ delivery'[d] = q
        /\ \A e \in Started \ {d} : delivery'[e] = delivery[e]
    BY DeliveryMoves
  <1>2. Typed'
    BY <1>1 DEF NotificationsInv, Typed
  <1>3. ASSUME NEW e \in Started
        PROVE  DeliveryFits(e)'
    <2>1. CASE e # d
      <3>1. e \in Deliveries
        BY DeliveryType
      <3> QED
        BY <1>1, <2>1, <3>1, OthersFit
    <2>2. CASE e = d
      BY <2>2
    <2> QED
      BY <2>1, <2>2
  <1>4. Unstarted'
    <2>1. ASSUME NEW e \in Deliveries \ Started, NEW p \in People
          PROVE  Untouched(e, p)'
      <3>1. Untouched(e, p) /\ Same(e, p)
        BY DEF NotificationsInv, Unstarted
      <3> QED
        BY <3>1 DEF Untouched, Same
    <2> QED
      BY <1>1, <2>1, Zenon DEF Unstarted, Deliveries
  <1>5. StampedAfterBoth'
    <2>1. CASE reminded
      <3>1. PICK e \in Started : /\ delivery[e].event = "REMINDER"
                                 /\ \A p \in People : <<e, p>> \in tried
        BY <2>1 DEF NotificationsInv, StampedAfterBoth
      <3>2. delivery'[e].event = delivery[e].event
        BY <1>1
      <3> QED
        BY <1>1, <3>1, <3>2 DEF StampedAfterBoth
    <2>2. CASE reminded' /\ ~reminded
      <3>1. delivery'[d].event = "REMINDER" /\ Step(d)' = "stamped"
        BY <1>1, <2>2 DEF Step
      <3>2. Tried(d, Provider)' /\ Tried(d, Customer)'
        BY <3>1 DEF DeliveryFits
      <3> QED
        BY <1>1, <3>1, <3>2 DEF StampedAfterBoth, Tried, People
    <2> QED
      BY <2>1, <2>2 DEF StampedAfterBoth
  <1>6. ChosenSettingsStay'
    BY DEF NotificationsInv, ChosenSettingsStay
  <1> QED
    BY <1>1, <1>2, <1>3, <1>4, <1>5, <1>6 DEF NotificationsInv

\* An in-app row is added
LEMMA RowAdded ==
    ASSUME NotificationsInv, NEW d \in Deliveries, NEW u \in People, ~RowIn(d, u),
           inbox' = [inbox EXCEPT ![u] = Append(@, d)]
    PROVE  /\ inbox' \in [People -> Seq(Deliveries)]
           /\ RowIn(d, u)' /\ RowOnce(d, u)'
           /\ \A e \in Deliveries, p \in People :
                 e # d \/ p # u => /\ RowIn(e, p)' <=> RowIn(e, p)
                                   /\ RowOnce(e, p)' <=> RowOnce(e, p)
  <1>1. inbox \in [People -> Seq(Deliveries)]
    BY DEF NotificationsInv, Typed
  <1>2. PICK old, new : old = inbox[u] /\ new = Append(old, d)
    OBVIOUS
  <1>3. old \in Seq(Deliveries)
    BY <1>1, <1>2
  <1>4. /\ new \in Seq(Deliveries) /\ Len(old) \in Nat /\ Len(new) = Len(old) + 1
        /\ \A i \in 1..Len(old) : new[i] = old[i]
        /\ new[Len(old) + 1] = d
    BY <1>2, <1>3, AppendProperties, LenProperties
  <1>5. inbox' = [inbox EXCEPT ![u] = new]
    BY <1>2
  <1>6. /\ inbox' \in [People -> Seq(Deliveries)] /\ inbox'[u] = new
        /\ \A p \in People \ {u} : inbox'[p] = inbox[p]
    BY <1>1, <1>4, <1>5
  <1>7. \A i \in 1..Len(old) : new[i] # d
    BY <1>2, <1>4 DEF RowIn
  <1>8. RowIn(d, u)'
    BY <1>4, <1>6 DEF RowIn
  <1>9. RowOnce(d, u)'
    BY <1>4, <1>6, <1>7 DEF RowOnce
  <1>10. ASSUME NEW e \in Deliveries, NEW p \in People, e # d \/ p # u
         PROVE  (RowIn(e, p)' <=> RowIn(e, p)) /\ (RowOnce(e, p)' <=> RowOnce(e, p))
    <2>1. CASE p # u
      BY <1>6, <2>1 DEF RowIn, RowOnce
    <2>2. CASE p = u
      <3>1. \A i \in 1..Len(new) : i \in 1..Len(old) \/ new[i] = d
        BY <1>4
      <3>2. RowIn(e, p)' <=> RowIn(e, p)
        BY <1>2, <1>4, <1>6, <1>10, <2>2, <3>1 DEF RowIn
      <3>3. RowOnce(e, p)' <=> RowOnce(e, p)
        BY <1>2, <1>4, <1>6, <1>10, <2>2, <3>1 DEF RowOnce
      <3> QED
        BY <3>2, <3>3
    <2> QED
      BY <2>1, <2>2
  <1> QED
    BY <1>6, <1>8, <1>9, <1>10

\* A mail is accepted
LEMMA MailAccepted ==
    ASSUME NotificationsInv, NEW d \in Started, mails[d][delivery[d].to] <= EmailRetries,
           Accept(d)
    PROVE  /\ mails' \in [Deliveries -> [People -> 0..EmailRetries + 1]]
           /\ mails'[d][delivery[d].to] = mails[d][delivery[d].to] + 1
           /\ \A e \in Deliveries, p \in People :
                 e # d \/ p # delivery[d].to => mails'[e][p] = mails[e][p]
  <1>1. PICK u : u = delivery[d].to
    OBVIOUS
  <1>2. u \in People /\ d \in Deliveries /\ EmailRetries \in Nat
    BY <1>1, DeliveryType, NotificationsAssumption
  <1>3. mails \in [Deliveries -> [People -> 0..EmailRetries + 1]]
    BY DEF NotificationsInv, Typed
  <1>4. PICK row : row = [mails[d] EXCEPT ![u] = mails[d][u] + 1]
    OBVIOUS
  <1>5. /\ row \in [People -> 0..EmailRetries + 1] /\ row[u] = mails[d][u] + 1
        /\ \A p \in People \ {u} : row[p] = mails[d][p]
    BY <1>1, <1>2, <1>3, <1>4
  <1>6. mails' = [mails EXCEPT ![d] = row]
    BY <1>1, <1>4 DEF Accept
  <1> QED
    BY <1>1, <1>2, <1>3, <1>5, <1>6

-----------------------------------------------------------------------------
(* The steps of a delivery *)

\* The query for the recipients
LEMMA ReadRecipientsKeeps ==
    ASSUME NotificationsInv, NEW d \in Started, ReadRecipients(d)
    PROVE  NotificationsInv'
  <1>1. PICK old : old = delivery[d]
    OBVIOUS
  <1>2. PICK a : a = [old EXCEPT !.step = "in-app"]
    OBVIOUS
  <1>3. PICK q : q = [a EXCEPT !.wants = prefs]
    OBVIOUS
  <1>4. /\ old \in DeliveryStates /\ old.step = "read" /\ old.to = Customer /\ old.attempt = 0
        /\ \A p \in People : PersonFits(d, p)
    BY <1>1, DeliveryType DEF ReadRecipients, DeliveryFits
  <1>5. prefs \in [People -> Preferences \cup {None}]
    BY DEF NotificationsInv, Typed
  <1>6. /\ q \in DeliveryStates /\ q.event = old.event /\ q.step = "in-app"
        /\ q.to = Customer /\ q.attempt = 0
    BY <1>2, <1>3, <1>4, <1>5 DEF DeliveryStates
  <1>7. delivery' = [delivery EXCEPT ![d] = q]
    <2>1. delivery \in Seq(DeliveryStates)
      BY DEF NotificationsInv, Typed
    <2>2. delivery' = [delivery EXCEPT ![d].step = "in-app", ![d].wants = prefs]
      BY DEF ReadRecipients
    <2>3. delivery' = [delivery EXCEPT ![d] = [old EXCEPT !.step = "in-app", !.wants = prefs]]
      BY <1>1, <2>1, <2>2, LenProperties DEF Started
    <2>4. [old EXCEPT !.step = "in-app", !.wants = prefs] = q
      BY <1>2, <1>3, <1>4 DEF DeliveryStates
    <2> QED
      BY <2>3, <2>4, Zenon
  <1>8. UNCHANGED <<stage, inbox, read, mails, reminded, prefs, creating, chosen, excused, tried>>
    BY DEF ReadRecipients
  <1>9. \A e, p : Same(e, p)
    BY <1>8 DEF Same, RowIn, RowOnce, Excused
  <1>10. delivery'[d] = q
    BY <1>6, <1>7, DeliveryMoves
  <1>11. DeliveryFits(d)'
    <2>1. ASSUME NEW p \in People
          PROVE  PersonFits(d, p)'
      <3>1. RowOnce(d, p) /\ Untouched(d, p)
        BY <1>1, <1>4 DEF PersonFits, Ahead, Step
      <3>2. RowOnce(d, p)' /\ Untouched(d, p)'
        BY <1>9, <3>1 DEF Same, Untouched
      <3>3. ~Past(d, p)' /\ Step(d)' = "in-app"
        BY <1>6, <1>10, NotificationsAssumption DEF Past, Step
      <3> QED
        BY <3>2, <3>3 DEF PersonFits, Untouched
    <2>2. Step(d)' = "in-app" /\ delivery'[d].to = Customer /\ delivery'[d].attempt = 0
      BY <1>6, <1>10 DEF Step
    <2> QED
      BY <2>1, <2>2, NotificationsAssumption DEF DeliveryFits
  <1> QED
    BY <1>1, <1>6, <1>7, <1>8, <1>9, <1>11, DeliveryStep DEF NotificationsInv, Typed

\* What a step changes between the delivery and the person it serves is in
\* order, and it leaves everybody else as he was
ServesOnly(d, u) ==
    /\ inbox' \in [People -> Seq(Deliveries)]
    /\ mails' \in [Deliveries -> [People -> 0..EmailRetries + 1]]
    /\ \A e \in Deliveries, p \in People : e # d \/ p # u => Same(e, p)
    /\ RowOnce(d, u)'
    /\ ~Excused(d, u)' => mails'[d][u] <= 1
    /\ Entitled(d, u) => RowIn(d, u)' \/ Excused(d, u)'
    /\ UNCHANGED <<stage, read, reminded, prefs, creating, chosen>>

\* The end of a person's turn: the provider's comes after the customer's
LEMMA NextRecipientKeeps ==
    ASSUME NotificationsInv, NEW d \in Started, NEW u, u = delivery[d].to,
           NEW failed, NextRecipient(d, failed),
           Step(d) \in {"in-app", "mail"}, ServesOnly(d, u)
    PROVE  NotificationsInv'
  <1>1. PICK old : old = delivery[d]
    OBVIOUS
  <1>2. /\ old \in DeliveryStates /\ u \in People /\ d \in Deliveries
        /\ DeliveryFits(d) /\ Step(d) = old.step
    BY <1>1, DeliveryType
  <1>3. PICK a : a = [old EXCEPT !.to = Provider]
    OBVIOUS
  <1>4. PICK b : b = [a EXCEPT !.step = "in-app"]
    OBVIOUS
  <1>5. PICK next : next = [b EXCEPT !.attempt = 0]
    OBVIOUS
  <1>6. PICK last : last = [old EXCEPT !.step = "over"]
    OBVIOUS
  <1>7. /\ next \in DeliveryStates /\ next.event = old.event /\ next.to = Provider
        /\ next.step = "in-app" /\ next.attempt = 0 /\ next.wants = old.wants
    <2>1. Provider \in People /\ 0 \in 0..EmailRetries
      BY NotificationsAssumption DEF People
    <2> QED
      BY <1>2, <1>3, <1>4, <1>5, <2>1 DEF DeliveryStates
  <1>8. /\ last \in DeliveryStates /\ last.event = old.event /\ last.to = old.to
        /\ last.step = "over" /\ last.wants = old.wants
    BY <1>2, <1>6 DEF DeliveryStates
  <1>9. PICK q : q = IF u = Customer THEN next ELSE last
    OBVIOUS
  <1>10. delivery' = [delivery EXCEPT ![d] = q]
    <2>1. [old EXCEPT !.to = Provider, !.step = "in-app", !.attempt = 0] = next
      BY <1>2, <1>3, <1>4, <1>5 DEF DeliveryStates
    <2>2. delivery' = [delivery EXCEPT
                          ![d] = IF u = Customer
                                 THEN [old EXCEPT !.to = Provider, !.step = "in-app",
                                                  !.attempt = 0]
                                 ELSE [old EXCEPT !.step = "over"]]
      BY <1>1 DEF NextRecipient
    <2> QED
      BY <1>6, <1>9, <2>1, <2>2
  <1>11. /\ q \in DeliveryStates /\ q.event = old.event /\ q.wants = old.wants
         /\ q.to = Provider
    BY <1>1, <1>2, <1>7, <1>8, <1>9 DEF People
  <1>12. delivery'[d] = q
    BY <1>10, <1>11, DeliveryMoves
  <1>13. tried' = tried \cup {<<d, u>>}
    BY <1>1 DEF NextRecipient, Served
  <1>14. /\ Step(d)' = q.step /\ delivery'[d].to = Provider
         /\ \A p \in People : Entitled(d, p)' <=> Entitled(d, p)
    BY <1>1, <1>11, <1>12 DEF Step, Entitled
  <1>15. PersonFits(d, u)'
    <2>1. ~Ahead(d, u)' /\ Step(d)' # "mail"
      BY <1>7, <1>8, <1>9, <1>14, NotificationsAssumption DEF Ahead
    <2> QED
      BY <1>1, <1>2, <1>14, <2>1 DEF ServesOnly, PersonFits
  <1>16. ASSUME NEW p \in People \ {u}
         PROVE  PersonFits(d, p)'
    <2>1. Same(d, p) /\ PersonFits(d, p)
      BY <1>1, <1>2 DEF ServesOnly, DeliveryFits
    <2>2. CASE u = Customer
      <3>1. p = Provider /\ q = next
        BY <1>9, <2>2 DEF People
      <3>2. Untouched(d, p)
        BY <1>1, <2>1, <2>2, <3>1 DEF PersonFits, Ahead
      <3>3. ~Past(d, p)' /\ Step(d)' # "mail"
        BY <1>7, <1>14, <3>1, NotificationsAssumption DEF Past
      <3> QED
        BY <2>1, <3>2, <3>3 DEF PersonFits, Untouched, Same
    <2>3. CASE u = Provider
      <3>1. p = Customer /\ q = last
        BY <1>9, <2>3, NotificationsAssumption DEF People
      <3>2. Past(d, p)
        BY <1>1, <2>3, <3>1 DEF Past
      <3>3. ~Ahead(d, p)' /\ Step(d)' # "mail"
        BY <1>8, <1>14, <3>1, NotificationsAssumption DEF Ahead
      <3> QED
        BY <1>14, <2>1, <3>2, <3>3 DEF PersonFits, Untouched, Same
    <2> QED
      BY <1>2, <2>2, <2>3 DEF People
  <1>17. DeliveryFits(d)'
    <2>1. Tried(d, Customer)'
      BY <1>1, <1>2, <1>13, NotificationsAssumption DEF DeliveryFits, Tried, People
    <2>2. Step(d)' = "over" => Tried(d, Provider)'
      BY <1>1, <1>2, <1>7, <1>9, <1>13, <1>14 DEF Tried, People
    <2>3. Step(d)' \in {"in-app", "over"} /\ (Step(d)' = "in-app" => delivery'[d].attempt = 0)
      BY <1>7, <1>8, <1>9, <1>12, <1>14
    <2>4. \A p \in People : PersonFits(d, p)'
      BY <1>15, <1>16
    <2> QED
      BY <1>14, <2>1, <2>2, <2>3, <2>4 DEF DeliveryFits
  <1>18. \A e \in Deliveries \ {d}, p \in People : Same(e, p)
    BY <1>1 DEF ServesOnly
  <1>19. tried \subseteq tried'
    BY <1>13
  <1> QED
    BY <1>1, <1>10, <1>11, <1>17, <1>18, <1>19, DeliveryStep DEF ServesOnly

\* A person who is to get a mail, or is to get it once more
LEMMA ServesOnKeeps ==
    ASSUME NotificationsInv, NEW d \in Started, NEW u, u = delivery[d].to,
           Step(d) \in {"in-app", "mail"}, Wants(d) # None,
           NEW q \in DeliveryStates, delivery' = [delivery EXCEPT ![d] = q],
           q.event = delivery[d].event, q.to = u, q.wants = delivery[d].wants,
           q.step = "mail", mails'[d][u] <= q.attempt, mails'[d][u] > 0 => Excused(d, u)',
           ServesOnly(d, u), UNCHANGED tried
    PROVE  NotificationsInv'
  <1>1. u \in People /\ d \in Deliveries /\ DeliveryFits(d) /\ delivery'[d] = q
    BY DeliveryType, DeliveryMoves
  <1>2. /\ Step(d)' = "mail" /\ delivery'[d].to = u /\ delivery'[d].attempt = q.attempt
        /\ \A p \in People : Entitled(d, p)' <=> Entitled(d, p)
    BY <1>1 DEF Step, Entitled
  <1>3. PersonFits(d, u)'
    <2>1. ~Ahead(d, u)'
      BY <1>2, NotificationsAssumption DEF Ahead
    <2> QED
      BY <1>1, <1>2, <2>1 DEF ServesOnly, PersonFits
  <1>4. ASSUME NEW p \in People \ {u}
        PROVE  PersonFits(d, p)'
    <2>1. Same(d, p) /\ PersonFits(d, p)
      BY <1>1 DEF ServesOnly, DeliveryFits
    <2>2. (Ahead(d, p)' => Ahead(d, p)) /\ (Past(d, p)' => Past(d, p))
      BY <1>2 DEF Ahead, Past
    <2> QED
      BY <1>2, <2>1, <2>2 DEF PersonFits, Untouched, Same
  <1>5. DeliveryFits(d)'
    <2>1. u = Provider => Tried(d, Customer)'
      BY <1>1 DEF DeliveryFits, Tried
    <2>2. Wants(d)' # None
      BY <1>1 DEF Wants
    <2>3. \A p \in People : PersonFits(d, p)'
      BY <1>3, <1>4
    <2> QED
      BY <1>2, <2>1, <2>2, <2>3 DEF DeliveryFits
  <1>6. \A e \in Deliveries \ {d}, p \in People : Same(e, p)
    BY DEF ServesOnly
  <1> QED
    BY <1>5, <1>6, DeliveryStep DEF ServesOnly

\* A person who was not reached has no row and no mail, and is not excused
LEMMA ServedIsUntouched ==
    ASSUME NotificationsInv, NEW d \in Started, Step(d) = "in-app"
    PROVE  /\ Untouched(d, delivery[d].to) /\ RowOnce(d, delivery[d].to)
           /\ delivery[d].attempt = 0
  BY DeliveryType DEF DeliveryFits, PersonFits, Ahead

\* The in-app row, or an insert that fails
LEMMA InAppKeeps ==
    ASSUME NotificationsInv, NEW d \in Started, InApp(d)
    PROVE  NotificationsInv'
  <1>1. PICK u, old : u = delivery[d].to /\ old = delivery[d]
    OBVIOUS
  <1>2. /\ u \in People /\ d \in Deliveries /\ Step(d) = "in-app" /\ old \in DeliveryStates
        /\ Untouched(d, u) /\ RowOnce(d, u) /\ old.attempt = 0
    BY <1>1, DeliveryType, ServedIsUntouched DEF InApp
  <1>3. UNCHANGED <<stage, read, mails, reminded, prefs, creating, chosen>>
    BY DEF InApp
  <1>4. /\ inbox \in [People -> Seq(Deliveries)]
        /\ mails' \in [Deliveries -> [People -> 0..EmailRetries + 1]]
    BY <1>3 DEF NotificationsInv, Typed
  <1>5. mails'[d][u] = 0
    BY <1>2, <1>3 DEF Untouched
  <1>6. ASSUME UNCHANGED <<inbox, excused>>, ~Entitled(d, u)
        PROVE  ServesOnly(d, u)
    <2>1. \A e, p : Same(e, p)
      BY <1>3, <1>6 DEF Same, RowIn, RowOnce, Excused
    <2> QED
      BY <1>2, <1>3, <1>4, <1>5, <1>6, <2>1 DEF ServesOnly, Same
  <1>7. PICK q : q = [old EXCEPT !.step = "mail"]
    OBVIOUS
  <1>8. /\ q \in DeliveryStates /\ q.event = old.event /\ q.to = u /\ q.wants = old.wants
        /\ q.step = "mail" /\ q.attempt = 0
    BY <1>1, <1>2, <1>7 DEF DeliveryStates
  <1>9. ASSUME ToMail(d), Wants(d) # None, ServesOnly(d, u)
        PROVE  NotificationsInv'
    <2>1. delivery' = [delivery EXCEPT ![d] = q] /\ UNCHANGED tried
      BY <1>1, <1>7, <1>9 DEF ToMail
    <2>2. 0 <= 0 /\ ~(0 > 0)
      OBVIOUS
    <2> QED
      BY <1>1, <1>2, <1>5, <1>8, <1>9, <2>1, <2>2, ServesOnKeeps
  <1>10. CASE Wants(d) = None
    <2>1. NextRecipient(d, FALSE) /\ UNCHANGED <<inbox, excused>> /\ ~Entitled(d, u)
      BY <1>1, <1>10 DEF InApp, Entitled, Wants
    <2> QED
      BY <1>1, <1>2, <1>6, <2>1, NextRecipientKeeps
  <1>11. CASE Wants(d) # None /\ ~Wants(d).inAppEnabled
    <2>1. ToMail(d) /\ UNCHANGED <<inbox, excused>> /\ ~Entitled(d, u)
      BY <1>1, <1>11 DEF InApp, Entitled, Wants
    <2> QED
      BY <1>6, <1>9, <1>11, <2>1
  <1>12. CASE Wants(d) # None /\ inbox' = [inbox EXCEPT ![u] = Append(@, d)] /\ ToMail(d)
              /\ excused' = excused
    <2>1. /\ inbox' \in [People -> Seq(Deliveries)] /\ RowIn(d, u)' /\ RowOnce(d, u)'
          /\ \A e \in Deliveries, p \in People :
                e # d \/ p # u => /\ RowIn(e, p)' <=> RowIn(e, p)
                                  /\ RowOnce(e, p)' <=> RowOnce(e, p)
      BY <1>2, <1>12, RowAdded DEF Untouched
    <2>2. \A e \in Deliveries, p \in People : e # d \/ p # u => Same(e, p)
      BY <1>3, <1>12, <2>1 DEF Same, Excused
    <2>3. ServesOnly(d, u)
      BY <1>3, <1>4, <1>5, <2>1, <2>2 DEF ServesOnly
    <2> QED
      BY <1>9, <1>12, <2>3
  <1>13. CASE NextRecipient(d, TRUE) /\ excused' = excused \cup {Served(d)} /\ inbox' = inbox
    <2>1. excused' = excused \cup {<<d, u>>}
      BY <1>1, <1>13 DEF Served
    <2>2. Excused(d, u)' /\ \A e, p : e # d \/ p # u => (Excused(e, p)' <=> Excused(e, p))
      BY <2>1 DEF Excused
    <2>3. \A e \in Deliveries, p \in People : e # d \/ p # u => Same(e, p)
      BY <1>3, <1>13, <2>2 DEF Same, RowIn, RowOnce
    <2>4. RowOnce(d, u)'
      BY <1>2, <1>13 DEF RowOnce
    <2>5. ServesOnly(d, u)
      BY <1>3, <1>4, <1>13, <2>2, <2>3, <2>4 DEF ServesOnly
    <2> QED
      BY <1>1, <1>2, <1>13, <2>5, NextRecipientKeeps
  <1> QED
    BY <1>1, <1>10, <1>11, <1>12, <1>13 DEF InApp

\* A mail, its retries, or giving it up
LEMMA MailKeeps ==
    ASSUME NotificationsInv, NEW d \in Started, Mail(d)
    PROVE  NotificationsInv'
  <1>1. PICK u, old : u = delivery[d].to /\ old = delivery[d]
    OBVIOUS
  <1>2. /\ u \in People /\ d \in Deliveries /\ Step(d) = "mail" /\ old \in DeliveryStates
        /\ DeliveryFits(d) /\ PersonFits(d, u) /\ Wants(d) # None
        /\ old.attempt \in 0..EmailRetries
    BY <1>1, DeliveryType DEF Mail, DeliveryFits
  <1>3. /\ RowOnce(d, u) /\ (~Excused(d, u) => mails[d][u] <= 1)
        /\ Entitled(d, u) => RowIn(d, u) \/ Excused(d, u)
        /\ mails[d][u] <= old.attempt /\ (mails[d][u] > 0 => Excused(d, u))
    BY <1>1, <1>2 DEF PersonFits, Past
  <1>4. UNCHANGED <<stage, inbox, read, reminded, prefs, creating, chosen>>
    BY DEF Mail
  <1>5. /\ inbox' \in [People -> Seq(Deliveries)]
        /\ mails \in [Deliveries -> [People -> 0..EmailRetries + 1]]
        /\ EmailRetries \in Nat /\ mails[d][u] \in 0..EmailRetries + 1
    BY <1>2, <1>4, NotificationsAssumption DEF NotificationsInv, Typed
  <1>6. \A e, p : (RowIn(e, p)' <=> RowIn(e, p)) /\ (RowOnce(e, p)' <=> RowOnce(e, p))
    BY <1>4 DEF RowIn, RowOnce
  <1>7. ASSUME UNCHANGED <<mails, excused>>
        PROVE  ServesOnly(d, u) /\ mails'[d][u] <= old.attempt
               /\ (mails'[d][u] > 0 => Excused(d, u)')
    <2>1. \A e, p : Same(e, p)
      BY <1>6, <1>7 DEF Same, Excused
    <2>2. Same(d, u)
      BY <2>1
    <2> QED
      BY <1>3, <1>4, <1>5, <1>7, <2>1, <2>2 DEF ServesOnly, Same
  <1>8. ASSUME Accept(d), \/ excused' = excused
                          \/ excused' = excused \cup {Served(d)}
        PROVE  ServesOnly(d, u) /\ mails'[d][u] = mails[d][u] + 1
    <2>1. /\ mails' \in [Deliveries -> [People -> 0..EmailRetries + 1]]
          /\ mails'[d][u] = mails[d][u] + 1
          /\ \A e \in Deliveries, p \in People : e # d \/ p # u => mails'[e][p] = mails[e][p]
      <3>1. mails[d][delivery[d].to] <= EmailRetries
        BY <1>1, <1>2, <1>3, <1>5
      <3> QED
        BY <1>1, <1>8, <3>1, MailAccepted
    <2>2. /\ Excused(d, u) => Excused(d, u)'
          /\ \A e, p : e # d \/ p # u => (Excused(e, p)' <=> Excused(e, p))
      BY <1>1, <1>8 DEF Excused, Served
    <2>3. \A e \in Deliveries, p \in People : e # d \/ p # u => Same(e, p)
      BY <1>6, <2>1, <2>2 DEF Same
    <2>4. ~Excused(d, u)' => mails'[d][u] <= 1
      BY <1>3, <1>5, <2>1, <2>2
    <2>5. RowOnce(d, u)' /\ (Entitled(d, u) => RowIn(d, u)' \/ Excused(d, u)')
      BY <1>3, <1>6, <2>2
    <2> QED
      BY <1>4, <1>5, <2>1, <2>3, <2>4, <2>5 DEF ServesOnly
  <1>9. ASSUME NEW failed, NextRecipient(d, failed), ServesOnly(d, u)
        PROVE  NotificationsInv'
    BY <1>1, <1>2, <1>9, NextRecipientKeeps
  <1>10. ASSUME Retry(d), ServesOnly(d, u), mails'[d][u] <= old.attempt + 1,
                mails'[d][u] > 0 => Excused(d, u)'
         PROVE  NotificationsInv'
    <2>1. CASE delivery[d].attempt < EmailRetries
      <3>1. PICK q : q = [old EXCEPT !.attempt = old.attempt + 1]
        OBVIOUS
      <3>2. old.attempt + 1 \in 0..EmailRetries
        BY <1>1, <1>2, <1>5, <2>1
      <3>3. /\ q \in DeliveryStates /\ q.event = old.event /\ q.to = u /\ q.wants = old.wants
            /\ q.step = "mail" /\ q.attempt = old.attempt + 1
        BY <1>1, <1>2, <3>1, <3>2 DEF DeliveryStates, Step
      <3>4. delivery' = [delivery EXCEPT ![d] = q] /\ UNCHANGED tried
        BY <1>1, <1>10, <2>1, <3>1 DEF Retry
      <3> QED
        BY <1>1, <1>2, <1>10, <3>3, <3>4, ServesOnKeeps
    <2>2. CASE ~(delivery[d].attempt < EmailRetries)
      BY <1>9, <1>10, <2>2 DEF Retry
    <2> QED
      BY <2>1, <2>2
  <1>11. CASE NextRecipient(d, FALSE) /\ UNCHANGED <<mails, excused>>
    BY <1>7, <1>9, <1>11
  <1>12. CASE NextRecipient(d, FALSE) /\ Accept(d) /\ UNCHANGED excused
    BY <1>8, <1>9, <1>12
  <1>13. CASE Retry(d) /\ UNCHANGED <<mails, excused>>
    <2>1. mails'[d][u] <= old.attempt + 1
      BY <1>2, <1>3, <1>5, <1>13
    <2> QED
      BY <1>7, <1>10, <1>13, <2>1
  <1>14. CASE Retry(d) /\ Accept(d) /\ excused' = excused \cup {Served(d)}
    <2>1. Excused(d, u)'
      BY <1>1, <1>14 DEF Excused, Served
    <2>2. mails'[d][u] <= old.attempt + 1 /\ ServesOnly(d, u)
      BY <1>2, <1>3, <1>5, <1>8, <1>14
    <2> QED
      BY <1>10, <1>14, <2>1, <2>2
  <1> QED
    BY <1>11, <1>12, <1>13, <1>14 DEF Mail

\* A delivery that dies, or whose reminder is stamped, is over for everybody
LEMMA EndKeeps ==
    ASSUME NotificationsInv, NEW d \in Started, NEW step,
           \/ step = "lost" /\ reminded' = reminded
           \/ /\ step = "stamped" /\ Step(d) = "over" /\ delivery[d].event = "REMINDER"
              /\ reminded' = TRUE,
           delivery' = [delivery EXCEPT ![d].step = step],
           UNCHANGED <<stage, inbox, read, mails, prefs, creating, chosen, excused, tried>>
    PROVE  NotificationsInv'
  <1>1. PICK old : old = delivery[d]
    OBVIOUS
  <1>2. PICK q : q = [old EXCEPT !.step = step]
    OBVIOUS
  <1>3. /\ old \in DeliveryStates /\ DeliveryFits(d) /\ d \in Deliveries
        /\ Step(d) = old.step
    BY <1>1, DeliveryType
  <1>4. /\ q \in DeliveryStates /\ q.event = old.event /\ q.to = old.to
        /\ q.wants = old.wants /\ q.step = step
    BY <1>2, <1>3 DEF DeliveryStates
  <1>5. delivery' = [delivery EXCEPT ![d] = q]
    BY <1>1, <1>2
  <1>6. delivery'[d] = q
    BY <1>4, <1>5, DeliveryMoves
  <1>7. \A e, p : Same(e, p)
    BY DEF Same, RowIn, RowOnce, Excused
  <1>8. /\ Step(d)' = step /\ delivery'[d].to = old.to
        /\ \A p \in People : Entitled(d, p)' <=> Entitled(d, p)
    BY <1>1, <1>4, <1>6 DEF Step, Entitled
  <1>9. ASSUME NEW p \in People
        PROVE  PersonFits(d, p)'
    <2>1. Same(d, p) /\ PersonFits(d, p)
      BY <1>3, <1>7 DEF DeliveryFits
    <2>2. (Ahead(d, p)' => Ahead(d, p)) /\ (Past(d, p)' => Past(d, p)) /\ Step(d)' # "mail"
      BY <1>1, <1>8 DEF Ahead, Past
    <2> QED
      BY <1>8, <2>1, <2>2 DEF PersonFits, Untouched, Same
  <1>10. DeliveryFits(d)'
    <2>1. \A p : Tried(d, p)' <=> Tried(d, p)
      BY DEF Tried
    <2>2. /\ Step(d)' \in {"lost", "stamped"}
          /\ Step(d)' = "stamped" => Step(d) = "over"
      BY <1>8
    <2> QED
      BY <1>1, <1>3, <1>8, <1>9, <2>1, <2>2 DEF DeliveryFits
  <1>11. /\ inbox' \in [People -> Seq(Deliveries)]
         /\ mails' \in [Deliveries -> [People -> 0..EmailRetries + 1]]
    BY DEF NotificationsInv, Typed
  <1>12. reminded' => reminded \/ (q.event = "REMINDER" /\ q.step = "stamped")
    BY <1>1, <1>4
  <1>13. tried \subseteq tried' /\ \A e \in Deliveries \ {d}, p \in People : Same(e, p)
    BY <1>7
  <1> QED
    BY <1>1, <1>4, <1>5, <1>10, <1>11, <1>12, <1>13, DeliveryStep

-----------------------------------------------------------------------------
(* New deliveries, and what people do *)

\* Nobody heard of the delivery that starts
LEMMA StartKeeps ==
    ASSUME NotificationsInv, NEW event \in Events, Start(event), stage' \in Events \cup {"none"},
           UNCHANGED <<inbox, read, mails, reminded, prefs, creating, chosen, excused, tried>>
    PROVE  NotificationsInv'
  <1>1. PICK n : n = Len(delivery) + 1
    OBVIOUS
  <1>2. PICK q : q = [event |-> event, step |-> "read", to |-> Customer,
                      attempt |-> 0, wants |-> [p \in People |-> None]]
    OBVIOUS
  <1>3. /\ delivery \in Seq(DeliveryStates) /\ Len(delivery) \in Nat
        /\ Len(delivery) < MaxDeliveries /\ delivery' = Append(delivery, q)
    BY <1>2, LenProperties DEF NotificationsInv, Typed, Start
  <1>4. /\ q \in DeliveryStates /\ q.event = event /\ q.step = "read"
        /\ q.to = Customer /\ q.attempt = 0
    <2>1. Customer \in People /\ 0 \in 0..EmailRetries
      BY NotificationsAssumption DEF People
    <2> QED
      BY <1>2, <2>1 DEF DeliveryStates
  <1>5. /\ delivery' \in Seq(DeliveryStates) /\ Len(delivery') = n
        /\ \A d \in Started : delivery'[d] = delivery[d]
        /\ delivery'[n] = q
    BY <1>1, <1>3, <1>4, AppendProperties DEF Started
  <1>6. n \in Deliveries /\ n \notin Started /\ Started' = Started \cup {n}
    BY <1>1, <1>3, <1>5, NotificationsAssumption DEF Deliveries, Started
  <1>7. \A e, p : Same(e, p)
    BY DEF Same, RowIn, RowOnce, Excused
  <1>8. Typed'
    BY <1>1, <1>3, <1>5, NotificationsAssumption DEF NotificationsInv, Typed
  <1>9. ASSUME NEW d \in Started
        PROVE  DeliveryFits(d)'
    BY <1>5, <1>7, OthersFit
  <1>10. DeliveryFits(n)'
    <2>1. Step(n)' = "read" /\ delivery'[n].to = Customer /\ delivery'[n].attempt = 0
      BY <1>4, <1>5 DEF Step
    <2>2. ASSUME NEW p \in People
          PROVE  PersonFits(n, p)'
      <3>1. Untouched(n, p) /\ Same(n, p)
        BY <1>6, <1>7 DEF NotificationsInv, Unstarted
      <3>2. Untouched(n, p)' /\ RowOnce(n, p)'
        BY <3>1 DEF Untouched, Same, RowIn, RowOnce
      <3>3. ~Past(n, p)'
        BY <2>1, NotificationsAssumption DEF Past
      <3> QED
        BY <2>1, <3>2, <3>3 DEF PersonFits, Untouched
    <2> QED
      BY <2>1, <2>2, NotificationsAssumption DEF DeliveryFits
  <1>11. Unstarted'
    <2>1. ASSUME NEW d \in Deliveries \ Started, NEW p \in People
          PROVE  Untouched(d, p)'
      <3>1. Untouched(d, p) /\ Same(d, p)
        BY <1>7 DEF NotificationsInv, Unstarted
      <3> QED
        BY <3>1 DEF Untouched, Same
    <2> QED
      BY <1>6, <2>1 DEF Unstarted, Deliveries
  <1>12. StampedAfterBoth'
    <2>1. CASE reminded
      <3>1. PICK d \in Started : /\ delivery[d].event = "REMINDER"
                                 /\ \A p \in People : <<d, p>> \in tried
        BY <2>1 DEF NotificationsInv, StampedAfterBoth
      <3>2. d \in Started' /\ delivery'[d].event = "REMINDER"
        BY <1>5, <1>6, <3>1
      <3> QED
        BY <3>1, <3>2 DEF StampedAfterBoth
    <2>2. CASE ~reminded
      BY <2>2 DEF StampedAfterBoth
    <2> QED
      BY <2>1, <2>2
  <1>13. ChosenSettingsStay'
    BY DEF NotificationsInv, ChosenSettingsStay
  <1> QED
    BY <1>6, <1>8, <1>9, <1>10, <1>11, <1>12, <1>13 DEF NotificationsInv

\* Steps that start and move no delivery
LEMMA SettingsStep ==
    ASSUME NotificationsInv, UNCHANGED <<stage, delivery, inbox, mails, reminded, excused, tried>>,
           read' \subseteq Deliveries \X People,
           prefs' \in [People -> Preferences \cup {None}],
           chosen' \in [People -> Preferences \cup {None}], ChosenSettingsStay'
    PROVE  NotificationsInv'
  <1>1. \A e, p : Same(e, p)
    BY DEF Same, RowIn, RowOnce, Excused
  <1>2. Started' = Started
    BY DEF Started
  <1>3. Typed'
    BY DEF NotificationsInv, Typed
  <1>4. ASSUME NEW d \in Started
        PROVE  DeliveryFits(d)'
    BY <1>1, OthersFit
  <1>5. Unstarted'
    <2>1. ASSUME NEW d \in Deliveries \ Started, NEW p \in People
          PROVE  Untouched(d, p)'
      <3>1. Untouched(d, p) /\ Same(d, p)
        BY <1>1 DEF NotificationsInv, Unstarted
      <3> QED
        BY <3>1 DEF Untouched, Same
    <2> QED
      BY <1>2, <2>1 DEF Unstarted, Deliveries
  <1>6. StampedAfterBoth'
    BY <1>2 DEF NotificationsInv, StampedAfterBoth
  <1> QED
    BY <1>2, <1>3, <1>4, <1>5, <1>6 DEF NotificationsInv

\* Reading notifications and asking for settings, with the create of settings
\* that lost the race refused, and choosing them
LEMMA PeopleKeep ==
    ASSUME NotificationsInv, NEW p \in Callers,
           \/ \E d \in Deliveries : MarkRead(p, d)
           \/ FindSettings(p) \/ CreateSettings(p)
           \/ \E choice \in Choices : UpdateSettings(p, choice)
    PROVE  NotificationsInv'
  <1>1. /\ p \in People /\ prefs \in [People -> Preferences \cup {None}]
        /\ chosen \in [People -> Preferences \cup {None}]
        /\ read \subseteq Deliveries \X People /\ ChosenSettingsStay
    BY NotificationsAssumption DEF NotificationsInv, Typed, People
  <1>2. CASE \E d \in Deliveries : MarkRead(p, d)
    BY <1>1, <1>2, SettingsStep DEF MarkRead, ChosenSettingsStay
  <1>3. CASE FindSettings(p)
    BY <1>1, <1>3, SettingsStep DEF FindSettings, ChosenSettingsStay
  <1>4. CASE CreateSettings(p)
    <2>1. PICK row : row = IF prefs[p] = None THEN Defaults ELSE prefs[p]
      OBVIOUS
    <2>2. prefs' = [prefs EXCEPT ![p] = row] /\ UNCHANGED chosen
      BY <1>4, <2>1 DEF CreateSettings
    <2>3. Defaults \in Preferences
      BY DEF Defaults, Preferences
    <2>4. row \in Preferences \cup {None} /\ (chosen[p] # None => row = prefs[p])
      BY <1>1, <2>1, <2>3, NotificationsAssumption DEF ChosenSettingsStay
    <2>5. prefs' \in [People -> Preferences \cup {None}] /\ ChosenSettingsStay'
      BY <1>1, <2>2, <2>4 DEF ChosenSettingsStay
    <2> QED
      BY <1>1, <1>4, <2>5, SettingsStep DEF CreateSettings
  <1>5. ASSUME NEW choice \in Choices, UpdateSettings(p, choice)
        PROVE  NotificationsInv'
    <2>1. choice \in Preferences \cup {None}
      BY NotificationsAssumption
    <2>2. prefs' = [prefs EXCEPT ![p] = choice] /\ chosen' = [chosen EXCEPT ![p] = choice]
      BY <1>5 DEF UpdateSettings
    <2>3. /\ prefs' \in [People -> Preferences \cup {None}]
          /\ chosen' \in [People -> Preferences \cup {None}]
          /\ ChosenSettingsStay'
      BY <1>1, <2>1, <2>2 DEF ChosenSettingsStay
    <2> QED
      BY <1>1, <1>5, <2>3, SettingsStep DEF UpdateSettings
  <1> QED
    BY <1>2, <1>3, <1>4, <1>5

-----------------------------------------------------------------------------
(* The theorems *)

\* Nothing has happened yet
LEMMA InitNotificationsInv == Init => NotificationsInv
  <1> SUFFICES ASSUME Init
               PROVE  NotificationsInv
    OBVIOUS
  <1>1. delivery \in Seq(DeliveryStates) /\ Len(delivery) = 0 /\ Started = {}
    <2>1. delivery = <<>>
      BY DEF Init
    <2> QED
      BY <2>1, EmptySeq DEF Started
  <1>2. \A p \in People : inbox[p] = <<>> /\ Len(inbox[p]) = 0 /\ inbox[p] \in Seq(Deliveries)
    BY EmptySeq DEF Init
  <1>3. inbox \in [People -> Seq(Deliveries)]
    BY <1>2 DEF Init
  <1>4. Defaults \in Preferences
    BY DEF Defaults, Preferences
  <1>5. prefs \in [People -> Preferences \cup {None}]
    BY <1>4 DEF Init
  <1>6. Typed
    BY <1>1, <1>3, <1>5, NotificationsAssumption DEF Init, Typed
  <1>7. Unstarted
    BY <1>2 DEF Init, Unstarted, Untouched, RowIn, Excused
  <1>8. StampedAfterBoth /\ ChosenSettingsStay
    BY DEF Init, StampedAfterBoth, ChosenSettingsStay
  <1> QED
    BY <1>1, <1>6, <1>7, <1>8 DEF NotificationsInv

\* Every step keeps the invariant
LEMMA StepNotificationsInv == NotificationsInv /\ [Next]_vars => NotificationsInv'
  <1> SUFFICES ASSUME NotificationsInv, [Next]_vars
               PROVE  NotificationsInv'
    OBVIOUS
  <1>1. ASSUME NEW event \in Events, Dispatch(event)
        PROVE  NotificationsInv'
    BY <1>1, StartKeeps DEF Dispatch
  <1>2. CASE Remind
    BY <1>2, StartKeeps DEF Remind, Events, NotificationsInv, Typed
  <1>3. ASSUME NEW d \in Started, Work(d) \/ Lose(d) \/ StampReminder(d)
        PROVE  NotificationsInv'
    <2>1. CASE Work(d)
      BY <2>1, ReadRecipientsKeeps, InAppKeeps, MailKeeps, Zenon DEF Work
    <2>2. CASE Lose(d)
      BY <2>2, EndKeeps DEF Lose
    <2>3. CASE StampReminder(d)
      BY <2>3, EndKeeps DEF StampReminder
    <2> QED
      BY <1>3, <2>1, <2>2, <2>3
  <1>4. ASSUME NEW p \in Callers,
               \/ \E d \in Deliveries : MarkRead(p, d)
               \/ FindSettings(p) \/ CreateSettings(p)
               \/ \E choice \in Choices : UpdateSettings(p, choice)
        PROVE  NotificationsInv'
    BY <1>4, PeopleKeep, Zenon
  <1>5. CASE UNCHANGED vars
    BY <1>5, SettingsStep DEF vars, NotificationsInv, Typed, ChosenSettingsStay
  <1> QED
    BY <1>1, <1>2, <1>3, <1>4, <1>5, Zenon DEF Next

\* The invariant holds in every state of every behaviour
THEOREM NotificationsInvariant == Spec => []NotificationsInv
  <1> QED
    BY InitNotificationsInv, StepNotificationsInv, PTL DEF Spec

\* The tables and the deliveries in flight keep their types, and no delivery
\* tries a mail too often
THEOREM NotificationTypes == Spec => []TypeOK
  <1>1. ASSUME NotificationsInv
        PROVE  TypeOK
    <2>1. ASSUME NEW p \in People, NEW i \in 1..Len(inbox[p])
          PROVE  inbox[p][i] \in Started
      <3>1. inbox[p] \in Seq(Deliveries)
        BY <1>1 DEF NotificationsInv, Typed
      <3>2. inbox[p][i] \in Deliveries /\ RowIn(inbox[p][i], p)
        BY <3>1, ElementOfSeq DEF RowIn
      <3> QED
        BY <1>1, <3>2 DEF NotificationsInv, Unstarted, Untouched
    <2>2. \A d \in Started : delivery[d] \in DeliveryStates
      BY <1>1, DeliveryType
    <2> QED
      BY <1>1, <2>1, <2>2 DEF NotificationsInv, Typed, TypeOK, DeliveryStates
  <1> QED
    BY <1>1, NotificationsInvariant, PTL

\* One event gives a person one in-app row and one mail at most, unless the
\* transport took a mail and its answer was lost
THEOREM NobodyIsToldTwice == Spec => []NoDuplicates
  <1>1. ASSUME NotificationsInv
        PROVE  NoDuplicates
    <2>1. ASSUME NEW d \in Started, NEW p \in People
          PROVE  /\ \A i, j \in RowsOf(d, p) : i = j
                 /\ <<d, p>> \notin excused => mails[d][p] <= 1
      BY <1>1, DeliveryType DEF DeliveryFits, PersonFits, RowOnce, RowsOf, Excused
    <2> QED
      BY <2>1 DEF NoDuplicates
  <1> QED
    BY <1>1, NotificationsInvariant, PTL

\* A failed insert or a mail given up for one recipient does not keep the event
\* from the other
THEOREM FailuresStay == Spec => []FailureStaysWithItsRecipient
  <1>1. ASSUME NotificationsInv
        PROVE  FailureStaysWithItsRecipient
    <2>1. ASSUME NEW d \in Started, NEW p \in People, Step(d) \in {"over", "stamped"},
                 Entitled(d, p), <<d, p>> \notin excused
          PROVE  RowsOf(d, p) # {}
      <3>1. PersonFits(d, p) /\ Past(d, p)
        BY <1>1, <2>1, DeliveryType DEF DeliveryFits, Past
      <3>2. RowIn(d, p)
        BY <2>1, <3>1 DEF PersonFits, Excused
      <3> QED
        BY <3>2 DEF RowIn, RowsOf
    <2> QED
      BY <2>1 DEF FailureStaysWithItsRecipient, Entitled
  <1> QED
    BY <1>1, NotificationsInvariant, PTL

\* A reminder is stamped only when both recipients had their turn
THEOREM StampsAwaitBoth == Spec => []StampedAfterBoth
  <1>1. NotificationsInv => StampedAfterBoth
    BY DEF NotificationsInv
  <1> QED
    BY <1>1, NotificationsInvariant, PTL

\* The defaults never replace settings that a person chose
THEOREM ChoicesStay == Spec => []ChosenSettingsStay
  <1>1. NotificationsInv => ChosenSettingsStay
    BY DEF NotificationsInv
  <1> QED
    BY <1>1, NotificationsInvariant, PTL
=============================================================================

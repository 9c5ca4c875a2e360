------------------------------- MODULE Catalog -------------------------------
(***************************************************************************)
(* What a provider offers: the handlers that edit services and weekly      *)
(* availability slots, and the cached pages clients browse them on.  An    *)
(* edit reads, checks, writes by id and then deletes the cached page; a    *)
(* visit that misses the cache reads the tables and fills it.  Requests    *)
(* run concurrently and nothing is locked.                                 *)
(***************************************************************************)
EXTENDS Integers

CONSTANTS
    None,       \* SQL NULL, a missing row or cache entry
    Absent,     \* a property the request body leaves out
    Services,   \* service ids
    SlotIds,    \* availability ids
    SlotsPage,  \* the key of the page of all slots
    Times,      \* clock times
    Days,       \* days of the week
    Patches,    \* bound: the bodies of PATCH services/:id that clients send
    Requests,   \* requests that can be in flight at the same time
    Mixes       \* bound: the sets of operations clients combine

PriceRequired == {"FIXED", "PER_HOUR"}
NoPrice == {"ON_REQUEST", "FREE", "NOT_SHOWN"}
Types == PriceRequired \cup NoPrice
Units == {"PER_SERVICE", "PER_HOUR"}

\* Of a price only whether there is one
Pricings == [type : Types, unit : Units \cup {None}, price : {"some", None}]
Hours == [start : Times, end : Times]

ServiceRows == [pricing : Pricings, hours : Hours \cup {None}, active : BOOLEAN]
SlotRows == [day : Days, start : Times, end : Times, active : BOOLEAN]

\* Bodies of an update: what is absent is left alone, what is null is cleared
PatchBodies == [type  : Types \cup {Absent},
                unit  : Units \cup {None, Absent},
                price : {"some", None, Absent},
                hours : Hours \cup {None, Absent},
                active : BOOLEAN \cup {Absent}]

ASSUME CatalogAssumption ==
    /\ Times \subseteq Nat
    /\ Patches \subseteq PatchBodies
    /\ SlotsPage \notin Services
    /\ None \notin ServiceRows \cup SlotRows \cup Hours \cup Units \cup {"some"}
    /\ Absent \notin Pricings \cup Types \cup Units \cup Hours \cup Times \cup Days
                     \cup BOOLEAN \cup {"some", None}

VARIABLES
    services,   \* table services
    slots,      \* table availabilities
    cache,      \* the pages service/<id> and availability/<provider> in Redis
    req,        \* what each request carries from one step to the next
    calls,      \* the operations of this behaviour, one of Mixes
    halved,     \* history: slots of which one bound was changed alone
    outdated    \* history: pages filled late, or left behind by a change

vars == <<services, slots, cache, req, calls, halved, outdated>>

Pages == Services \cup {SlotsPage}
Idle == [step |-> "idle", page |-> None, data |-> None]

Init ==
    /\ services = [s \in Services |-> None]
    /\ slots = [i \in SlotIds |-> None]
    /\ cache = [p \in Pages |-> None]
    /\ req = [r \in Requests |-> Idle]
    /\ calls \in Mixes
    /\ halved = {}
    /\ outdated = {}

GoTo(r, step, page, data) ==
    req' = [req EXCEPT ![r] = [step |-> step, page |-> page, data |-> data]]

Answer(r) == req' = [req EXCEPT ![r] = Idle]

-----------------------------------------------------------------------------
(* Services *)

\* What the two lists of pricing types require and clear
ResolvePricing(type, unit, price) ==
    [type  |-> type,
     unit  |-> IF type = "FIXED" THEN unit ELSE None,
     price |-> IF type \in NoPrice THEN None ELSE price]

PricingAccepted(type, unit, price) ==
    /\ type \in PriceRequired => price # None
    /\ type = "FIXED" => unit # None

HoursAccepted(hours) == hours \in Hours => hours.start < hours.end

Else(given, current) == IF given = Absent THEN current ELSE given

TouchesPricing(patch) ==
    \E given \in {patch.type, patch.unit, patch.price} : given # Absent

\* FIXED is the type of a service created without one
CreateService(r, s, patch) ==
    LET type == Else(patch.type, "FIXED")
        unit == Else(patch.unit, None)
        price == Else(patch.price, None)
    IN  /\ "create" \in calls
        /\ req[r] = Idle
        /\ services[s] = None
        /\ PricingAccepted(type, unit, price)
        /\ HoursAccepted(patch.hours)
        /\ services' = [services EXCEPT ![s] =
               [pricing |-> ResolvePricing(type, unit, price),
                hours   |-> Else(patch.hours, None),
                active  |-> TRUE]]
        /\ GoTo(r, "invalidate", s, None)
        /\ UNCHANGED <<slots, cache, calls, halved, outdated>>

\* Mutant: a pricing is stored as it was sent, column by column
MergeSentOnly(patch, current) ==
    [type  |-> Else(patch.type, current.type),
     unit  |-> Else(patch.unit, current.unit),
     price |-> Else(patch.price, current.price)]

\* The pricing to write: what is sent, completed from the row and resolved
Merge(patch, current) ==
    ResolvePricing(Else(patch.type, current.type),
                   Else(patch.unit, current.unit),
                   Else(patch.price, current.price))

UpdateServiceRead(r, s, patch) ==
    LET current == services[s].pricing
    IN  /\ "update" \in calls
        /\ req[r] = Idle
        /\ services[s] # None
        /\ HoursAccepted(patch.hours)
        /\ TouchesPricing(patch) =>
               PricingAccepted(Else(patch.type, current.type),
                               Else(patch.unit, current.unit),
                               Else(patch.price, current.price))
        /\ GoTo(r, "write", s,
                [pricing |-> IF TouchesPricing(patch) THEN Merge(patch, current) ELSE Absent,
                 hours   |-> patch.hours,
                 active  |-> patch.active])
        /\ UNCHANGED <<services, slots, cache, calls, halved, outdated>>

RemoveServiceRead(r, s) ==
    /\ "update" \in calls
    /\ req[r] = Idle
    /\ services[s] # None
    /\ GoTo(r, "write", s, [pricing |-> Absent, hours |-> Absent, active |-> FALSE])
    /\ UNCHANGED <<services, slots, cache, calls, halved, outdated>>

\* Mutant: what was not sent is written as undefined
WriteServiceAll(r) ==
    LET s == req[r].page
    IN  /\ req[r].step = "write"
        /\ services' = [services EXCEPT ![s].pricing = req[r].data.pricing]
        /\ GoTo(r, "invalidate", s, None)
        /\ UNCHANGED <<slots, cache, calls, halved, outdated>>

\* The columns that are sent, and the whole pricing when any of it is
WriteService(r) ==
    LET s == req[r].page
        data == req[r].data
    IN  /\ req[r].step = "write"
        /\ services' = [services EXCEPT
               ![s].pricing = Else(data.pricing, @),
               ![s].hours   = Else(data.hours, @),
               ![s].active  = Else(data.active, @)]
        /\ GoTo(r, "invalidate", s, None)
        /\ UNCHANGED <<slots, cache, calls, halved, outdated>>

-----------------------------------------------------------------------------
(* Availability slots *)

\* The unique index on provider, day, start and end, removed slots included
Twin(i, slot) ==
    \E j \in SlotIds \ {i} : /\ slots[j] # None
                             /\ slots[j].day = slot.day
                             /\ slots[j].start = slot.start
                             /\ slots[j].end = slot.end

\* An edit of the slots is answered when the page has been deleted
WriteSlot(r, i, slot) ==
    /\ "slots" \in calls
    /\ req[r] = Idle
    /\ ~Twin(i, slot)
    /\ slots' = [slots EXCEPT ![i] = slot]
    /\ GoTo(r, "invalidate", SlotsPage, None)
    /\ UNCHANGED <<services, cache, calls, outdated>>

\* Mutant: the range is not checked
CreateSlotUnchecked(r, i, day, start, end) ==
    /\ slots[i] = None
    /\ WriteSlot(r, i, [day |-> day, start |-> start, end |-> end, active |-> TRUE])
    /\ UNCHANGED halved

CreateSlot(r, i, day, start, end) ==
    /\ slots[i] = None
    /\ start < end
    /\ WriteSlot(r, i, [day |-> day, start |-> start, end |-> end, active |-> TRUE])
    /\ UNCHANGED halved

\* The range is checked only when both bounds are sent, a removed slot is updated too
UpdateSlot(r, i, day, start, end) ==
    LET slot == slots[i]
    IN  /\ slot # None
        /\ Absent \notin {start, end} => start < end
        /\ WriteSlot(r, i, [day    |-> Else(day, slot.day),
                            start  |-> Else(start, slot.start),
                            end    |-> Else(end, slot.end),
                            active |-> slot.active])
        /\ halved' = IF start # Absent /\ end # Absent THEN halved \ {i}
                     ELSE IF start = Absent /\ end = Absent THEN halved
                     ELSE halved \cup {i}

RemoveSlot(r, i) ==
    /\ slots[i] # None
    /\ WriteSlot(r, i, [slots[i] EXCEPT !.active = FALSE])
    /\ UNCHANGED halved

-----------------------------------------------------------------------------
(* The role switch, and the cached pages *)

\* UsersService.switchRole takes the services off and deletes no page of theirs
CloseProvider ==
    /\ "close" \in calls
    /\ services' = [s \in Services |->
           IF services[s] = None THEN None ELSE [services[s] EXCEPT !.active = FALSE]]
    /\ outdated' = outdated \cup {s \in Services : cache[s] # None}
    /\ UNCHANGED <<slots, cache, req, calls, halved>>

\* Whether a visit finds the page at all, and what it then shows
Found(page) == page # SlotsPage => services[page] # None /\ services[page].active

Content(page) ==
    IF page = SlotsPage THEN {slots[i] : i \in {j \in SlotIds : slots[j] # None /\ slots[j].active}}
    ELSE services[page]

\* Mutant: a service that was removed is shown
BrowseRemoved(r, page) ==
    /\ req[r] = Idle
    /\ cache[page] = None
    /\ page \in Services => services[page] # None
    /\ GoTo(r, "fill", page, Content(page))
    /\ UNCHANGED <<services, slots, cache, calls, halved, outdated>>

\* The interceptor misses and the handler reads; a page that is not found is not kept
Browse(r, page) ==
    /\ req[r] = Idle
    /\ cache[page] = None
    /\ Found(page)
    /\ GoTo(r, "fill", page, Content(page))
    /\ UNCHANGED <<services, slots, cache, calls, halved, outdated>>

Agrees(page, content) == Found(page) /\ content = Content(page)

Fill(r) ==
    LET page == req[r].page
    IN  /\ req[r].step = "fill"
        /\ cache' = [cache EXCEPT ![page] = req[r].data]
        /\ outdated' = IF Agrees(page, req[r].data)
                       THEN outdated \ {page} ELSE outdated \cup {page}
        /\ Answer(r)
        /\ UNCHANGED <<services, slots, calls, halved>>

\* Mutant: only the page of the slots is deleted
InvalidateSlots(r) ==
    /\ req[r].step = "invalidate"
    /\ IF req[r].page = SlotsPage
       THEN /\ cache' = [cache EXCEPT ![SlotsPage] = None]
            /\ outdated' = outdated \ {SlotsPage}
       ELSE UNCHANGED <<cache, outdated>>
    /\ Answer(r)
    /\ UNCHANGED <<services, slots, calls, halved>>

Invalidate(r) ==
    LET page == req[r].page
    IN  /\ req[r].step = "invalidate"
        /\ cache' = [cache EXCEPT ![page] = None]
        /\ outdated' = outdated \ {page}
        /\ Answer(r)
        /\ UNCHANGED <<services, slots, calls, halved>>

PageExpires(page) ==
    /\ cache[page] # None
    /\ cache' = [cache EXCEPT ![page] = None]
    /\ outdated' = outdated \ {page}
    /\ UNCHANGED <<services, slots, req, calls, halved>>

\* A database error, a swallowed Redis error or the end of the replica
Fail(r) ==
    LET page == req[r].page
    IN  /\ req[r] # Idle
        /\ outdated' = IF req[r].step = "invalidate" /\ cache[page] # None
                       THEN outdated \cup {page} ELSE outdated
        /\ Answer(r)
        /\ UNCHANGED <<services, slots, cache, calls, halved>>

-----------------------------------------------------------------------------
Receive(r) ==
    \/ \E s \in Services :
          \/ \E patch \in Patches : CreateService(r, s, patch) \/ UpdateServiceRead(r, s, patch)
          \/ RemoveServiceRead(r, s)
    \/ \E i \in SlotIds :
          \/ \E day \in Days, start, end \in Times : CreateSlot(r, i, day, start, end)
          \/ \E day \in Days \cup {Absent}, start, end \in Times \cup {Absent} :
                UpdateSlot(r, i, day, start, end)
          \/ RemoveSlot(r, i)
    \/ \E page \in Pages : Browse(r, page)

Advance(r) == WriteService(r) \/ Invalidate(r) \/ Fill(r)

Next ==
    \/ \E r \in Requests : Receive(r) \/ Advance(r) \/ Fail(r)
    \/ \E page \in Pages : PageExpires(page)
    \/ CloseProvider

Spec == Init /\ [][Next]_vars

\* A started request goes on or fails; Redis drops a page when its TTL is over
Fairness ==
    /\ \A r \in Requests : WF_vars(Advance(r) \/ Fail(r))
    /\ \A page \in Pages : WF_vars(PageExpires(page))

FairSpec == Spec /\ Fairness

-----------------------------------------------------------------------------
(* Properties *)

\* What a page shows, and what an update is going to write
Contents(page) == IF page = SlotsPage THEN SUBSET SlotRows ELSE ServiceRows
Edits == [pricing : Pricings \cup {Absent},
          hours   : Hours \cup {None, Absent},
          active  : BOOLEAN \cup {Absent}]

Carries(r, steps, pages, contents) ==
    req[r].step \in steps => req[r].page \in pages /\ req[r].data \in contents

\* The tables, the cached pages and what a request carries at each of its steps
\* keep their types: an update only writes what the row can hold, and no page
\* is filled with another's content
TypeOK ==
    /\ services \in [Services -> ServiceRows \cup {None}]
    /\ slots \in [SlotIds -> SlotRows \cup {None}]
    /\ \A page \in Pages : cache[page] \in Contents(page) \cup {None}
    /\ \A r \in Requests :
         /\ req[r].step \in {"idle", "write", "fill", "invalidate"}
         /\ Carries(r, {"idle"}, {None}, {None})
         /\ Carries(r, {"write"}, Services, Edits)
         /\ Carries(r, {"fill"}, Pages, Contents(req[r].page))
         /\ Carries(r, {"invalidate"}, Pages, {None})
    /\ halved \subseteq SlotIds
    /\ outdated \subseteq Pages

(***************************************************************************)
(* Whatever partial updates interleave, a service has a price exactly when *)
(* its pricing type asks for one and a unit exactly when it is FIXED, and  *)
(* working hours that open before they close: ServicesService.update       *)
(* completes a pricing from a row that may have changed when it writes.    *)
(***************************************************************************)
PricingIsWhole ==
    \A s \in Services : services[s] # None =>
        LET pricing == services[s].pricing
        IN  /\ pricing.price # None <=> pricing.type \in PriceRequired
            /\ pricing.unit # None <=> pricing.type = "FIXED"
            /\ services[s].hours # None => services[s].hours.start < services[s].hours.end

(***************************************************************************)
(* No two slots are the same, and a slot opens before it closes as long as *)
(* its bounds were last sent together: only an update of one bound alone   *)
(* can turn it inside out.                                                 *)
(***************************************************************************)
SlotsAreSound ==
    \A i \in SlotIds : slots[i] # None =>
        /\ ~Twin(i, slots[i])
        /\ i \notin halved => slots[i].start < slots[i].end

(***************************************************************************)
(* A cached page shows what a visit would find now, except while the edit  *)
(* that changed it has yet to delete it, when that deletion failed, when   *)
(* the page was filled with what had been read before the edit, and, for   *)
(* the services of a provider who became a customer, until it expires.     *)
(***************************************************************************)
PagesAreCurrent ==
    \A page \in Pages :
        cache[page] # None /\ ~Agrees(page, cache[page]) =>
            \/ page \in outdated
            \/ \E r \in Requests : req[r].step = "invalidate" /\ req[r].page = page

(***************************************************************************)
(* A service that stays off the offer vanishes from its page in the end.   *)
(***************************************************************************)
RemovedServiceVanishes ==
    \A s \in Services :
        <>[](services[s] # None /\ ~services[s].active) => <>[](cache[s] = None)
=============================================================================

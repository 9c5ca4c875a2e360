---------------------------- MODULE CatalogProofs ----------------------------
(***************************************************************************)
(* Proofs about Catalog for every value of its constants: any number of    *)
(* services, slots and requests in flight, and whatever bodies they send.  *)
(***************************************************************************)
EXTENDS Catalog, TLAPS

-----------------------------------------------------------------------------
(* The inductive invariant *)

\* What the pricing lists and the range check let through
SoundPricings ==
    {pricing \in Pricings : /\ pricing.price # None <=> pricing.type \in PriceRequired
                            /\ pricing.unit # None <=> pricing.type = "FIXED"}
SoundHours == {hours \in Hours : hours.start < hours.end}
SoundRows == [pricing : SoundPricings, hours : SoundHours \cup {None}, active : BOOLEAN]

\* What an update is going to write
SoundEdits == [pricing : SoundPricings \cup {Absent},
               hours   : SoundHours \cup {None, Absent},
               active  : BOOLEAN \cup {Absent}]

\* A request edits a service that is there, with an edit that is sound whatever
\* the row holds by then, and fills a page with what it can show
RequestFits(r) ==
    /\ req[r].step \in {"idle", "write", "fill", "invalidate"}
    /\ req[r].step = "idle" => req[r].page = None /\ req[r].data = None
    /\ req[r].step # "idle" => req[r].page \in Pages
    /\ req[r].step = "write" => /\ req[r].page \in Services
                               /\ services[req[r].page] # None
                               /\ req[r].data \in SoundEdits
    /\ req[r].step = "fill" => req[r].data \in Contents(req[r].page)
    /\ req[r].step = "invalidate" => req[r].data = None

Typed ==
    /\ services \in [Services -> SoundRows \cup {None}]
    /\ slots \in [SlotIds -> SlotRows \cup {None}]
    /\ cache = [page \in Pages |-> cache[page]]
    /\ \A page \in Pages : cache[page] \in Contents(page) \cup {None}
    /\ req = [r \in Requests |-> req[r]]
    /\ halved \subseteq SlotIds
    /\ outdated \subseteq Pages

CatalogInv ==
    /\ Typed
    /\ \A r \in Requests : RequestFits(r)
    /\ SlotsAreSound
    /\ PagesAreCurrent

-----------------------------------------------------------------------------
(* What an edit makes of a pricing and of the hours *)

\* An accepted pricing is whole once it is resolved
LEMMA ResolvedIsSound ==
    ASSUME NEW type \in Types, NEW unit \in Units \cup {None}, NEW price \in {"some", None},
           PricingAccepted(type, unit, price)
    PROVE  ResolvePricing(type, unit, price) \in SoundPricings
  <1>1. None \notin Units
    BY CatalogAssumption
  <1>2. PICK pricing : pricing = ResolvePricing(type, unit, price)
    OBVIOUS
  <1>3. /\ pricing.type = type
        /\ pricing.unit = IF type = "FIXED" THEN unit ELSE None
        /\ pricing.price = IF type \in NoPrice THEN None ELSE price
    BY <1>2 DEF ResolvePricing
  <1>4. pricing \in Pricings
    BY <1>2 DEF ResolvePricing, Pricings
  <1>5. pricing.price # None <=> type \in PriceRequired
    BY <1>3 DEF PricingAccepted, Types, PriceRequired, NoPrice
  <1>6. pricing.unit # None <=> type = "FIXED"
    BY <1>3 DEF PricingAccepted
  <1> QED
    BY <1>2, <1>3, <1>4, <1>5, <1>6 DEF SoundPricings

\* What is left out is completed with what there is
LEMMA ElseTyped ==
    ASSUME NEW S, NEW given \in S \cup {Absent}, NEW current \in S
    PROVE  Else(given, current) \in S
  BY DEF Else

\* The hours of a body are null, left out or open before they close
LEMMA HoursAreSound ==
    ASSUME NEW hours \in Hours \cup {None, Absent}, HoursAccepted(hours)
    PROVE  /\ hours \in SoundHours \cup {None, Absent}
           /\ Else(hours, None) \in SoundHours \cup {None}
  BY DEF HoursAccepted, SoundHours, Else

\* The fields of a body
LEMMA PatchType ==
    ASSUME NEW patch \in Patches
    PROVE  /\ patch.type \in Types \cup {Absent}
           /\ patch.unit \in Units \cup {None} \cup {Absent}
           /\ patch.price \in {"some", None} \cup {Absent}
           /\ patch.hours \in Hours \cup {None, Absent}
           /\ patch.active \in BOOLEAN \cup {Absent}
  <1>1. patch \in PatchBodies
    BY CatalogAssumption
  <1> QED
    BY <1>1 DEF PatchBodies

\* A sound row is a row, and no row is NULL
LEMMA SoundRowType ==
    ASSUME NEW row \in SoundRows
    PROVE  /\ row \in ServiceRows /\ row # None
           /\ row.pricing \in SoundPricings /\ row.hours \in SoundHours \cup {None}
           /\ row.active \in BOOLEAN
           /\ row.pricing.type \in Types /\ row.pricing.unit \in Units \cup {None}
           /\ row.pricing.price \in {"some", None}
  <1>1. /\ row.pricing \in SoundPricings /\ row.hours \in SoundHours \cup {None}
        /\ row.active \in BOOLEAN
        /\ row = [pricing |-> row.pricing, hours |-> row.hours, active |-> row.active]
    BY DEF SoundRows
  <1>2. row.pricing \in Pricings /\ row.hours \in Hours \cup {None}
    BY <1>1 DEF SoundPricings, SoundHours
  <1>3. row \in ServiceRows
    BY <1>1, <1>2 DEF ServiceRows
  <1>4. row # None
    BY <1>3, CatalogAssumption
  <1> QED
    BY <1>1, <1>2, <1>3, <1>4 DEF Pricings

-----------------------------------------------------------------------------
(* Requests and pages *)

Current(page) ==
    cache[page] # None /\ ~Agrees(page, cache[page]) =>
        \/ page \in outdated
        \/ \E r \in Requests : req[r].step = "invalidate" /\ req[r].page = page

\* A service that exists goes on to exist: deleting one takes it off the offer
RowsStay == \A s \in Services : services[s] # None => services'[s] # None

\* A request that moves on with what its next step expects
LEMMA RequestMoves ==
    ASSUME CatalogInv, RowsStay, NEW r \in Requests, NEW step, NEW page, NEW data,
           GoTo(r, step, page, data),
           step \in {"write", "fill", "invalidate"}, page \in Pages,
           step = "write" =>
               page \in Services /\ services[page] # None /\ data \in SoundEdits,
           step = "fill" => data \in Contents(page),
           step = "invalidate" => data = None
    PROVE  /\ req' = [q \in Requests |-> req'[q]]
           /\ (\A q \in Requests : RequestFits(q))'
           /\ \A q \in Requests \ {r} : req'[q] = req[q]
           /\ req'[r].step = step /\ req'[r].page = page
  <1>1. PICK m : m = [step |-> step, page |-> page, data |-> data]
    OBVIOUS
  <1>2. req' = [req EXCEPT ![r] = m]
    BY <1>1 DEF GoTo
  <1>3. /\ req' = [q \in Requests |-> req'[q]] /\ req'[r] = m
        /\ \A q \in Requests \ {r} : req'[q] = req[q]
    BY <1>2 DEF CatalogInv, Typed
  <1>4. m.step = step /\ m.page = page /\ m.data = data
    BY <1>1
  <1>5. \A q \in Requests \ {r} : RequestFits(q)'
    BY <1>3 DEF CatalogInv, RequestFits, RowsStay
  <1>6. RequestFits(r)'
    BY <1>3, <1>4 DEF RequestFits, RowsStay
  <1> QED
    BY <1>3, <1>4, <1>5, <1>6

\* A request that is answered
LEMMA RequestEnds ==
    ASSUME CatalogInv, RowsStay, NEW r \in Requests, Answer(r)
    PROVE  /\ req' = [q \in Requests |-> req'[q]]
           /\ (\A q \in Requests : RequestFits(q))'
           /\ \A q \in Requests \ {r} : req'[q] = req[q]
  <1>1. /\ req' = [q \in Requests |-> req'[q]] /\ req'[r] = Idle
        /\ \A q \in Requests \ {r} : req'[q] = req[q]
    BY DEF Answer, CatalogInv, Typed
  <1>2. \A q \in Requests \ {r} : RequestFits(q)'
    BY <1>1 DEF CatalogInv, RequestFits, RowsStay
  <1>3. RequestFits(r)'
    BY <1>1 DEF RequestFits, Idle
  <1> QED
    BY <1>1, <1>2, <1>3

\* A page stays current when neither it nor its table changes and whoever is to
\* delete it still is, or has it counted as outdated
LEMMA PageStaysCurrent ==
    ASSUME CatalogInv, NEW page \in Pages,
           page = SlotsPage => slots' = slots,
           page # SlotsPage => services'[page] = services[page],
           cache'[page] = cache[page],
           page \in outdated => page \in outdated',
           \A q \in Requests :
               req[q].step = "invalidate" /\ req[q].page = page =>
                   req'[q] = req[q] \/ page \in outdated' \/ cache[page] = None
    PROVE  Current(page)'
  <1>1. Found(page)' <=> Found(page)
    BY DEF Found
  <1>2. Content(page)' = Content(page)
    BY DEF Content
  <1>3. Current(page)
    BY DEF CatalogInv, PagesAreCurrent, Current
  <1> QED
    BY <1>1, <1>2, <1>3 DEF Current, Agrees

\* The invariant, page by page
LEMMA CurrentPages == PagesAreCurrent <=> \A page \in Pages : Current(page)
  BY DEF PagesAreCurrent, Current

-----------------------------------------------------------------------------
(* Reading requests *)

\* A request that reads and checks leaves the tables and the pages alone
LEMMA ReadKeeps ==
    ASSUME CatalogInv, NEW r \in Requests, NEW step, NEW page, NEW data,
           req[r] = Idle, GoTo(r, step, page, data),
           step \in {"write", "fill"}, page \in Pages,
           step = "write" =>
               page \in Services /\ services[page] # None /\ data \in SoundEdits,
           step = "fill" => data \in Contents(page),
           UNCHANGED <<services, slots, cache, halved, outdated>>
    PROVE  CatalogInv'
  <1>1. RowsStay
    BY DEF RowsStay
  <1>2. /\ req' = [q \in Requests |-> req'[q]] /\ (\A q \in Requests : RequestFits(q))'
        /\ \A q \in Requests \ {r} : req'[q] = req[q]
    BY <1>1, RequestMoves, Zenon
  <1>3. Typed'
    BY <1>2 DEF CatalogInv, Typed
  <1>4. ASSUME NEW p \in Pages
        PROVE  Current(p)'
    <2>1. req[r].step # "invalidate"
      BY DEF Idle
    <2> QED
      BY <1>2, <2>1, PageStaysCurrent
  <1>5. PagesAreCurrent'
    BY <1>4 DEF PagesAreCurrent, Current
  <1>6. SlotsAreSound'
    BY DEF CatalogInv, SlotsAreSound, Twin
  <1> QED
    BY <1>2, <1>3, <1>5, <1>6 DEF CatalogInv

\* What an update of a service is going to write is sound
LEMMA UpdateServiceReadKeeps ==
    ASSUME CatalogInv, NEW r \in Requests, NEW s \in Services, NEW patch \in Patches,
           UpdateServiceRead(r, s, patch)
    PROVE  CatalogInv'
  <1>1. PICK current : current = services[s].pricing
    OBVIOUS
  <1>2. services[s] \in SoundRows /\ services[s] # None
    BY DEF UpdateServiceRead, CatalogInv, Typed
  <1>3. /\ current \in SoundPricings /\ current.type \in Types
        /\ current.unit \in Units \cup {None} /\ current.price \in {"some", None}
    BY <1>1, <1>2, SoundRowType
  <1>4. PICK type, unit, price : /\ type = Else(patch.type, current.type)
                                 /\ unit = Else(patch.unit, current.unit)
                                 /\ price = Else(patch.price, current.price)
    OBVIOUS
  <1>5. type \in Types /\ unit \in Units \cup {None} /\ price \in {"some", None}
    BY <1>3, <1>4, PatchType, ElseTyped
  <1>6. PICK pricing : pricing = IF TouchesPricing(patch) THEN Merge(patch, current) ELSE Absent
    OBVIOUS
  <1>7. pricing \in SoundPricings \cup {Absent}
    <2>1. TouchesPricing(patch) => PricingAccepted(type, unit, price)
      BY <1>1, <1>4 DEF UpdateServiceRead
    <2>2. Merge(patch, current) = ResolvePricing(type, unit, price)
      BY <1>4 DEF Merge
    <2> QED
      BY <1>5, <1>6, <2>1, <2>2, ResolvedIsSound
  <1>8. patch.hours \in SoundHours \cup {None, Absent} /\ patch.active \in BOOLEAN \cup {Absent}
    BY PatchType, HoursAreSound DEF UpdateServiceRead
  <1>9. PICK edit : edit = [pricing |-> pricing, hours |-> patch.hours, active |-> patch.active]
    OBVIOUS
  <1>10. edit \in SoundEdits
    BY <1>7, <1>8, <1>9 DEF SoundEdits
  <1>11. /\ req[r] = Idle /\ GoTo(r, "write", s, edit)
         /\ UNCHANGED <<services, slots, cache, halved, outdated>>
    BY <1>1, <1>6, <1>9 DEF UpdateServiceRead
  <1>12. s \in Pages
    BY DEF Pages
  <1> QED
    BY <1>2, <1>10, <1>11, <1>12, ReadKeeps

\* Removing a service is an edit of one column
LEMMA RemoveServiceReadKeeps ==
    ASSUME CatalogInv, NEW r \in Requests, NEW s \in Services, RemoveServiceRead(r, s)
    PROVE  CatalogInv'
  <1>1. PICK off : off = FALSE
    OBVIOUS
  <1>2. PICK edit : edit = [pricing |-> Absent, hours |-> Absent, active |-> off]
    OBVIOUS
  <1>3. off \in BOOLEAN
    BY <1>1
  <1>4. edit \in SoundEdits
    BY <1>2, <1>3 DEF SoundEdits
  <1>5. /\ req[r] = Idle /\ services[s] # None /\ GoTo(r, "write", s, edit)
        /\ UNCHANGED <<services, slots, cache, halved, outdated>>
    BY <1>1, <1>2 DEF RemoveServiceRead
  <1>6. s \in Pages
    BY DEF Pages
  <1> QED
    BY <1>4, <1>5, <1>6, ReadKeeps

\* A visit that misses the cache reads the row of a service, or the active slots
LEMMA BrowseKeeps ==
    ASSUME CatalogInv, NEW r \in Requests, NEW page \in Pages, Browse(r, page)
    PROVE  CatalogInv'
  <1>1. Content(page) \in Contents(page)
    <2>1. CASE page = SlotsPage
      BY <2>1 DEF Content, Contents, CatalogInv, Typed
    <2>2. CASE page # SlotsPage
      <3>1. services[page] \in SoundRows
        BY <2>2 DEF Browse, Found, CatalogInv, Typed, Pages
      <3> QED
        BY <2>2, <3>1, SoundRowType DEF Content, Contents
    <2> QED
      BY <2>1, <2>2
  <1>2. /\ req[r] = Idle /\ GoTo(r, "fill", page, Content(page))
        /\ UNCHANGED <<services, slots, cache, halved, outdated>>
    BY DEF Browse
  <1> QED
    BY <1>1, <1>2, ReadKeeps

-----------------------------------------------------------------------------
(* SoundEdits of the services *)

\* A service is written and its page is about to be deleted
LEMMA ServiceWriteKeeps ==
    ASSUME CatalogInv, NEW r \in Requests, NEW s \in Services, NEW row \in SoundRows,
           req[r].step # "invalidate",
           services' = [services EXCEPT ![s] = row], GoTo(r, "invalidate", s, None),
           UNCHANGED <<slots, cache, halved, outdated>>
    PROVE  CatalogInv'
  <1>1. row # None
    BY SoundRowType
  <1>2. /\ services' \in [Services -> SoundRows \cup {None}] /\ services'[s] = row
        /\ \A z \in Services \ {s} : services'[z] = services[z]
    BY DEF CatalogInv, Typed
  <1>3. RowsStay
    BY <1>1, <1>2 DEF RowsStay
  <1>4. s \in Pages
    BY DEF Pages
  <1>5. /\ req' = [q \in Requests |-> req'[q]] /\ (\A q \in Requests : RequestFits(q))'
        /\ \A q \in Requests \ {r} : req'[q] = req[q]
        /\ req'[r].step = "invalidate" /\ req'[r].page = s
    <2>1. PICK step : step = "invalidate"
      OBVIOUS
    <2>2. /\ GoTo(r, step, s, None) /\ step \in {"write", "fill", "invalidate"}
          /\ step # "write" /\ step # "fill"
      BY <2>1
    <2> QED
      BY <1>3, <1>4, <2>1, <2>2, RequestMoves
  <1>6. Typed'
    BY <1>2, <1>5 DEF CatalogInv, Typed
  <1>7. ASSUME NEW page \in Pages \ {s}
        PROVE  Current(page)'
    <2>1. page # SlotsPage => services'[page] = services[page]
      BY <1>2 DEF Pages
    <2> QED
      BY <1>5, <2>1, PageStaysCurrent
  <1>8. Current(s)'
    BY <1>5 DEF Current
  <1>9. PagesAreCurrent'
    BY <1>7, <1>8 DEF PagesAreCurrent, Current
  <1>10. SlotsAreSound'
    BY DEF CatalogInv, SlotsAreSound, Twin
  <1> QED
    BY <1>5, <1>6, <1>9, <1>10 DEF CatalogInv

\* A new service
LEMMA CreateServiceKeeps ==
    ASSUME CatalogInv, NEW r \in Requests, NEW s \in Services, NEW patch \in Patches,
           CreateService(r, s, patch)
    PROVE  CatalogInv'
  <1>1. PICK type, unit, price : /\ type = Else(patch.type, "FIXED")
                                 /\ unit = Else(patch.unit, None)
                                 /\ price = Else(patch.price, None)
    OBVIOUS
  <1>2. type \in Types /\ unit \in Units \cup {None} /\ price \in {"some", None}
    <2>1. "FIXED" \in Types /\ None \in Units \cup {None} /\ None \in {"some", None}
      BY DEF Types, PriceRequired
    <2> QED
      BY <1>1, <2>1, PatchType DEF Else
  <1>3. PICK pricing, hours : /\ pricing = ResolvePricing(type, unit, price)
                              /\ hours = Else(patch.hours, None)
    OBVIOUS
  <1>4. PricingAccepted(type, unit, price) /\ HoursAccepted(patch.hours) /\ req[r] = Idle
    BY <1>1 DEF CreateService
  <1>5. pricing \in SoundPricings /\ hours \in SoundHours \cup {None}
    BY <1>2, <1>3, <1>4, ResolvedIsSound, HoursAreSound, PatchType
  <1>6. PICK on : on = TRUE
    OBVIOUS
  <1>7. PICK row : row = [pricing |-> pricing, hours |-> hours, active |-> on]
    OBVIOUS
  <1>8. row \in SoundRows
    <2>1. on \in BOOLEAN
      BY <1>6
    <2> QED
      BY <1>5, <1>7, <2>1 DEF SoundRows
  <1>9. /\ services' = [services EXCEPT ![s] = row] /\ GoTo(r, "invalidate", s, None)
        /\ UNCHANGED <<slots, cache, halved, outdated>>
    BY <1>1, <1>3, <1>6, <1>7 DEF CreateService
  <1>10. req[r].step # "invalidate"
    BY <1>4 DEF Idle
  <1> QED
    BY <1>8, <1>9, <1>10, ServiceWriteKeeps

\* An update writes a sound edit over a sound row, the row it read or a later one
LEMMA WriteServiceKeeps ==
    ASSUME CatalogInv, NEW r \in Requests, WriteService(r)
    PROVE  CatalogInv'
  <1>1. PICK s, edit, row : s = req[r].page /\ edit = req[r].data /\ row = services[s]
    OBVIOUS
  <1>2. req[r].step = "write" /\ s \in Services /\ row # None /\ edit \in SoundEdits
    BY <1>1 DEF WriteService, CatalogInv, RequestFits
  <1>3. services \in [Services -> SoundRows \cup {None}] /\ row \in SoundRows
    BY <1>1, <1>2 DEF CatalogInv, Typed
  <1>4. PICK pricing, hours, active : /\ pricing = Else(edit.pricing, row.pricing)
                                      /\ hours = Else(edit.hours, row.hours)
                                      /\ active = Else(edit.active, row.active)
    OBVIOUS
  <1>5. /\ pricing \in SoundPricings /\ hours \in SoundHours \cup {None}
        /\ active \in BOOLEAN
    <2>1. /\ edit.pricing \in SoundPricings \cup {Absent}
          /\ edit.hours \in SoundHours \cup {None} \cup {Absent}
          /\ edit.active \in BOOLEAN \cup {Absent}
      BY <1>2 DEF SoundEdits
    <2> QED
      BY <1>3, <1>4, <2>1, SoundRowType DEF Else
  <1>6. PICK a : a = [row EXCEPT !.pricing = pricing]
    OBVIOUS
  <1>7. PICK b : b = [a EXCEPT !.hours = hours]
    OBVIOUS
  <1>8. PICK c : c = [b EXCEPT !.active = active]
    OBVIOUS
  <1>9. a \in SoundRows /\ b \in SoundRows /\ c \in SoundRows
    BY <1>3, <1>5, <1>6, <1>7, <1>8 DEF SoundRows
  <1>10. [row EXCEPT !.pricing = pricing, !.hours = hours, !.active = active] = c
    BY <1>3, <1>6, <1>7, <1>8 DEF SoundRows
  <1>11. services' = [services EXCEPT
                        ![s] = [row EXCEPT !.pricing = pricing, !.hours = hours,
                                           !.active = active]]
    BY <1>1, <1>2, <1>3, <1>4 DEF WriteService
  <1>12. services' = [services EXCEPT ![s] = c]
    BY <1>10, <1>11, Zenon
  <1>13. GoTo(r, "invalidate", s, None) /\ UNCHANGED <<slots, cache, halved, outdated>>
    BY <1>1 DEF WriteService
  <1>14. req[r].step # "invalidate"
    BY <1>2
  <1> QED
    BY <1>2, <1>9, <1>12, <1>13, <1>14, ServiceWriteKeeps

\* The role switch takes every service off and leaves the cached pages behind
LEMMA CloseProviderKeeps ==
    ASSUME CatalogInv, CloseProvider
    PROVE  CatalogInv'
  <1>1. ASSUME NEW s \in Services
        PROVE  /\ services'[s] \in SoundRows \cup {None}
               /\ services[s] # None => services'[s] # None
    <2>1. CASE services[s] = None
      BY <2>1 DEF CloseProvider
    <2>2. CASE services[s] # None
      <3>1. services[s] \in SoundRows
        BY <2>2 DEF CatalogInv, Typed
      <3>2. PICK row : row = [services[s] EXCEPT !.active = FALSE]
        OBVIOUS
      <3>3. row \in SoundRows
        BY <3>1, <3>2 DEF SoundRows
      <3>4. services'[s] = row
        BY <2>2, <3>2 DEF CloseProvider
      <3> QED
        BY <3>3, <3>4, SoundRowType
    <2> QED
      BY <2>1, <2>2
  <1>2. services' \in [Services -> SoundRows \cup {None}]
    BY <1>1 DEF CloseProvider
  <1>3. /\ UNCHANGED <<slots, cache, req, halved>>
        /\ outdated' = outdated \cup {s \in Services : cache[s] # None}
    BY DEF CloseProvider
  <1>4. Typed'
    BY <1>2, <1>3 DEF CatalogInv, Typed, Pages
  <1>5. (\A r \in Requests : RequestFits(r))'
    BY <1>1, <1>3 DEF CatalogInv, RequestFits
  <1>6. SlotsAreSound'
    BY <1>3 DEF CatalogInv, SlotsAreSound, Twin
  <1>7. ASSUME NEW page \in Pages
        PROVE  Current(page)'
    <2>1. CASE page \in Services
      BY <1>3, <2>1 DEF Current
    <2>2. CASE page = SlotsPage
      BY <1>3, <2>2, PageStaysCurrent
    <2> QED
      BY <2>1, <2>2 DEF Pages
  <1>8. PagesAreCurrent'
    BY <1>7 DEF PagesAreCurrent, Current
  <1> QED
    BY <1>4, <1>5, <1>6, <1>8 DEF CatalogInv

-----------------------------------------------------------------------------
(* SoundEdits of the slots *)

\* A slot is written that no other slot equals and that opens before it closes,
\* unless one of its bounds was changed alone
LEMMA WriteSlotKeeps ==
    ASSUME CatalogInv, NEW r \in Requests, NEW i \in SlotIds, NEW slot \in SlotRows,
           WriteSlot(r, i, slot), halved' \subseteq SlotIds,
           i \notin halved' => slot.start < slot.end,
           \A j \in SlotIds \ {i} : j \in halved' <=> j \in halved
    PROVE  CatalogInv'
  <1>1. /\ req[r] = Idle /\ ~Twin(i, slot) /\ slots' = [slots EXCEPT ![i] = slot]
        /\ UNCHANGED <<services, cache, outdated>>
    BY DEF WriteSlot
  <1>2. PICK step : step = "invalidate"
    OBVIOUS
  <1>3. GoTo(r, step, SlotsPage, None)
    BY <1>2 DEF WriteSlot
  <1>4. /\ slots' \in [SlotIds -> SlotRows \cup {None}] /\ slots'[i] = slot
        /\ \A j \in SlotIds \ {i} : slots'[j] = slots[j]
    BY <1>1 DEF CatalogInv, Typed
  <1>5. RowsStay
    BY <1>1 DEF RowsStay
  <1>6. /\ req' = [q \in Requests |-> req'[q]] /\ (\A q \in Requests : RequestFits(q))'
        /\ \A q \in Requests \ {r} : req'[q] = req[q]
        /\ req'[r].step = "invalidate" /\ req'[r].page = SlotsPage
    <2>1. /\ step \in {"write", "fill", "invalidate"} /\ step # "write" /\ step # "fill"
          /\ SlotsPage \in Pages
      BY <1>2 DEF Pages
    <2> QED
      BY <1>2, <1>3, <1>5, <2>1, RequestMoves
  <1>7. Typed'
    BY <1>1, <1>4, <1>6 DEF CatalogInv, Typed
  <1>8. ASSUME NEW page \in Pages
        PROVE  Current(page)'
    <2>1. CASE page = SlotsPage
      BY <1>6, <2>1 DEF Current
    <2>2. CASE page # SlotsPage
      BY <1>1, <1>6, <2>2, PageStaysCurrent DEF Idle
    <2> QED
      BY <2>1, <2>2
  <1>9. PagesAreCurrent'
    BY <1>8 DEF PagesAreCurrent, Current
  <1>10. SlotsAreSound'
    <2>1. ASSUME NEW j \in SlotIds, slots'[j] # None
          PROVE  ~Twin(j, slots[j])'
      <3>1. CASE j = i
        BY <1>1, <1>4, <3>1 DEF Twin
      <3>2. CASE j # i
        <4>1. ~Twin(j, slots[j])
          BY <1>4, <2>1, <3>2 DEF CatalogInv, SlotsAreSound
        <4>2. ~(/\ slots[j].day = slot.day /\ slots[j].start = slot.start
                /\ slots[j].end = slot.end)
          BY <1>1, <1>4, <2>1, <3>2 DEF Twin
        <4> QED
          BY <1>4, <3>2, <4>1, <4>2 DEF Twin
      <3> QED
        BY <3>1, <3>2
    <2>2. ASSUME NEW j \in SlotIds, slots'[j] # None, j \notin halved'
          PROVE  slots'[j].start < slots'[j].end
      BY <1>4, <2>2 DEF CatalogInv, SlotsAreSound
    <2> QED
      BY <2>1, <2>2 DEF SlotsAreSound
  <1> QED
    BY <1>6, <1>7, <1>9, <1>10 DEF CatalogInv

\* The fields of a slot
LEMMA SlotType ==
    ASSUME CatalogInv, NEW i \in SlotIds, slots[i] # None
    PROVE  /\ slots[i] \in SlotRows /\ slots[i].day \in Days
           /\ slots[i].start \in Times /\ slots[i].end \in Times
           /\ slots[i].active \in BOOLEAN
  BY DEF CatalogInv, Typed, SlotRows

\* createSlot checks the range it is sent
LEMMA CreateSlotKeeps ==
    ASSUME CatalogInv, NEW r \in Requests, NEW i \in SlotIds, NEW day \in Days,
           NEW start \in Times, NEW end \in Times, CreateSlot(r, i, day, start, end)
    PROVE  CatalogInv'
  <1>1. PICK on : on = TRUE
    OBVIOUS
  <1>2. PICK slot : slot = [day |-> day, start |-> start, end |-> end, active |-> on]
    OBVIOUS
  <1>3. on \in BOOLEAN
    BY <1>1
  <1>4. slot \in SlotRows /\ slot.start = start /\ slot.end = end
    BY <1>2, <1>3 DEF SlotRows
  <1>5. WriteSlot(r, i, slot) /\ start < end /\ halved' = halved
    BY <1>1, <1>2 DEF CreateSlot
  <1>6. halved \subseteq SlotIds
    BY DEF CatalogInv, Typed
  <1> QED
    BY <1>4, <1>5, <1>6, WriteSlotKeeps

\* updateSlot checks a range that is sent whole, and keeps one that is not sent
LEMMA UpdateSlotKeeps ==
    ASSUME CatalogInv, NEW r \in Requests, NEW i \in SlotIds, NEW day \in Days \cup {Absent},
           NEW start \in Times \cup {Absent}, NEW end \in Times \cup {Absent},
           UpdateSlot(r, i, day, start, end)
    PROVE  CatalogInv'
  <1>1. PICK old : old = slots[i]
    OBVIOUS
  <1>2. PICK theDay, theStart, theEnd : /\ theDay = Else(day, old.day)
                                        /\ theStart = Else(start, old.start)
                                        /\ theEnd = Else(end, old.end)
    OBVIOUS
  <1>3. PICK slot : slot = [day |-> theDay, start |-> theStart, end |-> theEnd,
                            active |-> old.active]
    OBVIOUS
  <1>4. /\ WriteSlot(r, i, slot) /\ old # None
        /\ Absent \notin {start, end} => start < end
        /\ halved' = IF start # Absent /\ end # Absent THEN halved \ {i}
                     ELSE IF start = Absent /\ end = Absent THEN halved
                     ELSE halved \cup {i}
    BY <1>1, <1>2, <1>3 DEF UpdateSlot
  <1>5. /\ old.day \in Days /\ old.start \in Times /\ old.end \in Times
        /\ old.active \in BOOLEAN
    BY <1>1, <1>4, SlotType
  <1>6. slot \in SlotRows /\ slot.start = theStart /\ slot.end = theEnd
    BY <1>2, <1>3, <1>5 DEF SlotRows, Else
  <1>7. halved' \subseteq SlotIds /\ \A j \in SlotIds \ {i} : j \in halved' <=> j \in halved
    BY <1>4 DEF CatalogInv, Typed
  <1>8. ASSUME i \notin halved'
        PROVE  slot.start < slot.end
    <2>1. CASE start # Absent /\ end # Absent
      BY <1>2, <1>4, <1>6, <2>1 DEF Else
    <2>2. CASE start = Absent /\ end = Absent
      <3>1. i \notin halved
        BY <1>4, <1>8, <2>2
      <3>2. old.start < old.end
        BY <1>1, <1>4, <3>1 DEF CatalogInv, SlotsAreSound
      <3> QED
        BY <1>2, <1>6, <2>2, <3>2 DEF Else
    <2> QED
      BY <1>4, <1>8, <2>1, <2>2
  <1> QED
    BY <1>4, <1>6, <1>7, <1>8, WriteSlotKeeps

\* A removed slot keeps its bounds
LEMMA RemoveSlotKeeps ==
    ASSUME CatalogInv, NEW r \in Requests, NEW i \in SlotIds, RemoveSlot(r, i)
    PROVE  CatalogInv'
  <1>1. PICK slot : slot = [slots[i] EXCEPT !.active = FALSE]
    OBVIOUS
  <1>2. slots[i] # None /\ WriteSlot(r, i, slot) /\ halved' = halved
    BY <1>1 DEF RemoveSlot
  <1>3. slots[i] \in SlotRows
    BY <1>2, SlotType
  <1>4. slot \in SlotRows /\ slot.start = slots[i].start /\ slot.end = slots[i].end
    BY <1>1, <1>3 DEF SlotRows
  <1>5. halved \subseteq SlotIds /\ (i \notin halved => slots[i].start < slots[i].end)
    BY <1>2 DEF CatalogInv, Typed, SlotsAreSound
  <1> QED
    BY <1>2, <1>4, <1>5, WriteSlotKeeps

-----------------------------------------------------------------------------
(* The pages *)

\* Steps that write a page, or end a request, and leave the tables alone
LEMMA PageStepKeeps ==
    ASSUME CatalogInv, UNCHANGED <<services, slots, halved>>,
           cache' = [page \in Pages |-> cache'[page]],
           \A page \in Pages : cache'[page] \in Contents(page) \cup {None},
           req' = req \/ (\E r \in Requests : Answer(r)), outdated' \subseteq Pages,
           \A page \in Pages : Current(page)'
    PROVE  CatalogInv'
  <1>1. RowsStay
    BY DEF RowsStay
  <1>2. req' = [r \in Requests |-> req'[r]] /\ (\A r \in Requests : RequestFits(r))'
    <2>1. CASE req' = req
      BY <2>1 DEF CatalogInv, Typed, RequestFits
    <2>2. CASE \E r \in Requests : Answer(r)
      BY <1>1, <2>2, RequestEnds, Zenon
    <2> QED
      BY <2>1, <2>2
  <1>3. Typed'
    BY <1>2 DEF CatalogInv, Typed, Contents
  <1>4. PagesAreCurrent'
    BY DEF PagesAreCurrent, Current
  <1>5. SlotsAreSound'
    BY DEF CatalogInv, SlotsAreSound, Twin
  <1> QED
    BY <1>2, <1>3, <1>4, <1>5 DEF CatalogInv

\* A visit fills the page with what it read, which may be outdated by now
LEMMA FillKeeps ==
    ASSUME CatalogInv, NEW r \in Requests, Fill(r)
    PROVE  CatalogInv'
  <1>1. PICK page, data : page = req[r].page /\ data = req[r].data
    OBVIOUS
  <1>2. /\ req[r].step = "fill" /\ cache' = [cache EXCEPT ![page] = data] /\ Answer(r)
        /\ outdated' = IF Agrees(page, data) THEN outdated \ {page} ELSE outdated \cup {page}
        /\ UNCHANGED <<services, slots, halved>>
    BY <1>1 DEF Fill
  <1>3. page \in Pages /\ data \in Contents(page)
    BY <1>1, <1>2 DEF CatalogInv, RequestFits
  <1>4. /\ cache' = [p \in Pages |-> cache'[p]] /\ cache'[page] = data
        /\ \A p \in Pages \ {page} : cache'[p] = cache[p]
    BY <1>2, <1>3 DEF CatalogInv, Typed
  <1>5. \A p \in Pages : cache'[p] \in Contents(p) \cup {None}
    BY <1>3, <1>4 DEF CatalogInv, Typed, Pages
  <1>6. outdated' \subseteq Pages
    BY <1>2, <1>3 DEF CatalogInv, Typed
  <1>7. \A q \in Requests \ {r} : req'[q] = req[q]
    BY <1>2, RequestEnds, Zenon DEF RowsStay
  <1>8. ASSUME NEW p \in Pages \ {page}
        PROVE  Current(p)'
    BY <1>2, <1>4, <1>7, PageStaysCurrent
  <1>9. Current(page)'
    <2>1. Found(page)' <=> Found(page)
      BY <1>2 DEF Found
    <2>2. Content(page)' = Content(page)
      BY <1>2 DEF Content
    <2>3. Agrees(page, cache[page])' <=> Agrees(page, data)
      BY <1>4, <2>1, <2>2 DEF Agrees
    <2> QED
      BY <1>2, <2>3 DEF Current
  <1> QED
    BY <1>2, <1>4, <1>5, <1>6, <1>8, <1>9, PageStepKeeps

\* A page is deleted by the edit that outdated it, or at the end of its TTL
LEMMA PageDeleted ==
    ASSUME CatalogInv, NEW page \in Pages, cache' = [cache EXCEPT ![page] = None],
           outdated' = outdated \ {page}, UNCHANGED <<services, slots, halved>>,
           \/ req' = req
           \/ \E r \in Requests : /\ Answer(r)
                                  /\ req[r].step = "invalidate" => req[r].page = page
    PROVE  CatalogInv'
  <1>1. /\ cache' = [p \in Pages |-> cache'[p]] /\ cache'[page] = None
        /\ \A p \in Pages \ {page} : cache'[p] = cache[p]
    BY DEF CatalogInv, Typed
  <1>2. /\ \A p \in Pages : cache'[p] \in Contents(p) \cup {None}
        /\ outdated' \subseteq Pages
    BY <1>1 DEF CatalogInv, Typed, Pages
  <1>3. \A q \in Requests : req[q].step = "invalidate" /\ req[q].page # page => req'[q] = req[q]
    BY RequestEnds DEF RowsStay
  <1>4. ASSUME NEW p \in Pages \ {page}
        PROVE  Current(p)'
    BY <1>1, <1>3, PageStaysCurrent
  <1>5. Current(page)'
    BY <1>1 DEF Current
  <1> QED
    BY <1>1, <1>2, <1>4, <1>5, PageStepKeeps

\* The end of an edit deletes the page
LEMMA InvalidateKeeps ==
    ASSUME CatalogInv, NEW r \in Requests, Invalidate(r)
    PROVE  CatalogInv'
  <1>1. req[r].page \in Pages
    BY DEF Invalidate, CatalogInv, RequestFits
  <1> QED
    BY <1>1, PageDeleted DEF Invalidate

\* The TTL of a page
LEMMA PageExpiresKeeps ==
    ASSUME CatalogInv, NEW page \in Pages, PageExpires(page)
    PROVE  CatalogInv'
  BY PageDeleted DEF PageExpires

\* An edit that ends before it deleted its page leaves it outdated
LEMMA FailKeeps ==
    ASSUME CatalogInv, NEW r \in Requests, Fail(r)
    PROVE  CatalogInv'
  <1>1. PICK page : page = req[r].page
    OBVIOUS
  <1>2. /\ Answer(r) /\ UNCHANGED <<services, slots, cache, halved>>
        /\ outdated' = IF req[r].step = "invalidate" /\ cache[page] # None
                       THEN outdated \cup {page} ELSE outdated
    BY <1>1 DEF Fail
  <1>3. req[r].step = "invalidate" => page \in Pages
    BY <1>1 DEF CatalogInv, RequestFits
  <1>4. \A q \in Requests \ {r} : req'[q] = req[q]
    BY <1>2, RequestEnds, Zenon DEF RowsStay
  <1>5. ASSUME NEW p \in Pages
        PROVE  Current(p)'
    <2>1. req[r].step = "invalidate" /\ req[r].page = p => p \in outdated' \/ cache[p] = None
      BY <1>1, <1>2
    <2> QED
      BY <1>2, <1>4, <2>1, PageStaysCurrent
  <1>6. outdated' \subseteq Pages
    BY <1>2, <1>3 DEF CatalogInv, Typed
  <1>7. /\ cache' = [p \in Pages |-> cache'[p]]
        /\ \A p \in Pages : cache'[p] \in Contents(p) \cup {None}
    BY <1>2 DEF CatalogInv, Typed
  <1> QED
    BY <1>2, <1>5, <1>6, <1>7, PageStepKeeps

-----------------------------------------------------------------------------
(* The theorems *)

\* Nothing is on offer, and nobody asks for anything
LEMMA InitCatalogInv == Init => CatalogInv
  <1> SUFFICES ASSUME Init
               PROVE  CatalogInv
    OBVIOUS
  <1>1. Typed
    BY DEF Init, Typed, Pages
  <1>2. \A r \in Requests : RequestFits(r)
    BY DEF Init, Idle, RequestFits
  <1>3. SlotsAreSound /\ PagesAreCurrent
    BY DEF Init, SlotsAreSound, PagesAreCurrent
  <1> QED
    BY <1>1, <1>2, <1>3 DEF CatalogInv

\* Every step keeps the invariant
LEMMA StepCatalogInv == CatalogInv /\ [Next]_vars => CatalogInv'
  <1> SUFFICES ASSUME CatalogInv, [Next]_vars
               PROVE  CatalogInv'
    OBVIOUS
  <1>1. ASSUME NEW r \in Requests, Receive(r)
        PROVE  CatalogInv'
    <2>1. ASSUME NEW s \in Services, NEW patch \in Patches,
                 CreateService(r, s, patch) \/ UpdateServiceRead(r, s, patch)
          PROVE  CatalogInv'
      BY <2>1, CreateServiceKeeps, UpdateServiceReadKeeps, Zenon
    <2>2. ASSUME NEW s \in Services, RemoveServiceRead(r, s)
          PROVE  CatalogInv'
      BY <2>2, RemoveServiceReadKeeps, Zenon
    <2>3. ASSUME NEW i \in SlotIds, NEW day \in Days, NEW start \in Times, NEW end \in Times,
                 CreateSlot(r, i, day, start, end)
          PROVE  CatalogInv'
      BY <2>3, CreateSlotKeeps, Zenon
    <2>4. ASSUME NEW i \in SlotIds, NEW day \in Days \cup {Absent},
                 NEW start \in Times \cup {Absent}, NEW end \in Times \cup {Absent},
                 UpdateSlot(r, i, day, start, end)
          PROVE  CatalogInv'
      BY <2>4, UpdateSlotKeeps, Zenon
    <2>5. ASSUME NEW i \in SlotIds, RemoveSlot(r, i)
          PROVE  CatalogInv'
      BY <2>5, RemoveSlotKeeps, Zenon
    <2>6. ASSUME NEW page \in Pages, Browse(r, page)
          PROVE  CatalogInv'
      BY <2>6, BrowseKeeps, Zenon
    <2> QED
      BY <1>1, <2>1, <2>2, <2>3, <2>4, <2>5, <2>6, Zenon DEF Receive
  <1>2. ASSUME NEW r \in Requests, Advance(r) \/ Fail(r)
        PROVE  CatalogInv'
    BY <1>2, WriteServiceKeeps, InvalidateKeeps, FillKeeps, FailKeeps, Zenon DEF Advance
  <1>3. CASE (\E page \in Pages : PageExpires(page)) \/ CloseProvider
    BY <1>3, PageExpiresKeeps, CloseProviderKeeps, Zenon
  <1>4. CASE UNCHANGED vars
    <2>1. /\ UNCHANGED <<services, slots, cache, halved, outdated>> /\ req' = req
      BY <1>4 DEF vars
    <2>2. \A page \in Pages : Current(page)'
      BY <2>1, PageStaysCurrent
    <2> QED
      BY <2>1, <2>2, PageStepKeeps DEF CatalogInv, Typed
  <1> QED
    BY <1>1, <1>2, <1>3, <1>4, Zenon DEF Next

\* The invariant holds in every state of every behaviour
THEOREM CatalogInvariant == Spec => []CatalogInv
  <1> QED
    BY InitCatalogInv, StepCatalogInv, PTL DEF Spec

\* The tables, the cached pages and the requests hold what the code puts there
THEOREM CatalogTypes == Spec => []TypeOK
  <1>1. ASSUME CatalogInv
        PROVE  TypeOK
    <2>1. SoundRows \subseteq ServiceRows
      BY SoundRowType
    <2>2. SoundEdits \subseteq Edits
      BY DEF SoundEdits, Edits, SoundPricings, SoundHours
    <2>3. ASSUME NEW r \in Requests
          PROVE  /\ req[r].step \in {"idle", "write", "fill", "invalidate"}
                 /\ Carries(r, {"idle"}, {None}, {None})
                 /\ Carries(r, {"write"}, Services, Edits)
                 /\ Carries(r, {"fill"}, Pages, Contents(req[r].page))
                 /\ Carries(r, {"invalidate"}, Pages, {None})
      <3>1. RequestFits(r)
        BY <1>1 DEF CatalogInv
      <3> QED
        BY <2>2, <3>1 DEF RequestFits, Carries
    <2> QED
      BY <1>1, <2>1, <2>3 DEF CatalogInv, Typed, TypeOK
  <1> QED
    BY <1>1, CatalogInvariant, PTL

\* Whatever partial updates interleave, a service has a price exactly when its
\* pricing type asks for one, a unit exactly when it is FIXED, and hours that
\* open before they close
THEOREM PricingStaysWhole == Spec => []PricingIsWhole
  <1>1. ASSUME CatalogInv
        PROVE  PricingIsWhole
    <2>1. ASSUME NEW s \in Services, services[s] # None
          PROVE  services[s] \in SoundRows
      BY <1>1, <2>1 DEF CatalogInv, Typed
    <2>2. None \notin Hours
      BY CatalogAssumption
    <2> QED
      BY <2>1, <2>2, SoundRowType DEF PricingIsWhole, SoundPricings, SoundHours
  <1> QED
    BY <1>1, CatalogInvariant, PTL

\* No two slots are the same, and one opens before it closes unless a bound of
\* it was changed alone
THEOREM SlotsStaySound == Spec => []SlotsAreSound
  <1>1. CatalogInv => SlotsAreSound
    BY DEF CatalogInv
  <1> QED
    BY <1>1, CatalogInvariant, PTL

\* A cached page that differs from what a visit would find now is about to be
\* deleted by an edit, or counts as outdated until it expires
THEOREM PagesStayCurrent == Spec => []PagesAreCurrent
  <1>1. CatalogInv => PagesAreCurrent
    BY DEF CatalogInv
  <1> QED
    BY <1>1, CatalogInvariant, PTL
=============================================================================

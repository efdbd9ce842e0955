--------------------------- MODULE FreightProofs ---------------------------
(***************************************************************************)
(* Theorems about Freight, for any number of cargo, offers, trips,         *)
(* carriers and concurrent handlers, with and without failures.            *)
(*                                                                         *)
(* The properties are not inductive alone: a handler between two           *)
(* statements carries values it has read, and HandlerInv says what stays   *)
(* true of them until it writes. The last part shows that the market       *)
(* implements FreightContract.                                             *)
(***************************************************************************)
EXTENDS Freight, TLAPS

\* an offer row names its cargo, and the cargo has been moderated
OfferInv ==
  \A o \in Offer :
    \/ offer[o] = NoOffer
    \/ /\ offer[o].status # "NONE"
       /\ offer[o].cargo \in Cargo /\ Decided(offer[o].cargo)

RecInv == \A c \in Cargo, d \in Driver : rec[<<c, d>>] # "NONE" => Decided(c)

\* a trip row stands for an accepted offer; only a trip that waits for a
\* driver or was called off may be without one
TripInv ==
  \A t \in Trip :
    \/ trip[t] = NoTrip
    \/ /\ trip[t].status # "NONE"
       /\ trip[t].offer \in Offer
       /\ offer[trip[t].offer].status = "ACCEPTED"
       /\ offer[trip[t].offer].cargo = trip[t].cargo
       /\ trip[t].status \in UnderWay => trip[t].driver # Null

\* What a handler has read and nobody can undo before it writes.
HandlerInv(r) ==
  LET h == req[r] IN
  /\ h.step = "cargo.write" =>
       h.to \in CargoStatus \ {"CREATED", "PENDING_MODERATION"}
  /\ h.step \in {"offer.insert", "rec.upsert", "rec.cargo", "accept.select",
                 "accept.write", "rec.accept", "trip.create"} =>
       h.cargo \in Cargo /\ Decided(h.cargo)
  /\ h.step \in {"rec.upsert", "rec.cargo", "rec.accept"} =>
       h.carrier \in Driver
  /\ h.recommended => h.carrier \in Driver
  /\ h.step \in {"accept.select", "accept.write", "rec.accept",
                 "trip.create"} =>
       /\ h.offer \in Offer
       /\ offer[h.offer].cargo = h.cargo
       /\ offer[h.offer].carrier = h.carrier
  /\ h.step \in {"rec.accept", "trip.create"} =>
       offer[h.offer].status = "ACCEPTED"
  /\ h.step = "offer.reject" => h.offer \in Offer /\ offer[h.offer] # NoOffer
  /\ h.step \in {"trip.assign", "trip.read", "trip.write"} =>
       h.trip \in Trip /\ trip[h.trip] # NoTrip
  /\ h.step \in {"trip.read", "trip.write"} => h.to \in PatchableTripStatus
  /\ h.step = "trip.write" /\ h.to # "CANCELLED" =>
       /\ trip[h.trip].status # "PENDING_DRIVER"
       /\ trip[h.trip].driver # Null

Inv ==
  /\ TypeOK
  /\ OfferInv
  /\ RecInv
  /\ TripInv
  /\ \A r \in Request : HandlerInv(r)

-----------------------------------------------------------------------------
(* What every step keeps: moderation is over for good, rows are never       *)
(* removed and keep their identity, an accepted offer is not touched, and a *)
(* trip that has left PENDING_DRIVER keeps its driver.                      *)

Persist ==
  /\ \A c \in Cargo : Decided(c) => Decided(c)'
  /\ \A o \in Offer : offer[o] # NoOffer =>
       /\ offer'[o] # NoOffer
       /\ offer'[o].cargo = offer[o].cargo
       /\ offer'[o].carrier = offer[o].carrier
       /\ offer[o].status = "ACCEPTED" => offer'[o] = offer[o]
  /\ \A t \in Trip : trip[t] # NoTrip =>
       /\ trip'[t] # NoTrip
       /\ trip'[t].offer = trip[t].offer
       /\ trip'[t].cargo = trip[t].cargo
       /\ trip[t].status # "PENDING_DRIVER" =>
            /\ trip'[t].status # "PENDING_DRIVER"
            /\ trip'[t].driver = trip[t].driver

\* A handler that does not move keeps its invariant, whatever the others do.
LEMMA HandlerFrame ==
  ASSUME Inv, Persist, NEW q \in Request, req'[q] = req[q]
  PROVE  HandlerInv(q)'
<1>1. HandlerInv(q)
  BY DEF Inv
<1>2. req[q] \in Handler
  BY DEF Inv, TypeOK
<1>3. offer \in [Offer -> OfferRow] /\ trip \in [Trip -> TripRow]
  BY DEF Inv, TypeOK
<1>4. \A o \in Offer : offer[o].status # "NONE" => offer[o] # NoOffer
  BY DEF NoOffer
<1>5. \A o \in Offer : offer[o].cargo \in Cargo => offer[o] # NoOffer
  BY FreightAssumption DEF NoOffer
<1>. QED
  BY <1>1, <1>2, <1>3, <1>4, <1>5 DEF HandlerInv, Persist, Handler

\* A handler that has returned relies on nothing.
LEMMA IdleHandler ==
  ASSUME NEW q \in Request, req'[q] = Idle
  PROVE  HandlerInv(q)'
BY DEF HandlerInv, Idle

-----------------------------------------------------------------------------
(* Effects on the tables, one lemma per table that is written *)

Tables == OfferInv /\ RecInv /\ TripInv

\* A statement that writes none of the tables keeps them.
LEMMA NothingWritten ==
  ASSUME Inv, UNCHANGED <<cargo, offer, rec, trip>>
  PROVE  Persist /\ Tables'
BY DEF Inv, Persist, Tables, OfferInv, RecInv, TripInv, Decided

\* Cargo moves to a status, none of which takes it back into moderation.
LEMMA CargoWritten ==
  ASSUME Inv, NEW c \in Cargo,
         NEW s \in CargoStatus,
         cargo' = [cargo EXCEPT ![c] = s],
         Decided(c) => s # "PENDING_MODERATION",
         UNCHANGED <<offer, rec, trip>>
  PROVE  Persist /\ Tables'
<1>1. cargo \in [Cargo -> CargoStatus \cup {"NONE"}]
  BY DEF Inv, TypeOK
<1>2. \A x \in Cargo : Decided(x) => Decided(x)'
  BY <1>1 DEF Decided, CargoStatus
<1>3. Persist
  BY <1>2 DEF Persist
<1>. QED
  BY <1>2, <1>3 DEF Inv, Tables, OfferInv, RecInv, TripInv

\* A new trip row for an accepted offer.
LEMMA TripInserted ==
  ASSUME Inv, NEW t \in Trip, trip[t] = NoTrip,
         NEW o \in Offer, offer[o].status = "ACCEPTED",
         trip' = [trip EXCEPT ![t] =
                    [status |-> "PENDING_DRIVER", offer |-> o,
                     cargo |-> offer[o].cargo, driver |-> Null]],
         UNCHANGED <<cargo, offer, rec>>
  PROVE  Persist /\ Tables'
<1>1. trip \in [Trip -> TripRow]
  BY DEF Inv, TypeOK
<1>2. Persist
  BY <1>1 DEF Persist, NoTrip, Decided
<1>3. TripInv'
  BY <1>1 DEF Inv, TripInv, UnderWay, NoTrip
<1>. QED
  BY <1>2, <1>3 DEF Inv, Tables, OfferInv, RecInv, Decided

\* The driver of a trip that waits for one changes.
LEMMA DriverWritten ==
  ASSUME Inv, NEW t \in Trip, trip[t].status = "PENDING_DRIVER",
         NEW d \in Driver \cup {Null},
         trip' = [trip EXCEPT ![t].driver = d],
         UNCHANGED <<cargo, offer, rec>>
  PROVE  Persist /\ Tables'
<1>1. trip \in [Trip -> TripRow]
  BY DEF Inv, TypeOK
<1>2. Persist
  BY <1>1 DEF Persist, NoTrip, TripRow, Decided
<1>3. TripInv'
  BY <1>1 DEF Inv, TripInv, UnderWay, NoTrip, TripRow
<1>. QED
  BY <1>2, <1>3 DEF Inv, Tables, OfferInv, RecInv, Decided

\* The status of a trip moves; it needs a driver unless it is called off.
LEMMA TripStatusWritten ==
  ASSUME Inv, NEW t \in Trip, trip[t] # NoTrip,
         NEW s \in UnderWay \cup {"CANCELLED"},
         s # "CANCELLED" => trip[t].driver # Null,
         trip' = [trip EXCEPT ![t].status = s],
         UNCHANGED <<cargo, offer, rec>>
  PROVE  Persist /\ Tables'
<1>1. trip \in [Trip -> TripRow]
  BY DEF Inv, TypeOK
<1>2. Persist
  BY <1>1 DEF Persist, NoTrip, TripRow, Decided, UnderWay
<1>3. TripInv'
  BY <1>1 DEF Inv, TripInv, UnderWay, NoTrip, TripRow
<1>. QED
  BY <1>2, <1>3 DEF Inv, Tables, OfferInv, RecInv, Decided

-----------------------------------------------------------------------------
(* Rows written *)

\* A row stays a row when one of its columns is written.
LEMMA TripDriverTyped ==
  ASSUME NEW row \in TripRow, NEW d \in Driver \cup {Null}
  PROVE  [row EXCEPT !.driver = d] \in TripRow
BY DEF TripRow

LEMMA TripStatusTyped ==
  ASSUME NEW row \in TripRow, NEW s \in UnderWay \cup {"CANCELLED"}
  PROVE  [row EXCEPT !.status = s] \in TripRow
<1>1. s \in TripStatus \cup {"NONE"}
  BY DEF UnderWay, TripStatus
<1>. QED
  BY <1>1 DEF TripRow

LEMMA OfferStatusTyped ==
  ASSUME NEW row \in OfferRow, NEW s \in OfferStatus
  PROVE  [row EXCEPT !.status = s] \in OfferRow
BY DEF OfferRow

\* A table of trips keeps its type when one row is replaced by another.
LEMMA TripTableTyped ==
  ASSUME trip \in [Trip -> TripRow], NEW t \in Trip, NEW row \in TripRow,
         trip' = [trip EXCEPT ![t] = row]
  PROVE  trip' \in [Trip -> TripRow]
OBVIOUS

LEMMA OfferTableTyped ==
  ASSUME offer \in [Offer -> OfferRow], NEW o \in Offer, NEW row \in OfferRow,
         offer' = [offer EXCEPT ![o] = row]
  PROVE  offer' \in [Offer -> OfferRow]
OBVIOUS

-----------------------------------------------------------------------------
(* The handlers of one statement *)

\* All but the handlers, which single statements leave alone.
Kept == TypeOK' /\ Persist /\ Tables'

\* The one-statement handlers keep the tables and touch no other handler.
LEMMA SingleKept ==
  ASSUME Inv, Single
  PROVE  Kept /\ req' = req
<1>. USE FreightAssumption
<1>1. TypeOK
  BY DEF Inv
<1>2. ASSUME NEW c \in Cargo, Create(c)
      PROVE  Kept /\ req' = req
  <2>1. Persist /\ Tables'
    BY <1>2, CargoWritten DEF Create, CargoStatus, Decided
  <2>. QED
    BY <1>1, <1>2, <2>1 DEF Create, Kept, TypeOK, CargoStatus
<1>3. ASSUME NEW c \in Cargo, Delete(c)
      PROVE  Kept /\ req' = req
  <2>1. Persist /\ Tables'
    BY <1>3, NothingWritten DEF Delete
  <2>. QED
    BY <1>1, <1>3, <2>1 DEF Delete, Kept, TypeOK
<1>4. ASSUME NEW c \in Cargo, ModerationReject(c)
      PROVE  Kept /\ req' = req
  <2>1. Persist /\ Tables'
    BY <1>4, CargoWritten DEF ModerationReject, CargoStatus
  <2>. QED
    BY <1>1, <1>4, <2>1 DEF ModerationReject, Kept, TypeOK, CargoStatus
<1>5. ASSUME NEW c \in Cargo, NEW v \in Searching, ModerationAccept(c, v)
      PROVE  Kept /\ req' = req
  <2>1. Persist /\ Tables'
    BY <1>5, CargoWritten DEF ModerationAccept, CargoStatus, Searching
  <2>. QED
    BY <1>1, <1>5, <2>1
       DEF ModerationAccept, Kept, TypeOK, CargoStatus, Searching
<1>6. ASSUME NEW c \in Cargo, NEW d \in Driver, DeclineRecommendation(c, d)
      PROVE  Kept /\ req' = req
  <2>1. RecInv'
    BY <1>1, <1>6
       DEF DeclineRecommendation, Inv, RecInv, TypeOK, RecStatus, Decided
  <2>2. Persist /\ OfferInv' /\ TripInv'
    BY <1>6 DEF DeclineRecommendation, Inv, Persist, OfferInv, TripInv,
                Decided
  <2>. QED
    BY <1>1, <1>6, <2>1, <2>2
       DEF DeclineRecommendation, Kept, Tables, TypeOK, RecStatus
<1>7. ASSUME NEW t \in Trip, NEW d \in Driver, AssignDriver(t, d)
      PROVE  Kept /\ req' = req
  <2>1. Persist /\ Tables'
    BY <1>7, DriverWritten DEF AssignDriver
  <2>2. trip[t] \in TripRow
    BY <1>1 DEF TypeOK
  <2>3. [trip[t] EXCEPT !.driver = d] \in TripRow
    BY <2>2, TripDriverTyped
  <2>4. trip' = [trip EXCEPT ![t] = [trip[t] EXCEPT !.driver = d]]
    BY <1>7 DEF AssignDriver
  <2>5. trip' \in [Trip -> TripRow]
    BY <1>1, <2>3, <2>4, TripTableTyped DEF TypeOK
  <2>6. UNCHANGED <<cargo, deleted, offer, rec, req>>
    BY <1>7 DEF AssignDriver
  <2>. QED
    BY <1>1, <2>1, <2>5, <2>6 DEF Kept, TypeOK
<1>8. ASSUME NEW t \in Trip, NEW d \in Driver, DriverConfirm(t, d)
      PROVE  Kept /\ req' = req
  <2>1. trip[t] # NoTrip /\ trip[t].driver # Null
    BY <1>8 DEF DriverConfirm, NoTrip
  <2>2. Persist /\ Tables'
    BY <1>8, <2>1, TripStatusWritten DEF DriverConfirm, UnderWay
  <2>3. trip[t] \in TripRow /\ "ASSIGNED" \in UnderWay
    BY <1>1 DEF TypeOK, UnderWay
  <2>4. [trip[t] EXCEPT !.status = "ASSIGNED"] \in TripRow
    BY <2>3, TripStatusTyped
  <2>5. trip' = [trip EXCEPT ![t] = [trip[t] EXCEPT !.status = "ASSIGNED"]]
    BY <1>8 DEF DriverConfirm
  <2>6. trip' \in [Trip -> TripRow]
    BY <1>1, <2>4, <2>5, TripTableTyped DEF TypeOK
  <2>7. UNCHANGED <<cargo, deleted, offer, rec, req>>
    BY <1>8 DEF DriverConfirm
  <2>. QED
    BY <1>1, <2>2, <2>6, <2>7 DEF Kept, TypeOK
<1>9. ASSUME NEW t \in Trip, NEW d \in Driver, DriverReject(t, d)
      PROVE  Kept /\ req' = req
  <2>1. Persist /\ Tables'
    BY <1>9, DriverWritten DEF DriverReject
  <2>2. trip[t] \in TripRow
    BY <1>1 DEF TypeOK
  <2>3. [trip[t] EXCEPT !.driver = Null] \in TripRow
    BY <2>2, TripDriverTyped
  <2>4. trip' = [trip EXCEPT ![t] = [trip[t] EXCEPT !.driver = Null]]
    BY <1>9 DEF DriverReject
  <2>5. trip' \in [Trip -> TripRow]
    BY <1>1, <2>3, <2>4, TripTableTyped DEF TypeOK
  <2>6. UNCHANGED <<cargo, deleted, offer, rec, req>>
    BY <1>9 DEF DriverReject
  <2>. QED
    BY <1>1, <2>1, <2>5, <2>6 DEF Kept, TypeOK
<1>. QED
  BY <1>2, <1>3, <1>4, <1>5, <1>6, <1>7, <1>8, <1>9 DEF Single

-----------------------------------------------------------------------------
(* Handlers that begin: they only read *)

Others(r) == \A q \in Request \ {r} : req'[q] = req[q]

\* A handler that begins writes no table and disturbs no other handler.
LEMMA BeginKept ==
  ASSUME Inv, NEW r \in Request, NEW h \in Handler, Begin(r, h),
         UNCHANGED <<cargo, deleted, offer, rec, trip>>
  PROVE  Kept /\ Others(r) /\ req'[r] = h
BY NothingWritten DEF Inv, TypeOK, Begin, Kept, Others

\* What a beginning handler has read is what HandlerInv says of it.
LEMMA StartKept ==
  ASSUME Inv, NEW r \in Request, Start(r)
  PROVE  Kept /\ Others(r) /\ HandlerInv(r)'
<1>. USE FreightAssumption DEF Idle
<1>1. TypeOK /\ OfferInv /\ RecInv /\ TripInv
  BY DEF Inv
<1>2. ASSUME NEW c \in Cargo, NEW s \in CargoStatus, SetStatusRead(r, c, s)
      PROVE  Kept /\ Others(r) /\ HandlerInv(r)'
  <2>. DEFINE h == [Idle EXCEPT !.step = "cargo.write", !.cargo = c, !.to = s]
  <2>1. h \in Handler
    BY DEF Handler, Step
  <2>2. s \notin {"CREATED", "PENDING_MODERATION"}
    BY <1>2 DEF SetStatusRead, CargoMoves, Searching
  <2>a. Begin(r, h) /\ UNCHANGED <<cargo, deleted, offer, rec, trip>>
    BY <1>2 DEF SetStatusRead
  <2>b. Kept /\ Others(r) /\ req'[r] = h
    <3>. HIDE DEF h
    <3>. QED  BY <2>1, <2>a, BeginKept
  <2>. QED
    BY <1>2, <2>1, <2>2, <2>a, <2>b DEF SetStatusRead, HandlerInv
<1>3. ASSUME NEW c \in Cargo, NEW d \in Carrier, CreateOfferRead(r, c, d)
      PROVE  Kept /\ Others(r) /\ HandlerInv(r)'
  <2>. DEFINE h == [Idle EXCEPT !.step = "offer.insert", !.cargo = c,
                                !.carrier = d]
  <2>1. h \in Handler
    BY DEF Handler, Step
  <2>2. Decided(c)'
    BY <1>3 DEF CreateOfferRead, Decided, Searching
  <2>a. Begin(r, h) /\ UNCHANGED <<cargo, deleted, offer, rec, trip>>
    BY <1>3 DEF CreateOfferRead
  <2>b. Kept /\ Others(r) /\ req'[r] = h
    <3>. HIDE DEF h
    <3>. QED  BY <2>1, <2>a, BeginKept
  <2>. QED
    BY <1>3, <2>1, <2>2, <2>a, <2>b DEF CreateOfferRead, HandlerInv
<1>4. ASSUME NEW o \in Offer, AcceptOffer(r, o)
      PROVE  Kept /\ Others(r) /\ HandlerInv(r)'
  <2>. DEFINE h == [Idle EXCEPT !.step = "accept.write", !.offer = o,
                                !.cargo = offer[o].cargo,
                                !.carrier = offer[o].carrier]
  <2>1. offer[o] \in OfferRow /\ offer[o] # NoOffer
    BY <1>1, <1>4 DEF AcceptOffer, TypeOK, NoOffer
  <2>2. h \in Handler
    BY <2>1 DEF Handler, Step, OfferRow
  <2>3. offer'[o] = offer[o] /\ h.cargo \in Cargo /\ Decided(h.cargo)'
    BY <1>1, <1>4, <2>1 DEF AcceptOffer, OfferInv, Decided
  <2>a. Begin(r, h) /\ UNCHANGED <<cargo, deleted, offer, rec, trip>>
    BY <1>4 DEF AcceptOffer
  <2>b. Kept /\ Others(r) /\ req'[r] = h
    <3>. HIDE DEF h
    <3>. QED  BY <2>2, <2>a, BeginKept
  <2>. QED
    BY <1>4, <2>2, <2>3, <2>a, <2>b DEF AcceptOffer, HandlerInv
<1>5. ASSUME NEW o \in Offer, RejectOfferRead(r, o)
      PROVE  Kept /\ Others(r) /\ HandlerInv(r)'
  <2>. DEFINE h == [Idle EXCEPT !.step = "offer.reject", !.offer = o]
  <2>1. h \in Handler
    BY DEF Handler, Step
  <2>a. Begin(r, h) /\ UNCHANGED <<cargo, deleted, offer, rec, trip>>
    BY <1>5 DEF RejectOfferRead
  <2>b. Kept /\ Others(r) /\ req'[r] = h
    <3>. HIDE DEF h
    <3>. QED  BY <2>1, <2>a, BeginKept
  <2>. QED
    BY <1>5, <2>1, <2>a, <2>b DEF RejectOfferRead, HandlerInv
<1>6. ASSUME NEW c \in Cargo, NEW d \in Driver, RecommendRead(r, c, d)
      PROVE  Kept /\ Others(r) /\ HandlerInv(r)'
  <2>. DEFINE h == [Idle EXCEPT !.step = "rec.upsert", !.cargo = c,
                                !.carrier = d]
  <2>1. h \in Handler
    BY DEF Handler, Step
  <2>2. Decided(c)'
    BY <1>6 DEF RecommendRead, Decided, Searching
  <2>a. Begin(r, h) /\ UNCHANGED <<cargo, deleted, offer, rec, trip>>
    BY <1>6 DEF RecommendRead
  <2>b. Kept /\ Others(r) /\ req'[r] = h
    <3>. HIDE DEF h
    <3>. QED  BY <2>1, <2>a, BeginKept
  <2>. QED
    BY <1>6, <2>1, <2>2, <2>a, <2>b DEF RecommendRead, HandlerInv
<1>7. ASSUME NEW c \in Cargo, NEW d \in Driver, AcceptRecommendation(r, c, d)
      PROVE  Kept /\ Others(r) /\ HandlerInv(r)'
  <2>. DEFINE h == [Idle EXCEPT !.step = "rec.cargo", !.cargo = c,
                                !.carrier = d, !.recommended = TRUE]
  <2>1. h \in Handler
    BY DEF Handler, Step
  <2>2. Decided(c)'
    BY <1>1, <1>7 DEF AcceptRecommendation, RecInv, Decided
  <2>a. Begin(r, h) /\ UNCHANGED <<cargo, deleted, offer, rec, trip>>
    BY <1>7 DEF AcceptRecommendation
  <2>b. Kept /\ Others(r) /\ req'[r] = h
    <3>. HIDE DEF h
    <3>. QED  BY <2>1, <2>a, BeginKept
  <2>. QED
    BY <1>7, <2>1, <2>2, <2>a, <2>b DEF AcceptRecommendation, HandlerInv
<1>8. ASSUME NEW t \in Trip, NEW d \in Driver, NEW s \in PatchableTripStatus,
             PatchStatus(r, t, d, s)
      PROVE  Kept /\ Others(r) /\ HandlerInv(r)'
  <2>. DEFINE h == [Idle EXCEPT !.step = "trip.read", !.trip = t,
                                !.cargo = trip[t].cargo, !.to = s]
  <2>1. trip[t] \in TripRow /\ trip[t] # NoTrip
    BY <1>1, <1>8 DEF PatchStatus, TypeOK, NoTrip
  <2>2. h \in Handler
    BY <2>1 DEF Handler, Step, TripRow, PatchableTripStatus, TripStatus
  <2>a. Begin(r, h) /\ UNCHANGED <<cargo, deleted, offer, rec, trip>>
    BY <1>8 DEF PatchStatus
  <2>b. Kept /\ Others(r) /\ req'[r] = h
    <3>. HIDE DEF h
    <3>. QED  BY <2>2, <2>a, BeginKept
  <2>. QED
    BY <1>8, <2>1, <2>2, <2>a, <2>b DEF PatchStatus, HandlerInv
<1>. QED
  BY <1>2, <1>3, <1>4, <1>5, <1>6, <1>7, <1>8 DEF Start

-----------------------------------------------------------------------------
(* Handlers that go on: one statement of one of them *)

\* One entry of req is replaced, the others stay.
LEMMA Moves ==
  ASSUME TypeOK, NEW r \in Request, NEW h \in Handler,
         req' = [req EXCEPT ![r] = h]
  PROVE  req' \in [Request -> Handler] /\ Others(r) /\ req'[r] = h
BY DEF TypeOK, Others

\* A handler that goes on to its next statement keeps what it has read.
LEMMA GoesOn ==
  ASSUME TypeOK, NEW r \in Request, NEW s \in Step, Goto(r, s)
  PROVE  /\ req' \in [Request -> Handler] /\ Others(r)
         /\ req'[r] = [req[r] EXCEPT !.step = s]
BY DEF TypeOK, Others, Goto, Handler

\* A handler that returns forgets what it has read.
LEMMA Returns ==
  ASSUME TypeOK, NEW r \in Request, Return(r)
  PROVE  /\ req' \in [Request -> Handler] /\ Others(r)
         /\ req'[r] = Idle /\ HandlerInv(r)'
<1>1. Idle \in Handler
  BY DEF Idle, Handler, Step
<1>2. req' \in [Request -> Handler] /\ Others(r) /\ req'[r] = Idle
  BY <1>1 DEF TypeOK, Others, Return
<1>. QED
  BY <1>2, IdleHandler

\* The late UPDATE of SetStatus never puts cargo back into moderation.
LEMMA SetStatusWriteKept ==
  ASSUME Inv, NEW r \in Request, SetStatusWrite(r)
  PROVE  Kept /\ Others(r) /\ HandlerInv(r)'
<1>1. TypeOK /\ HandlerInv(r)
  BY DEF Inv
<1>2. /\ req' \in [Request -> Handler] /\ Others(r) /\ HandlerInv(r)'
  BY <1>1, Returns DEF SetStatusWrite
<1>3. req[r].to \in CargoStatus \ {"CREATED", "PENDING_MODERATION"}
  BY <1>1 DEF SetStatusWrite, At, HandlerInv
<1>4. CASE Live(req[r].cargo) /\ req[r].cargo \in Cargo
  <2>1. Persist /\ Tables'
    BY <1>3, <1>4, CargoWritten DEF SetStatusWrite, Overwritten
  <2>. QED
    BY <1>1, <1>2, <1>3, <1>4, <2>1
       DEF SetStatusWrite, Overwritten, Kept, TypeOK
<1>5. CASE ~(Live(req[r].cargo) /\ req[r].cargo \in Cargo)
  <2>1. cargo' = cargo
    BY <1>1, <1>5 DEF SetStatusWrite, Overwritten, TypeOK
  <2>2. Persist /\ Tables'
    BY <2>1, NothingWritten DEF SetStatusWrite
  <2>. QED
    BY <1>1, <1>2, <2>1, <2>2 DEF SetStatusWrite, Kept, TypeOK
<1>. QED
  BY <1>4, <1>5

\* The late INSERT of an offer is on cargo that has left moderation.
LEMMA InsertOfferKept ==
  ASSUME Inv, NEW r \in Request, InsertOffer(r)
  PROVE  Kept /\ Others(r) /\ HandlerInv(r)'
<1>1. TypeOK /\ OfferInv /\ RecInv /\ TripInv /\ HandlerInv(r)
  BY DEF Inv
<1>2. req[r] \in Handler
  BY <1>1 DEF TypeOK
<1>3. PICK o \in Offer :
        /\ offer[o] = NoOffer
        /\ offer' = [offer EXCEPT ![o] =
                       [status |-> "PENDING", cargo |-> req[r].cargo,
                        carrier |-> req[r].carrier]]
        /\ IF req[r].recommended
           THEN req' = [req EXCEPT ![r].step = "accept.select",
                                   ![r].offer = o]
           ELSE Return(r)
  BY DEF InsertOffer
<1>4. req[r].cargo \in Cargo /\ Decided(req[r].cargo)
  BY <1>1 DEF InsertOffer, At, HandlerInv
<1>5. offer' \in [Offer -> OfferRow]
  BY <1>1, <1>2, <1>3, <1>4 DEF TypeOK, OfferRow, OfferStatus, Handler
<1>6. offer'[o] = [status |-> "PENDING", cargo |-> req[r].cargo,
                   carrier |-> req[r].carrier]
  BY <1>1, <1>3 DEF TypeOK
<1>7. \A x \in Offer \ {o} : offer'[x] = offer[x]
  BY <1>1, <1>3 DEF TypeOK
<1>8. UNCHANGED <<cargo, deleted, rec, trip>>
  BY DEF InsertOffer
<1>9. Persist
  BY <1>3, <1>7, <1>8 DEF Persist, Decided
<1>10. OfferInv'
  BY <1>1, <1>4, <1>6, <1>7, <1>8 DEF OfferInv, Decided
<1>11. TripInv'
  BY <1>1, <1>3, <1>7, <1>8 DEF TripInv, NoOffer
<1>12. Tables'
  BY <1>1, <1>8, <1>10, <1>11 DEF Tables, RecInv, Decided
<1>13. CASE req[r].recommended
  <2>. DEFINE h == [req[r] EXCEPT !.step = "accept.select", !.offer = o]
  <2>1. h \in Handler
    BY <1>2 DEF Handler, Step
  <2>2. req' = [req EXCEPT ![r] = h]
    BY <1>1, <1>2, <1>3, <1>13 DEF TypeOK, Handler
  <2>3. req' \in [Request -> Handler] /\ Others(r) /\ req'[r] = h
    <3>. HIDE DEF h
    <3>. QED  BY <1>1, <2>1, <2>2, Moves
  <2>4. HandlerInv(r)'
    BY <1>1, <1>2, <1>4, <1>6, <1>8, <1>13, <2>3
       DEF HandlerInv, Handler, Decided
  <2>. QED
    BY <1>1, <1>5, <1>8, <1>9, <1>12, <2>3, <2>4 DEF Kept, TypeOK
<1>14. CASE ~req[r].recommended
  <2>1. req' \in [Request -> Handler] /\ Others(r) /\ HandlerInv(r)'
    BY <1>1, <1>3, <1>14, Returns
  <2>. QED
    BY <1>1, <1>5, <1>8, <1>9, <1>12, <2>1 DEF Kept, TypeOK
<1>. QED
  BY <1>13, <1>14

\* A handler that only reads its way from one statement to the next, or gives
\* up.
LEMMA ReadingKept ==
  ASSUME Inv, NEW r \in Request, req' \in [Request -> Handler], Others(r),
         UNCHANGED <<cargo, deleted, offer, rec, trip>>
  PROVE  Kept /\ Others(r)
BY NothingWritten DEF Inv, TypeOK, Kept

\* AcceptRecommendation selects the offer it has inserted, or gives up.
LEMMA AcceptOwnOfferKept ==
  ASSUME Inv, NEW r \in Request, AcceptOwnOffer(r)
  PROVE  Kept /\ Others(r) /\ HandlerInv(r)'
<1>1. TypeOK /\ HandlerInv(r)
  BY DEF Inv
<1>2. req[r] \in Handler
  BY <1>1 DEF TypeOK
<1>3. UNCHANGED <<cargo, deleted, offer, rec, trip>>
  BY DEF AcceptOwnOffer
<1>4. CASE Goto(r, "accept.write")
  <2>1. /\ req' \in [Request -> Handler] /\ Others(r)
        /\ req'[r] = [req[r] EXCEPT !.step = "accept.write"]
    BY <1>1, <1>4, GoesOn DEF Step
  <2>2. HandlerInv(r)'
    BY <1>1, <1>2, <1>3, <2>1
       DEF HandlerInv, AcceptOwnOffer, At, Handler, Decided
  <2>. QED
    BY <1>3, <2>1, <2>2, ReadingKept
<1>5. CASE Return(r)
  BY <1>1, <1>3, <1>5, Returns, ReadingKept
<1>. QED
  BY <1>4, <1>5 DEF AcceptOwnOffer

\* AcceptRecommendation finds its cargo searching, or gives up.
LEMMA AcceptRecommendationCargoKept ==
  ASSUME Inv, NEW r \in Request, AcceptRecommendationCargo(r)
  PROVE  Kept /\ Others(r) /\ HandlerInv(r)'
<1>1. TypeOK /\ HandlerInv(r)
  BY DEF Inv
<1>2. req[r] \in Handler
  BY <1>1 DEF TypeOK
<1>3. UNCHANGED <<cargo, deleted, offer, rec, trip>>
  BY DEF AcceptRecommendationCargo
<1>4. CASE Goto(r, "offer.insert")
  <2>1. /\ req' \in [Request -> Handler] /\ Others(r)
        /\ req'[r] = [req[r] EXCEPT !.step = "offer.insert"]
    BY <1>1, <1>4, GoesOn DEF Step
  <2>2. HandlerInv(r)'
    BY <1>1, <1>2, <1>3, <2>1
       DEF HandlerInv, AcceptRecommendationCargo, At, Handler, Decided
  <2>. QED
    BY <1>3, <2>1, <2>2, ReadingKept
<1>5. CASE Return(r)
  BY <1>1, <1>3, <1>5, Returns, ReadingKept
<1>. QED
  BY <1>4, <1>5 DEF AcceptRecommendationCargo

\* The accepting transaction: the chosen offer was pending or accepted or even
\* rejected meanwhile; no other accepted offer changes.
LEMMA AcceptOfferCommitKept ==
  ASSUME Inv, NEW r \in Request, AcceptOfferCommit(r)
  PROVE  Kept /\ Others(r) /\ HandlerInv(r)'
<1>. DEFINE o == req[r].offer
            c == req[r].cargo
            next == IF req[r].recommended THEN "rec.accept" ELSE "trip.create"
<1>1. TypeOK /\ OfferInv /\ RecInv /\ TripInv /\ HandlerInv(r)
  BY DEF Inv
<1>2. req[r] \in Handler
  BY <1>1 DEF TypeOK
<1>3. /\ o \in Offer /\ c \in Cargo /\ Decided(c)
      /\ offer[o].cargo = c /\ offer[o].carrier = req[r].carrier
  BY <1>1 DEF AcceptOfferCommit, At, HandlerInv
<1>4. /\ req' \in [Request -> Handler] /\ Others(r)
      /\ req'[r] = [req[r] EXCEPT !.step = next]
  BY <1>1, GoesOn DEF AcceptOfferCommit, Step
<1>5. \A x \in Offer : offer[x] \in OfferRow
  BY <1>1 DEF TypeOK
<1>6. offer[o] # NoOffer
  BY <1>3, FreightAssumption DEF NoOffer
<1>7. \A x \in Offer :
        offer'[x] = IF x = o THEN [offer[x] EXCEPT !.status = "ACCEPTED"]
                    ELSE IF offer[x].cargo = c /\ offer[x].status = "PENDING"
                    THEN [offer[x] EXCEPT !.status = "REJECTED"]
                    ELSE offer[x]
  BY DEF AcceptOfferCommit
<1>8. offer' \in [Offer -> OfferRow]
  <2>1. "ACCEPTED" \in OfferStatus /\ "REJECTED" \in OfferStatus
    BY DEF OfferStatus
  <2>2. \A x \in Offer : offer'[x] \in OfferRow
    <3>. TAKE x \in Offer
    <3>1. offer[x] \in OfferRow
      BY <1>5
    <3>2. CASE offer'[x] = [offer[x] EXCEPT !.status = "ACCEPTED"]
      BY <2>1, <3>1, <3>2, OfferStatusTyped
    <3>3. CASE offer'[x] = [offer[x] EXCEPT !.status = "REJECTED"]
      BY <2>1, <3>1, <3>3, OfferStatusTyped
    <3>4. CASE offer'[x] = offer[x]
      BY <3>1, <3>4
    <3>5. \/ offer'[x] = [offer[x] EXCEPT !.status = "ACCEPTED"]
          \/ offer'[x] = [offer[x] EXCEPT !.status = "REJECTED"]
          \/ offer'[x] = offer[x]
      BY <1>7, Zenon
    <3>. QED
      BY <3>2, <3>3, <3>4, <3>5
  <2>. QED
    BY <2>2 DEF AcceptOfferCommit
<1>9. \A x \in Offer :
        /\ offer'[x].cargo = offer[x].cargo
        /\ offer'[x].carrier = offer[x].carrier
        /\ offer[x].status = "ACCEPTED" => offer'[x] = offer[x]
        /\ offer[x] = NoOffer => offer'[x] = NoOffer
        /\ offer[x] # NoOffer /\ offer[x].status # "NONE"
             => offer'[x].status # "NONE"
  <2>. TAKE x \in Offer
  <2>1. CASE x = o
    <3>1. offer'[x] = [offer[x] EXCEPT !.status = "ACCEPTED"]
      BY <1>7, <2>1
    <3>. QED
      BY <1>5, <1>6, <2>1, <3>1 DEF OfferRow
  <2>2. CASE x # o /\ offer[x].cargo = c /\ offer[x].status = "PENDING"
    <3>1. offer'[x] = [offer[x] EXCEPT !.status = "REJECTED"]
      BY <1>7, <2>2
    <3>2. offer[x] # NoOffer
      BY <2>2 DEF NoOffer
    <3>. QED
      BY <1>5, <2>2, <3>1, <3>2 DEF OfferRow
  <2>3. CASE x # o /\ ~(offer[x].cargo = c /\ offer[x].status = "PENDING")
    BY <1>7, <2>3
  <2>. QED
    BY <2>1, <2>2, <2>3
<1>10. offer'[o].status = "ACCEPTED"
  BY <1>3, <1>5, <1>7 DEF OfferRow
<1>11. UNCHANGED <<deleted, rec, trip>>
  BY DEF AcceptOfferCommit
<1>12. cargo' \in [Cargo -> CargoStatus \cup {"NONE"}]
  BY <1>1, <1>3 DEF AcceptOfferCommit, Overwritten, TypeOK, CargoStatus
<1>13. \A x \in Cargo : Decided(x) => Decided(x)'
  BY <1>1, <1>3 DEF AcceptOfferCommit, Overwritten, TypeOK, Decided
<1>14. \A x \in Offer : offer[x] # NoOffer => offer[x].status # "NONE"
  BY <1>1 DEF OfferInv
<1>15. Persist
  BY <1>9, <1>11, <1>13, <1>14 DEF Persist, NoOffer
<1>16. OfferInv'
  BY <1>1, <1>9, <1>13, <1>14 DEF OfferInv
<1>17. RecInv'
  BY <1>1, <1>11, <1>13 DEF RecInv
<1>18. TripInv'
  BY <1>1, <1>9, <1>11 DEF TripInv
<1>19. HandlerInv(r)'
  BY <1>2, <1>1, <1>3, <1>4, <1>9, <1>10, <1>13
     DEF HandlerInv, Handler, AcceptOfferCommit, At
<1>. QED
  BY <1>1, <1>4, <1>8, <1>11, <1>12, <1>15, <1>16, <1>17, <1>18, <1>19
     DEF Kept, Tables, TypeOK

\* The trip created after the acceptance is for the accepted offer.
LEMMA CreateTripKept ==
  ASSUME Inv, NEW r \in Request, CreateTrip(r)
  PROVE  Kept /\ Others(r) /\ HandlerInv(r)'
<1>1. TypeOK /\ HandlerInv(r)
  BY DEF Inv
<1>2. req[r] \in Handler
  BY <1>1 DEF TypeOK
<1>3. PICK t \in Trip :
        /\ trip[t] = NoTrip
        /\ trip' = [trip EXCEPT ![t] =
                      [status |-> "PENDING_DRIVER", offer |-> req[r].offer,
                       cargo |-> req[r].cargo, driver |-> Null]]
        /\ req' = [req EXCEPT ![r].step = "trip.assign", ![r].trip = t]
  BY DEF CreateTrip
<1>. DEFINE h == [req[r] EXCEPT !.step = "trip.assign", !.trip = t]
<1>4. /\ req[r].offer \in Offer /\ req[r].cargo \in Cargo
      /\ offer[req[r].offer].status = "ACCEPTED"
      /\ offer[req[r].offer].cargo = req[r].cargo
  BY <1>1 DEF CreateTrip, At, HandlerInv
<1>5. UNCHANGED <<cargo, deleted, offer, rec>>
  BY DEF CreateTrip
<1>6. Persist /\ Tables'
  BY <1>3, <1>4, <1>5, TripInserted
<1>7. h \in Handler
  BY <1>2 DEF Handler, Step
<1>8. req' = [req EXCEPT ![r] = h]
  BY <1>1, <1>2, <1>3 DEF TypeOK, Handler
<1>9. req' \in [Request -> Handler] /\ Others(r) /\ req'[r] = h
  <2>. HIDE DEF h
  <2>. QED  BY <1>1, <1>7, <1>8, Moves
<1>10. trip' \in [Trip -> TripRow] /\ trip'[t] # NoTrip
  BY <1>1, <1>3, <1>4 DEF TypeOK, TripRow, TripStatus, NoTrip
<1>11. HandlerInv(r)'
  <2>1. req[r].recommended => req[r].carrier \in Driver
    BY <1>1 DEF HandlerInv
  <2>. QED
    BY <1>2, <1>9, <1>10, <2>1 DEF HandlerInv, Handler
<1>. QED
  BY <1>1, <1>5, <1>6, <1>9, <1>10, <1>11 DEF Kept, TypeOK

\* The carrier is assigned only to a trip that waits for a driver.
LEMMA AssignCarrierKept ==
  ASSUME Inv, NEW r \in Request, AssignCarrier(r)
  PROVE  Kept /\ Others(r) /\ HandlerInv(r)'
<1>. DEFINE t == req[r].trip
<1>1. TypeOK /\ HandlerInv(r)
  BY DEF Inv
<1>2. req' \in [Request -> Handler] /\ Others(r) /\ HandlerInv(r)'
  BY <1>1, Returns DEF AssignCarrier
<1>3. t \in Trip
  BY <1>1 DEF AssignCarrier, At, HandlerInv
<1>4. UNCHANGED <<cargo, deleted, offer, rec>>
  BY DEF AssignCarrier
<1>5. CASE trip[t].status = "PENDING_DRIVER" /\ req[r].carrier \in Driver
  <2>1. trip' = [trip EXCEPT ![t].driver = req[r].carrier]
    BY <1>5 DEF AssignCarrier
  <2>2. Persist /\ Tables'
    BY <1>3, <1>4, <1>5, <2>1, DriverWritten
  <2>3. [trip[t] EXCEPT !.driver = req[r].carrier] \in TripRow
    BY <1>1, <1>3, <1>5 DEF TypeOK, TripRow
  <2>4. trip' \in [Trip -> TripRow]
    BY <1>1, <2>1, <2>3 DEF TypeOK
  <2>. QED
    BY <1>1, <1>2, <1>4, <2>2, <2>4 DEF Kept, TypeOK
<1>6. CASE ~(trip[t].status = "PENDING_DRIVER" /\ req[r].carrier \in Driver)
  <2>1. trip' = trip
    BY <1>6 DEF AssignCarrier
  <2>. QED
    BY <1>2, <1>4, <2>1, ReadingKept
<1>. QED
  BY <1>5, <1>6

\* The late UPDATE of RejectOffer takes no accepted offer back.
LEMMA RejectOfferWriteKept ==
  ASSUME Inv, NEW r \in Request, RejectOfferWrite(r)
  PROVE  Kept /\ Others(r) /\ HandlerInv(r)'
<1>. DEFINE o == req[r].offer
<1>1. TypeOK /\ OfferInv /\ RecInv /\ TripInv /\ HandlerInv(r)
  BY DEF Inv
<1>2. req' \in [Request -> Handler] /\ Others(r) /\ HandlerInv(r)'
  BY <1>1, Returns DEF RejectOfferWrite
<1>3. o \in Offer
  BY <1>1 DEF RejectOfferWrite, At, HandlerInv
<1>4. UNCHANGED <<cargo, deleted, rec, trip>>
  BY DEF RejectOfferWrite
<1>5. CASE offer[o].status = "PENDING"
  <2>1. offer' = [offer EXCEPT ![o].status = "REJECTED"]
    BY <1>5 DEF RejectOfferWrite
  <2>2. offer' \in [Offer -> OfferRow]
    <3>1. offer[o] \in OfferRow /\ "REJECTED" \in OfferStatus
      BY <1>1, <1>3 DEF TypeOK, OfferStatus
    <3>2. [offer[o] EXCEPT !.status = "REJECTED"] \in OfferRow
      BY <3>1, OfferStatusTyped
    <3>3. offer' = [offer EXCEPT ![o] = [offer[o] EXCEPT !.status = "REJECTED"]]
      BY <2>1
    <3>. QED
      BY <1>1, <1>3, <3>2, <3>3, OfferTableTyped DEF TypeOK
  <2>3. \A x \in Offer : x # o => offer'[x] = offer[x]
    BY <1>1, <2>1 DEF TypeOK
  <2>4. /\ offer'[o].status = "REJECTED" /\ offer'[o].cargo = offer[o].cargo
        /\ offer'[o].carrier = offer[o].carrier
    BY <1>1, <1>3, <2>1 DEF TypeOK, OfferRow
  <2>5. Persist
    BY <1>4, <1>5, <2>3, <2>4 DEF Persist, NoOffer, Decided
  <2>6. OfferInv'
    BY <1>1, <1>4, <1>5, <2>3, <2>4 DEF OfferInv, NoOffer, Decided
  <2>7. TripInv'
    BY <1>1, <1>4, <1>5, <2>3 DEF TripInv
  <2>. QED
    BY <1>1, <1>2, <1>4, <2>2, <2>5, <2>6, <2>7
       DEF Kept, Tables, TypeOK, RecInv, Decided
<1>6. CASE offer[o].status # "PENDING"
  <2>1. offer' = offer
    BY <1>6 DEF RejectOfferWrite
  <2>. QED
    BY <1>2, <1>4, <2>1, ReadingKept
<1>. QED
  BY <1>5, <1>6

\* A recommendation is written for decided cargo.
LEMMA RecWritten ==
  ASSUME Inv, NEW c \in Cargo, NEW d \in Driver, NEW s \in RecStatus,
         Decided(c), rec' = [rec EXCEPT ![<<c, d>>] = s],
         UNCHANGED <<cargo, deleted, offer, trip>>
  PROVE  /\ rec' \in [Cargo \X Driver -> RecStatus \cup {"NONE"}]
         /\ Persist /\ Tables'
<1>1. TypeOK /\ OfferInv /\ RecInv /\ TripInv
  BY DEF Inv
<1>2. \A x \in Cargo, y \in Driver :
        <<x, y>> # <<c, d>> => rec'[<<x, y>>] = rec[<<x, y>>]
  BY <1>1 DEF TypeOK
<1>3. RecInv'
  BY <1>1, <1>2 DEF RecInv, Decided
<1>4. Persist /\ OfferInv' /\ TripInv'
  BY <1>1 DEF Persist, OfferInv, TripInv, Decided
<1>. QED
  BY <1>1, <1>3, <1>4 DEF Tables, TypeOK

\* The late upsert of a recommendation is on decided cargo.
LEMMA RecommendWriteKept ==
  ASSUME Inv, NEW r \in Request, RecommendWrite(r)
  PROVE  Kept /\ Others(r) /\ HandlerInv(r)'
<1>1. TypeOK /\ HandlerInv(r)
  BY DEF Inv
<1>2. req' \in [Request -> Handler] /\ Others(r) /\ HandlerInv(r)'
  BY <1>1, Returns DEF RecommendWrite
<1>3. /\ req[r].cargo \in Cargo /\ Decided(req[r].cargo)
      /\ req[r].carrier \in Driver
  BY <1>1 DEF RecommendWrite, At, HandlerInv
<1>4. /\ rec' \in [Cargo \X Driver -> RecStatus \cup {"NONE"}]
      /\ Persist /\ Tables'
  BY <1>3, RecWritten DEF RecommendWrite, RecStatus
<1>. QED
  BY <1>1, <1>2, <1>4 DEF RecommendWrite, Kept, TypeOK

\* A recommendation is marked, or not, before the trip is created.
LEMMA MarkRecommendationKept ==
  ASSUME Inv, NEW r \in Request, MarkRecommendation(r)
  PROVE  Kept /\ Others(r) /\ HandlerInv(r)'
<1>. DEFINE p == <<req[r].cargo, req[r].carrier>>
<1>1. TypeOK /\ HandlerInv(r)
  BY DEF Inv
<1>2. req[r] \in Handler
  BY <1>1 DEF TypeOK
<1>3. /\ req' \in [Request -> Handler] /\ Others(r)
      /\ req'[r] = [req[r] EXCEPT !.step = "trip.create"]
  BY <1>1, GoesOn DEF MarkRecommendation, Step
<1>4. /\ req[r].cargo \in Cargo /\ Decided(req[r].cargo)
      /\ req[r].carrier \in Driver
  BY <1>1 DEF MarkRecommendation, At, HandlerInv
<1>5. UNCHANGED <<cargo, deleted, offer, trip>>
  BY DEF MarkRecommendation
<1>6. HandlerInv(r)'
  BY <1>1, <1>2, <1>3, <1>5
     DEF HandlerInv, MarkRecommendation, At, Handler, Decided
<1>7. CASE rec' = [rec EXCEPT ![p] = "ACCEPTED"]
  <2>1. /\ rec' \in [Cargo \X Driver -> RecStatus \cup {"NONE"}]
        /\ Persist /\ Tables'
    BY <1>4, <1>5, <1>7, RecWritten DEF RecStatus
  <2>. QED
    BY <1>1, <1>3, <1>5, <1>6, <2>1 DEF Kept, TypeOK
<1>8. CASE rec' = rec
  BY <1>3, <1>5, <1>6, <1>8, ReadingKept
<1>. QED
  BY <1>7, <1>8 DEF MarkRecommendation

\* The lookup finds that the move is legal; every later status of the trip
\* has a driver, because the way out of PENDING_DRIVER is through the driver.
LEMMA SetTripStatusReadKept ==
  ASSUME Inv, NEW r \in Request, SetTripStatusRead(r)
  PROVE  Kept /\ Others(r) /\ HandlerInv(r)'
<1>1. TypeOK /\ TripInv /\ HandlerInv(r)
  BY DEF Inv
<1>2. req[r] \in Handler
  BY <1>1 DEF TypeOK
<1>3. UNCHANGED <<cargo, deleted, offer, rec, trip>>
  BY DEF SetTripStatusRead
<1>4. req[r].trip \in Trip /\ trip[req[r].trip] # NoTrip
      /\ req[r].to \in PatchableTripStatus
  BY <1>1 DEF SetTripStatusRead, At, HandlerInv
<1>5. CASE /\ <<trip[req[r].trip].status, req[r].to>> \in TripMoves
           /\ Goto(r, "trip.write")
  <2>1. /\ req' \in [Request -> Handler] /\ Others(r)
        /\ req'[r] = [req[r] EXCEPT !.step = "trip.write"]
    BY <1>1, <1>5, GoesOn DEF Step
  <2>2. req[r].to # "CANCELLED" =>
          trip[req[r].trip].status \in {"ASSIGNED", "LOADING", "EN_ROUTE",
                                        "UNLOADING"}
    BY <1>4, <1>5 DEF TripMoves, PatchableTripStatus
  <2>3. req[r].to # "CANCELLED" => trip[req[r].trip].driver # Null
    BY <1>1, <1>4, <2>2 DEF TripInv, UnderWay
  <2>4. req[r].recommended => req[r].carrier \in Driver
    BY <1>1 DEF HandlerInv
  <2>5. HandlerInv(r)'
    BY <1>2, <1>3, <1>4, <2>1, <2>2, <2>3, <2>4 DEF HandlerInv, Handler
  <2>. QED
    BY <1>3, <2>1, <2>5, ReadingKept
<1>6. CASE Return(r)
  BY <1>1, <1>3, <1>6, Returns, ReadingKept
<1>. QED
  BY <1>5, <1>6 DEF SetTripStatusRead

\* The blind UPDATE: its target status was looked up for an older status, but
\* a trip that had left PENDING_DRIVER then still has its driver now.
LEMMA SetTripStatusWriteKept ==
  ASSUME Inv, NEW r \in Request, SetTripStatusWrite(r)
  PROVE  Kept /\ Others(r) /\ HandlerInv(r)'
<1>. DEFINE t == req[r].trip
<1>1. TypeOK /\ HandlerInv(r)
  BY DEF Inv
<1>2. req[r] \in Handler
  BY <1>1 DEF TypeOK
<1>3. /\ t \in Trip /\ trip[t] # NoTrip /\ req[r].to \in PatchableTripStatus
      /\ req[r].to # "CANCELLED" => trip[t].driver # Null
  BY <1>1 DEF SetTripStatusWrite, At, HandlerInv
<1>4. UNCHANGED <<cargo, deleted, offer, rec>>
  BY DEF SetTripStatusWrite
<1>5. trip' = [trip EXCEPT ![t].status = req[r].to]
  BY DEF SetTripStatusWrite
<1>6. req[r].to \in UnderWay \cup {"CANCELLED"}
  BY <1>3 DEF UnderWay, PatchableTripStatus
<1>7. Persist /\ Tables'
  BY <1>3, <1>4, <1>5, <1>6, TripStatusWritten
<1>8. trip' \in [Trip -> TripRow]
  <2>1. trip[t] \in TripRow
    BY <1>1, <1>3 DEF TypeOK
  <2>2. [trip[t] EXCEPT !.status = req[r].to] \in TripRow
    BY <1>6, <2>1, TripStatusTyped
  <2>3. trip' = [trip EXCEPT ![t] = [trip[t] EXCEPT !.status = req[r].to]]
    BY <1>5
  <2>. QED
    BY <1>1, <1>3, <2>2, <2>3, TripTableTyped DEF TypeOK
<1>9. req' \in [Request -> Handler] /\ Others(r) /\ HandlerInv(r)'
  <2>1. \/ Goto(r, "cargo.progress") \/ Goto(r, "cargo.complete")
        \/ Return(r)
    BY DEF SetTripStatusWrite
  <2>2. ASSUME NEW s \in {"cargo.progress", "cargo.complete"}, Goto(r, s)
        PROVE  req' \in [Request -> Handler] /\ Others(r) /\ HandlerInv(r)'
    <3>1. /\ req' \in [Request -> Handler] /\ Others(r)
          /\ req'[r] = [req[r] EXCEPT !.step = s]
      BY <1>1, <2>2, GoesOn DEF Step
    <3>2. req[r].recommended => req[r].carrier \in Driver
      BY <1>1 DEF HandlerInv
    <3>. QED
      BY <1>2, <3>1, <3>2 DEF HandlerInv, Handler
  <2>. QED
    BY <1>1, <2>1, <2>2, Returns
<1>. QED
  BY <1>1, <1>4, <1>7, <1>8, <1>9 DEF Kept, TypeOK

\* The cargo updates that follow a trip move cargo forward only.
LEMMA CargoSyncKept ==
  ASSUME Inv, NEW r \in Request,
         SetCargoStatusInProgress(r) \/ SetCargoStatusCompleted(r)
  PROVE  Kept /\ Others(r) /\ HandlerInv(r)'
<1>. DEFINE c == req[r].cargo
<1>1. TypeOK
  BY DEF Inv
<1>2. req' \in [Request -> Handler] /\ Others(r) /\ HandlerInv(r)'
  BY <1>1, Returns DEF SetCargoStatusInProgress, SetCargoStatusCompleted
<1>3. UNCHANGED <<deleted, offer, rec, trip>>
  BY DEF SetCargoStatusInProgress, SetCargoStatusCompleted
<1>4. CASE cargo' = cargo
  BY <1>2, <1>3, <1>4, ReadingKept
<1>5. CASE cargo' # cargo
  <2>1. PICK s \in {"IN_PROGRESS", "COMPLETED"} :
          cargo' = [cargo EXCEPT ![c] = s]
    BY <1>5 DEF SetCargoStatusInProgress, SetCargoStatusCompleted, Overwritten
  <2>2. c \in Cargo
    BY <1>1, <1>5, <2>1 DEF TypeOK
  <2>3. Persist /\ Tables'
    BY <1>3, <2>1, <2>2, CargoWritten DEF CargoStatus
  <2>. QED
    BY <1>1, <1>2, <1>3, <2>1, <2>2, <2>3 DEF Kept, TypeOK, CargoStatus
<1>. QED
  BY <1>4, <1>5

\* Every statement of every running handler keeps the tables and HandlerInv.
LEMMA AdvanceKept ==
  ASSUME Inv, NEW r \in Request, Advance(r)
  PROVE  Kept /\ Others(r) /\ HandlerInv(r)'
BY SetStatusWriteKept, InsertOfferKept, AcceptOwnOfferKept,
   AcceptOfferCommitKept, CreateTripKept, AssignCarrierKept,
   RejectOfferWriteKept, RecommendWriteKept, AcceptRecommendationCargoKept,
   MarkRecommendationKept, SetTripStatusReadKept, SetTripStatusWriteKept,
   CargoSyncKept DEF Advance

\* A handler that dies keeps the tables.
LEMMA FailKept ==
  ASSUME Inv, NEW r \in Request, Fail(r)
  PROVE  Kept /\ Others(r) /\ HandlerInv(r)'
BY Returns, ReadingKept DEF Inv, Fail

-----------------------------------------------------------------------------
(* The invariant *)

\* The empty tables satisfy the invariant.
LEMMA InvInit == Init => Inv
<1>. SUFFICES ASSUME Init PROVE Inv
  OBVIOUS
<1>. USE DEF Init
<1>1. TypeOK
  <2>1. NoOffer \in OfferRow /\ NoTrip \in TripRow /\ Idle \in Handler
    BY DEF NoOffer, OfferRow, NoTrip, TripRow, Idle, Handler, Step
  <2>. QED
    BY <2>1 DEF TypeOK
<1>2. OfferInv /\ TripInv
  BY DEF OfferInv, TripInv
<1>3. RecInv
  BY DEF RecInv
<1>4. \A r \in Request : HandlerInv(r)
  BY DEF HandlerInv, Idle
<1>. QED
  BY <1>1, <1>2, <1>3, <1>4 DEF Inv

\* One step of any handler: the tables by the lemma of its action, the other
\* handlers by HandlerFrame.
LEMMA InvNext == Inv /\ [Next]_vars => Inv' /\ Persist
<1>. SUFFICES ASSUME Inv, [Next]_vars PROVE Inv' /\ Persist
  OBVIOUS
<1>1. CASE Single
  <2>1. Kept /\ req' = req
    BY <1>1, SingleKept
  <2>2. \A q \in Request : HandlerInv(q)'
    <3>. TAKE q \in Request
    <3>. QED  BY <2>1, HandlerFrame DEF Kept
  <2>. QED
    BY <2>1, <2>2 DEF Inv, Kept, Tables
<1>2. ASSUME NEW r \in Request, Start(r) \/ Advance(r) \/ Fail(r)
      PROVE  Inv' /\ Persist
  <2>1. Kept /\ Others(r) /\ HandlerInv(r)'
    BY <1>2, StartKept, AdvanceKept, FailKept
  <2>2. \A q \in Request : HandlerInv(q)'
    <3>. TAKE q \in Request
    <3>1. CASE q = r
      BY <2>1, <3>1
    <3>2. CASE q # r
      BY <2>1, <3>2, HandlerFrame DEF Kept, Others
    <3>. QED  BY <3>1, <3>2
  <2>. QED
    BY <2>1, <2>2 DEF Inv, Kept, Tables
<1>3. CASE UNCHANGED vars
  <2>1. UNCHANGED <<cargo, deleted, offer, rec, trip, req>>
    BY <1>3 DEF vars
  <2>2. Persist /\ Tables'
    BY <2>1, NothingWritten
  <2>3. \A q \in Request : HandlerInv(q)'
    <3>. TAKE q \in Request
    <3>. QED  BY <2>1, <2>2, HandlerFrame
  <2>. QED
    BY <2>1, <2>2, <2>3 DEF Inv, Tables, TypeOK
<1>. QED
  BY <1>1, <1>2, <1>3 DEF Next

\* Everything a handler relies on between its statements stays true.
THEOREM Invariance == Spec => []Inv
BY InvInit, InvNext, PTL DEF Spec

\* The tables and the handlers keep their types.
THEOREM TypeCorrect == Spec => []TypeOK
<1>1. Inv => TypeOK
  BY DEF Inv
<1>. QED
  BY <1>1, Invariance, PTL

\* No offer and no recommendation on cargo that is still in moderation, however
\* late the INSERT of a handler comes.
THEOREM Moderated == Spec => []MarketAfterModeration
<1>1. Inv => MarketAfterModeration
  BY DEF Inv, MarketAfterModeration, OfferInv, RecInv
<1>. QED
  BY <1>1, Invariance, PTL

\* A trip stands for an accepted offer on its cargo, though it is created
\* outside the transaction that accepts the offer.
THEOREM Backed == Spec => []TripBacked
<1>1. Inv => TripBacked
  BY FreightAssumption DEF Inv, TripBacked, TripInv
<1>. QED
  BY <1>1, Invariance, PTL

\* No confirmed or moving trip is without a driver, though the UPDATE that
\* moves it checks neither its status nor its driver.
THEOREM Crewed == Spec => []NoDriverlessHaul
<1>1. Inv => NoDriverlessHaul
  BY DEF Inv, NoDriverlessHaul, TripInv, UnderWay, NoTrip
<1>. QED
  BY <1>1, Invariance, PTL

\* An accepted offer is never taken back.
THEOREM Final == Spec => AcceptedIsFinal
<1>1. Inv /\ [Next]_vars =>
        [\A o \in Offer :
           offer[o].status = "ACCEPTED" => offer'[o] = offer[o]]_vars
  BY InvNext DEF Persist, NoOffer
<1>. QED
  BY <1>1, Invariance, PTL DEF Spec, AcceptedIsFinal

\* Once a trip has left PENDING_DRIVER its driver, offer and cargo are fixed.
THEOREM Frozen == Spec => CrewFrozen
<1>1. Inv /\ [Next]_vars =>
        [\A t \in Trip :
           trip[t].status \notin {"NONE", "PENDING_DRIVER"} =>
             /\ trip'[t].status \notin {"NONE", "PENDING_DRIVER"}
             /\ trip'[t].driver = trip[t].driver
             /\ trip'[t].offer = trip[t].offer
             /\ trip'[t].cargo = trip[t].cargo]_vars
  BY InvNext DEF Persist, NoTrip, Inv, TripInv
<1>. QED
  BY <1>1, Invariance, PTL DEF Spec, CrewFrozen

\* Only cargo that exists is deleted, so that its id is never created again.
DeletedInv == \A c \in deleted : cargo[c] # "NONE"

Untouched == deleted' = deleted /\ \A c \in deleted : cargo'[c] = cargo[c]

\* Every action but Delete leaves deleted and the cargo in it alone.
LEMMA DeletedNext ==
  ASSUME TypeOK, DeletedInv, [Next]_vars
  PROVE  \/ Untouched
         \/ \E c \in Cargo : Delete(c)
<1>. USE DEF TypeOK
<1>1. CASE Single
  <2>1. ASSUME NEW c \in Cargo,
               Create(c) \/ ModerationReject(c)
                 \/ \E v \in Searching : ModerationAccept(c, v)
        PROVE  Untouched
    BY <2>1 DEF Create, ModerationReject, ModerationAccept, Live, DeletedInv,
                Untouched
  <2>2. ASSUME NEW c \in Cargo, NEW d \in Driver, DeclineRecommendation(c, d)
        PROVE  Untouched
    BY <2>2 DEF DeclineRecommendation, Untouched
  <2>3. ASSUME NEW t \in Trip, NEW d \in Driver,
               AssignDriver(t, d) \/ DriverConfirm(t, d) \/ DriverReject(t, d)
        PROVE  Untouched
    BY <2>3 DEF AssignDriver, DriverConfirm, DriverReject, Untouched
  <2>. QED
    BY <1>1, <2>1, <2>2, <2>3 DEF Single
<1>2. ASSUME NEW r \in Request, Start(r) PROVE Untouched
  BY <1>2 DEF Start, SetStatusRead, CreateOfferRead, AcceptOffer,
              RejectOfferRead, RecommendRead, AcceptRecommendation,
              PatchStatus, Untouched
<1>3. ASSUME NEW r \in Request, Advance(r) PROVE Untouched
  BY <1>3 DEF Advance, SetStatusWrite, InsertOffer, AcceptOwnOffer,
              AcceptOfferCommit, CreateTrip, AssignCarrier,
              RejectOfferWrite, RecommendWrite, AcceptRecommendationCargo,
              MarkRecommendation, SetTripStatusRead, SetTripStatusWrite,
              SetCargoStatusInProgress, SetCargoStatusCompleted,
              Overwritten, Live, Untouched
<1>4. ASSUME NEW r \in Request, Fail(r) PROVE Untouched
  BY <1>4 DEF Fail, Untouched
<1>5. CASE UNCHANGED vars
  BY <1>5 DEF vars, Untouched
<1>. QED
  BY <1>1, <1>2, <1>3, <1>4, <1>5 DEF Next

\* No step brings deleted cargo back or changes its status, not even a write
\* prepared before the deletion.
THEOREM Deleted == Spec => DeletedIsFrozen
<1>1. Init => DeletedInv
  BY DEF Init, DeletedInv
<1>2. TypeOK /\ DeletedInv /\ [Next]_vars =>
        /\ DeletedInv'
        /\ [\A c \in deleted : c \in deleted' /\ cargo'[c] = cargo[c]]_vars
  <2>. SUFFICES ASSUME TypeOK, DeletedInv, [Next]_vars
                PROVE  /\ DeletedInv'
                       /\ \A c \in deleted :
                            c \in deleted' /\ cargo'[c] = cargo[c]
    OBVIOUS
  <2>1. CASE Untouched
    BY <2>1 DEF Untouched, DeletedInv
  <2>2. ASSUME NEW c \in Cargo, Delete(c)
        PROVE  /\ DeletedInv'
               /\ \A x \in deleted : x \in deleted' /\ cargo'[x] = cargo[x]
    BY <2>2 DEF Delete, Live, DeletedInv
  <2>. QED
    BY <2>1, <2>2, DeletedNext
<1>. QED
  BY <1>1, <1>2, TypeCorrect, PTL DEF Spec, DeletedIsFrozen

-----------------------------------------------------------------------------
(* Awards: accepted offers, and who still has to act on them *)

\* An offer by which driver d has cargo c
Backing(o, c, d) ==
  /\ offer[o].status = "ACCEPTED"
  /\ offer[o].cargo = c /\ offer[o].carrier = d

\* A recommendation that is accepted was so before, or is marked by a handler
\* that carries the accepted offer.
LEMMA RecNext ==
  ASSUME Inv, [Next]_vars, NEW c \in Cargo, NEW d \in Driver,
         rec'[<<c, d>>] = "ACCEPTED"
  PROVE  \/ rec[<<c, d>>] = "ACCEPTED"
         \/ \E o \in Offer : Backing(o, c, d)
<1>. USE DEF Inv, TypeOK
<1>1. CASE UNCHANGED rec
  BY <1>1
<1>2. ASSUME NEW x \in Cargo, NEW y \in Driver, DeclineRecommendation(x, y)
      PROVE  rec[<<c, d>>] = "ACCEPTED"
  BY <1>2 DEF DeclineRecommendation
<1>3. ASSUME NEW r \in Request, RecommendWrite(r)
      PROVE  rec[<<c, d>>] = "ACCEPTED"
  BY <1>3 DEF RecommendWrite
<1>4. ASSUME NEW r \in Request, MarkRecommendation(r)
      PROVE  \/ rec[<<c, d>>] = "ACCEPTED"
             \/ \E o \in Offer : Backing(o, c, d)
  <2>1. /\ req[r].offer \in Offer
        /\ req[r].cargo \in Cargo /\ req[r].carrier \in Driver
        /\ Backing(req[r].offer, req[r].cargo, req[r].carrier)
    BY <1>4 DEF MarkRecommendation, At, HandlerInv, Backing
  <2>2. CASE <<req[r].cargo, req[r].carrier>> = <<c, d>>
    BY <2>1, <2>2
  <2>3. CASE <<req[r].cargo, req[r].carrier>> # <<c, d>>
    BY <1>4, <2>3 DEF MarkRecommendation
  <2>. QED
    BY <2>1, <2>2, <2>3
<1>5. CASE Single
  BY <1>1, <1>2, <1>5
  DEF Single, Create, Delete, ModerationReject, ModerationAccept, AssignDriver,
      DriverConfirm, DriverReject
<1>6. ASSUME NEW r \in Request, Start(r) PROVE UNCHANGED rec
  BY <1>6 DEF Start, SetStatusRead, CreateOfferRead, AcceptOffer,
              RejectOfferRead, RecommendRead, AcceptRecommendation,
              PatchStatus
<1>7. ASSUME NEW r \in Request, Advance(r)
      PROVE  UNCHANGED rec \/ RecommendWrite(r) \/ MarkRecommendation(r)
  BY <1>7 DEF Advance, SetStatusWrite, InsertOffer, AcceptOwnOffer,
              AcceptOfferCommit, CreateTrip, AssignCarrier,
              RejectOfferWrite, AcceptRecommendationCargo,
              SetTripStatusRead, SetTripStatusWrite,
              SetCargoStatusInProgress, SetCargoStatusCompleted
<1>8. ASSUME NEW r \in Request, Fail(r) PROVE UNCHANGED rec
  BY <1>8 DEF Fail
<1>. QED
  BY <1>1, <1>3, <1>4, <1>5, <1>6, <1>7, <1>8 DEF Next, vars

\* An accepted recommendation stands for an accepted offer of that driver.
THEOREM Recommended == Spec => []RecommendationBacked
<1>1. Init => RecommendationBacked
  BY DEF Init, RecommendationBacked
<1>2. Inv /\ RecommendationBacked /\ [Next]_vars => RecommendationBacked'
  <2>. SUFFICES ASSUME Inv, RecommendationBacked, [Next]_vars,
                       NEW c \in Cargo, NEW d \in Driver,
                       rec'[<<c, d>>] = "ACCEPTED"
                PROVE  \E o \in Offer : Backing(o, c, d)'
    BY DEF RecommendationBacked, Backing
  <2>1. PICK o \in Offer : Backing(o, c, d)
    BY RecNext DEF RecommendationBacked, Backing
  <2>2. offer[o] # NoOffer
    BY <2>1 DEF Backing, NoOffer
  <2>3. Backing(o, c, d)'
    BY <2>1, <2>2, InvNext DEF Persist, Backing
  <2>. QED
    BY <2>3
<1>. QED
  BY <1>1, <1>2, Invariance, PTL DEF Spec


\* A handler that is going to create the trip of offer o
Carrying(r, o) ==
  req[r].offer = o /\ req[r].step \in {"rec.accept", "trip.create"}
Hauled(o) == \E t \in Trip : trip[t].offer = o

\* A statement that accepts an offer leaves its handler with the trip to make.
LEMMA AwardNext ==
  ASSUME Inv, [Next]_vars, NEW o \in Offer, offer'[o].status = "ACCEPTED"
  PROVE  \/ offer[o].status = "ACCEPTED"
         \/ \E r \in Request : Carrying(r, o)'
<1>. USE DEF Inv, TypeOK
<1>1. ASSUME NEW r \in Request, InsertOffer(r)
      PROVE  offer[o].status = "ACCEPTED"
  BY <1>1 DEF InsertOffer
<1>2. ASSUME NEW r \in Request, RejectOfferWrite(r)
      PROVE  offer[o].status = "ACCEPTED"
  <2>1. req[r].offer \in Offer
    BY <1>2 DEF RejectOfferWrite, At, HandlerInv
  <2>. QED
    BY <1>2, <2>1 DEF RejectOfferWrite, OfferRow
<1>3. ASSUME NEW r \in Request, AcceptOfferCommit(r)
      PROVE  \/ offer[o].status = "ACCEPTED"
             \/ Carrying(r, o)'
  <2>1. CASE o # req[r].offer
    BY <1>3, <2>1 DEF AcceptOfferCommit
  <2>2. CASE o = req[r].offer
    <3>1. PICK s \in {"rec.accept", "trip.create"} : Goto(r, s)
      BY <1>3 DEF AcceptOfferCommit
    <3>2. s \in Step /\ req[r] \in Handler
      BY DEF Step
    <3>3. req'[r] = [req[r] EXCEPT !.step = s]
      BY <3>1, <3>2, GoesOn
    <3>. QED
      BY <2>2, <3>2, <3>3 DEF Carrying, Handler
  <2>. QED
    BY <2>1, <2>2
<1>4. CASE Single
  BY <1>4
  DEF Single, Create, Delete, ModerationReject, ModerationAccept,
      DeclineRecommendation, AssignDriver, DriverConfirm, DriverReject
<1>5. ASSUME NEW r \in Request, Start(r) PROVE UNCHANGED offer
  BY <1>5 DEF Start, SetStatusRead, CreateOfferRead, AcceptOffer,
              RejectOfferRead, RecommendRead, AcceptRecommendation,
              PatchStatus
<1>6. ASSUME NEW r \in Request, Advance(r)
      PROVE  \/ UNCHANGED offer
             \/ InsertOffer(r) \/ RejectOfferWrite(r) \/ AcceptOfferCommit(r)
  BY <1>6 DEF Advance, SetStatusWrite, AcceptOwnOffer, CreateTrip,
              AssignCarrier, RecommendWrite, AcceptRecommendationCargo,
              MarkRecommendation, SetTripStatusRead, SetTripStatusWrite,
              SetCargoStatusInProgress, SetCargoStatusCompleted
<1>7. ASSUME NEW r \in Request, Fail(r) PROVE UNCHANGED offer
  BY <1>7 DEF Fail
<1>. QED
  BY <1>1, <1>2, <1>3, <1>4, <1>5, <1>6, <1>7 DEF Next, vars

\* Where no handler dies, who is going to create a trip does not stop before.
LEMMA CarryingNext ==
  ASSUME Inv, [Next]_vars, ~MayFail, NEW q \in Request, NEW o \in Offer,
         Carrying(q, o)
  PROVE  Carrying(q, o)' \/ Hauled(o)'
<1>1. TypeOK /\ req[q] \in Handler /\ req[q] # Idle
  BY DEF Inv, TypeOK, Carrying, Idle
<1>2. CASE req'[q] = req[q]
  BY <1>2 DEF Carrying
<1>3. ASSUME NEW r \in Request, Others(r), r # q
      PROVE  Carrying(q, o)'
  BY <1>3 DEF Others, Carrying
<1>4. CASE MarkRecommendation(q)
  <2>1. "trip.create" \in Step /\ Goto(q, "trip.create")
    BY <1>4 DEF Step, MarkRecommendation
  <2>2. req'[q] = [req[q] EXCEPT !.step = "trip.create"]
    BY <1>1, <2>1, GoesOn
  <2>. QED
    BY <1>1, <2>2 DEF Carrying, Handler
<1>5. CASE CreateTrip(q)
  <2>1. PICK t \in Trip :
          trip' = [trip EXCEPT ![t] =
                     [status |-> "PENDING_DRIVER", offer |-> req[q].offer,
                      cargo |-> req[q].cargo, driver |-> Null]]
    BY <1>5 DEF CreateTrip
  <2>2. trip'[t].offer = o
    BY <1>1, <2>1 DEF TypeOK, Carrying
  <2>. QED
    BY <2>2 DEF Hauled
<1>6. CASE Single
  <2>1. req' = req
    BY <1>6, SingleKept
  <2>. QED
    BY <1>2, <2>1
<1>7. ASSUME NEW r \in Request, Start(r) \/ Advance(r) \/ Fail(r)
      PROVE  Carrying(q, o)' \/ Hauled(o)'
  <2>1. CASE r # q
    <3>1. Others(r)
      BY <1>7, StartKept, AdvanceKept, FailKept
    <3>. QED
      BY <1>3, <2>1, <3>1
  <2>2. CASE r = q
    <3>1. ~Start(q)
      BY <1>1 DEF Start, SetStatusRead, CreateOfferRead, AcceptOffer,
                  RejectOfferRead, RecommendRead, AcceptRecommendation,
                  PatchStatus, Begin
    <3>2. ~Fail(q)
      BY DEF Fail
    <3>3. Advance(q) => MarkRecommendation(q) \/ CreateTrip(q)
      BY DEF Advance, At, Carrying, SetStatusWrite, InsertOffer,
             AcceptOwnOffer, AcceptOfferCommit, AssignCarrier,
             RejectOfferWrite, RecommendWrite, AcceptRecommendationCargo,
             SetTripStatusRead, SetTripStatusWrite, SetCargoStatusInProgress,
             SetCargoStatusCompleted
    <3>. QED
      BY <1>4, <1>5, <1>7, <2>2, <3>1, <3>2, <3>3
  <2>. QED
    BY <2>1, <2>2
<1>8. CASE UNCHANGED vars
  BY <1>2, <1>8 DEF vars
<1>. QED
  BY <1>6, <1>7, <1>8 DEF Next

\* Without failures every accepted offer has its trip or a handler about to
\* create it.
THEOREM Awarded == Spec => []NoLostAward
<1>1. Init => NoLostAward
  BY DEF Init, NoLostAward, NoOffer
<1>2. Inv /\ NoLostAward /\ [Next]_vars => NoLostAward'
  <2>. SUFFICES ASSUME Inv, NoLostAward, [Next]_vars, ~MayFail,
                       NEW o \in Offer, offer'[o].status = "ACCEPTED"
                PROVE  Hauled(o)' \/ \E r \in Request : Carrying(r, o)'
    BY DEF NoLostAward, Hauled, Carrying
  <2>1. CASE offer[o].status = "ACCEPTED"
    <3>1. Hauled(o) \/ \E r \in Request : Carrying(r, o)
      BY <2>1 DEF NoLostAward, Hauled, Carrying
    <3>2. ASSUME NEW t \in Trip, trip[t].offer = o PROVE Hauled(o)'
      <4>1. trip[t] # NoTrip
        BY <3>2, FreightAssumption DEF NoTrip
      <4>. QED
        BY <3>2, <4>1, InvNext DEF Persist, Hauled
    <3>. QED
      BY <3>1, <3>2, CarryingNext DEF Hauled
  <2>2. CASE \E r \in Request : Carrying(r, o)'
    BY <2>2
  <2>. QED
    BY <2>1, <2>2, AwardNext
<1>. QED
  BY <1>1, <1>2, Invariance, PTL DEF Spec

-----------------------------------------------------------------------------
\* Freight implements FreightContract: the initial tables are its initial
\* state, and every statement of every handler is one of its steps or changes
\* nothing it can see.
CStep == [Contract!Next]_(Contract!cvars)

\* A statement that writes neither offers nor trips, and at most decides cargo.
LEMMA CargoStep ==
  ASSUME TypeOK, NEW c \in Cargo, NEW s \in CargoStatus,
         cargo' = [cargo EXCEPT ![c] = s],
         Decided(c) => s # "PENDING_MODERATION",
         UNCHANGED <<offer, trip>>
  PROVE  CStep
<1>1. UNCHANGED <<Bids, Won, Hauls>>
  BY DEF Bids, Won, Hauls
<1>2. \A x \in Cargo : Decided(x)' <=>
        IF x = c THEN s # "PENDING_MODERATION" ELSE Decided(x)
  BY DEF TypeOK, Decided, CargoStatus
<1>3. DecidedCargo' \in {DecidedCargo, DecidedCargo \cup {c}}
  BY <1>2 DEF DecidedCargo
<1>4. CASE DecidedCargo' = DecidedCargo
  BY <1>1, <1>4 DEF CStep, Contract!cvars
<1>5. CASE DecidedCargo' = DecidedCargo \cup {c}
  <2>1. Contract!Decide(c)
    BY <1>1, <1>5 DEF Contract!Decide
  <2>. QED
    BY <2>1 DEF CStep, Contract!Next
<1>. QED
  BY <1>3, <1>4, <1>5

\* The phase of a haul for each status of its trip.
LEMMA Phases ==
  /\ Phase("NONE") = "none"
  /\ Phase("PENDING_DRIVER") = "open"
  /\ Phase("CANCELLED") = "off"
  /\ \A s \in UnderWay : Phase(s) = "run"
BY DEF Phase, UnderWay

\* One trip row changes, and so does its haul.
LEMMA OneHaul ==
  ASSUME TypeOK, NEW t \in Trip, NEW row, trip' = [trip EXCEPT ![t] = row]
  PROVE  Hauls' = [Hauls EXCEPT ![t] = Haul(row)]
<1>1. Hauls' = [x \in Trip |-> Haul(trip'[x])]
  BY DEF Hauls, Haul, Phase, UnderWay
<1>2. Hauls = [x \in Trip |-> Haul(trip[x])]
  BY DEF Hauls
<1>3. \A x \in Trip : trip'[x] = IF x = t THEN row ELSE trip[x]
  BY DEF TypeOK
<1>. QED
  BY <1>1, <1>2, <1>3

\* A statement that writes none of the three tables is a stutter.
LEMMA NoStep ==
  ASSUME UNCHANGED <<cargo, offer, trip>>
  PROVE  CStep
BY DEF CStep, Contract!cvars, DecidedCargo, Decided, Bids, Won, Hauls

\* The INSERT of an offer is a bid on decided cargo.
LEMMA BidStep ==
  ASSUME Inv, NEW r \in Request, InsertOffer(r)
  PROVE  CStep
<1>1. TypeOK /\ HandlerInv(r)
  BY DEF Inv
<1>2. PICK o \in Offer :
        /\ offer[o] = NoOffer
        /\ offer' = [offer EXCEPT ![o] =
                       [status |-> "PENDING", cargo |-> req[r].cargo,
                        carrier |-> req[r].carrier]]
  BY DEF InsertOffer
<1>. DEFINE c == req[r].cargo
<1>3. c \in Cargo /\ Decided(c)
  BY <1>1 DEF InsertOffer, At, HandlerInv
<1>4. \A x \in Offer :
        /\ offer'[x].cargo = IF x = o THEN c ELSE offer[x].cargo
        /\ (offer'[x].status = "ACCEPTED") <=> (offer[x].status = "ACCEPTED")
  BY <1>1, <1>2 DEF TypeOK, NoOffer
<1>5. Bids[o] = Null /\ c \in DecidedCargo
  BY <1>2, <1>3 DEF Bids, NoOffer, DecidedCargo
<1>6. Bids' = [Bids EXCEPT ![o] = c]
  BY <1>4 DEF Bids
<1>7. Won' = Won
  BY <1>4 DEF Won
<1>8. UNCHANGED <<DecidedCargo, Hauls>>
  BY DEF InsertOffer, DecidedCargo, Decided, Hauls
<1>9. Contract!Bid(o, c)
  BY <1>5, <1>6, <1>7, <1>8 DEF Contract!Bid
<1>. QED
  BY <1>3, <1>9 DEF CStep, Contract!Next

\* The accepting transaction makes one offer win; nobody loses a win.
LEMMA WinStep ==
  ASSUME Inv, NEW r \in Request, AcceptOfferCommit(r)
  PROVE  CStep
<1>. DEFINE o == req[r].offer
            c == req[r].cargo
<1>1. TypeOK /\ HandlerInv(r)
  BY DEF Inv
<1>2. o \in Offer /\ c \in Cargo /\ Decided(c) /\ offer[o].cargo = c
  BY <1>1 DEF AcceptOfferCommit, At, HandlerInv
<1>3. \A x \in Offer : offer[x] \in OfferRow
  BY <1>1 DEF TypeOK
<1>4. \A x \in Offer :
        offer'[x] = IF x = o THEN [offer[x] EXCEPT !.status = "ACCEPTED"]
                    ELSE IF offer[x].cargo = c /\ offer[x].status = "PENDING"
                    THEN [offer[x] EXCEPT !.status = "REJECTED"]
                    ELSE offer[x]
  BY DEF AcceptOfferCommit
<1>5. \A x \in Offer :
        /\ offer'[x].cargo = offer[x].cargo
        /\ (offer'[x].status = "ACCEPTED")
             <=> (x = o \/ offer[x].status = "ACCEPTED")
  <2>. TAKE x \in Offer
  <2>1. CASE x = o
    BY <1>3, <1>4, <2>1 DEF OfferRow
  <2>2. CASE x # o /\ offer[x].cargo = c /\ offer[x].status = "PENDING"
    <3>1. offer'[x] = [offer[x] EXCEPT !.status = "REJECTED"]
      BY <1>4, <2>2
    <3>. QED
      BY <1>3, <2>2, <3>1 DEF OfferRow
  <2>3. CASE x # o /\ ~(offer[x].cargo = c /\ offer[x].status = "PENDING")
    BY <1>4, <2>3
  <2>. QED
    BY <2>1, <2>2, <2>3
<1>6. Bids[o] # Null
  BY <1>2, FreightAssumption DEF Bids
<1>7. Bids' = Bids
  BY <1>5 DEF Bids
<1>8. Won' = Won \cup {o}
  BY <1>2, <1>5 DEF Won
<1>9. DecidedCargo' = DecidedCargo
  <2>1. \A x \in Cargo : Decided(x)' <=> Decided(x)
    BY <1>1, <1>2 DEF AcceptOfferCommit, Overwritten, TypeOK, Decided
  <2>. QED
    BY <2>1 DEF DecidedCargo
<1>10. Hauls' = Hauls
  BY DEF AcceptOfferCommit, Hauls
<1>11. Contract!Win(o)
  BY <1>6, <1>7, <1>8, <1>9, <1>10 DEF Contract!Win
<1>. QED
  BY <1>2, <1>11 DEF CStep, Contract!Next

\* A pending offer is rejected: nobody has won it, nobody has lost it.
LEMMA RejectStep ==
  ASSUME Inv, NEW r \in Request, RejectOfferWrite(r)
  PROVE  CStep
<1>. DEFINE o == req[r].offer
<1>1. TypeOK /\ HandlerInv(r)
  BY DEF Inv
<1>2. o \in Offer
  BY <1>1 DEF RejectOfferWrite, At, HandlerInv
<1>3. \A x \in Offer :
        /\ offer'[x].cargo = offer[x].cargo
        /\ (offer'[x].status = "ACCEPTED") <=> (offer[x].status = "ACCEPTED")
  BY <1>1, <1>2 DEF RejectOfferWrite, TypeOK, OfferRow
<1>4. Bids' = Bids /\ Won' = Won
  BY <1>3 DEF Bids, Won
<1>5. DecidedCargo' = DecidedCargo /\ Hauls' = Hauls
  BY DEF RejectOfferWrite, DecidedCargo, Decided, Hauls
<1>. QED
  BY <1>4, <1>5 DEF CStep, Contract!cvars

\* The creation of a trip opens a haul for a won bid.
LEMMA OpenStep ==
  ASSUME Inv, NEW r \in Request, CreateTrip(r)
  PROVE  CStep
<1>. DEFINE o == req[r].offer
<1>1. TypeOK /\ HandlerInv(r)
  BY DEF Inv
<1>2. PICK t \in Trip :
        /\ trip[t] = NoTrip
        /\ trip' = [trip EXCEPT ![t] =
                      [status |-> "PENDING_DRIVER", offer |-> o,
                       cargo |-> req[r].cargo, driver |-> Null]]
  BY DEF CreateTrip
<1>3. /\ o \in Offer /\ offer[o].status = "ACCEPTED"
      /\ offer[o].cargo = req[r].cargo
  BY <1>1 DEF CreateTrip, At, HandlerInv
<1>4. Hauls[t] = Contract!NoHaul /\ o \in Won /\ Bids[o] = req[r].cargo
  BY <1>2, <1>3, Phases DEF Hauls, Haul, NoTrip, Contract!NoHaul, Won, Bids
<1>5. Hauls' = [Hauls EXCEPT ![t] = [offer |-> o, cargo |-> Bids[o],
                                     crew |-> Null, phase |-> "open"]]
  <2>1. Haul([status |-> "PENDING_DRIVER", offer |-> o,
              cargo |-> req[r].cargo, driver |-> Null])
          = [offer |-> o, cargo |-> Bids[o], crew |-> Null, phase |-> "open"]
    BY <1>4, Phases DEF Haul
  <2>. QED
    BY <1>1, <1>2, <2>1, OneHaul
<1>6. UNCHANGED <<DecidedCargo, Bids, Won>>
  BY DEF CreateTrip, DecidedCargo, Decided, Bids, Won
<1>7. Contract!Open(t, o)
  BY <1>4, <1>5, <1>6 DEF Contract!Open
<1>. QED
  BY <1>3, <1>7 DEF CStep, Contract!Next

\* A driver written to a waiting trip is a change of crew.
LEMMA CrewStep ==
  ASSUME Inv, NEW t \in Trip, NEW d \in Driver \cup {Null},
         trip[t].status = "PENDING_DRIVER",
         trip' = [trip EXCEPT ![t].driver = d],
         UNCHANGED <<cargo, offer>>
  PROVE  CStep
<1>1. TypeOK
  BY DEF Inv
<1>2. Hauls[t].phase = "open"
  BY Phases DEF Hauls, Haul
<1>3. Haul([trip[t] EXCEPT !.driver = d]) = [Haul(trip[t]) EXCEPT !.crew = d]
  BY <1>1 DEF Haul, TypeOK, TripRow
<1>4. Hauls' = [Hauls EXCEPT ![t] = Haul([trip[t] EXCEPT !.driver = d])]
  BY <1>1, OneHaul
<1>5. Hauls' = [Hauls EXCEPT ![t].crew = d]
  BY <1>3, <1>4 DEF Hauls
<1>6. UNCHANGED <<DecidedCargo, Bids, Won>>
  BY DEF DecidedCargo, Decided, Bids, Won
<1>7. Contract!Crew(t, d)
  BY <1>2, <1>5, <1>6 DEF Contract!Crew
<1>. QED
  BY <1>7 DEF CStep, Contract!Next

\* The status of a trip moves within a phase, to "run" or to "off".
LEMMA PhaseStep ==
  ASSUME Inv, NEW t \in Trip, trip[t] # NoTrip,
         NEW s \in UnderWay \cup {"CANCELLED"},
         s # "CANCELLED" => trip[t].driver # Null,
         trip' = [trip EXCEPT ![t].status = s],
         UNCHANGED <<cargo, offer>>
  PROVE  CStep
<1>1. TypeOK /\ TripInv
  BY DEF Inv
<1>2. trip[t] \in TripRow /\ trip[t].status # "NONE"
  BY <1>1 DEF TypeOK, TripInv
<1>3. Hauls[t] = Haul(trip[t]) /\ Hauls[t].crew = trip[t].driver
  BY DEF Hauls, Haul
<1>4. Hauls[t].phase \in {"open", "run", "off"}
  BY <1>2, <1>3, Phases DEF Haul, TripRow, TripStatus, UnderWay
<1>5. Haul([trip[t] EXCEPT !.status = s])
        = [Haul(trip[t]) EXCEPT !.phase = Phase(s)]
  BY <1>1 DEF Haul, TypeOK, TripRow
<1>6. Hauls' = [Hauls EXCEPT ![t] = Haul([trip[t] EXCEPT !.status = s])]
  BY <1>1, OneHaul
<1>7. Hauls' = [Hauls EXCEPT ![t].phase = Phase(s)]
  BY <1>3, <1>5, <1>6
<1>8. UNCHANGED <<DecidedCargo, Bids, Won>>
  BY DEF DecidedCargo, Decided, Bids, Won
<1>9. Phase(s) = IF s = "CANCELLED" THEN "off" ELSE "run"
  BY Phases
<1>10. CASE Hauls[t].phase = Phase(s)
  <2>1. Hauls' = Hauls
    BY <1>3, <1>7, <1>10 DEF Hauls, Haul
  <2>. QED
    BY <1>8, <2>1 DEF CStep, Contract!cvars
<1>11. CASE Hauls[t].phase # Phase(s) /\ s = "CANCELLED"
  <2>1. Contract!CallOff(t)
    BY <1>4, <1>7, <1>8, <1>9, <1>11 DEF Contract!CallOff
  <2>. QED
    BY <2>1 DEF CStep, Contract!Next
<1>12. CASE Hauls[t].phase # Phase(s) /\ s # "CANCELLED"
  <2>1. Contract!Run(t)
    BY <1>3, <1>4, <1>7, <1>8, <1>9, <1>12 DEF Contract!Run
  <2>. QED
    BY <2>1 DEF CStep, Contract!Next
<1>. QED
  BY <1>10, <1>11, <1>12
\* Every step of the market is a step of the contract or invisible to it.
LEMMA StepRefines == Inv /\ [Next]_vars => CStep
<1>. SUFFICES ASSUME Inv, [Next]_vars PROVE CStep
  OBVIOUS
<1>1. TypeOK
  BY DEF Inv
<1>2. CASE Single
  <2>1. ASSUME NEW c \in Cargo, Create(c) PROVE CStep
    BY <1>1, <2>1, CargoStep DEF Create, CargoStatus, Decided
  <2>2. ASSUME NEW c \in Cargo, Delete(c) PROVE CStep
    BY <2>2, NoStep DEF Delete
  <2>3. ASSUME NEW c \in Cargo, ModerationReject(c) PROVE CStep
    BY <1>1, <2>3, CargoStep DEF ModerationReject, CargoStatus
  <2>4. ASSUME NEW c \in Cargo, NEW v \in Searching, ModerationAccept(c, v)
        PROVE  CStep
    BY <1>1, <2>4, CargoStep DEF ModerationAccept, CargoStatus, Searching
  <2>5. ASSUME NEW c \in Cargo, NEW d \in Driver, DeclineRecommendation(c, d)
        PROVE  CStep
    BY <2>5, NoStep DEF DeclineRecommendation
  <2>6. ASSUME NEW t \in Trip, NEW d \in Driver, AssignDriver(t, d)
        PROVE  CStep
    BY <2>6, CrewStep DEF AssignDriver
  <2>7. ASSUME NEW t \in Trip, NEW d \in Driver, DriverConfirm(t, d)
        PROVE  CStep
    <3>1. trip[t] # NoTrip /\ trip[t].driver # Null
      BY <2>7, FreightAssumption DEF DriverConfirm, NoTrip
    <3>. QED
      BY <2>7, <3>1, PhaseStep DEF DriverConfirm, UnderWay
  <2>8. ASSUME NEW t \in Trip, NEW d \in Driver, DriverReject(t, d)
        PROVE  CStep
    BY <2>8, CrewStep DEF DriverReject
  <2>. QED
    BY <1>2, <2>1, <2>2, <2>3, <2>4, <2>5, <2>6, <2>7, <2>8 DEF Single
<1>3. ASSUME NEW r \in Request, Start(r) \/ Fail(r) PROVE CStep
  <2>1. UNCHANGED <<cargo, offer, trip>>
    BY <1>3 DEF Start, Fail, SetStatusRead, CreateOfferRead, AcceptOffer,
                RejectOfferRead, RecommendRead, AcceptRecommendation,
                PatchStatus
  <2>. QED
    BY <2>1, NoStep
<1>4. ASSUME NEW r \in Request, Advance(r) PROVE CStep
  <2>1. HandlerInv(r)
    BY DEF Inv
  <2>2. CASE SetStatusWrite(r)
    <3>1. req[r].to \in CargoStatus \ {"CREATED", "PENDING_MODERATION"}
      BY <2>1, <2>2 DEF SetStatusWrite, At, HandlerInv
    <3>. DEFINE c == req[r].cargo
    <3>2. CASE Live(c) /\ c \in Cargo
      BY <1>1, <2>2, <3>1, <3>2, CargoStep DEF SetStatusWrite, Overwritten
    <3>3. CASE ~(Live(c) /\ c \in Cargo)
      <4>1. cargo' = cargo
        BY <1>1, <2>2, <3>3 DEF SetStatusWrite, Overwritten, TypeOK
      <4>. QED
        BY <2>2, <4>1, NoStep DEF SetStatusWrite
    <3>. QED  BY <3>2, <3>3
  <2>3. CASE InsertOffer(r)
    BY <2>3, BidStep
  <2>4. CASE AcceptOfferCommit(r)
    BY <2>4, WinStep
  <2>5. CASE RejectOfferWrite(r)
    BY <2>5, RejectStep
  <2>6. CASE CreateTrip(r)
    BY <2>6, OpenStep
  <2>7. CASE AssignCarrier(r)
    <3>1. req[r].trip \in Trip
      BY <2>1, <2>7 DEF AssignCarrier, At, HandlerInv
    <3>2. CASE /\ trip[req[r].trip].status = "PENDING_DRIVER"
               /\ req[r].carrier \in Driver
      BY <2>7, <3>1, <3>2, CrewStep DEF AssignCarrier
    <3>3. CASE ~(/\ trip[req[r].trip].status = "PENDING_DRIVER"
                 /\ req[r].carrier \in Driver)
      BY <2>7, <3>3, NoStep DEF AssignCarrier
    <3>. QED  BY <3>2, <3>3
  <2>8. CASE SetTripStatusWrite(r)
    <3>1. /\ req[r].trip \in Trip /\ trip[req[r].trip] # NoTrip
          /\ req[r].to \in PatchableTripStatus
          /\ req[r].to # "CANCELLED" => trip[req[r].trip].driver # Null
      BY <2>1, <2>8 DEF SetTripStatusWrite, At, HandlerInv
    <3>2. req[r].to \in UnderWay \cup {"CANCELLED"}
      BY <3>1 DEF PatchableTripStatus, UnderWay
    <3>. QED
      BY <2>8, <3>1, <3>2, PhaseStep DEF SetTripStatusWrite
  <2>9. CASE SetCargoStatusInProgress(r) \/ SetCargoStatusCompleted(r)
    <3>. DEFINE c == req[r].cargo
    <3>1. UNCHANGED <<offer, trip>>
      BY <2>9 DEF SetCargoStatusInProgress, SetCargoStatusCompleted
    <3>2. CASE cargo' = cargo
      BY <3>1, <3>2, NoStep
    <3>3. CASE cargo' # cargo
      <4>1. PICK s \in {"IN_PROGRESS", "COMPLETED"} :
              cargo' = [cargo EXCEPT ![c] = s]
        BY <2>9, <3>3
           DEF SetCargoStatusInProgress, SetCargoStatusCompleted, Overwritten
      <4>2. c \in Cargo
        BY <1>1, <3>3, <4>1 DEF TypeOK
      <4>. QED
        BY <1>1, <3>1, <4>1, <4>2, CargoStep DEF CargoStatus
    <3>. QED  BY <3>2, <3>3
  <2>10. CASE \/ AcceptOwnOffer(r) \/ RecommendWrite(r)
              \/ AcceptRecommendationCargo(r) \/ MarkRecommendation(r)
              \/ SetTripStatusRead(r)
    BY <2>10, NoStep
       DEF AcceptOwnOffer, RecommendWrite, AcceptRecommendationCargo,
           MarkRecommendation, SetTripStatusRead
  <2>. QED
    BY <1>4, <2>2, <2>3, <2>4, <2>5, <2>6, <2>7, <2>8, <2>9, <2>10
       DEF Advance
<1>5. CASE UNCHANGED vars
  BY <1>5, NoStep DEF vars
<1>. QED
  BY <1>2, <1>3, <1>4, <1>5 DEF Next

\* The empty tables are the empty market.
LEMMA InitRefines == Init => Contract!Init
<1>. SUFFICES ASSUME Init PROVE Contract!Init
  OBVIOUS
<1>1. DecidedCargo = {}
  BY DEF Init, DecidedCargo, Decided
<1>2. Bids = [o \in Offer |-> Null] /\ Won = {}
  BY DEF Init, Bids, Won, NoOffer
<1>3. Haul(NoTrip) = Contract!NoHaul
  BY Phases DEF Haul, NoTrip, Contract!NoHaul
<1>4. Hauls = [t \in Trip |-> Contract!NoHaul]
  BY <1>3 DEF Init, Hauls
<1>. QED
  BY <1>1, <1>2, <1>4 DEF Contract!Init

\* The handlers, their stale reads and their failures keep what the market
\* promises: Freight implements FreightContract.
THEOREM Refinement == Spec => ContractSpec
BY InitRefines, StepRefines, Invariance, PTL
   DEF Spec, ContractSpec, Contract!Spec, CStep

=============================================================================

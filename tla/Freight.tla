------------------------------ MODULE Freight ------------------------------
(***************************************************************************)
(* The freight market: cargo, the offers made on it, a dispatcher's        *)
(* recommendations, and the trips that carry it (internal/cargo,           *)
(* internal/trips, internal/cargorecommendations and their handlers).      *)
(*                                                                         *)
(* The four tables live in Postgres and every SQL statement is one atomic  *)
(* step on them (READ COMMITTED). A handler that needs several statements  *)
(* is an entry of req: the statement it runs next and the values it read   *)
(* before. Any number of handlers interleave, so what a handler has read   *)
(* may be stale when it writes.                                            *)
(***************************************************************************)
CONSTANTS
  Cargo, Offer, Trip,   \* the ids the tables may use
  Carrier,              \* the ids an offer may name as its carrier
  Driver,               \* those of them with a row in table drivers
  Request,              \* handlers that can be in flight at the same time
  DispatcherCargo,      \* cargo whose created_by is the calling dispatcher
  Colleagues,           \* <<c, d>>: driver d works for the company of cargo c
  MayFail,              \* a handler may die or lose the database midway
  Null

ASSUME FreightAssumption ==
  /\ Driver \subseteq Carrier
  /\ DispatcherCargo \subseteq Cargo
  /\ Colleagues \subseteq Cargo \X Carrier
  /\ MayFail \in BOOLEAN
  /\ Null \notin Cargo \cup Offer \cup Trip \cup Carrier

VARIABLES
  cargo,     \* status of each cargo row, "NONE" before it is created
  deleted,   \* cargo with deleted_at set
  offer,     \* offer rows
  rec,       \* status of each recommendation (cargo, driver)
  trip,      \* trip rows
  req        \* handlers in flight

vars == <<cargo, deleted, offer, rec, trip, req>>

-----------------------------------------------------------------------------
(* Statuses and the transition tables of the two SetStatus functions *)

CargoStatus ==
  {"CREATED", "PENDING_MODERATION", "SEARCHING_ALL", "SEARCHING_COMPANY",
   "REJECTED", "ASSIGNED", "IN_PROGRESS", "IN_TRANSIT", "DELIVERED",
   "COMPLETED", "CANCELLED"}

Searching == {"SEARCHING_ALL", "SEARCHING_COMPANY"}

CargoMoves ==
  ({"CREATED"} \X {"SEARCHING_ALL", "SEARCHING_COMPANY", "CANCELLED"})
    \cup ({"PENDING_MODERATION"}
            \X {"SEARCHING_ALL", "SEARCHING_COMPANY", "REJECTED"})
    \cup (Searching \X {"ASSIGNED", "CANCELLED"})
    \cup ({"ASSIGNED"} \X {"IN_PROGRESS", "CANCELLED"})
    \cup {<<"IN_PROGRESS", "COMPLETED">>, <<"IN_TRANSIT", "DELIVERED">>}

OfferStatus == {"PENDING", "ACCEPTED", "REJECTED"}
RecStatus   == {"PENDING", "ACCEPTED", "DECLINED"}

TripStatus ==
  {"PENDING_DRIVER", "ASSIGNED", "LOADING", "EN_ROUTE", "UNLOADING",
   "COMPLETED", "CANCELLED"}

TripMoves ==
  ({"PENDING_DRIVER"} \X {"ASSIGNED", "CANCELLED"})
    \cup ({"ASSIGNED"} \X {"LOADING", "CANCELLED"})
    \cup ({"LOADING"} \X {"EN_ROUTE", "CANCELLED"})
    \cup {<<"EN_ROUTE", "UNLOADING">>, <<"UNLOADING", "COMPLETED">>}

\* what the binding of PATCH /trips/:id/status lets through
PatchableTripStatus ==
  {"LOADING", "EN_ROUTE", "UNLOADING", "COMPLETED", "CANCELLED"}

-----------------------------------------------------------------------------
(* Rows and handlers *)

OfferRow ==
  [status: OfferStatus \cup {"NONE"}, cargo: Cargo \cup {Null},
   carrier: Carrier \cup {Null}]
NoOffer == [status |-> "NONE", cargo |-> Null, carrier |-> Null]

TripRow ==
  [status: TripStatus \cup {"NONE"}, offer: Offer \cup {Null},
   cargo: Cargo \cup {Null}, driver: Driver \cup {Null}]
NoTrip ==
  [status |-> "NONE", offer |-> Null, cargo |-> Null, driver |-> Null]

\* the statement a handler runs next
Step ==
  {"idle", "cargo.write", "offer.insert", "accept.select", "accept.write",
   "rec.accept", "trip.create", "trip.assign", "offer.reject", "rec.upsert",
   "rec.cargo", "trip.read", "trip.write", "cargo.progress", "cargo.complete"}

Handler ==
  [step: Step, cargo: Cargo \cup {Null}, offer: Offer \cup {Null},
   trip: Trip \cup {Null}, carrier: Carrier \cup {Null},
   to: CargoStatus \cup TripStatus \cup {"NONE"},
   recommended: BOOLEAN]
Idle ==
  [step |-> "idle", cargo |-> Null, offer |-> Null, trip |-> Null,
   carrier |-> Null, to |-> "NONE", recommended |-> FALSE]

Begin(r, h) == req[r] = Idle /\ req' = [req EXCEPT ![r] = h]
At(r, s)    == req[r].step = s
Goto(r, s)  == req' = [req EXCEPT ![r].step = s]
Return(r)   == req' = [req EXCEPT ![r] = Idle]

\* GetByID(id, false) finds the row
Live(c) == cargo[c] # "NONE" /\ c \notin deleted

\* Fault: the UPDATE forgets deleted_at IS NULL.
OverwrittenBlindly(c, s) == [cargo EXCEPT ![c] = s]

\* UPDATE cargo SET status = s WHERE id = c AND deleted_at IS NULL
Overwritten(c, s) == IF Live(c) THEN [cargo EXCEPT ![c] = s] ELSE cargo

TypeOK ==
  /\ cargo \in [Cargo -> CargoStatus \cup {"NONE"}]
  /\ deleted \subseteq Cargo
  /\ offer \in [Offer -> OfferRow]
  /\ rec \in [Cargo \X Driver -> RecStatus \cup {"NONE"}]
  /\ trip \in [Trip -> TripRow]
  /\ req \in [Request -> Handler]

Init ==
  /\ cargo = [c \in Cargo |-> "NONE"]
  /\ deleted = {}
  /\ offer = [o \in Offer |-> NoOffer]
  /\ rec = [p \in Cargo \X Driver |-> "NONE"]
  /\ trip = [t \in Trip |-> NoTrip]
  /\ req = [r \in Request |-> Idle]

-----------------------------------------------------------------------------
(* Cargo: creation, moderation, PATCH status, deletion *)

\* Create leaves the status empty and the INSERT makes it PENDING_MODERATION.
Create(c) ==
  /\ cargo[c] = "NONE"
  /\ cargo' = [cargo EXCEPT ![c] = "PENDING_MODERATION"]
  /\ UNCHANGED <<deleted, offer, rec, trip, req>>

Delete(c) ==
  /\ Live(c)
  /\ deleted' = deleted \cup {c}
  /\ UNCHANGED <<cargo, offer, rec, trip, req>>

\* The read before the guarded UPDATE adds nothing: no row ever returns to
\* PENDING_MODERATION, and the creator of a row never changes.
ModerationAccept(c, visibility) ==
  /\ Live(c) /\ cargo[c] = "PENDING_MODERATION"
  /\ visibility \in Searching
  /\ c \in DispatcherCargo => visibility = "SEARCHING_ALL"
  /\ cargo' = [cargo EXCEPT ![c] = visibility]
  /\ UNCHANGED <<deleted, offer, rec, trip, req>>

ModerationReject(c) ==
  /\ Live(c) /\ cargo[c] = "PENDING_MODERATION"
  /\ cargo' = [cargo EXCEPT ![c] = "REJECTED"]
  /\ UNCHANGED <<deleted, offer, rec, trip, req>>

SetStatusRead(r, c, s) ==
  /\ Live(c) /\ <<cargo[c], s>> \in CargoMoves
  /\ Begin(r, [Idle EXCEPT !.step = "cargo.write", !.cargo = c, !.to = s])
  /\ UNCHANGED <<cargo, deleted, offer, rec, trip>>

\* The UPDATE does not repeat the status it was allowed from.
SetStatusWrite(r) ==
  /\ At(r, "cargo.write")
  /\ cargo' = Overwritten(req[r].cargo, req[r].to)
  /\ Return(r)
  /\ UNCHANGED <<deleted, offer, rec, trip>>

-----------------------------------------------------------------------------
(* Offers *)

\* Fault: the handler forgets IsSearching.
CreateOfferAnyStatus(r, c, d) ==
  /\ Live(c)
  /\ Begin(r, [Idle EXCEPT !.step = "offer.insert", !.cargo = c,
                           !.carrier = d])
  /\ UNCHANGED <<cargo, deleted, offer, rec, trip>>

CreateOfferRead(r, c, d) ==
  /\ Live(c) /\ cargo[c] \in Searching
  /\ cargo[c] = "SEARCHING_COMPANY" => <<c, d>> \in Colleagues
  /\ Begin(r, [Idle EXCEPT !.step = "offer.insert", !.cargo = c,
                           !.carrier = d])
  /\ UNCHANGED <<cargo, deleted, offer, rec, trip>>

InsertOffer(r) ==
  /\ At(r, "offer.insert")
  /\ \E o \in Offer :
       /\ offer[o] = NoOffer
       /\ offer' = [offer EXCEPT ![o] =
                      [status |-> "PENDING", cargo |-> req[r].cargo,
                       carrier |-> req[r].carrier]]
       /\ IF req[r].recommended
          THEN req' = [req EXCEPT ![r].step = "accept.select",
                                  ![r].offer = o]
          ELSE Return(r)
  /\ UNCHANGED <<cargo, deleted, rec, trip>>

\* POST /api/offers/:id/accept opens its transaction: SELECT of a pending
\* offer, without a lock.
AcceptOffer(r, o) ==
  /\ offer[o].status = "PENDING"
  /\ Begin(r, [Idle EXCEPT !.step = "accept.write", !.offer = o,
                           !.cargo = offer[o].cargo,
                           !.carrier = offer[o].carrier])
  /\ UNCHANGED <<cargo, deleted, offer, rec, trip>>

\* The same SELECT inside AcceptRecommendation, for the offer just inserted.
AcceptOwnOffer(r) ==
  /\ At(r, "accept.select")
  /\ IF offer[req[r].offer].status = "PENDING"
     THEN Goto(r, "accept.write")
     ELSE Return(r)
  /\ UNCHANGED <<cargo, deleted, offer, rec, trip>>

\* Fault: the sweep forgets AND status = 'PENDING'.
AcceptOfferSweepAll(r) ==
  LET o == req[r].offer  c == req[r].cargo IN
  /\ At(r, "accept.write")
  /\ offer' = [x \in Offer |->
                 IF x = o THEN [offer[x] EXCEPT !.status = "ACCEPTED"]
                 ELSE IF offer[x].cargo = c
                 THEN [offer[x] EXCEPT !.status = "REJECTED"]
                 ELSE offer[x]]
  /\ cargo' = Overwritten(c, "ASSIGNED")
  /\ Goto(r, IF req[r].recommended THEN "rec.accept" ELSE "trip.create")
  /\ UNCHANGED <<deleted, rec, trip>>

\* Fault: only an accepted recommendation goes on to create a trip.
AcceptOfferWithoutTrip(r) ==
  LET o == req[r].offer  c == req[r].cargo IN
  /\ At(r, "accept.write")
  /\ offer' = [offer EXCEPT ![o].status = "ACCEPTED"]
  /\ cargo' = Overwritten(c, "ASSIGNED")
  /\ IF req[r].recommended THEN Goto(r, "rec.accept") ELSE Return(r)
  /\ UNCHANGED <<deleted, rec, trip>>

\* The three UPDATEs and the COMMIT. Their row locks are held to the end, so
\* what others see is one step at the commit; a deadlock rolls back (Fail).
\* None of the first two repeats the status that was read.
AcceptOfferCommit(r) ==
  LET o == req[r].offer  c == req[r].cargo IN
  /\ At(r, "accept.write")
  /\ offer' = [x \in Offer |->
                 IF x = o THEN [offer[x] EXCEPT !.status = "ACCEPTED"]
                 ELSE IF offer[x].cargo = c /\ offer[x].status = "PENDING"
                 THEN [offer[x] EXCEPT !.status = "REJECTED"]
                 ELSE offer[x]]
  /\ cargo' = Overwritten(c, "ASSIGNED")
  /\ Goto(r, IF req[r].recommended THEN "rec.accept" ELSE "trip.create")
  /\ UNCHANGED <<deleted, rec, trip>>

\* Fault: a trip is only created while its cargo is live.
CreateTripForLiveCargo(r) ==
  /\ At(r, "trip.create")
  /\ IF Live(req[r].cargo)
     THEN \E t \in Trip :
            /\ trip[t] = NoTrip
            /\ trip' = [trip EXCEPT ![t] =
                          [status |-> "PENDING_DRIVER",
                           offer |-> req[r].offer,
                           cargo |-> req[r].cargo, driver |-> Null]]
            /\ req' = [req EXCEPT ![r].step = "trip.assign", ![r].trip = t]
     ELSE Return(r) /\ trip' = trip
  /\ UNCHANGED <<cargo, deleted, offer, rec>>

CreateTrip(r) ==
  /\ At(r, "trip.create")
  /\ \E t \in Trip :
       /\ trip[t] = NoTrip
       /\ trip' = [trip EXCEPT ![t] =
                     [status |-> "PENDING_DRIVER", offer |-> req[r].offer,
                      cargo |-> req[r].cargo, driver |-> Null]]
       /\ req' = [req EXCEPT ![r].step = "trip.assign", ![r].trip = t]
  /\ UNCHANGED <<cargo, deleted, offer, rec>>

\* Fault: any carrier id is written to driver_id.
AssignAnyCarrier(r) ==
  LET t == req[r].trip IN
  /\ At(r, "trip.assign")
  /\ trip' = IF trip[t].status = "PENDING_DRIVER"
             THEN [trip EXCEPT ![t].driver = req[r].carrier]
             ELSE trip
  /\ Return(r)
  /\ UNCHANGED <<cargo, deleted, offer, rec>>

\* The carrier becomes the driver when it is a registered driver (foreign key
\* of trips.driver_id) and the trip still waits for one; errors are ignored.
AssignCarrier(r) ==
  LET t == req[r].trip IN
  /\ At(r, "trip.assign")
  /\ trip' = IF trip[t].status = "PENDING_DRIVER" /\ req[r].carrier \in Driver
             THEN [trip EXCEPT ![t].driver = req[r].carrier]
             ELSE trip
  /\ Return(r)
  /\ UNCHANGED <<cargo, deleted, offer, rec>>

RejectOfferRead(r, o) ==
  LET c == offer[o].cargo IN
  /\ offer[o] # NoOffer
  /\ Live(c) /\ c \in DispatcherCargo
  /\ Begin(r, [Idle EXCEPT !.step = "offer.reject", !.offer = o])
  /\ UNCHANGED <<cargo, deleted, offer, rec, trip>>

\* Fault: the UPDATE forgets AND status = 'PENDING'.
RejectOfferUnguarded(r) ==
  /\ At(r, "offer.reject")
  /\ offer' = [offer EXCEPT ![req[r].offer].status = "REJECTED"]
  /\ Return(r)
  /\ UNCHANGED <<cargo, deleted, rec, trip>>

RejectOfferWrite(r) ==
  LET o == req[r].offer IN
  /\ At(r, "offer.reject")
  /\ offer' = IF offer[o].status = "PENDING"
              THEN [offer EXCEPT ![o].status = "REJECTED"]
              ELSE offer
  /\ Return(r)
  /\ UNCHANGED <<cargo, deleted, rec, trip>>

-----------------------------------------------------------------------------
(* Recommendations *)

RecommendRead(r, c, d) ==
  /\ Live(c) /\ cargo[c] \in Searching /\ c \in DispatcherCargo
  /\ Begin(r, [Idle EXCEPT !.step = "rec.upsert", !.cargo = c,
                           !.carrier = d])
  /\ UNCHANGED <<cargo, deleted, offer, rec, trip>>

\* An existing row, whatever its status, is pending again.
RecommendWrite(r) ==
  /\ At(r, "rec.upsert")
  /\ rec' = [rec EXCEPT ![<<req[r].cargo, req[r].carrier>>] = "PENDING"]
  /\ Return(r)
  /\ UNCHANGED <<cargo, deleted, offer, trip>>

DeclineRecommendation(c, d) ==
  /\ rec[<<c, d>>] = "PENDING"
  /\ rec' = [rec EXCEPT ![<<c, d>>] = "DECLINED"]
  /\ UNCHANGED <<cargo, deleted, offer, trip, req>>

AcceptRecommendation(r, c, d) ==
  /\ rec[<<c, d>>] = "PENDING"
  /\ Begin(r, [Idle EXCEPT !.step = "rec.cargo", !.cargo = c,
                           !.carrier = d, !.recommended = TRUE])
  /\ UNCHANGED <<cargo, deleted, offer, rec, trip>>

\* Fault: the recommendation is marked before the offer is made.
AcceptRecommendationMarksFirst(r) ==
  LET c == req[r].cargo IN
  /\ At(r, "rec.cargo")
  /\ IF Live(c) /\ cargo[c] \in Searching
     THEN /\ Goto(r, "offer.insert")
          /\ rec' = [rec EXCEPT ![<<c, req[r].carrier>>] = "ACCEPTED"]
     ELSE Return(r) /\ rec' = rec
  /\ UNCHANGED <<cargo, deleted, offer, trip>>

\* Searching is enough here: the company of the driver is not looked at.
AcceptRecommendationCargo(r) ==
  LET c == req[r].cargo IN
  /\ At(r, "rec.cargo")
  /\ IF Live(c) /\ cargo[c] \in Searching
     THEN Goto(r, "offer.insert")
     ELSE Return(r)
  /\ UNCHANGED <<cargo, deleted, offer, rec, trip>>

\* recRepo.Accept: its result and its error are dropped.
MarkRecommendation(r) ==
  LET p == <<req[r].cargo, req[r].carrier>> IN
  /\ At(r, "rec.accept")
  /\ \/ rec' = IF rec[p] = "PENDING" THEN [rec EXCEPT ![p] = "ACCEPTED"]
               ELSE rec
     \/ MayFail /\ rec' = rec
  /\ Goto(r, "trip.create")
  /\ UNCHANGED <<cargo, deleted, offer, trip>>

-----------------------------------------------------------------------------
(* Trips *)

\* Fault: the UPDATE forgets AND status = 'PENDING_DRIVER'.
AssignDriverAnyTime(t, d) ==
  /\ trip[t] # NoTrip
  /\ trip' = [trip EXCEPT ![t].driver = d]
  /\ UNCHANGED <<cargo, deleted, offer, rec, req>>

AssignDriver(t, d) ==
  /\ trip[t].status = "PENDING_DRIVER"
  /\ trip' = [trip EXCEPT ![t].driver = d]
  /\ UNCHANGED <<cargo, deleted, offer, rec, req>>

DriverConfirm(t, d) ==
  /\ trip[t].status = "PENDING_DRIVER" /\ trip[t].driver = d
  /\ trip' = [trip EXCEPT ![t].status = "ASSIGNED"]
  /\ UNCHANGED <<cargo, deleted, offer, rec, req>>

\* Fault: the UPDATE forgets AND status = 'PENDING_DRIVER'.
DriverRejectAnyTime(t, d) ==
  /\ trip[t].driver = d
  /\ trip' = [trip EXCEPT ![t].driver = Null]
  /\ UNCHANGED <<cargo, deleted, offer, rec, req>>

DriverReject(t, d) ==
  /\ trip[t].status = "PENDING_DRIVER" /\ trip[t].driver = d
  /\ trip' = [trip EXCEPT ![t].driver = Null]
  /\ UNCHANGED <<cargo, deleted, offer, rec, req>>

\* PatchStatus reads the trip once to compare its driver with the caller d ...
PatchStatus(r, t, d, s) ==
  /\ trip[t].driver = d
  /\ s \in PatchableTripStatus
  /\ Begin(r, [Idle EXCEPT !.step = "trip.read", !.trip = t,
                           !.cargo = trip[t].cargo, !.to = s])
  /\ UNCHANGED <<cargo, deleted, offer, rec, trip>>

\* Fault: the transition table is not consulted.
SetTripStatusUnchecked(r) ==
  /\ At(r, "trip.read")
  /\ Goto(r, "trip.write")
  /\ UNCHANGED <<cargo, deleted, offer, rec, trip>>

\* ... SetStatus reads it again to look the move up ...
SetTripStatusRead(r) ==
  /\ At(r, "trip.read")
  /\ IF <<trip[req[r].trip].status, req[r].to>> \in TripMoves
     THEN Goto(r, "trip.write")
     ELSE Return(r)
  /\ UNCHANGED <<cargo, deleted, offer, rec, trip>>

\* ... and its UPDATE repeats neither the driver nor the status.
SetTripStatusWrite(r) ==
  /\ At(r, "trip.write")
  /\ trip' = [trip EXCEPT ![req[r].trip].status = req[r].to]
  /\ CASE req[r].to = "LOADING"   -> Goto(r, "cargo.progress")
       [] req[r].to = "COMPLETED" -> Goto(r, "cargo.complete")
       [] OTHER                   -> Return(r)
  /\ UNCHANGED <<cargo, deleted, offer, rec>>

SetCargoStatusInProgress(r) ==
  LET c == req[r].cargo IN
  /\ At(r, "cargo.progress")
  /\ cargo' = IF cargo[c] = "ASSIGNED" THEN Overwritten(c, "IN_PROGRESS")
              ELSE cargo
  /\ Return(r)
  /\ UNCHANGED <<deleted, offer, rec, trip>>

SetCargoStatusCompleted(r) ==
  LET c == req[r].cargo IN
  /\ At(r, "cargo.complete")
  /\ cargo' = IF cargo[c] \in {"IN_PROGRESS", "IN_TRANSIT"}
              THEN Overwritten(c, "COMPLETED")
              ELSE cargo
  /\ Return(r)
  /\ UNCHANGED <<deleted, offer, rec, trip>>

-----------------------------------------------------------------------------
(* A crash, a cancelled request context, a deadlock or a lost connection    *)
(* ends a handler between two statements; what it has committed stays.      *)

Fail(r) ==
  /\ MayFail
  /\ req[r] # Idle
  /\ Return(r)
  /\ UNCHANGED <<cargo, deleted, offer, rec, trip>>

\* the next statement of a handler that has begun
Advance(r) ==
  \/ SetStatusWrite(r)
  \/ InsertOffer(r) \/ AcceptOwnOffer(r) \/ AcceptOfferCommit(r)
  \/ CreateTrip(r) \/ AssignCarrier(r) \/ RejectOfferWrite(r)
  \/ RecommendWrite(r) \/ AcceptRecommendationCargo(r)
  \/ MarkRecommendation(r)
  \/ SetTripStatusRead(r) \/ SetTripStatusWrite(r)
  \/ SetCargoStatusInProgress(r) \/ SetCargoStatusCompleted(r)

\* the handlers of one statement
Single ==
  \/ \E c \in Cargo : Create(c) \/ Delete(c) \/ ModerationReject(c)
  \/ \E c \in Cargo, v \in Searching : ModerationAccept(c, v)
  \/ \E c \in Cargo, d \in Driver : DeclineRecommendation(c, d)
  \/ \E t \in Trip, d \in Driver :
       AssignDriver(t, d) \/ DriverConfirm(t, d) \/ DriverReject(t, d)

Start(r) ==
  \/ \E c \in Cargo, s \in CargoStatus : SetStatusRead(r, c, s)
  \/ \E c \in Cargo, d \in Carrier : CreateOfferRead(r, c, d)
  \/ \E o \in Offer : AcceptOffer(r, o) \/ RejectOfferRead(r, o)
  \/ \E c \in Cargo, d \in Driver :
       RecommendRead(r, c, d) \/ AcceptRecommendation(r, c, d)
  \/ \E t \in Trip, d \in Driver, s \in PatchableTripStatus :
       PatchStatus(r, t, d, s)

Next ==
  \/ Single
  \/ \E r \in Request : Start(r) \/ Advance(r) \/ Fail(r)

Spec == Init /\ [][Next]_vars

\* A request that a goroutine serves is served to its end; clients are free.
FairSpec == Spec /\ \A r \in Request : WF_vars(Advance(r))
-----------------------------------------------------------------------------
(* Properties *)

\* moderation is over for the cargo: it was accepted, rejected or moved on
Decided(c) == cargo[c] \notin {"NONE", "PENDING_MODERATION"}

UnderWay == {"ASSIGNED", "LOADING", "EN_ROUTE", "UNLOADING", "COMPLETED"}

Quiet == \A r \in Request : req[r] = Idle

\* Nobody deals in cargo an administrator has not looked at: every offer and
\* every recommendation is on cargo that has left moderation, however late
\* the INSERT of the handler that saw it searching comes.
MarketAfterModeration ==
  /\ \A o \in Offer : offer[o] # NoOffer => Decided(offer[o].cargo)
  /\ \A c \in Cargo, d \in Driver : rec[<<c, d>>] # "NONE" => Decided(c)

\* A trip is created outside the transaction that accepts the offer; still it
\* exists only for an accepted offer and carries the cargo of that offer.
TripBacked ==
  \A t \in Trip : trip[t] # NoTrip =>
    /\ trip[t].offer # Null
    /\ offer[trip[t].offer].status = "ACCEPTED"
    /\ offer[trip[t].offer].cargo = trip[t].cargo

\* Goods never move without a driver: the UPDATE of SetStatus checks neither
\* status nor driver, and DriverReject clears the driver, yet no trip that was
\* confirmed or is on the road has lost its driver.
NoDriverlessHaul ==
  \A t \in Trip : trip[t].status \in UnderWay => trip[t].driver # Null

\* A recommendation is marked accepted by a statement of its own after the
\* accepting transaction: the driver it names then really holds an accepted
\* offer on that cargo.
RecommendationBacked ==
  \A c \in Cargo, d \in Driver : rec[<<c, d>>] = "ACCEPTED" =>
    \E o \in Offer : /\ offer[o].status = "ACCEPTED"
                     /\ offer[o].cargo = c /\ offer[o].carrier = d

\* An accepted offer is never taken back: neither a dispatcher's rejection
\* that has passed its reads nor the sweep of a competing acceptance undoes it.
AcceptedIsFinal ==
  [][\A o \in Offer :
       offer[o].status = "ACCEPTED" => offer'[o] = offer[o]]_vars

\* Once a trip has left PENDING_DRIVER its driver, offer and cargo are fixed
\* and it never waits for a driver again, whatever stale handlers still write.
CrewFrozen ==
  [][\A t \in Trip :
       trip[t].status \notin {"NONE", "PENDING_DRIVER"} =>
         /\ trip'[t].status \notin {"NONE", "PENDING_DRIVER"}
         /\ trip'[t].driver = trip[t].driver
         /\ trip'[t].offer = trip[t].offer
         /\ trip'[t].cargo = trip[t].cargo]_vars

\* Deleted cargo is out of every handler's reach: writes prepared before the
\* deletion no longer change its status.
DeletedIsFrozen ==
  [][\A c \in deleted : c \in deleted' /\ cargo'[c] = cargo[c]]_vars

\* Without failures an accepted offer has its trip, or a handler is about to
\* create it: the gap between the accepting transaction and the creation of
\* the trip is never left open by interleaving alone.
NoLostAward ==
  ~MayFail => \A o \in Offer : offer[o].status = "ACCEPTED" =>
    \/ \E t \in Trip : trip[t].offer = o
    \/ \E r \in Request : /\ req[r].offer = o
                          /\ req[r].step \in {"rec.accept", "trip.create"}

\* ... and the trip is created in the end.
AwardBecomesTrip ==
  \A o \in Offer :
    (offer[o].status = "ACCEPTED") ~> (\E t \in Trip : trip[t].offer = o)

\* trips.Repo.GetByOfferID: "returns trip by offer_id (unique)".
OneTripPerOffer ==
  \A t, u \in Trip :
    trip[t].offer = trip[u].offer /\ trip[t].offer # Null => t = u

\* docs/cargo-flow.md: the status moves of cargo are those of SetStatus, which
\* lets nothing follow CANCELLED.
CancelledIsFinal ==
  [][\A c \in Cargo :
       cargo[c] = "CANCELLED" => cargo'[c] = "CANCELLED"]_vars

\* docs/cargo-flow.md: a completed trip completes its cargo. At rest, cargo
\* whose trip is completed is not left assigned or in progress (cargo that was
\* deleted on the way aside).
CompletionReachesCargo ==
  Quiet => \A t \in Trip :
    trip[t].status = "COMPLETED" /\ trip[t].cargo \notin deleted =>
      cargo[trip[t].cargo] \notin {"ASSIGNED", "IN_PROGRESS"}

\* What the market promises, and the state of the tables that stands for it.
DecidedCargo == {c \in Cargo : Decided(c)}
Bids         == [o \in Offer |-> offer[o].cargo]
Won          == {o \in Offer : offer[o].status = "ACCEPTED"}

Phase(status) ==
  CASE status = "NONE"           -> "none"
    [] status = "PENDING_DRIVER" -> "open"
    [] status \in UnderWay       -> "run"
    [] status = "CANCELLED"      -> "off"

Haul(row) == [offer |-> row.offer, cargo |-> row.cargo, crew |-> row.driver,
              phase |-> Phase(row.status)]
Hauls     == [t \in Trip |-> Haul(trip[t])]

Contract == INSTANCE FreightContract WITH
  decided <- DecidedCargo, bid <- Bids, won <- Won, haul <- Hauls

\* Seen through its tables, the market is the one of FreightContract: bids on
\* decided cargo only, wins that stay, hauls for won bids with a fixed crew.
ContractSpec == Contract!Spec
=============================================================================

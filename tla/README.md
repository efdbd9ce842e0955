# Sarbon: a TLA+ model of the freight backend

Sarbon is a Go backend for road freight: dispatchers publish cargo, carriers
make offers, a dispatcher accepts one, and a driver carries the cargo. The
program is a set of HTTP handlers (`internal/server/handlers`) over
repositories (`internal/*/repo.go`) that send SQL to Postgres, over stores
(`internal/store`) that send commands to Redis, and a websocket hub
(`internal/chat`). There is no queue and no background worker: all the
concurrency is that of requests. A request reads, decides, and writes by
separate statements, mostly outside a transaction, so the question asked
everywhere here is what happens when two of them interleave or one dies midway.

1. [Inventory](#1-inventory)
2. [The modules and how they correspond to the code](#2-the-modules-and-the-code)
3. [Runs, bounds, fairness](#3-runs-bounds-fairness)
4. [Proofs](#4-proofs)
5. [What is only model-checked, what is not modelled](#5-limits)
6. [Plan](#6-plan)

Paths are relative to `src/`; `docs/cargo-flow.md` is quoted where it states
what the program should do.

## 1. Inventory

### A. Freight market (`internal/cargo`, `internal/trips`, `internal/cargorecommendations`)

State: tables `cargo`, `offers`, `cargo_recommendations`, `trips`.

| who | operation | what it changes |
|---|---|---|
| dispatcher, company | `POST /api/cargo`, `DELETE`, `PATCH /status` | a cargo row and its status |
| administrator | accept / reject in moderation | `PENDING_MODERATION` to searching or `REJECTED` |
| carrier | `POST /api/cargo/:id/offers` | a pending offer |
| owner | accept, reject an offer | offer, the competing offers, the cargo; then a trip |
| dispatcher | recommend a cargo to a driver | a recommendation |
| driver | accept, decline a recommendation | an offer that is accepted at once, the cargo, the recommendation, then a trip |
| dispatcher | assign a driver to a trip | the driver of a trip that waits for one |
| driver | confirm, refuse, report loading ... completed | the trip, and for loading and completed its cargo |

Hard: an acceptance is one transaction for offers and cargo, but the trip, its
driver and the recommendation follow as statements of their own whose errors
are dropped; checks are made on rows read before; the updates of the two
`SetStatus` functions do not repeat the status they were allowed from.
Correct means: a trip stands for an accepted offer on its own cargo, an
acceptance is not undone, nobody deals in unmoderated cargo, a moving trip has
a driver and keeps it, a deleted cargo is left alone.

### B. Auth sessions (`internal/store/refresh_store.go`, `internal/security/jwt.go`, `internal/server/mw`)

State: Redis keys `refresh:{user}:{jti}`, `session:{sid}`, `user_sessions:{user}`.
Operations: login, refresh (consume, drop the old session, issue, store the
pair and its session), logout by either token, revoke all, switch company, the
session check of the middleware. Hard: each is several Redis calls whose errors
are mostly ignored; two refreshes, or a refresh and a logout, interleave.
Correct means: a refresh token is used once, a session that was ended stays
ended, what is issued is accepted by the middleware.

### C. One-time codes and short-lived sessions (`internal/store/otp_store.go` and its siblings)

State: Redis hashes with code, attempts and expiry, under the phone of a
driver, dispatcher or company user or under the id of a ticket; rate counters
per phone and per address; cooldowns; registration sessions. Operations: send,
verify, consume a session. Hard: the counter of attempts is read, compared and
written back against expiry, a new code and other guesses; INCR and EXPIRE of
a rate counter are two commands; a session is read and deleted by two. Correct
means: a code allows a fixed number of guesses, a code that has left its record
does not come back, everything that limits a user expires.

### D. Chat (`internal/chat`, `handlers/chat.go`)

State: conversations and messages; the hub's lists of clients per user and
their send channels (256 messages); presence keys in Redis (TTL 65 s).
Operations: register, unregister, broadcasts of messages and of typing, the
read and write pumps, paging. Hard: the list of clients is a Go slice that
`SendToUser` goes through after it has given the lock back, while `Unregister`
shifts it in place; a send on a closed channel panics and the panic unwinds
through the deferred `Unregister` of whoever was sending; `created_at` is set
when a transaction begins and seen when it ends. Correct means: only the two
of a conversation are told anything, a sender that nobody disturbs reaches
each connection once, a broken connection is cleaned up, presence follows the
connections, paging misses nothing.

### E. Invitations (`driverinvitations`, `drivertodispatcherinvitations`, `dispatcherinvitations`)

State: invitation rows with a token and an expiry; the links of drivers to
companies and freelance dispatchers, the roles of dispatchers in companies.
Operations: create, cancel, accept, decline, unlink, and writing the vehicle
of a linked driver. Hard: accepting reads the token, grants, then deletes the
token by three statements. Correct means: nobody is tied to anybody without
the word of both, an invitation is carried out or closed, once.

### F. Company users and roles (`internal/companytz`, `handlers/company_tz.go`, `admin_companies.go`)

State: the company and its owner, `user_company_roles` keyed by user, company
and role, invitations to a role. Operations: create a company, change its
owner, invite, accept, change a role, remove a user. Hard: a user may hold
several roles while each check looks at any one of them; check and write are
separate. Correct means: every role was given by one who may give it, and who
was removed does not come back by a late write.

### G, H. Accounts (`handlers/registration.go`, `kyc.go`, `profile.go`, `dispatcher_*.go`, `company_user_*.go`; `drivers`, `dispatchers`, `appusers`)

State: the rows of drivers (registration step and status, KYC, vehicle, work
status), dispatchers and company users, their archives; registration sessions
and tickets for a change of phone. Operations: register behind a consumed
session, the steps of a driver's registration and his documents, change of
phone, deletion into the archive. Hard: each handler writes whole values
computed from a row it read before, over several statements. Correct means: a
phone has one account whose holder has proved it, a session makes one account,
registration only moves forward, an archived row is left alone.

### I. Cargo desk (`PUT`, `POST`, `DELETE /api/cargo`)

The part of A that changes no status: the creation limit of a dispatcher (a
COUNT, then an INSERT), and the edit of a cargo, which looks at the status
through the pool while its own transaction already holds a connection. Correct
means: the limit holds where creations do not overlap, the terms of an
assigned cargo are those it was assigned with, edits do not use up the pool.

### J. The rest

Migrations (SQL scripts run by one process at startup), the companies
directory (single INSERTs and lists), reference data and translations (read
only), Swagger UI, the GoAdmin panel (third party, configured), the Telegram
gateway (external service), configuration, logging, utilities and command-line
tools. None keeps concurrent state.

### Interactions

The handlers of A take the identity of the caller from the middleware of B; B
is entered through C (one-time codes) and G/H (registration). E and F decide
which driver or user belongs to which company, which A reads as a snapshot when
an offer is made on cargo offered to a company only. I changes the rows of A
but not their statuses. D is fed by its own handlers alone: no operation of A
sends a message. Between these groups there is no shared table that two
handlers write in a race, which is why each has a module of its own; within a
group all its handlers are in one module and interleave freely.

## 2. The modules and the code

| module | what it is |
|---|---|
| `Freight` | component A: tables, handlers, properties |
| `FreightContract` | what A promises, without handlers, statuses or stale reads |
| `MCFreight` | constants and symmetry for TLC |
| `FreightProofs` | the inductive invariant, the safety theorems, and that `Freight` implements `FreightContract` |
| `AuthSessions` | component B: token pairs, Redis keys, the handlers that store and delete them |
| `SessionContract` | what B promises to those who hold tokens |
| `MCAuthSessions` | constants and symmetry of `AuthSessions` for TLC |
| `AuthSessionsProofs` | its inductive invariant, the safety theorems, and that it implements `SessionContract` |
| `OneTimeCodes` | component C: codes, attempts, cooldown, rate counters |
| `Accounts` | components G, H and the sessions of C: registration, phone, KYC, deletion |
| `CompanyRoles`, `CompanyRolesProofs` | component F |
| `Invitations`, `InvitationsProofs` | component E |
| `CargoDesk`, `CargoDeskProofs` | component I, with the connection pool |
| `ChatHub`, `ChatHubProofs` | component D: hub, pumps, broadcasts, presence |
| `ChatMessages` | component D: messages and paging |
| `MCPeople`, `PeopleProofs` | `Accounts` with `CompanyRoles` beside it, for TLC; the theorems about `Accounts` and about both |
| `MCServices`, `ServicesProofs` | `OneTimeCodes` with `Invitations`, `CargoDesk` and `ChatMessages` beside it; the theorems about `OneTimeCodes`, `ChatMessages` and all four |
| `MCChatHub` | constants and symmetry of `ChatHub` |

All modules that model handlers are built alike. `req[r]` is a request in
flight: its `step` (or `at`) names the statement or command it runs next, the other
fields hold what it has read. One action is one SQL statement, one Redis
command or one transaction at its commit. `Begin`, `Goto` and `Return` move a handler;
`Slip` is a statement whose error the code ignores; `Fail` is an error on which the
handler returns, or its death, between any two statements. Variables called history
are read by no guard: they say what happened, so that a property can name the
exceptions the code really makes.

### Freight

**State.** `cargo`, `offer`, `rec`, `trip` are the tables: a function from ids
to statuses or rows, with `"NONE"` for an id not used yet; `deleted` is the set
of cargo whose `deleted_at` is set. Nothing in the code removes such a row.
Routes, prices and texts are left out: no status depends on them.

**Handlers.** A handler of several
statements is a `...Read` (or an action named after its route) that begins it,
then one action per statement:

    POST offers          CreateOfferRead -> InsertOffer
    POST offers/accept   AcceptOffer -> AcceptOfferCommit -> CreateTrip -> AssignCarrier
    POST offers/reject   RejectOfferRead -> RejectOfferWrite
    PATCH cargo/status   SetStatusRead -> SetStatusWrite
    POST recommend       RecommendRead -> RecommendWrite
    accept recommended   AcceptRecommendation -> AcceptRecommendationCargo -> InsertOffer
                         -> AcceptOwnOffer -> AcceptOfferCommit -> MarkRecommendation
                         -> CreateTrip -> AssignCarrier
    PATCH trips/status   PatchStatus -> SetTripStatusRead -> SetTripStatusWrite
                         -> SetCargoStatusInProgress | SetCargoStatusCompleted

Handlers that are one guarded statement (`Create`, `Delete`, the two moderation
decisions, `DeclineRecommendation`, `AssignDriver`, `DriverConfirm`,
`DriverReject`) are one action. Their guards are the early returns of the
handler and the WHERE clause; a call that fails a guard changes nothing and is
no action.

**Why these steps are atomic.** Postgres runs a single statement atomically with
respect to the rows it changes. `cargo.Repo.AcceptOffer` is a transaction at
the default READ COMMITTED: its SELECT takes no lock, so it is a step of its
own (a second acceptance may pass it); its three UPDATEs hold their row locks
until COMMIT, so other statements see all of them or none, and the step is the
commit. Two such transactions that lock rows in opposite orders deadlock;
Postgres rolls one back, which is `Fail`. The reads before the guarded UPDATE of
the moderation are merged with it, because no row returns to
`PENDING_MODERATION` and the creator of a cargo never changes.

**Failure.** `Fail(r)` ends a handler between any two statements: a crash, a
cancelled request context, a lost connection, an error the handler returns on.
Where the code ignores an error and goes on (`recRepo.Accept`,
`tripsRepo.AssignDriver`) the action allows for the statement having done
nothing. `MayFail` switches all this on.

**Constants.** `Carrier` are the ids an offer may name: `offers.carrier_id` has
no foreign key, `trips.driver_id` has, so the `AssignDriver` after an acceptance
fails for a carrier that is not in `Driver`. `Colleagues` is who works for whose
company, read by `CreateOffer` for cargo offered to a company only;
`DispatcherCargo` is the cargo created by the dispatcher who calls the handlers
that demand it. Both are fixed: links of drivers to companies belong to E.

**Contract.** `FreightContract` has four variables (decided cargo, bids, won bids,
hauls) and seven actions. `Freight` maps onto it by `DecidedCargo`, `Bids`, `Won`
and `Hauls`. It says what outlives all the races, and is candid about what does not: a
won bid may get a second haul, a cargo may have several winners, and a haul
that was called off may run again, since an UPDATE of the trip status that was
allowed before the cancellation may be written after it.

### AuthSessions

**State.** A pair of tokens is known by its `sid`, the JTI of the refresh token
and the session id of the access token; the code draws it at random, the model
numbers pairs as they are signed. `token[s]` says whose pair it is, how it came
about, which pair it replaces (`from`) and whether the client has received it
(`held`): a token no client has can not be presented. `refresh`, `session` and
`index` are the keys `refresh:user:sid`, `session:sid` and the sets
`user_sessions:user`. `ended` and `slipped` are history: the sids a request has
set out to end, and those for which an ignored Redis command failed.

**Handlers.** One action is one Redis command:

    login (VerifyOTP, LoginPassword)   Login -> Put -> PutSession -> AddToIndex -> Reply
    POST refresh                       Refresh -> InvalidateSession -> Put -> ... -> Reply
    logout by access token             LogoutAccess (KEYS) -> RevokeRefresh -> ListSessions
                                       -> RevokeSession ... -> DropIndex
    logout by refresh token            LogoutRefresh
    switch company                     SwitchCompany

`PutSession` of the code is two actions, its SET and its SADD; an error of the
SET leaves out the SADD. Signing a pair (`Issue`) is merged with the command
before it, because nothing else sees a pair that is not stored or handed over.
A command whose error the code ignores has an alternative in which it fails
(`Slip`); `Fail` ends a handler between two commands.

**Time.** Tokens are signed with fixed lifetimes, so they expire in the order of
their numbers: `accessOver` and `refreshOver` are how far expiry has come, and the
second never overtakes the first because the refresh lifetime (30 days) is
longer than that of access (15 minutes). A key is stored after its token is
signed, with the same lifetime, so it is dropped no earlier than the token expires.

**Roles.** `Role` is the kind of account. All roles refresh through one route; only drivers
and dispatchers have a logout, only dispatchers and company users a switch of
company. The registrations that end in a login are `VerifyOTP` here.

**Contract.** `SessionContract` knows neither handlers nor the index nor a pair its owner has not received yet
(`Held` hides them). A pair is given once, with the right to be exchanged (`good`: its key
`refresh:user:sid`) and the right to be let in (`open`: its key `session:sid`), as far as they could be
stored. `Grant` is the reply to a login and a switch of company, `Exchange` that of a refresh; `Present` is the DEL
by `Consume`, for a refresh or a logout; `Ask` begins a logout by access token; `Revoke` and `Close` are the DELs
it leads to, possible only for a user in `busy`, who has presented a token of his own; `Age` and
`Expire` are time. So it promises that a right is never given again, that one pair is exchanged for one
pair at most, of the same user, and that only expiry or its owner takes a right away. It
does not promise that what was asked for is taken: a Redis command may fail.

### OneTimeCodes

**State.** A key is a phone under one of the three prefixes or a ticket, its
`kind` chosen at the start. The codes sent for a key are numbered as they are made:
`rec[k].hash = n` is the hash of the n-th. A guess is right or wrong for the
code the handler has read; nothing compares codes of different keys. `count` are
the rate counters: `send` and `try` per phone, `ip` per client address, one shared by drivers and
dispatchers and one of company users. `INCR` counts one above the limit and
stays there, since all above it is refused alike. Limits and cooldown
are switched on; switched off they only remove commands.

**Handlers.** `Send` begins one of three `SendOTP` handlers: `CheckCooldown ->
CountSend [-> expire] -> CountIp [-> expire] -> Save`. `Verify` reads the record and goes
on to `CountTry [-> ExpireTries]`, then to `WriteAttempts` (a wrong code) or `Consume` (the
right one). The tickets have their own `Create` and `Verify`, without counters. The `Expire...`
actions are the TTLs of Redis, and an HSET after the expiry brings back a
record with attempts, no hash and no TTL, as Redis does.

### Accounts

A behaviour is about one kind of account; the code of the kinds differs and so do the
actions. `acct` holds the rows and what is left of them in the archive; power and
trailer stand for their rows in tables of their own, written by upserts that the
foreign key refuses once the driver has gone. `Complete` and `CompleteUser` and
`Start` read the session, look the phone up and insert by separate statements; an insert
with a phone that is taken is refused by the unique index. Driver ids are given out in an
order, which is symmetry by hand. `GeoPush`, `TransportType` and `Submit`
compute step and status from the row read at their start and write them later.
`Onboarding` names the drivers whose registration goes on after the first step.

### CompanyRoles

One company. `assigned[<<u, n>>]` is the row of user and role with who gave it.
`getCompanyRole` returns any one of a user's rows (its query has LIMIT 1 without an order)
and falls back on the owner of the company; every check takes one of them. The
actor's role, the target's role and the write are three steps. `UpdateRole` is an
UPDATE of every row of the target to one role: with two rows the key
is violated, with none no row is found, and both end the handler.

### Invitations

The four kinds of invitation share one variable, told apart by `kind`: company and
freelance invitations to a driver, the reverse from a driver to a dispatcher,
and that of a colleague to a company. A phone number stands for the one who has
it. `Take` is the read of the row by `Accept`, `Grant` the statement that links or adds a
role, `DropAccepted` the DELETE. `Carry` is one UPDATE of a driver's row, which
takes any former link with it. `CheckLink` and `WriteRig` are the two steps by which a
dispatcher writes the vehicle of a driver who works for him.

### CargoDesk

What the market does to a cargo moves it between four phases (`Assign`,
`LeaveAssigned`); route and payment are one value, `terms`, and every cargo begins
with `First`. `free` are the connections of the pool. `BeginUpdate` takes one, `Read`
needs a second one for its own step only, `CommitUpdate` gives back the first; `Fail`
is the rollback of an edit whose transaction cannot go on.

### ChatHub

**State.** `clients[u]` is the list of the hub and `cap[u]` the capacity of its
slice. `read` and `write` say where the two goroutines of a connection are, `send`
how full its channel is, `closed` which channels are closed. `loop[p]` is a
broadcast: whom it still has to tell, the list it took under the lock and
the slot it has come to.

**The shared slice.** `Unregister` runs `append(conns[:i], conns[i+1:]...)` on the
array the sender still reads. A slot of a list taken earlier may hold, when it is
read, anything that has been in it since: `Shift` adds the element that moves in,
`Register` adds one that is appended in place, and when `append` outgrows the
capacity the sender's array is no longer the hub's (`live` becomes false). That is
a data race, and reading any of those values is what the build can do. So a sender may skip
a connection, serve one twice, or send on a channel that has been closed, which
panics (`Panic`).

**Panics.** A handler's panic is recovered by the framework; one in a `ReadPump`
runs its deferred `Unregister`, `Close` and leaves the goroutine: `BroadcastTyping`
is called from it, so the connection of who types is dropped.

`Restart` empties hub and connections and leaves the presence keys.

### ChatMessages

One conversation. `CreateMessage` begins a transaction, where `created_at` is fixed,
and `Commit` makes the row visible. A client that begins with the newest page
and follows "cursor = message id for next page" gets `PageLimit` messages a page, older than the
one it names. Bodies are left out; an edit is a flag.

## 3. Runs, bounds, fairness

| run | expects | shows |
|---|---|---|
| `freight_trade` | pass | with two offers, two handlers and failures: types, `MarketAfterModeration`, `TripBacked`, `RecommendationBacked`, `AcceptedIsFinal` |
| `freight_crew` | pass | with two drivers on one trip: `NoDriverlessHaul`, `CrewFrozen`, `DeletedIsFrozen`, and the refinement `ContractSpec` |
| `freight_live` | pass | without failures: `NoLostAward`, and under fairness `AwardBecomesTrip` |
| `freight_double_accept` | violation | `OneTripPerOffer`: two acceptances of one offer make two trips |
| `freight_cancelled` | violation | `CancelledIsFinal`: a cancelled cargo is assigned by accepting an old offer |
| `freight_late_sync` | violation | `CompletionReachesCargo`: the cargo update of LOADING overtaken by that of COMPLETED |
| `auth_sessions` | pass | one user of each role in turn, up to three pairs, two handlers, one failure: types, `RefreshOnce`, `RotationEndsOld`, `UntouchedIsAccepted`, `LogoutEndsRefresh`, and the refinement `SessionSpec` |
| `auth_switch` | violation | `SwitchedIsAccepted`: the token a switch of company returns is rejected |
| `people` | pass | registration, phones, onboarding and deletion: types, `PhoneOwned`, `SessionRegistersOnce`, `ApprovedIsFull`, `RegistrationWhole`, `StatusKept`, `ArchivedIsFrozen`; roles of a company: `RolesGranted` |
| `services` | pass | codes: types, `SpentStaysSpent`, `GuessesCounted`, `CountersExpire`; invitations: `Consent`, `InvitationOnce`; cargo desk: `LimitKept`, `TermsKept`, `PoolDrains`; messages: `PagesComplete` |
| `chat_hub` | pass | two connections of one user and one of another, one broadcast at a time: types, `OnlyParticipants`, `SendUndisturbed`, `PresenceFollowsHub` |
| `chat_live` | pass | one connection each, two broadcasts at a time, under fairness: `BrokenIsReaped` |

The violations are disagreements between the code and its own documents:
`internal/trips/repo.go:57` calls a trip unique for its offer; `docs/cargo-flow.md`
says that cargo moves as `SetStatus` lists (nothing follows `CANCELLED`) and that a
completed trip completes its cargo;
`docs/FREELANCE_DISPATCHER_API_REPORT.md` says that requests after a switch of
company may use the new access token.

**Bounds.** The sizes of `Cargo`, `Offer`, `Trip`, `Carrier` bound how many rows
are ever made, `Request` how many handlers are in flight at once. Ids are
never reused, so runs end with everything used up; that is why deadlock is
not checked. Two handlers are what every race of the code needs: one that has
read and one that changes what it read; two offers on one cargo give an
acceptance something to sweep, two drivers give a trip something to lose. Cargo
is only related to its own rows (no statement touches two cargo), so one is
enough for TLC; the theorems hold for any number. The run with failures on two
offers has one trip, because trips of different offers share only the cargo
status, which they write through `ASSIGNED`/`IN_PROGRESS` guards covered by
`freight_late_sync` and, for any number of trips, by the proofs. Offers, trips and
requests are interchangeable, so the safety runs use symmetry; the
liveness run does not.

`auth_sessions` follows one user at a time (the constraint `OneUser`): no key or
handler concerns two, which is the theorem `OwnPairs`, for any
number of users. Each of the four roles has its turn, since their logouts and switches
differ; the dispatcher, who has both, gets three pairs, the others two; where something has failed the
third is not one more login. Three pairs are a login
and two refreshes in a row, or two devices of which one refreshes while the other logs out; two
handlers let either run between any two commands of the other; one failure at
any command shows what it can do by itself. Runs end when all pairs are issued
and expired.

`people` and `services` explore modules side by side: `area` is chosen at the start and says which of
them moves, so that the states of the modules add up and do not multiply. The modules
share no table, which is what makes that sound. In `people`, two accounts and two
phones let registrations and changes of phone compete, one session and one ticket
are what two handlers can hold at once, and the steps after registration are
explored for one of the two accounts (`Onboarding`), which meets the other only over its
phone. Two users and the roles Owner and CEO give a role that may be given and
one that may not; the rows of `CanInvite` for TopManager and TopDispatcher are left to the
theorems, which hold for any set of role names. In `services`, one key has two codes (one replaces the
other), two attempts, one send and two tries before the limits: each limit is met
and passed. Keys do not meet except in the counter of the address, for which
the theorems speak. One driver between two dispatchers and a company is what every rule about
links needs; the dispatchers own or join the company. Two cargo with a limit of one,
and two connections for two edits, are the least that can be exceeded and
exhausted. Three messages with two on a page make a page boundary inside a conversation that
is being written to; two instants let messages have the same `created_at`.

In `chat_hub` two connections of one user make a slice that shifts and grows from
capacity 1 to 2, and the third belongs to the other one; the buffer of a connection is 1 instead of 256, so
that it is full; one broadcast at a time is enough because a broadcast disturbs no other, and
the theorems hold for any number. `chat_live` has two broadcasts, to
let a dying connection be in one of its own while the other sends to it. Symmetry is used where the values are
interchangeable and never under fairness.

**Fairness.** `FairSpec` assumes weak fairness of `Advance(r)` for each request:
a goroutine that serves a request is scheduled and its statements return. Nothing is
assumed of clients: no acceptance, report or decision ever has to be made.
Failures are off in that run: a handler that dies between the accepting
transaction and the creation of the trip leaves an accepted offer without a trip for
good, and the code has nothing that would repair it.

The specification of `ChatHub` has its fairness in it: weak fairness of each
`ReadPump` (its read deadline of 60 s makes a read on a broken socket return), of a
`WritePump` on a broken socket (a write or a ping fails there), and of each broadcast
under way (it never blocks: the send has a default branch). Nothing is assumed of clients.
`BrokenIsReaped` is a liveness property because of what could go wrong: a goroutine that waits on a full
channel, or a panic that leaves a connection in the hub.

No liveness is stated for the other modules: a handler that dies there leaves something that a
later request repairs (a new login, a new code, a new attempt), or that nothing does, which the
code accepts.

**Mutants.** For each property of a passing run, the module holds a faulty
variant of one definition (marked `Fault:`), the kind of slip a change of
that code could bring (a WHERE clause without its status, a check left out, an order
swapped); with it in place the run finds the property violated.

## 4. Proofs

Eight modules hold proofs; every theorem is for all values of the constants, so for any
number of rows, users and handlers and any number of failures. They follow one pattern: the property
is not inductive, because it does not say what handlers in flight know; the
invariant adds that, one part per kind of row and one per handler step, and uses
only facts that no other action can undo. A frame lemma carries what does not
move across the steps of others, one lemma per action does the rest, and an `...Next` lemma
joins them.

### Freight

The theorems are for arbitrary sets of ids, carriers and handlers under
`FreightAssumption`: drivers are carriers, `Null` is no id, the two relations
are over the ids.

The invariant of a handler-over-tables program has to say what a handler *knows*
while it holds values that may be stale. It has three parts:

- `TypeOK`;
- `OfferInv`, `RecInv`, `TripInv`, for each row of the tables: they imply
  `MarketAfterModeration`, `TripBacked` and `NoDriverlessHaul` and hold the facts
  those need (a used offer names a cargo and a carrier, a trip that is not
  used has no driver, and so on);
- `HandlerInv`: for each step, what still holds of what was read. It may
  use only facts that no other action can undo: cargo once decided stays decided,
  an offer's cargo and carrier are never changed, an accepted offer stays
  accepted, a trip that left `PENDING_DRIVER` with a driver keeps it.

Those facts are the lemma `Persist`; each action is shown to keep them, and with
them a handler that is not taking the step keeps its part of the
invariant whatever the others do. So the proof is per action and per handler: a group of
lemmas shows that single statements, the start of a handler, its next step
and its failure keep the invariant, and `Invariance` puts them together.

| theorem | states |
|---|---|
| `Invariance` | the invariant holds in every reachable state |
| `TypeCorrect` | `TypeOK` |
| `Moderated` | `MarketAfterModeration` |
| `Backed` | `TripBacked` |
| `Crewed` | `NoDriverlessHaul` |
| `Final` | `AcceptedIsFinal` |
| `Frozen` | `CrewFrozen` |
| `Deleted` | `DeletedIsFrozen` |
| `Recommended` | `RecommendationBacked` |
| `Awarded` | `NoLostAward` |
| `Refinement` | `ContractSpec`: every step of `Freight` is a step of `FreightContract` or a stutter |

`Recommended` and `Awarded` have an induction of their own over `Invariance`. `Persist` keeps an accepted
offer accepted, so what backs a recommendation stays (`RecNext`); and without failures a handler that has
accepted an offer carries it (`Carrying`) from `rec.accept` to `trip.create`, where the trip is made
(`CarryingNext`, `AwardNext`).

`Refinement` goes action by action: `BidStep`, `WinStep`, `RejectStep`, `OpenStep`,
`CrewStep`, `PhaseStep` show which abstract step each statement is, using the
invariant where the statement's own guard is too weak (an UPDATE of the trip
status without a guard is a `Run` only because the invariant gives it a driver).

### AuthSessions

The theorems are for arbitrary users, roles, handlers and bounds under
`AuthAssumption`. `TypeOK` is not inductive by itself: that a command writes a sid
at all depends on the handler having one. The invariant `Inv` adds

- `TokenInv`, for each pair: it has a key and a session unless it was ended, has
  expired or a command for it failed; what it replaces was held, has no key
  left and no session;
- `RefreshOnce`;
- `HandlerInv`, for each handler: the pair it stores is not with the client yet and has
  what the commands so far have stored; the pair it replaces has no key and
  is not replaced by another; what it deletes was set out to be ended;
- `Apart`: no two handlers store the same pair or replace the same pair. That is
  where the atomic DEL of `Consume` enters.

`Kept` is what every step, of whatever handler, leaves true: rows keep their
origin, and the keys of a pair the client holds are only ever deleted, for cause.
The lemmas `TokenFrame` and `HandlerFrame` carry pairs and handlers across the steps
of others by it; a lemma for each action does the rest, and `InvNext` joins them.

| theorem | states |
|---|---|
| `Invariance` | the invariant holds in every reachable state |
| `TypeCorrect` | `TypeOK` |
| `Once` | `RefreshOnce` |
| `Rotated` | `RotationEndsOld` |
| `Untouched` | `UntouchedIsAccepted` |
| `Unrevived` | `NoRevival`: what the client holds is never stored again |
| `LoggedOut` | `LogoutEndsRefresh` |
| `OwnPairs` | `OwnInv`: what a handler issues, replaces, lists and deletes, and the index it reads, is of the user it works for |
| `Refinement` | `SessionSpec`: every step of `AuthSessions` is a step of `SessionContract` or a stutter |

`Refinement` needs two invariants: `Inv`, for what is hidden (a key is only ever stored for a pair that is not
`Held`, so storing it is a stutter), and `OwnInv`, for whose rights go: a DEL of `RevokeAll` is a `Revoke` or a
`Close` only if every sid that KEYS or SMEMBERS returned is of the user who asked. `OwnInv` is an induction of its own
over `Kept` (pairs keep their user): `OwnStep` for steps that sign no pair, `OwnIssue` for those that do.
`NoRevival` is what the contract says of held pairs, which is why the run checks the contract in its place.

### OneTimeCodes (in `ServicesProofs`)

Under `CodeAssumption`. `Inv` adds to the types:

- `KeyInv`: the code in a record was made for its key, has not left it before, and its
  record expires;
- `HandlerInv`: a code that is about to be stored has not been in the record yet, and what a
  verification has read is below the limit. A late HSET writes attempts only, which is why a stale verification cannot bring a code back;
- `Apart`: two senders hold different codes;
- `GuessInv`, for keys outside the exceptions: one guess is in flight at a time, and
  the wrong ones are counted in the record or by the handler about to write it.

`CountersExpire` has an induction of its own (`Expires`, per counter), because it is about
behaviours without failure.

| theorem | states |
|---|---|
| `Invariant` | the invariant holds in every reachable state |
| `TypeCorrect` | `TypeOK` |
| `Spent` | `SpentStaysSpent` |
| `Counted` | `GuessesCounted` |
| `Expiring` | `CountersExpire` |

### Accounts (in `PeopleProofs`)

Under `AccountAssumption`. One invariant for each concern, each inductive over
`Types` (the type invariant and what a handler has at each of its points); the frame lemmas
`RegisterFrame`, `ChangeFrame`, `OnboardFrame` and `FailFrame` say once what a group of actions leaves alone:

- `PhoneInv`: phones of rows are answered and apart, and so is every phone a handler or a session is going to
  write;
- `StatusInv`, for drivers outside `raced`: one handler at most is about to write the status, and
  what it writes is no less than what is there;
- `SessionInv`, for sessions outside `shared`: one handler uses a session, it is deleted once the
  handler has passed `ConsumeSession`, and a session that has made an account is used by nobody;
- `WholeInv`, without failures: a driver past a step has what the step stands for or a handler
  is about to write it, and that handler's earlier upserts have taken effect or the driver is gone.

| theorem | states |
|---|---|
| `TypesHold`, `TypeCorrect` | `Types`, `TypeOK` |
| `PhonesHold`, `Owned`, `Frozen` | `PhoneInv`, `PhoneOwned`, `ArchivedIsFrozen` |
| `StatusHolds`, `ApprovedFull`, `Kept` | `StatusInv`, `ApprovedIsFull`, `StatusKept` |
| `RegistersOnce` | `SessionRegistersOnce` |
| `Steady` | `RegistrationWhole` |

### ChatHub

Under `HubAssumption`. `Inv` has, beside the types:

- `HubInv`: the hub holds exactly the connections whose `ReadPump` has not left it, each one once, and
  only a connection whose `ReadPump` has ended has its channel closed;
- `LoopInv`: what each broadcast sends and to whom; every slot, however shifted, holds connections of the
  user the list was taken for;
- `ListInv`: as long as no connection of that user has left, a list is still the beginning of
  the hub's.

Presence is an induction on top of that.

| theorem | states |
|---|---|
| `Invariance` | the invariant holds in every reachable state |
| `TypeCorrect` | `TypeOK` |
| `Private` | `OnlyParticipants` |
| `Unshaken` | `SendUndisturbed` |
| `PresenceHolds` | `PresenceFollowsHub` |

### Invitations

Under `InvitationAssumption`. `Consent` speaks of rows; what could break it is a handler that has read a
row and writes later, when the link, the company or the row itself may have gone. `Inv` says on what the
later write rests, in words nobody can take back, because `agreed` only grows:

- `Asked`: an invitation stands for the word of who made it, and its ends are those of its kind;
- `Carried`: a handler about to grant holds a row of which its actor is the addressee, and both have
  agreed; one about to write a vehicle is the driver himself or one he agreed to; one about to make itself owner owns the company.

`InvitationOnce` has an induction over that, `OnceInv`: for an invitation outside `shared` at most one
handler holds its token, it holds it from the grant to the DELETE, and an invitation that was granted or closed is
either in that handler's hands or gone (`TakeOnce`, `OneAnswer`, `NoAnswer`).

| theorem | states |
|---|---|
| `Invariance` | the invariant holds in every reachable state |
| `TypeCorrect` | `TypeOK` |
| `Agreed` | `Consent` |
| `Once` | `InvitationOnce` |

### ChatMessages (in `ServicesProofs`)

Under `MessagesAssumption`. `MessagesInv` relates what a reader was given to what there was when he began: whatever
is stored, was there and is not listed is still `Ahead` of his cursor, or shares its time with the end of a page
(`Passed`); once he is done nothing is ahead. Writers keep it because a committed message keeps its time and does
not come back once deleted (`Kept`, `WriteStep`), a page because it takes the newest of what is
ahead (`PageFacts`, `ListStep`). That nothing is listed twice is a matter of counting: a page is disjoint from what was
listed, so the cardinalities add up. Theorems `MessagesHold` (the invariant) and `Complete` (`PagesComplete`).

### CargoDesk and CompanyRoles

`CargoDeskProofs`: `PoolInv` (connections held and free add up to `Conns`), `LimitInv` (for a
dispatcher outside `overlapped`, one creation at a time, and it has room), `TermsInv` (for an assigned
cargo outside `overtaken`, nobody is about to write its terms). Theorems `Invariance`,
`TypeCorrect`, `Limited` (`LimitKept`), `Settled` (`TermsKept`), `Drains` (`PoolDrains`).

`CompanyRolesProofs`: `Allowed` (what a handler was let to do rests on a role its actor held),
`Offered` and `Given` (and so do an invitation and a row), `Unfounded` (before the company is made nobody has anything to do with it, which is
where the owner's first row gets its ground). The history `held` only grows, so what was once granted stays granted. Theorems
`Invariance`, `TypeCorrect`, `Granted` (`RoleGranted`), `StaysOut` (`RemovedStaysOut`).

### Side by side

`Invitations`, `CargoDesk`, `ChatMessages` and `CompanyRoles` are only instantiated by the modules TLC runs, so
their assumption is a hypothesis of each theorem (`DeskAssumption /\ Spec => ...`), and `MCServices` and `MCPeople`
assume it of their constants. Those modules instantiate the modules with the proofs, so the theorems can be cited of the instances.
What TLC checks is then proved of the very specification it runs: a step of `ServiceSpec` moves one
component and leaves the variables of the others alone, so `ServiceSpec` implies the specification of each
(`CodesApart`, `InvitationsApart`, `DeskApart`, `MessagesApart`; `AccountsApart` and `RolesApart` for
`PeopleSpec`), and with it what was proved of each.

| theorem | states |
|---|---|
| `CodesServed` | `SpentStaysSpent`, `GuessesCounted`, `CountersExpire` of `ServiceSpec` |
| `ConsentServed`, `AnsweredOnce` | `Consent`, `InvitationOnce` |
| `LimitServed`, `TermsServed`, `PoolServed` | `LimitKept`, `TermsKept`, `PoolDrains` |
| `PagesServed` | `PagesComplete` |
| `AccountsServed` | the invariants of `Accounts`, of `PeopleSpec` |
| `RolesServed` | `RolesGranted` |

## 5. Limits

Every invariant, every action property and both refinements that the runs check are also proved. Only model-checked:
`AwardBecomesTrip` and `BrokenIsReaped`, since liveness under fairness is out of the prover's reach, and the four
violations.

**Exceptions in properties.** Several properties name what the code does not prevent: guesses that
overlap (`uncounted`), sessions two handlers have read (`shared`), drivers with two handlers at
once (`raced`), creations that overlap (`overlapped`), an edit overtaken by an assignment
(`overtaken`), a connection that leaves while a sender walks its list (`left`). Those are the
real races; the properties say that they are the only way to go wrong.

**Abstractions.** Passwords, photos, names, push tokens, texts of routes and messages are data that no
guard reads. Redis and Postgres are taken at their word: a command is atomic, a key with a TTL goes at some
time, a unique index refuses. In `CargoDesk` a statement outside a transaction takes its connection for its own
step only. `ChatHub` leaves the time of pongs and pings to `Lose` and `ReadEnds`. Logins are inputs of
`AuthSessions`; the outcome of a verification is an input of `Accounts`.

**Not modelled.** Migrations: SQL scripts run once by one process; whether a rerun is harmless
is decided by the SQL. Companies directory, reference data, translations, Swagger UI: single
statements or read only. GoAdmin: configuration of a third-party table editor. Telegram: an HTTP call
whose outcome is an input of the handlers. Configuration, logging, utilities,
command-line tools: no concurrent state. In G and H: the driver's photo, heartbeat and push token, names and passwords of dispatchers,
single UPDATEs that no other operation depends on. Lists and searches throughout.

### Hazards without a property

- Cargo that is IN_PROGRESS or COMPLETED may be edited: the block in `internal/cargo/repo.go:380` names
  statuses nothing sets. `TermsKept` speaks of the assigned phase; the model makes the later edits.
- A logout leaves access sessions alive when no refresh token is left
  (`internal/store/refresh_store.go:54`), and one by refresh token ends that token only; a session added between SMEMBERS and DEL (`:69`) drops out of the index. `AuthSessions` has all three; no
  document says what should hold.
- Two verifications of the right code at once both succeed, and what `Verify` deletes may be a newer
  code (`internal/store/otp_store.go:169`). `OneTimeCodes` has both.
- `AcceptInvitation` (`handlers/company_tz.go:304`) deletes the invitation and answers that it was accepted even
  when adding the role has failed.
- `EnsureDriversTable` (`internal/infra/schema.go:74`), run at every start, adds columns to `drivers` that
  migration 35 had moved out of it and out of the archive, so that `INSERT INTO deleted_drivers SELECT *`
  (`internal/drivers/repo.go:330`) no longer fits. In `Accounts` a deletion may be refused, which is
  the effect.

### Read on the way

- `ListDispatchersByCompany`, `ListForDispatcher` and `ListForUser` pass more arguments than their
  queries have parameters.
- `UpdateUserRole` checks the new role only, not the one its target has.
- `Presence.Heartbeat` is never called, so a user who stays connected for longer than the TTL goes
  offline (`ExpirePresence`). `SetOffline` calls Redis while the hub is locked.
- `hub.go:167` speaks of all connections of a user: one that leaves during a send can make the send skip
  another, serve it twice, or panic.
- A refresh issues a pair without the company of the pair it replaces.
- `internal/cargo/repo.go:368` says an error is returned for a cargo that is not found; the
  function returns nil. An edit, a deletion and a PATCH of the status do not ask whose cargo it is.
- Two messages with the same `created_at` on both sides of a page boundary: the second is never listed. Edits and
  deletions of messages are not broadcast.

## 6. Plan

Done: every component with concurrent state is modelled, and every safety property the runs check is
proved; `Freight` and `AuthSessions` implement abstract specifications. Next:

1. An abstract specification of `OneTimeCodes` (a code is sent, guessed at, and gone for good) in the manner of
   `SessionContract`, and its refinement.
2. Composition of `OneTimeCodes` with `Accounts`, so that `answered` is what a verification leaves and
   no input.

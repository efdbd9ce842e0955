------------------------------ MODULE Accounts ------------------------------
(***************************************************************************)
(* Accounts of drivers, dispatchers and company users: registration by a   *)
(* short-lived session, the steps of a driver's registration, the change   *)
(* of phone and the deletion (handlers/registration, kyc, profile,         *)
(* dispatcher_registration, dispatcher_profile, company_user_registration; *)
(* drivers, dispatchers, appusers repositories; session stores).           *)
(*                                                                         *)
(* Every SQL statement or Redis command is one step; nothing but a         *)
(* deletion is a transaction. A handler decides on the row it has read and *)
(* writes whole values, so what it writes may be out of date.              *)
(* The three kinds of account live in tables and under prefixes of their   *)
(* own: a behaviour is about one of them.                                  *)
(***************************************************************************)
EXTENDS Naturals

CONSTANTS
  Id,        \* primary keys, in the order they are given out by the database
  Phone,
  Session,   \* registration sessions (uuids)
  Ticket,    \* phone change sessions (uuids), each with its code
  Request,   \* handlers that can be in flight at the same time
  Onboarding, \* bound: the drivers whose steps and vehicles are explored
  MaxFaults, \* bound: crashes and failing Redis commands in one behaviour
  Null

ASSUME AccountAssumption ==
  /\ Onboarding \subseteq Id /\ MaxFaults \in Nat
  /\ Null \notin Id \cup Phone \cup Session \cup Ticket

VARIABLES
  kind,     \* whose accounts this behaviour is about
  acct,     \* the rows, and what is left of them in the archive
  session,  \* the phone under a registration session
  ticket,   \* the account and the new phone under a phone change session
  req,      \* handlers in flight
  answered, \* history: phones whose holder has entered the code sent there
  born,     \* history: the session an account was registered with
  shared,   \* history: sessions that several handlers can hold
  raced,    \* history: drivers two of whose handlers read before either wrote
  faults

history == <<answered, born, shared, raced>>
vars == <<kind, acct, session, ticket, req, history, faults>>

-----------------------------------------------------------------------------
Kind   == {"driver", "dispatcher", "user"}
Life   == {"none", "alive", "archived"}
Steps  == {"name-oferta", "geo-push", "transport-type", "completed"}
Status == <<"start", "basic", "full">>
Rank(s) == CHOOSE i \in 1 .. 3 : Status[i] = s

\* power and trailer are rows of their own; work and active stand for a
\* work_status and an account_status that are not NULL.
Row ==
  [life: Life, phone: Phone \cup {Null}, step: Steps,
   status: {Status[i] : i \in 1 .. 3}, kyc: {"none", "pending", "approved"},
   power: BOOLEAN, trailer: BOOLEAN, work: BOOLEAN, active: BOOLEAN]

NoRow ==
  [life |-> "none", phone |-> Null, step |-> "name-oferta",
   status |-> "start", kyc |-> "none",
   power |-> FALSE, trailer |-> FALSE, work |-> FALSE, active |-> FALSE]

Point ==
  {"idle", "verified", "session", "consume", "find", "insert",
   "ask", "spend", "change",
   "geo.row", "transport.row", "transport.power", "transport.trailer",
   "kyc.row", "kyc.power", "kyc.trailer", "kyc.defaults"}

\* id, phone, session, ticket: what the handler is about; step, status, full: the
\* values it is going to write.
Handler ==
  [at: Point, id: Id \cup {Null}, phone: Phone \cup {Null},
   session: Session \cup {Null}, ticket: Ticket \cup {Null}, step: Steps,
   status: {Status[i] : i \in 1 .. 3}, full: BOOLEAN]
Idle ==
  [at |-> "idle", id |-> Null, phone |-> Null, session |-> Null,
   ticket |-> Null, step |-> "name-oferta", status |-> "start",
   full |-> FALSE]

Begin(r, h) == req[r] = Idle /\ req' = [req EXCEPT ![r] = h]
At(r, p)    == req[r].at = p
Goto(r, p)  == req' = [req EXCEPT ![r].at = p]
Return(r)   == req' = [req EXCEPT ![r] = Idle]

Alive(a) == acct[a].life = "alive"
Holder(p) == {a \in Id : Alive(a) /\ acct[a].phone = p}
Slip == faults < MaxFaults /\ faults' = faults + 1

\* UPDATE ... WHERE id = a changes no row when there is none.
Update(a, new) == acct' = IF Alive(a) THEN [acct EXCEPT ![a] = new] ELSE acct

TypeOK ==
  /\ kind \in Kind
  /\ acct \in [Id -> Row]
  /\ session \in [Session -> [made: BOOLEAN, phone: Phone \cup {Null}]]
  /\ ticket \in [Ticket -> [made: BOOLEAN, id: Id \cup {Null},
                           phone: Phone \cup {Null}]]
  /\ req \in [Request -> Handler]
  /\ answered \subseteq Phone
  /\ born \in [Id -> Session \cup {Null}]
  /\ shared \subseteq Session /\ raced \subseteq Id
  /\ faults \in 0 .. MaxFaults

Init ==
  /\ kind \in Kind
  /\ acct = [a \in Id |-> NoRow]
  /\ session = [s \in Session |-> [made |-> FALSE, phone |-> Null]]
  /\ ticket = [t \in Ticket |->
                 [made |-> FALSE, id |-> Null, phone |-> Null]]
  /\ req = [r \in Request |-> Idle]
  /\ answered = {} /\ born = [a \in Id |-> Null]
  /\ shared = {} /\ raced = {}
  /\ faults = 0

-----------------------------------------------------------------------------
(* Registration *)

\* The code of phone p has been accepted (OneTimeCodes): VerifyOTP goes on.
Verified(r, p) ==
  /\ Begin(r, [Idle EXCEPT !.at = "verified", !.phone = p])
  /\ answered' = answered \cup {p}
  /\ UNCHANGED <<kind, acct, session, ticket, born, shared, raced, faults>>

\* A phone that has an account logs in, any other may register.
FindVerified(r) ==
  /\ At(r, "verified")
  /\ IF Holder(req[r].phone) # {} THEN Return(r) ELSE Goto(r, "session")
  /\ UNCHANGED <<kind, acct, session, ticket, history, faults>>

CreateSession(r, s) ==
  /\ At(r, "session")
  /\ ~session[s].made
  /\ session' = [session EXCEPT ![s] = [made |-> TRUE, phone |-> req[r].phone]]
  /\ Return(r)
  /\ UNCHANGED <<kind, acct, ticket, history, faults>>

ExpireSession(s) ==
  /\ session[s].phone # Null
  /\ session' = [session EXCEPT ![s].phone = Null]
  /\ UNCHANGED <<kind, acct, ticket, req, history, faults>>

\* GET of the session. Whoever reads it before its DEL can register with it
\* as well.
ReadSession(r, s) ==
  /\ session[s].phone # Null
  /\ Begin(r, [Idle EXCEPT !.at = "consume", !.session = s,
                           !.phone = session[s].phone])
  /\ shared' = IF \E q \in Request : At(q, "consume") /\ req[q].session = s
               THEN shared \cup {s} ELSE shared
  /\ UNCHANGED <<kind, acct, session, ticket, answered, born, raced, faults>>

Start(r, s)        == kind = "driver" /\ ReadSession(r, s)
Complete(r, s)     == kind = "dispatcher" /\ ReadSession(r, s)
CompleteUser(r, s) == kind = "user" /\ ReadSession(r, s)

\* Fault: the session is kept for a dispatcher to correct the form.
ConsumeLate(r) ==
  LET s == req[r].session IN
  /\ At(r, "consume")
  /\ session' = IF kind = "dispatcher" THEN session
                ELSE [session EXCEPT ![s].phone = Null]
  /\ Goto(r, IF kind = "user" THEN "insert" ELSE "find")
  /\ UNCHANGED <<kind, acct, ticket, history, faults>>

\* DEL, its error ignored. The rest of a company user's form is checked only
\* now, and an error leaves neither session nor account.
ConsumeSession(r) ==
  LET s == req[r].session IN
  /\ At(r, "consume")
  /\ \/ /\ session' = [session EXCEPT ![s].phone = Null]
        /\ UNCHANGED <<shared, faults>>
     \/ UNCHANGED session /\ Slip /\ shared' = shared \cup {s}
  /\ \/ Goto(r, IF kind = "user" THEN "insert" ELSE "find")
     \/ kind = "user" /\ Return(r)
  /\ UNCHANGED <<kind, acct, ticket, answered, born, raced>>

\* An account that exists by now is logged in to. The rest of a dispatcher's
\* form is checked after that.
FindExisting(r) ==
  /\ At(r, "find")
  /\ \/ Holder(req[r].phone) = {} /\ Goto(r, "insert")
     \/ Holder(req[r].phone) # {} /\ Return(r)
     \/ kind = "dispatcher" /\ Return(r)
  /\ UNCHANGED <<kind, acct, session, ticket, history, faults>>

\* Fault: no UNIQUE on the phone
InsertAnyway(r) ==
  /\ At(r, "insert")
  /\ \E a \in Id :
       /\ acct[a] = NoRow
       /\ acct' = [acct EXCEPT ![a] =
            [NoRow EXCEPT !.life = "alive", !.phone = req[r].phone]]
       /\ born' = [born EXCEPT ![a] = req[r].session]
  /\ Return(r)
  /\ UNCHANGED <<kind, session, ticket, answered, shared, raced, faults>>

\* INSERT under a new key; phone is UNIQUE.
Insert(r) ==
  LET p == req[r].phone IN
  /\ At(r, "insert")
  /\ \/ /\ Holder(p) = {}
        /\ \E a \in Id :
             /\ acct[a] = NoRow
             /\ acct' = [acct EXCEPT ![a] =
                  [NoRow EXCEPT !.life = "alive", !.phone = p]]
             /\ born' = [born EXCEPT ![a] = req[r].session]
     \/ Holder(p) # {} /\ UNCHANGED <<acct, born>>
  /\ Return(r)
  /\ UNCHANGED <<kind, session, ticket, answered, shared, raced, faults>>

CreateStart(r)      == kind = "driver" /\ Insert(r)
CreateDispatcher(r) == kind = "dispatcher" /\ Insert(r)
CreateUser(r)       == kind = "user" /\ Insert(r)

-----------------------------------------------------------------------------
(* Change of phone, and deletion. The token of the caller may outlive the   *)
(* account.                                                                 *)

AskPhone(r, a, p) ==
  /\ acct[a] # NoRow
  /\ Holder(p) = {}
  /\ Begin(r, [Idle EXCEPT !.at = "ask", !.id = a, !.phone = p])
  /\ UNCHANGED <<kind, acct, session, ticket, history, faults>>

PhoneChangeRequest(r, a, p) == kind = "driver" /\ AskPhone(r, a, p)
DispatcherPhoneChangeRequest(r, a, p) ==
  kind = "dispatcher" /\ AskPhone(r, a, p)

\* The code goes to the new phone.
CreateTicket(r, t) ==
  /\ At(r, "ask")
  /\ ~ticket[t].made
  /\ ticket' = [ticket EXCEPT ![t] =
       [made |-> TRUE, id |-> req[r].id, phone |-> req[r].phone]]
  /\ Return(r)
  /\ UNCHANGED <<kind, acct, session, history, faults>>

ExpireTicket(t) ==
  /\ ticket[t].id # Null
  /\ ticket' = [ticket EXCEPT ![t].id = Null, ![t].phone = Null]
  /\ UNCHANGED <<kind, acct, session, req, history, faults>>

\* The right code: whoever brings it, the change is made for the account
\* that asked.
TakeTicket(r, t) ==
  /\ ticket[t].id # Null
  /\ Begin(r, [Idle EXCEPT !.at = "spend", !.ticket = t, !.id = ticket[t].id,
                           !.phone = ticket[t].phone])
  /\ answered' = answered \cup {ticket[t].phone}
  /\ UNCHANGED <<kind, acct, session, ticket, born, shared, raced, faults>>

PhoneChangeVerify(r, t)           == kind = "driver" /\ TakeTicket(r, t)
DispatcherPhoneChangeVerify(r, t) == kind = "dispatcher" /\ TakeTicket(r, t)

SpendTicket(r) ==
  LET t == req[r].ticket IN
  /\ At(r, "spend")
  /\ \/ /\ ticket' = [ticket EXCEPT ![t].id = Null, ![t].phone = Null]
        /\ UNCHANGED faults
     \/ UNCHANGED ticket /\ Slip
  /\ Goto(r, "change")
  /\ UNCHANGED <<kind, acct, session, history>>

UpdatePhone(r) ==
  LET a == req[r].id  p == req[r].phone IN
  /\ At(r, "change")
  /\ IF Holder(p) \subseteq {a} THEN Update(a, [acct[a] EXCEPT !.phone = p])
     ELSE UNCHANGED acct
  /\ Return(r)
  /\ UNCHANGED <<kind, session, ticket, history, faults>>

\* Fault: the vehicle of a deleted driver stays.
DeleteRowOnly(a) ==
  /\ Alive(a)
  /\ acct' = [acct EXCEPT ![a].life = "archived"]
  /\ UNCHANGED <<kind, session, ticket, req, history, faults>>

\* One transaction: copy to the archive, DELETE, which takes the vehicle rows
\* along. It may be refused (trips refer to the driver, invitations to the
\* dispatcher), and then nothing changes.
DeleteAndArchive(a) ==
  /\ Alive(a)
  /\ acct' = [acct EXCEPT ![a].life = "archived", ![a].power = FALSE,
                          ![a].trailer = FALSE]
  /\ UNCHANGED <<kind, session, ticket, req, history, faults>>

Delete(a)           == kind = "driver" /\ DeleteAndArchive(a)
DeleteDispatcher(a) == kind = "dispatcher" /\ DeleteAndArchive(a)

-----------------------------------------------------------------------------
(* The steps of a driver. What is read when a handler begins is written by  *)
(* its later steps.                                                         *)

Driving(a) == kind = "driver" /\ a \in Onboarding /\ Alive(a)

\* Another handler has read the row of a and not yet written its status.
Reading(a) ==
  \E q \in Request : req[q].at \in {"transport.row", "kyc.row"} /\ req[q].id = a

\* With a position: the step goes on, or stays at transport-type.
GeoPush(r, a) ==
  /\ Driving(a)
  /\ Begin(r, [Idle EXCEPT !.at = "geo.row", !.id = a, !.step =
       IF acct[a].step = "transport-type" THEN "transport-type" ELSE "geo-push"])
  /\ UNCHANGED <<kind, acct, session, ticket, history, faults>>

UpdateGeo(r) ==
  /\ At(r, "geo.row")
  /\ Update(req[r].id, [acct[req[r].id] EXCEPT !.step = req[r].step])
  /\ Return(r)
  /\ UNCHANGED <<kind, session, ticket, history, faults>>

\* Fault: the status is set without a look at the one in the row.
TransportTypeBasic(r, a) ==
  /\ Driving(a)
  /\ Begin(r, [Idle EXCEPT !.at = "transport.row", !.id = a, !.status = "basic"])
  /\ raced' = IF Reading(a) THEN raced \cup {a} ELSE raced
  /\ UNCHANGED <<kind, acct, session, ticket, answered, born, shared, faults>>

TransportType(r, a) ==
  /\ Driving(a)
  /\ Begin(r, [Idle EXCEPT !.at = "transport.row", !.id = a, !.status =
       IF acct[a].status = "full" THEN "full" ELSE "basic"])
  /\ raced' = IF Reading(a) THEN raced \cup {a} ELSE raced
  /\ UNCHANGED <<kind, acct, session, ticket, answered, born, shared, faults>>

TransportRow(r) ==
  LET a == req[r].id IN
  /\ At(r, "transport.row")
  /\ Update(a, [acct[a] EXCEPT !.step = "transport-type",
                               !.status = req[r].status])
  /\ Goto(r, "transport.power")
  /\ UNCHANGED <<kind, session, ticket, history, faults>>

\* Upsert of a row that refers to the driver: an error when he has gone.
WithPower(a)   == [acct[a] EXCEPT !.power = TRUE]
WithTrailer(a) == [acct[a] EXCEPT !.trailer = TRUE]
Upsert(r, new, next) ==
  /\ Update(req[r].id, new)
  /\ IF Alive(req[r].id) THEN next ELSE Return(r)
  /\ UNCHANGED <<kind, session, ticket, history, faults>>

TransportPower(r) ==
  /\ At(r, "transport.power")
  /\ Upsert(r, WithPower(req[r].id), Goto(r, "transport.trailer"))
TransportTrailer(r) ==
  /\ At(r, "transport.trailer")
  /\ Upsert(r, WithTrailer(req[r].id), Return(r))

\* Fault: without all the documents the status starts over.
SubmitFromBasic(r, a, full) ==
  /\ Driving(a)
  /\ Begin(r, [Idle EXCEPT !.at = "kyc.row", !.id = a, !.full = full,
                           !.status = IF full THEN "full" ELSE "basic"])
  /\ raced' = IF Reading(a) THEN raced \cup {a} ELSE raced
  /\ UNCHANGED <<kind, acct, session, ticket, answered, born, shared, faults>>

\* full: all the documents are there and scanned.
Submit(r, a, full) ==
  /\ Driving(a)
  /\ Begin(r, [Idle EXCEPT !.at = "kyc.row", !.id = a, !.full = full,
                           !.status = IF full THEN "full" ELSE acct[a].status])
  /\ raced' = IF Reading(a) THEN raced \cup {a} ELSE raced
  /\ UNCHANGED <<kind, acct, session, ticket, answered, born, shared, faults>>

\* Fault: the parameters for kyc_status and registration_status swapped.
KycRowSwapped(r) ==
  LET a == req[r].id IN
  /\ At(r, "kyc.row")
  /\ Update(a, [acct[a] EXCEPT
       !.step = "completed", !.kyc = req[r].status,
       !.status = IF req[r].full THEN "approved" ELSE "pending"])
  /\ Goto(r, "kyc.power")
  /\ UNCHANGED <<kind, session, ticket, history, faults>>

KycRow(r) ==
  LET a == req[r].id IN
  /\ At(r, "kyc.row")
  /\ Update(a, [acct[a] EXCEPT
       !.step = "completed", !.status = req[r].status,
       !.kyc = IF req[r].full THEN "approved" ELSE "pending"])
  /\ Goto(r, "kyc.power")
  /\ UNCHANGED <<kind, session, ticket, history, faults>>

\* Fault: only approved drivers are made ready for work.
KycTrailerApproved(r) ==
  /\ At(r, "kyc.trailer")
  /\ Upsert(r, WithTrailer(req[r].id),
            IF req[r].full THEN Goto(r, "kyc.defaults") ELSE Return(r))

KycPower(r) ==
  /\ At(r, "kyc.power")
  /\ Upsert(r, WithPower(req[r].id), Goto(r, "kyc.trailer"))
KycTrailer(r) ==
  /\ At(r, "kyc.trailer")
  /\ Upsert(r, WithTrailer(req[r].id), Goto(r, "kyc.defaults"))

ApplyFullDefaults(r) ==
  LET a == req[r].id IN
  /\ At(r, "kyc.defaults")
  /\ Update(a, [acct[a] EXCEPT !.work = TRUE, !.active = TRUE])
  /\ Return(r)
  /\ UNCHANGED <<kind, session, ticket, history, faults>>

\* PATCH of the profile: one statement each that matters here.
PatchDriver(a) ==
  /\ Driving(a)
  /\ acct' = [acct EXCEPT ![a].work = TRUE]
  /\ UNCHANGED <<kind, session, ticket, req, history, faults>>
PatchPower(a) ==
  /\ Driving(a)
  /\ acct' = [acct EXCEPT ![a] = WithPower(a)]
  /\ UNCHANGED <<kind, session, ticket, req, history, faults>>
PatchTrailer(a) ==
  /\ Driving(a)
  /\ acct' = [acct EXCEPT ![a] = WithTrailer(a)]
  /\ UNCHANGED <<kind, session, ticket, req, history, faults>>

-----------------------------------------------------------------------------
\* The handler dies, or a statement fails and it returns.
Fail(r) ==
  /\ req[r] # Idle
  /\ Slip
  /\ Return(r)
  /\ UNCHANGED <<kind, acct, session, ticket, history>>

Register(r) ==
  \/ \E p \in Phone : Verified(r, p)
  \/ \E s \in Session :
       \/ CreateSession(r, s)
       \/ Start(r, s) \/ Complete(r, s) \/ CompleteUser(r, s)
  \/ FindVerified(r) \/ ConsumeSession(r) \/ FindExisting(r)
  \/ CreateStart(r) \/ CreateDispatcher(r) \/ CreateUser(r)

ChangePhone(r) ==
  \/ \E a \in Id, p \in Phone :
       PhoneChangeRequest(r, a, p) \/ DispatcherPhoneChangeRequest(r, a, p)
  \/ \E t \in Ticket :
       \/ CreateTicket(r, t)
       \/ PhoneChangeVerify(r, t) \/ DispatcherPhoneChangeVerify(r, t)
  \/ SpendTicket(r) \/ UpdatePhone(r)

Onboard(r) ==
  \/ \E a \in Id :
       \/ GeoPush(r, a) \/ TransportType(r, a)
       \/ \E full \in BOOLEAN : Submit(r, a, full)
  \/ UpdateGeo(r)
  \/ TransportRow(r) \/ TransportPower(r) \/ TransportTrailer(r)
  \/ KycRow(r) \/ KycPower(r) \/ KycTrailer(r) \/ ApplyFullDefaults(r)

Next ==
  \/ \E r \in Request : Register(r) \/ ChangePhone(r) \/ Onboard(r) \/ Fail(r)
  \/ \E s \in Session : ExpireSession(s)
  \/ \E t \in Ticket : ExpireTicket(t)
  \/ \E a \in Id :
       \/ Delete(a) \/ DeleteDispatcher(a)
       \/ PatchDriver(a) \/ PatchPower(a) \/ PatchTrailer(a)

Spec == Init /\ [][Next]_vars
-----------------------------------------------------------------------------
(* Properties *)

\* Between the check of a phone and its use a code travels and other
\* registrations and changes go on. Still the phone of an account is one
\* whose holder has entered the code sent there, and it is nobody else's.
PhoneOwned ==
  \A a \in Id : Alive(a) =>
    acct[a].phone \in answered /\ Holder(acct[a].phone) = {a}

\* A session is read and deleted by two commands. One that no two handlers
\* read before its deletion, and whose deletion did not fail, registers one
\* account, whatever becomes of that account and its phone.
SessionRegistersOnce ==
  \A a, b \in Id :
    a # b /\ born[a] = born[b] /\ born[a] # Null => born[a] \in shared

\* The status a handler writes depends on the one it has read. Unless two
\* handlers of the driver read before either wrote, no driver falls back.
StatusKept ==
  [][\A a \in Id : Alive(a) /\ acct'[a].life = "alive" =>
       Rank(acct'[a].status) >= Rank(acct[a].status) \/ a \in raced']_vars

\* A driver whose documents are approved is fully registered, also when he
\* chooses his transport again later, with the same exception.
ApprovedIsFull ==
  \A a \in Id : Alive(a) /\ acct[a].kyc = "approved" =>
    acct[a].status = "full" \/ a \in raced

\* The step of a driver is written first, what it stands for afterwards, by
\* other statements. As long as no handler fails, a driver at transport-type
\* or completed has his vehicle, and at completed can work, or a handler is
\* about to see to it.
RegistrationWhole ==
  faults = 0 => \A a \in Id : Alive(a) =>
    /\ acct[a].step \in {"transport-type", "completed"} =>
         \/ acct[a].power /\ acct[a].trailer
         \/ \E r \in Request : req[r].id = a /\ req[r].at \in
              {"transport.power", "transport.trailer", "kyc.power", "kyc.trailer"}
    /\ acct[a].step = "completed" =>
         \/ acct[a].work /\ acct[a].active
         \/ \E r \in Request : req[r].id = a /\ req[r].at \in
              {"kyc.power", "kyc.trailer", "kyc.defaults"}

\* Handlers of a driver go on while he is deleted. What they still write
\* changes nothing that is in the archive and leaves no vehicle behind.
ArchivedIsFrozen ==
  [][\A a \in Id : /\ acct[a].life = "archived" => acct'[a] = acct[a]
                   /\ acct'[a].life # "alive" =>
                        ~acct'[a].power /\ ~acct'[a].trailer]_vars
=============================================================================

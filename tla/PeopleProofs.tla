---------------------------- MODULE PeopleProofs ----------------------------
(***************************************************************************)
(* Theorems about Accounts, for any accounts, phones, sessions, tickets    *)
(* and handlers, and any number of faults; and about the accounts beside   *)
(* CompanyRoles, whose theorems they take over.                            *)
(***************************************************************************)
EXTENDS MCPeople, TLAPS

StatusValue == {"start", "basic", "full"}

LEMMA StatusValues ==
  /\ {Status[i] : i \in 1 .. 3} = StatusValue
  /\ Rank("start") = 1 /\ Rank("basic") = 2 /\ Rank("full") = 3
<1>1. Status[1] = "start" /\ Status[2] = "basic" /\ Status[3] = "full"
  BY DEF Status
<1>2. {Status[i] : i \in 1 .. 3} = StatusValue
  <2>1. 1 .. 3 = {1, 2, 3}
    OBVIOUS
  <2>. QED
    BY <1>1, <2>1 DEF StatusValue
<1>3. \A i \in 1 .. 3 : \A j \in 1 .. 3 : Status[j] = Status[i] => j = i
  BY <1>1
<1>4. ASSUME NEW i \in 1 .. 3 PROVE Rank(Status[i]) = i
  BY <1>3 DEF Rank
<1>5. Rank(Status[1]) = 1 /\ Rank(Status[2]) = 2 /\ Rank(Status[3]) = 3
  BY <1>4
<1>. QED
  BY <1>1, <1>2, <1>5

LEMMA Values ==
  /\ MaxFaults \in Nat /\ Onboarding \subseteq Id
  /\ Null \notin Id \cup Phone \cup Session \cup Ticket
BY AccountAssumption

LEMMA IdleType ==
  /\ Idle \in Handler /\ Idle.at = "idle" /\ Idle.id = Null
  /\ Idle.phone = Null /\ Idle.session = Null
BY StatusValues DEF Idle, Handler, Point, Steps, StatusValue

LEMMA NoRowType ==
  /\ NoRow \in Row /\ NoRow.life = "none" /\ NoRow.status = "start"
  /\ NoRow.kyc = "none" /\ NoRow.step = "name-oferta"
  /\ NoRow.power = FALSE /\ NoRow.trailer = FALSE
BY StatusValues DEF NoRow, Row, Life, Steps, StatusValue

-----------------------------------------------------------------------------
(* Types *)

\* The points of a registration, of a change of phone and of the steps of a
\* driver
RegisterPoint == {"verified", "session", "consume", "find", "insert"}
ChangePoint   == {"ask", "spend", "change"}
OnboardPoint ==
  {"geo.row", "transport.row", "transport.power", "transport.trailer",
   "kyc.row", "kyc.power", "kyc.trailer", "kyc.defaults"}

\* A handler has what its next statement needs.
HandlerType(r) ==
  LET h == req[r] IN
  /\ h.at \in RegisterPoint => h.phone \in Phone
  /\ h.at \in {"consume", "find", "insert"} => h.session \in Session
  /\ h.at \in ChangePoint => h.id \in Id /\ h.phone \in Phone
  /\ h.at = "spend" => h.ticket \in Ticket
  /\ h.at \in OnboardPoint => h.id \in Id

Tickets == \A t \in Ticket : ticket[t].id # Null => ticket[t].phone \in Phone

Types ==
  /\ TypeOK
  /\ \A r \in Request : HandlerType(r)
  /\ Tickets

\* Only r moves, and only within these points.
Moves(r, points) ==
  /\ req' \in [Request -> Handler]
  /\ \A q \in Request \ {r} : req'[q] = req[q]
  /\ req[r].at \in points \cup {"idle"} /\ req'[r].at \in points \cup {"idle"}
  /\ HandlerType(r)'

LEMMA MovesBegin ==
  ASSUME Types, NEW r \in Request, NEW h \in Handler, NEW points,
         Begin(r, h), h.at \in points,
         h.at \in RegisterPoint => h.phone \in Phone,
         h.at \in {"consume", "find", "insert"} => h.session \in Session,
         h.at \in ChangePoint => h.id \in Id /\ h.phone \in Phone,
         h.at = "spend" => h.ticket \in Ticket,
         h.at \in OnboardPoint => h.id \in Id
  PROVE  Moves(r, points) /\ req'[r] = h /\ req[r].at = "idle"
BY IdleType DEF Types, TypeOK, Begin, Moves, HandlerType

LEMMA MovesReturn ==
  ASSUME Types, NEW r \in Request, NEW points, Return(r), req[r].at \in points
  PROVE  Moves(r, points) /\ req'[r] = Idle /\ req'[r].at = "idle"
BY IdleType
DEF Types, TypeOK, Return, Moves, HandlerType, RegisterPoint, ChangePoint,
    OnboardPoint

LEMMA MovesGoto ==
  ASSUME Types, NEW r \in Request, NEW points,
         NEW p \in Point, p \in points, Goto(r, p), req[r].at \in points,
         \/ points = RegisterPoint /\ (p \in {"find", "insert"} =>
                                       req[r].at \in {"consume", "find"})
                                  /\ p # "consume"
         \/ points = ChangePoint /\ p = "change"
         \/ points = OnboardPoint
  PROVE  /\ Moves(r, points) /\ req'[r].at = p
         /\ req'[r].id = req[r].id /\ req'[r].phone = req[r].phone
         /\ req'[r].session = req[r].session /\ req'[r].step = req[r].step
         /\ req'[r].status = req[r].status /\ req'[r].full = req[r].full
BY DEF Types, TypeOK, Goto, Moves, Handler, HandlerType, RegisterPoint,
       ChangePoint, OnboardPoint

\* An account comes to be where there was none.
Founded(a) ==
  /\ acct[a] = NoRow /\ acct'[a].life = "alive"
  /\ acct'[a].status = "start" /\ acct'[a].kyc = "none"
  /\ acct'[a].step = "name-oferta"

\* What registering leaves alone.
RegisterFrame(r) ==
  /\ Moves(r, RegisterPoint)
  /\ UNCHANGED <<kind, ticket, raced>>
  /\ faults' >= faults
  /\ \A a \in Id : acct'[a] = acct[a] \/ Founded(a)

LEMMA RegisterTypes ==
  ASSUME Types, NEW r \in Request, Register(r)
  PROVE  TypeOK' /\ RegisterFrame(r)
<1>. USE Values, IdleType DEF Types, RegisterFrame, HandlerType
<1>1. ASSUME NEW p \in Phone, Verified(r, p)
      PROVE  TypeOK' /\ RegisterFrame(r)
  <2>1. Moves(r, RegisterPoint)
    BY <1>1, MovesBegin
    DEF Verified, Handler, Point, RegisterPoint, ChangePoint, OnboardPoint
  <2>. QED
    BY <1>1, <2>1 DEF Verified, TypeOK, Moves
<1>2. ASSUME FindVerified(r) PROVE TypeOK' /\ RegisterFrame(r)
  <2>1. Moves(r, RegisterPoint)
    BY <1>2, MovesReturn, MovesGoto
    DEF FindVerified, At, Point, RegisterPoint
  <2>. QED
    BY <1>2, <2>1 DEF FindVerified, TypeOK, Moves, history
<1>3. ASSUME NEW s \in Session, CreateSession(r, s)
      PROVE  TypeOK' /\ RegisterFrame(r)
  <2>1. Moves(r, RegisterPoint)
    BY <1>3, MovesReturn DEF CreateSession, At, RegisterPoint
  <2>. QED
    BY <1>3, <2>1
    DEF CreateSession, TypeOK, Moves, history, At, RegisterPoint
<1>4. ASSUME NEW s \in Session, ReadSession(r, s)
      PROVE  TypeOK' /\ RegisterFrame(r)
  <2>1. session[s].phone \in Phone
    BY <1>4 DEF ReadSession, TypeOK
  <2>2. Moves(r, RegisterPoint)
    BY <1>4, <2>1, MovesBegin
    DEF ReadSession, Handler, Point, RegisterPoint, ChangePoint, OnboardPoint
  <2>. QED
    BY <1>4, <2>2 DEF ReadSession, TypeOK, Moves
<1>5. ASSUME ConsumeSession(r) PROVE TypeOK' /\ RegisterFrame(r)
  <2>1. req[r].at = "consume" /\ req[r].session \in Session
    BY <1>5 DEF ConsumeSession, At
  <2>2. Moves(r, RegisterPoint)
    BY <1>5, <2>1, MovesReturn, MovesGoto
    DEF ConsumeSession, Point, RegisterPoint
  <2>. QED
    BY <1>5, <2>1, <2>2 DEF ConsumeSession, Slip, TypeOK, Moves
<1>6. ASSUME FindExisting(r) PROVE TypeOK' /\ RegisterFrame(r)
  <2>1. Moves(r, RegisterPoint)
    BY <1>6, MovesReturn, MovesGoto
    DEF FindExisting, At, Point, RegisterPoint
  <2>. QED
    BY <1>6, <2>1 DEF FindExisting, TypeOK, Moves, history
<1>7. ASSUME Insert(r) PROVE TypeOK' /\ RegisterFrame(r)
  <2>1. /\ req[r].at = "insert" /\ req[r].session \in Session
        /\ req[r].phone \in Phone
    BY <1>7 DEF Insert, At, RegisterPoint
  <2>2. Moves(r, RegisterPoint)
    BY <1>7, <2>1, MovesReturn DEF Insert, RegisterPoint
  <2>3. PICK row \in Row :
          /\ row = [NoRow EXCEPT !.life = "alive", !.phone = req[r].phone]
          /\ row.life = "alive" /\ row.status = "start"
          /\ row.kyc = "none" /\ row.step = "name-oferta"
    <3>1. LET row == [NoRow EXCEPT !.life = "alive", !.phone = req[r].phone] IN
          /\ row \in Row /\ row.life = "alive" /\ row.status = "start"
          /\ row.kyc = "none" /\ row.step = "name-oferta"
      BY <2>1, NoRowType DEF Row, Life
    <3>. QED
      BY <3>1, Zenon
  <2>4. /\ acct' \in [Id -> Row]
        /\ \A a \in Id : acct'[a] = acct[a] \/ Founded(a)
        /\ born' \in [Id -> Session \cup {Null}]
    <3>1. CASE UNCHANGED <<acct, born>>
      BY <3>1 DEF TypeOK
    <3>2. ASSUME NEW a \in Id, acct[a] = NoRow,
                 acct' = [acct EXCEPT ![a] = row],
                 born' = [born EXCEPT ![a] = req[r].session]
          PROVE  /\ acct' \in [Id -> Row]
                 /\ \A b \in Id : acct'[b] = acct[b] \/ Founded(b)
                 /\ born' \in [Id -> Session \cup {Null}]
      BY <2>1, <2>3, <3>2 DEF TypeOK, Founded
    <3>. QED
      BY <1>7, <2>3, <3>1, <3>2 DEF Insert
  <2>5. UNCHANGED <<kind, session, ticket, answered, shared, raced, faults>>
    BY <1>7 DEF Insert
  <2>. QED
    BY <2>2, <2>4, <2>5 DEF TypeOK, Moves
<1>. QED
  BY <1>1, <1>2, <1>3, <1>4, <1>5, <1>6, <1>7
  DEF Register, Start, Complete, CompleteUser, CreateStart, CreateDispatcher,
      CreateUser

\* What a change of phone leaves alone.
Renamed(a) ==
  /\ acct[a].life = "alive" /\ acct'[a].life = "alive"
  /\ acct'[a].status = acct[a].status /\ acct'[a].kyc = acct[a].kyc
  /\ acct'[a].step = acct[a].step
  /\ acct'[a].power = acct[a].power /\ acct'[a].trailer = acct[a].trailer
  /\ acct'[a].work = acct[a].work /\ acct'[a].active = acct[a].active

ChangeFrame(r) ==
  /\ Moves(r, ChangePoint)
  /\ UNCHANGED <<kind, session, born, shared, raced>>
  /\ faults' >= faults
  /\ \A a \in Id : acct'[a] = acct[a] \/ Renamed(a)

LEMMA ChangeTypes ==
  ASSUME Types, NEW r \in Request, ChangePhone(r)
  PROVE  TypeOK' /\ Tickets' /\ ChangeFrame(r)
<1>. USE Values, IdleType DEF Types, ChangeFrame, HandlerType, Tickets
<1>1. ASSUME NEW a \in Id, NEW p \in Phone, AskPhone(r, a, p)
      PROVE  TypeOK' /\ Tickets' /\ ChangeFrame(r)
  <2>1. Moves(r, ChangePoint)
    BY <1>1, MovesBegin
    DEF AskPhone, Handler, Point, ChangePoint, RegisterPoint, OnboardPoint
  <2>. QED
    BY <1>1, <2>1 DEF AskPhone, TypeOK, Moves, history
<1>2. ASSUME NEW t \in Ticket, CreateTicket(r, t)
      PROVE  TypeOK' /\ Tickets' /\ ChangeFrame(r)
  <2>1. Moves(r, ChangePoint)
    BY <1>2, MovesReturn DEF CreateTicket, At, ChangePoint
  <2>. QED
    BY <1>2, <2>1 DEF CreateTicket, TypeOK, Moves, history, At, ChangePoint
<1>3. ASSUME NEW t \in Ticket, TakeTicket(r, t)
      PROVE  TypeOK' /\ Tickets' /\ ChangeFrame(r)
  <2>1. ticket[t].phone \in Phone /\ ticket[t].id \in Id
    BY <1>3 DEF TakeTicket, TypeOK
  <2>2. Moves(r, ChangePoint)
    BY <1>3, <2>1, MovesBegin
    DEF TakeTicket, Handler, Point, ChangePoint, RegisterPoint, OnboardPoint
  <2>. QED
    BY <1>3, <2>1, <2>2 DEF TakeTicket, TypeOK, Moves
<1>4. ASSUME SpendTicket(r) PROVE TypeOK' /\ Tickets' /\ ChangeFrame(r)
  <2>1. req[r].at = "spend" /\ req[r].ticket \in Ticket
    BY <1>4 DEF SpendTicket, At
  <2>2. Moves(r, ChangePoint)
    BY <1>4, <2>1, MovesGoto DEF SpendTicket, Point, ChangePoint
  <2>. QED
    BY <1>4, <2>1, <2>2 DEF SpendTicket, Slip, TypeOK, Moves, history
<1>5. ASSUME UpdatePhone(r) PROVE TypeOK' /\ Tickets' /\ ChangeFrame(r)
  <2>1. req[r].at = "change" /\ req[r].id \in Id /\ req[r].phone \in Phone
    BY <1>5 DEF UpdatePhone, At, ChangePoint
  <2>2. Moves(r, ChangePoint)
    BY <1>5, <2>1, MovesReturn DEF UpdatePhone, ChangePoint
  <2>3. acct' \in [Id -> Row] /\ \A a \in Id : acct'[a] = acct[a] \/ Renamed(a)
    <3>. DEFINE a == req[r].id
                new == [acct[a] EXCEPT !.phone = req[r].phone]
    <3>1. acct[a] \in Row /\ acct \in [Id -> Row]
      BY <2>1 DEF TypeOK
    <3>2. /\ new \in Row
          /\ new.life = acct[a].life /\ new.status = acct[a].status
          /\ new.kyc = acct[a].kyc /\ new.step = acct[a].step
          /\ new.power = acct[a].power /\ new.trailer = acct[a].trailer
          /\ new.work = acct[a].work /\ new.active = acct[a].active
      BY <2>1, <3>1 DEF Row
    <3>3. \/ acct' = acct
          \/ Alive(a) /\ acct' = [acct EXCEPT ![a] = new]
      BY <1>5 DEF UpdatePhone, Update
    <3>. HIDE DEF new
    <3>. QED
      BY <2>1, <3>1, <3>2, <3>3 DEF Alive, Renamed
  <2>. QED
    BY <1>5, <2>2, <2>3 DEF UpdatePhone, TypeOK, Moves, history
<1>. QED
  BY <1>1, <1>2, <1>3, <1>4, <1>5
  DEF ChangePhone, PhoneChangeRequest, DispatcherPhoneChangeRequest,
      PhoneChangeVerify, DispatcherPhoneChangeVerify

\* What the steps of a driver leave alone.
Worked(a) ==
  /\ acct[a].life = "alive" /\ acct'[a].life = "alive"
  /\ acct'[a].phone = acct[a].phone

OnboardFrame(r) ==
  /\ Moves(r, OnboardPoint)
  /\ UNCHANGED <<kind, session, ticket, answered, born, shared, faults>>
  /\ \A a \in Id : acct'[a] = acct[a] \/ Worked(a)

\* Writing to a row gives a row.
LEMMA UpdateType ==
  ASSUME TypeOK, NEW a \in Id, NEW row \in Row, row.life = acct[a].life,
         row.phone = acct[a].phone, Update(a, row)
  PROVE  acct' \in [Id -> Row] /\ \A b \in Id : acct'[b] = acct[b] \/ Worked(b)
BY DEF TypeOK, Update, Alive, Worked

LEMMA RowType ==
  ASSUME TypeOK, NEW a \in Id, NEW r \in Request
  PROVE  /\ LET row == [acct[a] EXCEPT !.step = req[r].step] IN
            row \in Row /\ row.life = acct[a].life /\ row.phone = acct[a].phone
         /\ LET row == [acct[a] EXCEPT !.work = TRUE, !.active = TRUE] IN
            row \in Row /\ row.life = acct[a].life /\ row.phone = acct[a].phone
         /\ LET row == [acct[a] EXCEPT !.step = "transport-type",
                                       !.status = req[r].status] IN
            row \in Row /\ row.life = acct[a].life /\ row.phone = acct[a].phone
         /\ LET row == [acct[a] EXCEPT
                   !.step = "completed", !.status = req[r].status,
                   !.kyc = IF req[r].full THEN "approved" ELSE "pending"] IN
            row \in Row /\ row.life = acct[a].life /\ row.phone = acct[a].phone
<1>1. acct[a] \in Row /\ req[r] \in Handler
  BY DEF TypeOK
<1>2. "transport-type" \in Steps /\ "completed" \in Steps
  BY DEF Steps
<1>. QED
  BY <1>1, <1>2 DEF Row, Handler

LEMMA WithType ==
  ASSUME TypeOK, NEW a \in Id
  PROVE  /\ LET row == WithPower(a) IN
            /\ row \in Row /\ row.life = acct[a].life
            /\ row.phone = acct[a].phone /\ row.status = acct[a].status
            /\ row.kyc = acct[a].kyc /\ row.step = acct[a].step
            /\ row.power /\ row.trailer = acct[a].trailer
            /\ row.work = acct[a].work /\ row.active = acct[a].active
         /\ LET row == WithTrailer(a) IN
            /\ row \in Row /\ row.life = acct[a].life
            /\ row.phone = acct[a].phone /\ row.status = acct[a].status
            /\ row.kyc = acct[a].kyc /\ row.step = acct[a].step
            /\ row.power = acct[a].power /\ row.trailer
            /\ row.work = acct[a].work /\ row.active = acct[a].active
<1>1. acct[a] \in Row
  BY DEF TypeOK
<1>. QED
  BY <1>1 DEF Row, WithPower, WithTrailer

\* A handler that begins a step has read the row.
LEMMA Beginnings ==
  ASSUME TypeOK, NEW r \in Request, NEW a \in Id
  PROVE  /\ GeoPush(r, a) => \E h \in Handler :
              /\ Begin(r, h) /\ h.at = "geo.row" /\ h.id = a
              /\ h.step = IF acct[a].step = "transport-type"
                          THEN "transport-type" ELSE "geo-push"
         /\ TransportType(r, a) => \E h \in Handler :
              /\ Begin(r, h) /\ h.at = "transport.row" /\ h.id = a
              /\ h.status = IF acct[a].status = "full" THEN "full" ELSE "basic"
         /\ \A full \in BOOLEAN : Submit(r, a, full) => \E h \in Handler :
              /\ Begin(r, h) /\ h.at = "kyc.row" /\ h.id = a
              /\ h.full = full
              /\ h.status = IF full THEN "full" ELSE acct[a].status
<1>1. ASSUME GeoPush(r, a)
      PROVE  \E h \in Handler :
               /\ Begin(r, h) /\ h.at = "geo.row" /\ h.id = a
               /\ h.step = IF acct[a].step = "transport-type"
                           THEN "transport-type" ELSE "geo-push"
  <2>1. PICK step \in {"geo-push", "transport-type"} :
          step = IF acct[a].step = "transport-type" THEN "transport-type"
                 ELSE "geo-push"
    OBVIOUS
  <2>2. Begin(r, [Idle EXCEPT !.at = "geo.row", !.id = a, !.step = step])
    BY <1>1, <2>1, Zenon DEF GeoPush
  <2>3. PICK h \in Handler :
          /\ h = [Idle EXCEPT !.at = "geo.row", !.id = a, !.step = step]
          /\ h.at = "geo.row" /\ h.id = a /\ h.step = step
    <3>1. LET h == [Idle EXCEPT !.at = "geo.row", !.id = a, !.step = step] IN
          h \in Handler /\ h.at = "geo.row" /\ h.id = a /\ h.step = step
      BY <2>1, IdleType DEF Handler, Point, Steps
    <3>. QED
      BY <3>1, Zenon
  <2>4. Begin(r, h)
    BY <2>2, <2>3, Zenon
  <2>. QED
    BY <2>1, <2>3, <2>4
<1>2. ASSUME TransportType(r, a)
      PROVE  \E h \in Handler :
               /\ Begin(r, h) /\ h.at = "transport.row" /\ h.id = a
               /\ h.status = IF acct[a].status = "full" THEN "full" ELSE "basic"
  <2>1. PICK status \in StatusValue :
          status = IF acct[a].status = "full" THEN "full" ELSE "basic"
    BY DEF StatusValue
  <2>2. Begin(r, [Idle EXCEPT !.at = "transport.row", !.id = a,
                              !.status = status])
    BY <1>2, <2>1, Zenon DEF TransportType
  <2>3. PICK h \in Handler :
          /\ h = [Idle EXCEPT !.at = "transport.row", !.id = a,
                              !.status = status]
          /\ h.at = "transport.row" /\ h.id = a /\ h.status = status
    <3>1. LET h == [Idle EXCEPT !.at = "transport.row", !.id = a,
                              !.status = status] IN
          h \in Handler /\ h.at = "transport.row" /\ h.id = a /\ h.status = status
      BY <2>1, IdleType, StatusValues DEF Handler, Point
    <3>. QED
      BY <3>1, Zenon
  <2>4. Begin(r, h)
    BY <2>2, <2>3, Zenon
  <2>. QED
    BY <2>1, <2>3, <2>4
<1>3. ASSUME NEW full \in BOOLEAN, Submit(r, a, full)
      PROVE  \E h \in Handler :
               /\ Begin(r, h) /\ h.at = "kyc.row" /\ h.id = a
               /\ h.full = full
               /\ h.status = IF full THEN "full" ELSE acct[a].status
  <2>1. PICK status \in StatusValue :
          status = IF full THEN "full" ELSE acct[a].status
    BY StatusValues DEF TypeOK, Row, StatusValue
  <2>2. Begin(r, [Idle EXCEPT !.at = "kyc.row", !.id = a, !.full = full,
                              !.status = status])
    BY <1>3, <2>1, Zenon DEF Submit
  <2>3. PICK h \in Handler :
          /\ h = [Idle EXCEPT !.at = "kyc.row", !.id = a, !.full = full,
                              !.status = status]
          /\ h.at = "kyc.row" /\ h.id = a /\ h.full = full
          /\ h.status = status
    <3>1. LET h == [Idle EXCEPT !.at = "kyc.row", !.id = a, !.full = full,
                              !.status = status] IN
          h \in Handler /\ h.at = "kyc.row" /\ h.id = a /\ h.full = full
          /\ h.status = status
      BY <2>1, IdleType, StatusValues DEF Handler, Point
    <3>. QED
      BY <3>1, Zenon
  <2>4. Begin(r, h)
    BY <2>2, <2>3, Zenon
  <2>. QED
    BY <2>1, <2>3, <2>4
<1>. QED
  BY <1>1, <1>2, <1>3

LEMMA UpsertTypes ==
  ASSUME Types, NEW r \in Request, req[r].at \in OnboardPoint,
         NEW row, NEW next,
         row \in {WithPower(req[r].id), WithTrailer(req[r].id)},
         Upsert(r, row, next),
         next => Return(r) \/ \E p \in Point \cap OnboardPoint : Goto(r, p)
  PROVE  TypeOK' /\ OnboardFrame(r)
<1>1. PICK a \in Id : req[r].id = a
  BY DEF Types, HandlerType
<1>2. Update(a, row)
  BY <1>1 DEF Upsert
<1>3. acct' \in [Id -> Row] /\ \A b \in Id : acct'[b] = acct[b] \/ Worked(b)
  BY <1>1, <1>2, WithType, UpdateType DEF Types
<1>4. Moves(r, OnboardPoint)
  BY MovesReturn, MovesGoto DEF Upsert
<1>. QED
  BY <1>3, <1>4 DEF Upsert, Types, TypeOK, OnboardFrame, Moves, history

LEMMA OnboardTypes ==
  ASSUME Types, NEW r \in Request, Onboard(r)
  PROVE  TypeOK' /\ OnboardFrame(r)
<1>. USE Values, IdleType DEF Types, HandlerType
<1>1. ASSUME NEW a \in Id, GeoPush(r, a) PROVE TypeOK' /\ OnboardFrame(r)
  <2>1. Moves(r, OnboardPoint)
    BY <1>1, Beginnings, MovesBegin
    DEF RegisterPoint, ChangePoint, OnboardPoint
  <2>. QED
    BY <1>1, <2>1 DEF GeoPush, TypeOK, Moves, OnboardFrame, history
<1>2. ASSUME NEW a \in Id, TransportType(r, a)
      PROVE  TypeOK' /\ OnboardFrame(r)
  <2>1. Moves(r, OnboardPoint)
    BY <1>2, Beginnings, MovesBegin
    DEF RegisterPoint, ChangePoint, OnboardPoint
  <2>. QED
    BY <1>2, <2>1 DEF TransportType, TypeOK, Moves, OnboardFrame
<1>3. ASSUME NEW a \in Id, NEW full \in BOOLEAN, Submit(r, a, full)
      PROVE  TypeOK' /\ OnboardFrame(r)
  <2>1. Moves(r, OnboardPoint)
    BY <1>3, Beginnings, MovesBegin
    DEF RegisterPoint, ChangePoint, OnboardPoint
  <2>. QED
    BY <1>3, <2>1 DEF Submit, TypeOK, Moves, OnboardFrame
<1>4. ASSUME UpdateGeo(r) \/ ApplyFullDefaults(r)
      PROVE  TypeOK' /\ OnboardFrame(r)
  <2>1. PICK a \in Id : req[r].id = a
    BY <1>4 DEF UpdateGeo, ApplyFullDefaults, At, OnboardPoint
  <2>2. Moves(r, OnboardPoint)
    BY <1>4, MovesReturn DEF UpdateGeo, ApplyFullDefaults, At, OnboardPoint
  <2>3. acct' \in [Id -> Row] /\ \A b \in Id : acct'[b] = acct[b] \/ Worked(b)
    <3>1. CASE UpdateGeo(r)
      BY <2>1, <3>1, RowType, UpdateType DEF UpdateGeo
    <3>2. CASE ApplyFullDefaults(r)
      BY <2>1, <3>2, RowType, UpdateType DEF ApplyFullDefaults
    <3>. QED
      BY <1>4, <3>1, <3>2
  <2>. QED
    BY <1>4, <2>2, <2>3
    DEF UpdateGeo, ApplyFullDefaults, TypeOK, Moves, OnboardFrame, history
<1>5. ASSUME TransportRow(r) \/ KycRow(r) PROVE TypeOK' /\ OnboardFrame(r)
  <2>1. PICK a \in Id : req[r].id = a
    BY <1>5 DEF TransportRow, KycRow, At, OnboardPoint
  <2>2. Moves(r, OnboardPoint)
    BY <1>5, MovesGoto DEF TransportRow, KycRow, At, Point, OnboardPoint
  <2>3. acct' \in [Id -> Row] /\ \A b \in Id : acct'[b] = acct[b] \/ Worked(b)
    <3>1. CASE TransportRow(r)
      BY <2>1, <3>1, RowType, UpdateType DEF TransportRow
    <3>2. CASE KycRow(r)
      <4>1. PICK row \in Row :
              /\ row = [acct[a] EXCEPT
                   !.step = "completed", !.status = req[r].status,
                   !.kyc = IF req[r].full THEN "approved" ELSE "pending"]
              /\ row.life = acct[a].life /\ row.phone = acct[a].phone
        <5>1. LET row == [acct[a] EXCEPT
                   !.step = "completed", !.status = req[r].status,
                   !.kyc = IF req[r].full THEN "approved" ELSE "pending"] IN
              row \in Row /\ row.life = acct[a].life
              /\ row.phone = acct[a].phone
          BY RowType
        <5>. QED
          BY <5>1, Zenon
      <4>2. Update(a, row)
        BY <2>1, <3>2, <4>1 DEF KycRow
      <4>. QED
        BY <4>1, <4>2, UpdateType
    <3>. QED
      BY <1>5, <3>1, <3>2
  <2>. QED
    BY <1>5, <2>2, <2>3
    DEF TransportRow, KycRow, TypeOK, Moves, OnboardFrame, history
<1>6. ASSUME \/ TransportPower(r) \/ TransportTrailer(r)
             \/ KycPower(r) \/ KycTrailer(r)
      PROVE  TypeOK' /\ OnboardFrame(r)
  <2>1. CASE TransportPower(r)
    BY <2>1, UpsertTypes DEF TransportPower, At, Point, OnboardPoint
  <2>2. CASE TransportTrailer(r)
    BY <2>2, UpsertTypes DEF TransportTrailer, At, Point, OnboardPoint
  <2>3. CASE KycPower(r)
    BY <2>3, UpsertTypes DEF KycPower, At, Point, OnboardPoint
  <2>4. CASE KycTrailer(r)
    BY <2>4, UpsertTypes DEF KycTrailer, At, Point, OnboardPoint
  <2>. QED
    BY <1>6, <2>1, <2>2, <2>3, <2>4
<1>. QED
  BY <1>1, <1>2, <1>3, <1>4, <1>5, <1>6 DEF Onboard

\* An account is deleted with its vehicle, or a driver edits his profile.
Deleted(a) ==
  /\ acct[a].life = "alive" /\ acct'[a].life = "archived"
  /\ acct'[a].power = FALSE /\ acct'[a].trailer = FALSE
  /\ acct'[a].status = acct[a].status /\ acct'[a].kyc = acct[a].kyc

Patched(a) ==
  /\ acct[a].life = "alive" /\ acct'[a].life = "alive"
  /\ acct'[a].phone = acct[a].phone
  /\ acct'[a].status = acct[a].status /\ acct'[a].kyc = acct[a].kyc
  /\ acct'[a].step = acct[a].step
  /\ acct[a].power => acct'[a].power
  /\ acct[a].trailer => acct'[a].trailer
  /\ acct[a].work => acct'[a].work
  /\ acct'[a].active = acct[a].active

Profile(a) ==
  Delete(a) \/ DeleteDispatcher(a) \/ PatchDriver(a) \/ PatchPower(a)
  \/ PatchTrailer(a)

LEMMA ProfileTypes ==
  ASSUME Types, NEW a \in Id, Profile(a)
  PROVE  /\ TypeOK'
         /\ UNCHANGED <<kind, session, ticket, req, history, faults>>
         /\ \A b \in Id : acct'[b] = acct[b] \/ Deleted(b) \/ Patched(b)
<1>. USE DEF Types
<1>1. acct[a] \in Row
  BY DEF TypeOK
<1>3. CASE Delete(a) \/ DeleteDispatcher(a)
  <2>1. DeleteAndArchive(a)
    BY <1>3 DEF Delete, DeleteDispatcher
  <2>2. acct' \in [Id -> Row] /\ Deleted(a)
        /\ \A b \in Id \ {a} : acct'[b] = acct[b]
    <3>1. PICK row \in Row :
            /\ row = [acct[a] EXCEPT !.life = "archived", !.power = FALSE,
                                    !.trailer = FALSE]
            /\ row.life = "archived" /\ row.power = FALSE /\ row.trailer = FALSE
            /\ row.status = acct[a].status /\ row.kyc = acct[a].kyc
      <4>1. LET row == [acct[a] EXCEPT !.life = "archived", !.power = FALSE,
                                       !.trailer = FALSE] IN
            /\ row \in Row /\ row.life = "archived"
            /\ row.power = FALSE /\ row.trailer = FALSE
            /\ row.status = acct[a].status /\ row.kyc = acct[a].kyc
        BY <1>1 DEF Row, Life
      <4>. QED
        BY <4>1, Zenon
    <3>2. acct' = [acct EXCEPT ![a] = row]
      BY <2>1, <3>1 DEF DeleteAndArchive, TypeOK
    <3>. QED
      BY <2>1, <3>1, <3>2 DEF DeleteAndArchive, TypeOK, Deleted, Alive
  <2>. QED
    BY <2>1, <2>2 DEF DeleteAndArchive, TypeOK, history
<1>4. CASE PatchDriver(a)
  <2>1. acct' \in [Id -> Row] /\ Patched(a)
        /\ \A b \in Id \ {a} : acct'[b] = acct[b]
    <3>1. PICK row \in Row :
            /\ row = [acct[a] EXCEPT !.work = TRUE] /\ row.work
            /\ row.life = acct[a].life /\ row.phone = acct[a].phone
            /\ row.status = acct[a].status /\ row.kyc = acct[a].kyc
            /\ row.step = acct[a].step /\ row.power = acct[a].power
            /\ row.trailer = acct[a].trailer /\ row.active = acct[a].active
      <4>1. LET row == [acct[a] EXCEPT !.work = TRUE] IN
            /\ row \in Row /\ row.work
            /\ row.life = acct[a].life /\ row.phone = acct[a].phone
            /\ row.status = acct[a].status /\ row.kyc = acct[a].kyc
            /\ row.step = acct[a].step /\ row.power = acct[a].power
            /\ row.trailer = acct[a].trailer /\ row.active = acct[a].active
        BY <1>1 DEF Row
      <4>. QED
        BY <4>1, Zenon
    <3>2. acct' = [acct EXCEPT ![a] = row]
      BY <1>4, <3>1 DEF PatchDriver, TypeOK
    <3>. QED
      BY <1>4, <3>1, <3>2 DEF PatchDriver, Driving, TypeOK, Patched, Alive
  <2>. QED
    BY <1>4, <2>1 DEF PatchDriver, TypeOK, history
<1>5. CASE PatchPower(a) \/ PatchTrailer(a)
  <2>1. acct' \in [Id -> Row] /\ Patched(a)
        /\ \A b \in Id \ {a} : acct'[b] = acct[b]
    BY <1>5, WithType
    DEF PatchPower, PatchTrailer, Driving, TypeOK, Patched, Alive
  <2>. QED
    BY <1>5, <2>1 DEF PatchPower, PatchTrailer, TypeOK, history
<1>. QED
  BY <1>3, <1>4, <1>5 DEF Profile

\* Time, and the end of a handler
Lapse ==
  \/ \E s \in Session : ExpireSession(s)
  \/ \E t \in Ticket : ExpireTicket(t)

LEMMA LapseTypes ==
  ASSUME Types, Lapse
  PROVE  /\ TypeOK' /\ Tickets'
         /\ UNCHANGED <<kind, acct, req, history, faults>>
         /\ \A s \in Session :
              /\ session'[s].made = session[s].made
              /\ session'[s].phone \in {session[s].phone, Null}
<1>1. ASSUME NEW s \in Session, ExpireSession(s)
      PROVE  session' \in [Session -> [made: BOOLEAN, phone: Phone \cup {Null}]]
             /\ \A q \in Session :
                  /\ session'[q].made = session[q].made
                  /\ session'[q].phone \in {session[q].phone, Null}
  BY <1>1 DEF Types, ExpireSession, TypeOK
<1>2. ASSUME NEW t \in Ticket, ExpireTicket(t)
      PROVE  TypeOK' /\ Tickets'
  BY <1>2 DEF Types, ExpireTicket, TypeOK, Tickets, history
<1>. QED
  BY <1>1, <1>2
  DEF Lapse, ExpireSession, ExpireTicket, Types, TypeOK, Tickets, history

FailFrame(r) ==
  /\ UNCHANGED <<kind, acct, session, ticket, history>>
  /\ \A q \in Request \ {r} : req'[q] = req[q]
  /\ req' \in [Request -> Handler] /\ req'[r] = Idle
  /\ faults' = faults + 1

LEMMA FailTypes ==
  ASSUME Types, NEW r \in Request, Fail(r)
  PROVE  TypeOK' /\ FailFrame(r) /\ HandlerType(r)'
BY Values, IdleType
DEF Fail, Slip, Return, Types, TypeOK, FailFrame, HandlerType, history,
    RegisterPoint, ChangePoint, OnboardPoint

LEMMA NextCases ==
  ASSUME [Next]_vars
  PROVE  \/ \E r \in Request :
              Register(r) \/ ChangePhone(r) \/ Onboard(r) \/ Fail(r)
         \/ Lapse
         \/ \E a \in Id : Profile(a)
         \/ UNCHANGED vars
BY DEF Next, Lapse, Profile

LEMMA TypesInit == Init => Types
<1>. SUFFICES ASSUME Init PROVE Types
  OBVIOUS
<1>1. TypeOK
  BY Values, IdleType, NoRowType DEF Init, TypeOK
<1>2. \A r \in Request : HandlerType(r)
  BY IdleType
  DEF Init, HandlerType, RegisterPoint, ChangePoint, OnboardPoint
<1>. QED
  BY <1>1, <1>2 DEF Types, Tickets, Init

LEMMA TypesNext == Types /\ [Next]_vars => Types'
<1>. SUFFICES ASSUME Types, [Next]_vars PROVE Types'
  OBVIOUS
<1>. USE DEF Types
<1>1. ASSUME NEW r \in Request, Register(r) PROVE Types'
  BY <1>1, RegisterTypes DEF RegisterFrame, Moves, Tickets, HandlerType
<1>2. ASSUME NEW r \in Request, ChangePhone(r) PROVE Types'
  BY <1>2, ChangeTypes DEF ChangeFrame, Moves, HandlerType
<1>3. ASSUME NEW r \in Request, Onboard(r) PROVE Types'
  BY <1>3, OnboardTypes DEF OnboardFrame, Moves, Tickets, HandlerType
<1>4. ASSUME NEW r \in Request, Fail(r) PROVE Types'
  BY <1>4, FailTypes DEF FailFrame, Tickets, HandlerType
<1>5. CASE Lapse
  BY <1>5, LapseTypes DEF HandlerType
<1>6. ASSUME NEW a \in Id, Profile(a) PROVE Types'
  BY <1>6, ProfileTypes DEF Tickets, HandlerType
<1>7. CASE UNCHANGED vars
  BY <1>7 DEF vars, history, TypeOK, Tickets, HandlerType
<1>. QED
  BY <1>1, <1>2, <1>3, <1>4, <1>5, <1>6, <1>7, NextCases

\* What every handler has read fits the statement it stands before.
THEOREM TypesHold == Spec => []Types
BY TypesInit, TypesNext, PTL DEF Spec

\* TypeOK of the accounts, their sessions, tickets and handlers.
THEOREM TypeCorrect == Spec => []TypeOK
<1>1. Types => TypeOK
  BY DEF Types
<1>. QED
  BY <1>1, TypesHold, PTL

-----------------------------------------------------------------------------
(* Phones *)

\* The phone of an account, and the one a handler or a session is going to
\* make an account's, has been answered. Rows that are not alive are bare.
RowPhone(a) ==
  /\ acct[a].life = "none" => acct[a] = NoRow
  /\ acct[a].life = "archived" =>
       acct[a].power = FALSE /\ acct[a].trailer = FALSE
  /\ acct[a].life = "alive" => acct[a].phone \in answered
PhoneApart(a, b) ==
  acct[a].life = "alive" /\ acct[b].life = "alive" /\ a # b =>
    acct[a].phone # acct[b].phone
HandlerPhone(r) ==
  req[r].at \in RegisterPoint \cup {"spend", "change"} =>
    req[r].phone \in answered
SessionPhone(s) == session[s].phone # Null => session[s].phone \in answered

PhoneInv ==
  /\ \A a \in Id : RowPhone(a)
  /\ \A a, b \in Id : PhoneApart(a, b)
  /\ \A r \in Request : HandlerPhone(r)
  /\ \A s \in Session : SessionPhone(s)

LEMMA PhoneInit == Init => PhoneInv
BY NoRowType, IdleType
DEF Init, PhoneInv, RowPhone, PhoneApart, HandlerPhone, SessionPhone,
    RegisterPoint

\* Where nothing about phones changes but that r moves, only r matters.
LEMMA PhoneFrame ==
  ASSUME Types, PhoneInv, NEW r \in Request,
         \A q \in Request \ {r} : req'[q] = req[q],
         answered \subseteq answered', HandlerPhone(r)',
         \A a \in Id : acct'[a] = acct[a] \/ Worked(a),
         \A s \in Session :
           session'[s].phone = session[s].phone \/ SessionPhone(s)'
  PROVE  PhoneInv'
<1>1. ASSUME NEW a \in Id PROVE RowPhone(a)'
  BY DEF PhoneInv, RowPhone, Worked
<1>2. ASSUME NEW a \in Id, NEW b \in Id PROVE PhoneApart(a, b)'
  BY DEF PhoneInv, PhoneApart, Worked
<1>3. ASSUME NEW q \in Request PROVE HandlerPhone(q)'
  BY DEF PhoneInv, HandlerPhone
<1>4. ASSUME NEW s \in Session PROVE SessionPhone(s)'
  BY DEF PhoneInv, SessionPhone
<1>. QED
  BY <1>1, <1>2, <1>3, <1>4 DEF PhoneInv

\* An account gets a phone that nobody else has.
LEMMA PhoneGiven ==
  ASSUME Types, PhoneInv, NEW r \in Request, Return(r),
         UNCHANGED <<session, answered>>,
         NEW a \in Id, req[r].phone \in answered,
         acct[a].life # "archived",
         Holder(req[r].phone) \subseteq {a},
         acct'[a].life = "alive", acct'[a].phone = req[r].phone,
         \A b \in Id \ {a} : acct'[b] = acct[b]
  PROVE  PhoneInv'
<1>1. ASSUME NEW b \in Id PROVE RowPhone(b)'
  BY DEF PhoneInv, RowPhone
<1>2. ASSUME NEW b \in Id, NEW c \in Id PROVE PhoneApart(b, c)'
  BY DEF PhoneInv, PhoneApart, Holder, Alive
<1>3. ASSUME NEW q \in Request PROVE HandlerPhone(q)'
  BY IdleType
  DEF PhoneInv, HandlerPhone, Return, Types, TypeOK, RegisterPoint
<1>4. ASSUME NEW s \in Session PROVE SessionPhone(s)'
  BY DEF PhoneInv, SessionPhone
<1>. QED
  BY <1>1, <1>2, <1>3, <1>4 DEF PhoneInv

\* A handler keeps its phone until it returns.
LEMMA PhoneKept ==
  ASSUME TypeOK, PhoneInv, NEW r \in Request, UNCHANGED answered,
         req[r].at \in RegisterPoint \cup {"spend"},
         Return(r) \/ \E p \in Point : Goto(r, p)
  PROVE  HandlerPhone(r)'
<1>1. CASE Return(r)
  BY <1>1, IdleType DEF Return, TypeOK, HandlerPhone, RegisterPoint
<1>2. ASSUME NEW p \in Point, Goto(r, p) PROVE HandlerPhone(r)'
  <2>1. req'[r].phone = req[r].phone
    BY <1>2 DEF Goto, TypeOK, Handler
  <2>. QED
    BY <2>1 DEF PhoneInv, HandlerPhone
<1>. QED
  BY <1>1, <1>2

LEMMA PhoneRegister ==
  ASSUME Types, PhoneInv, NEW r \in Request, Register(r)
  PROVE  PhoneInv'
<1>0. Moves(r, RegisterPoint) /\ TypeOK
  BY RegisterTypes DEF RegisterFrame, Types
<1>. USE IdleType DEF Moves
<1>1. ASSUME NEW p \in Phone, Verified(r, p) PROVE PhoneInv'
  <2>1. req'[r].phone = p /\ answered' = answered \cup {p}
    BY <1>1 DEF Verified, Begin, Types, TypeOK, Handler
  <2>. QED
    BY <1>0, <1>1, <2>1, PhoneFrame DEF Verified, HandlerPhone
<1>2. ASSUME FindVerified(r) \/ FindExisting(r) PROVE PhoneInv'
  <2>1. HandlerPhone(r)'
    BY <1>0, <1>2, PhoneKept
    DEF FindVerified, FindExisting, At, Point, RegisterPoint, history
  <2>. QED
    BY <1>0, <1>2, <2>1, PhoneFrame DEF FindVerified, FindExisting, history
<1>3. ASSUME NEW s \in Session, CreateSession(r, s) PROVE PhoneInv'
  <2>1. /\ HandlerPhone(r)'
        /\ \A q \in Session :
             session'[q].phone = session[q].phone \/ SessionPhone(q)'
    BY <1>0, <1>3
    DEF CreateSession, At, Return, TypeOK, PhoneInv, HandlerPhone,
        SessionPhone, RegisterPoint, history
  <2>. QED
    BY <1>0, <1>3, <2>1, PhoneFrame DEF CreateSession, history
<1>4. ASSUME NEW s \in Session, ReadSession(r, s) PROVE PhoneInv'
  <2>1. req'[r].phone = session[s].phone
    BY <1>0, <1>4 DEF ReadSession, Begin, TypeOK, Handler
  <2>2. HandlerPhone(r)'
    BY <1>4, <2>1 DEF ReadSession, PhoneInv, SessionPhone, HandlerPhone
  <2>. QED
    BY <1>0, <1>4, <2>2, PhoneFrame DEF ReadSession
<1>5. ASSUME ConsumeSession(r) PROVE PhoneInv'
  <2>1. HandlerPhone(r)'
    BY <1>0, <1>5, PhoneKept DEF ConsumeSession, At, Point, RegisterPoint
  <2>2. \A q \in Session :
          session'[q].phone = session[q].phone \/ SessionPhone(q)'
    BY <1>0, <1>5 DEF ConsumeSession, TypeOK, SessionPhone
  <2>. QED
    BY <1>0, <1>5, <2>1, <2>2, PhoneFrame DEF ConsumeSession
<1>7. ASSUME Insert(r) PROVE PhoneInv'
  <2>1. req[r].phone \in answered
    BY <1>7 DEF Insert, At, PhoneInv, HandlerPhone, RegisterPoint
  <2>2. CASE UNCHANGED acct
    <3>1. HandlerPhone(r)'
      BY <1>0, <1>7 DEF Insert, Return, HandlerPhone, TypeOK, RegisterPoint
    <3>. QED
      BY <1>0, <1>7, <2>2, <3>1, PhoneFrame DEF Insert
  <2>3. CASE ~UNCHANGED acct
    <3>1. PICK a \in Id :
            /\ acct[a] = NoRow /\ Holder(req[r].phone) = {}
            /\ acct' = [acct EXCEPT ![a] =
                 [NoRow EXCEPT !.life = "alive", !.phone = req[r].phone]]
      BY <1>7, <2>3 DEF Insert
    <3>2. acct'[a].life = "alive" /\ acct'[a].phone = req[r].phone
      BY <1>0, <3>1, NoRowType DEF TypeOK, Row
    <3>. QED
      BY <1>0, <1>7, <2>1, <3>1, <3>2, NoRowType, PhoneGiven
      DEF Insert, TypeOK
  <2>. QED
    BY <2>2, <2>3
<1>. QED
  BY <1>1, <1>2, <1>3, <1>4, <1>5, <1>7
  DEF Register, Start, Complete, CompleteUser, CreateStart, CreateDispatcher,
      CreateUser

LEMMA PhoneChange ==
  ASSUME Types, PhoneInv, NEW r \in Request, ChangePhone(r)
  PROVE  PhoneInv'
<1>0. Moves(r, ChangePoint) /\ TypeOK
  BY ChangeTypes DEF ChangeFrame, Types
<1>. USE IdleType DEF Moves
<1>1. ASSUME NEW a \in Id, NEW p \in Phone, AskPhone(r, a, p) PROVE PhoneInv'
  <2>1. req'[r].at = "ask"
    BY <1>0, <1>1 DEF AskPhone, Begin, TypeOK, Handler
  <2>. QED
    BY <1>0, <1>1, <2>1, PhoneFrame
    DEF AskPhone, history, HandlerPhone, RegisterPoint
<1>2. ASSUME NEW t \in Ticket, CreateTicket(r, t) PROVE PhoneInv'
  <2>1. req'[r].at = "idle"
    BY <1>0, <1>2 DEF CreateTicket, Return, TypeOK
  <2>. QED
    BY <1>0, <1>2, <2>1, PhoneFrame
    DEF CreateTicket, history, HandlerPhone, RegisterPoint
<1>3. ASSUME NEW t \in Ticket, TakeTicket(r, t) PROVE PhoneInv'
  <2>1. req'[r].phone = ticket[t].phone
    BY <1>0, <1>3 DEF TakeTicket, Begin, TypeOK, Handler
  <2>. QED
    BY <1>0, <1>3, <2>1, PhoneFrame DEF TakeTicket, HandlerPhone
<1>4. ASSUME SpendTicket(r) PROVE PhoneInv'
  <2>1. HandlerPhone(r)'
    BY <1>0, <1>4, PhoneKept DEF SpendTicket, At, Point, history
  <2>. QED
    BY <1>0, <1>4, <2>1, PhoneFrame DEF SpendTicket, history
<1>5. ASSUME UpdatePhone(r) PROVE PhoneInv'
  <2>1. /\ req[r].phone \in answered /\ req[r].id \in Id
    BY <1>5
    DEF UpdatePhone, At, PhoneInv, HandlerPhone, Types, HandlerType,
        ChangePoint
  <2>2. CASE UNCHANGED acct
    <3>1. HandlerPhone(r)'
      BY <1>0, <1>5
      DEF UpdatePhone, Return, HandlerPhone, TypeOK, RegisterPoint
    <3>. QED
      BY <1>0, <1>5, <2>2, <3>1, PhoneFrame DEF UpdatePhone, history
  <2>3. CASE ~UNCHANGED acct
    <3>1. PICK a \in Id :
            /\ req[r].id = a /\ Alive(a) /\ Holder(req[r].phone) \subseteq {a}
            /\ acct' = [acct EXCEPT ![a] =
                 [acct[a] EXCEPT !.phone = req[r].phone]]
      BY <1>5, <2>1, <2>3 DEF UpdatePhone, Update
    <3>2. acct'[a].life = "alive" /\ acct'[a].phone = req[r].phone
      BY <1>0, <3>1 DEF TypeOK, Row, Alive
    <3>. QED
      BY <1>0, <1>5, <2>1, <3>1, <3>2, PhoneGiven
      DEF UpdatePhone, TypeOK, Alive, history
  <2>. QED
    BY <2>2, <2>3
<1>. QED
  BY <1>1, <1>2, <1>3, <1>4, <1>5
  DEF ChangePhone, PhoneChangeRequest, DispatcherPhoneChangeRequest,
      PhoneChangeVerify, DispatcherPhoneChangeVerify

LEMMA PhoneNext == Types /\ PhoneInv /\ [Next]_vars => PhoneInv'
<1>. SUFFICES ASSUME Types, PhoneInv, [Next]_vars PROVE PhoneInv'
  OBVIOUS
<1>1. ASSUME NEW r \in Request, Onboard(r) PROVE PhoneInv'
  <2>1. OnboardFrame(r)
    BY <1>1, OnboardTypes
  <2>2. HandlerPhone(r)'
    BY <2>1
    DEF OnboardFrame, Moves, HandlerPhone, OnboardPoint, RegisterPoint
  <2>. QED
    BY <2>1, <2>2, PhoneFrame DEF OnboardFrame, Moves
<1>2. ASSUME NEW r \in Request, Fail(r) PROVE PhoneInv'
  <2>1. FailFrame(r)
    BY <1>2, FailTypes
  <2>2. HandlerPhone(r)'
    BY <2>1, IdleType DEF FailFrame, HandlerPhone, RegisterPoint
  <2>. QED
    BY <2>1, <2>2, PhoneFrame DEF FailFrame, history
<1>3. CASE Lapse
  BY <1>3, LapseTypes
  DEF PhoneInv, RowPhone, PhoneApart, HandlerPhone, SessionPhone, history
<1>4. ASSUME NEW a \in Id, Profile(a) PROVE PhoneInv'
  <2>1. /\ UNCHANGED <<session, req, answered>>
        /\ \A b \in Id : acct'[b] = acct[b] \/ Deleted(b) \/ Patched(b)
    BY <1>4, ProfileTypes DEF history
  <2>2. ASSUME NEW b \in Id PROVE RowPhone(b)'
    BY <2>1 DEF PhoneInv, RowPhone, Deleted, Patched
  <2>3. ASSUME NEW b \in Id, NEW c \in Id PROVE PhoneApart(b, c)'
    BY <2>1 DEF PhoneInv, PhoneApart, Deleted, Patched
  <2>. QED
    BY <2>1, <2>2, <2>3 DEF PhoneInv, HandlerPhone, SessionPhone
<1>5. CASE UNCHANGED vars
  BY <1>5
  DEF PhoneInv, RowPhone, PhoneApart, HandlerPhone, SessionPhone, vars,
      history
<1>. QED
  BY <1>1, <1>2, <1>3, <1>4, <1>5, PhoneRegister, PhoneChange, NextCases

\* Every phone written to an account was answered, and once written it is
\* taken: the inductive form of PhoneOwned.
THEOREM PhonesHold == Spec => [](Types /\ PhoneInv)
<1>1. Init => Types /\ PhoneInv
  BY TypesInit, PhoneInit
<1>2. Types /\ PhoneInv /\ [Next]_vars => (Types /\ PhoneInv)'
  BY TypesNext, PhoneNext
<1>. QED
  BY <1>1, <1>2, PTL DEF Spec

\* The phone of an account has been answered, and is nobody else's, whatever
\* registrations, changes and deletions overlap.
THEOREM Owned == Spec => []PhoneOwned
<1>1. Types /\ PhoneInv => PhoneOwned
  BY DEF PhoneInv, RowPhone, PhoneApart, PhoneOwned, Holder, Alive
<1>. QED
  BY <1>1, PhonesHold, PTL

\* No handler that outlives an account changes what is in the archive or
\* leaves a vehicle without its driver.
THEOREM Frozen == Spec => ArchivedIsFrozen
<1>1. Types /\ PhoneInv /\ (Types /\ PhoneInv)' /\ [Next]_vars =>
        \A a \in Id :
          /\ acct[a].life = "archived" => acct'[a] = acct[a]
          /\ acct'[a].life # "alive" => ~acct'[a].power /\ ~acct'[a].trailer
  <2>. SUFFICES ASSUME Types, PhoneInv, Types', PhoneInv', [Next]_vars,
                       NEW a \in Id
                PROVE  /\ acct[a].life = "archived" => acct'[a] = acct[a]
                       /\ acct'[a].life # "alive" =>
                            ~acct'[a].power /\ ~acct'[a].trailer
    OBVIOUS
  <2>1. \/ acct'[a] = acct[a] \/ Founded(a) \/ Renamed(a) \/ Worked(a)
        \/ Deleted(a) \/ Patched(a)
    BY NextCases, RegisterTypes, ChangeTypes, OnboardTypes, FailTypes,
       LapseTypes, ProfileTypes
    DEF RegisterFrame, ChangeFrame, OnboardFrame, FailFrame, vars
  <2>2. acct[a].life = "archived" => acct'[a] = acct[a]
    BY <2>1, NoRowType
    DEF Founded, Renamed, Worked, Deleted, Patched
  <2>3. acct'[a].life \in Life
    BY DEF Types, TypeOK, Row
  <2>4. RowPhone(a)'
    BY DEF PhoneInv
  <2>. QED
    BY <2>2, <2>3, <2>4, NoRowType DEF RowPhone, Life
<1>. QED
  BY <1>1, PhonesHold, PTL DEF Spec, ArchivedIsFrozen

-----------------------------------------------------------------------------
(* Status *)

\* Without a race there is one handler that is going to write the status of
\* a driver, and what it writes is no less than what is there.
WritePoint == {"transport.row", "kyc.row"}
Writing(r, a) == req[r].at \in WritePoint /\ req[r].id = a

WriterInv(r) == req[r].at = "kyc.row" /\ req[r].full => req[r].status = "full"
OneWriter(a) ==
  \A q, r \in Request : Writing(q, a) /\ Writing(r, a) => q = r
Ahead(a) ==
  \A r \in Request : Writing(r, a) =>
    Rank(req[r].status) >= Rank(acct[a].status)
Approved(a) == acct[a].kyc = "approved" => acct[a].status = "full"

StatusInv ==
  /\ \A r \in Request : WriterInv(r)
  /\ \A a \in Id \ raced : OneWriter(a) /\ Ahead(a) /\ Approved(a)

Risen ==
  \A a \in Id : a \in raced' \/ Rank(acct'[a].status) >= Rank(acct[a].status)

LEMMA RankType ==
  ASSUME TypeOK
  PROVE  /\ \A s \in StatusValue : Rank(s) \in 1 .. 3 /\ Rank("full") >= Rank(s)
         /\ \A s \in StatusValue : s # "full" => Rank("basic") >= Rank(s)
         /\ \A s \in StatusValue : Rank(s) >= Rank("full") => s = "full"
         /\ \A a \in Id : acct[a].status \in StatusValue
         /\ \A r \in Request : req[r].status \in StatusValue
<1>1. /\ \A a \in Id : acct[a].status \in StatusValue
      /\ \A r \in Request : req[r].status \in StatusValue
  BY StatusValues DEF TypeOK, Row, Handler
<1>. QED
  BY <1>1, StatusValues DEF StatusValue

LEMMA StatusInit == Init => StatusInv
BY NoRowType, IdleType
DEF Init, StatusInv, WriterInv, OneWriter, Ahead, Approved, Writing,
    WritePoint

\* Nobody begins or carries out a write of a status.
LEMMA StatusFrame ==
  ASSUME Types, StatusInv, raced \subseteq raced',
         \A a \in Id : /\ acct'[a].status = acct[a].status
                       /\ acct'[a].kyc = acct[a].kyc,
         \A q \in Request : req'[q] = req[q] \/ req'[q].at \notin WritePoint
  PROVE  StatusInv' /\ Risen
<1>1. ASSUME NEW q \in Request PROVE WriterInv(q)'
  BY DEF StatusInv, WriterInv, WritePoint
<1>2. ASSUME NEW a \in Id \ raced'
      PROVE  OneWriter(a)' /\ Ahead(a)' /\ Approved(a)'
  <2>1. \A q \in Request : Writing(q, a)' => Writing(q, a) /\ req'[q] = req[q]
    BY DEF Writing
  <2>. QED
    BY <2>1 DEF StatusInv, OneWriter, Ahead, Approved
<1>3. Risen
  BY RankType DEF Risen, Types
<1>. QED
  BY <1>1, <1>2, <1>3 DEF StatusInv

\* A handler reads the row of a, and is going to write its status.
LEMMA StatusRead ==
  ASSUME Types, StatusInv, NEW r \in Request, NEW a \in Id,
         NEW h \in Handler, Begin(r, h),
         h.at \in WritePoint, h.id = a,
         h.at = "kyc.row" /\ h.full => h.status = "full",
         Rank(h.status) >= Rank(acct[a].status),
         raced' = IF Reading(a) THEN raced \cup {a} ELSE raced,
         UNCHANGED acct
  PROVE  StatusInv' /\ Risen
<1>1. req'[r] = h /\ \A q \in Request \ {r} : req'[q] = req[q]
  BY DEF Begin, Types, TypeOK
<1>2. ASSUME NEW q \in Request PROVE WriterInv(q)'
  BY <1>1 DEF StatusInv, WriterInv
<1>3. ASSUME NEW b \in Id \ raced'
      PROVE  OneWriter(b)' /\ Ahead(b)' /\ Approved(b)'
  <2>1. b \in Id \ raced
    BY <1>3
  <2>2. OneWriter(b) /\ Ahead(b) /\ Approved(b)
    BY <2>1 DEF StatusInv
  <2>3. \A q \in Request : q # r => (Writing(q, b)' <=> Writing(q, b))
    BY <1>1 DEF Writing
  <2>4. CASE b = a
    <3>1. \A q \in Request : ~Writing(q, b)
      BY <1>3, <2>4 DEF Reading, Writing, WritePoint
    <3>. QED
      BY <1>1, <2>2, <2>3, <2>4, <3>1 DEF OneWriter, Ahead, Approved
  <2>5. CASE b # a
    <3>1. ~Writing(r, b)'
      BY <1>1, <2>5 DEF Writing
    <3>. QED
      BY <1>1, <2>2, <2>3, <3>1 DEF OneWriter, Ahead, Approved
  <2>. QED
    BY <2>4, <2>5
<1>4. Risen
  BY RankType DEF Risen, Types
<1>. QED
  BY <1>2, <1>3, <1>4 DEF StatusInv

\* It writes the status it has in mind.
LEMMA StatusWrite ==
  ASSUME Types, StatusInv, NEW r \in Request, NEW a \in Id,
         req[r].at \in WritePoint, req[r].id = a,
         \A q \in Request \ {r} : req'[q] = req[q],
         req'[r].at \notin WritePoint, UNCHANGED raced,
         \A b \in Id \ {a} : acct'[b] = acct[b],
         \/ acct'[a] = acct[a]
         \/ /\ acct'[a].status = req[r].status
            /\ \/ acct'[a].kyc = acct[a].kyc
               \/ acct'[a].kyc # "approved"
               \/ req[r].at = "kyc.row" /\ req[r].full
  PROVE  StatusInv' /\ Risen
<1>1. ASSUME NEW q \in Request PROVE WriterInv(q)'
  BY DEF StatusInv, WriterInv, WritePoint
<1>2. ASSUME NEW b \in Id \ raced'
      PROVE  OneWriter(b)' /\ Ahead(b)' /\ Approved(b)'
  <2>1. OneWriter(b) /\ Ahead(b) /\ Approved(b)
    BY <1>2 DEF StatusInv
  <2>2. \A q \in Request : Writing(q, b)' =>
          Writing(q, b) /\ q # r /\ req'[q] = req[q]
    BY DEF Writing
  <2>3. OneWriter(b)'
    BY <2>1, <2>2 DEF OneWriter
  <2>4. CASE acct'[b] = acct[b]
    BY <2>1, <2>2, <2>3, <2>4 DEF Ahead, Approved
  <2>5. CASE acct'[b] # acct[b]
    <3>1. b = a /\ Writing(r, b)
      BY <2>5 DEF Writing
    <3>2. Ahead(b)'
      BY <2>1, <2>2, <3>1 DEF OneWriter, Ahead
    <3>3. Rank(req[r].status) >= Rank(acct[a].status)
      BY <2>1, <3>1 DEF Ahead
    <3>4. Approved(b)'
      BY <2>1, <2>5, <3>1, <3>3, RankType
      DEF Approved, StatusInv, WriterInv, Types
    <3>. QED
      BY <2>3, <3>2, <3>4
  <2>. QED
    BY <2>4, <2>5
<1>3. Risen
  <2>. SUFFICES ASSUME NEW b \in Id, b \notin raced'
                PROVE  Rank(acct'[b].status) >= Rank(acct[b].status)
    BY DEF Risen
  <2>1. CASE acct'[b] = acct[b]
    BY <2>1, RankType DEF Types
  <2>2. CASE acct'[b] # acct[b]
    BY <2>2 DEF StatusInv, Ahead, Writing
  <2>. QED
    BY <2>1, <2>2
<1>. QED
  BY <1>1, <1>2, <1>3 DEF StatusInv

LEMMA StatusOnboard ==
  ASSUME Types, StatusInv, NEW r \in Request, Onboard(r)
  PROVE  StatusInv' /\ Risen
<1>0. /\ OnboardFrame(r) /\ TypeOK /\ TypeOK' /\ HandlerType(r)
      /\ \A q \in Request \ {r} : req'[q] = req[q]
  BY OnboardTypes DEF Types, OnboardFrame, Moves
<1>1. ASSUME NEW a \in Id, GeoPush(r, a) PROVE StatusInv' /\ Risen
  <2>1. req'[r].at = "geo.row"
    BY <1>0, <1>1, IdleType DEF GeoPush, Begin, TypeOK, Handler
  <2>. QED
    BY <1>0, <1>1, <2>1, StatusFrame DEF GeoPush, history, WritePoint
<1>2. ASSUME NEW a \in Id, TransportType(r, a) PROVE StatusInv' /\ Risen
  <2>1. PICK h \in Handler :
          /\ Begin(r, h) /\ h.at = "transport.row" /\ h.id = a
          /\ h.status = IF acct[a].status = "full" THEN "full" ELSE "basic"
    BY <1>0, <1>2, Beginnings
  <2>2. Rank(h.status) >= Rank(acct[a].status)
    BY <1>0, <2>1, RankType
  <2>. QED
    BY <1>2, <2>1, <2>2, StatusRead DEF TransportType, WritePoint
<1>3. ASSUME NEW a \in Id, NEW full \in BOOLEAN, Submit(r, a, full)
      PROVE  StatusInv' /\ Risen
  <2>1. PICK h \in Handler :
          /\ Begin(r, h) /\ h.at = "kyc.row" /\ h.id = a /\ h.full = full
          /\ h.status = IF full THEN "full" ELSE acct[a].status
    BY <1>0, <1>3, Beginnings
  <2>2. Rank(h.status) >= Rank(acct[a].status)
    BY <1>0, <2>1, RankType
  <2>. QED
    BY <1>3, <2>1, <2>2, StatusRead DEF Submit, WritePoint
<1>4. ASSUME \/ UpdateGeo(r) \/ ApplyFullDefaults(r)
             \/ TransportPower(r) \/ TransportTrailer(r)
             \/ KycPower(r) \/ KycTrailer(r)
      PROVE  StatusInv' /\ Risen
  <2>1. PICK a \in Id : req[r].id = a
    BY <1>0, <1>4
    DEF UpdateGeo, ApplyFullDefaults, TransportPower, TransportTrailer,
        KycPower, KycTrailer, At, HandlerType, OnboardPoint
  <2>2. acct[a] \in Row
    BY <1>0 DEF TypeOK
  <2>3. \A b \in Id : /\ acct'[b].status = acct[b].status
                      /\ acct'[b].kyc = acct[b].kyc
    <3>1. CASE UpdateGeo(r)
      BY <1>0, <2>1, <2>2, <3>1 DEF UpdateGeo, Update, TypeOK, Row
    <3>2. CASE ApplyFullDefaults(r)
      BY <1>0, <2>1, <2>2, <3>2 DEF ApplyFullDefaults, Update, TypeOK, Row
    <3>3. ASSUME NEW row \in {WithPower(a), WithTrailer(a)}, Update(a, row)
          PROVE  \A b \in Id : /\ acct'[b].status = acct[b].status
                                /\ acct'[b].kyc = acct[b].kyc
      <4>1. row.status = acct[a].status /\ row.kyc = acct[a].kyc
        BY <2>2, <3>3 DEF WithPower, WithTrailer, Row
      <4>. QED
        BY <1>0, <3>3, <4>1 DEF Update, TypeOK
    <3>. QED
      BY <1>4, <2>1, <3>1, <3>2, <3>3
      DEF TransportPower, TransportTrailer, KycPower, KycTrailer, Upsert
  <2>4. req'[r].at \notin WritePoint
    BY <1>0, <1>4, IdleType
    DEF UpdateGeo, ApplyFullDefaults, TransportPower, TransportTrailer,
        KycPower, KycTrailer, Upsert, Return, Goto, TypeOK, Handler,
        WritePoint
  <2>5. UNCHANGED raced
    BY <1>4
    DEF UpdateGeo, ApplyFullDefaults, TransportPower, TransportTrailer,
        KycPower, KycTrailer, Upsert, history
  <2>. QED
    BY <1>0, <2>3, <2>4, <2>5, StatusFrame
<1>5. ASSUME TransportRow(r) \/ KycRow(r) PROVE StatusInv' /\ Risen
  <2>1. PICK a \in Id : req[r].id = a
    BY <1>0, <1>5 DEF TransportRow, KycRow, At, HandlerType, OnboardPoint
  <2>2. acct[a] \in Row
    BY <1>0 DEF TypeOK
  <2>3. /\ \A b \in Id \ {a} : acct'[b] = acct[b]
        /\ \/ acct'[a] = acct[a]
           \/ /\ acct'[a].status = req[r].status
              /\ \/ acct'[a].kyc = acct[a].kyc \/ acct'[a].kyc # "approved"
                 \/ req[r].at = "kyc.row" /\ req[r].full
    <3>1. CASE TransportRow(r)
      BY <1>0, <2>1, <2>2, <3>1 DEF TransportRow, Update, TypeOK, Row
    <3>2. CASE KycRow(r)
      BY <1>0, <2>1, <2>2, <3>2 DEF KycRow, At, Update, TypeOK, Row
    <3>. QED
      BY <1>5, <3>1, <3>2
  <2>4. req[r].at \in WritePoint /\ req'[r].at \notin WritePoint
    BY <1>0, <1>5
    DEF TransportRow, KycRow, At, Goto, TypeOK, Handler, WritePoint
  <2>5. UNCHANGED raced
    BY <1>5 DEF TransportRow, KycRow, history
  <2>. QED
    BY <1>0, <2>1, <2>3, <2>4, <2>5, StatusWrite
<1>. QED
  BY <1>1, <1>2, <1>3, <1>4, <1>5 DEF Onboard

LEMMA StatusNext == Types /\ StatusInv /\ [Next]_vars => StatusInv' /\ Risen
<1>. SUFFICES ASSUME Types, StatusInv, [Next]_vars PROVE StatusInv' /\ Risen
  OBVIOUS
<1>1. ASSUME NEW r \in Request, Register(r) PROVE StatusInv' /\ Risen
  BY <1>1, RegisterTypes, StatusFrame, NoRowType
  DEF RegisterFrame, Founded, Moves, RegisterPoint, WritePoint
<1>2. ASSUME NEW r \in Request, ChangePhone(r) PROVE StatusInv' /\ Risen
  BY <1>2, ChangeTypes, StatusFrame
  DEF ChangeFrame, Renamed, Moves, ChangePoint, WritePoint
<1>3. ASSUME NEW r \in Request, Fail(r) PROVE StatusInv' /\ Risen
  BY <1>3, FailTypes, StatusFrame, IdleType DEF FailFrame, WritePoint, history
<1>4. CASE Lapse
  BY <1>4, LapseTypes, StatusFrame DEF history
<1>5. ASSUME NEW a \in Id, Profile(a) PROVE StatusInv' /\ Risen
  BY <1>5, ProfileTypes, StatusFrame DEF history, Deleted, Patched
<1>6. CASE UNCHANGED vars
  BY <1>6, StatusFrame DEF vars, history
<1>. QED
  BY <1>1, <1>2, <1>3, <1>4, <1>5, <1>6, StatusOnboard, NextCases

\* The status a handler is about to write is never below what the row holds:
\* the inductive form of ApprovedIsFull and StatusKept.
THEOREM StatusHolds == Spec => [](Types /\ StatusInv)
<1>1. Init => Types /\ StatusInv
  BY TypesInit, StatusInit
<1>2. Types /\ StatusInv /\ [Next]_vars => (Types /\ StatusInv)'
  BY TypesNext, StatusNext
<1>. QED
  BY <1>1, <1>2, PTL DEF Spec

\* A driver whose handlers did not race for his status is fully registered
\* once his documents are approved.
THEOREM ApprovedFull == Spec => []ApprovedIsFull
<1>1. Types /\ StatusInv => ApprovedIsFull
  BY DEF StatusInv, Approved, ApprovedIsFull
<1>. QED
  BY <1>1, StatusHolds, PTL

\* And his status never falls back.
THEOREM Kept == Spec => StatusKept
<1>1. Types /\ StatusInv /\ [Next]_vars =>
        \A a \in Id : Alive(a) /\ acct'[a].life = "alive" =>
          Rank(acct'[a].status) >= Rank(acct[a].status) \/ a \in raced'
  BY StatusNext DEF Risen
<1>. QED
  BY <1>1, StatusHolds, PTL DEF Spec, StatusKept

-----------------------------------------------------------------------------
(* Sessions *)

\* Who registers with session s. Unless it is shared there is one at a time,
\* he is past its deletion or it is still there, and once an account is born
\* of it nobody is left who could make another.
UsePoint == {"consume", "find", "insert"}
Using(r, s) == req[r].at \in UsePoint /\ req[r].session = s

Made(s) ==
  /\ session[s].phone # Null => session[s].made
  /\ \A r \in Request : Using(r, s) => session[s].made
  /\ \A a \in Id : born[a] = s => session[s].made
OneUser(s) == \A q, r \in Request : Using(q, s) /\ Using(r, s) => q = r
Used(s) ==
  \A r \in Request : Using(r, s) /\ req[r].at # "consume" =>
    session[s].phone = Null
Bearing(s) ==
  \A a \in Id : born[a] = s =>
    /\ session[s].phone = Null
    /\ \A r \in Request : ~Using(r, s)
    /\ \A b \in Id : born[b] = s => a = b

SessionInv ==
  /\ \A s \in Session : Made(s)
  /\ \A s \in Session \ shared : OneUser(s) /\ Used(s) /\ Bearing(s)

LEMMA SessionInit == Init => SessionInv
BY Values, IdleType
DEF Init, SessionInv, Made, OneUser, Used, Bearing, Using, UsePoint

\* Nobody takes up a session, none is made and no account is born of one.
LEMMA SessionFrame ==
  ASSUME Types, SessionInv, shared \subseteq shared', UNCHANGED born,
         \A s \in Session :
           /\ session'[s].made = session[s].made
           /\ session'[s].phone \in {session[s].phone, Null},
         \A q \in Request : \A s \in Session : Using(q, s)' =>
           /\ Using(q, s)
           /\ \/ req'[q].at = "consume" \/ req[q].at # "consume"
              \/ session'[s].phone = Null \/ s \in shared'
  PROVE  SessionInv'
<1>1. ASSUME NEW s \in Session PROVE Made(s)'
  BY DEF SessionInv, Made
<1>2. ASSUME NEW s \in Session \ shared'
      PROVE  OneUser(s)' /\ Used(s)' /\ Bearing(s)'
  <2>1. OneUser(s) /\ Used(s) /\ Bearing(s) /\ s \in Session /\ s \notin shared'
    BY DEF SessionInv
  <2>2. OneUser(s)'
    BY <2>1 DEF OneUser
  <2>3. Used(s)'
    BY <2>1 DEF Used
  <2>4. Bearing(s)'
    BY <2>1 DEF Bearing
  <2>. QED
    BY <2>2, <2>3, <2>4
<1>. QED
  BY <1>1, <1>2 DEF SessionInv

\* A handler that does not register with a session, or returns.
LEMMA SessionElsewhere ==
  ASSUME Types, SessionInv, UNCHANGED <<born, shared>>,
         \A s \in Session :
           /\ session'[s].made = session[s].made
           /\ session'[s].phone \in {session[s].phone, Null},
         \A q \in Request : req'[q] = req[q] \/ req'[q].at \notin UsePoint
  PROVE  SessionInv'
BY SessionFrame DEF Using

LEMMA SessionRead ==
  ASSUME Types, SessionInv, NEW r \in Request, NEW s \in Session,
         ReadSession(r, s)
  PROVE  SessionInv'
<1>1. /\ req'[r].at = "consume" /\ req'[r].session = s /\ req[r] = Idle
      /\ \A q \in Request \ {r} : req'[q] = req[q]
  BY IdleType DEF ReadSession, Begin, Types, TypeOK, Handler
<1>2. session[s].made /\ session[s].phone # Null
  BY DEF ReadSession, SessionInv, Made
<1>3. \A q \in Request, t \in Session : Using(q, t)' =>
        Using(q, t) \/ (q = r /\ t = s)
  BY <1>1 DEF Using
<1>4. ASSUME NEW t \in Session PROVE Made(t)'
  BY <1>2, <1>3 DEF ReadSession, SessionInv, Made
<1>5. ASSUME NEW t \in Session \ shared'
      PROVE  OneUser(t)' /\ Used(t)' /\ Bearing(t)'
  <2>1. t \in Session /\ t \notin shared /\ t \notin shared'
    BY DEF ReadSession
  <2>2. OneUser(t) /\ Used(t) /\ Bearing(t)
    BY <2>1 DEF SessionInv
  <2>3. CASE t # s
    <3>1. \A q \in Request : Using(q, t)' <=> Using(q, t)
      BY <1>1, <2>3, IdleType DEF Using, UsePoint
    <3>2. OneUser(t)'
      BY <2>2, <3>1 DEF OneUser
    <3>3. Used(t)'
      BY <1>1, <2>2, <2>3, <3>1 DEF Used, ReadSession, Using
    <3>4. Bearing(t)'
      BY <2>2, <3>1 DEF Bearing, ReadSession
    <3>. QED
      BY <3>2, <3>3, <3>4
  <2>4. CASE t = s
    <3>1. \A q \in Request : ~Using(q, s)
      BY <1>2, <2>1, <2>2, <2>4 DEF ReadSession, At, Used, Using, UsePoint
    <3>2. \A q \in Request : Using(q, s)' => q = r
      BY <1>3, <3>1
    <3>3. \A a \in Id : born[a] # s
      BY <1>2, <2>2, <2>4 DEF Bearing
    <3>. QED
      BY <1>1, <2>4, <3>2, <3>3 DEF OneUser, Used, Bearing, ReadSession
  <2>. QED
    BY <2>3, <2>4
<1>. QED
  BY <1>4, <1>5 DEF SessionInv

LEMMA SessionCreate ==
  ASSUME Types, SessionInv, NEW r \in Request, NEW s \in Session,
         CreateSession(r, s)
  PROVE  SessionInv'
<1>1. /\ \A q \in Request : req'[q] = req[q] \/ req'[q].at \notin UsePoint
      /\ session'[s].made /\ ~session[s].made
      /\ \A t \in Session \ {s} : session'[t] = session[t]
      /\ UNCHANGED <<born, shared>>
  BY IdleType DEF CreateSession, Return, Types, TypeOK, UsePoint, history
<1>2. \A q \in Request, t \in Session : Using(q, t)' =>
        Using(q, t) /\ req'[q] = req[q]
  BY <1>1 DEF Using
<1>3. ASSUME NEW t \in Session PROVE Made(t)'
  BY <1>1, <1>2 DEF SessionInv, Made
<1>4. ASSUME NEW t \in Session \ shared'
      PROVE  OneUser(t)' /\ Used(t)' /\ Bearing(t)'
  <2>1. t \in Session /\ OneUser(t) /\ Used(t) /\ Bearing(t) /\ Made(t)
    BY <1>1 DEF SessionInv
  <2>2. CASE t # s
    BY <1>1, <1>2, <2>1, <2>2 DEF OneUser, Used, Bearing
  <2>3. CASE t = s
    BY <1>1, <1>2, <2>1, <2>3 DEF OneUser, Used, Bearing, Made
  <2>. QED
    BY <2>2, <2>3
<1>. QED
  BY <1>3, <1>4 DEF SessionInv

LEMMA SessionInsert ==
  ASSUME Types, SessionInv, NEW r \in Request, Insert(r)
  PROVE  SessionInv'
<1>1. PICK s \in Session : req[r].session = s
  BY DEF Insert, At, Types, HandlerType
<1>2. /\ Using(r, s) /\ req[r].at = "insert"
      /\ \A q \in Request \ {r} : req'[q] = req[q]
      /\ req'[r].at = "idle" /\ UNCHANGED <<session, shared>>
  BY <1>1, IdleType
  DEF Insert, At, Using, UsePoint, Return, Types, TypeOK
<1>3. \A q \in Request, t \in Session : Using(q, t)' =>
        Using(q, t) /\ q # r /\ req'[q] = req[q]
  BY <1>2 DEF Using, UsePoint
<1>4. CASE UNCHANGED born
  BY <1>2, <1>4, SessionElsewhere DEF UsePoint
<1>5. ASSUME NEW a \in Id, born' = [born EXCEPT ![a] = s] PROVE SessionInv'
  <2>1. born'[a] = s /\ \A b \in Id \ {a} : born'[b] = born[b]
    BY <1>5 DEF Types, TypeOK
  <2>2. ASSUME NEW t \in Session PROVE Made(t)'
    BY <1>2, <1>3, <2>1 DEF SessionInv, Made
  <2>3. ASSUME NEW t \in Session \ shared'
        PROVE  OneUser(t)' /\ Used(t)' /\ Bearing(t)'
    <3>1. OneUser(t) /\ Used(t) /\ Bearing(t)
      BY <1>2 DEF SessionInv
    <3>2. OneUser(t)' /\ Used(t)'
      BY <1>2, <1>3, <3>1 DEF OneUser, Used
    <3>3. CASE t # s
      <4>1. \A b \in Id : born'[b] = t => born[b] = t
        BY <2>1, <3>3
      <4>. QED
        BY <1>2, <1>3, <3>1, <3>2, <4>1 DEF Bearing
    <3>4. CASE t = s
      <4>1. /\ session[s].phone = Null
            /\ \A q \in Request : Using(q, s) => q = r
            /\ \A b \in Id : born[b] # s
        BY <1>2, <3>1, <3>4 DEF OneUser, Used, Bearing
      <4>. QED
        BY <1>2, <1>3, <2>1, <3>2, <3>4, <4>1 DEF Bearing
    <3>. QED
      BY <3>3, <3>4
  <2>. QED
    BY <2>2, <2>3 DEF SessionInv
<1>. QED
  BY <1>1, <1>4, <1>5 DEF Insert

LEMMA SessionRegister ==
  ASSUME Types, SessionInv, NEW r \in Request, Register(r)
  PROVE  SessionInv'
<1>0. Moves(r, RegisterPoint) /\ TypeOK
  BY RegisterTypes DEF RegisterFrame, Types
<1>1. ASSUME NEW p \in Phone, Verified(r, p) PROVE SessionInv'
  <2>1. req'[r].at = "verified"
    BY <1>0, <1>1, IdleType DEF Verified, Begin, TypeOK, Handler
  <2>. QED
    BY <1>0, <1>1, <2>1, SessionElsewhere DEF Verified, Moves, UsePoint
<1>2. ASSUME FindVerified(r) PROVE SessionInv'
  <2>1. req'[r].at \notin UsePoint
    BY <1>0, <1>2, IdleType
    DEF FindVerified, Return, Goto, TypeOK, Handler, UsePoint
  <2>. QED
    BY <1>0, <1>2, <2>1, SessionElsewhere DEF FindVerified, Moves, history
<1>3. ASSUME FindExisting(r) PROVE SessionInv'
  <2>1. /\ req[r].at = "find" /\ req'[r].at \in {"idle", "insert"}
        /\ req'[r].at = "insert" => req'[r].session = req[r].session
    BY <1>0, <1>3, IdleType
    DEF FindExisting, At, Return, Goto, TypeOK, Handler
  <2>2. \A q \in Request, s \in Session :
          Using(q, s)' => req[q].at # "consume" \/ req'[q] = req[q]
    BY <1>0, <2>1 DEF Moves, Using, UsePoint
  <2>3. \A q \in Request, s \in Session : Using(q, s)' => Using(q, s)
    BY <1>0, <2>1 DEF Moves, Using, UsePoint
  <2>. QED
    BY <1>3, <2>2, <2>3, SessionFrame DEF FindExisting, history
<1>4. ASSUME ConsumeSession(r) PROVE SessionInv'
  <2>1. PICK s \in Session : req[r].session = s
    BY <1>4 DEF ConsumeSession, At, Types, HandlerType
  <2>2. /\ req[r].at = "consume"
        /\ \/ req'[r].at = "idle"
           \/ req'[r].at \in UsePoint /\ req'[r].session = s
    BY <1>0, <1>4, <2>1, IdleType
    DEF ConsumeSession, At, Return, Goto, TypeOK, Handler, UsePoint
  <2>3. /\ \A t \in Session : /\ session'[t].made = session[t].made
                             /\ session'[t].phone \in {session[t].phone, Null}
        /\ session'[s].phone = Null \/ s \in shared'
        /\ shared \subseteq shared' /\ UNCHANGED born
    BY <1>0, <1>4, <2>1 DEF ConsumeSession, TypeOK
  <2>4. \A q \in Request, t \in Session : Using(q, t)' =>
          Using(q, t) /\ (req'[q] = req[q] \/ t = s)
    BY <1>0, <2>1, <2>2 DEF Moves, Using, UsePoint
  <2>. QED
    BY <2>3, <2>4, SessionFrame
<1>. QED
  BY <1>1, <1>2, <1>3, <1>4, SessionRead, SessionCreate, SessionInsert
  DEF Register, Start, Complete, CompleteUser, CreateStart, CreateDispatcher,
      CreateUser

LEMMA SessionNext == Types /\ SessionInv /\ [Next]_vars => SessionInv'
<1>. SUFFICES ASSUME Types, SessionInv, [Next]_vars PROVE SessionInv'
  OBVIOUS
<1>1. ASSUME NEW r \in Request, ChangePhone(r) PROVE SessionInv'
  BY <1>1, ChangeTypes, SessionElsewhere
  DEF ChangeFrame, Moves, ChangePoint, UsePoint
<1>2. ASSUME NEW r \in Request, Onboard(r) PROVE SessionInv'
  BY <1>2, OnboardTypes, SessionElsewhere
  DEF OnboardFrame, Moves, OnboardPoint, UsePoint
<1>3. ASSUME NEW r \in Request, Fail(r) PROVE SessionInv'
  BY <1>3, FailTypes, SessionElsewhere, IdleType
  DEF FailFrame, UsePoint, history
<1>4. CASE Lapse
  BY <1>4, LapseTypes, SessionElsewhere DEF history
<1>5. ASSUME NEW a \in Id, Profile(a) PROVE SessionInv'
  BY <1>5, ProfileTypes, SessionElsewhere DEF history
<1>6. CASE UNCHANGED vars
  BY <1>6, SessionElsewhere DEF vars, history
<1>. QED
  BY <1>1, <1>2, <1>3, <1>4, <1>5, <1>6, SessionRegister, NextCases

\* A session that no two handlers could read registers one account.
THEOREM RegistersOnce == Spec => []SessionRegistersOnce
<1>1. Init => Types /\ SessionInv
  BY TypesInit, SessionInit
<1>2. Types /\ SessionInv /\ [Next]_vars => (Types /\ SessionInv)'
  BY TypesNext, SessionNext
<1>3. Types /\ SessionInv => SessionRegistersOnce
  BY DEF SessionInv, Bearing, SessionRegistersOnce, Types, TypeOK
<1>. QED
  BY <1>1, <1>2, <1>3, PTL DEF Spec

-----------------------------------------------------------------------------
(* Registration in steps *)

VehiclePoint ==
  {"transport.power", "transport.trailer", "kyc.power", "kyc.trailer"}
ReadyPoint == {"kyc.power", "kyc.trailer", "kyc.defaults"}

\* The vehicle of a driver is there, or a handler is about to see to it; so
\* is what he needs to work.
Vehicle(a) ==
  \/ acct[a].power /\ acct[a].trailer
  \/ \E r \in Request : req[r].id = a /\ req[r].at \in VehiclePoint
Ready(a) ==
  \/ acct[a].work /\ acct[a].active
  \/ \E r \in Request : req[r].id = a /\ req[r].at \in ReadyPoint

Whole(a) ==
  acct[a].life = "alive" =>
    /\ acct[a].step \in {"transport-type", "completed"} => Vehicle(a)
    /\ acct[a].step = "completed" => Ready(a)

\* A handler is about someone who has been registered, sees to the trailer
\* after the power, and writes back a step that stands for a vehicle only
\* where there is one.
HandlerWhole(r) ==
  LET h == req[r] IN
  /\ h.at \in OnboardPoint => acct[h.id].life # "none"
  /\ h.at \in {"transport.trailer", "kyc.trailer"} =>
       acct[h.id].life # "alive" \/ acct[h.id].power
  /\ h.at = "geo.row" => h.step \in {"geo-push", "transport-type"}
  /\ h.at = "geo.row" /\ h.step = "transport-type" =>
       acct[h.id].life # "alive" \/ Vehicle(h.id)

WholeInv ==
  faults = 0 =>
    /\ \A a \in Id : Whole(a)
    /\ \A r \in Request : HandlerWhole(r)

LEMMA WholeInit == Init => WholeInv
BY NoRowType, IdleType
DEF Init, WholeInv, Whole, HandlerWhole, OnboardPoint

\* Nothing that a row has is lost while it lives.
Grown(a) ==
  /\ acct'[a].life = "alive" => acct[a].life = "alive"
  /\ acct[a].life # "none" => acct'[a].life # "none"
  /\ acct'[a].life = "alive" =>
       /\ acct[a].power => acct'[a].power
       /\ acct[a].trailer => acct'[a].trailer
       /\ acct[a].work => acct'[a].work
       /\ acct[a].active => acct'[a].active

\* Where no handler of a driver moves, what he has is kept.
LEMMA KeptElsewhere ==
  ASSUME NEW a \in Id, acct'[a].life = "alive",
         acct'[a] = acct[a] \/ Grown(a),
         \A q \in Request :
           \/ req'[q] = req[q]
           \/ req[q].at \notin VehiclePoint \cup ReadyPoint
  PROVE  (Vehicle(a) => Vehicle(a)') /\ (Ready(a) => Ready(a)')
BY DEF Vehicle, Ready, Grown

\* Whatever is not one of these steps.
LEMMA WholeFrame ==
  ASSUME Types, WholeInv, faults' >= faults,
         \A q \in Request :
           \/ req'[q] = req[q]
           \/ req[q].at \notin OnboardPoint /\ req'[q].at \notin OnboardPoint,
         \A a \in Id :
           \/ acct'[a] = acct[a] \/ Founded(a)
           \/ Grown(a) /\ acct'[a].step = acct[a].step
           \/ Deleted(a)
  PROVE  WholeInv'
<1>. SUFFICES ASSUME faults' = 0
              PROVE  /\ \A a \in Id : Whole(a)'
                     /\ \A r \in Request : HandlerWhole(r)'
  BY DEF WholeInv
<1>1. /\ \A a \in Id : Whole(a)
      /\ \A r \in Request : HandlerWhole(r)
  <2>1. faults = 0
    BY DEF Types, TypeOK
  <2>. QED
    BY <2>1 DEF WholeInv
<1>2. ASSUME NEW a \in Id, acct'[a].life = "alive", ~Founded(a)
      PROVE  (Vehicle(a) => Vehicle(a)') /\ (Ready(a) => Ready(a)')
  BY <1>2, KeptElsewhere DEF Deleted, VehiclePoint, ReadyPoint, OnboardPoint
<1>3. ASSUME NEW a \in Id PROVE Whole(a)'
  BY <1>1, <1>2 DEF Whole, Founded, Grown, Deleted
<1>4. ASSUME NEW r \in Request PROVE HandlerWhole(r)'
  <2>1. CASE req'[r].at \notin OnboardPoint
    BY <2>1 DEF HandlerWhole, OnboardPoint
  <2>2. CASE req'[r].at \in OnboardPoint
    <3>1. req'[r] = req[r] /\ req[r].at \in OnboardPoint
      BY <2>2
    <3>2. PICK a \in Id : req[r].id = a
      BY <3>1 DEF Types, HandlerType
    <3>3. acct[a].life # "none" /\ HandlerWhole(r)
      BY <1>1, <3>1, <3>2 DEF HandlerWhole
    <3>4. ~Founded(a)
      BY <3>3, NoRowType DEF Founded
    <3>5. /\ acct'[a].life # "none"
          /\ acct'[a].life = "alive" =>
               /\ acct[a].life = "alive"
               /\ acct[a].power => acct'[a].power
               /\ Vehicle(a) => Vehicle(a)'
      BY <1>2, <3>3, <3>4 DEF Grown, Deleted
    <3>. QED
      BY <3>1, <3>2, <3>3, <3>5 DEF HandlerWhole
  <2>. QED
    BY <2>1, <2>2
<1>. QED
  BY <1>3, <1>4

\* A handler of a takes a step.
LEMMA WholeStep ==
  ASSUME Types, WholeInv, faults' = faults, faults = 0,
         NEW r \in Request, NEW a \in Id,
         \A q \in Request \ {r} : req'[q] = req[q],
         req[r].at \in OnboardPoint => req[r].id = a,
         req'[r].at \in OnboardPoint => req'[r].id = a,
         \A b \in Id \ {a} : acct'[b] = acct[b],
         acct'[a] = acct[a] \/ Grown(a),
         acct'[a].life = "alive" =>
           (Vehicle(a) => Vehicle(a)') /\ (Ready(a) => Ready(a)'),
         Whole(a)', HandlerWhole(r)'
  PROVE  WholeInv'
<1>1. /\ \A b \in Id : Whole(b)
      /\ \A q \in Request : HandlerWhole(q)
  BY DEF WholeInv
<1>2. ASSUME NEW b \in Id \ {a}
      PROVE  (Vehicle(b) => Vehicle(b)') /\ (Ready(b) => Ready(b)')
  BY DEF Vehicle, Ready, VehiclePoint, ReadyPoint, OnboardPoint
<1>3. ASSUME NEW b \in Id \ {a} PROVE Whole(b)'
  BY <1>1, <1>2 DEF Whole
<1>4. ASSUME NEW q \in Request \ {r} PROVE HandlerWhole(q)'
  <2>1. req'[q] = req[q] /\ HandlerWhole(q)
    BY <1>1
  <2>2. CASE req[q].at \notin OnboardPoint
    BY <2>1, <2>2 DEF HandlerWhole, OnboardPoint
  <2>3. CASE req[q].at \in OnboardPoint
    <3>1. PICK b \in Id : req[q].id = b
      BY <2>3 DEF Types, HandlerType
    <3>2. /\ acct[b].life # "none" => acct'[b].life # "none"
          /\ acct'[b].life = "alive" =>
               /\ acct[b].life = "alive"
               /\ acct[b].power => acct'[b].power
               /\ Vehicle(b) => Vehicle(b)'
      BY <1>2 DEF Grown
    <3>. QED
      BY <2>1, <3>1, <3>2 DEF HandlerWhole
  <2>. QED
    BY <2>2, <2>3
<1>. QED
  BY <1>3, <1>4 DEF WholeInv

\* The handler begins: it has read the row of a living driver.
LEMMA WholeBegin ==
  ASSUME Types, WholeInv, faults' = faults, faults = 0, UNCHANGED acct,
         NEW r \in Request, NEW a \in Id, NEW h \in Handler, Begin(r, h),
         Driving(a), h.id = a, h.at \in {"geo.row", "transport.row", "kyc.row"},
         h.at = "geo.row" =>
           h.step = IF acct[a].step = "transport-type" THEN "transport-type"
                    ELSE "geo-push"
  PROVE  WholeInv'
<1>1. /\ req[r].at = "idle" /\ req'[r] = h
      /\ \A q \in Request \ {r} : req'[q] = req[q]
  BY IdleType DEF Begin, Types, TypeOK
<1>2. (Vehicle(a) => Vehicle(a)') /\ (Ready(a) => Ready(a)')
  BY <1>1, KeptElsewhere DEF Driving, Alive, VehiclePoint, ReadyPoint
<1>3. Whole(a) /\ acct[a].life = "alive"
  BY DEF WholeInv, Driving, Alive
<1>4. Whole(a)'
  BY <1>2, <1>3 DEF Whole
<1>5. HandlerWhole(r)'
  BY <1>1, <1>2, <1>3 DEF Whole, HandlerWhole
<1>. QED
  BY <1>1, <1>2, <1>4, <1>5, WholeStep DEF OnboardPoint

LEMMA WholeOnboard ==
  ASSUME Types, WholeInv, NEW r \in Request, Onboard(r)
  PROVE  WholeInv'
<1>0. /\ OnboardFrame(r) /\ TypeOK /\ TypeOK' /\ HandlerType(r)
      /\ \A q \in Request \ {r} : req'[q] = req[q]
      /\ faults' = faults
  BY OnboardTypes DEF Types, OnboardFrame, Moves
<1>. SUFFICES ASSUME faults = 0 PROVE WholeInv'
  BY <1>0 DEF WholeInv
<1>1. /\ \A b \in Id : Whole(b)
      /\ \A q \in Request : HandlerWhole(q)
  BY DEF WholeInv
<1>2. ASSUME NEW a \in Id, GeoPush(r, a) PROVE WholeInv'
  <2>1. PICK h \in Handler :
          /\ Begin(r, h) /\ h.at = "geo.row" /\ h.id = a
          /\ h.step = IF acct[a].step = "transport-type"
                      THEN "transport-type" ELSE "geo-push"
    BY <1>0, <1>2, Beginnings
  <2>2. Driving(a) /\ UNCHANGED acct
    BY <1>2 DEF GeoPush
  <2>. QED
    BY <1>0, <2>1, <2>2, WholeBegin
<1>3. ASSUME NEW a \in Id, TransportType(r, a) PROVE WholeInv'
  <2>1. PICK h \in Handler : Begin(r, h) /\ h.at = "transport.row" /\ h.id = a
    BY <1>0, <1>3, Beginnings
  <2>2. Driving(a) /\ UNCHANGED acct
    BY <1>3 DEF TransportType
  <2>. QED
    BY <1>0, <2>1, <2>2, WholeBegin
<1>4. ASSUME NEW a \in Id, NEW full \in BOOLEAN, Submit(r, a, full)
      PROVE  WholeInv'
  <2>1. PICK h \in Handler : Begin(r, h) /\ h.at = "kyc.row" /\ h.id = a
    BY <1>0, <1>4, Beginnings
  <2>2. Driving(a) /\ UNCHANGED acct
    BY <1>4 DEF Submit
  <2>. QED
    BY <1>0, <2>1, <2>2, WholeBegin
<1>5. ASSUME UpdateGeo(r) PROVE WholeInv'
  <2>1. PICK a \in Id : req[r].id = a
    BY <1>0, <1>5 DEF UpdateGeo, At, HandlerType, OnboardPoint
  <2>2. acct[a] \in Row /\ req[r].at = "geo.row" /\ req'[r].at = "idle"
    BY <1>0, <1>5, IdleType DEF UpdateGeo, At, Return, TypeOK
  <2>3. /\ \A b \in Id \ {a} : acct'[b] = acct[b]
        /\ acct'[a] = acct[a] \/ Grown(a)
        /\ acct'[a].life = acct[a].life
        /\ acct'[a].life = "alive" => acct'[a].step = req[r].step
    BY <1>0, <1>5, <2>1, <2>2
    DEF UpdateGeo, Update, Alive, TypeOK, Row, Grown
  <2>4. acct'[a].life = "alive" =>
          (Vehicle(a) => Vehicle(a)') /\ (Ready(a) => Ready(a)')
    BY <1>0, <2>2, <2>3, KeptElsewhere DEF VehiclePoint, ReadyPoint
  <2>5. HandlerWhole(r)' /\ HandlerWhole(r)
    BY <1>1, <2>2 DEF HandlerWhole, OnboardPoint
  <2>6. Whole(a)'
    BY <2>1, <2>2, <2>3, <2>4, <2>5 DEF Whole, HandlerWhole
  <2>. QED
    BY <1>0, <2>1, <2>2, <2>3, <2>4, <2>5, <2>6, WholeStep DEF OnboardPoint
<1>6. ASSUME TransportRow(r) \/ KycRow(r) PROVE WholeInv'
  <2>1. PICK a \in Id : req[r].id = a
    BY <1>0, <1>6 DEF TransportRow, KycRow, At, HandlerType, OnboardPoint
  <2>2. /\ acct[a] \in Row
        /\ \/ /\ req[r].at = "transport.row"
              /\ req'[r].at = "transport.power"
           \/ req[r].at = "kyc.row" /\ req'[r].at = "kyc.power"
        /\ req'[r].id = a
    BY <1>0, <1>6, <2>1
    DEF TransportRow, KycRow, At, Goto, TypeOK, Handler
  <2>3. /\ \A b \in Id \ {a} : acct'[b] = acct[b]
        /\ acct'[a] = acct[a] \/ Grown(a)
        /\ acct'[a].life = acct[a].life
        /\ acct'[a].life = "alive" /\ req[r].at = "transport.row" =>
              acct'[a].step = "transport-type"
    <3>1. CASE TransportRow(r)
      BY <1>0, <2>1, <2>2, <3>1
      DEF TransportRow, Update, Alive, TypeOK, Row, Grown
    <3>2. CASE KycRow(r)
      BY <1>0, <2>1, <2>2, <3>2
      DEF KycRow, At, Update, Alive, TypeOK, Row, Grown
    <3>. QED
      BY <1>6, <3>1, <3>2
  <2>4. Vehicle(a)' /\ (req[r].at = "kyc.row" => Ready(a)')
    BY <2>2 DEF Vehicle, Ready, VehiclePoint, ReadyPoint
  <2>5. acct'[a].life = "alive" => (Ready(a) => Ready(a)')
    BY <1>0, <2>2, <2>3, KeptElsewhere DEF VehiclePoint, ReadyPoint
  <2>6. Whole(a)'
    BY <2>2, <2>3, <2>4 DEF Whole
  <2>7. HandlerWhole(r)'
    BY <1>1, <2>1, <2>2, <2>3 DEF HandlerWhole, OnboardPoint
  <2>. QED
    BY <1>0, <2>1, <2>2, <2>3, <2>4, <2>5, <2>6, <2>7, WholeStep
<1>7. ASSUME TransportPower(r) \/ KycPower(r) PROVE WholeInv'
  <2>1. PICK a \in Id : req[r].id = a
    BY <1>0, <1>7 DEF TransportPower, KycPower, At, HandlerType, OnboardPoint
  <2>2. acct[a] \in Row /\ Update(a, WithPower(a))
    BY <1>0, <1>7, <2>1 DEF TypeOK, TransportPower, KycPower, Upsert
  <2>3. /\ \A b \in Id \ {a} : acct'[b] = acct[b]
        /\ acct'[a] = acct[a] \/ Grown(a)
        /\ acct'[a].life = acct[a].life
        /\ acct'[a].step = acct[a].step
        /\ acct'[a].life = "alive" => acct'[a].power
    BY <1>0, <2>2 DEF WithPower, Update, Alive, TypeOK, Row, Grown
  <2>4. /\ req[r].at \in {"transport.power", "kyc.power"}
        /\ \/ acct[a].life # "alive" /\ req'[r].at = "idle"
           \/ /\ req'[r].id = a
              /\ \/ /\ req[r].at = "transport.power"
                    /\ req'[r].at = "transport.trailer"
                 \/ req[r].at = "kyc.power" /\ req'[r].at = "kyc.trailer"
    BY <1>0, <1>7, <2>1, IdleType
    DEF TransportPower, KycPower, Upsert, Alive, At, Return, Goto, TypeOK,
        Handler
  <2>5. acct'[a].life = "alive" => Vehicle(a)' /\ (Ready(a) => Ready(a)')
    BY <1>0, <2>3, <2>4 DEF Vehicle, Ready, Grown, VehiclePoint, ReadyPoint
  <2>6. Whole(a)'
    BY <1>1, <2>3, <2>5 DEF Whole
  <2>7. HandlerWhole(r)'
    BY <1>1, <2>1, <2>3, <2>4 DEF HandlerWhole, OnboardPoint
  <2>. QED
    BY <1>0, <2>1, <2>3, <2>4, <2>5, <2>6, <2>7, WholeStep DEF OnboardPoint
<1>8. ASSUME TransportTrailer(r) \/ KycTrailer(r) PROVE WholeInv'
  <2>1. PICK a \in Id : req[r].id = a
    BY <1>0, <1>8
    DEF TransportTrailer, KycTrailer, At, HandlerType, OnboardPoint
  <2>2. acct[a] \in Row /\ Update(a, WithTrailer(a))
    BY <1>0, <1>8, <2>1 DEF TypeOK, TransportTrailer, KycTrailer, Upsert
  <2>3. /\ \A b \in Id \ {a} : acct'[b] = acct[b]
        /\ acct'[a] = acct[a] \/ Grown(a)
        /\ acct'[a].life = acct[a].life
        /\ acct'[a].step = acct[a].step
        /\ acct'[a].life = "alive" => acct'[a].trailer
    BY <1>0, <2>2 DEF WithTrailer, Update, Alive, TypeOK, Row, Grown
  <2>4. /\ req[r].at \in {"transport.trailer", "kyc.trailer"}
        /\ \/ /\ req'[r].at = "idle"
              /\ acct[a].life # "alive" \/ req[r].at = "transport.trailer"
           \/ /\ req'[r].id = a
              /\ req[r].at = "kyc.trailer" /\ req'[r].at = "kyc.defaults"
    BY <1>0, <1>8, <2>1, IdleType
    DEF TransportTrailer, KycTrailer, Upsert, Alive, At, Return, Goto,
        TypeOK, Handler
  <2>5. HandlerWhole(r)
    BY <1>1
  <2>6. acct'[a].life = "alive" => Vehicle(a)' /\ (Ready(a) => Ready(a)')
    BY <1>0, <2>1, <2>3, <2>4, <2>5
    DEF Vehicle, Ready, HandlerWhole, Grown, VehiclePoint, ReadyPoint
  <2>7. Whole(a)'
    BY <1>1, <2>3, <2>6 DEF Whole
  <2>8. HandlerWhole(r)'
    BY <2>1, <2>3, <2>4, <2>5 DEF HandlerWhole, OnboardPoint
  <2>. QED
    BY <1>0, <2>1, <2>3, <2>4, <2>6, <2>7, <2>8, WholeStep DEF OnboardPoint
<1>9. ASSUME ApplyFullDefaults(r) PROVE WholeInv'
  <2>1. PICK a \in Id : req[r].id = a
    BY <1>0, <1>9 DEF ApplyFullDefaults, At, HandlerType, OnboardPoint
  <2>2. acct[a] \in Row /\ req[r].at = "kyc.defaults" /\ req'[r].at = "idle"
    BY <1>0, <1>9, IdleType DEF ApplyFullDefaults, At, Return, TypeOK
  <2>3. /\ \A b \in Id \ {a} : acct'[b] = acct[b]
        /\ acct'[a] = acct[a] \/ Grown(a)
        /\ acct'[a].life = acct[a].life
        /\ acct'[a].step = acct[a].step
        /\ acct'[a].life = "alive" => acct'[a].work /\ acct'[a].active
    BY <1>0, <1>9, <2>1, <2>2
    DEF ApplyFullDefaults, Update, Alive, TypeOK, Row, Grown
  <2>4. acct'[a].life = "alive" => (Vehicle(a) => Vehicle(a)') /\ Ready(a)'
    BY <1>0, <2>2, <2>3 DEF Vehicle, Ready, Grown, VehiclePoint
  <2>5. HandlerWhole(r)' /\ Whole(a)'
    BY <1>1, <2>2, <2>3, <2>4 DEF HandlerWhole, Whole, OnboardPoint
  <2>. QED
    BY <1>0, <2>1, <2>2, <2>3, <2>4, <2>5, WholeStep DEF OnboardPoint
<1>. QED
  BY <1>2, <1>3, <1>4, <1>5, <1>6, <1>7, <1>8, <1>9 DEF Onboard

LEMMA WholeNext == Types /\ WholeInv /\ [Next]_vars => WholeInv'
<1>. SUFFICES ASSUME Types, WholeInv, [Next]_vars PROVE WholeInv'
  OBVIOUS
<1>0. faults \in Nat /\ faults + 1 # 0 /\ faults + 1 >= faults
  BY Values DEF Types, TypeOK
<1>1. ASSUME NEW r \in Request, Register(r) PROVE WholeInv'
  BY <1>1, RegisterTypes, WholeFrame
  DEF RegisterFrame, Moves, RegisterPoint, OnboardPoint
<1>2. ASSUME NEW r \in Request, ChangePhone(r) PROVE WholeInv'
  BY <1>2, ChangeTypes, WholeFrame
  DEF ChangeFrame, Renamed, Grown, Moves, ChangePoint, OnboardPoint
<1>3. ASSUME NEW r \in Request, Fail(r) PROVE WholeInv'
  BY <1>0, <1>3, FailTypes DEF FailFrame, WholeInv
<1>4. CASE Lapse
  BY <1>0, <1>4, LapseTypes, WholeFrame
<1>5. ASSUME NEW a \in Id, Profile(a) PROVE WholeInv'
  BY <1>0, <1>5, ProfileTypes, WholeFrame DEF Patched, Grown
<1>6. CASE UNCHANGED vars
  BY <1>0, <1>6, WholeFrame DEF vars
<1>. QED
  BY <1>1, <1>2, <1>3, <1>4, <1>5, <1>6, WholeOnboard, NextCases

\* As long as no handler fails, what the step of a driver stands for is there
\* or on its way.
THEOREM Steady == Spec => []RegistrationWhole
<1>1. Init => Types /\ WholeInv
  BY TypesInit, WholeInit
<1>2. Types /\ WholeInv /\ [Next]_vars => (Types /\ WholeInv)'
  BY TypesNext, WholeNext
<1>3. Types /\ WholeInv => RegistrationWhole
  BY DEF WholeInv, Whole, Vehicle, Ready, VehiclePoint, ReadyPoint,
         RegistrationWhole, Alive
<1>. QED
  BY <1>1, <1>2, <1>3, PTL DEF Spec

-----------------------------------------------------------------------------
(* The accounts and the roles side by side: a step is a step of one of them  *)
(* and changes nothing of the other.                                         *)

LEMMA AccountsApart == PeopleSpec => Spec
<1>1. PeopleInit => Init
  BY DEF PeopleInit
<1>2. [PeopleNext]_PeopleVars => [Next]_vars
  BY DEF PeopleNext, PeopleVars, Turn
<1>. QED
  BY <1>1, <1>2, PTL DEF PeopleSpec, Spec

LEMMA RolesApart == PeopleSpec => R!Spec
<1>1. PeopleInit => R!Init
  BY DEF PeopleInit
<1>2. [PeopleNext]_PeopleVars => [R!Next]_(R!vars)
  BY DEF PeopleNext, PeopleVars, roleVars, R!vars, R!history, Turn
<1>. QED
  BY <1>1, <1>2, PTL DEF PeopleSpec, R!Spec

\* The accounts of PeopleSpec are those of Accounts: a phone has one holder, an
\* approved driver is complete, a session registers once, and a registration
\* leaves no half of an account behind.
THEOREM AccountsServed ==
  PeopleSpec => [](/\ PhoneOwned /\ ApprovedIsFull
                   /\ SessionRegistersOnce /\ RegistrationWhole)
BY AccountsApart, Owned, ApprovedFull, RegistersOnce, Steady, PTL

\* Every role was given by someone who could give it, and a removed user does
\* not come back by a late change of role.
THEOREM RolesServed == PeopleSpec => []RolesGranted
<1>1. R!TypeOK /\ R!RoleGranted /\ R!RemovedStaysOut => RolesGranted
  BY DEF RolesGranted
<1>. QED
  BY <1>1, RoleConstants, RolesApart, R!TypeCorrect, R!Granted, R!StaysOut,
     PTL
=============================================================================

-------------------------- MODULE InvitationsProofs --------------------------
(***************************************************************************)
(* Theorems about Invitations, for any drivers, dispatchers, companies,    *)
(* tokens and handlers, and any number of faults.                          *)
(***************************************************************************)
EXTENDS Invitations, TLAPS

\* The ends of an invitation, as its kind has them
Proper(row) ==
  /\ row \in Invitation
  /\ row.kind \in {"company", "freelance"} =>
       row.by \in Dispatcher /\ row.to \in Driver
  /\ row.kind = "reverse" => row.by \in Driver /\ row.to \in Dispatcher
  /\ row.kind = "colleague" => row.by \in Dispatcher /\ row.to \in Dispatcher
  /\ row.kind \in {"company", "colleague"} => row.company \in Company

\* A row stands for the word of the one who invites.
Asked(i) ==
  invite[i] \in Invitation =>
    Proper(invite[i]) /\ <<Inviter(invite[i]), invite[i].to>> \in agreed

Holding == {"grant", "drop", "close"}

\* What a handler carries, and nobody can take back before it writes
Carried(r) ==
  LET h == req[r] IN
  /\ IF h.step \in Holding THEN h.token \in Invite ELSE h.token = Null
  /\ h.step \in {"insert", "grant"} => Proper(h.row)
  /\ h.step = "grant" => h.me = h.row.to /\ Tied(h.me, Inviter(h.row))
  /\ h.step = "own" => /\ h.me \in Dispatcher /\ h.at \in Company
                       /\ owner[h.at] = h.me
  /\ h.step = "rig" => /\ h.me \in Person /\ h.at \in Driver
                       /\ h.me = h.at \/ <<h.at, h.me>> \in agreed

Inv ==
  /\ InvitationAssumption /\ TypeOK
  /\ \A i \in Invite : Asked(i)
  /\ \A r \in Request : Carried(r)
  /\ Consent

\* Where no two handlers met: who holds a token, and what has become of it.
Single(i) ==
  /\ invite[i] = Unmade =>
       granted[i] = 0 /\ i \notin closed \cup shared /\ ~Held(i)
  /\ i \notin shared =>
       /\ \A q, r \in Request : req[q].token = i /\ req[r].token = i => q = r
       /\ \A r \in Request : req[r].token = i =>
            /\ i \notin closed
            /\ granted[i] = IF req[r].step = "drop" THEN 1 ELSE 0
       /\ invite[i] \in Invitation /\ ~Held(i) =>
            granted[i] = 0 /\ i \notin closed
       /\ granted[i] + (IF i \in closed THEN 1 ELSE 0) <= 1

OnceInv == \A i \in Invite : Single(i)

-----------------------------------------------------------------------------
(* Handlers *)

LEMMA IdleType == Idle \in Handler /\ Idle.step = "idle" /\ Idle.token = Null
BY DEF Idle, Handler

\* An invitation that is there is neither unmade nor gone.
LEMMA RowFacts ==
  /\ Unmade \notin Invitation /\ Gone \notin Invitation /\ Gone # Unmade
  /\ \A i : invite[i] \in Invitation \cup {Unmade, Gone}
              /\ invite[i].kind \in Kind => invite[i] \in Invitation
BY DEF Unmade, Gone, Invitation, Kind

LEMMA InviterType ==
  ASSUME InvitationAssumption, NEW row, Proper(row)
  PROVE  Inviter(row) \in Party /\ row.to \in Party /\ Inviter(row) # Null
BY DEF InvitationAssumption, Proper, Inviter, Party, Person, Invitation, Kind

Moves(r) ==
  /\ req' \in [Request -> Handler]
  /\ \A q \in Request \ {r} : req'[q] = req[q]

LEMMA ReturnMoves ==
  ASSUME TypeOK, NEW r \in Request, Return(r)
  PROVE  Moves(r) /\ req'[r] = Idle /\ Carried(r)'
<1>1. Moves(r) /\ req'[r] = Idle
  BY IdleType DEF TypeOK, Return, Moves
<1>2. Carried(r)'
  BY <1>1, IdleType DEF Carried, Holding
<1>. QED
  BY <1>1, <1>2

LEMMA BeginMoves ==
  ASSUME TypeOK, NEW r \in Request, NEW h \in Handler, Begin(r, h)
  PROVE  Moves(r) /\ req[r] = Idle /\ req'[r] = h
BY DEF TypeOK, Begin, Moves

LEMMA GotoDrop ==
  ASSUME TypeOK, NEW r \in Request, Goto(r, "drop")
  PROVE  Moves(r) /\ req'[r].step = "drop" /\ req'[r].token = req[r].token
<1>1. req[r] \in Handler
  BY DEF TypeOK
<1>2. PICK h \in Handler :
        /\ h = [req[r] EXCEPT !.step = "drop"]
        /\ h.step = "drop" /\ h.token = req[r].token
  <2>1. LET h == [req[r] EXCEPT !.step = "drop"] IN
        h \in Handler /\ h.step = "drop" /\ h.token = req[r].token
    BY <1>1 DEF Handler
  <2>. QED
    BY <2>1, Zenon
<1>3. req' = [req EXCEPT ![r] = h]
  BY <1>2 DEF Goto, TypeOK
<1>. QED
  BY <1>2, <1>3 DEF TypeOK, Moves

-----------------------------------------------------------------------------
(* What every step keeps: a word once given stands, and a company that is   *)
(* made keeps its owner.                                                    *)

Persist ==
  /\ agreed \subseteq agreed'
  /\ \A c \in Company : owner[c] # Null => owner'[c] = owner[c]

\* What the others carry is as good as before.
LEMMA OthersCarry ==
  ASSUME Inv, Persist, NEW r \in Request, Moves(r), Carried(r)'
  PROVE  \A q \in Request : Carried(q)'
<1>. TAKE q \in Request
<1>1. CASE q = r
  BY <1>1
<1>2. CASE q # r
  <2>1. req'[q] = req[q] /\ Carried(q)
    BY <1>2 DEF Moves, Inv
  <2>2. CASE req[q].step = "own"
    BY <2>1, <2>2 DEF Carried, Persist, Holding, Inv, InvitationAssumption
  <2>3. CASE req[q].step # "own"
    BY <2>1, <2>3 DEF Carried, Persist, Tied, Holding
  <2>. QED
    BY <2>2, <2>3
<1>. QED
  BY <1>1, <1>2

\* What was asked and agreed to before is still so.
LEMMA WordStands ==
  ASSUME Persist
  PROVE  /\ \A a, b : Tied(a, b) => Tied(a, b)'
         /\ \A a, b : <<a, b>> \in agreed => <<a, b>> \in agreed'
BY DEF Persist, Tied

LEMMA AskedStays ==
  ASSUME Inv, Persist, NEW i \in Invite,
         invite'[i] = invite[i] \/ invite'[i] \notin Invitation
  PROVE  Asked(i)'
BY DEF Inv, Asked, Persist, Inviter

\* No link and no role changes.
TiesSame == UNCHANGED <<link, employer, rig, role>>
LEMMA ConsentStays ==
  ASSUME Inv, Persist, TiesSame
  PROVE  Consent'
<1>1. ASSUME NEW d \in Driver
      PROVE  /\ Tied(d, link[d])' /\ Tied(d, employer[d])'
             /\ (rig[d] = d \/ <<d, rig[d]>> \in agreed)'
  BY WordStands DEF Inv, Consent, TiesSame
<1>2. ASSUME NEW x \in Dispatcher, NEW c \in Company,
             role[<<x, c>>] # Null
      PROVE  owner'[c] = x \/ Tied(x, c)'
  <2>1. CASE owner[c] = x
    BY <1>2, <2>1 DEF Persist, Inv, InvitationAssumption
  <2>2. CASE Tied(x, c)
    BY <2>2, WordStands
  <2>. QED
    BY <1>2, <2>1, <2>2 DEF Inv, Consent
<1>. QED
  BY <1>1, <1>2 DEF Consent, TiesSame

-----------------------------------------------------------------------------
(* Steps that tie nobody *)

\* The invitations, and the handler that moves, must be right.
LEMMA QuietStep ==
  ASSUME Inv, Persist, TiesSame, NEW r \in Request, Moves(r), Carried(r)',
         \A i \in Invite : Asked(i)',
         owner' \in [Company -> Dispatcher \cup {Null}],
         invite' \in [Invite -> Invitation \cup {Unmade, Gone}],
         agreed' \subseteq Party \X Party, granted' = granted,
         closed' \subseteq Invite, shared' \subseteq Invite,
         faults' \in 0 .. MaxFaults
  PROVE  Inv'
<1>1. InvitationAssumption' /\ TypeOK'
  BY DEF Inv, InvitationAssumption, TypeOK, TiesSame, Moves
<1>2. \A q \in Request : Carried(q)'
  BY OthersCarry
<1>. QED
  BY <1>1, <1>2, ConsentStays DEF Inv

\* The same where only the handler moves.
LEMMA HandlerStep ==
  ASSUME Inv, TiesSame, NEW r \in Request, Moves(r), Carried(r)',
         UNCHANGED <<owner, invite, agreed, granted, closed>>,
         shared' \subseteq Invite, faults' \in 0 .. MaxFaults
  PROVE  Inv'
<1>1. Persist
  BY DEF Persist
<1>2. \A i \in Invite : Asked(i)'
  BY <1>1, AskedStays
<1>. QED
  BY <1>1, <1>2, QuietStep DEF Inv, TypeOK

\* And where only rows go.
LEMMA RowsGo ==
  ASSUME Inv, TiesSame, UNCHANGED <<owner, req, agreed, granted, faults>>,
         NEW i \in Invite, Delete(i),
         closed' \subseteq Invite, shared' \subseteq Invite
  PROVE  Inv'
<1>1. Persist
  BY DEF Persist
<1>2. /\ invite' \in [Invite -> Invitation \cup {Unmade, Gone}]
      /\ \A j \in Invite : invite'[j] = invite[j] \/ invite'[j] = Gone
  BY DEF Inv, TypeOK, Delete
<1>3. \A j \in Invite : Asked(j)'
  BY <1>1, <1>2, RowFacts, AskedStays
<1>4. InvitationAssumption' /\ TypeOK'
  BY <1>2 DEF Inv, InvitationAssumption, TypeOK, TiesSame
<1>5. \A q \in Request : Carried(q)'
  BY DEF Inv, Carried, Tied
<1>. QED
  BY <1>1, <1>3, <1>4, <1>5, ConsentStays DEF Inv

LEMMA SlipTypes ==
  ASSUME Inv, NEW r \in Request, Slip(r) \/ NoSlip
  PROVE  shared' \subseteq Invite /\ faults' \in 0 .. MaxFaults
<1>1. req[r].token \in Invite \cup {Null}
  BY DEF Inv, TypeOK, Handler
<1>. QED
  BY <1>1 DEF Inv, TypeOK, Slip, NoSlip, InvitationAssumption

LEMMA CreateCompanyInv ==
  ASSUME Inv, NEW r \in Request, NEW x \in Dispatcher, NEW c \in Company,
         CreateCompany(r, x, c)
  PROVE  Inv'
<1>. DEFINE h == [Idle EXCEPT !.step = "own", !.me = x, !.at = c]
<1>1. h \in Handler /\ h.step = "own" /\ h.me = x /\ h.at = c /\ h.token = Null
  BY DEF Idle, Handler, Person
<1>2. Moves(r) /\ req'[r] = h
  BY <1>1, BeginMoves DEF CreateCompany, Inv
<1>3. /\ owner' \in [Company -> Dispatcher \cup {Null}]
      /\ owner'[c] = x /\ Persist /\ TiesSame
  BY DEF CreateCompany, Inv, TypeOK, Persist, TiesSame, history
<1>4. Carried(r)'
  BY <1>1, <1>2, <1>3 DEF Carried, Holding
<1>5. \A i \in Invite : Asked(i)'
  BY <1>3, AskedStays DEF CreateCompany
<1>. QED
  BY <1>2, <1>3, <1>4, <1>5, QuietStep
     DEF CreateCompany, history, Inv, TypeOK

LEMMA IssueInv ==
  ASSUME Inv, NEW r \in Request, NEW row, Proper(row), Issue(r, row)
  PROVE  Inv'
<1>. DEFINE h == [Idle EXCEPT !.step = "insert", !.me = row.by, !.row = row]
<1>1. row \in Invitation /\ row.by \in Person
  BY DEF Proper, Invitation
<1>2. h \in Handler /\ h.step = "insert" /\ h.row = row /\ h.token = Null
  BY <1>1 DEF Idle, Handler
<1>3. Moves(r) /\ req'[r] = h
  BY <1>2, BeginMoves DEF Issue, Inv
<1>4. Carried(r)'
  BY <1>2, <1>3 DEF Carried, Holding
<1>. QED
  BY <1>3, <1>4, HandlerStep DEF Issue, TiesSame, history, Inv, TypeOK

LEMMA CreateInvitationsInv ==
  ASSUME Inv, NEW r \in Request, NEW x \in Dispatcher
  PROVE  /\ \A d \in Driver : CreateForFreelance(r, x, d) => Inv'
         /\ \A d \in Driver : CreateFromDriver(r, d, x) => Inv'
         /\ \A d \in Driver, c \in Company :
              CreateDriverInvitation(r, x, c, d) => Inv'
         /\ \A y \in Dispatcher, c \in Company :
              CreateInvitation(r, x, c, y) => Inv'
<1>1. ASSUME NEW d \in Driver
      PROVE  /\ Proper([kind |-> "freelance", by |-> x, to |-> d,
                        company |-> Null])
             /\ Proper([kind |-> "reverse", by |-> d, to |-> x,
                        company |-> Null])
  BY DEF Proper, Invitation, Kind, Person
<1>2. ASSUME NEW d \in Driver, NEW c \in Company
      PROVE  Proper([kind |-> "company", by |-> x, to |-> d, company |-> c])
  BY DEF Proper, Invitation, Kind, Person
<1>3. ASSUME NEW y \in Dispatcher, NEW c \in Company
      PROVE  Proper([kind |-> "colleague", by |-> x, to |-> y, company |-> c])
  BY DEF Proper, Invitation, Kind, Person
<1>. QED
  BY <1>1, <1>2, <1>3, IssueInv
     DEF CreateForFreelance, CreateFromDriver, CreateDriverInvitation,
         CreateInvitation

LEMMA CheckLinkInv ==
  ASSUME Inv, NEW r \in Request, NEW x \in Dispatcher, NEW d \in Driver,
         CheckLink(r, x, d)
  PROVE  Inv'
<1>. DEFINE h == [Idle EXCEPT !.step = "rig", !.me = x, !.at = d]
<1>1. h \in Handler /\ h.step = "rig" /\ h.me = x /\ h.at = d /\ h.token = Null
  BY DEF Idle, Handler, Person
<1>2. Moves(r) /\ req'[r] = h
  BY <1>1, BeginMoves DEF CheckLink, Inv
<1>3. <<d, x>> \in agreed
  BY DEF CheckLink, Inv, Consent, Tied, InvitationAssumption
<1>4. Carried(r)'
  BY <1>1, <1>2, <1>3 DEF Carried, Holding, CheckLink, history, Person
<1>. QED
  BY <1>2, <1>4, HandlerStep DEF CheckLink, TiesSame, history, Inv, TypeOK

\* One who takes an invitation to accept it gives his word with it.
LEMMA TakeInv ==
  ASSUME Inv, NEW r \in Request, NEW me \in Person, NEW i \in Invite,
         NEW step \in {"grant", "close"},
         invite[i] \in Invitation, step = "grant" => invite[i].to = me,
         Take(r, me, i, step)
  PROVE  Inv'
<1>. DEFINE row == invite[i]
            h == [Idle EXCEPT !.step = step, !.me = me, !.token = i,
                              !.row = row]
<1>1. /\ h \in Handler /\ h.step = step /\ h.me = me
      /\ h.token = i /\ h.row = row
  BY DEF Idle, Handler
<1>2. Moves(r) /\ req'[r] = h
  BY <1>1, BeginMoves DEF Take, Inv
<1>3. Proper(row) /\ <<Inviter(row), row.to>> \in agreed
  BY DEF Inv, Asked
<1>4. Inviter(row) \in Party /\ me \in Party
  BY <1>3, InviterType DEF Inv, Party
<1>5. /\ agreed \subseteq agreed'
      /\ agreed' \subseteq Party \X Party
      /\ step = "grant" => <<me, Inviter(row)>> \in agreed'
  BY <1>4 DEF Take, Inv, TypeOK
<1>6. Persist /\ TiesSame
  BY <1>5 DEF Take, Persist, TiesSame
<1>7. Carried(r)'
  BY <1>1, <1>2, <1>3, <1>5 DEF Carried, Holding, Tied
<1>8. \A j \in Invite : Asked(j)'
  BY <1>6, AskedStays DEF Take
<1>9. shared' \subseteq Invite
  BY DEF Take, Share, Inv, TypeOK
<1>. QED
  BY <1>2, <1>5, <1>6, <1>7, <1>8, <1>9, QuietStep DEF Take, Inv, TypeOK

LEMMA AnswerInv ==
  ASSUME Inv, NEW r \in Request, Answer(r)
  PROVE  Inv'
<1>1. PICK i \in Invite :
        \/ \E d \in Driver :
             Accept(r, d, i) \/ Decline(r, d, i) \/ CancelByDriver(r, d, i)
        \/ \E x \in Dispatcher :
             \/ CancelInvitation(r, x, i) \/ AcceptColleague(r, x, i)
             \/ AcceptByDispatcher(r, x, i) \/ DeclineByDispatcher(r, x, i)
  BY DEF Answer
<1>2. invite[i] \in Invitation \cup {Unmade, Gone}
  BY DEF Inv, TypeOK
<1>3. ASSUME NEW d \in Driver,
             Accept(r, d, i) \/ Decline(r, d, i) \/ CancelByDriver(r, d, i)
      PROVE  Inv'
  <2>1. invite[i] \in Invitation
    BY <1>2, <1>3, RowFacts
       DEF Accept, Decline, CancelByDriver, ToDriver, Kind
  <2>2. CASE Accept(r, d, i)
    BY <2>1, <2>2, TakeInv DEF Accept, Person
  <2>3. CASE Decline(r, d, i) \/ CancelByDriver(r, d, i)
    BY <2>1, <2>3, TakeInv DEF Decline, CancelByDriver, Person
  <2>. QED
    BY <1>3, <2>2, <2>3
<1>4. ASSUME NEW x \in Dispatcher,
             \/ CancelInvitation(r, x, i) \/ AcceptColleague(r, x, i)
             \/ AcceptByDispatcher(r, x, i) \/ DeclineByDispatcher(r, x, i)
      PROVE  Inv'
  <2>1. invite[i] \in Invitation
    BY <1>2, <1>4, RowFacts
       DEF CancelInvitation, AcceptColleague, AcceptByDispatcher,
           DeclineByDispatcher, ToDriver, Kind
  <2>2. CASE AcceptColleague(r, x, i) \/ AcceptByDispatcher(r, x, i)
    BY <2>1, <2>2, TakeInv DEF AcceptColleague, AcceptByDispatcher, Person
  <2>3. CASE CancelInvitation(r, x, i) \/ DeclineByDispatcher(r, x, i)
    BY <2>1, <2>3, TakeInv DEF CancelInvitation, DeclineByDispatcher, Person
  <2>. QED
    BY <1>4, <2>2, <2>3
<1>. QED
  BY <1>1, <1>3, <1>4

LEMMA DropAcceptedInv ==
  ASSUME Inv, NEW r \in Request, DropAccepted(r)
  PROVE  Inv'
<1>1. Moves(r) /\ Carried(r)'
  BY ReturnMoves DEF DropAccepted, Inv
<1>2. shared' \subseteq Invite /\ faults' \in 0 .. MaxFaults
  BY SlipTypes DEF DropAccepted
<1>3. Persist /\ TiesSame
  BY DEF DropAccepted, Persist, TiesSame
<1>4. req[r].token \in Invite
  BY DEF DropAccepted, At, Inv, Carried, Holding
<1>5. /\ invite' \in [Invite -> Invitation \cup {Unmade, Gone}]
      /\ \A j \in Invite : invite'[j] = invite[j] \/ invite'[j] = Gone
  BY <1>4 DEF DropAccepted, Inv, TypeOK, Delete
<1>6. \A j \in Invite : Asked(j)'
  BY <1>3, <1>5, RowFacts, AskedStays
<1>. QED
  BY <1>1, <1>2, <1>3, <1>5, <1>6, QuietStep DEF DropAccepted, Inv, TypeOK

LEMMA CloseInv ==
  ASSUME Inv, NEW r \in Request, Close(r)
  PROVE  Inv'
<1>1. Moves(r) /\ Carried(r)'
  BY ReturnMoves DEF Close, Inv
<1>2. Persist /\ TiesSame
  BY DEF Close, Persist, TiesSame
<1>3. req[r].token \in Invite
  BY DEF Close, At, Inv, Carried, Holding
<1>4. /\ invite' \in [Invite -> Invitation \cup {Unmade, Gone}]
      /\ \A j \in Invite : invite'[j] = invite[j] \/ invite'[j] = Gone
  BY <1>3 DEF Close, Inv, TypeOK, Delete
<1>5. \A j \in Invite : Asked(j)'
  BY <1>2, <1>4, RowFacts, AskedStays
<1>. QED
  BY <1>1, <1>2, <1>3, <1>4, <1>5, QuietStep DEF Close, Inv, TypeOK

LEMMA FailInv ==
  ASSUME Inv, NEW r \in Request, Fail(r)
  PROVE  Inv'
<1>1. Moves(r) /\ Carried(r)'
  BY ReturnMoves DEF Fail, Inv
<1>2. shared' \subseteq Invite /\ faults' \in 0 .. MaxFaults
  BY SlipTypes DEF Fail
<1>. QED
  BY <1>1, <1>2, HandlerStep DEF Fail, TiesSame

LEMMA RowsGoInv ==
  ASSUME Inv, NEW i \in Invite, DeclineColleague(i) \/ Expire(i)
  PROVE  Inv'
<1>1. closed' \subseteq Invite /\ shared' \subseteq Invite
  BY DEF DeclineColleague, Expire, Share, history, Inv, TypeOK
<1>. QED
  BY <1>1, RowsGo DEF DeclineColleague, Expire, TiesSame, history

\* The inviter gives his word with the row.
LEMMA InsertInv ==
  ASSUME Inv, NEW r \in Request, Insert(r)
  PROVE  Inv'
<1>. DEFINE row == req[r].row
<1>1. Proper(row)
  BY DEF Insert, At, Inv, Carried
<1>2. PICK i \in Invite :
        invite[i] = Unmade /\ invite' = [invite EXCEPT ![i] = row]
  BY DEF Insert
<1>3. /\ agreed \subseteq agreed' /\ <<Inviter(row), row.to>> \in agreed'
      /\ agreed' \subseteq Party \X Party
  BY <1>1, InviterType DEF Insert, Inv, TypeOK
<1>4. Persist /\ TiesSame
  BY <1>3 DEF Insert, Persist, TiesSame
<1>5. /\ invite' \in [Invite -> Invitation \cup {Unmade, Gone}]
      /\ invite'[i] = row /\ \A j \in Invite \ {i} : invite'[j] = invite[j]
  BY <1>1, <1>2 DEF Inv, TypeOK, Proper
<1>6. Asked(i)'
  BY <1>1, <1>3, <1>5 DEF Asked, Inviter
<1>7. \A j \in Invite : Asked(j)'
  BY <1>4, <1>5, <1>6, AskedStays
<1>8. Moves(r) /\ Carried(r)'
  BY ReturnMoves DEF Insert, Inv
<1>. QED
  BY <1>3, <1>4, <1>5, <1>7, <1>8, QuietStep DEF Insert, Inv, TypeOK

-----------------------------------------------------------------------------
(* Steps that tie somebody *)

\* Rows stay; what is tied must be tied by word.
LEMMA TieStep ==
  ASSUME Inv, Persist, NEW r \in Request, Moves(r), Carried(r)',
         UNCHANGED <<owner, invite, closed, shared, faults>>,
         link' \in [Driver -> Dispatcher \cup {Null}],
         employer' \in [Driver -> Company \cup {Null}],
         rig' \in [Driver -> Person],
         role' \in [Dispatcher \X Company -> Role \cup {Null}],
         agreed' \subseteq Party \X Party,
         granted' \in [Invite -> 0 .. 2],
         Consent'
  PROVE  Inv'
<1>1. InvitationAssumption' /\ TypeOK'
  BY DEF Inv, InvitationAssumption, TypeOK, Moves
<1>2. \A q \in Request : Carried(q)'
  BY OthersCarry
<1>3. \A j \in Invite : Asked(j)'
  BY AskedStays
<1>. QED
  BY <1>1, <1>2, <1>3 DEF Inv

LEMMA AddOwnerInv ==
  ASSUME Inv, NEW r \in Request, AddOwner(r)
  PROVE  Inv'
<1>. DEFINE x == req[r].me
            c == req[r].at
<1>1. x \in Dispatcher /\ c \in Company /\ owner[c] = x
  BY DEF AddOwner, At, Inv, Carried
<1>2. Moves(r) /\ Carried(r)' /\ Persist
  BY ReturnMoves DEF AddOwner, Inv, Persist, history
<1>3. /\ role' \in [Dispatcher \X Company -> Role \cup {Null}]
      /\ \A y \in Dispatcher, e \in Company :
           <<y, e>> # <<x, c>> => role'[<<y, e>>] = role[<<y, e>>]
  BY <1>1 DEF AddOwner, Inv, TypeOK, Role
<1>4. UNCHANGED <<link, employer, rig, owner, agreed>>
  BY DEF AddOwner, history
<1>5. ASSUME NEW y \in Dispatcher, NEW e \in Company, role'[<<y, e>>] # Null
      PROVE  owner[e] = y \/ Tied(y, e)
  <2>1. CASE y = x /\ e = c
    BY <1>1, <2>1
  <2>2. CASE ~(y = x /\ e = c)
    BY <1>3, <1>5, <2>2 DEF Inv, Consent
  <2>. QED
    BY <2>1, <2>2
<1>6. Consent'
  BY <1>4, <1>5 DEF Inv, Consent, Tied
<1>. QED
  BY <1>2, <1>3, <1>6, TieStep DEF AddOwner, history, Inv, TypeOK

LEMMA WriteRigInv ==
  ASSUME Inv, NEW r \in Request, WriteRig(r)
  PROVE  Inv'
<1>. DEFINE x == req[r].me
            d == req[r].at
<1>1. x \in Person /\ d \in Driver /\ (x = d \/ <<d, x>> \in agreed)
  BY DEF WriteRig, At, Inv, Carried
<1>2. Moves(r) /\ Carried(r)' /\ Persist
  BY ReturnMoves DEF WriteRig, Inv, Persist, history
<1>3. /\ rig' \in [Driver -> Person] /\ rig'[d] = x
      /\ \A e \in Driver \ {d} : rig'[e] = rig[e]
  BY <1>1 DEF WriteRig, Inv, TypeOK
<1>4. Consent'
  BY <1>1, <1>3 DEF WriteRig, Inv, Consent, Tied, history
<1>. QED
  BY <1>2, <1>3, <1>4, TieStep DEF WriteRig, history, Inv, TypeOK

\* Both have given their word when an invitation is carried out.
LEMMA GrantInv ==
  ASSUME Inv, NEW r \in Request, Grant(r)
  PROVE  Inv'
<1>. DEFINE row == req[r].row
            me == req[r].me
            i == req[r].token
<1>1. /\ i \in Invite /\ Proper(row) /\ me = row.to
      /\ Tied(me, Inviter(row))
  BY DEF Grant, At, Inv, Carried, Holding
<1>2. Moves(r) /\ req'[r].step = "drop" /\ req'[r].token = i
  BY GotoDrop DEF Grant, Inv
<1>3. Carried(r)' /\ Persist
  BY <1>1, <1>2 DEF Grant, Carried, Holding, Persist
<1>4. granted' \in [Invite -> 0 .. 2]
  BY <1>1 DEF Grant, Inv, TypeOK
<1>5. Carry(row, me) /\ UNCHANGED <<owner, agreed, rig>>
  BY DEF Grant
<1>6. CASE row.kind = "company"
  <2>1. /\ me \in Driver /\ row.company \in Company /\ Tied(me, row.company)
        /\ employer' = [employer EXCEPT ![me] = row.company]
        /\ UNCHANGED <<link, role>>
    BY <1>1, <1>5, <1>6 DEF Proper, Inviter, Carry
  <2>2. /\ employer' \in [Driver -> Company \cup {Null}]
        /\ \A d \in Driver : Tied(d, employer'[d])
    BY <2>1 DEF Inv, TypeOK, Consent
  <2>3. Consent'
    BY <1>5, <2>1, <2>2 DEF Inv, Consent, Tied
  <2>. QED
    BY <1>2, <1>3, <1>4, <2>1, <2>2, <2>3, TieStep DEF Grant, Inv, TypeOK
<1>7. CASE row.kind \in {"freelance", "reverse"}
  <2>1. PICK d \in Driver, x \in Dispatcher :
          /\ Tied(d, x) /\ link' = [link EXCEPT ![d] = x]
          /\ UNCHANGED <<employer, role>>
    <3>1. CASE row.kind = "freelance"
      BY <1>1, <1>5, <3>1 DEF Proper, Inviter, Carry
    <3>2. CASE row.kind = "reverse"
      <4>1. row.by \in Driver /\ me \in Dispatcher /\ Tied(me, row.by)
        BY <1>1, <3>2 DEF Proper, Inviter
      <4>2. Tied(row.by, me)
        BY <4>1 DEF Tied, Inv, InvitationAssumption
      <4>. QED
        BY <1>5, <3>2, <4>1, <4>2 DEF Carry
    <3>. QED
      BY <1>7, <3>1, <3>2
  <2>2. /\ link' \in [Driver -> Dispatcher \cup {Null}]
        /\ \A e \in Driver : Tied(e, link'[e])
    BY <2>1 DEF Inv, TypeOK, Consent
  <2>3. Consent'
    BY <1>5, <2>1, <2>2 DEF Inv, Consent, Tied
  <2>. QED
    BY <1>2, <1>3, <1>4, <2>1, <2>2, <2>3, TieStep DEF Grant, Inv, TypeOK
<1>8. CASE row.kind = "colleague"
  <2>1. /\ me \in Dispatcher /\ row.company \in Company
        /\ Tied(me, row.company)
        /\ role' = [role EXCEPT ![<<me, row.company>>] = "member"]
        /\ UNCHANGED <<link, employer>>
    BY <1>1, <1>5, <1>8 DEF Proper, Inviter, Carry
  <2>2. /\ role' \in [Dispatcher \X Company -> Role \cup {Null}]
        /\ \A x \in Dispatcher, c \in Company :
             <<x, c>> # <<me, row.company>> => role'[<<x, c>>] = role[<<x, c>>]
    BY <2>1 DEF Inv, TypeOK, Role
  <2>3. \A x \in Dispatcher, c \in Company :
          role'[<<x, c>>] # Null => owner[c] = x \/ Tied(x, c)
    BY <2>1, <2>2 DEF Inv, Consent
  <2>4. Consent'
    BY <1>5, <2>1, <2>3 DEF Inv, Consent, Tied
  <2>. QED
    BY <1>2, <1>3, <1>4, <2>1, <2>2, <2>4, TieStep DEF Grant, Inv, TypeOK
<1>. QED
  BY <1>5, <1>6, <1>7, <1>8 DEF Carry

\* The driver's word stands for both sides.
LEMMA TransportTypeInv ==
  ASSUME Inv, NEW r \in Request, NEW d \in Driver,
         NEW x \in Dispatcher \cup {Null}, NEW c \in Company \cup {Null},
         TransportType(r, d, x, c)
  PROVE  Inv'
<1>. DEFINE h == [Idle EXCEPT !.step = "rig", !.me = d, !.at = d]
<1>1. h \in Handler /\ h.step = "rig" /\ h.me = d /\ h.at = d /\ h.token = Null
  BY DEF Idle, Handler, Person
<1>2. Moves(r) /\ req'[r] = h
  BY <1>1, BeginMoves DEF TransportType, Inv
<1>3. Carried(r)'
  BY <1>1, <1>2 DEF Carried, Holding, Person
<1>4. /\ agreed \subseteq agreed' /\ agreed' \subseteq Party \X Party
      /\ Tied(d, x)' /\ Tied(d, c)'
  <2>1. agreed' = agreed \cup (({d} \X ({x, c} \ {Null}))
                                 \cup (({x, c} \ {Null}) \X {d}))
    BY DEF TransportType
  <2>2. {d} \cup ({x, c} \ {Null}) \subseteq Party
    BY DEF Party, Person
  <2>. QED
    BY <2>1, <2>2 DEF Inv, TypeOK, Tied
<1>5. Persist
  BY <1>4 DEF TransportType, Persist
<1>6. /\ link' \in [Driver -> Dispatcher \cup {Null}]
      /\ employer' \in [Driver -> Company \cup {Null}]
      /\ link'[d] = x /\ employer'[d] = c
      /\ \A e \in Driver \ {d} : /\ link'[e] = link[e]
                                 /\ employer'[e] = employer[e]
  BY DEF TransportType, Inv, TypeOK
<1>7. UNCHANGED <<rig, owner, role>>
  BY DEF TransportType
<1>8. Consent'
  <2>1. ASSUME NEW e \in Driver
        PROVE  /\ Tied(e, link[e])' /\ Tied(e, employer[e])'
               /\ (rig[e] = e \/ <<e, rig[e]>> \in agreed)'
    <3>1. CASE e = d
      BY <1>4, <1>6, <1>7, <3>1 DEF Inv, Consent, Tied
    <3>2. CASE e # d
      BY <1>4, <1>6, <1>7, <3>2 DEF Inv, Consent, Tied
    <3>. QED
      BY <3>1, <3>2
  <2>2. ASSUME NEW y \in Dispatcher, NEW e \in Company, role[<<y, e>>] # Null
        PROVE  owner[e] = y \/ Tied(y, e)'
    BY <1>4, <2>2 DEF Inv, Consent, Tied
  <2>. QED
    BY <1>7, <2>1, <2>2 DEF Consent
<1>. QED
  BY <1>2, <1>3, <1>4, <1>5, <1>6, <1>8, TieStep
     DEF TransportType, Inv, TypeOK

LEMMA UnlinkInv ==
  ASSUME Inv, NEW d \in Driver, NEW x \in Dispatcher, Unlink(d, x)
  PROVE  Inv'
<1>1. /\ link' \in [Driver -> Dispatcher \cup {Null}]
      /\ \A e \in Driver : link'[e] \in {link[e], Null}
  BY DEF Unlink, Inv, TypeOK
<1>2. UNCHANGED <<employer, rig, owner, role, invite, req, agreed, granted,
                  closed, shared, faults>>
  BY DEF Unlink, history
<1>3. InvitationAssumption' /\ TypeOK'
  BY <1>1, <1>2 DEF Inv, InvitationAssumption, TypeOK
<1>4. (\A i \in Invite : Asked(i)') /\ (\A q \in Request : Carried(q)')
  BY <1>2 DEF Inv, Asked, Carried, Tied
<1>5. Consent'
  BY <1>1, <1>2 DEF Inv, Consent, Tied
<1>. QED
  BY <1>3, <1>4, <1>5 DEF Inv

LEMMA StutterInv ==
  ASSUME Inv, UNCHANGED vars
  PROVE  Inv'
<1>1. InvitationAssumption' /\ TypeOK'
  BY DEF vars, history, Inv, InvitationAssumption, TypeOK
<1>2. \A i \in Invite : Asked(i)'
  BY DEF vars, history, Inv, Asked
<1>3. \A r \in Request : Carried(r)'
  BY DEF vars, history, Inv, Carried, Tied
<1>4. Consent'
  BY DEF vars, history, Inv, Consent, Tied
<1>. QED
  BY <1>1, <1>2, <1>3, <1>4 DEF Inv

LEMMA NextInv ==
  ASSUME Inv, Next
  PROVE  Inv'
<1>1. ASSUME NEW r \in Request, Start(r) PROVE Inv'
  BY <1>1, CreateCompanyInv, CreateInvitationsInv, CheckLinkInv,
     TransportTypeInv DEF Start, SetDriverPower, SetDriverTrailer
<1>2. ASSUME NEW r \in Request, Advance(r) PROVE Inv'
  BY <1>2, AddOwnerInv, InsertInv, GrantInv, DropAcceptedInv, CloseInv,
     WriteRigInv, FailInv DEF Advance
<1>. QED
  BY <1>1, <1>2, AnswerInv, RowsGoInv, UnlinkInv
     DEF Next, UnlinkDriver, UnlinkDispatcher

LEMMA InitInv == InvitationAssumption /\ Init => Inv
<1>. SUFFICES ASSUME InvitationAssumption, Init PROVE Inv
  OBVIOUS
<1>1. TypeOK
  BY IdleType DEF Init, TypeOK, InvitationAssumption, Person
<1>2. \A i \in Invite : Asked(i)
  BY RowFacts DEF Init, Asked
<1>3. \A r \in Request : Carried(r)
  BY IdleType DEF Init, Carried, Holding
<1>4. Consent
  BY DEF Init, Consent, Tied
<1>. QED
  BY <1>1, <1>2, <1>3, <1>4 DEF Inv

-----------------------------------------------------------------------------
(* Invitations are carried out or closed once *)

LEMMA HolderFacts ==
  ASSUME Inv, NEW r \in Request
  PROVE  /\ req[r].step \in Holding <=> req[r].token # Null
         /\ req[r].token \in Invite \cup {Null}
         /\ req[r] = Idle => req[r].token = Null
         /\ Null \notin Invite
BY IdleType DEF Inv, Carried, InvitationAssumption

\* A step that answers nothing: a handler that moves comes to hold no token,
\* and held none or one that is shared by now; a row comes and goes once.
LEMMA NoAnswer ==
  ASSUME Inv, OnceInv, UNCHANGED <<granted, closed>>, shared \subseteq shared',
         \A i \in shared' : i \in shared \/ Held(i),
         \A q \in Request :
           \/ req'[q] = req[q]
           \/ req'[q].token = Null /\ req[q].token \in shared' \cup {Null},
         \A i \in Invite :
           \/ invite'[i] = invite[i]
           \/ /\ invite'[i] # Unmade
              /\ invite'[i] \in Invitation => invite[i] = Unmade
  PROVE  OnceInv'
<1>. SUFFICES ASSUME NEW i \in Invite PROVE Single(i)'
  BY DEF OnceInv
<1>1. Single(i) /\ (Request # {} => Null \notin Invite)
  BY HolderFacts DEF OnceInv
<1>2. \A q \in Request : req'[q].token = i => req'[q] = req[q]
  BY <1>1
<1>3. ASSUME invite'[i] = Unmade
      PROVE  granted'[i] = 0 /\ i \notin closed' \cup shared' /\ ~Held(i)'
  <2>1. invite[i] = Unmade
    BY <1>3
  <2>. QED
    BY <1>1, <1>2, <2>1 DEF Single, Held
<1>4. ASSUME i \notin shared'
      PROVE  /\ invite'[i] \in Invitation =>
                  invite[i] \in Invitation \/ invite[i] = Unmade
             /\ i \notin shared /\ Held(i)' = Held(i)
  BY <1>1, <1>2, <1>4 DEF Held
<1>. QED
  BY <1>1, <1>2, <1>3, <1>4 DEF Single

LEMMA StartOnce ==
  ASSUME Inv, OnceInv, NEW r \in Request, Start(r)
  PROVE  OnceInv'
<1>1. PICK h :
        /\ Begin(r, h) /\ h.token = Null
        /\ UNCHANGED <<invite, granted, closed, shared>>
  BY DEF Start, CreateCompany, CreateDriverInvitation, CreateForFreelance,
         CreateFromDriver, CreateInvitation, Issue, TransportType,
         SetDriverPower, SetDriverTrailer, CheckLink, history, Idle
<1>2. \A q \in Request :
        \/ req'[q] = req[q]
        \/ req'[q].token = Null /\ req[q].token = Null
  BY <1>1, HolderFacts DEF Begin, Inv, TypeOK
<1>. QED
  BY <1>1, <1>2, NoAnswer

LEMMA QuietOnce ==
  ASSUME Inv, OnceInv, NEW r \in Request,
         AddOwner(r) \/ Insert(r) \/ WriteRig(r)
  PROVE  OnceInv'
<1>1. req[r].token = Null
  BY DEF AddOwner, Insert, WriteRig, At, Inv, Carried, Holding
<1>2. \A q \in Request :
        \/ req'[q] = req[q]
        \/ req'[q].token = Null /\ q = r
  BY IdleType DEF AddOwner, Insert, WriteRig, Return, Inv, TypeOK
<1>3. UNCHANGED <<granted, closed, shared>>
  BY DEF AddOwner, Insert, WriteRig, history
<1>4. \A i \in Invite :
        \/ invite'[i] = invite[i]
        \/ invite[i] = Unmade /\ invite'[i] # Unmade
  <2>1. CASE Insert(r)
    <3>1. req[r].row \in Invitation
      BY <2>1 DEF Insert, At, Inv, Carried, Proper
    <3>. QED
      BY <2>1, <3>1, RowFacts DEF Insert, Inv, TypeOK
  <2>2. CASE AddOwner(r) \/ WriteRig(r)
    BY <2>2 DEF AddOwner, WriteRig
  <2>. QED
    BY <2>1, <2>2
<1>. QED
  BY <1>1, <1>2, <1>3, <1>4, NoAnswer

\* A failure counts what was held as shared.
LEMMA SlipOnce ==
  ASSUME Inv, OnceInv, NEW r \in Request, Slip(r), Return(r),
         UNCHANGED <<invite, granted, closed>>
  PROVE  OnceInv'
<1>1. \A q \in Request :
        \/ req'[q] = req[q]
        \/ req'[q].token = Null /\ req[q].token \in shared' \cup {Null}
  BY IdleType DEF Slip, Return, Inv, TypeOK
<1>2. shared \subseteq shared' /\ \A i \in shared' : i \in shared \/ Held(i)
  BY DEF Slip, Held
<1>. QED
  BY <1>1, <1>2, NoAnswer

LEMMA ExpireOnce ==
  ASSUME Inv, OnceInv, NEW i \in Invite, Expire(i)
  PROVE  OnceInv'
<1>1. \A j \in Invite : invite'[j] = invite[j] \/ invite'[j] = Gone
  BY DEF Expire, Delete, Inv, TypeOK
<1>. QED
  BY <1>1, RowFacts, NoAnswer DEF Expire, history

\* Whoever takes an invitation holds it alone, or shares it.
LEMMA TakeOnce ==
  ASSUME Inv, OnceInv, NEW r \in Request, NEW me \in Person, NEW i \in Invite,
         NEW step \in {"grant", "close"},
         invite[i] \in Invitation, Take(r, me, i, step)
  PROVE  OnceInv'
<1>. DEFINE h == [Idle EXCEPT !.step = step, !.me = me, !.token = i,
                              !.row = invite[i]]
<1>1. h \in Handler /\ h.step = step /\ h.token = i
  BY DEF Idle, Handler
<1>2. Moves(r) /\ req[r] = Idle /\ req'[r] = h
  BY <1>1, BeginMoves DEF Take, Inv
<1>3. UNCHANGED <<invite, granted, closed>>
  BY DEF Take
<1>4. ASSUME NEW j \in Invite PROVE Single(j)'
  <2>1. Single(j) /\ req[r].token # j
    BY <1>2, HolderFacts DEF OnceInv
  <2>2. CASE j # i
    <3>1. /\ \A q \in Request : req'[q].token = j <=> req[q].token = j
          /\ \A q \in Request : req'[q].token = j => req'[q] = req[q]
          /\ j \in shared' <=> j \in shared
      BY <1>1, <1>2, <2>1, <2>2 DEF Moves, Take, Share
    <3>. QED
      BY <1>3, <2>1, <3>1 DEF Single, Held
  <2>3. CASE j = i
    <3>1. invite'[i] # Unmade
      BY <1>3, RowFacts
    <3>2. CASE Held(i)
      BY <2>3, <3>1, <3>2 DEF Take, Share, Single
    <3>3. CASE ~Held(i)
      <4>1. \A q \in Request : req'[q].token = i => q = r
        BY <1>2, <3>3 DEF Moves, Held
      <4>2. shared' = shared
        BY <3>3 DEF Take, Share
      <4>. QED
        BY <1>1, <1>2, <1>3, <2>1, <2>3, <3>1, <3>3, <4>1, <4>2
           DEF Single, Held
    <3>. QED
      BY <3>2, <3>3
  <2>. QED
    BY <2>2, <2>3
<1>. QED
  BY <1>4 DEF OnceInv

LEMMA AnswerOnce ==
  ASSUME Inv, OnceInv, NEW r \in Request, Answer(r)
  PROVE  OnceInv'
<1>1. PICK i \in Invite, me \in Person, step \in {"grant", "close"} :
        invite[i].kind \in Kind /\ Take(r, me, i, step)
  BY DEF Answer, Accept, Decline, CancelByDriver, CancelInvitation,
         AcceptColleague, AcceptByDispatcher, DeclineByDispatcher, ToDriver,
         Kind, Person
<1>2. invite[i] \in Invitation
  BY <1>1, RowFacts DEF Inv, TypeOK
<1>. QED
  BY <1>1, <1>2, TakeOnce

\* The one who holds an invitation moves on, or lets it go answered.
LEMMA OneAnswer ==
  ASSUME Inv, OnceInv, NEW r \in Request, Moves(r),
         NEW i \in Invite, req[r].token = i,
         \A j \in Invite \ {i} :
           /\ invite'[j] = invite[j] /\ granted'[j] = granted[j]
           /\ j \in closed' <=> j \in closed,
         UNCHANGED shared, invite'[i] # Unmade,
         i \notin shared =>
           \/ /\ req'[r].token = i /\ req'[r].step = "drop"
              /\ granted'[i] = 1 /\ i \notin closed'
           \/ /\ req'[r].token = Null /\ invite'[i] \notin Invitation
              /\ granted'[i] + (IF i \in closed' THEN 1 ELSE 0) <= 1,
         req'[r].token \in {i, Null}
  PROVE  OnceInv'
<1>. SUFFICES ASSUME NEW j \in Invite PROVE Single(j)'
  BY DEF OnceInv
<1>1. Single(j) /\ Null \notin Invite
  BY HolderFacts DEF OnceInv
<1>2. CASE j # i
  <2>1. /\ \A q \in Request : req'[q].token = j <=> req[q].token = j
        /\ \A q \in Request : req'[q].token = j => req'[q] = req[q]
    BY <1>1, <1>2 DEF Moves
  <2>. QED
    BY <1>1, <1>2, <2>1 DEF Single, Held
<1>3. CASE j = i /\ i \notin shared
  <2>1. \A q \in Request : req'[q].token = i => q = r
    BY <1>1, <1>3 DEF Moves, Single
  <2>. QED
    BY <1>1, <1>3, <2>1 DEF Single, Held
<1>4. CASE j = i /\ i \in shared
  BY <1>4 DEF Single
<1>. QED
  BY <1>2, <1>3, <1>4

LEMMA GrantOnce ==
  ASSUME Inv, OnceInv, NEW r \in Request, Grant(r)
  PROVE  OnceInv'
<1>. DEFINE i == req[r].token
<1>1. i \in Invite /\ Single(i)
  BY DEF Grant, At, Inv, Carried, Holding, OnceInv
<1>2. Moves(r) /\ req'[r].step = "drop" /\ req'[r].token = i
  BY GotoDrop DEF Grant, Inv
<1>3. /\ UNCHANGED <<invite, closed, shared>> /\ invite[i] # Unmade
      /\ \A j \in Invite \ {i} : granted'[j] = granted[j]
  BY <1>1 DEF Grant, Inv, TypeOK, Single, Held
<1>4. ASSUME i \notin shared PROVE granted'[i] = 1 /\ i \notin closed'
  BY <1>1, <1>4 DEF Grant, At, Inv, TypeOK, Single
<1>. QED
  BY <1>1, <1>2, <1>3, <1>4, OneAnswer

LEMMA CloseOnce ==
  ASSUME Inv, OnceInv, NEW r \in Request, Close(r)
  PROVE  OnceInv'
<1>. DEFINE i == req[r].token
<1>1. i \in Invite /\ Single(i)
  BY DEF Close, At, Inv, Carried, Holding, OnceInv
<1>2. Moves(r) /\ req'[r].token = Null
  BY ReturnMoves, IdleType DEF Close, Inv
<1>3. /\ UNCHANGED <<granted, shared>> /\ invite'[i] = Gone
      /\ \A j \in Invite \ {i} :
           invite'[j] = invite[j] /\ (j \in closed' <=> j \in closed)
  BY <1>1 DEF Close, Delete, Inv, TypeOK
<1>4. i \notin shared => granted'[i] = 0
  BY <1>1, <1>3 DEF Close, At, Single
<1>. QED
  BY <1>1, <1>2, <1>3, <1>4, RowFacts, OneAnswer

LEMMA DropOnce ==
  ASSUME Inv, OnceInv, NEW r \in Request, DropAccepted(r)
  PROVE  OnceInv'
<1>. DEFINE i == req[r].token
<1>1. CASE UNCHANGED invite /\ Slip(r)
  BY <1>1, SlipOnce DEF DropAccepted
<1>2. CASE Delete(i) /\ NoSlip
  <2>1. i \in Invite /\ Single(i)
    BY DEF DropAccepted, At, Inv, Carried, Holding, OnceInv
  <2>2. Moves(r) /\ req'[r].token = Null
    BY ReturnMoves, IdleType DEF DropAccepted, Inv
  <2>3. /\ UNCHANGED <<granted, closed, shared>> /\ invite'[i] = Gone
        /\ \A j \in Invite \ {i} : invite'[j] = invite[j]
    BY <1>2, <2>1 DEF DropAccepted, Delete, NoSlip, Inv, TypeOK
  <2>4. i \notin shared =>
          granted'[i] + (IF i \in closed' THEN 1 ELSE 0) <= 1
    BY <2>1, <2>3 DEF Single
  <2>. QED
    BY <2>1, <2>2, <2>3, <2>4, RowFacts, OneAnswer
<1>. QED
  BY <1>1, <1>2 DEF DropAccepted

\* The one DELETE that declines: who held the row by then shares it.
LEMMA DeclineOnce ==
  ASSUME Inv, OnceInv, NEW i \in Invite, DeclineColleague(i)
  PROVE  OnceInv'
<1>. SUFFICES ASSUME NEW j \in Invite PROVE Single(j)'
  BY DEF OnceInv
<1>1. /\ UNCHANGED <<req, granted>> /\ invite'[i] = Gone
      /\ \A k \in Invite \ {i} :
           invite'[k] = invite[k] /\ (k \in closed' <=> k \in closed)
      /\ shared' = IF Held(i) THEN shared \cup {i} ELSE shared
  BY DEF DeclineColleague, Delete, Share, Inv, TypeOK
<1>2. Single(j) /\ Single(i) /\ invite[i] \in Invitation
  <2>1. invite[i] \in Invitation
    BY RowFacts DEF DeclineColleague, Kind, Inv, TypeOK
  <2>. QED
    BY <2>1 DEF OnceInv
<1>3. CASE j # i
  BY <1>1, <1>2, <1>3 DEF Single, Held
<1>4. CASE j = i /\ Held(i)
  BY <1>1, <1>4, RowFacts DEF Single
<1>5. CASE j = i /\ ~Held(i)
  BY <1>1, <1>2, <1>5, RowFacts DEF Single, Held
<1>. QED
  BY <1>3, <1>4, <1>5

LEMMA OnceNext ==
  ASSUME Inv, OnceInv, [Next]_vars
  PROVE  OnceInv'
<1>1. CASE UNCHANGED vars
  BY <1>1 DEF vars, history, OnceInv, Single, Held
<1>2. ASSUME NEW r \in Request, Advance(r) PROVE OnceInv'
  <2>1. CASE Fail(r)
    BY <2>1, SlipOnce DEF Fail
  <2>2. CASE ~Fail(r)
    BY <1>2, <2>2, QuietOnce, GrantOnce, DropOnce, CloseOnce DEF Advance
  <2>. QED
    BY <2>1, <2>2
<1>3. ASSUME NEW x \in Dispatcher, NEW d \in Driver, Unlink(d, x)
      PROVE  OnceInv'
  BY <1>3 DEF Unlink, history, OnceInv, Single, Held
<1>. QED
  BY <1>1, <1>2, <1>3, StartOnce, AnswerOnce, DeclineOnce, ExpireOnce
     DEF Next, UnlinkDriver, UnlinkDispatcher

LEMMA InitOnce == InvitationAssumption /\ Init => OnceInv
BY IdleType, RowFacts
   DEF Init, OnceInv, Single, Held, InvitationAssumption

-----------------------------------------------------------------------------
(* Theorems *)

\* What a handler carries, and what a row says, rests on the word of those it
\* is about, under every interleaving and failure.
THEOREM Invariance == InvitationAssumption /\ Spec => []Inv
<1>1. InvitationAssumption /\ Init => Inv
  BY InitInv
<1>2. Inv /\ [Next]_vars => Inv'
  BY NextInv, StutterInv
<1>. QED
  BY <1>1, <1>2, PTL DEF Spec

\* Every variable keeps its type.
THEOREM TypeCorrect == InvitationAssumption /\ Spec => []TypeOK
<1>1. Inv => TypeOK
  BY DEF Inv
<1>. QED
  BY <1>1, Invariance, PTL

\* Nobody is tied to anybody, and nobody's vehicle is written, without the
\* word of both.
THEOREM Agreed == InvitationAssumption /\ Spec => []Consent
<1>1. Inv => Consent
  BY DEF Inv
<1>. QED
  BY <1>1, Invariance, PTL

\* An invitation that no two handlers held at once and none failed on is
\* carried out or closed at most once.
THEOREM Once == InvitationAssumption /\ Spec => []InvitationOnce
<1>1. InvitationAssumption /\ Init => OnceInv
  BY InitOnce
<1>2. Inv /\ OnceInv /\ [Next]_vars => OnceInv'
  BY OnceNext
<1>3. OnceInv => InvitationOnce
  BY DEF OnceInv, Single, InvitationOnce
<1>. QED
  BY <1>1, <1>2, <1>3, Invariance, PTL DEF Spec
=============================================================================

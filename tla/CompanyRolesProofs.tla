-------------------------- MODULE CompanyRolesProofs --------------------------
(***************************************************************************)
(* Theorems about CompanyRoles, for any users, roles, invitations and      *)
(* handlers, and any number of faults.                                     *)
(***************************************************************************)
EXTENDS CompanyRoles, TLAPS

LEMMA IdleType == Idle \in Handler /\ Idle.step = "idle"
BY DEF Idle, Handler

\* by may give the role n: at some time he held one that may.
Grants(by, n) == \E role \in held[by] : CanInvite(role, n)

\* What a handler has read, or been let to do
Allowed(r) ==
  LET h == req[r] IN
  /\ h.step \in {"own", "invite", "add", "update"} => h.me \in User
  /\ h.step \in {"invite", "add", "update"} =>
       h.role \in RoleName /\ Grants(h.me, h.role)
  /\ h.step = "own" => "Owner" \in held[h.me]
  /\ h.step \in {"add", "update", "target", "remove"} => h.user \in User
  /\ h.step \in {"add", "drop"} => h.token \in Invite

\* Before the company is made nobody has anything to do with it.
Unfounded ==
  ~made => /\ owner = Null
           /\ \A u \in User : Rows(u) = {}
           /\ \A i \in Invite : invite[i] \notin Invitation
           /\ \A r \in Request : req[r].step \in {"idle"}

\* An invitation, and a row, come from one who may give the role.
Offered(i)  == invite[i] \in Invitation => Grants(invite[i].by, invite[i].role)
Given(u, n) == assigned[<<u, n>>] # Null => Grants(assigned[<<u, n>>], n)

Inv ==
  /\ RoleAssumption /\ TypeOK
  /\ \A r \in Request : Allowed(r)
  /\ Unfounded
  /\ \A u \in User : getCompanyRole(u) \subseteq held[u]
  /\ \A i \in Invite : Offered(i)
  /\ \A u \in User, n \in RoleName : Given(u, n)
  /\ RemovedStaysOut

-----------------------------------------------------------------------------
(* Steps *)

\* The history only grows, and takes in what the roles are now.
LEMMA WitnessFacts ==
  ASSUME TypeOK, RoleAssumption, Witness, owner' \in User \cup {Null},
         assigned' \in [User \X RoleName -> User \cup {Null}]
  PROVE  /\ held' \in [User -> SUBSET RoleName]
         /\ \A u \in User : /\ held[u] \subseteq held'[u]
                            /\ getCompanyRole(u)' \subseteq held'[u]
<1>1. \A u \in User : getCompanyRole(u)' \subseteq RoleName
  BY DEF getCompanyRole, Rows, RoleAssumption
<1>. QED
  BY <1>1 DEF Witness, TypeOK

\* Who could give a role can.
LEMMA GrantsGrow ==
  ASSUME \A u \in User : held[u] \subseteq held'[u]
  PROVE  \A u \in User, n \in RoleName : Grants(u, n) => Grants(u, n)'
BY DEF Grants

Moves(r) ==
  /\ req' \in [Request -> Handler]
  /\ \A q \in Request \ {r} : req'[q] = req[q]

LEMMA ReturnMoves ==
  ASSUME TypeOK, NEW r \in Request, Return(r)
  PROVE  Moves(r) /\ req'[r] = Idle /\ Allowed(r)'
BY IdleType DEF TypeOK, Return, Moves, Allowed

LEMMA BeginMoves ==
  ASSUME TypeOK, NEW r \in Request, NEW h \in Handler, Begin(r, h)
  PROVE  Moves(r) /\ req'[r] = h
BY DEF TypeOK, Begin, Moves

LEMMA GotoMoves ==
  ASSUME TypeOK, NEW r \in Request, NEW p \in {"drop", "remove"}, Goto(r, p)
  PROVE  /\ Moves(r) /\ req'[r].step = p
         /\ req'[r].user = req[r].user /\ req'[r].token = req[r].token
<1>1. req[r] \in Handler
  BY DEF TypeOK
<1>2. PICK h \in Handler :
        /\ h = [req[r] EXCEPT !.step = p]
        /\ h.step = p /\ h.user = req[r].user /\ h.token = req[r].token
  <2>1. LET h == [req[r] EXCEPT !.step = p] IN
        /\ h \in Handler
        /\ h.step = p /\ h.user = req[r].user /\ h.token = req[r].token
    BY <1>1 DEF Handler
  <2>. QED
    BY <2>1, Zenon
<1>3. req' = [req EXCEPT ![r] = h]
  BY <1>2 DEF Goto, TypeOK
<1>. QED
  BY <1>2, <1>3 DEF TypeOK, Moves

\* A step that leaves company and roles alone: the handler that moves, and the
\* invitations, must be right.
LEMMA QuietStep ==
  ASSUME Inv, UNCHANGED <<made, owner, assigned, history>>,
         req' \in [Request -> Handler], \A r \in Request : Allowed(r)',
         invite' \in [Invite -> Invitation \cup {Unmade, Gone}],
         faults' \in 0 .. MaxFaults,
         \A i \in Invite : Offered(i)',
         ~made => \A r \in Request : req'[r].step = "idle",
         ~made => \A i \in Invite : invite'[i] \notin Invitation
  PROVE  Inv'
<1>1. TypeOK' /\ RoleAssumption'
  BY DEF Inv, TypeOK, RoleAssumption, history
<1>2. Unfounded'
  BY DEF Inv, Unfounded, Rows, history
<1>3. \A u \in User : getCompanyRole(u)' \subseteq held'[u]
  BY DEF Inv, getCompanyRole, Rows, history
<1>4. ASSUME NEW u \in User, NEW n \in RoleName PROVE Given(u, n)'
  BY DEF Inv, Given, Grants, history
<1>5. RemovedStaysOut'
  BY DEF Inv, RemovedStaysOut, Rows, history
<1>. QED
  BY <1>1, <1>2, <1>3, <1>4, <1>5 DEF Inv

\* Handlers that do not move stay right while the history grows.
LEMMA AllowedFrame ==
  ASSUME Inv, NEW r \in Request, Moves(r), Allowed(r)',
         \A u \in User : held[u] \subseteq held'[u]
  PROVE  \A q \in Request : Allowed(q)'
BY DEF Inv, Moves, Allowed, Grants

\* A step that changes the company or the roles
LEMMA RoleStep ==
  ASSUME Inv, req' \in [Request -> Handler], Witness, made',
         (\A u \in User : held[u] \subseteq held'[u]) =>
           \A q \in Request : Allowed(q)',
         UNCHANGED <<invite>>, faults' \in 0 .. MaxFaults,
         made' \in BOOLEAN, owner' \in User \cup {Null}, out' \subseteq User,
         assigned' \in [User \X RoleName -> User \cup {Null}],
         \A u \in User, n \in RoleName :
           assigned'[<<u, n>>] \in {Null, assigned[<<u, n>>]} \/
             Grants(assigned'[<<u, n>>], n),
         \A u \in out' : Rows(u)' = {}
  PROVE  Inv'
<1>1. /\ held' \in [User -> SUBSET RoleName]
      /\ \A u \in User : /\ held[u] \subseteq held'[u]
                         /\ getCompanyRole(u)' \subseteq held'[u]
  BY WitnessFacts DEF Inv
<1>2. \A u \in User, n \in RoleName : Grants(u, n) => Grants(u, n)'
  BY <1>1, GrantsGrow
<1>3. TypeOK'
  BY <1>1 DEF Inv, TypeOK
<1>4. Unfounded'
  BY DEF Unfounded
<1>5. ASSUME NEW i \in Invite PROVE Offered(i)'
  <2>1. Offered(i) /\ invite'[i] = invite[i]
    BY DEF Inv
  <2>2. invite[i] \in Invitation =>
          invite[i].by \in User /\ invite[i].role \in RoleName
    BY DEF Invitation
  <2>. QED
    BY <1>1, <2>1, <2>2 DEF Offered, Grants
<1>6. ASSUME NEW u \in User, NEW n \in RoleName PROVE Given(u, n)'
  <2>1. Given(u, n) /\ assigned'[<<u, n>>] \in User \cup {Null}
    BY DEF Inv
  <2>. QED
    BY <1>1, <2>1 DEF Given, Grants
<1>7. RemovedStaysOut' /\ RoleAssumption'
  BY DEF RemovedStaysOut, RoleAssumption, Inv
<1>. QED
  BY <1>1, <1>3, <1>4, <1>5, <1>6, <1>7 DEF Inv
-----------------------------------------------------------------------------
(* One lemma per action *)

LEMMA InitInv == RoleAssumption /\ Init => Inv
<1>. SUFFICES ASSUME RoleAssumption, Init PROVE Inv
  OBVIOUS
<1>1. TypeOK
  <2>1. invite \in [Invite -> Invitation \cup {Unmade, Gone}]
    BY DEF Init
  <2>2. assigned \in [User \X RoleName -> User \cup {Null}]
    BY DEF Init
  <2>3. req \in [Request -> Handler]
    BY IdleType DEF Init
  <2>4. held \in [User -> SUBSET RoleName]
    BY DEF Init
  <2>5. /\ made \in BOOLEAN /\ owner \in User \cup {Null}
        /\ out \subseteq User
    BY DEF Init
  <2>6. faults \in 0 .. MaxFaults
    BY DEF Init, RoleAssumption
  <2>. QED
    BY <2>1, <2>2, <2>3, <2>4, <2>5, <2>6 DEF TypeOK
<1>2. ASSUME NEW u \in User PROVE Rows(u) = {} /\ getCompanyRole(u) = {}
  <2>1. \A n \in RoleName : assigned[<<u, n>>] = Null
    BY DEF Init
  <2>2. Rows(u) = {}
    BY <2>1 DEF Rows
  <2>. QED
    BY <2>2 DEF Init, getCompanyRole
<1>3. \A i \in Invite : invite[i] \notin Invitation
  BY DEF Init, Unmade, Invitation, RoleAssumption
<1>4. \A r \in Request : req[r].step = "idle"
  BY IdleType DEF Init
<1>5. \A u \in User, n \in RoleName : Given(u, n)
  BY DEF Init, Given
<1>. QED
  BY <1>1, <1>2, <1>3, <1>4, <1>5, RoleAssumption
     DEF Inv, Init, Allowed, Unfounded, Offered, RemovedStaysOut

LEMMA CreateCompanyInv ==
  ASSUME Inv, NEW r \in Request, NEW u \in User, CreateCompany(r, u)
  PROVE  Inv'
<1>1. PICK h \in Handler :
        /\ h = [Idle EXCEPT !.step = "own", !.me = u]
        /\ h.step = "own" /\ h.me = u
  <2>1. LET h == [Idle EXCEPT !.step = "own", !.me = u] IN
        h \in Handler /\ h.step = "own" /\ h.me = u
    BY IdleType DEF Handler
  <2>. QED
    BY <2>1, Zenon
<1>2. Begin(r, h)
  BY <1>1, Zenon DEF CreateCompany
<1>3. Moves(r) /\ req'[r] = h
  BY <1>2, BeginMoves DEF Inv
<1>4. /\ Witness /\ ~made /\ made' = TRUE /\ owner' = u
      /\ UNCHANGED <<assigned, invite, out, faults>>
  BY DEF CreateCompany
<1>5. "Owner" \in getCompanyRole(u)'
  BY <1>4 DEF getCompanyRole, Inv, Unfounded, Rows
<1>6. getCompanyRole(u)' \subseteq held'[u]
  BY <1>4, WitnessFacts DEF Inv, TypeOK
<1>7. Allowed(r)'
  BY <1>1, <1>3, <1>5, <1>6 DEF Allowed
<1>8. (\A w \in User : held[w] \subseteq held'[w]) =>
        \A q \in Request : Allowed(q)'
  BY <1>3, <1>7, AllowedFrame
<1>9. \A w \in out' : Rows(w)' = {}
  BY <1>4 DEF Inv, RemovedStaysOut, Rows
<1>. QED
  BY <1>3, <1>4, <1>8, <1>9, RoleStep DEF Inv, TypeOK, Moves

\* What Add does to the rows and the history
LEMMA AddFacts ==
  ASSUME Inv, NEW u \in User, NEW n \in RoleName, NEW by \in User,
         Add(u, n, by), Grants(by, n)
  PROVE  /\ out' \subseteq User
         /\ assigned' \in [User \X RoleName -> User \cup {Null}]
         /\ \A w \in User, m \in RoleName :
              assigned'[<<w, m>>] \in {Null, assigned[<<w, m>>]} \/
                Grants(assigned'[<<w, m>>], m)
         /\ \A w \in out' : Rows(w)' = {}
<1>1. /\ out' = out \ {u}
      /\ assigned' = [assigned EXCEPT ![<<u, n>>] = by]
  BY DEF Add
<1>2. assigned' \in [User \X RoleName -> User \cup {Null}]
  BY <1>1 DEF Inv, TypeOK
<1>3. \A w \in User, m \in RoleName :
        assigned'[<<w, m>>] =
          IF w = u /\ m = n THEN by ELSE assigned[<<w, m>>]
  BY <1>1 DEF Inv, TypeOK
<1>4. ASSUME NEW w \in out' PROVE Rows(w)' = {}
  <2>1. w \in User /\ w # u /\ Rows(w) = {}
    BY <1>1 DEF Inv, TypeOK, RemovedStaysOut
  <2>. QED
    BY <2>1, <1>3 DEF Rows
<1>. QED
  BY <1>1, <1>2, <1>3, <1>4 DEF Inv, TypeOK

\* No write: the same, with the rows as they were.
LEMMA NoAddFacts ==
  ASSUME Inv, UNCHANGED <<assigned, out>>
  PROVE  /\ out' \subseteq User
         /\ assigned' \in [User \X RoleName -> User \cup {Null}]
         /\ \A w \in User, m \in RoleName :
              assigned'[<<w, m>>] \in {Null, assigned[<<w, m>>]}
         /\ \A w \in out' : Rows(w)' = {}
BY DEF Inv, TypeOK, RemovedStaysOut, Rows

LEMMA SlipFacts ==
  ASSUME Inv, Slip \/ UNCHANGED faults
  PROVE  faults' \in 0 .. MaxFaults
BY DEF Inv, TypeOK, Slip, RoleAssumption

LEMMA AddOwnerInv ==
  ASSUME Inv, NEW r \in Request, AddOwner(r)
  PROVE  Inv'
<1>1. Return(r) /\ Witness /\ UNCHANGED <<made, owner, invite>>
  BY DEF AddOwner
<1>2. Moves(r) /\ Allowed(r)'
  BY <1>1, ReturnMoves DEF Inv
<1>3. /\ req[r].me \in User /\ "Owner" \in held[req[r].me] /\ made
  BY DEF Inv, Allowed, AddOwner, At, Unfounded
<1>4. Grants(req[r].me, "Owner") /\ "Owner" \in RoleName
  BY <1>3 DEF Grants, CanInvite, Inv, RoleAssumption
<1>5. /\ out' \subseteq User
      /\ assigned' \in [User \X RoleName -> User \cup {Null}]
      /\ \A w \in User, m \in RoleName :
           assigned'[<<w, m>>] \in {Null, assigned[<<w, m>>]} \/
             Grants(assigned'[<<w, m>>], m)
      /\ \A w \in out' : Rows(w)' = {}
  BY <1>3, <1>4, AddFacts, NoAddFacts DEF AddOwner
<1>6. faults' \in 0 .. MaxFaults
  BY SlipFacts DEF AddOwner
<1>7. (\A w \in User : held[w] \subseteq held'[w]) =>
        \A q \in Request : Allowed(q)'
  BY <1>2, AllowedFrame
<1>. QED
  BY <1>1, <1>2, <1>3, <1>5, <1>6, <1>7, RoleStep DEF Inv, TypeOK, Moves

LEMMA AddInvitedInv ==
  ASSUME Inv, NEW r \in Request, AddInvited(r)
  PROVE  Inv'
<1>1. Goto(r, "drop") /\ Witness /\ UNCHANGED <<made, owner, invite>>
  BY DEF AddInvited
<1>2. /\ Moves(r) /\ req'[r].step = "drop" /\ req'[r].token = req[r].token
  BY <1>1, GotoMoves DEF Inv
<1>3. /\ req[r].me \in User /\ req[r].user \in User /\ req[r].role \in RoleName
      /\ req[r].token \in Invite
      /\ Grants(req[r].me, req[r].role) /\ made
  BY DEF Inv, Allowed, AddInvited, At, Unfounded
<1>4. Allowed(r)'
  BY <1>2, <1>3 DEF Allowed
<1>5. /\ out' \subseteq User
      /\ assigned' \in [User \X RoleName -> User \cup {Null}]
      /\ \A w \in User, m \in RoleName :
           assigned'[<<w, m>>] \in {Null, assigned[<<w, m>>]} \/
             Grants(assigned'[<<w, m>>], m)
      /\ \A w \in out' : Rows(w)' = {}
  BY <1>3, AddFacts, NoAddFacts DEF AddInvited
<1>6. faults' \in 0 .. MaxFaults
  BY SlipFacts DEF AddInvited
<1>7. (\A w \in User : held[w] \subseteq held'[w]) =>
        \A q \in Request : Allowed(q)'
  BY <1>2, <1>4, AllowedFrame
<1>. QED
  BY <1>1, <1>2, <1>3, <1>5, <1>6, <1>7, RoleStep DEF Inv, TypeOK, Moves

\* What a quiet handler leaves alone
Still == UNCHANGED <<made, owner, assigned, history>>

\* A handler that moves, with the invitations as they are
LEMMA HandlerStep ==
  ASSUME Inv, NEW r \in Request, Moves(r), Allowed(r)', Still,
         UNCHANGED invite, faults' \in 0 .. MaxFaults,
         ~made => req'[r].step = "idle"
  PROVE  Inv'
<1>1. \A q \in Request : Allowed(q)'
  BY AllowedFrame DEF Still, history
<1>2. \A i \in Invite : Offered(i)'
  BY DEF Inv, Offered, Grants, Still, history
<1>3. ~made => \A q \in Request : req'[q].step = "idle"
  BY DEF Inv, Unfounded, Moves
<1>. QED
  BY <1>1, <1>2, <1>3, QuietStep DEF Inv, TypeOK, Moves, Unfounded, Still

LEMMA ReturnStep ==
  ASSUME Inv, NEW r \in Request, Return(r), Still, UNCHANGED invite,
         Slip \/ UNCHANGED faults
  PROVE  Inv'
<1>1. Moves(r) /\ req'[r] = Idle /\ Allowed(r)'
  BY ReturnMoves DEF Inv
<1>2. faults' \in 0 .. MaxFaults
  BY SlipFacts
<1>. QED
  BY <1>1, <1>2, IdleType, HandlerStep

\* A change of the invitations
LEMMA InviteStep ==
  ASSUME Inv, Still, faults' \in 0 .. MaxFaults, made,
         req' \in [Request -> Handler], \A q \in Request : Allowed(q)',
         invite' \in [Invite -> Invitation \cup {Unmade, Gone}],
         \A i \in Invite : invite'[i] \in Invitation =>
           invite'[i] = invite[i] \/ Grants(invite'[i].by, invite'[i].role)
  PROVE  Inv'
<1>1. \A i \in Invite : Offered(i)'
  BY DEF Inv, Offered, Grants, Still, history
<1>. QED
  BY <1>1, QuietStep DEF Still

LEMMA GoneIsNone ==
  RoleAssumption => Gone \notin Invitation /\ Unmade \notin Invitation
BY DEF RoleAssumption, Gone, Unmade, Invitation

\* Once somebody has a role, the company is there.
LEMMA Founded ==
  ASSUME Inv, NEW u \in User, getCompanyRole(u) # {}
  PROVE  made
BY DEF Inv, Unfounded, getCompanyRole

\* Who gives a role now, could give it at some time.
LEMMA NowGrants ==
  ASSUME Inv, NEW a \in User, NEW n \in RoleName,
         \E role \in getCompanyRole(a) : CanInvite(role, n)
  PROVE  Grants(a, n) /\ made
BY Founded DEF Inv, Grants

LEMMA CreateInvitationInv ==
  ASSUME Inv, NEW r \in Request, NEW a \in User, NEW n \in RoleName,
         CreateInvitation(r, a, n)
  PROVE  Inv'
<1>1. PICK h \in Handler :
        /\ h = [Idle EXCEPT !.step = "invite", !.me = a, !.role = n]
        /\ h.step = "invite" /\ h.me = a /\ h.role = n
  <2>1. LET h == [Idle EXCEPT !.step = "invite", !.me = a, !.role = n] IN
        h \in Handler /\ h.step = "invite" /\ h.me = a /\ h.role = n
    BY IdleType DEF Handler
  <2>. QED
    BY <2>1, Zenon
<1>2. Begin(r, h)
  BY <1>1, Zenon DEF CreateInvitation
<1>3. Moves(r) /\ req'[r] = h
  BY <1>2, BeginMoves DEF Inv
<1>4. /\ Still /\ UNCHANGED <<invite, faults>>
      /\ \E role \in getCompanyRole(a) : CanInvite(role, n)
  BY DEF CreateInvitation, Still
<1>5. Grants(a, n) /\ made
  BY <1>4, NowGrants
<1>6. Allowed(r)'
  BY <1>1, <1>3, <1>4, <1>5 DEF Allowed, Grants, Still, history
<1>. QED
  BY <1>3, <1>4, <1>5, <1>6, HandlerStep DEF Inv, TypeOK

LEMMA InsertInvitationInv ==
  ASSUME Inv, NEW r \in Request, InsertInvitation(r)
  PROVE  Inv'
<1>1. Return(r) /\ Still /\ UNCHANGED faults
  BY DEF InsertInvitation, Still
<1>2. Moves(r) /\ Allowed(r)'
  BY <1>1, ReturnMoves DEF Inv
<1>3. /\ req[r].me \in User /\ req[r].role \in RoleName
      /\ Grants(req[r].me, req[r].role) /\ made
  BY DEF InsertInvitation, At, Inv, Allowed, Unfounded
<1>4. PICK new \in Invitation :
        /\ new = [by |-> req[r].me, role |-> req[r].role]
        /\ new.by = req[r].me /\ new.role = req[r].role
  <2>1. LET new == [by |-> req[r].me, role |-> req[r].role] IN
        /\ new \in Invitation
        /\ new.by = req[r].me /\ new.role = req[r].role
    BY <1>3 DEF Invitation
  <2>. QED
    BY <2>1, Zenon
<1>5. PICK i \in Invite : invite' = [invite EXCEPT ![i] = new]
  BY <1>4 DEF InsertInvitation
<1>6. \A q \in Request : Allowed(q)'
  BY <1>1, <1>2, AllowedFrame DEF Still, history
<1>7. /\ invite' \in [Invite -> Invitation \cup {Unmade, Gone}]
      /\ \A j \in Invite : invite'[j] = invite[j] \/ invite'[j] = new
  BY <1>4, <1>5 DEF Inv, TypeOK
<1>. QED
  BY <1>1, <1>2, <1>3, <1>4, <1>6, <1>7, InviteStep DEF Inv, TypeOK, Moves

LEMMA AcceptInvitationInv ==
  ASSUME Inv, NEW r \in Request, NEW u \in User, NEW i \in Invite,
         AcceptInvitation(r, u, i)
  PROVE  Inv'
<1>1. /\ invite[i] \in Invitation /\ invite[i].by \in User
      /\ invite[i].role \in RoleName
      /\ Grants(invite[i].by, invite[i].role) /\ made
  BY DEF AcceptInvitation, Invitation, Inv, Offered, Unfounded
<1>2. PICK by \in User, n \in RoleName : by = invite[i].by /\ n = invite[i].role
  BY <1>1
<1>3. PICK h \in Handler :
        /\ h = [Idle EXCEPT !.step = "add", !.me = by, !.role = n,
                            !.user = u, !.token = i]
        /\ h.step = "add" /\ h.me = by /\ h.role = n
        /\ h.user = u /\ h.token = i
  <2>1. LET h == [Idle EXCEPT !.step = "add", !.me = by, !.role = n,
                              !.user = u, !.token = i] IN
        /\ h \in Handler /\ h.step = "add" /\ h.me = by /\ h.role = n
        /\ h.user = u /\ h.token = i
    BY IdleType DEF Handler
  <2>. QED
    BY <2>1, Zenon
<1>4. Begin(r, h)
  BY <1>2, <1>3, Zenon DEF AcceptInvitation
<1>5. Moves(r) /\ req'[r] = h
  BY <1>4, BeginMoves DEF Inv
<1>6. Still /\ UNCHANGED <<invite, faults>>
  BY DEF AcceptInvitation, Still
<1>7. Allowed(r)'
  BY <1>1, <1>2, <1>3, <1>5, <1>6 DEF Allowed, Grants, Still, history
<1>. QED
  BY <1>1, <1>5, <1>6, <1>7, HandlerStep DEF Inv, TypeOK

LEMMA DropInvitationInv ==
  ASSUME Inv, NEW r \in Request, DropInvitation(r)
  PROVE  Inv'
<1>1. /\ Return(r) /\ Still /\ req[r].step = "drop"
      /\ \/ invite' = [invite EXCEPT ![req[r].token] = Gone] /\ UNCHANGED faults
         \/ Slip /\ UNCHANGED invite
  BY DEF DropInvitation, Still, At
<1>2. Moves(r) /\ Allowed(r)'
  BY <1>1, ReturnMoves DEF Inv
<1>3. req[r].token \in Invite /\ made
  BY <1>1 DEF Inv, Allowed, Unfounded
<1>4. \A q \in Request : Allowed(q)'
  BY <1>1, <1>2, AllowedFrame DEF Still, history
<1>5. faults' \in 0 .. MaxFaults
  BY <1>1, SlipFacts
<1>6. /\ invite' \in [Invite -> Invitation \cup {Unmade, Gone}]
      /\ \A j \in Invite : invite'[j] = invite[j] \/ invite'[j] = Gone
  BY <1>1, <1>3 DEF Inv, TypeOK
<1>. QED
  BY <1>1, <1>2, <1>3, <1>4, <1>5, <1>6, GoneIsNone, InviteStep DEF Inv, Moves

LEMMA ExpireInv ==
  ASSUME Inv, NEW i \in Invite, Expire(i)
  PROVE  Inv'
<1>1. /\ Still /\ UNCHANGED <<req, faults>> /\ invite[i] \in Invitation
      /\ invite' = [invite EXCEPT ![i] = Gone]
  BY DEF Expire, Still
<1>2. made
  BY <1>1 DEF Inv, Unfounded
<1>3. \A q \in Request : Allowed(q)'
  BY <1>1 DEF Inv, Allowed, Grants, Still, history
<1>4. /\ invite' \in [Invite -> Invitation \cup {Unmade, Gone}]
      /\ \A j \in Invite : invite'[j] = invite[j] \/ invite'[j] = Gone
  BY <1>1 DEF Inv, TypeOK
<1>. QED
  BY <1>1, <1>2, <1>3, <1>4, GoneIsNone, InviteStep DEF Inv, TypeOK

LEMMA UpdateUserRoleInv ==
  ASSUME Inv, NEW r \in Request, NEW a \in User, NEW u \in User,
         NEW n \in RoleName, UpdateUserRole(r, a, u, n)
  PROVE  Inv'
<1>1. PICK h \in Handler :
        /\ h = [Idle EXCEPT !.step = "update", !.me = a, !.user = u,
                            !.role = n]
        /\ h.step = "update" /\ h.me = a /\ h.role = n /\ h.user = u
  <2>1. LET h == [Idle EXCEPT !.step = "update", !.me = a, !.user = u,
                              !.role = n] IN
        /\ h \in Handler
        /\ h.step = "update" /\ h.me = a /\ h.role = n /\ h.user = u
    BY IdleType DEF Handler
  <2>. QED
    BY <2>1, Zenon
<1>2. Begin(r, h)
  BY <1>1, Zenon DEF UpdateUserRole
<1>3. Moves(r) /\ req'[r] = h
  BY <1>2, BeginMoves DEF Inv
<1>4. /\ Still /\ UNCHANGED <<invite, faults>>
      /\ \E role \in getCompanyRole(a) : CanInvite(role, n)
  BY DEF UpdateUserRole, CanChangeRole, Still
<1>5. Grants(a, n) /\ made
  BY <1>4, NowGrants
<1>6. Allowed(r)'
  BY <1>1, <1>3, <1>4, <1>5 DEF Allowed, Grants, Still, history
<1>. QED
  BY <1>3, <1>4, <1>5, <1>6, HandlerStep DEF Inv, TypeOK

\* Everybody's roles stay, go, or are the one just given.
LEMMA UpdateRoleInv ==
  ASSUME Inv, NEW r \in Request, UpdateRole(r)
  PROVE  Inv'
<1>. DEFINE u == req[r].user
            one == \E n \in RoleName : Rows(u) = {n}
            new == [p \in User \X RoleName |->
                      IF p[1] # u THEN assigned[p]
                      ELSE IF p[2] = req[r].role THEN req[r].me ELSE Null]
<1>1. /\ Return(r) /\ Witness /\ UNCHANGED <<made, owner, invite, out, faults>>
      /\ assigned' = IF ~one THEN assigned ELSE new
  BY DEF UpdateRole
<1>2. /\ u \in User /\ req[r].me \in User /\ req[r].role \in RoleName
      /\ Grants(req[r].me, req[r].role) /\ made
  BY DEF UpdateRole, At, Inv, Allowed, Unfounded
<1>3. Moves(r) /\ Allowed(r)'
  BY <1>1, ReturnMoves DEF Inv
<1>4. (\A w \in User : held[w] \subseteq held'[w]) =>
        \A q \in Request : Allowed(q)'
  BY <1>3, AllowedFrame
<1>5. CASE ~one
  <2>1. UNCHANGED <<assigned, out>>
    BY <1>1, <1>5
  <2>. QED
    BY <1>1, <1>2, <1>3, <1>4, <2>1, NoAddFacts, RoleStep DEF Inv, TypeOK, Moves
<1>6. CASE one
  <2>1. new \in [User \X RoleName -> User \cup {Null}]
    BY <1>2 DEF Inv, TypeOK
  <2>2. \A w \in User, m \in RoleName :
          new[<<w, m>>] =
            IF w # u THEN assigned[<<w, m>>]
            ELSE IF m = req[r].role THEN req[r].me ELSE Null
    OBVIOUS
  <2>3. assigned' = new
    BY <1>1, <1>6
  <2>. HIDE DEF new
  <2>4. ASSUME NEW w \in out PROVE Rows(w)' = {}
    <3>1. w \in User /\ Rows(w) = {} /\ w # u
      BY <1>6 DEF Inv, TypeOK, RemovedStaysOut
    <3>. QED
      BY <2>2, <2>3, <3>1 DEF Rows
  <2>5. \A w \in User, m \in RoleName :
          assigned'[<<w, m>>] \in {Null, assigned[<<w, m>>]} \/
            Grants(assigned'[<<w, m>>], m)
    BY <1>2, <2>2, <2>3
  <2>. QED
    BY <1>1, <1>2, <1>3, <1>4, <2>1, <2>3, <2>4, <2>5, RoleStep
       DEF Inv, TypeOK, Moves
<1>. QED
  BY <1>5, <1>6

LEMMA RemoveUserInv ==
  ASSUME Inv, NEW r \in Request, NEW a \in User, RemoveUser(r, a)
  PROVE  Inv'
<1>1. /\ getCompanyRole(a) # {} /\ Still /\ UNCHANGED <<invite, faults>>
      /\ \E role \in getCompanyRole(a), u \in User :
           Begin(r, [Idle EXCEPT !.step = "target", !.me = a, !.role = role,
                                 !.user = u])
  BY Zenon DEF RemoveUser, Still
<1>2. PICK role \in getCompanyRole(a), u \in User :
        Begin(r, [Idle EXCEPT !.step = "target", !.me = a, !.role = role,
                              !.user = u])
  BY <1>1, Zenon
<1>3. role \in RoleName
  BY DEF getCompanyRole, Rows, Inv, RoleAssumption
<1>4. PICK h \in Handler :
        /\ h = [Idle EXCEPT !.step = "target", !.me = a, !.role = role,
                            !.user = u]
        /\ h.step = "target" /\ h.user = u
  <2>1. LET h == [Idle EXCEPT !.step = "target", !.me = a, !.role = role,
                              !.user = u] IN
        h \in Handler /\ h.step = "target" /\ h.user = u
    BY <1>3, IdleType DEF Handler
  <2>. QED
    BY <2>1, Zenon
<1>5. Begin(r, h)
  BY <1>2, <1>4, Zenon
<1>6. Moves(r) /\ req'[r] = h
  BY <1>5, BeginMoves DEF Inv
<1>7. Allowed(r)' /\ made
  BY <1>1, <1>4, <1>6, Founded DEF Allowed
<1>. QED
  BY <1>1, <1>6, <1>7, HandlerStep DEF Inv, TypeOK

LEMMA CheckTargetInv ==
  ASSUME Inv, NEW r \in Request, CheckTarget(r)
  PROVE  Inv'
<1>1. /\ Still /\ UNCHANGED <<invite, faults>> /\ req[r].step = "target"
      /\ Goto(r, "remove") \/ Return(r)
  BY DEF CheckTarget, Still, At
<1>2. CASE Return(r)
  BY <1>1, <1>2, ReturnStep
<1>3. CASE Goto(r, "remove")
  <2>1. Moves(r) /\ req'[r].step = "remove" /\ req'[r].user = req[r].user
    BY <1>3, GotoMoves DEF Inv
  <2>2. made /\ req[r].user \in User
    BY <1>1 DEF Inv, Unfounded, Allowed
  <2>3. Allowed(r)'
    BY <2>1, <2>2 DEF Allowed
  <2>. QED
    BY <1>1, <2>1, <2>2, <2>3, HandlerStep DEF Inv, TypeOK
<1>. QED
  BY <1>1, <1>2, <1>3

LEMMA RemoveInv ==
  ASSUME Inv, NEW r \in Request, Remove(r)
  PROVE  Inv'
<1>. DEFINE u == req[r].user
            new == [p \in User \X RoleName |->
                      IF p[1] = u THEN Null ELSE assigned[p]]
<1>1. /\ Return(r) /\ Witness /\ UNCHANGED <<made, owner, invite, faults>>
      /\ assigned' = new /\ out' = out \cup {u}
  BY DEF Remove
<1>2. u \in User /\ made
  BY DEF Remove, At, Inv, Allowed, Unfounded
<1>3. Moves(r) /\ Allowed(r)'
  BY <1>1, ReturnMoves DEF Inv
<1>4. (\A w \in User : held[w] \subseteq held'[w]) =>
        \A q \in Request : Allowed(q)'
  BY <1>3, AllowedFrame
<1>5. new \in [User \X RoleName -> User \cup {Null}]
  BY DEF Inv, TypeOK
<1>6. \A w \in User, m \in RoleName :
        new[<<w, m>>] = IF w = u THEN Null ELSE assigned[<<w, m>>]
  OBVIOUS
<1>. HIDE DEF new
<1>7. ASSUME NEW w \in out' PROVE Rows(w)' = {}
  <2>1. w \in User /\ (w # u => Rows(w) = {})
    BY <1>1, <1>2 DEF Inv, TypeOK, RemovedStaysOut
  <2>. QED
    BY <1>1, <1>6, <2>1 DEF Rows
<1>8. \A w \in User, m \in RoleName :
        assigned'[<<w, m>>] \in {Null, assigned[<<w, m>>]}
  BY <1>1, <1>6
<1>9. out' \subseteq User
  BY <1>1, <1>2 DEF Inv, TypeOK
<1>. QED
  BY <1>1, <1>2, <1>3, <1>4, <1>5, <1>7, <1>8, <1>9, RoleStep
     DEF Inv, TypeOK, Moves

LEMMA FailInv ==
  ASSUME Inv, NEW r \in Request, Fail(r)
  PROVE  Inv'
BY ReturnStep DEF Fail, Still

\* An admin makes the company, or gives it another owner.
LEMMA AdminInv ==
  ASSUME Inv, Create \/ \E u \in User : SetOwner(u)
  PROVE  Inv'
<1>1. /\ Witness /\ made' /\ made' \in BOOLEAN /\ owner' \in User \cup {Null}
      /\ UNCHANGED <<assigned, invite, req, out, faults>>
  BY DEF Create, SetOwner, Inv, TypeOK
<1>2. (\A w \in User : held[w] \subseteq held'[w]) =>
        \A q \in Request : Allowed(q)'
  BY <1>1 DEF Inv, Allowed, Grants
<1>3. /\ out' \subseteq User
      /\ assigned' \in [User \X RoleName -> User \cup {Null}]
      /\ \A w \in User, m \in RoleName :
           assigned'[<<w, m>>] \in {Null, assigned[<<w, m>>]}
      /\ \A w \in out' : Rows(w)' = {}
  BY <1>1, NoAddFacts
<1>. QED
  BY <1>1, <1>2, <1>3, RoleStep DEF Inv, TypeOK

LEMMA StutterInv ==
  ASSUME Inv, UNCHANGED vars
  PROVE  Inv'
<1>1. Still /\ UNCHANGED <<invite, req, faults>>
  BY DEF vars, Still
<1>2. \A q \in Request : Allowed(q)'
  BY <1>1 DEF Inv, Allowed, Grants, Still, history
<1>3. \A i \in Invite : Offered(i)'
  BY <1>1 DEF Inv, Offered, Grants, Still, history
<1>. QED
  BY <1>1, <1>2, <1>3, QuietStep DEF Inv, TypeOK, Unfounded, Still

LEMMA NextInv ==
  ASSUME Inv, Next
  PROVE  Inv'
<1>1. ASSUME NEW r \in Request, Start(r) PROVE Inv'
  BY <1>1, CreateCompanyInv, RemoveUserInv, CreateInvitationInv,
     UpdateUserRoleInv, AcceptInvitationInv DEF Start
<1>2. ASSUME NEW r \in Request, Advance(r) PROVE Inv'
  BY <1>2, AddOwnerInv, InsertInvitationInv, AddInvitedInv, DropInvitationInv,
     UpdateRoleInv, CheckTargetInv, RemoveInv, FailInv DEF Advance
<1>. QED
  BY <1>1, <1>2, AdminInv, ExpireInv DEF Next

-----------------------------------------------------------------------------
(* Theorems *)

\* What has been read, offered or recorded rests on a role its giver held.
THEOREM Invariance == RoleAssumption /\ Spec => []Inv
<1>1. RoleAssumption /\ Init => Inv
  BY InitInv
<1>2. Inv /\ [Next]_vars => Inv'
  BY NextInv, StutterInv
<1>. QED
  BY <1>1, <1>2, PTL DEF Spec

\* Every variable keeps its type.
THEOREM TypeCorrect == RoleAssumption /\ Spec => []TypeOK
<1>1. Inv => TypeOK
  BY DEF Inv
<1>. QED
  BY <1>1, Invariance, PTL

\* Every role of a member was given by one who at some time held a role that
\* may give it.
THEOREM Granted == RoleAssumption /\ Spec => []RoleGranted
<1>1. Inv => RoleGranted
  BY DEF Inv, Given, Grants, RoleGranted
<1>. QED
  BY <1>1, Invariance, PTL

\* Who was removed has no role until he is added anew.
THEOREM StaysOut == RoleAssumption /\ Spec => []RemovedStaysOut
<1>1. Inv => RemovedStaysOut
  BY DEF Inv
<1>. QED
  BY <1>1, Invariance, PTL
=============================================================================

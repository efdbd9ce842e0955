---------------------------- MODULE CompanyRoles ----------------------------
(***************************************************************************)
(* Who may do what in a company of company users (handlers/company_tz and  *)
(* admin_companies, internal/companytz, internal/companies).               *)
(*                                                                         *)
(* One company. A user's roles are rows of user_company_roles, one per     *)
(* role; getCompanyRole takes any one of them, and falls back on the owner *)
(* of the company. Every statement is an atomic step: what a handler does  *)
(* next rests on a role it read before.                                    *)
(***************************************************************************)
EXTENDS Naturals

CONSTANTS
  User,
  RoleName,   \* the names in app_roles
  Invite,     \* bound: the tokens made in one behaviour
  Request,    \* handlers that can be in flight at the same time
  MaxFaults,  \* bound: crashes and failing statements in one behaviour
  Null

RoleAssumption ==
  /\ "Owner" \in RoleName
  /\ Null \notin User \cup RoleName \cup Invite
  /\ MaxFaults \in Nat

VARIABLES
  made,      \* the company is there
  owner,     \* companies.owner_id
  assigned,  \* user_company_roles: who assigned the role, Null if no row
  invite,    \* invitations
  req,       \* handlers in flight
  held,      \* history: the roles getCompanyRole could ever return
  out,       \* history: users removed and not added again
  faults     \* crashes and failed statements so far

history == <<held, out>>
vars == <<made, owner, assigned, invite, req, history, faults>>

-----------------------------------------------------------------------------
Rows(u) == {n \in RoleName : assigned[<<u, n>>] # Null}

\* GetRole has LIMIT 1 and no order.
getCompanyRole(u) ==
  IF Rows(u) # {} THEN Rows(u) ELSE {n \in {"Owner"} : made /\ owner = u}

CanInvite(actor, target) ==
  \/ actor = "Owner"
  \/ actor = "CEO" /\ target # "Owner"
  \/ actor = "TopManager" /\ target = "Manager"
  \/ actor = "TopDispatcher" /\ target = "Dispatcher"
CanChangeRole(actor, target) == CanInvite(actor, target)
CanRemove(actor, target)     == CanInvite(actor, target)

Invitation == [by: User, role: RoleName]
Unmade == [by |-> Null, role |-> Null]
Gone   == [by |-> "gone", role |-> Null]

Handler ==
  [step: {"idle", "own", "invite", "add", "drop", "target", "update",
          "remove"},
   me: User \cup {Null}, role: RoleName \cup {Null},
   user: User \cup {Null}, token: Invite \cup {Null}]
Idle ==
  [step |-> "idle", me |-> Null, role |-> Null, user |-> Null,
   token |-> Null]

Begin(r, h) == req[r] = Idle /\ req' = [req EXCEPT ![r] = h]
At(r, s)    == req[r].step = s
Goto(r, s)  == req' = [req EXCEPT ![r].step = s]
Return(r)   == req' = [req EXCEPT ![r] = Idle]
Slip        == faults < MaxFaults /\ faults' = faults + 1

\* What the roles are after the step joins the history.
Witness == held' = [u \in User |-> held[u] \cup getCompanyRole(u)']

TypeOK ==
  /\ made \in BOOLEAN /\ owner \in User \cup {Null}
  /\ assigned \in [User \X RoleName -> User \cup {Null}]
  /\ invite \in [Invite -> Invitation \cup {Unmade, Gone}]
  /\ req \in [Request -> Handler]
  /\ held \in [User -> SUBSET RoleName]
  /\ out \subseteq User
  /\ faults \in 0 .. MaxFaults

Init ==
  /\ made = FALSE /\ owner = Null
  /\ assigned = [p \in User \X RoleName |-> Null]
  /\ invite = [i \in Invite |-> Unmade]
  /\ req = [r \in Request |-> Idle]
  /\ held = [u \in User |-> {}] /\ out = {}
  /\ faults = 0

-----------------------------------------------------------------------------
(* The company and its owner *)

\* ON CONFLICT of user, company and role: the row gets a new assigner.
Add(u, n, by) ==
  /\ assigned' = [assigned EXCEPT ![<<u, n>>] = by]
  /\ out' = out \ {u}

\* By a company user: CreateByOwner, then the row of the owner.
CreateCompany(r, u) ==
  /\ ~made
  /\ made' = TRUE /\ owner' = u
  /\ Begin(r, [Idle EXCEPT !.step = "own", !.me = u])
  /\ UNCHANGED <<assigned, invite, out, faults>>
  /\ Witness

\* An error is only logged.
AddOwner(r) ==
  LET u == req[r].me IN
  /\ At(r, "own")
  /\ \/ Add(u, "Owner", u) /\ UNCHANGED faults
     \/ Slip /\ UNCHANGED <<assigned, out>>
  /\ Return(r)
  /\ UNCHANGED <<made, owner, invite>>
  /\ Witness

\* By an admin: a company without an owner.
Create ==
  /\ ~made
  /\ made' = TRUE
  /\ UNCHANGED <<owner, assigned, invite, req, out, faults>>
  /\ Witness

\* The former owner keeps his rows, the new one gets none.
SetOwner(u) ==
  /\ made
  /\ owner' = u
  /\ UNCHANGED <<made, assigned, invite, req, out, faults>>
  /\ Witness

-----------------------------------------------------------------------------
(* Invitations. Whoever is logged in and has the token may accept.          *)

CreateInvitation(r, a, n) ==
  /\ \E role \in getCompanyRole(a) : CanInvite(role, n)
  /\ Begin(r, [Idle EXCEPT !.step = "invite", !.me = a, !.role = n])
  /\ UNCHANGED <<made, owner, assigned, invite, history, faults>>

InsertInvitation(r) ==
  /\ At(r, "invite")
  /\ \E i \in Invite :
       /\ invite[i] = Unmade
       /\ invite' = [invite EXCEPT ![i] = [by |-> req[r].me,
                                           role |-> req[r].role]]
  /\ Return(r)
  /\ UNCHANGED <<made, owner, assigned, history, faults>>

AcceptInvitation(r, u, i) ==
  /\ invite[i] \in Invitation
  /\ Begin(r, [Idle EXCEPT !.step = "add", !.me = invite[i].by,
                           !.role = invite[i].role, !.user = u,
                           !.token = i])
  /\ UNCHANGED <<made, owner, assigned, invite, history, faults>>

\* An error is logged, and the invitation is deleted all the same.
AddInvited(r) ==
  /\ At(r, "add")
  /\ \/ Add(req[r].user, req[r].role, req[r].me) /\ UNCHANGED faults
     \/ Slip /\ UNCHANGED <<assigned, out>>
  /\ Goto(r, "drop")
  /\ UNCHANGED <<made, owner, invite>>
  /\ Witness

DropInvitation(r) ==
  /\ At(r, "drop")
  /\ \/ /\ invite' = [invite EXCEPT ![req[r].token] = Gone]
        /\ UNCHANGED faults
     \/ Slip /\ UNCHANGED invite
  /\ Return(r)
  /\ UNCHANGED <<made, owner, assigned, history>>

Expire(i) ==
  /\ invite[i] \in Invitation
  /\ invite' = [invite EXCEPT ![i] = Gone]
  /\ UNCHANGED <<made, owner, assigned, req, history, faults>>

-----------------------------------------------------------------------------
(* Changing and removing. The role of the actor, the role of the target and *)
(* the statement that changes it are three steps.                           *)

\* Fault: any member may change a role.
UpdateByAnyMember(r, a, u, n) ==
  /\ getCompanyRole(a) # {}
  /\ Rows(u) # {}
  /\ Begin(r, [Idle EXCEPT !.step = "update", !.me = a, !.user = u,
                           !.role = n])
  /\ UNCHANGED <<made, owner, assigned, invite, history, faults>>

UpdateUserRole(r, a, u, n) ==
  /\ \E role \in getCompanyRole(a) : CanChangeRole(role, n)
  /\ Rows(u) # {}
  /\ Begin(r, [Idle EXCEPT !.step = "update", !.me = a, !.user = u,
                           !.role = n])
  /\ UNCHANGED <<made, owner, assigned, invite, history, faults>>

\* UPDATE of every row of the target: none left is an error, and so are two,
\* which would be one role twice.
UpdateRole(r) ==
  LET u == req[r].user
      one == \E n \in RoleName : Rows(u) = {n} IN
  /\ At(r, "update")
  /\ assigned' =
       IF ~one THEN assigned
       ELSE [p \in User \X RoleName |->
               IF p[1] # u THEN assigned[p]
               ELSE IF p[2] = req[r].role THEN req[r].me ELSE Null]
  /\ Return(r)
  /\ UNCHANGED <<made, owner, invite, out, faults>>
  /\ Witness

RemoveUser(r, a) ==
  /\ getCompanyRole(a) # {}
  /\ \E role \in getCompanyRole(a), u \in User :
       Begin(r, [Idle EXCEPT !.step = "target", !.me = a, !.role = role,
                             !.user = u])
  /\ UNCHANGED <<made, owner, assigned, invite, history, faults>>

CheckTarget(r) ==
  /\ At(r, "target")
  /\ IF \E n \in Rows(req[r].user) : CanRemove(req[r].role, n)
     THEN Goto(r, "remove") \/ Return(r) ELSE Return(r)
  /\ UNCHANGED <<made, owner, assigned, invite, history, faults>>

\* DELETE of every row of the target.
Remove(r) ==
  LET u == req[r].user IN
  /\ At(r, "remove")
  /\ assigned' = [p \in User \X RoleName |->
                    IF p[1] = u THEN Null ELSE assigned[p]]
  /\ out' = out \cup {u}
  /\ Return(r)
  /\ UNCHANGED <<made, owner, invite, faults>>
  /\ Witness

\* A statement whose error ends the handler, or the process itself.
Fail(r) ==
  /\ req[r] # Idle
  /\ Slip
  /\ Return(r)
  /\ UNCHANGED <<made, owner, assigned, invite, history>>

Start(r) ==
  \E u \in User :
    \/ CreateCompany(r, u)
    \/ RemoveUser(r, u)
    \/ \E n \in RoleName :
         \/ CreateInvitation(r, u, n)
         \/ \E t \in User : UpdateUserRole(r, u, t, n)
    \/ \E i \in Invite : AcceptInvitation(r, u, i)

Advance(r) ==
  \/ AddOwner(r) \/ InsertInvitation(r) \/ AddInvited(r) \/ DropInvitation(r)
  \/ UpdateRole(r) \/ CheckTarget(r) \/ Remove(r) \/ Fail(r)

Next ==
  \/ Create
  \/ \E u \in User : SetOwner(u)
  \/ \E i \in Invite : Expire(i)
  \/ \E r \in Request : Start(r) \/ Advance(r)

Spec == Init /\ [][Next]_vars
-----------------------------------------------------------------------------
(* Properties *)

\* A role is recorded with the one who gave it, and he has at some time held
\* a role that may give it: also when the invitation is accepted long after,
\* by anybody, when the owner has changed, or when the giver lost his role
\* between the check and the write.
RoleGranted ==
  \A u \in User, n \in RoleName :
    LET by == assigned[<<u, n>>] IN
    by # Null => \E role \in held[by] : CanInvite(role, n)

\* A change of role checks that the target is a member, then updates. Who is
\* removed in between is not brought back: only a new Add does that.
RemovedStaysOut == \A u \in out : Rows(u) = {}
=============================================================================

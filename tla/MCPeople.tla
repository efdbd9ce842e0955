------------------------------ MODULE MCPeople ------------------------------
(***************************************************************************)
(* Small instances of Accounts, and of CompanyRoles beside it. The two     *)
(* share no table, so a behaviour is explored for one of them at a time:   *)
(* `area' names it, and the other stays as it was initially. CompanyRoles  *)
(* is taken with the theorems proved about it, for PeopleProofs to cite.   *)
(***************************************************************************)
EXTENDS Accounts, TLC

CONSTANTS User, Invite, RoleName

VARIABLES
  area,
  made, owner, assigned, invite, roleReq, held, out, roleFaults

R == INSTANCE CompanyRolesProofs WITH req <- roleReq, faults <- roleFaults

ASSUME RoleConstants == R!RoleAssumption

roleVars == <<made, owner, assigned, invite, roleReq, held, out, roleFaults>>

Area == {"accounts", "roles"}
Turn(a) == area = a /\ UNCHANGED area

PeopleVars == <<area, vars, roleVars>>
PeopleInit ==
  /\ area \in Area /\ Init /\ R!Init
  /\ area # "accounts" => kind = "driver"
PeopleNext ==
  \/ Turn("accounts") /\ Next /\ UNCHANGED roleVars
  \/ Turn("roles") /\ R!Next /\ UNCHANGED vars
PeopleSpec == PeopleInit /\ [][PeopleNext]_PeopleVars

\* Two phones and two users are the same pair of values here, so one
\* permutation does for both. Ids come in an order.
Symmetry == Permutations(Phone) \cup Permutations(Request)
-----------------------------------------------------------------------------
\* Every role was given by someone who could give it, a removed user does not
\* come back by a late change of role, and the rows of CompanyRoles have their
\* types.
RolesGranted ==
  area = "roles" => R!TypeOK /\ R!RoleGranted /\ R!RemovedStaysOut
=============================================================================

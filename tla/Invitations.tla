---------------------------- MODULE Invitations ----------------------------
(***************************************************************************)
(* How a driver comes to work with a freelance dispatcher or a company,    *)
(* and a dispatcher with a company (handlers/driver_invitations,           *)
(* driver_to_dispatcher_invitations, dispatcher_invitations,               *)
(* driver_dispatchers and dispatcher_companies, with their repositories).  *)
(*                                                                         *)
(* An invitation is a row under a random token: it is made after a check,  *)
(* accepted or declined by whom it is addressed to, cancelled by whom it   *)
(* came from, and deleted by a statement of its own. Each SQL statement is *)
(* an atomic step; what a handler has read before may be stale by then.    *)
(***************************************************************************)
EXTENDS Naturals

CONSTANTS
  Driver, Dispatcher, Company,
  Invite,      \* bound: the tokens made in one behaviour
  Request,     \* handlers that can be in flight at the same time
  MaxFaults,   \* bound: crashes and failing statements in one behaviour
  Null

InvitationAssumption ==
  /\ Driver \cap Dispatcher = {}
  /\ Driver \cap Company = {} /\ Dispatcher \cap Company = {}
  /\ Null \notin Driver \cup Dispatcher \cup Company \cup Invite
  /\ MaxFaults \in Nat

VARIABLES
  link,      \* drivers.freelancer_id
  employer,  \* drivers.company_id
  rig,       \* who wrote the driver's vehicle last
  owner,     \* companies.owner_dispatcher_id, Null before the company is made
  role,      \* dispatcher_company_roles
  invite,    \* the rows of the three tables of invitations
  req,       \* handlers in flight
  agreed,    \* history: <<a, b>> when a has asked for b or accepted b
  granted,   \* history: how often an invitation has been carried out
  closed,    \* history: declined and cancelled invitations
  shared,    \* history: invitations that two handlers held at once, or on
             \* which one failed
  faults     \* crashes and failed statements so far

history == <<agreed, granted, closed, shared>>
vars ==
  <<link, employer, rig, owner, role, invite, req, history, faults>>

-----------------------------------------------------------------------------
Person == Driver \cup Dispatcher
Party  == Person \cup Company

\* "dispatcher" and "top_dispatcher" give the same access: one value here.
Role == {"owner", "member"}

\* driver_invitations holds the first two kinds, driver_to_dispatcher_
\* invitations the third and dispatcher_invitations the last. A phone number
\* stands for the one who has it.
Kind == {"company", "freelance", "reverse", "colleague"}
Invitation ==
  [kind: Kind, by: Person, to: Person, company: Company \cup {Null}]
Unmade == [kind |-> "unmade", by |-> Null, to |-> Null, company |-> Null]
Gone   == [Unmade EXCEPT !.kind = "gone"]

Handler ==
  [step: {"idle", "insert", "grant", "drop", "close", "own", "rig"},
   me: Person \cup {Null}, token: Invite \cup {Null},
   row: Invitation \cup {Unmade},  \* to insert, or as it was read
   at: Driver \cup Company \cup {Null}]
Idle ==
  [step |-> "idle", me |-> Null, token |-> Null, row |-> Unmade, at |-> Null]

Begin(r, h) == req[r] = Idle /\ req' = [req EXCEPT ![r] = h]
At(r, s)    == req[r].step = s
Goto(r, s)  == req' = [req EXCEPT ![r].step = s]
Return(r)   == req' = [req EXCEPT ![r] = Idle]

\* A statement of r fails, or the whole handler.
Slip(r) ==
  /\ faults < MaxFaults /\ faults' = faults + 1
  /\ shared' = shared \cup ({req[r].token} \ {Null})
NoSlip == UNCHANGED <<faults, shared>>

Held(i) == \E q \in Request : req[q].token = i
Share(i) == shared' = IF Held(i) THEN shared \cup {i} ELSE shared

Delete(i) == invite' = [invite EXCEPT ![i] = Gone]

\* What an invitation is about, as seen by the one who accepts it
Inviter(row) ==
  IF row.kind \in {"company", "colleague"} THEN row.company ELSE row.by

TypeOK ==
  /\ link \in [Driver -> Dispatcher \cup {Null}]
  /\ employer \in [Driver -> Company \cup {Null}]
  /\ rig \in [Driver -> Person]
  /\ owner \in [Company -> Dispatcher \cup {Null}]
  /\ role \in [Dispatcher \X Company -> Role \cup {Null}]
  /\ invite \in [Invite -> Invitation \cup {Unmade, Gone}]
  /\ req \in [Request -> Handler]
  /\ agreed \subseteq Party \X Party
  /\ granted \in [Invite -> 0 .. 2]
  /\ closed \subseteq Invite /\ shared \subseteq Invite
  /\ faults \in 0 .. MaxFaults

Init ==
  /\ link = [d \in Driver |-> Null]
  /\ employer = [d \in Driver |-> Null]
  /\ rig = [d \in Driver |-> d]
  /\ owner = [c \in Company |-> Null]
  /\ role = [p \in Dispatcher \X Company |-> Null]
  /\ invite = [i \in Invite |-> Unmade]
  /\ req = [r \in Request |-> Idle]
  /\ agreed = {} /\ granted = [i \in Invite |-> 0]
  /\ closed = {} /\ shared = {}
  /\ faults = 0

-----------------------------------------------------------------------------
(* Companies of dispatchers *)

HasAccess(x, c) == owner[c] = x \/ (owner[c] # Null /\ role[<<x, c>>] # Null)

\* INSERT INTO companies; the role of the owner is a second statement.
CreateCompany(r, x, c) ==
  /\ owner[c] = Null
  /\ owner' = [owner EXCEPT ![c] = x]
  /\ Begin(r, [Idle EXCEPT !.step = "own", !.me = x, !.at = c])
  /\ UNCHANGED <<link, employer, rig, role, invite, history, faults>>

AddOwner(r) ==
  /\ At(r, "own")
  /\ role' = [role EXCEPT ![<<req[r].me, req[r].at>>] = "owner"]
  /\ Return(r)
  /\ UNCHANGED <<link, employer, rig, owner, invite, history, faults>>

-----------------------------------------------------------------------------
(* Making an invitation: what is there is checked, then a row is inserted.  *)

Issue(r, row) ==
  /\ Begin(r, [Idle EXCEPT !.step = "insert", !.me = row.by, !.row = row])
  /\ UNCHANGED <<link, employer, rig, owner, role, invite, history, faults>>

\* Company access is never taken away, so it may be read with the driver.
CreateDriverInvitation(r, x, c, d) ==
  /\ HasAccess(x, c) /\ employer[d] # c
  /\ Issue(r, [kind |-> "company", by |-> x, to |-> d, company |-> c])

CreateForFreelance(r, x, d) ==
  /\ link[d] # x
  /\ Issue(r, [kind |-> "freelance", by |-> x, to |-> d, company |-> Null])

CreateFromDriver(r, d, x) ==
  /\ link[d] # x
  /\ Issue(r, [kind |-> "reverse", by |-> d, to |-> x, company |-> Null])

CreateInvitation(r, x, c, y) ==
  /\ HasAccess(x, c)
  /\ Issue(r, [kind |-> "colleague", by |-> x, to |-> y, company |-> c])

Insert(r) ==
  LET row == req[r].row IN
  /\ At(r, "insert")
  /\ \E i \in Invite :
       /\ invite[i] = Unmade
       /\ invite' = [invite EXCEPT ![i] = row]
  /\ agreed' = agreed \cup {<<Inviter(row), row.to>>}
  /\ Return(r)
  /\ UNCHANGED <<link, employer, rig, owner, role, granted, closed, shared,
                 faults>>

-----------------------------------------------------------------------------
(* Answering one: GetByToken and the comparison of the phone numbers, then  *)
(* the grant, then the DELETE.                                              *)

Take(r, me, i, step) ==
  /\ Begin(r, [Idle EXCEPT !.step = step, !.me = me, !.token = i,
                           !.row = invite[i]])
  /\ Share(i)
  /\ agreed' = IF step = "grant"
               THEN agreed \cup {<<me, Inviter(invite[i])>>} ELSE agreed
  /\ UNCHANGED <<link, employer, rig, owner, role, invite, granted, closed,
                 faults>>

ToDriver(i) == invite[i].kind \in {"company", "freelance"}

Accept(r, d, i) ==
  ToDriver(i) /\ invite[i].to = d /\ Take(r, d, i, "grant")
Decline(r, d, i) ==
  ToDriver(i) /\ invite[i].to = d /\ Take(r, d, i, "close")
CancelInvitation(r, x, i) ==
  ToDriver(i) /\ invite[i].by = x /\ Take(r, x, i, "close")

\* Fault: the phone number is not compared.
AcceptByAnyDispatcher(r, x, i) ==
  invite[i].kind = "reverse" /\ Take(r, x, i, "grant")

AcceptByDispatcher(r, x, i) ==
  /\ invite[i].kind = "reverse" /\ invite[i].to = x
  /\ Take(r, x, i, "grant")
DeclineByDispatcher(r, x, i) ==
  /\ invite[i].kind = "reverse" /\ invite[i].to = x
  /\ Take(r, x, i, "close")
CancelByDriver(r, d, i) ==
  /\ invite[i].kind = "reverse" /\ invite[i].by = d
  /\ Take(r, d, i, "close")

AcceptColleague(r, x, i) ==
  /\ invite[i].kind = "colleague" /\ invite[i].to = x
  /\ Take(r, x, i, "grant")

\* One DELETE, by any dispatcher who has the token.
DeclineColleague(i) ==
  /\ invite[i].kind = "colleague"
  /\ Delete(i)
  /\ closed' = closed \cup {i}
  /\ Share(i)
  /\ UNCHANGED <<link, employer, rig, owner, role, req, agreed, granted,
                 faults>>

\* SetCompanyID, SetFreelancerID or dispatchercompanies.Add, by what was read
Carry(row, me) ==
  \/ /\ row.kind = "company"
     /\ employer' = [employer EXCEPT ![me] = row.company]
     /\ UNCHANGED <<link, role>>
  \/ /\ row.kind = "freelance"
     /\ link' = [link EXCEPT ![me] = row.by]
     /\ UNCHANGED <<employer, role>>
  \/ /\ row.kind = "reverse"
     /\ link' = [link EXCEPT ![row.by] = me]
     /\ UNCHANGED <<employer, role>>
  \/ /\ row.kind = "colleague"
     /\ role' = [role EXCEPT ![<<me, row.company>>] = "member"]
     /\ UNCHANGED <<link, employer>>

Grant(r) ==
  LET i == req[r].token IN
  /\ At(r, "grant")
  /\ Carry(req[r].row, req[r].me)
  /\ granted' = [granted EXCEPT ![i] = IF @ = 2 THEN 2 ELSE @ + 1]
  /\ Goto(r, "drop")
  /\ UNCHANGED <<rig, owner, invite, agreed, closed, shared, faults>>

\* Fault: the accepted invitation is left where it is.
KeepAccepted(r) ==
  /\ At(r, "drop")
  /\ Return(r)
  /\ UNCHANGED <<link, employer, rig, owner, role, invite, history, faults>>

\* The DELETE of an accepted invitation; its error is ignored.
DropAccepted(r) ==
  /\ At(r, "drop")
  /\ \/ Delete(req[r].token) /\ NoSlip
     \/ UNCHANGED invite /\ Slip(r)
  /\ Return(r)
  /\ UNCHANGED <<link, employer, rig, owner, role, agreed, granted, closed>>

\* The DELETE of a declined or cancelled one. The caller is told it is gone.
Close(r) ==
  /\ At(r, "close")
  /\ Delete(req[r].token)
  /\ closed' = closed \cup {req[r].token}
  /\ Return(r)
  /\ UNCHANGED <<link, employer, rig, owner, role, agreed, granted, shared,
                 faults>>

\* Seven days later: GetByToken and the lists do not see the row any more.
Expire(i) ==
  /\ invite[i].kind \in Kind
  /\ Delete(i)
  /\ UNCHANGED <<link, employer, rig, owner, role, req, history, faults>>

-----------------------------------------------------------------------------
(* The driver himself, and the dispatcher he works with *)

Unlink(d, x) ==
  /\ link[d] = x
  /\ link' = [link EXCEPT ![d] = Null]
  /\ UNCHANGED <<employer, rig, owner, role, invite, req, history, faults>>

UnlinkDriver(x, d)     == Unlink(d, x)
UnlinkDispatcher(d, x) == Unlink(d, x)

\* The driver names any dispatcher and company, or none. Neither is asked, so
\* naming them counts as the agreement of both sides. The vehicle follows in
\* a second statement.
TransportType(r, d, x, c) ==
  /\ link' = [link EXCEPT ![d] = x]
  /\ employer' = [employer EXCEPT ![d] = c]
  /\ agreed' = agreed \cup (({d} \X ({x, c} \ {Null}))
                            \cup (({x, c} \ {Null}) \X {d}))
  /\ Begin(r, [Idle EXCEPT !.step = "rig", !.me = d, !.at = d])
  /\ UNCHANGED <<rig, owner, role, invite, granted, closed, shared, faults>>

\* SetDriverPower and SetDriverTrailer read the link, then write.
CheckLink(r, x, d) ==
  /\ link[d] = x
  /\ Begin(r, [Idle EXCEPT !.step = "rig", !.me = x, !.at = d])
  /\ UNCHANGED <<link, employer, rig, owner, role, invite, history, faults>>

SetDriverPower(r, x, d)   == CheckLink(r, x, d)
SetDriverTrailer(r, x, d) == CheckLink(r, x, d)

WriteRig(r) ==
  /\ At(r, "rig")
  /\ rig' = [rig EXCEPT ![req[r].at] = req[r].me]
  /\ Return(r)
  /\ UNCHANGED <<link, employer, owner, role, invite, history, faults>>

\* A statement whose error ends the handler, or the process itself.
Fail(r) ==
  /\ req[r] # Idle
  /\ Slip(r)
  /\ Return(r)
  /\ UNCHANGED <<link, employer, rig, owner, role, invite, agreed, granted,
                 closed>>

-----------------------------------------------------------------------------
Start(r) ==
  \/ \E x \in Dispatcher, c \in Company : CreateCompany(r, x, c)
  \/ \E x \in Dispatcher, d \in Driver :
       \/ CreateForFreelance(r, x, d) \/ CreateFromDriver(r, d, x)
       \/ SetDriverPower(r, x, d) \/ SetDriverTrailer(r, x, d)
       \/ \E c \in Company : CreateDriverInvitation(r, x, c, d)
  \/ \E x, y \in Dispatcher, c \in Company : CreateInvitation(r, x, c, y)
  \/ \E d \in Driver, x \in Dispatcher \cup {Null},
        c \in Company \cup {Null} : TransportType(r, d, x, c)

Answer(r) ==
  \E i \in Invite :
    \/ \E d \in Driver :
         Accept(r, d, i) \/ Decline(r, d, i) \/ CancelByDriver(r, d, i)
    \/ \E x \in Dispatcher :
         \/ CancelInvitation(r, x, i) \/ AcceptColleague(r, x, i)
         \/ AcceptByDispatcher(r, x, i) \/ DeclineByDispatcher(r, x, i)

Advance(r) ==
  \/ AddOwner(r) \/ Insert(r) \/ Grant(r) \/ DropAccepted(r) \/ Close(r)
  \/ WriteRig(r) \/ Fail(r)

Next ==
  \/ \E r \in Request : Start(r) \/ Answer(r) \/ Advance(r)
  \/ \E i \in Invite : DeclineColleague(i) \/ Expire(i)
  \/ \E x \in Dispatcher, d \in Driver :
       UnlinkDriver(x, d) \/ UnlinkDispatcher(d, x)

Spec == Init /\ [][Next]_vars
-----------------------------------------------------------------------------
(* Properties *)

\* Nobody is tied to anybody without the word of both: a driver to his
\* dispatcher or company, a dispatcher to a company that is not his own. And
\* only the driver, or a dispatcher he agreed to, ever writes his vehicle:
\* also when the link has gone between the check and the write, or when an
\* invitation changes hands between the read and the grant.
Tied(a, b) == b = Null \/ {<<a, b>>, <<b, a>>} \subseteq agreed
Consent ==
  /\ \A d \in Driver :
       /\ Tied(d, link[d]) /\ Tied(d, employer[d])
       /\ rig[d] = d \/ <<d, rig[d]>> \in agreed
  /\ \A x \in Dispatcher, c \in Company :
       role[<<x, c>>] # Null => owner[c] = x \/ Tied(x, c)

\* The grant and the DELETE are two statements. Where no two handlers held an
\* invitation at once and none failed on it, it is carried out at most once,
\* and never after it was declined or cancelled.
InvitationOnce ==
  \A i \in Invite \ shared :
    granted[i] + (IF i \in closed THEN 1 ELSE 0) <= 1
=============================================================================

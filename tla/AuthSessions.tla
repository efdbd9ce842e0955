---------------------------- MODULE AuthSessions ----------------------------
(***************************************************************************)
(* Sessions of drivers, dispatchers, administrators and company users      *)
(* (internal/store/refresh_store.go, internal/security/jwt.go and the      *)
(* handlers that log in, refresh, switch company and log out).             *)
(*                                                                         *)
(* A pair of tokens is known by its sid, which is the jti of the refresh   *)
(* token and the session id of the access token. Redis keeps a key         *)
(* refresh:user:sid, a key session:sid and a set user_sessions:user. Every *)
(* Redis command is one atomic step; a handler issues several, ignores     *)
(* most of their errors, and any number of handlers interleave.            *)
(***************************************************************************)
EXTENDS Naturals

CONSTANTS
  User,      \* ids of the users
  Role,      \* the kind of account behind each id
  MaxSid,    \* bound: the pairs of tokens that are issued
  Request,   \* handlers that can be in flight at the same time
  MaxFaults, \* bound: crashes and failing Redis commands in one behaviour
  Null

Roles == {"driver", "dispatcher", "admin", "user"}

ASSUME AuthAssumption ==
  /\ Role \in [User -> Roles]
  /\ MaxSid \in Nat /\ MaxFaults \in Nat
  /\ Null \notin User

\* Sids are random ids in the code; here they are numbered as issued.
Sid == 1 .. MaxSid
None == 0

VARIABLES
  token,      \* the pairs of tokens
  issued,     \* how many of them exist
  accessOver, \* the access tokens up to this one have expired ...
  refreshOver, \* ... and the refresh tokens up to this one
  refresh,    \* sids with a key refresh:user:sid
  session,    \* sids with a key session:sid
  index,      \* user_sessions:user
  req,        \* handlers in flight
  ended,      \* history: sids that some request has set out to end
  slipped,    \* history: sids for which an ignored Redis command failed
  faults      \* crashes and failed commands so far

tokens  == <<token, issued>>
clock   == <<accessOver, refreshOver>>
keys    == <<refresh, session, index>>
errors  == <<slipped, faults>>
history == <<ended, errors>>
vars    == <<tokens, clock, keys, req, history>>

-----------------------------------------------------------------------------

Token ==
  [user: User \cup {Null},
   how: {"none", "login", "refresh", "switch"},
   from: Sid \cup {None},   \* the pair it replaces
   held: BOOLEAN]           \* the client has received it
NoToken == [user |-> Null, how |-> "none", from |-> None, held |-> FALSE]

\* the Redis command a handler runs next
Step ==
  {"idle", "invalidate", "put", "session.set", "session.add", "reply",
   "revoke.del", "revoke.members", "revoke.session", "revoke.index"}

Handler ==
  [step: Step, user: User \cup {Null}, old: Sid \cup {None},
   new: Sid \cup {None},
   sids: SUBSET Sid,        \* what KEYS or SMEMBERS returned
   told: SUBSET Sid]        \* what the client held when it logged out
Idle ==
  [step |-> "idle", user |-> Null, old |-> None, new |-> None,
   sids |-> {}, told |-> {}]

Begin(r, h) == req[r] = Idle /\ req' = [req EXCEPT ![r] = h]
At(r, s)    == req[r].step = s
Goto(r, s)  == req' = [req EXCEPT ![r].step = s]
Return(r)   == req' = [req EXCEPT ![r] = Idle]

\* A Redis command, or the handler itself, fails; sids are those it is about.
Slip(sids) ==
  /\ faults < MaxFaults /\ faults' = faults + 1
  /\ slipped' = slipped \cup sids
NoSlip == UNCHANGED errors

SidsOf(u) == {s \in Sid : token[s].user = u}

\* The next pair is signed, for the client (held) or for now for the handler.
Issue(u, how, from, held) ==
  /\ issued < MaxSid
  /\ issued' = issued + 1
  /\ token' = [token EXCEPT ![issued + 1] =
                 [user |-> u, how |-> how, from |-> from, held |-> held]]

\* ParseAccess and ParseRefresh: signature and expiry
ValidAccess(s)  == token[s].held /\ s > accessOver
ValidRefresh(s) == token[s].held /\ s > refreshOver

SessionValid(s) == s \in session

\* The role claim of a pair the client has
Claims(s, role) == token[s].held /\ Role[token[s].user] = role

\* The middlewares of the routes. The sid of an access token is never empty.
RequireDriver(s) ==
  ValidAccess(s) /\ Claims(s, "driver") /\ SessionValid(s)
RequireDispatcher(s) ==
  ValidAccess(s) /\ Claims(s, "dispatcher") /\ SessionValid(s)
RequireAdmin(s) ==
  ValidAccess(s) /\ Claims(s, "admin") /\ SessionValid(s)
RequireAppUser(s) ==
  ValidAccess(s) /\ Claims(s, "user") /\ SessionValid(s)
RequireChatUser(s) ==
  ValidAccess(s) /\ SessionValid(s)

\* By the routes of its own kind, and by those of the chat
Accepted(s) ==
  /\ RequireChatUser(s)
  /\ \/ RequireDriver(s) \/ RequireDispatcher(s)
     \/ RequireAdmin(s)  \/ RequireAppUser(s)

TypeOK ==
  /\ token \in [Sid -> Token]
  /\ issued \in 0 .. MaxSid
  /\ accessOver \in 0 .. issued /\ refreshOver \in 0 .. accessOver
  /\ refresh \subseteq Sid /\ session \subseteq Sid
  /\ index \in [User -> SUBSET Sid]
  /\ req \in [Request -> Handler]
  /\ ended \subseteq Sid /\ slipped \subseteq Sid
  /\ faults \in 0 .. MaxFaults

Init ==
  /\ token = [s \in Sid |-> NoToken]
  /\ issued = 0 /\ accessOver = 0 /\ refreshOver = 0
  /\ refresh = {} /\ session = {}
  /\ index = [u \in User |-> {}]
  /\ req = [r \in Request |-> Idle]
  /\ ended = {} /\ slipped = {} /\ faults = 0

-----------------------------------------------------------------------------
(* Login and refresh *)

Login(r, u) ==
  /\ Issue(u, "login", None, FALSE)
  /\ Begin(r, [Idle EXCEPT !.step = "put", !.user = u, !.new = issued + 1])
  /\ UNCHANGED <<clock, keys, history>>

\* A right code or a completed registration logs the user in.
VerifyOTP(r, u)           == Role[u] = "driver" /\ Login(r, u)
DispatcherVerifyOTP(r, u) == Role[u] = "dispatcher" /\ Login(r, u)
UserVerifyOTP(r, u)       == Role[u] = "user" /\ Login(r, u)

LoginPassword(r, u)       == Role[u] = "dispatcher" /\ Login(r, u)
AdminLoginPassword(r, u)  == Role[u] = "admin" /\ Login(r, u)

\* Fault: the key is looked up and left where it is.
RefreshKeepsKey(r, s) ==
  /\ ValidRefresh(s) /\ s \in refresh
  /\ ended' = ended \cup {s}
  /\ Begin(r, [Idle EXCEPT !.step = "invalidate", !.user = token[s].user,
                           !.old = s])
  /\ UNCHANGED <<tokens, clock, keys, errors>>

\* Consume: one DEL decides who of several callers goes on.
Refresh(r, s) ==
  /\ ValidRefresh(s) /\ s \in refresh
  /\ refresh' = refresh \ {s}
  /\ ended' = ended \cup {s}
  /\ Begin(r, [Idle EXCEPT !.step = "invalidate", !.user = token[s].user,
                           !.old = s])
  /\ UNCHANGED <<tokens, clock, session, index, errors>>

\* Fault: the old session is left to its TTL.
InvalidateNothing(r) ==
  /\ At(r, "invalidate")
  /\ Issue(req[r].user, "refresh", req[r].old, FALSE)
  /\ req' = [req EXCEPT ![r].step = "put", ![r].old = None,
                        ![r].new = issued + 1]
  /\ UNCHANGED <<clock, keys, history>>

\* Fault: every session of the user is deleted, not the old one.
InvalidateAll(r) ==
  LET u == req[r].user IN
  /\ At(r, "invalidate")
  /\ session' = session \ SidsOf(u)
  /\ Issue(u, "refresh", req[r].old, FALSE)
  /\ req' = [req EXCEPT ![r].step = "put", ![r].old = None,
                        ![r].new = issued + 1]
  /\ UNCHANGED <<clock, refresh, index, history>>

\* The error of the DEL is ignored; the new pair is issued at once.
InvalidateSession(r) ==
  LET s == req[r].old IN
  /\ At(r, "invalidate")
  /\ \/ session' = session \ {s} /\ NoSlip
     \/ session' = session /\ Slip({s})
  /\ Issue(req[r].user, "refresh", s, FALSE)
  /\ req' = [req EXCEPT ![r].step = "put", ![r].old = None,
                        ![r].new = issued + 1]
  /\ UNCHANGED <<clock, refresh, index, ended>>

Put(r) ==
  LET n == req[r].new IN
  /\ At(r, "put")
  /\ \/ refresh' = refresh \cup {n} /\ NoSlip
     \/ refresh' = refresh /\ Slip({n})
  /\ Goto(r, "session.set")
  /\ UNCHANGED <<tokens, clock, session, index, ended>>

\* Fault: the client is answered while the session is being stored.
PutSessionAfterReply(r) ==
  LET n == req[r].new IN
  /\ At(r, "session.set")
  /\ \/ /\ ~token[n].held
        /\ token' = [token EXCEPT ![n].held = TRUE]
        /\ UNCHANGED <<session, req>>
     \/ /\ token' = token
        /\ session' = session \cup {n}
        /\ Goto(r, "session.add")
  /\ UNCHANGED <<issued, clock, refresh, index, history>>

\* PutSession: SET. On an error the rest is left out (the SET may have been
\* carried out all the same), and the handler ignores the error.
PutSession(r) ==
  LET n == req[r].new IN
  /\ At(r, "session.set")
  /\ \/ /\ session' = session \cup {n} /\ NoSlip
        /\ Goto(r, "session.add")
     \/ /\ session' \in {session, session \cup {n}} /\ Slip({n})
        /\ Goto(r, "reply")
  /\ UNCHANGED <<tokens, clock, refresh, index, ended>>

\* PutSession: SADD. The EXPIRE after it is left out: the TTL of the set is
\* that of refresh tokens, so its members have expired before it does.
AddToIndex(r) ==
  LET added == [index EXCEPT ![req[r].user] = @ \cup {req[r].new}] IN
  /\ At(r, "session.add")
  /\ \/ index' = added /\ NoSlip
     \/ index' = index /\ Slip({})
  /\ Goto(r, "reply")
  /\ UNCHANGED <<tokens, clock, refresh, session, ended>>

Reply(r) ==
  /\ At(r, "reply")
  /\ token' = [token EXCEPT ![req[r].new].held = TRUE]
  /\ Return(r)
  /\ UNCHANGED <<issued, clock, keys, history>>

\* The new pair carries the company; nothing is stored for it.
IssueWithCompany(s) ==
  /\ Issue(token[s].user, "switch", None, TRUE)
  /\ UNCHANGED <<clock, keys, req, history>>

SwitchCompany(s)     == RequireDispatcher(s) /\ IssueWithCompany(s)
UserSwitchCompany(s) == RequireAppUser(s) /\ IssueWithCompany(s)

-----------------------------------------------------------------------------
(* Logout *)

\* Logout by refresh token: the access token lives on.
LogoutRefresh(s) ==
  /\ ValidRefresh(s) /\ s \in refresh
  /\ refresh' = refresh \ {s}
  /\ ended' = ended \cup {s}
  /\ UNCHANGED <<tokens, clock, session, index, req, errors>>

\* RevokeAll: KEYS; it returns at once when no refresh token is left. The
\* access token is not checked against its session.
LogoutAccess(r, s) ==
  LET u == token[s].user
      own == refresh \cap SidsOf(u)
  IN
  /\ ValidAccess(s) /\ own # {}
  /\ ended' = ended \cup own
  /\ Begin(r, [Idle EXCEPT !.step = "revoke.del", !.user = u, !.sids = own,
                           !.told = {x \in SidsOf(u) : token[x].held}])
  /\ UNCHANGED <<tokens, clock, keys, errors>>

\* An administrator and a company user have no logout.
Logout(r, s) ==
  Claims(s, "driver") /\ (LogoutRefresh(s) \/ LogoutAccess(r, s))
DispatcherLogout(r, s) ==
  Claims(s, "dispatcher") /\ (LogoutRefresh(s) \/ LogoutAccess(r, s))

\* Fault: one key is deleted, not the list.
RevokeOne(r) ==
  /\ At(r, "revoke.del")
  /\ \E s \in req[r].sids : refresh' = refresh \ {s}
  /\ req' = [req EXCEPT ![r].step = "revoke.members", ![r].sids = {},
                        ![r].told = {}]
  /\ UNCHANGED <<tokens, clock, session, index, ended, errors>>

\* RevokeAll: DEL of the keys listed
RevokeRefresh(r) ==
  /\ At(r, "revoke.del")
  /\ refresh' = refresh \ req[r].sids
  /\ req' = [req EXCEPT ![r].step = "revoke.members", ![r].sids = {},
                        ![r].told = {}]
  /\ UNCHANGED <<tokens, clock, session, index, ended, errors>>

\* RevokeAll: SMEMBERS
ListSessions(r) ==
  LET sids == index[req[r].user] IN
  /\ At(r, "revoke.members")
  /\ ended' = ended \cup sids
  /\ req' = [req EXCEPT ![r].sids = sids,
               ![r].step = IF sids = {} THEN "revoke.index"
                                        ELSE "revoke.session"]
  /\ UNCHANGED <<tokens, clock, keys, errors>>

\* RevokeAll: DEL of one session after the other, errors ignored
RevokeSession(r) ==
  /\ At(r, "revoke.session")
  /\ \E s \in req[r].sids :
       /\ \/ session' = session \ {s} /\ NoSlip
          \/ session' = session /\ Slip({})
       /\ req' = [req EXCEPT ![r].sids = @ \ {s},
                    ![r].step = IF req[r].sids = {s} THEN "revoke.index"
                                                     ELSE "revoke.session"]
  /\ UNCHANGED <<tokens, clock, refresh, index, ended>>

\* RevokeAll: DEL of user_sessions, with whatever was added since SMEMBERS
DropIndex(r) ==
  /\ At(r, "revoke.index")
  /\ \/ index' = [index EXCEPT ![req[r].user] = {}] /\ NoSlip
     \/ index' = index /\ Slip({})
  /\ Return(r)
  /\ UNCHANGED <<tokens, clock, refresh, session, ended>>

-----------------------------------------------------------------------------
(* Time. Tokens expire in the order they were signed, refresh tokens later  *)
(* than access tokens. A token is signed before its key is stored with the  *)
(* same TTL, so the key outlives the token.                                 *)

AccessExpires ==
  /\ accessOver < issued
  /\ accessOver' = accessOver + 1
  /\ UNCHANGED <<tokens, refreshOver, keys, req, history>>

\* Fault: refresh tokens are signed with the short TTL.
RefreshExpiresEarly ==
  /\ refreshOver < issued
  /\ refreshOver' = refreshOver + 1
  /\ UNCHANGED <<tokens, accessOver, keys, req, history>>

RefreshExpires ==
  /\ refreshOver < accessOver
  /\ refreshOver' = refreshOver + 1
  /\ UNCHANGED <<tokens, accessOver, keys, req, history>>

ExpireRefresh(s) ==
  /\ s \in refresh /\ s <= refreshOver
  /\ refresh' = refresh \ {s}
  /\ UNCHANGED <<tokens, clock, session, index, req, history>>

ExpireSession(s) ==
  /\ s \in session /\ s <= accessOver
  /\ session' = session \ {s}
  /\ UNCHANGED <<tokens, clock, refresh, index, req, history>>

\* A crash, a cancelled request context or an error that ends a handler
Fail(r) ==
  /\ req[r] # Idle
  /\ Slip({})
  /\ Return(r)
  /\ UNCHANGED <<tokens, clock, keys, ended>>

Time ==
  \/ AccessExpires \/ RefreshExpires
  \/ \E s \in Sid : ExpireRefresh(s) \/ ExpireSession(s)

Start(r) ==
  \/ \E u \in User :
       \/ VerifyOTP(r, u) \/ DispatcherVerifyOTP(r, u) \/ UserVerifyOTP(r, u)
       \/ LoginPassword(r, u) \/ AdminLoginPassword(r, u)
  \/ \E s \in Sid : Refresh(r, s) \/ Logout(r, s) \/ DispatcherLogout(r, s)

Advance(r) ==
  \/ InvalidateSession(r) \/ Put(r)
  \/ PutSession(r) \/ AddToIndex(r) \/ Reply(r)
  \/ RevokeRefresh(r) \/ ListSessions(r) \/ RevokeSession(r) \/ DropIndex(r)

Next ==
  \/ Time
  \/ \E s \in Sid : SwitchCompany(s) \/ UserSwitchCompany(s)
  \/ \E r \in Request : Start(r) \/ Advance(r) \/ Fail(r)

Spec == Init /\ [][Next]_vars
-----------------------------------------------------------------------------
(* Properties *)

\* A refresh token is good for one new pair: of two refreshes with the same
\* token, on two devices or after a retry, one at most is served.
RefreshOnce ==
  \A m, n \in Sid :
    token[m].from # None /\ token[m].from = token[n].from => m = n

\* "После refresh старый access недействителен": once the pair that replaces
\* it is issued, the old session is gone and no slower handler stores it
\* again, unless Redis failed to delete it.
RotationEndsOld ==
  \A n \in Sid : LET s == token[n].from IN
    s # None /\ s \notin slipped => s \notin session

\* A client that has its tokens sees them become worthless once only: what
\* was consumed, revoked or expired is never stored again.
NoRevival ==
  [][\A s \in Sid : token[s].held =>
       /\ s \in refresh' => s \in refresh
       /\ s \in session' => s \in session]_vars

\* A session nobody set out to end is accepted as long as its tokens are
\* valid: no request ends the session of another user or another device by
\* the way, and nothing expires early.
UntouchedIsAccepted ==
  \A s \in Sid :
    /\ token[s].held /\ token[s].how # "switch"
    /\ s \notin ended /\ s \notin slipped
    => /\ ValidAccess(s) => Accepted(s)
       /\ ValidRefresh(s) => s \in refresh

\* "отзыв всех сессий": when a logout by access token has passed its DEL, none
\* of the refresh tokens the user held when it began is left, though logins,
\* refreshes and other logouts go on meanwhile.
LogoutEndsRefresh ==
  [][\A r \in Request :
       At(r, "revoke.del") /\ req'[r].step = "revoke.members" =>
         refresh' \cap req[r].told = {}]_vars

\* docs/FREELANCE_DISPATCHER_API_REPORT.md: requests after a switch of company
\* may use the new access token.
SwitchedIsAccepted ==
  \A s \in Sid :
    token[s].how = "switch" /\ ValidAccess(s) /\ s \notin ended => Accepted(s)
-----------------------------------------------------------------------------
(* What holders of tokens see: a handler in flight, and a pair that is not   *)
(* with its owner yet, are hidden.                                           *)

Held == {s \in Sid : token[s].held}
Asking(r) ==
  req[r].step \in {"invalidate", "revoke.del", "revoke.members",
                   "revoke.session", "revoke.index"}

Owner  == [s \in Sid |-> IF s \in Held THEN token[s].user ELSE Null]
Origin == [s \in Sid |-> IF s \in Held THEN token[s].from ELSE None]
Busy   == {req[r].user : r \in {q \in Request : Asking(q)}}

Contract == INSTANCE SessionContract WITH
  Pair <- Sid, owner <- Owner, origin <- Origin,
  good <- refresh \cap Held, open <- session \cap Held,
  dead <- 1 .. refreshOver, old <- 1 .. accessOver, busy <- Busy

\* Every step of every handler is one SessionContract allows: rights are given
\* once, with the pair, and taken by expiry or for a request of the owner's.
SessionSpec == Contract!Spec
=============================================================================

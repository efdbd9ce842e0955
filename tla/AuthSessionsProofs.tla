------------------------- MODULE AuthSessionsProofs -------------------------
(***************************************************************************)
(* Theorems about AuthSessions, for any users, numbers of token pairs and  *)
(* faults, and any number of concurrent handlers. The last part shows that *)
(* they implement SessionContract.                                         *)
(***************************************************************************)
EXTENDS AuthSessions, TLAPS

\* A handler between issuing a pair and answering the client.
Storing(r) ==
  req[r].step \in {"put", "session.set", "session.add", "reply"}

\* What the keys of a pair must be once they have been written.
RefreshStored(s) ==
  s \notin ended \cup slipped /\ s > refreshOver => s \in refresh
SessionStored(s) ==
  s \notin ended \cup slipped /\ s > accessOver => s \in session

\* A pair that replaces another replaces one the client held and can no
\* longer use; a pair the client holds has its keys.
TokenInv(s) ==
  /\ IF s > issued THEN token[s] = NoToken ELSE token[s].user \in User
  /\ LET f == token[s].from IN
     f # None => /\ token[f].held /\ f \notin refresh
                 /\ f \notin slipped => f \notin session
  /\ token[s].held /\ token[s].how # "switch" =>
       RefreshStored(s) /\ SessionStored(s)

\* Only the handler that issued a pair writes its keys, before the client
\* holds it; a handler deletes what it, or another, has set out to end.
HandlerInv(r) ==
  LET h == req[r] IN
  /\ h.step # "idle" => h.user \in User
  /\ Storing(r) => h.new \in 1 .. issued /\ ~token[h.new].held
  /\ h.step \in {"session.set", "session.add", "reply"} =>
       RefreshStored(h.new)
  /\ h.step \in {"session.add", "reply"} => SessionStored(h.new)
  /\ h.step = "invalidate" =>
       /\ h.old \in Sid /\ token[h.old].held
       /\ h.old \notin refresh /\ h.old \in ended
       /\ \A n \in Sid : token[n].from # h.old
  /\ h.step \in {"revoke.del", "revoke.session"} => h.sids \subseteq ended
  /\ h.step = "revoke.del" =>
       \A x \in h.told : token[x].held /\ (x \in refresh => x \in h.sids)

\* No two handlers store the same pair or replace the same pair.
Apart(q, r) ==
  q # r =>
    /\ Storing(q) /\ Storing(r) => req[q].new # req[r].new
    /\ req[q].step = "invalidate" /\ req[r].step = "invalidate" =>
         req[q].old # req[r].old

Inv ==
  /\ TypeOK
  /\ \A s \in Sid : TokenInv(s)
  /\ RefreshOnce
  /\ \A r \in Request : HandlerInv(r)
  /\ \A q, r \in Request : Apart(q, r)

LEMMA InvInit == Init => Inv
BY AuthAssumption
DEF Init, Inv, TypeOK, TokenInv, RefreshOnce, HandlerInv, Apart, Storing,
    RefreshStored, SessionStored, Token, NoToken, Handler, Idle, Step, Sid, None

\* A handler that runs a command has a user and the pair it is about.
LEMMA Acting ==
  ASSUME Inv, NEW r \in Request
  PROVE  /\ req[r] \in Handler
         /\ InvalidateSession(r) => req[r].old \in Sid /\ req[r].user \in User
         /\ Put(r) \/ PutSession(r) \/ AddToIndex(r) \/ Reply(r) =>
              req[r].new \in Sid /\ req[r].user \in User
         /\ ListSessions(r) \/ DropIndex(r) => req[r].user \in User
<1>1. TypeOK /\ HandlerInv(r)
  BY DEF Inv
<1>2. req[r] \in Handler
  BY <1>1 DEF TypeOK
<1>3. 1 .. issued \subseteq Sid
  BY <1>1, AuthAssumption DEF TypeOK, Sid
<1>. QED
  BY <1>1, <1>2, <1>3
  DEF HandlerInv, Storing, At, InvalidateSession, Put, PutSession, AddToIndex,
      Reply, ListSessions, DropIndex

\* The handlers of the four roles come down to these.
LEMMA Starting ==
  ASSUME NEW r \in Request, Start(r)
  PROVE  \/ \E u \in User : Login(r, u)
         \/ \E s \in Sid :
              Refresh(r, s) \/ LogoutAccess(r, s) \/ LogoutRefresh(s)
BY DEF Start, VerifyOTP, DispatcherVerifyOTP, UserVerifyOTP, LoginPassword,
       AdminLoginPassword, Logout, DispatcherLogout

LEMMA Switching ==
  ASSUME NEW s \in Sid, SwitchCompany(s) \/ UserSwitchCompany(s)
  PROVE  token[s].held /\ IssueWithCompany(s)
BY DEF SwitchCompany, UserSwitchCompany, RequireDispatcher, RequireAppUser,
       ValidAccess

\* Types need the invariant: a handler that runs a command has a pair for it.
LEMMA TypeNext == Inv /\ [Next]_vars => TypeOK'
<1>. SUFFICES ASSUME Inv, [Next]_vars PROVE TypeOK'
  OBVIOUS
<1>0. TypeOK
  BY DEF Inv
<1>. HIDE DEF Inv
<1>. USE <1>0
<1>. USE AuthAssumption DEF TypeOK, Sid, None, Begin, At, Goto, Return, Slip,
                            NoSlip, clock, tokens, keys, history, errors
<1>1. CASE UNCHANGED vars
  BY <1>1 DEF vars
<1>2. ASSUME NEW u \in User \cup {Null},
             NEW how \in {"login", "refresh", "switch"},
             NEW f \in Sid \cup {None}, NEW held \in BOOLEAN,
             Issue(u, how, f, held)
      PROVE  /\ token' \in [Sid -> Token]
             /\ issued' \in 0 .. MaxSid /\ issued' = issued + 1
             /\ issued + 1 \in Sid
  <2>. DEFINE t == [user |-> u, how |-> how, from |-> f, held |-> held]
  <2>1. t \in Token
    BY DEF Token
  <2>2. issued < MaxSid /\ issued' = issued + 1
    BY <1>2 DEF Issue
  <2>3. token' = [token EXCEPT ![issued + 1] = t]
    BY <1>2 DEF Issue
  <2>. QED
    BY <2>1, <2>2, <2>3
<1>3. ASSUME NEW r \in Request, NEW u \in User, Login(r, u) PROVE TypeOK'
  <2>1. /\ token' \in [Sid -> Token]
        /\ issued' \in 0 .. MaxSid /\ issued' = issued + 1
        /\ issued + 1 \in Sid
    BY <1>2, <1>3 DEF Login
  <2>2. [Idle EXCEPT !.step = "put", !.user = u, !.new = issued + 1] \in Handler
    BY <2>1 DEF Idle, Handler, Step
  <2>3. req' \in [Request -> Handler]
    BY <1>3, <2>2 DEF Login
  <2>. QED
    BY <1>3, <2>1, <2>3 DEF Login
<1>4. ASSUME NEW r \in Request, NEW s \in Sid, Refresh(r, s) PROVE TypeOK'
  BY <1>4 DEF Refresh, Idle, Handler, Step, Token
<1>5. ASSUME NEW r \in Request, InvalidateSession(r) PROVE TypeOK'
  <2>1. /\ token' \in [Sid -> Token]
        /\ issued' \in 0 .. MaxSid /\ issued' = issued + 1
        /\ issued + 1 \in Sid
    BY <1>2, <1>5 DEF InvalidateSession, Handler
  <2>. DEFINE h == [req[r] EXCEPT !.step = "put", !.old = None,
                                  !.new = issued + 1]
  <2>2. req' = [req EXCEPT ![r] = h]
    BY <1>5 DEF InvalidateSession
  <2>3. h \in Handler
    <3>1. req[r] \in Handler /\ "put" \in Step
      BY DEF Step
    <3>. QED
      BY <2>1, <3>1 DEF Handler
  <2>4. req' \in [Request -> Handler]
    BY <2>2, <2>3
  <2>5. /\ session' \subseteq Sid
        /\ slipped' \subseteq Sid /\ faults' \in 0 .. MaxFaults
    <3>1. req[r].old \in Sid
      BY <1>5, Acting
    <3>. QED
      BY <1>5, <3>1 DEF InvalidateSession
  <2>6. UNCHANGED <<accessOver, refreshOver, refresh, index, ended>>
    BY <1>5 DEF InvalidateSession
  <2>. QED
    BY <2>1, <2>4, <2>5, <2>6
<1>6. ASSUME NEW r \in Request,
             NEW step \in Step,
             NEW sids \in SUBSET Sid, NEW told \in SUBSET Sid,
             \/ req' = [req EXCEPT ![r].step = step]
             \/ req' = [req EXCEPT ![r].sids = sids, ![r].step = step]
             \/ req' = [req EXCEPT ![r].step = step, ![r].sids = sids,
                                   ![r].told = told]
             \/ req' = [req EXCEPT ![r] = Idle]
      PROVE  req' \in [Request -> Handler]
  <2>. DEFINE Same(h) == req' = [req EXCEPT ![r] = h]
  <2>1. Idle \in Handler
    BY DEF Idle, Handler, Step
  <2>2. /\ [req[r] EXCEPT !.step = step] \in Handler
        /\ [req[r] EXCEPT !.sids = sids, !.step = step] \in Handler
        /\ [req[r] EXCEPT !.step = step, !.sids = sids, !.told = told]
             \in Handler
    BY DEF Handler
  <2>3. \/ Same([req[r] EXCEPT !.step = step])
        \/ Same([req[r] EXCEPT !.sids = sids, !.step = step])
        \/ Same([req[r] EXCEPT !.step = step, !.sids = sids, !.told = told])
        \/ Same(Idle)
    BY <1>6
  <2>. QED
    BY <2>1, <2>2, <2>3
<1>7. ASSUME NEW r \in Request, Put(r) PROVE TypeOK'
  <2>1. req' \in [Request -> Handler]
    BY <1>6, <1>7 DEF Put, Step
  <2>2. req[r].new \in Sid
    BY <1>7, Acting
  <2>3. /\ refresh' \subseteq Sid /\ session' \subseteq Sid
        /\ slipped' \subseteq Sid /\ faults' \in 0 .. MaxFaults
    BY <1>7, <2>2 DEF Put
  <2>. QED
    BY <1>7, <2>1, <2>3 DEF Put
<1>8. ASSUME NEW r \in Request, PutSession(r) PROVE TypeOK'
  <2>1. req' \in [Request -> Handler]
    BY <1>6, <1>8 DEF PutSession, Step
  <2>2. req[r].new \in Sid
    BY <1>8, Acting
  <2>3. /\ refresh' \subseteq Sid /\ session' \subseteq Sid
        /\ slipped' \subseteq Sid /\ faults' \in 0 .. MaxFaults
    BY <1>8, <2>2 DEF PutSession
  <2>. QED
    BY <1>8, <2>1, <2>3 DEF PutSession
<1>9. ASSUME NEW r \in Request, AddToIndex(r) PROVE TypeOK'
  <2>1. req' \in [Request -> Handler]
    BY <1>6, <1>9 DEF AddToIndex, Step
  <2>2. req[r].new \in Sid /\ req[r].user \in User
    BY <1>9, Acting
  <2>3. index' \in [User -> SUBSET Sid]
    BY <1>9, <2>2 DEF AddToIndex
  <2>4. slipped' \subseteq Sid /\ faults' \in 0 .. MaxFaults
    BY <1>9 DEF AddToIndex
  <2>. QED
    BY <1>9, <2>1, <2>3, <2>4 DEF AddToIndex
<1>10. ASSUME NEW r \in Request, Reply(r) PROVE TypeOK'
  <2>. DEFINE n == req[r].new
  <2>1. token' \in [Sid -> Token]
    <3>1. token' = [token EXCEPT ![n] = [token[n] EXCEPT !.held = TRUE]]
      BY <1>10 DEF Reply
    <3>2. CASE n \in Sid
      <4>1. token[n] \in Token
        BY <3>2
      <4>2. [token[n] EXCEPT !.held = TRUE] \in Token
        BY <4>1 DEF Token
      <4>. QED
        BY <3>1, <4>2
    <3>3. CASE n \notin Sid
      BY <3>1, <3>3
    <3>. QED
      BY <3>2, <3>3
  <2>2. req' \in [Request -> Handler]
    BY <1>10 DEF Reply, Handler, Step, Idle
  <2>. QED
    BY <1>10, <2>1, <2>2 DEF Reply
<1>11. ASSUME NEW s \in Sid, IssueWithCompany(s) PROVE TypeOK'
  <2>1. /\ token' \in [Sid -> Token]
        /\ issued' \in 0 .. MaxSid /\ issued' = issued + 1
        /\ issued + 1 \in Sid
    BY <1>2, <1>11 DEF IssueWithCompany, Token
  <2>. QED
    BY <1>11, <2>1 DEF IssueWithCompany
<1>12. ASSUME NEW s \in Sid, LogoutRefresh(s) PROVE TypeOK'
  BY <1>12 DEF LogoutRefresh
<1>13. ASSUME NEW r \in Request, NEW s \in Sid, LogoutAccess(r, s) PROVE TypeOK'
  BY <1>13 DEF LogoutAccess, SidsOf, Idle, Handler, Step, Token
<1>14. ASSUME NEW r \in Request, RevokeRefresh(r) PROVE TypeOK'
  <2>1. req' \in [Request -> Handler]
    <3>1. "revoke.members" \in Step /\ {} \in SUBSET Sid
      BY DEF Step
    <3>2. req' = [req EXCEPT ![r].step = "revoke.members", ![r].sids = {},
                             ![r].told = {}]
      BY <1>14 DEF RevokeRefresh
    <3>. QED
      BY <1>6, <3>1, <3>2
  <2>. QED
    BY <1>14, <2>1 DEF RevokeRefresh
<1>15. ASSUME NEW r \in Request, ListSessions(r) PROVE TypeOK'
  <2>. DEFINE sids == index[req[r].user]
  <2>1. sids \in SUBSET Sid
    BY <1>15, Acting
  <2>2. req' \in [Request -> Handler]
    BY <1>6, <1>15, <2>1 DEF ListSessions, Step
  <2>. QED
    BY <1>15, <2>1, <2>2 DEF ListSessions
<1>16. ASSUME NEW r \in Request, RevokeSession(r) PROVE TypeOK'
  <2>. PICK s \in req[r].sids :
         /\ \/ session' = session \ {s} /\ NoSlip
            \/ session' = session /\ Slip({})
         /\ req' = [req EXCEPT ![r].sids = @ \ {s},
                      ![r].step = IF req[r].sids = {s} THEN "revoke.index"
                                                       ELSE "revoke.session"]
    BY <1>16 DEF RevokeSession
  <2>1. req[r].sids \ {s} \in SUBSET Sid
    BY DEF Handler
  <2>2. req' \in [Request -> Handler]
    BY <1>6, <2>1 DEF Step
  <2>. QED
    BY <1>16, <2>2 DEF RevokeSession
<1>17. ASSUME NEW r \in Request, DropIndex(r) PROVE TypeOK'
  <2>1. req' \in [Request -> Handler]
    BY <1>6, <1>17 DEF DropIndex, Step
  <2>2. req[r].user \in User
    BY <1>17, Acting
  <2>3. index' \in [User -> SUBSET Sid]
    BY <1>17, <2>2 DEF DropIndex
  <2>4. slipped' \subseteq Sid /\ faults' \in 0 .. MaxFaults
    <3>1. CASE NoSlip
      BY <3>1
    <3>2. CASE Slip({})
      BY <3>2
    <3>. QED
      BY <1>17, <3>1, <3>2 DEF DropIndex
  <2>. QED
    BY <1>17, <2>1, <2>3, <2>4 DEF DropIndex
<1>18. ASSUME NEW r \in Request, Fail(r) PROVE TypeOK'
  <2>1. req' \in [Request -> Handler]
    BY <1>6, <1>18 DEF Fail, Step
  <2>. QED
    BY <1>18, <2>1 DEF Fail
<1>19. CASE AccessExpires
  BY <1>19 DEF AccessExpires
<1>20. CASE RefreshExpires
  BY <1>20 DEF RefreshExpires
<1>21. ASSUME NEW s \in Sid, ExpireRefresh(s) PROVE TypeOK'
  BY <1>21 DEF ExpireRefresh
<1>22. ASSUME NEW s \in Sid, ExpireSession(s) PROVE TypeOK'
  BY <1>22 DEF ExpireSession
<1>23. ASSUME NEW r \in Request, Start(r) PROVE TypeOK'
  BY ONLY <1>3, <1>4, <1>12, <1>13, <1>23, Starting
<1>24. ASSUME NEW s \in Sid, SwitchCompany(s) \/ UserSwitchCompany(s)
       PROVE  TypeOK'
  BY ONLY <1>11, <1>24, Switching
<1>. QED
  BY <1>1, <1>5, <1>7, <1>8, <1>9, <1>10, <1>14, <1>15, <1>16, <1>17, <1>18,
     <1>19, <1>20, <1>21, <1>22, <1>23, <1>24
  DEF Next, Time, Advance

-----------------------------------------------------------------------------
(* What no step undoes, whoever takes it *)

\* Pairs keep their origin and stay with the client; their keys, once the
\* client holds them, are never written again and only deleted for cause.
Kept ==
  /\ issued' \in {issued, issued + 1} /\ ended \subseteq ended'
  /\ slipped \subseteq slipped'
  /\ \A s \in Sid :
       /\ s <= issued => /\ token'[s].from = token[s].from
                         /\ token'[s].how = token[s].how
                         /\ token'[s].user = token[s].user
       /\ s > issued' => token'[s] = token[s]
       /\ token[s].held =>
            /\ token'[s].held
            /\ s \in refresh' => s \in refresh
            /\ s \in session' => s \in session
       /\ RefreshStored(s) => RefreshStored(s)'
       /\ SessionStored(s) => SessionStored(s)'

\* Redis commands write for a pair the client does not hold yet and delete
\* what has been ended or has expired.
LEMMA KeptByKeys ==
  ASSUME TypeOK, TypeOK',
         UNCHANGED tokens, ended \subseteq ended', slipped \subseteq slipped',
         accessOver' >= accessOver, refreshOver' >= refreshOver,
         \A s \in Sid :
           /\ token[s].held => /\ s \in refresh' => s \in refresh
                               /\ s \in session' => s \in session
           /\ s \in refresh \ refresh' => s \in ended' \/ s <= refreshOver'
           /\ s \in session \ session' => s \in ended' \/ s <= accessOver'
  PROVE  Kept
<1>1. /\ accessOver \in Nat /\ accessOver' \in Nat
      /\ refreshOver \in Nat /\ refreshOver' \in Nat /\ issued \in Nat
  BY AuthAssumption DEF TypeOK
<1>2. token' = token /\ issued' = issued
  BY DEF tokens
<1>3. ASSUME NEW s \in Sid PROVE RefreshStored(s) => RefreshStored(s)'
  BY <1>1 DEF RefreshStored, Sid
<1>4. ASSUME NEW s \in Sid PROVE SessionStored(s) => SessionStored(s)'
  BY <1>1 DEF SessionStored, Sid
<1>. QED
  BY <1>2, <1>3, <1>4 DEF Kept

\* A new pair, or the answer that hands one over, leaves the keys alone.
LEMMA KeptByTokens ==
  ASSUME TypeOK, TypeOK', UNCHANGED <<clock, refresh>>,
         ended \subseteq ended', slipped \subseteq slipped',
         issued' \in {issued, issued + 1},
         \A s \in Sid :
           /\ s \in session' => s \in session
           /\ s \in session \ session' => s \in ended'
           /\ s <= issued => /\ token'[s].from = token[s].from
                             /\ token'[s].how = token[s].how
                             /\ token'[s].user = token[s].user
           /\ s > issued' => token'[s] = token[s]
           /\ token[s].held => token'[s].held
  PROVE  Kept
<1>1. UNCHANGED <<accessOver, refreshOver, refresh>>
  BY DEF clock
<1>2. ASSUME NEW s \in Sid PROVE RefreshStored(s) => RefreshStored(s)'
  BY <1>1 DEF RefreshStored
<1>3. ASSUME NEW s \in Sid PROVE SessionStored(s) => SessionStored(s)'
  BY <1>1 DEF SessionStored
<1>. QED
  BY <1>1, <1>2, <1>3 DEF Kept

-----------------------------------------------------------------------------
(* Frames *)

\* A pair whose row does not change keeps its part of the invariant.
LEMMA TokenFrame ==
  ASSUME Inv, TypeOK', Kept, NEW s \in Sid,
         token'[s] = token[s], s <= issued' => s <= issued
  PROVE  TokenInv(s)'
<1>1. TypeOK /\ TokenInv(s)
  BY DEF Inv
<1>2. token[s].from \in Sid \cup {None} /\ issued \in Nat /\ issued' \in Nat
  BY <1>1, AuthAssumption DEF TypeOK, Token
<1>3. \A f \in Sid : token[f].held => token'[f].held
                 /\ (f \notin refresh => f \notin refresh')
                 /\ (f \notin session => f \notin session')
  BY DEF Kept
<1>4. slipped \subseteq slipped' /\ (issued' = issued \/ issued' = issued + 1)
  BY DEF Kept
<1>5. /\ RefreshStored(s) => RefreshStored(s)'
      /\ SessionStored(s) => SessionStored(s)'
  BY DEF Kept
<1>6. (IF s > issued THEN token[s] = NoToken ELSE token[s].user \in User)'
  BY <1>1, <1>2, <1>4 DEF TokenInv, Sid
<1>. QED
  BY <1>1, <1>2, <1>3, <1>4, <1>5, <1>6 DEF TokenInv

\* So does a handler that is not taking the step, unless the step concerns
\* its pair.
LEMMA HandlerFrame ==
  ASSUME Inv, TypeOK', Kept, NEW q \in Request, req'[q] = req[q],
         Storing(q) => ~token'[req[q].new].held,
         req[q].step = "invalidate" =>
           \A n \in Sid : token'[n].from # req[q].old
  PROVE  HandlerInv(q)'
<1>1. TypeOK /\ HandlerInv(q) /\ req[q] \in Handler
  BY DEF Inv, TypeOK
<1>2. /\ issued \in Nat /\ issued' \in Nat /\ issued <= issued'
      /\ 1 .. issued \subseteq Sid
  BY <1>1, AuthAssumption DEF Kept, TypeOK, Sid
<1>3. ended \subseteq ended'
  BY DEF Kept
<1>4. \A s \in Sid : /\ token[s].held => token'[s].held
                                         /\ (s \in refresh' => s \in refresh)
                     /\ RefreshStored(s) => RefreshStored(s)'
                     /\ SessionStored(s) => SessionStored(s)'
  BY DEF Kept
<1>5. Storing(q)' <=> Storing(q)
  BY DEF Storing
<1>. DEFINE h == req[q]
<1>6. Storing(q) => h.new \in 1 .. issued' /\ ~token'[h.new].held
  BY <1>1, <1>2 DEF HandlerInv
<1>7. h.step \in {"session.set", "session.add", "reply"} =>
        RefreshStored(h.new)'
  BY <1>1, <1>2, <1>4 DEF HandlerInv, Storing
<1>8. h.step \in {"session.add", "reply"} => SessionStored(h.new)'
  BY <1>1, <1>2, <1>4 DEF HandlerInv, Storing
<1>9. h.step = "invalidate" =>
        /\ h.old \in Sid /\ token'[h.old].held
        /\ h.old \notin refresh' /\ h.old \in ended'
        /\ \A n \in Sid : token'[n].from # h.old
  BY <1>1, <1>3, <1>4 DEF HandlerInv
<1>10. h.step \in {"revoke.del", "revoke.session"} => h.sids \subseteq ended'
  BY <1>1, <1>3 DEF HandlerInv
<1>11. h.step = "revoke.del" =>
         \A x \in h.told : token'[x].held /\ (x \in refresh' => x \in h.sids)
  BY <1>1, <1>4 DEF HandlerInv, Handler
<1>. QED
  BY <1>1, <1>5, <1>6, <1>7, <1>8, <1>9, <1>10, <1>11
  DEF HandlerInv, RefreshStored, SessionStored

\* When tokens stay as they are, the handlers that have moved are left.
LEMMA InvByKeys ==
  ASSUME Inv, TypeOK', Kept, UNCHANGED tokens,
         \A q \in Request : req'[q] = req[q] \/ HandlerInv(q)',
         \A p, q \in Request : Apart(p, q)'
  PROVE  Inv'
<1>1. token' = token /\ issued' = issued
  BY DEF tokens
<1>2. ASSUME NEW s \in Sid PROVE TokenInv(s)'
  BY <1>1, <1>2, TokenFrame
<1>3. RefreshOnce'
  BY <1>1 DEF Inv, RefreshOnce
<1>4. ASSUME NEW q \in Request PROVE HandlerInv(q)'
  <2>1. HandlerInv(q)
    BY DEF Inv
  <2>. QED
    BY <1>1, <2>1, HandlerFrame DEF HandlerInv
<1>. QED
  BY <1>2, <1>3, <1>4 DEF Inv

\* A handler that goes on with its pair stays apart from the others.
LEMMA ApartByStep ==
  ASSUME Inv, TypeOK', NEW r \in Request,
         \A q \in Request \ {r} : req'[q] = req[q],
         Storing(r)' => Storing(r) /\ req'[r].new = req[r].new,
         req'[r].step # "invalidate"
  PROVE  \A p, q \in Request : Apart(p, q)'
<1>1. \A p, q \in Request : Apart(p, q)
  BY DEF Inv
<1>. QED
  BY <1>1 DEF Apart, Storing

\* A handler that only moves on, the others standing still.
LEMMA InvByStep ==
  ASSUME Inv, TypeOK', Kept, UNCHANGED tokens, NEW r \in Request,
         \A q \in Request \ {r} : req'[q] = req[q],
         Storing(r)' => Storing(r) /\ req'[r].new = req[r].new,
         req'[r].step # "invalidate", HandlerInv(r)'
  PROVE  Inv'
BY ApartByStep, InvByKeys

LEMMA InvByStanding ==
  ASSUME Inv, TypeOK', Kept, UNCHANGED tokens, req' = req
  PROVE  Inv'
<1>1. \A p, q \in Request : Apart(p, q)'
  BY DEF Inv, Apart, Storing
<1>. QED
  BY <1>1, InvByKeys

-----------------------------------------------------------------------------
(* The steps that leave the pairs as they are *)

LEMMA PutStep ==
  ASSUME Inv, TypeOK', NEW r \in Request, Put(r)
  PROVE  Inv' /\ Kept
<1>. DEFINE n == req[r].new
<1>1. /\ TypeOK /\ HandlerInv(r) /\ n \in Sid /\ req[r] \in Handler
      /\ At(r, "put") /\ ~token[n].held
  BY Acting DEF Inv, Put, HandlerInv, Storing, At
<1>2. UNCHANGED <<tokens, clock, session, ended>>
  BY DEF Put
<1>3. \/ refresh' = refresh \cup {n} /\ slipped' = slipped
      \/ refresh' = refresh /\ slipped' = slipped \cup {n}
  BY DEF Put, NoSlip, errors, Slip
<1>4. accessOver' = accessOver /\ refreshOver' = refreshOver
  BY <1>2 DEF clock
<1>5. accessOver \in Nat /\ refreshOver \in Nat
  BY <1>1, AuthAssumption DEF TypeOK
<1>6. Kept
  BY <1>1, <1>2, <1>3, <1>4, <1>5, KeptByKeys
<1>7. req' = [req EXCEPT ![r].step = "session.set"]
  BY DEF Put, Goto
<1>8. /\ req'[r] = [req[r] EXCEPT !.step = "session.set"]
      /\ \A q \in Request \ {r} : req'[q] = req[q]
  BY <1>1, <1>7 DEF TypeOK
<1>9. /\ req'[r].step = "session.set"
      /\ req'[r].new = n /\ req'[r].user = req[r].user
  BY <1>1, <1>8 DEF Handler
<1>10. RefreshStored(n)'
  BY <1>1, <1>3, <1>9 DEF RefreshStored
<1>11. HandlerInv(r)'
  BY <1>1, <1>2, <1>9, <1>10
  DEF HandlerInv, Storing, At, tokens, RefreshStored, SessionStored
<1>12. Storing(r)' => Storing(r) /\ req'[r].new = req[r].new
  BY <1>1, <1>9 DEF Storing, At
<1>. QED
  BY <1>2, <1>6, <1>8, <1>9, <1>11, <1>12, InvByStep

LEMMA PutSessionStep ==
  ASSUME Inv, TypeOK', NEW r \in Request, PutSession(r)
  PROVE  Inv' /\ Kept
<1>. DEFINE n == req[r].new
<1>1. /\ TypeOK /\ HandlerInv(r) /\ n \in Sid /\ req[r] \in Handler
      /\ At(r, "session.set") /\ ~token[n].held
  BY Acting DEF Inv, PutSession, HandlerInv, Storing, At
<1>2. UNCHANGED <<tokens, clock, refresh, ended>>
  BY DEF PutSession
<1>3. /\ session' \in {session, session \cup {n}}
      /\ slipped' \in {slipped, slipped \cup {n}}
      /\ n \in session' \/ n \in slipped'
  BY DEF PutSession, NoSlip, errors, Slip
<1>4. accessOver' = accessOver /\ refreshOver' = refreshOver
  BY <1>2 DEF clock
<1>5. accessOver \in Nat /\ refreshOver \in Nat
  BY <1>1, AuthAssumption DEF TypeOK
<1>6. Kept
  BY <1>1, <1>2, <1>3, <1>4, <1>5, KeptByKeys
<1>7. \/ req' = [req EXCEPT ![r].step = "session.add"]
      \/ req' = [req EXCEPT ![r].step = "reply"]
  BY DEF PutSession, Goto
<1>8. /\ \/ req'[r] = [req[r] EXCEPT !.step = "session.add"]
         \/ req'[r] = [req[r] EXCEPT !.step = "reply"]
      /\ \A q \in Request \ {r} : req'[q] = req[q]
  BY <1>1, <1>7 DEF TypeOK
<1>9. /\ req'[r].step \in {"session.add", "reply"}
      /\ req'[r].new = n /\ req'[r].user = req[r].user
  BY <1>1, <1>8 DEF Handler
<1>10. SessionStored(n)'
  BY <1>1, <1>3, <1>9 DEF SessionStored
<1>11. RefreshStored(n)'
  BY <1>1, <1>6, <1>9 DEF HandlerInv, At, Kept, RefreshStored
<1>12. HandlerInv(r)'
  BY <1>1, <1>2, <1>9, <1>10, <1>11
  DEF HandlerInv, Storing, At, tokens, RefreshStored, SessionStored
<1>13. Storing(r)' => Storing(r) /\ req'[r].new = req[r].new
  BY <1>1, <1>9 DEF Storing, At
<1>. QED
  BY <1>2, <1>6, <1>8, <1>9, <1>12, <1>13, InvByStep

LEMMA AddToIndexStep ==
  ASSUME Inv, TypeOK', NEW r \in Request, AddToIndex(r)
  PROVE  Inv' /\ Kept
<1>. DEFINE n == req[r].new
<1>1. /\ TypeOK /\ HandlerInv(r) /\ n \in Sid /\ req[r] \in Handler
      /\ At(r, "session.add") /\ ~token[n].held
  BY Acting DEF Inv, AddToIndex, HandlerInv, Storing, At
<1>2. UNCHANGED <<tokens, clock, refresh, session, ended>>
  BY DEF AddToIndex
<1>3. slipped \subseteq slipped'
  BY DEF AddToIndex, NoSlip, errors, Slip
<1>4. accessOver' = accessOver /\ refreshOver' = refreshOver
  BY <1>2 DEF clock
<1>5. accessOver \in Nat /\ refreshOver \in Nat
  BY <1>1, AuthAssumption DEF TypeOK
<1>6. Kept
  BY <1>1, <1>2, <1>3, <1>4, <1>5, KeptByKeys
<1>7. req' = [req EXCEPT ![r].step = "reply"]
  BY DEF AddToIndex, Goto
<1>8. /\ req'[r] = [req[r] EXCEPT !.step = "reply"]
      /\ \A q \in Request \ {r} : req'[q] = req[q]
  BY <1>1, <1>7 DEF TypeOK
<1>9. req'[r].step = "reply" /\ req'[r].new = n /\ req'[r].user = req[r].user
  BY <1>1, <1>8 DEF Handler
<1>10. RefreshStored(n)' /\ SessionStored(n)'
  BY <1>1, <1>6, <1>9 DEF HandlerInv, At, Kept, RefreshStored, SessionStored
<1>11. HandlerInv(r)'
  BY <1>1, <1>2, <1>9, <1>10
  DEF HandlerInv, Storing, At, tokens, RefreshStored, SessionStored
<1>12. Storing(r)' => Storing(r) /\ req'[r].new = req[r].new
  BY <1>1, <1>9 DEF Storing, At
<1>. QED
  BY <1>2, <1>6, <1>8, <1>9, <1>11, <1>12, InvByStep

LEMMA LogoutRefreshStep ==
  ASSUME Inv, TypeOK', NEW x \in Sid, LogoutRefresh(x)
  PROVE  Inv' /\ Kept
<1>1. TypeOK /\ accessOver \in Nat /\ refreshOver \in Nat
  BY AuthAssumption DEF Inv, TypeOK
<1>2. /\ UNCHANGED <<tokens, clock, session, req, errors>>
      /\ refresh' = refresh \ {x} /\ ended' = ended \cup {x}
  BY DEF LogoutRefresh
<1>3. UNCHANGED <<accessOver, refreshOver, slipped>>
  BY <1>2 DEF clock, errors
<1>4. Kept
  BY <1>1, <1>2, <1>3, KeptByKeys
<1>. QED
  BY <1>2, <1>4, InvByStanding

LEMMA LogoutAccessStep ==
  ASSUME Inv, TypeOK', NEW r \in Request, NEW x \in Sid, LogoutAccess(r, x)
  PROVE  Inv' /\ Kept
<1>. DEFINE u   == token[x].user
            own == refresh \cap SidsOf(u)
            h   == [Idle EXCEPT !.step = "revoke.del", !.user = u, !.sids = own,
                                !.told = {y \in SidsOf(u) : token[y].held}]
<1>1. TypeOK /\ accessOver \in Nat /\ refreshOver \in Nat /\ token[x] \in Token
  BY AuthAssumption DEF Inv, TypeOK
<1>2. UNCHANGED <<tokens, clock, keys, errors>> /\ ended' = ended \cup own
  BY DEF LogoutAccess
<1>3. UNCHANGED <<token, accessOver, refreshOver, refresh, session, slipped>>
  BY <1>2 DEF tokens, clock, keys, errors
<1>4. Kept
  BY <1>1, <1>2, <1>3, KeptByKeys
<1>5. req' = [req EXCEPT ![r] = h]
  BY DEF LogoutAccess, Begin
<1>6. req'[r] = h /\ \A q \in Request \ {r} : req'[q] = req[q]
  BY <1>1, <1>5 DEF TypeOK
<1>7. u \in User
  <2>1. token[x].held
    BY DEF LogoutAccess, ValidAccess
  <2>2. token[x] # NoToken
    BY <2>1 DEF NoToken
  <2>. QED
    BY <2>2 DEF Inv, TokenInv
<1>8. /\ req'[r].step = "revoke.del" /\ req'[r].user = u /\ req'[r].sids = own
      /\ req'[r].told = {y \in SidsOf(u) : token[y].held}
  BY <1>6 DEF Idle
<1>9. HandlerInv(r)'
  BY <1>2, <1>3, <1>7, <1>8
  DEF HandlerInv, Storing, RefreshStored, SessionStored, SidsOf
<1>. QED
  BY <1>2, <1>4, <1>6, <1>8, <1>9, InvByStep DEF Storing

LEMMA RevokeRefreshStep ==
  ASSUME Inv, TypeOK', NEW r \in Request, RevokeRefresh(r)
  PROVE  Inv' /\ Kept
<1>1. /\ TypeOK /\ HandlerInv(r) /\ req[r] \in Handler /\ At(r, "revoke.del")
      /\ accessOver \in Nat /\ refreshOver \in Nat
  BY Acting, AuthAssumption DEF Inv, RevokeRefresh, TypeOK
<1>2. /\ UNCHANGED <<tokens, clock, session, ended, errors>>
      /\ refresh' = refresh \ req[r].sids
  BY DEF RevokeRefresh
<1>3. UNCHANGED <<accessOver, refreshOver, slipped>>
  BY <1>2 DEF clock, errors
<1>4. req[r].sids \subseteq ended
  BY <1>1 DEF HandlerInv, At
<1>5. Kept
  BY <1>1, <1>2, <1>3, <1>4, KeptByKeys
<1>6. /\ req'[r] = [req[r] EXCEPT !.step = "revoke.members", !.sids = {},
                                  !.told = {}]
      /\ \A q \in Request \ {r} : req'[q] = req[q]
  BY <1>1 DEF RevokeRefresh, TypeOK
<1>7. req'[r].step = "revoke.members" /\ req'[r].user = req[r].user
  BY <1>1, <1>6 DEF Handler
<1>8. HandlerInv(r)'
  BY <1>1, <1>7 DEF HandlerInv, Storing, At, RefreshStored, SessionStored
<1>. QED
  BY <1>2, <1>5, <1>6, <1>7, <1>8, InvByStep DEF Storing

LEMMA ListSessionsStep ==
  ASSUME Inv, TypeOK', NEW r \in Request, ListSessions(r)
  PROVE  Inv' /\ Kept
<1>. DEFINE sids == index[req[r].user]
<1>1. /\ TypeOK /\ HandlerInv(r) /\ req[r] \in Handler
      /\ At(r, "revoke.members") /\ accessOver \in Nat /\ refreshOver \in Nat
  <2>1. TypeOK /\ HandlerInv(r) /\ req[r] \in Handler
    BY Acting DEF Inv
  <2>2. At(r, "revoke.members")
    BY DEF ListSessions
  <2>. QED
    BY <2>1, <2>2, AuthAssumption DEF TypeOK
<1>2. UNCHANGED <<tokens, clock, keys, errors>> /\ ended' = ended \cup sids
  BY DEF ListSessions
<1>3. UNCHANGED <<accessOver, refreshOver, refresh, session, slipped>>
  BY <1>2 DEF clock, keys, errors
<1>4. Kept
  BY <1>1, <1>2, <1>3, KeptByKeys
<1>5. /\ req'[r] = [req[r] EXCEPT !.sids = sids,
                      !.step = IF sids = {} THEN "revoke.index"
                                            ELSE "revoke.session"]
      /\ \A q \in Request \ {r} : req'[q] = req[q]
  BY <1>1 DEF ListSessions, TypeOK
<1>6. /\ req'[r].step \in {"revoke.index", "revoke.session"}
      /\ req'[r].user = req[r].user /\ req'[r].sids = sids
  BY <1>1, <1>5 DEF Handler
<1>7. HandlerInv(r)'
  BY <1>1, <1>2, <1>6
  DEF HandlerInv, Storing, At, RefreshStored, SessionStored
<1>. QED
  BY <1>2, <1>4, <1>5, <1>6, <1>7, InvByStep DEF Storing

LEMMA RevokeSessionStep ==
  ASSUME Inv, TypeOK', NEW r \in Request, RevokeSession(r)
  PROVE  Inv' /\ Kept
<1>1. /\ TypeOK /\ HandlerInv(r) /\ req[r] \in Handler
      /\ At(r, "revoke.session") /\ accessOver \in Nat /\ refreshOver \in Nat
  BY Acting, AuthAssumption DEF Inv, RevokeSession, TypeOK
<1>2. PICK s \in req[r].sids :
        /\ \/ session' = session \ {s} /\ NoSlip
           \/ session' = session /\ Slip({})
        /\ req' = [req EXCEPT ![r].sids = @ \ {s},
                     ![r].step = IF req[r].sids = {s} THEN "revoke.index"
                                                      ELSE "revoke.session"]
  BY DEF RevokeSession
<1>3. UNCHANGED <<tokens, clock, refresh, ended>> /\ slipped \subseteq slipped'
  BY <1>2 DEF RevokeSession, NoSlip, Slip, errors
<1>4. UNCHANGED <<accessOver, refreshOver>>
  BY <1>3 DEF clock
<1>5. req[r].sids \subseteq ended
  BY <1>1 DEF HandlerInv, At
<1>6. Kept
  BY <1>1, <1>2, <1>3, <1>4, <1>5, KeptByKeys
<1>7. /\ req'[r] = [req[r] EXCEPT !.sids = @ \ {s},
                      !.step = IF req[r].sids = {s} THEN "revoke.index"
                                                    ELSE "revoke.session"]
      /\ \A q \in Request \ {r} : req'[q] = req[q]
  BY <1>1, <1>2 DEF TypeOK
<1>8. /\ req'[r].step \in {"revoke.index", "revoke.session"}
      /\ req'[r].user = req[r].user /\ req'[r].sids \subseteq req[r].sids
  BY <1>1, <1>7 DEF Handler
<1>9. HandlerInv(r)'
  BY <1>1, <1>3, <1>5, <1>8
  DEF HandlerInv, Storing, At, RefreshStored, SessionStored
<1>. QED
  BY <1>3, <1>6, <1>7, <1>8, <1>9, InvByStep DEF Storing

\* Both leave an idle handler, which the invariant says nothing about.
LEMMA ReturnStep ==
  ASSUME Inv, TypeOK', NEW r \in Request, DropIndex(r) \/ Fail(r)
  PROVE  Inv' /\ Kept
<1>1. TypeOK /\ accessOver \in Nat /\ refreshOver \in Nat
  BY AuthAssumption DEF Inv, TypeOK
<1>2. /\ UNCHANGED <<tokens, clock, refresh, session, ended>>
      /\ slipped \subseteq slipped'
  BY DEF DropIndex, Fail, NoSlip, Slip, errors, keys
<1>3. UNCHANGED <<accessOver, refreshOver>>
  BY <1>2 DEF clock
<1>4. Kept
  BY <1>1, <1>2, <1>3, KeptByKeys
<1>5. req'[r] = Idle /\ \A q \in Request \ {r} : req'[q] = req[q]
  BY <1>1 DEF DropIndex, Fail, Return, TypeOK
<1>6. req'[r].step = "idle"
  BY <1>5 DEF Idle
<1>7. HandlerInv(r)'
  BY <1>6 DEF HandlerInv, Storing, RefreshStored, SessionStored
<1>. QED
  BY <1>2, <1>4, <1>5, <1>6, <1>7, InvByStep DEF Storing

LEMMA TimeStep ==
  ASSUME Inv, TypeOK', Time
  PROVE  Inv' /\ Kept
<1>1. /\ TypeOK /\ accessOver \in Nat /\ refreshOver \in Nat
      /\ accessOver' \in Nat /\ refreshOver' \in Nat
  BY AuthAssumption DEF Inv, TypeOK
<1>2. UNCHANGED <<tokens, req, history>>
  BY DEF Time, AccessExpires, RefreshExpires, ExpireRefresh, ExpireSession
<1>3. UNCHANGED <<ended, slipped>>
  BY <1>2 DEF history, errors
<1>4. CASE AccessExpires \/ RefreshExpires
  <2>1. /\ UNCHANGED <<refresh, session>>
        /\ accessOver' >= accessOver /\ refreshOver' >= refreshOver
    BY <1>1, <1>4 DEF AccessExpires, RefreshExpires, keys
  <2>2. Kept
    BY <1>1, <1>2, <1>3, <2>1, KeptByKeys
  <2>. QED
    BY <1>2, <2>2, InvByStanding
<1>5. ASSUME NEW s \in Sid, ExpireRefresh(s) \/ ExpireSession(s)
      PROVE  Inv' /\ Kept
  <2>1. /\ accessOver' = accessOver /\ refreshOver' = refreshOver
        /\ \/ refresh' = refresh \ {s} /\ session' = session /\ s <= refreshOver
           \/ session' = session \ {s} /\ refresh' = refresh /\ s <= accessOver
    BY <1>5 DEF ExpireRefresh, ExpireSession, clock
  <2>2. Kept
    BY <1>1, <1>2, <1>3, <2>1, KeptByKeys
  <2>. QED
    BY <1>2, <2>2, InvByStanding
<1>. QED
  BY <1>4, <1>5 DEF Time

-----------------------------------------------------------------------------
(* The steps that issue a pair or hand it over *)

\* Issuing a pair undoes nothing, whatever becomes of an ended session.
LEMMA KeptByIssue ==
  ASSUME Inv, TypeOK', NEW u \in User, NEW how, NEW f,
         NEW held \in BOOLEAN,
         Issue(u, how, f, held), UNCHANGED <<clock, refresh, ended>>,
         slipped \subseteq slipped',
         session' = session \/ \E s \in ended : session' = session \ {s}
  PROVE  /\ Kept
         /\ issued + 1 \in Sid /\ issued \in Nat /\ issued' = issued + 1
         /\ token'[issued + 1] =
              [user |-> u, how |-> how, from |-> f, held |-> held]
         /\ \A s \in Sid : s # issued + 1 => token'[s] = token[s]
<1>1. TypeOK /\ issued \in Nat
  BY AuthAssumption DEF Inv, TypeOK
<1>2. issued + 1 \in Sid /\ issued' = issued + 1
  BY <1>1, AuthAssumption DEF Issue, Sid
<1>3. /\ token'[issued + 1] =
           [user |-> u, how |-> how, from |-> f, held |-> held]
      /\ \A s \in Sid : s # issued + 1 => token'[s] = token[s]
  BY <1>1, <1>2 DEF Issue, TypeOK
<1>4. \A s \in Sid : token[s].held => s <= issued
  BY <1>1 DEF Inv, TokenInv, NoToken, Sid
<1>5. Kept
  BY <1>1, <1>2, <1>3, <1>4, KeptByTokens DEF Sid
<1>. QED
  BY <1>1, <1>2, <1>3, <1>5

\* The invariant after a pair is issued: what it replaces must be over.
LEMMA InvByIssue ==
  ASSUME Inv, TypeOK', Kept, NEW u \in User, NEW how, NEW f \in Sid \cup {None},
         NEW held \in BOOLEAN, held => how = "switch",
         issued + 1 \in Sid, issued' = issued + 1,
         token'[issued + 1] =
           [user |-> u, how |-> how, from |-> f, held |-> held],
         \A s \in Sid : s # issued + 1 => token'[s] = token[s],
         f # None => /\ token[f].held /\ f \notin refresh'
                     /\ f \notin slipped' => f \notin session'
                     /\ \A s \in Sid : token[s].from # f,
         \A q \in Request :
           \/ /\ req'[q] = req[q]
              /\ f # None /\ req[q].step = "invalidate" => req[q].old # f
           \/ HandlerInv(q)',
         \A p, q \in Request : Apart(p, q)'
  PROVE  Inv'
<1>. DEFINE n == issued + 1
<1>1. TypeOK /\ issued \in Nat /\ None \notin Sid
  BY AuthAssumption DEF Inv, TypeOK, Sid, None
<1>2. ASSUME NEW s \in Sid PROVE TokenInv(s)'
  <2>1. CASE s = n
    <3>1. /\ token'[s].user = u /\ token'[s].how = how /\ token'[s].from = f
          /\ token'[s].held = held
      BY <2>1
    <3>2. f # None => token'[f].held
      BY DEF Kept
    <3>3. ~(s > issued')
      BY <1>1, <2>1
    <3>. QED
      BY <3>1, <3>2, <3>3 DEF TokenInv
  <2>2. CASE s # n
    <3>1. token'[s] = token[s] /\ (s <= issued' => s <= issued)
      BY <1>1, <2>2 DEF Sid
    <3>. QED
      BY <3>1, TokenFrame
  <2>. QED
    BY <2>1, <2>2
<1>3. RefreshOnce'
  <2>1. token'[n].from = f
    OBVIOUS
  <2>2. ASSUME NEW a \in Sid, NEW b \in Sid, a # n, b # n,
               token'[a].from # None, token'[a].from = token'[b].from
        PROVE  a = b
    BY <2>2 DEF Inv, RefreshOnce
  <2>3. ASSUME NEW a \in Sid, a # n, token'[a].from = f, f # None PROVE FALSE
    BY <2>3
  <2>. QED
    BY <2>1, <2>2, <2>3 DEF RefreshOnce
<1>4. ASSUME NEW q \in Request PROVE HandlerInv(q)'
  <2>1. CASE HandlerInv(q)'
    BY <2>1
  <2>2. CASE /\ req'[q] = req[q]
             /\ f # None /\ req[q].step = "invalidate" => req[q].old # f
    <3>1. HandlerInv(q)
      BY DEF Inv
    <3>2. ASSUME Storing(q) PROVE ~token'[req[q].new].held
      <4>1. req[q].new \in 1 .. issued /\ ~token[req[q].new].held
        BY <3>1, <3>2 DEF HandlerInv
      <4>2. req[q].new \in Sid /\ req[q].new # n
        BY <1>1, <4>1, AuthAssumption DEF Sid
      <4>. QED
        BY <4>1, <4>2
    <3>3. ASSUME req[q].step = "invalidate", NEW s \in Sid
          PROVE  token'[s].from # req[q].old
      <4>1. req[q].old \in Sid /\ token[s].from # req[q].old
        BY <3>1, <3>3 DEF HandlerInv
      <4>. QED
        BY <1>1, <2>2, <3>3, <4>1
    <3>. QED
      BY <2>2, <3>2, <3>3, HandlerFrame
  <2>. QED
    BY <2>1, <2>2
<1>. QED
  BY <1>2, <1>3, <1>4 DEF Inv

LEMMA LoginStep ==
  ASSUME Inv, TypeOK', NEW r \in Request, NEW u \in User, Login(r, u)
  PROVE  Inv' /\ Kept
<1>. DEFINE n == issued + 1
            h == [Idle EXCEPT !.step = "put", !.user = u, !.new = n]
<1>1. TypeOK
  BY DEF Inv
<1>2. /\ Issue(u, "login", None, FALSE)
      /\ UNCHANGED <<clock, keys, history>> /\ req' = [req EXCEPT ![r] = h]
  BY DEF Login, Begin
<1>3. UNCHANGED <<refresh, session, ended, slipped>>
  BY <1>2 DEF keys, history, errors
<1>4. /\ Kept /\ n \in Sid /\ issued \in Nat /\ issued' = n
      /\ token'[n] =
           [user |-> u, how |-> "login", from |-> None, held |-> FALSE]
      /\ \A s \in Sid : s # n => token'[s] = token[s]
  BY <1>2, <1>3, KeptByIssue
<1>5. req'[r] = h /\ \A q \in Request \ {r} : req'[q] = req[q]
  BY <1>1, <1>2 DEF TypeOK
<1>6. req'[r].step = "put" /\ req'[r].user = u /\ req'[r].new = n
  BY <1>5 DEF Idle
<1>7. HandlerInv(r)'
  BY <1>4, <1>6 DEF HandlerInv, Storing, RefreshStored, SessionStored
<1>8. \A p, q \in Request : Apart(p, q)'
  <2>1. \A q \in Request \ {r} : Storing(q) => req[q].new # n
    BY <1>4 DEF Inv, HandlerInv
  <2>2. \A p, q \in Request : Apart(p, q)
    BY DEF Inv
  <2>3. req'[r].step # "invalidate"
    BY <1>6
  <2>4. ASSUME NEW p \in Request, NEW q \in Request, p # r, q # r
        PROVE  Apart(p, q)'
    BY <1>5, <2>2, <2>4 DEF Apart, Storing
  <2>5. ASSUME NEW q \in Request, q # r PROVE Apart(q, r)' /\ Apart(r, q)'
    BY <1>5, <1>6, <2>1, <2>3, <2>5 DEF Apart, Storing
  <2>6. Apart(r, r)'
    BY DEF Apart
  <2>. QED
    BY <2>4, <2>5, <2>6
<1>9. Inv'
  BY <1>4, <1>5, <1>7, <1>8, InvByIssue
<1>. QED
  BY <1>4, <1>9

LEMMA SwitchCompanyStep ==
  ASSUME Inv, TypeOK', NEW x \in Sid, token[x].held, IssueWithCompany(x)
  PROVE  Inv' /\ Kept
<1>. DEFINE n == issued + 1
            u == token[x].user
<1>1. u \in User
  <2>1. token[x] # NoToken
    BY DEF NoToken
  <2>. QED
    BY <2>1 DEF Inv, TokenInv
<1>2. Issue(u, "switch", None, TRUE) /\ UNCHANGED <<clock, keys, req, history>>
  BY DEF IssueWithCompany
<1>3. UNCHANGED <<refresh, session, ended, slipped>>
  BY <1>2 DEF keys, history, errors
<1>4. /\ Kept /\ n \in Sid /\ issued' = n
      /\ token'[n] =
           [user |-> u, how |-> "switch", from |-> None, held |-> TRUE]
      /\ \A s \in Sid : s # n => token'[s] = token[s]
  BY <1>1, <1>2, <1>3, KeptByIssue
<1>5. \A p, q \in Request : Apart(p, q)'
  BY <1>2 DEF Inv, Apart, Storing
<1>6. Inv'
  BY <1>1, <1>2, <1>4, <1>5, InvByIssue
<1>. QED
  BY <1>4, <1>6

\* The DEL decides: whoever begins to replace x found its key.
LEMMA RefreshStep ==
  ASSUME Inv, TypeOK', NEW r \in Request, NEW x \in Sid, Refresh(r, x)
  PROVE  Inv' /\ Kept
<1>. DEFINE h == [Idle EXCEPT !.step = "invalidate", !.user = token[x].user,
                              !.old = x]
<1>1. TypeOK /\ accessOver \in Nat /\ refreshOver \in Nat
  BY AuthAssumption DEF Inv, TypeOK
<1>2. /\ UNCHANGED <<tokens, clock, session, index, errors>>
      /\ refresh' = refresh \ {x} /\ ended' = ended \cup {x}
      /\ token[x].held /\ x \in refresh /\ req' = [req EXCEPT ![r] = h]
  BY DEF Refresh, ValidRefresh, Begin
<1>3. UNCHANGED <<token, accessOver, refreshOver, slipped>>
  BY <1>2 DEF tokens, clock, errors
<1>4. Kept
  BY <1>1, <1>2, <1>3, KeptByKeys
<1>5. req'[r] = h /\ \A q \in Request \ {r} : req'[q] = req[q]
  BY <1>1, <1>2 DEF TypeOK
<1>6. /\ req'[r].step = "invalidate" /\ req'[r].user = token[x].user
      /\ req'[r].old = x
  BY <1>5 DEF Idle
<1>7. token[x].user \in User
  <2>1. token[x] # NoToken
    BY <1>2 DEF NoToken
  <2>. QED
    BY <2>1 DEF Inv, TokenInv
<1>8. \A s \in Sid : token[s].from # x
  <2>1. x # None
    BY AuthAssumption DEF Sid, None
  <2>. QED
    BY <1>2, <2>1 DEF Inv, TokenInv
<1>9. HandlerInv(r)'
  BY <1>2, <1>3, <1>6, <1>7, <1>8
  DEF HandlerInv, Storing, RefreshStored, SessionStored
<1>10. \A p, q \in Request : Apart(p, q)'
  <2>1. \A q \in Request : req[q].step = "invalidate" => req[q].old # x
    BY <1>2 DEF Inv, HandlerInv
  <2>2. \A p, q \in Request : Apart(p, q)
    BY DEF Inv
  <2>3. ASSUME NEW p \in Request, NEW q \in Request, p # r, q # r
        PROVE  Apart(p, q)'
    BY <1>5, <2>2, <2>3 DEF Apart, Storing
  <2>4. ASSUME NEW q \in Request, q # r PROVE Apart(q, r)' /\ Apart(r, q)'
    BY <1>5, <1>6, <2>1, <2>4 DEF Apart, Storing
  <2>5. Apart(r, r)'
    BY DEF Apart
  <2>. QED
    BY <2>3, <2>4, <2>5
<1>. QED
  BY <1>2, <1>4, <1>5, <1>9, <1>10, InvByKeys

LEMMA InvalidateSessionStep ==
  ASSUME Inv, TypeOK', NEW r \in Request, InvalidateSession(r)
  PROVE  Inv' /\ Kept
<1>. DEFINE n == issued + 1
            u == req[r].user
            f == req[r].old
<1>1. /\ TypeOK /\ HandlerInv(r) /\ req[r] \in Handler
      /\ f \in Sid /\ u \in User /\ req[r].step = "invalidate"
  <2>1. TypeOK /\ HandlerInv(r) /\ req[r] \in Handler /\ f \in Sid /\ u \in User
    BY Acting DEF Inv
  <2>2. req[r].step = "invalidate"
    BY DEF InvalidateSession, At
  <2>. QED
    BY <2>1, <2>2
<1>2. /\ f # None /\ token[f].held /\ f \notin refresh /\ f \in ended
      /\ \A s \in Sid : token[s].from # f
  BY <1>1, AuthAssumption DEF HandlerInv, Sid, None
<1>3. /\ Issue(u, "refresh", f, FALSE) /\ UNCHANGED <<clock, refresh, ended>>
      /\ \/ session' = session \ {f} /\ slipped' = slipped
         \/ session' = session /\ slipped' = slipped \cup {f}
  BY DEF InvalidateSession, NoSlip, Slip, errors
<1>4. /\ Kept /\ n \in Sid /\ issued \in Nat /\ issued' = n
      /\ token'[n] =
           [user |-> u, how |-> "refresh", from |-> f, held |-> FALSE]
      /\ \A s \in Sid : s # n => token'[s] = token[s]
  BY <1>1, <1>2, <1>3, KeptByIssue
<1>5. /\ req'[r] = [req[r] EXCEPT !.step = "put", !.old = None, !.new = n]
      /\ \A q \in Request \ {r} : req'[q] = req[q]
  BY <1>1 DEF InvalidateSession, TypeOK
<1>6. req'[r].step = "put" /\ req'[r].user = u /\ req'[r].new = n
  BY <1>1, <1>5 DEF Handler
<1>7. HandlerInv(r)'
  BY <1>1, <1>4, <1>6 DEF HandlerInv, Storing, RefreshStored, SessionStored
<1>8. \A p, q \in Request : Apart(p, q)
  BY DEF Inv
<1>9. \A p, q \in Request : Apart(p, q)'
  <2>1. \A q \in Request \ {r} : Storing(q) => req[q].new # n
    BY <1>4 DEF Inv, HandlerInv
  <2>2. req'[r].step # "invalidate"
    BY <1>6
  <2>3. ASSUME NEW p \in Request, NEW q \in Request, p # r, q # r
        PROVE  Apart(p, q)'
    BY <1>5, <1>8, <2>3 DEF Apart, Storing
  <2>4. ASSUME NEW q \in Request, q # r PROVE Apart(q, r)' /\ Apart(r, q)'
    BY <1>5, <1>6, <2>1, <2>2, <2>4 DEF Apart, Storing
  <2>5. Apart(r, r)'
    BY DEF Apart
  <2>. QED
    BY <2>3, <2>4, <2>5
<1>10. /\ f \notin refresh'
       /\ f \notin slipped' => f \notin session'
  BY <1>2, <1>3
<1>11. ASSUME NEW q \in Request \ {r}
       PROVE  /\ req'[q] = req[q]
              /\ req[q].step = "invalidate" => req[q].old # f
  BY <1>1, <1>5, <1>8 DEF Apart
<1>12. \A q \in Request :
         \/ /\ req'[q] = req[q]
            /\ f # None /\ req[q].step = "invalidate" => req[q].old # f
         \/ HandlerInv(q)'
  BY <1>7, <1>11
<1>13. Inv'
  <2>. HIDE DEF n, u, f
  <2>. QED
    BY <1>1, <1>2, <1>4, <1>9, <1>10, <1>12, InvByIssue DEF n
<1>. QED
  BY <1>4, <1>13

\* The client gets its pair when all is stored that can be.
LEMMA ReplyStep ==
  ASSUME Inv, TypeOK', NEW r \in Request, Reply(r)
  PROVE  Inv' /\ Kept
<1>. DEFINE n == req[r].new
<1>1. TypeOK /\ HandlerInv(r) /\ n \in Sid
  BY Acting DEF Inv
<1>2. /\ Storing(r) /\ ~token[n].held /\ n \in 1 .. issued
      /\ RefreshStored(n) /\ SessionStored(n)
  BY <1>1 DEF Reply, At, Storing, HandlerInv
<1>3. /\ UNCHANGED <<issued, clock, keys, history>>
      /\ token' = [token EXCEPT ![n].held = TRUE]
      /\ req' = [req EXCEPT ![r] = Idle]
  BY DEF Reply, Return
<1>4. UNCHANGED <<refresh, session, ended, slipped>>
  BY <1>3 DEF keys, history, errors
<1>5. /\ token'[n] = [token[n] EXCEPT !.held = TRUE]
      /\ \A s \in Sid : s # n => token'[s] = token[s]
  BY <1>1, <1>3 DEF TypeOK
<1>6. /\ token'[n].from = token[n].from /\ token'[n].how = token[n].how
      /\ token'[n].user = token[n].user /\ token'[n].held = TRUE
      /\ ~(n > issued')
  BY <1>1, <1>2, <1>3, <1>5, AuthAssumption DEF TypeOK, Token
<1>7. Kept
  BY <1>1, <1>3, <1>4, <1>5, <1>6, KeptByTokens
<1>8. ASSUME NEW s \in Sid PROVE TokenInv(s)'
  <2>1. CASE s = n
    <3>1. RefreshStored(s)' /\ SessionStored(s)'
      BY <1>2, <1>7, <2>1 DEF Kept
    <3>2. TokenInv(n)
      BY <1>1 DEF Inv
    <3>3. \A g \in Sid : token[g].held => token'[g].held
      BY <1>7 DEF Kept
    <3>4. token[n].from \in Sid \cup {None}
      BY <1>1 DEF TypeOK, Token
    <3>5. token'[s].user \in User
      BY <1>2, <1>6, <2>1, <3>2, <1>3 DEF TokenInv
    <3>. QED
      BY <1>4, <1>6, <2>1, <3>1, <3>2, <3>3, <3>4, <3>5 DEF TokenInv
  <2>2. CASE s # n
    BY <1>3, <1>5, <1>7, <2>2, TokenFrame
  <2>. QED
    BY <2>1, <2>2
<1>9. \A s \in Sid : token'[s].from = token[s].from
  BY <1>5, <1>6
<1>10. RefreshOnce'
  BY <1>9 DEF Inv, RefreshOnce
<1>11. req'[r] = Idle /\ \A q \in Request \ {r} : req'[q] = req[q]
  BY <1>1, <1>3 DEF TypeOK
<1>12. req'[r].step = "idle"
  BY <1>11 DEF Idle
<1>13. ASSUME NEW q \in Request \ {r} PROVE HandlerInv(q)'
  <2>1. HandlerInv(q) /\ Apart(q, r)
    BY DEF Inv
  <2>2. ASSUME Storing(q) PROVE ~token'[req[q].new].held
    <3>1. /\ req[q].new \in 1 .. issued /\ ~token[req[q].new].held
          /\ req[q].new # n
      BY <1>2, <2>1, <2>2 DEF HandlerInv, Apart
    <3>2. req[q].new \in Sid
      BY <1>1, <3>1, AuthAssumption DEF TypeOK, Sid
    <3>. QED
      BY <1>5, <3>1, <3>2
  <2>3. req[q].step = "invalidate" =>
          \A s \in Sid : token'[s].from # req[q].old
    BY <1>9, <2>1 DEF HandlerInv
  <2>. QED
    BY <1>7, <1>11, <2>2, <2>3, HandlerFrame
<1>14. HandlerInv(r)'
  BY <1>12 DEF HandlerInv, Storing, RefreshStored, SessionStored
<1>15. \A p, q \in Request : Apart(p, q)'
  BY <1>11, <1>12, ApartByStep DEF Storing
<1>. QED
  BY <1>7, <1>8, <1>10, <1>13, <1>14, <1>15 DEF Inv

-----------------------------------------------------------------------------
(* Theorems *)

\* Every step keeps the invariant and what no step may undo.
LEMMA InvNext == Inv /\ [Next]_vars => Inv' /\ Kept
<1>. SUFFICES ASSUME Inv, [Next]_vars PROVE Inv' /\ Kept
  OBVIOUS
<1>1. TypeOK'
  BY TypeNext
<1>2. CASE UNCHANGED vars
  <2>1. /\ UNCHANGED <<tokens, clock, keys, req, history>>
        /\ UNCHANGED <<accessOver, refreshOver, refresh, session>>
        /\ UNCHANGED <<ended, slipped>>
    BY <1>2 DEF vars, clock, keys, history, errors
  <2>2. TypeOK /\ accessOver \in Nat /\ refreshOver \in Nat
    BY AuthAssumption DEF Inv, TypeOK
  <2>3. Kept
    BY <1>1, <2>1, <2>2, KeptByKeys
  <2>. QED
    BY <1>1, <2>1, <2>3, InvByStanding
<1>3. ASSUME NEW r \in Request, Start(r) PROVE Inv' /\ Kept
  BY <1>1, <1>3, Starting, LoginStep, RefreshStep, LogoutAccessStep,
     LogoutRefreshStep
<1>4. ASSUME NEW r \in Request, Advance(r) PROVE Inv' /\ Kept
  BY <1>1, <1>4, InvalidateSessionStep, PutStep, PutSessionStep,
     AddToIndexStep, ReplyStep, RevokeRefreshStep, ListSessionsStep,
     RevokeSessionStep, ReturnStep
  DEF Advance
<1>. QED
  BY <1>1, <1>2, <1>3, <1>4, TimeStep, Switching, SwitchCompanyStep,
     ReturnStep DEF Next

\* The inductive invariant holds throughout.
THEOREM Invariance == Spec => []Inv
BY InvInit, InvNext, PTL DEF Spec

\* Rows, keys and handlers have their types, and no refresh token expires
\* before the access token issued with it.
THEOREM TypeCorrect == Spec => []TypeOK
<1>1. Inv => TypeOK
  BY DEF Inv
<1>. QED
  BY <1>1, Invariance, PTL

\* Consume: a refresh token is exchanged for one new pair at most, whatever
\* number of requests present it.
THEOREM Once == Spec => []RefreshOnce
<1>1. Inv => RefreshOnce
  BY DEF Inv
<1>. QED
  BY <1>1, Invariance, PTL

\* InvalidateSession: a replaced pair has no session, and gets none again.
THEOREM Rotated == Spec => []RotationEndsOld
<1>1. Inv => RotationEndsOld
  BY DEF Inv, TokenInv, RotationEndsOld
<1>. QED
  BY <1>1, Invariance, PTL

\* RevokeAll and Consume end the sessions they are about and no other.
THEOREM Untouched == Spec => []UntouchedIsAccepted
<1>1. ASSUME Inv, NEW s \in Sid, ValidAccess(s), SessionValid(s)
      PROVE  Accepted(s)
  <2>1. token[s].held /\ token[s] # NoToken
    BY <1>1 DEF ValidAccess, NoToken
  <2>2. token[s].user \in User
    BY <1>1, <2>1 DEF Inv, TokenInv
  <2>3. Role[token[s].user] \in Roles
    BY <2>2, AuthAssumption DEF AuthAssumption
  <2>. QED
    BY <1>1, <2>1, <2>3
    DEF Accepted, Roles, Claims, RequireDriver, RequireDispatcher,
        RequireAdmin, RequireAppUser, RequireChatUser
<1>2. Inv => UntouchedIsAccepted
  <2>. SUFFICES ASSUME Inv, NEW s \in Sid,
                       token[s].held, token[s].how # "switch",
                       s \notin ended, s \notin slipped
                PROVE  /\ ValidAccess(s) => Accepted(s)
                       /\ ValidRefresh(s) => s \in refresh
    BY DEF UntouchedIsAccepted
  <2>1. RefreshStored(s) /\ SessionStored(s)
    BY DEF Inv, TokenInv
  <2>. QED
    BY <1>1, <2>1
    DEF RefreshStored, SessionStored, ValidAccess, ValidRefresh, SessionValid
<1>. QED
  BY <1>2, Invariance, PTL

\* Put and PutSession never store a pair the client already holds.
THEOREM Unrevived == Spec => NoRevival
<1>1. Kept => [\A s \in Sid : token[s].held =>
                 /\ s \in refresh' => s \in refresh
                 /\ s \in session' => s \in session]_vars
  BY DEF Kept
<1>. QED
  BY <1>1, InvNext, Invariance, PTL DEF Spec, NoRevival

\* RevokeAll: once its DEL is done, no refresh token the user held at the
\* start of the logout is left.
THEOREM LoggedOut == Spec => LogoutEndsRefresh
<1>1. Inv /\ [Next]_vars =>
        [\A r \in Request :
           At(r, "revoke.del") /\ req'[r].step = "revoke.members" =>
             refresh' \cap req[r].told = {}]_vars
  <2>. SUFFICES ASSUME Inv, [Next]_vars, NEW r \in Request,
                       At(r, "revoke.del"), req'[r].step = "revoke.members"
                PROVE  refresh' \cap req[r].told = {}
    OBVIOUS
  <2>1. /\ TypeOK /\ HandlerInv(r) /\ req[r].step = "revoke.del"
        /\ req'[r].step = "revoke.members"
    BY DEF Inv, At
  <2>2. req' # req
    BY <2>1
  <2>3. PICK q \in Request : Start(q) \/ Advance(q) \/ Fail(q)
    BY <2>2 DEF Next, vars, Time, AccessExpires, RefreshExpires, ExpireRefresh,
                ExpireSession, SwitchCompany, UserSwitchCompany,
                IssueWithCompany
  <2>4. \E h : req' = [req EXCEPT ![q] = h]
    <3>1. Start(q) => \E h : req' = [req EXCEPT ![q] = h]
      <4>1. ~\E s \in Sid : LogoutRefresh(s)
        BY <2>2 DEF LogoutRefresh
      <4>2. \/ \E u \in User : Login(q, u)
            \/ \E s \in Sid : Refresh(q, s) \/ LogoutAccess(q, s)
            => \E h : req' = [req EXCEPT ![q] = h]
        BY Zenon DEF Login, Refresh, LogoutAccess, Begin
      <4>. QED
        BY ONLY <4>1, <4>2, Starting
    <3>2. Fail(q) => \E h : req' = [req EXCEPT ![q] = h]
      BY Zenon DEF Fail, Return
    <3>3. Advance(q) => \E h : req' = [req EXCEPT ![q] = h]
      BY DEF Advance, InvalidateSession, Put, PutSession, AddToIndex, Reply,
             RevokeRefresh, ListSessions, RevokeSession, DropIndex, Goto, Return
    <3>. QED
      BY <2>3, <3>1, <3>2, <3>3
  <2>5. q = r
    BY <2>1, <2>4 DEF TypeOK
  <2>6. ~Start(r)
    <3>1. Start(r) => req[r] = Idle
      <4>1. ~\E s \in Sid : LogoutRefresh(s)
        BY <2>2 DEF LogoutRefresh
      <4>2. \/ \E u \in User : Login(r, u)
            \/ \E s \in Sid : Refresh(r, s) \/ LogoutAccess(r, s)
            => req[r] = Idle
        BY Zenon DEF Login, Refresh, LogoutAccess, Begin
      <4>. QED
        BY ONLY <4>1, <4>2, Starting
    <3>2. Idle.step = "idle"
      BY DEF Idle
    <3>. QED
      BY <2>1, <3>1, <3>2
  <2>7. ~Fail(r)
    BY <2>1 DEF Fail, Return, Idle, TypeOK
  <2>8. RevokeRefresh(r)
    BY <2>1, <2>3, <2>5, <2>6, <2>7
    DEF Advance, InvalidateSession, Put, PutSession, AddToIndex, Reply,
        ListSessions, RevokeSession, DropIndex, At
  <2>9. refresh' = refresh \ req[r].sids
    BY <2>8 DEF RevokeRefresh
  <2>. QED
    BY <2>1, <2>9 DEF HandlerInv
<1>. QED
  BY <1>1, Invariance, PTL DEF Spec, LogoutEndsRefresh

-----------------------------------------------------------------------------
(* AuthSessions implements SessionContract *)

\* A handler works for one user: what it issues, replaces, lists and deletes
\* is his, and so is the index it reads.
OwnHandler(r) ==
  LET h == req[r] IN
  /\ Storing(r) => token[h.new].user = h.user
  /\ h.step = "invalidate" => token[h.old].user = h.user
  /\ h.step \in {"revoke.del", "revoke.session"} =>
       h.sids \subseteq SidsOf(h.user)

OwnPair(s) ==
  token[s].from # None => token[token[s].from].user = token[s].user

OwnInv ==
  /\ \A s \in Sid : OwnPair(s)
  /\ \A u \in User : index[u] \subseteq SidsOf(u)
  /\ \A r \in Request : OwnHandler(r)

LEMMA OwnInit == Init => OwnInv
BY DEF Init, OwnInv, OwnPair, OwnHandler, Storing, NoToken, Idle

\* Pairs keep their user.
LEMMA SidsStay ==
  ASSUME Inv, Kept, NEW u \in User
  PROVE  SidsOf(u) \subseteq SidsOf(u)'
<1>1. ASSUME NEW s \in Sid, token[s].user = u PROVE token'[s].user = u
  <2>1. s <= issued
    BY <1>1, AuthAssumption DEF Inv, TypeOK, TokenInv, NoToken, Sid
  <2>. QED
    BY <1>1, <2>1 DEF Kept
<1>. QED
  BY <1>1 DEF SidsOf

\* A handler that another one leaves alone, or that keeps the pairs it has,
\* works for its user still.
LEMMA OwnFrame ==
  ASSUME Inv, Kept, NEW r \in Request, OwnHandler(r),
         req'[r].user = req[r].user,
         Storing(r)' => Storing(r) /\ req'[r].new = req[r].new,
         req'[r].step = "invalidate" => req'[r] = req[r],
         req'[r].step \in {"revoke.del", "revoke.session"} =>
           /\ req[r].step = req'[r].step
           /\ req'[r].sids \subseteq req[r].sids
  PROVE  OwnHandler(r)'
<1>1. HandlerInv(r) /\ TypeOK /\ req[r] \in Handler /\ issued \in Nat
  BY AuthAssumption DEF Inv, TypeOK
<1>2. \A s \in Sid : s <= issued => token'[s].user = token[s].user
  BY DEF Kept
<1>3. Storing(r)' => token'[req'[r].new].user = req'[r].user
  <2>. SUFFICES ASSUME Storing(r)' PROVE token'[req'[r].new].user = req'[r].user
    OBVIOUS
  <2>1. req[r].new \in Sid /\ req[r].new <= issued
    BY <1>1, AuthAssumption DEF HandlerInv, TypeOK, Sid
  <2>. QED
    BY <1>2, <2>1 DEF OwnHandler
<1>4. req'[r].step = "invalidate" => token'[req'[r].old].user = req'[r].user
  <2>. SUFFICES ASSUME req'[r].step = "invalidate"
                PROVE  token'[req[r].old].user = req[r].user
    OBVIOUS
  <2>1. req[r].old \in Sid /\ token[req[r].old].held
    BY <1>1 DEF HandlerInv
  <2>2. req[r].old <= issued
    BY <2>1, AuthAssumption, <1>1 DEF Inv, TypeOK, TokenInv, NoToken, Sid
  <2>. QED
    BY <1>2, <2>1, <2>2 DEF OwnHandler
<1>5. req'[r].step \in {"revoke.del", "revoke.session"} =>
        req'[r].sids \subseteq SidsOf(req[r].user)'
  <2>. SUFFICES ASSUME req'[r].step \in {"revoke.del", "revoke.session"}
                PROVE  req'[r].sids \subseteq SidsOf(req[r].user)'
    OBVIOUS
  <2>1. PICK u \in User : u = req[r].user
    BY <1>1 DEF HandlerInv
  <2>2. req[r].sids \subseteq SidsOf(u)
    BY <2>1 DEF OwnHandler
  <2>3. SidsOf(u) \subseteq SidsOf(u)'
    BY SidsStay
  <2>4. req'[r].sids \subseteq SidsOf(u)' /\ req'[r].user = u
    BY <2>1, <2>2, <2>3
  <2>. QED
    BY <2>4
<1>. QED
  BY <1>3, <1>4, <1>5 DEF OwnHandler

\* A step that signs no pair and leaves the index alone, or adds to it what
\* its user has.
LEMMA OwnStep ==
  ASSUME Inv, Inv', OwnInv, Kept, issued' = issued,
         \A q \in Request : req'[q] = req[q] \/ OwnHandler(q)',
         \A u \in User : index'[u] \subseteq index[u] \cup SidsOf(u)
  PROVE  OwnInv'
<1>1. TypeOK /\ issued \in Nat
  BY AuthAssumption DEF Inv, TypeOK
<1>2. ASSUME NEW s \in Sid PROVE OwnPair(s)'
  <2>1. CASE s <= issued
    <3>1. token'[s].from = token[s].from /\ token'[s].user = token[s].user
      BY <2>1 DEF Kept
    <3>2. CASE token[s].from # None
      <4>1. token[s].from \in Sid /\ token[token[s].from].held
        BY <1>1, <3>2 DEF Inv, TypeOK, Token, TokenInv
      <4>2. token[s].from <= issued
        BY <1>1, <4>1 DEF Inv, TokenInv, NoToken, Sid
      <4>. QED
        BY <3>1, <3>2, <4>1, <4>2 DEF Kept, OwnInv, OwnPair
    <3>. QED
      BY <3>1, <3>2 DEF OwnPair
  <2>2. CASE s > issued
    BY <2>2 DEF Inv, TokenInv, OwnPair, NoToken
  <2>. QED
    BY <1>1, <2>1, <2>2 DEF Sid
<1>3. ASSUME NEW u \in User PROVE index'[u] \subseteq SidsOf(u)'
  BY SidsStay DEF OwnInv
<1>4. ASSUME NEW q \in Request, req'[q] = req[q] PROVE OwnHandler(q)'
  BY <1>4, OwnFrame DEF OwnInv, Storing
<1>. QED
  BY <1>2, <1>3, <1>4 DEF OwnInv

\* A pair is signed, for its user.
LEMMA OwnIssue ==
  ASSUME Inv, Inv', OwnInv, Kept, NEW u \in User, NEW how,
         NEW f \in Sid \cup {None}, NEW held,
         Issue(u, how, f, held),
         f # None => token[f].held /\ token[f].user = u,
         UNCHANGED index,
         \A q \in Request : req'[q] = req[q] \/ OwnHandler(q)'
  PROVE  OwnInv'
<1>1. TypeOK /\ issued \in Nat /\ issued + 1 \in Sid /\ issued' = issued + 1
  BY AuthAssumption DEF Inv, TypeOK, Issue, Sid
<1>2. token'[issued + 1] =
        [user |-> u, how |-> how, from |-> f, held |-> held]
  BY <1>1 DEF TypeOK, Issue
<1>3. ASSUME NEW s \in Sid, token[s].held
      PROVE  s <= issued /\ token'[s].user = token[s].user
  BY <1>1, <1>3 DEF Inv, TokenInv, NoToken, Sid, Kept
<1>4. ASSUME NEW s \in Sid PROVE OwnPair(s)'
  <2>1. CASE s = issued + 1
    BY <1>2, <1>3, <2>1 DEF OwnPair
  <2>2. CASE s <= issued
    <3>1. token'[s].from = token[s].from /\ token'[s].user = token[s].user
      BY <2>2 DEF Kept
    <3>2. CASE token[s].from # None
      <4>1. token[s].from \in Sid /\ token[token[s].from].held
        BY <1>1, <3>2 DEF Inv, TypeOK, Token, TokenInv
      <4>. QED
        BY <1>3, <3>1, <3>2, <4>1 DEF OwnInv, OwnPair
    <3>. QED
      BY <3>1, <3>2 DEF OwnPair
  <2>3. CASE s > issued'
    BY <2>3 DEF Inv, TokenInv, OwnPair, NoToken
  <2>. QED
    BY <1>1, <2>1, <2>2, <2>3 DEF Sid
<1>5. ASSUME NEW v \in User PROVE index'[v] \subseteq SidsOf(v)'
  BY SidsStay DEF OwnInv
<1>6. ASSUME NEW q \in Request, req'[q] = req[q] PROVE OwnHandler(q)'
  BY <1>6, OwnFrame DEF OwnInv, Storing
<1>. QED
  BY <1>4, <1>5, <1>6 DEF OwnInv

\* Every step of every handler keeps to the user it works for.
LEMMA OwnNext == Inv /\ Inv' /\ Kept /\ OwnInv /\ [Next]_vars => OwnInv'
<1>. SUFFICES ASSUME Inv, Inv', Kept, OwnInv, [Next]_vars PROVE OwnInv'
  OBVIOUS
<1>0. /\ TypeOK /\ index \in [User -> SUBSET Sid]
      /\ req \in [Request -> Handler]
  BY DEF Inv, TypeOK
\* the handler goes on, with the pairs it has
<1>1. ASSUME NEW r \in Request, NEW h \in Handler,
             req' = [req EXCEPT ![r] = h], UNCHANGED <<issued, index>>,
             h.user = req[r].user,
             h.step \in {"put", "session.set", "session.add", "reply"} =>
               Storing(r) /\ h.new = req[r].new,
             h.step # "invalidate",
             h.step \in {"revoke.del", "revoke.session"} =>
               h.step = req[r].step /\ h.sids \subseteq req[r].sids
      PROVE  OwnInv'
  <2>1. req'[r] = h /\ \A q \in Request \ {r} : req'[q] = req[q]
    BY <1>0, <1>1
  <2>2. OwnHandler(r)'
    BY <1>1, <2>1, OwnFrame DEF Storing, OwnInv
  <2>. QED
    BY <1>1, <2>1, <2>2, OwnStep
\* the handler ends
<1>2. ASSUME NEW r \in Request, req' = [req EXCEPT ![r] = Idle],
             issued' = issued, \A u \in User : index'[u] \subseteq index[u]
      PROVE  OwnInv'
  <2>1. req'[r] = Idle /\ \A q \in Request \ {r} : req'[q] = req[q]
    BY <1>0, <1>2
  <2>2. OwnHandler(r)'
    BY <2>1 DEF OwnHandler, Storing, Idle
  <2>. QED
    BY <1>2, <2>1, <2>2, OwnStep
\* nothing that is about users changes
<1>3. ASSUME UNCHANGED <<issued, index, req>> PROVE OwnInv'
  BY <1>3, OwnStep
<1>4. CASE UNCHANGED vars
  BY <1>3, <1>4 DEF vars, tokens, keys
<1>5. CASE Time
  BY <1>3, <1>5 DEF Time, AccessExpires, RefreshExpires, ExpireRefresh,
                    ExpireSession, tokens, keys
<1>6. ASSUME NEW r \in Request, NEW u \in User, Login(r, u) PROVE OwnInv'
  <2>. DEFINE h == [Idle EXCEPT !.step = "put", !.user = u, !.new = issued + 1]
  <2>1. /\ Issue(u, "login", None, FALSE) /\ index' = index
        /\ req' = [req EXCEPT ![r] = h]
    BY <1>6 DEF Login, Begin, keys
  <2>2. h.step = "put" /\ h.user = u /\ h.new = issued + 1
    BY DEF Idle
  <2>3. token'[issued + 1].user = u
    BY <2>1, AuthAssumption DEF Issue, Inv, TypeOK, Sid
  <2>4. OwnHandler(r)'
    BY <1>0, <2>1, <2>2, <2>3 DEF OwnHandler, Storing
  <2>. QED
    BY <1>0, <2>1, <2>4, OwnIssue
<1>7. ASSUME NEW r \in Request, NEW s \in Sid, Refresh(r, s) PROVE OwnInv'
  <2>. DEFINE h == [Idle EXCEPT !.step = "invalidate", !.user = token[s].user,
                                !.old = s]
  <2>1. /\ UNCHANGED <<token, issued, index>>
        /\ req' = [req EXCEPT ![r] = h]
    BY <1>7 DEF Refresh, Begin, tokens
  <2>2. h.step = "invalidate" /\ h.user = token[s].user /\ h.old = s
    BY DEF Idle
  <2>3. OwnHandler(r)'
    BY <1>0, <2>1, <2>2 DEF OwnHandler, Storing
  <2>. QED
    BY <1>0, <2>1, <2>3, OwnStep
<1>8. ASSUME NEW r \in Request, NEW s \in Sid, LogoutAccess(r, s) PROVE OwnInv'
  <2>. DEFINE u == token[s].user
              h == [Idle EXCEPT !.step = "revoke.del", !.user = u,
                      !.sids = refresh \cap SidsOf(u),
                      !.told = {x \in SidsOf(u) : token[x].held}]
  <2>1. /\ UNCHANGED <<token, issued, index>>
        /\ req' = [req EXCEPT ![r] = h]
    BY <1>8 DEF LogoutAccess, Begin, tokens, keys
  <2>2. /\ h.step = "revoke.del" /\ h.user = u
        /\ h.sids = refresh \cap SidsOf(u)
    BY DEF Idle
  <2>3. OwnHandler(r)'
    BY <1>0, <2>1, <2>2 DEF OwnHandler, Storing, SidsOf
  <2>. QED
    BY <1>0, <2>1, <2>3, OwnStep
<1>9. ASSUME NEW s \in Sid, LogoutRefresh(s) PROVE OwnInv'
  BY <1>3, <1>9 DEF LogoutRefresh, tokens
<1>10. ASSUME NEW r \in Request, Start(r) PROVE OwnInv'
  BY ONLY <1>6, <1>7, <1>8, <1>9, <1>10, Starting
<1>11. ASSUME NEW s \in Sid, SwitchCompany(s) \/ UserSwitchCompany(s)
       PROVE  OwnInv'
  <2>1. token[s].held /\ IssueWithCompany(s)
    BY ONLY <1>11, Switching
  <2>2. token[s].user \in User
    BY <2>1, AuthAssumption DEF Inv, TypeOK, TokenInv, NoToken, Sid
  <2>3. /\ Issue(token[s].user, "switch", None, TRUE)
        /\ UNCHANGED <<index, req>>
    BY <2>1 DEF IssueWithCompany, keys
  <2>. QED
    BY <2>2, <2>3, OwnIssue
<1>12. ASSUME NEW r \in Request, InvalidateSession(r) PROVE OwnInv'
  <2>. DEFINE u == req[r].user
              h == [req[r] EXCEPT !.step = "put", !.old = None,
                                  !.new = issued + 1]
  <2>1. /\ Issue(u, "refresh", req[r].old, FALSE) /\ index' = index
        /\ req' = [req EXCEPT ![r] = h] /\ req[r].step = "invalidate"
    BY <1>12 DEF InvalidateSession, At
  <2>2. h.step = "put" /\ h.user = u /\ h.new = issued + 1
    BY <1>0 DEF Handler
  <2>3. /\ u \in User /\ req[r].old \in Sid /\ token[req[r].old].held
        /\ token[req[r].old].user = u
    BY <2>1 DEF Inv, HandlerInv, OwnInv, OwnHandler
  <2>4. token'[issued + 1].user = u
    BY <2>1, AuthAssumption DEF Issue, Inv, TypeOK, Sid
  <2>5. OwnHandler(r)'
    BY <1>0, <2>1, <2>2, <2>4 DEF OwnHandler, Storing
  <2>. QED
    BY <1>0, <2>1, <2>3, <2>5, OwnIssue
<1>13. ASSUME NEW r \in Request, NEW s \in Step, Goto(r, s),
              UNCHANGED <<issued, index>>,
              s \in {"session.set", "session.add", "reply"} /\ Storing(r)
       PROVE  OwnInv'
  <2>1. req' = [req EXCEPT ![r] = [req[r] EXCEPT !.step = s]]
    BY <1>13 DEF Goto
  <2>2. [req[r] EXCEPT !.step = s] \in Handler
    BY <1>0 DEF Handler
  <2>. QED
    BY <1>0, <1>1, <1>13, <2>1, <2>2 DEF Handler
<1>14. ASSUME NEW r \in Request, Put(r) \/ PutSession(r) PROVE OwnInv'
  <2>1. \E s \in {"session.set", "session.add", "reply"} : Goto(r, s)
    BY <1>14 DEF Put, PutSession
  <2>2. UNCHANGED <<issued, index>> /\ Storing(r)
    BY <1>14 DEF Put, PutSession, At, Storing, tokens
  <2>. QED
    BY <1>13, <2>1, <2>2 DEF Step
<1>15. ASSUME NEW r \in Request, AddToIndex(r) PROVE OwnInv'
  <2>1. /\ req' = [req EXCEPT ![r].step = "reply"] /\ issued' = issued
        /\ Storing(r)
    BY <1>15 DEF AddToIndex, Goto, tokens, At, Storing
  <2>2. req[r].user \in User /\ req[r].new \in Sid
    BY <1>15, Acting
  <2>3. req[r].new \in SidsOf(req[r].user)
    BY <2>1, <2>2 DEF OwnInv, OwnHandler, SidsOf
  <2>4. \A u \in User : index'[u] \subseteq index[u] \cup SidsOf(u)
    BY <1>0, <1>15, <2>2, <2>3 DEF AddToIndex
  <2>5. req'[r].step = "reply" /\ req'[r].user = req[r].user
        /\ req'[r].new = req[r].new
    BY <1>0, <2>1 DEF Handler
  <2>6. OwnHandler(r)'
    BY <2>1, <2>5, OwnFrame DEF OwnInv
  <2>. QED
    BY <1>0, <2>1, <2>4, <2>6, OwnStep
<1>16. ASSUME NEW r \in Request, Reply(r) \/ DropIndex(r) \/ Fail(r)
       PROVE  OwnInv'
  <2>1. Return(r) /\ issued' = issued
    BY <1>16 DEF Reply, DropIndex, Fail, tokens
  <2>2. \A u \in User : index'[u] \subseteq index[u]
    BY <1>0, <1>16 DEF Reply, DropIndex, Fail, keys
  <2>. QED
    BY <1>2, <2>1, <2>2 DEF Return
<1>17. ASSUME NEW r \in Request, RevokeRefresh(r) PROVE OwnInv'
  <2>. DEFINE h == [req[r] EXCEPT !.step = "revoke.members", !.sids = {},
                                  !.told = {}]
  <2>1. req' = [req EXCEPT ![r] = h] /\ UNCHANGED <<issued, index>>
    BY <1>17 DEF RevokeRefresh, tokens
  <2>2. h \in Handler /\ h.user = req[r].user /\ h.step = "revoke.members"
    BY <1>0 DEF Handler, Step
  <2>. QED
    BY <1>1, <2>1, <2>2
<1>18. ASSUME NEW r \in Request, ListSessions(r) PROVE OwnInv'
  <2>. DEFINE u == req[r].user
  <2>1. /\ UNCHANGED <<token, issued, index>>
        /\ req' = [req EXCEPT ![r] =
             [req[r] EXCEPT !.sids = index[u],
                !.step = IF index[u] = {} THEN "revoke.index"
                                          ELSE "revoke.session"]]
    BY <1>18 DEF ListSessions, tokens, keys
  <2>2. /\ req'[r].user = u /\ req'[r].sids = index[u]
        /\ req'[r].step \in {"revoke.index", "revoke.session"}
    BY <1>0, <2>1 DEF Handler
  <2>3. index[u] \subseteq SidsOf(u)
    BY <1>18, Acting DEF OwnInv
  <2>4. OwnHandler(r)'
    BY <2>1, <2>2, <2>3 DEF OwnHandler, Storing, SidsOf
  <2>. QED
    BY <1>0, <2>1, <2>4, OwnStep
<1>19. ASSUME NEW r \in Request, RevokeSession(r) PROVE OwnInv'
  <2>1. PICK s \in req[r].sids :
          req' = [req EXCEPT ![r] =
             [req[r] EXCEPT !.sids = @ \ {s},
                !.step = IF req[r].sids = {s} THEN "revoke.index"
                                              ELSE "revoke.session"]]
    BY <1>19 DEF RevokeSession
  <2>2. req[r].step = "revoke.session" /\ UNCHANGED <<issued, index>>
    BY <1>19 DEF RevokeSession, At, tokens
  <2>. DEFINE h == [req[r] EXCEPT !.sids = @ \ {s},
                      !.step = IF req[r].sids = {s} THEN "revoke.index"
                                                    ELSE "revoke.session"]
  <2>3. /\ h \in Handler /\ h.user = req[r].user
        /\ h.step \in {"revoke.index", "revoke.session"}
        /\ h.sids \subseteq req[r].sids
    BY <1>0 DEF Handler, Step
  <2>. HIDE DEF h
  <2>4. req' = [req EXCEPT ![r] = h]
    BY <2>1 DEF h
  <2>. QED
    BY <1>1, <2>2, <2>3, <2>4
<1>. QED
  BY <1>4, <1>5, <1>10, <1>11, <1>12, <1>14, <1>15, <1>16, <1>17, <1>18, <1>19
  DEF Next, Advance

\* What a step of handler r does to the users who refresh or log out.
LEMMA BusyStep ==
  ASSUME NEW r \in Request, \A q \in Request \ {r} : req'[q] = req[q]
  PROVE  /\ ~Asking(r) /\ ~Asking(r)' => Busy' = Busy
         /\ ~Asking(r) /\ Asking(r)' => Busy' = Busy \cup {req'[r].user}
         /\ Asking(r) /\ Asking(r)' /\ req'[r].user = req[r].user =>
              Busy' = Busy
         /\ Asking(r) => req[r].user \in Busy
         /\ Asking(r) /\ ~Asking(r)' =>
              Busy' \in {Busy, Busy \ {req[r].user}}
<1>1. \A q \in Request \ {r} : Asking(q)' = Asking(q)
  BY DEF Asking
<1>. DEFINE others == {req[q].user : q \in {p \in Request \ {r} : Asking(p)}}
<1>2. Busy = IF Asking(r) THEN others \cup {req[r].user} ELSE others
  BY DEF Busy
<1>3. others' = others
  BY <1>1
<1>4. Busy' = IF Asking(r)' THEN others \cup {req'[r].user} ELSE others
  BY <1>1, <1>3 DEF Busy
<1>. HIDE DEF others
<1>. QED
  BY <1>2, <1>4

SStep == [Contract!Next]_(Contract!svars)

\* What holders see, apart from users who ask: nothing of this has changed.
Still == UNCHANGED <<Owner, Origin, refresh \cap Held, session \cap Held,
                     1 .. refreshOver, 1 .. accessOver>>

LEMMA StillStep ==
  ASSUME Still, NEW u \in User, Busy' \in {Busy, Busy \ {u}}
  PROVE  SStep
<1>1. CASE Busy' = Busy
  BY <1>1 DEF Still, SStep, Contract!svars
<1>2. CASE Busy' = Busy \ {u}
  <2>1. Contract!Done(u)
    BY <1>2 DEF Still, Contract!Done
  <2>. QED
    BY <2>1 DEF SStep, Contract!Next
<1>. QED
  BY <1>1, <1>2

LEMMA QuietStep ==
  ASSUME Still, Busy' = Busy
  PROVE  SStep
BY DEF Still, SStep, Contract!svars

\* Where no pair is given, its owner and origin stay.
LEMMA TokensStand ==
  ASSUME Inv, Kept, \A s \in Sid : token'[s].held = token[s].held
  PROVE  UNCHANGED <<Held, Owner, Origin>>
<1>1. Held' = Held
  BY DEF Held
<1>2. ASSUME NEW s \in Held PROVE token'[s].user = token[s].user
                                  /\ token'[s].from = token[s].from
  <2>1. s \in Sid /\ s <= issued
    BY <1>2, AuthAssumption DEF Inv, TypeOK, TokenInv, NoToken, Held, Sid
  <2>. QED
    BY <2>1 DEF Kept
<1>3. Owner' = Owner
  BY <1>1, <1>2 DEF Owner
<1>4. Origin' = Origin
  BY <1>1, <1>2 DEF Origin
<1>. QED
  BY <1>1, <1>3, <1>4

LEMMA Shown ==
  ASSUME Inv
  PROVE  /\ Contract!Given = Held
         /\ \A s \in Held : Owner[s] = token[s].user /\ token[s].user \in User
<1>1. ASSUME NEW s \in Sid, s \in Held
      PROVE  token[s].user \in User
  BY <1>1, AuthAssumption DEF Inv, TypeOK, TokenInv, NoToken, Held, Sid
<1>2. \A s \in Held : Owner[s] = token[s].user
  BY DEF Owner, Held
<1>3. \A s \in Sid \ Held : Owner[s] = Null
  BY DEF Owner
<1>. QED
  BY <1>1, <1>2, <1>3, AuthAssumption DEF Contract!Given, Held

\* A pair that nobody had is handed over.
LEMMA GiveStep ==
  ASSUME Inv, NEW n \in Sid, ~token[n].held,
         NEW u \in User,
         Held' = Held \cup {n}, token'[n].user = u,
         \A s \in Held : token'[s].user = token[s].user,
         UNCHANGED <<refresh, session, accessOver, refreshOver>>,
         Busy' = Busy
  PROVE  Contract!Give(n, u)
<1>1. n \notin Contract!Given
  BY Shown DEF Held
<1>2. Owner' = [Owner EXCEPT ![n] = u]
  BY DEF Owner, Held
<1>3. /\ (refresh \cap Held)' \in
           {refresh \cap Held, (refresh \cap Held) \cup {n}}
      /\ (session \cap Held)' \in
           {session \cap Held, (session \cap Held) \cup {n}}
  OBVIOUS
<1>. QED
  BY <1>1, <1>2, <1>3 DEF Contract!Give

LEMMA SwitchRefines ==
  ASSUME Inv, Inv', Kept, NEW x \in Sid, token[x].held, IssueWithCompany(x)
  PROVE  SStep
<1>. DEFINE n == issued + 1
            u == token[x].user
<1>1. /\ TypeOK /\ n \in Sid /\ ~token[n].held /\ u \in User
  BY Shown, AuthAssumption
     DEF IssueWithCompany, Issue, Inv, TypeOK, TokenInv, NoToken, Sid, Held
<1>2. token' = [token EXCEPT ![n] = [user |-> u, how |-> "switch",
                                     from |-> None, held |-> TRUE]]
  BY DEF IssueWithCompany, Issue
<1>3. token'[n] = [user |-> u, how |-> "switch", from |-> None, held |-> TRUE]
      /\ \A s \in Sid \ {n} : token'[s] = token[s]
  BY <1>1, <1>2 DEF TypeOK
<1>4. Held' = Held \cup {n}
  BY <1>1, <1>3 DEF Held
<1>5. Busy' = Busy
  BY DEF IssueWithCompany, Busy, Asking
<1>6. Contract!Give(n, u)
  <2>1. UNCHANGED <<refresh, session, accessOver, refreshOver>>
    BY DEF IssueWithCompany, clock, keys
  <2>2. \A s \in Held : token'[s].user = token[s].user
    BY <1>1, <1>3 DEF Held
  <2>. QED
    BY <1>1, <1>3, <1>4, <1>5, <2>1, <2>2, GiveStep
<1>7. Origin' = Origin
  BY <1>1, <1>3, <1>4 DEF Origin, Held
<1>8. Contract!Grant(n, u)
  BY <1>6, <1>7 DEF Contract!Grant
<1>. QED
  BY <1>1, <1>8 DEF SStep, Contract!Next

LEMMA ReplyRefines ==
  ASSUME Inv, Inv', Kept, OwnInv, NEW r \in Request, Reply(r)
  PROVE  SStep
<1>. DEFINE n == req[r].new
            u == token[n].user
            f == token[n].from
<1>1. /\ TypeOK /\ n \in Sid /\ n <= issued /\ ~token[n].held
      /\ issued \in Nat /\ req[r].step = "reply"
  BY Acting, AuthAssumption DEF Reply, At, Inv, TypeOK, HandlerInv, Storing
<1>2. u \in User
  BY <1>1 DEF Inv, TokenInv, Sid
<1>3. /\ token'[n] = [token[n] EXCEPT !.held = TRUE]
      /\ \A s \in Sid \ {n} : token'[s] = token[s]
  BY <1>1 DEF Reply, TypeOK
<1>4. token'[n].held /\ token'[n].user = u /\ token'[n].from = f
  BY <1>1, <1>3 DEF TypeOK, Token
<1>5. Held' = Held \cup {n}
  BY <1>1, <1>3, <1>4 DEF Held
<1>6. Busy' = Busy
  <2>1. req'[r] = Idle /\ \A q \in Request \ {r} : req'[q] = req[q]
    BY <1>1 DEF Reply, Return, TypeOK
  <2>2. ~Asking(r) /\ ~Asking(r)'
    BY <1>1, <2>1 DEF Asking, Idle
  <2>. QED
    BY <2>1, <2>2, BusyStep
<1>7. Contract!Give(n, u)
  <2>1. UNCHANGED <<refresh, session, accessOver, refreshOver>>
    BY DEF Reply, clock, keys
  <2>2. \A s \in Held : token'[s].user = token[s].user
    BY <1>1, <1>3 DEF Held
  <2>. QED
    BY <1>1, <1>2, <1>4, <1>5, <1>6, <2>1, <2>2, GiveStep
<1>8. Origin' = [Origin EXCEPT ![n] = f]
  BY <1>1, <1>3, <1>4, <1>5 DEF Origin, Held
<1>9. CASE f = None
  <2>1. Origin' = Origin
    BY <1>1, <1>8, <1>9 DEF Origin, Held
  <2>2. Contract!Grant(n, u)
    BY <1>7, <2>1 DEF Contract!Grant
  <2>. QED
    BY <1>1, <1>2, <2>2 DEF SStep, Contract!Next
<1>10. CASE f # None
  <2>1. /\ f \in Sid /\ token[f].held /\ f \notin refresh
        /\ token[f].user = u
    BY <1>1, <1>10 DEF Inv, TypeOK, Token, TokenInv, OwnInv, OwnPair
  <2>2. f \in Contract!Given /\ Owner[f] = u
    BY <2>1, Shown DEF Held
  <2>3. \A t \in Sid : Origin[t] # f
    BY <1>1, <1>10 DEF Inv, RefreshOnce, Origin, Held
  <2>4. Contract!Exchange(n, f)
    BY <1>7, <1>8, <2>1, <2>2, <2>3 DEF Contract!Exchange
  <2>. QED
    BY <1>1, <2>1, <2>4 DEF SStep, Contract!Next
<1>. QED
  BY <1>9, <1>10

\* A pair that is signed for the handler is nobody's yet.
LEMMA SignedStep ==
  ASSUME Inv, NEW u, NEW how, NEW f, Issue(u, how, f, FALSE)
  PROVE  \A s \in Sid : token'[s].held = token[s].held
<1>. DEFINE n == issued + 1
            t == [user |-> u, how |-> how, from |-> f, held |-> FALSE]
<1>1. /\ token \in [Sid -> Token] /\ issued \in Nat /\ MaxSid \in Nat
      /\ \A s \in Sid : TokenInv(s)
  BY AuthAssumption DEF Inv, TypeOK
<1>2. n \in Sid /\ n > issued /\ token' = [token EXCEPT ![n] = t]
  BY <1>1 DEF Issue, Sid
<1>3. token[n] = NoToken
  BY <1>1, <1>2 DEF TokenInv
<1>4. token'[n] = t /\ \A s \in Sid \ {n} : token'[s] = token[s]
  BY <1>1, <1>2
<1>5. ~token'[n].held /\ token'[n].held = FALSE
  BY <1>4
<1>6. token[n].held = FALSE
  BY <1>3 DEF NoToken
<1>. QED
  BY <1>4, <1>5, <1>6

\* What is hidden: a new pair, or keys that are stored before it is given.
LEMMA HiddenRefines ==
  ASSUME Inv, Inv', Kept, NEW r \in Request,
         \/ \E u \in User : Login(r, u)
         \/ Put(r) \/ PutSession(r) \/ AddToIndex(r)
         \/ ListSessions(r) \/ DropIndex(r) \/ Fail(r)
  PROVE  SStep
<1>1. /\ TypeOK /\ req[r] \in Handler /\ HandlerInv(r)
      /\ token \in [Sid -> Token]
  BY DEF Inv, TypeOK
<1>2. \A s \in Sid : token'[s].held = token[s].held
  <2>1. ASSUME NEW u \in User, Login(r, u), NEW s \in Sid
        PROVE  token'[s].held = token[s].held
    BY <2>1, SignedStep DEF Login
  <2>2. (\E u \in User : Login(r, u)) \/ UNCHANGED token
    BY DEF Put, PutSession, AddToIndex, ListSessions, DropIndex, Fail, tokens
  <2>. QED
    BY <2>1, <2>2
<1>3. UNCHANGED <<Held, Owner, Origin>>
  BY <1>2, TokensStand
<1>4. UNCHANGED <<accessOver, refreshOver>>
  BY DEF Login, Put, PutSession, AddToIndex, ListSessions, DropIndex, Fail,
         clock
<1>5. (refresh \cap Held)' = refresh \cap Held
  <2>1. CASE Put(r)
    <3>1. req[r].new \notin Held
      BY <1>1, <2>1 DEF Put, At, HandlerInv, Storing, Held
    <3>2. refresh' \in {refresh, refresh \cup {req[r].new}}
      BY <2>1 DEF Put
    <3>. QED
      BY <1>3, <3>1, <3>2
  <2>2. Put(r) \/ refresh' = refresh
    BY DEF Login, PutSession, AddToIndex, ListSessions, DropIndex, Fail, keys
  <2>. QED
    BY <1>3, <2>1, <2>2
<1>6. (session \cap Held)' = session \cap Held
  <2>1. CASE PutSession(r)
    <3>1. req[r].new \notin Held
      BY <1>1, <2>1 DEF PutSession, At, HandlerInv, Storing, Held
    <3>2. session' \in {session, session \cup {req[r].new}}
      BY <2>1 DEF PutSession
    <3>. QED
      BY <1>3, <3>1, <3>2
  <2>2. PutSession(r) \/ session' = session
    BY DEF Login, Put, AddToIndex, ListSessions, DropIndex, Fail, keys
  <2>. QED
    BY <1>3, <2>1, <2>2
<1>7. Still
  BY <1>3, <1>4, <1>5, <1>6 DEF Still
<1>8. ASSUME NEW u \in User, Login(r, u) PROVE SStep
  <2>. DEFINE h == [Idle EXCEPT !.step = "put", !.user = u, !.new = issued + 1]
  <2>1. req[r] = Idle /\ req' = [req EXCEPT ![r] = h] /\ h.step = "put"
    BY <1>8 DEF Login, Begin, Idle
  <2>2. ~Asking(r) /\ ~Asking(r)' /\ \A q \in Request \ {r} : req'[q] = req[q]
    BY <1>1, <2>1 DEF Asking, Idle, TypeOK
  <2>. QED
    BY <1>7, <2>2, BusyStep, QuietStep
<1>9. ASSUME Put(r) \/ PutSession(r) \/ AddToIndex(r) PROVE SStep
  <2>1. \E s \in {"session.set", "session.add", "reply"} : Goto(r, s)
    BY <1>9 DEF Put, PutSession, AddToIndex
  <2>2. /\ req[r].step \in {"put", "session.set", "session.add"}
        /\ req'[r].step \in {"session.set", "session.add", "reply"}
        /\ \A q \in Request \ {r} : req'[q] = req[q]
    BY <1>1, <1>9, <2>1
       DEF Put, PutSession, AddToIndex, At, Goto, TypeOK, Handler
  <2>3. ~Asking(r) /\ ~Asking(r)'
    BY <2>2 DEF Asking
  <2>. QED
    BY <1>7, <2>2, <2>3, BusyStep, QuietStep
<1>10. ASSUME ListSessions(r) PROVE SStep
  <2>1. /\ req[r].step = "revoke.members" /\ req'[r].user = req[r].user
        /\ req'[r].step \in {"revoke.index", "revoke.session"}
        /\ \A q \in Request \ {r} : req'[q] = req[q]
    BY <1>1, <1>10 DEF ListSessions, At, TypeOK, Handler
  <2>2. Asking(r) /\ Asking(r)'
    BY <2>1 DEF Asking
  <2>. QED
    BY <1>7, <2>1, <2>2, BusyStep, QuietStep
<1>11. ASSUME DropIndex(r) \/ Fail(r) PROVE SStep
  <2>1. Return(r) /\ req[r] # Idle
    BY <1>11 DEF DropIndex, Fail, At, Idle
  <2>2. req'[r] = Idle /\ \A q \in Request \ {r} : req'[q] = req[q]
    BY <1>1, <2>1 DEF Return, TypeOK
  <2>3. ~Asking(r)'
    BY <2>2 DEF Asking, Idle
  <2>4. CASE Asking(r)
    <3>1. req[r].user \in User
      BY <1>1, <2>4 DEF Asking, HandlerInv
    <3>. QED
      BY <1>7, <2>2, <2>3, <2>4, <3>1, BusyStep, StillStep
  <2>5. CASE ~Asking(r)
    BY <1>7, <2>2, <2>3, <2>5, BusyStep, QuietStep
  <2>. QED
    BY <2>4, <2>5
<1>. QED
  BY <1>8, <1>9, <1>10, <1>11

LEMMA RefreshRefines ==
  ASSUME Inv, Inv', Kept, NEW r \in Request, NEW s \in Sid, Refresh(r, s)
  PROVE  SStep
<1>1. /\ TypeOK /\ UNCHANGED <<token, accessOver, refreshOver, session>>
      /\ refresh' = refresh \ {s}
      /\ s \in Held /\ s \in refresh /\ s > refreshOver
  BY DEF Inv, Refresh, tokens, clock, ValidRefresh, Held
<1>2. UNCHANGED <<Held, Owner, Origin>>
  BY <1>1 DEF Held, Owner, Origin
<1>3. Owner[s] = token[s].user
  BY <1>1, Shown
<1>. DEFINE h == [Idle EXCEPT !.step = "invalidate", !.user = token[s].user,
                              !.old = s]
<1>4. req[r] = Idle /\ req' = [req EXCEPT ![r] = h]
  BY DEF Refresh, Begin
<1>5. h.step = "invalidate" /\ h.user = token[s].user
  BY DEF Idle
<1>6. /\ ~Asking(r) /\ Asking(r)' /\ req'[r].user = token[s].user
      /\ \A q \in Request \ {r} : req'[q] = req[q]
  BY <1>1, <1>4, <1>5 DEF Asking, Idle, TypeOK
<1>7. Busy' = Busy \cup {Owner[s]}
  BY <1>3, <1>6, BusyStep
<1>8. Contract!Present(s)
  <2>1. s \in (refresh \cap Held) \ (1 .. refreshOver)
    BY <1>1, AuthAssumption DEF TypeOK, Sid
  <2>2. (refresh \cap Held)' = (refresh \cap Held) \ {s}
    BY <1>1, <1>2
  <2>. QED
    BY <1>1, <1>2, <1>7, <2>1, <2>2 DEF Contract!Present
<1>. QED
  BY <1>8 DEF SStep, Contract!Next

LEMMA LogoutRefreshRefines ==
  ASSUME Inv, NEW s \in Sid, LogoutRefresh(s)
  PROVE  SStep
<1>1. /\ TypeOK /\ UNCHANGED <<token, accessOver, refreshOver, session, req>>
      /\ refresh' = refresh \ {s}
      /\ s \in Held /\ s \in refresh /\ s > refreshOver
  BY DEF Inv, LogoutRefresh, tokens, clock, ValidRefresh, Held
<1>2. UNCHANGED <<Held, Owner, Origin, Busy>>
  BY <1>1 DEF Held, Owner, Origin, Busy, Asking
<1>3. Contract!Present(s)
  <2>1. s \in (refresh \cap Held) \ (1 .. refreshOver)
    BY <1>1, AuthAssumption DEF TypeOK, Sid
  <2>2. (refresh \cap Held)' = (refresh \cap Held) \ {s}
    BY <1>1, <1>2
  <2>. QED
    BY <1>1, <1>2, <2>1, <2>2 DEF Contract!Present
<1>. QED
  BY <1>3 DEF SStep, Contract!Next

LEMMA LogoutAccessRefines ==
  ASSUME Inv, NEW r \in Request, NEW s \in Sid, LogoutAccess(r, s)
  PROVE  SStep
<1>1. /\ TypeOK
      /\ UNCHANGED <<token, accessOver, refreshOver, refresh, session>>
      /\ s \in Held /\ s > accessOver
  BY DEF Inv, LogoutAccess, tokens, clock, keys, ValidAccess, Held
<1>2. UNCHANGED <<Held, Owner, Origin>>
  BY <1>1 DEF Held, Owner, Origin
<1>3. Owner[s] = token[s].user /\ Contract!Given = Held
  BY <1>1, Shown
<1>. DEFINE h == [Idle EXCEPT !.step = "revoke.del", !.user = token[s].user,
                    !.sids = refresh \cap SidsOf(token[s].user),
                    !.told = {x \in SidsOf(token[s].user) : token[x].held}]
<1>4. req[r] = Idle /\ req' = [req EXCEPT ![r] = h]
  BY DEF LogoutAccess, Begin
<1>5. h.step = "revoke.del" /\ h.user = token[s].user
  BY DEF Idle
<1>6. /\ ~Asking(r) /\ Asking(r)' /\ req'[r].user = token[s].user
      /\ \A q \in Request \ {r} : req'[q] = req[q]
  BY <1>1, <1>4, <1>5 DEF Asking, Idle, TypeOK
<1>7. Busy' = Busy \cup {Owner[s]}
  BY <1>3, <1>6, BusyStep
<1>8. Contract!Ask(s)
  <2>1. s \in Held \ (1 .. accessOver)
    BY <1>1, AuthAssumption DEF TypeOK, Sid
  <2>. QED
    BY <1>1, <1>2, <1>3, <1>7, <2>1 DEF Contract!Ask
<1>. QED
  BY <1>8 DEF SStep, Contract!Next

LEMMA RevokeRefreshRefines ==
  ASSUME Inv, OwnInv, NEW r \in Request, RevokeRefresh(r)
  PROVE  SStep
<1>. DEFINE u == req[r].user
<1>1. /\ TypeOK /\ UNCHANGED <<token, accessOver, refreshOver, session>>
      /\ refresh' = refresh \ req[r].sids
      /\ req[r].step = "revoke.del" /\ u \in User
      /\ req[r].sids \subseteq SidsOf(u)
  BY DEF Inv, HandlerInv, OwnInv, OwnHandler, RevokeRefresh, At, tokens, clock
<1>2. UNCHANGED <<Held, Owner, Origin>>
  BY <1>1 DEF Held, Owner, Origin
<1>3. /\ req'[r].step = "revoke.members" /\ req'[r].user = u
      /\ \A q \in Request \ {r} : req'[q] = req[q]
  BY <1>1 DEF RevokeRefresh, TypeOK, Handler
<1>4. Busy' = Busy /\ u \in Busy
  <2>1. Asking(r) /\ Asking(r)'
    BY <1>1, <1>3 DEF Asking
  <2>. QED
    BY <1>3, <2>1, BusyStep
<1>5. Contract!Revoke(u)
  <2>1. (refresh \cap Held)' = (refresh \cap Held) \ req[r].sids
    BY <1>1, <1>2
  <2>2. \A s \in (refresh \cap Held) \ (refresh \cap Held)' : Owner[s] = u
    BY <1>1, <2>1, Shown DEF SidsOf
  <2>3. (refresh \cap Held)' \in SUBSET (refresh \cap Held)
    BY <2>1
  <2>. QED
    BY <1>1, <1>2, <1>4, <2>2, <2>3 DEF Contract!Revoke
<1>. QED
  BY <1>1, <1>5 DEF SStep, Contract!Next

\* The DEL of one session, of a user who has asked for it
LEMMA CloseStep ==
  ASSUME Inv, NEW s \in Sid, NEW u \in User,
         token[s].user = u, u \in Busy, Busy' \in {Busy, Busy \ {u}},
         UNCHANGED <<Held, Owner, Origin, refresh, accessOver, refreshOver>>,
         session' \in {session, session \ {s}}
  PROVE  SStep
<1>1. CASE (session \cap Held)' = session \cap Held
  <2>1. Still
    BY <1>1 DEF Still
  <2>. QED
    BY <2>1, StillStep
<1>2. CASE (session \cap Held)' # session \cap Held
  <2>1. /\ s \in session \cap Held
        /\ (session \cap Held)' = (session \cap Held) \ {s}
    BY <1>2
  <2>2. Contract!Close(s)
    BY <2>1, Shown DEF Contract!Close
  <2>. QED
    BY <2>2 DEF SStep, Contract!Next
<1>. QED
  BY <1>1, <1>2

LEMMA RevokeSessionRefines ==
  ASSUME Inv, OwnInv, NEW r \in Request, RevokeSession(r)
  PROVE  SStep
<1>. DEFINE u == req[r].user
<1>1. /\ TypeOK /\ UNCHANGED <<token, accessOver, refreshOver, refresh>>
      /\ req[r].step = "revoke.session" /\ u \in User
      /\ req[r].sids \subseteq SidsOf(u)
  BY DEF Inv, HandlerInv, OwnInv, OwnHandler, RevokeSession, At, tokens, clock
<1>2. PICK s \in req[r].sids :
        /\ session' \in {session, session \ {s}}
        /\ req' = [req EXCEPT ![r].sids = @ \ {s},
                     ![r].step = IF req[r].sids = {s} THEN "revoke.index"
                                                      ELSE "revoke.session"]
  BY DEF RevokeSession
<1>3. /\ req'[r].step \in {"revoke.index", "revoke.session"}
      /\ req'[r].user = u
      /\ \A q \in Request \ {r} : req'[q] = req[q]
  BY <1>1, <1>2 DEF TypeOK, Handler
<1>4. Busy' = Busy /\ u \in Busy
  <2>1. Asking(r) /\ Asking(r)'
    BY <1>1, <1>3 DEF Asking
  <2>. QED
    BY <1>3, <2>1, BusyStep
<1>5. s \in Sid /\ token[s].user = u
  BY <1>1, <1>2 DEF SidsOf
<1>6. UNCHANGED <<Held, Owner, Origin>>
  BY <1>1 DEF Held, Owner, Origin
<1>. QED
  BY <1>1, <1>2, <1>4, <1>5, <1>6, CloseStep

LEMMA InvalidateRefines ==
  ASSUME Inv, Inv', Kept, OwnInv, NEW r \in Request, InvalidateSession(r)
  PROVE  SStep
<1>. DEFINE u == req[r].user
            f == req[r].old
<1>1. /\ TypeOK /\ UNCHANGED <<accessOver, refreshOver, refresh>>
      /\ req[r].step = "invalidate" /\ u \in User /\ f \in Sid
      /\ token[f].user = u /\ session' \in {session, session \ {f}}
  BY DEF Inv, HandlerInv, OwnInv, OwnHandler, InvalidateSession, At, clock
<1>2. Issue(u, "refresh", f, FALSE)
  BY DEF InvalidateSession
<1>3. \A s \in Sid : token'[s].held = token[s].held
  BY <1>2, SignedStep
<1>4. UNCHANGED <<Held, Owner, Origin>>
  BY <1>3, TokensStand
<1>5. req'[r].step = "put" /\ \A q \in Request \ {r} : req'[q] = req[q]
  BY <1>1 DEF InvalidateSession, TypeOK, Handler
<1>6. u \in Busy /\ Busy' \in {Busy, Busy \ {u}}
  <2>1. Asking(r) /\ ~Asking(r)'
    BY <1>1, <1>5 DEF Asking
  <2>. QED
    BY <1>5, <2>1, BusyStep
<1>. QED
  BY <1>1, <1>4, <1>6, CloseStep

\* Expiry
LEMMA TimeRefines ==
  ASSUME Inv, Time
  PROVE  SStep
<1>1. /\ TypeOK /\ issued \in 0 .. MaxSid /\ accessOver \in 0 .. issued
      /\ refreshOver \in 0 .. accessOver /\ MaxSid \in Nat
  BY AuthAssumption DEF Inv, TypeOK
<1>2. UNCHANGED <<token, req>>
  BY DEF Time, AccessExpires, RefreshExpires, ExpireRefresh, ExpireSession,
         tokens
<1>3. UNCHANGED <<Held, Owner, Origin, Busy>>
  BY <1>2 DEF Held, Owner, Origin, Busy, Asking
<1>4. CASE AccessExpires
  <2>. DEFINE s == accessOver + 1
  <2>1. /\ s \in Sid /\ accessOver' = s
        /\ UNCHANGED <<refreshOver, refresh, session>>
    BY <1>1, <1>4 DEF AccessExpires, Sid, keys
  <2>2. 1 .. s = (1 .. accessOver) \cup {s}
    BY <1>1
  <2>3. Contract!Age(s)
    BY <1>3, <2>1, <2>2 DEF Contract!Age
  <2>. QED
    BY <2>1, <2>3 DEF SStep, Contract!Next
<1>5. CASE RefreshExpires
  <2>. DEFINE s == refreshOver + 1
  <2>1. /\ s \in Sid /\ s \in 1 .. accessOver /\ refreshOver' = s
        /\ UNCHANGED <<accessOver, refresh, session>>
    BY <1>1, <1>5 DEF RefreshExpires, Sid, keys
  <2>2. 1 .. s = (1 .. refreshOver) \cup {s}
    BY <1>1
  <2>3. Contract!Age(s)
    BY <1>3, <2>1, <2>2 DEF Contract!Age
  <2>. QED
    BY <2>1, <2>3 DEF SStep, Contract!Next
<1>6. ASSUME NEW s \in Sid, ExpireRefresh(s) PROVE SStep
  <2>1. /\ s \in 1 .. refreshOver /\ refresh' = refresh \ {s}
        /\ UNCHANGED <<accessOver, refreshOver, session>>
    BY <1>1, <1>6 DEF ExpireRefresh, Sid, clock
  <2>2. (refresh \cap Held)' = (refresh \cap Held) \ {s}
    BY <1>3, <2>1
  <2>3. Contract!Expire(s)
    BY <1>3, <2>1, <2>2 DEF Contract!Expire
  <2>. QED
    BY <2>3 DEF SStep, Contract!Next
<1>7. ASSUME NEW s \in Sid, ExpireSession(s) PROVE SStep
  <2>1. /\ s \in 1 .. accessOver /\ session' = session \ {s}
        /\ UNCHANGED <<accessOver, refreshOver, refresh>>
    BY <1>1, <1>7 DEF ExpireSession, Sid, clock
  <2>2. (session \cap Held)' = (session \cap Held) \ {s}
    BY <1>3, <2>1
  <2>3. Contract!Expire(s)
    BY <1>3, <2>1, <2>2 DEF Contract!Expire
  <2>. QED
    BY <2>3 DEF SStep, Contract!Next
<1>. QED
  BY <1>4, <1>5, <1>6, <1>7 DEF Time

LEMMA StepRefines ==
  ASSUME Inv, Inv', Kept, OwnInv, [Next]_vars
  PROVE  SStep
<1>1. CASE UNCHANGED vars
  <2>1. Still /\ Busy' = Busy
    BY <1>1 DEF vars, tokens, clock, keys, Still, Held, Owner, Origin, Busy,
                Asking
  <2>. QED
    BY <2>1, QuietStep
<1>2. ASSUME NEW s \in Sid, SwitchCompany(s) \/ UserSwitchCompany(s)
      PROVE  SStep
  BY <1>2, Switching, SwitchRefines
<1>3. ASSUME NEW r \in Request, Start(r) PROVE SStep
  BY <1>3, Starting, HiddenRefines, RefreshRefines, LogoutAccessRefines,
     LogoutRefreshRefines
<1>4. ASSUME NEW r \in Request, Advance(r) PROVE SStep
  BY <1>4, HiddenRefines, ReplyRefines, InvalidateRefines,
     RevokeRefreshRefines, RevokeSessionRefines DEF Advance
<1>5. ASSUME NEW r \in Request, Fail(r) PROVE SStep
  BY <1>5, HiddenRefines
<1>. QED
  BY <1>1, <1>2, <1>3, <1>4, <1>5, TimeRefines DEF Next

LEMMA InitRefines == Init => Contract!Init
<1>. SUFFICES ASSUME Init PROVE Contract!Init
  OBVIOUS
<1>1. Held = {}
  BY DEF Init, Held, NoToken
<1>2. Busy = {}
  BY DEF Init, Busy, Asking, Idle
<1>3. 1 .. refreshOver = {} /\ 1 .. accessOver = {}
  BY DEF Init
<1>. QED
  BY <1>1, <1>2, <1>3 DEF Init, Contract!Init, Owner, Origin

\* A handler issues, lists and deletes the pairs of the user it works for only,
\* and a pair that replaces another belongs to the same user.
THEOREM OwnPairs == Spec => []OwnInv
<1>1. Inv /\ [Next]_vars => Inv' /\ Kept
  BY InvNext
<1>2. Inv /\ Inv' /\ OwnInv /\ [Next]_vars => OwnInv'
  BY <1>1, OwnNext
<1>. QED
  BY <1>2, OwnInit, Invariance, PTL DEF Spec

\* Whatever handlers interleave or fail, holders of tokens see SessionContract:
\* rights come with the pair, once, and go by expiry or at their owner's
\* request.
THEOREM Refinement == Spec => SessionSpec
<1>1. Inv /\ Inv' /\ OwnInv /\ [Next]_vars => SStep
  BY InvNext, StepRefines
<1>. QED
  BY <1>1, InitRefines, Invariance, OwnPairs, PTL
     DEF Spec, SessionSpec, Contract!Spec, SStep
=============================================================================

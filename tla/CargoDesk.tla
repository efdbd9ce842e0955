----------------------------- MODULE CargoDesk -----------------------------
(***************************************************************************)
(* Making, editing and deleting cargo (handlers/cargo and cargo            *)
(* repository). What the market does to a cargo, in detail in Freight,     *)
(* here only moves it between phases.                                      *)
(*                                                                         *)
(* A creation counts and then inserts; an edit looks at the status through *)
(* the pool while its own transaction already holds a connection, and then *)
(* writes in that transaction. The connections of the pool are counted: a  *)
(* statement outside a transaction needs a free one only for its own step. *)
(***************************************************************************)
EXTENDS Naturals, FiniteSets

CONSTANTS
  Cargo, Dispatcher,
  Terms,    \* route and payment together
  First,    \* those every cargo is created with
  Request,  \* handlers that can be in flight at the same time
  CargoLimit, \* FreelanceDispatcherCargoLimit, switched on
  Conns,    \* connections of the pool
  Null

DeskAssumption ==
  /\ Null \notin Cargo \cup Dispatcher \cup Terms /\ First \in Terms
  /\ CargoLimit \in Nat \ {0} /\ Conns \in Nat \ {0}

VARIABLES
  row,         \* the table of cargo
  free,        \* connections in the pool that nobody holds
  req,         \* handlers in flight
  agreed,      \* history: the terms on which a cargo was assigned
  overlapped,  \* history: dispatchers two of whose creations overlapped
  overtaken    \* history: cargo assigned behind the back of an edit

history == <<agreed, overlapped, overtaken>>
vars == <<row, free, req, history>>

-----------------------------------------------------------------------------
\* open: not assigned yet, rejected or cancelled; begun: IN_PROGRESS or
\* COMPLETED. Nothing leads to IN_TRANSIT or DELIVERED.
Phase == {"none", "open", "assigned", "begun"}
Row ==
  [phase: Phase, deleted: BOOLEAN, by: Dispatcher \cup {Null},
   terms: Terms \cup {Null}]
NoRow == [phase |-> "none", deleted |-> FALSE, by |-> Null, terms |-> Null]

\* terms = Null for an edit of anything but route and payment
Handler ==
  [at: {"idle", "begin", "insert", "read", "write"}, cargo: Cargo \cup {Null},
   by: Dispatcher \cup {Null}, terms: Terms \cup {Null}]
Idle == [at |-> "idle", cargo |-> Null, by |-> Null, terms |-> Null]

Begin(r, h) == req[r] = Idle /\ req' = [req EXCEPT ![r] = h]
At(r, p)    == req[r].at = p
Goto(r, p)  == req' = [req EXCEPT ![r].at = p]
Return(r)   == req' = [req EXCEPT ![r] = Idle]

Found(c) == row[c].phase # "none" /\ ~row[c].deleted
CountByDispatcher(d) == Cardinality({c \in Cargo : Found(c) /\ row[c].by = d})

\* pgxpool: a transaction holds its connection to the end, any other
\* statement gives it back at once.
Acquire == free > 0 /\ free' = free - 1
Release == free' = free + 1
Pass    == free > 0 /\ UNCHANGED free
Holding == {r \in Request : req[r].at \in {"insert", "read", "write"}}
Waiting == {r \in Request : At(r, "read")}

TypeOK ==
  /\ row \in [Cargo -> Row]
  /\ free \in 0 .. Conns
  /\ req \in [Request -> Handler]
  /\ agreed \in [Cargo -> Terms \cup {Null}]
  /\ overlapped \subseteq Dispatcher /\ overtaken \subseteq Cargo

Init ==
  /\ row = [c \in Cargo |-> NoRow]
  /\ free = Conns
  /\ req = [r \in Request |-> Idle]
  /\ agreed = [c \in Cargo |-> Null]
  /\ overlapped = {} /\ overtaken = {}

-----------------------------------------------------------------------------
(* Creation *)

Creating(d) ==
  \E q \in Request : req[q].at \in {"begin", "insert"} /\ req[q].by = d

\* Fault: one more than the limit
CountOneMore(r, d) ==
  /\ Pass
  /\ CountByDispatcher(d) <= CargoLimit
  /\ Begin(r, [Idle EXCEPT !.at = "begin", !.by = d])
  /\ overlapped' = IF Creating(d) THEN overlapped \cup {d} ELSE overlapped
  /\ UNCHANGED <<row, agreed, overtaken>>

\* A dispatcher's creation that the limit lets through
Count(r, d) ==
  /\ Pass
  /\ CountByDispatcher(d) < CargoLimit
  /\ Begin(r, [Idle EXCEPT !.at = "begin", !.by = d])
  /\ overlapped' = IF Creating(d) THEN overlapped \cup {d} ELSE overlapped
  /\ UNCHANGED <<row, agreed, overtaken>>

\* An admin's or a company's: there is no limit.
CreateUnlimited(r) ==
  /\ Begin(r, [Idle EXCEPT !.at = "begin"])
  /\ UNCHANGED <<row, free, history>>

BeginCreate(r) ==
  /\ At(r, "begin")
  /\ Acquire
  /\ Goto(r, "insert")
  /\ UNCHANGED <<row, history>>

\* INSERTs into cargo, route_points and payments, and COMMIT
CommitCreate(r) ==
  /\ At(r, "insert")
  /\ \E c \in Cargo :
       /\ row[c] = NoRow
       /\ row' = [row EXCEPT ![c] =
            [phase |-> "open", deleted |-> FALSE, by |-> req[r].by,
             terms |-> First]]
  /\ Release
  /\ Return(r)
  /\ UNCHANGED history

-----------------------------------------------------------------------------
(* Editing. t = Null leaves route and payment alone.                        *)

BeginUpdate(r, c, t) ==
  /\ row[c] # NoRow
  /\ Acquire
  /\ Begin(r, [Idle EXCEPT !.at = "read", !.cargo = c, !.terms = t])
  /\ UNCHANGED <<row, history>>

\* ASSIGNED, IN_TRANSIT and DELIVERED are named, IN_PROGRESS and COMPLETED not.
Blocked(c, t) == t # Null /\ row[c].phase = "assigned"

\* Fault: the refusal keeps the transaction open.
ReadKeepsConnection(r) ==
  /\ At(r, "read")
  /\ free > 0
  /\ IF Found(req[r].cargo) /\ ~Blocked(req[r].cargo, req[r].terms)
     THEN Goto(r, "write") /\ UNCHANGED free
     ELSE Return(r) /\ UNCHANGED free
  /\ UNCHANGED <<row, history>>

\* Fault: the assigned phase is not looked for.
ReadUnblocked(r) ==
  /\ At(r, "read")
  /\ free > 0
  /\ IF Found(req[r].cargo) THEN Goto(r, "write") /\ UNCHANGED free
     ELSE Return(r) /\ Release
  /\ UNCHANGED <<row, history>>

\* GetByID by a connection of its own, while the transaction keeps the first.
Read(r) ==
  /\ At(r, "read")
  /\ free > 0
  /\ IF Found(req[r].cargo) /\ ~Blocked(req[r].cargo, req[r].terms)
     THEN Goto(r, "write") /\ UNCHANGED free
     ELSE Return(r) /\ Release
  /\ UNCHANGED <<row, history>>

\* UPDATE cargo, then DELETE and INSERT of the route, UPDATE or INSERT of the
\* payment, whatever the status has become, and COMMIT
CommitUpdate(r) ==
  /\ At(r, "write")
  /\ row' = IF req[r].terms = Null THEN row
            ELSE [row EXCEPT ![req[r].cargo].terms = req[r].terms]
  /\ Release
  /\ Return(r)
  /\ UNCHANGED history

Delete(c) ==
  /\ Found(c)
  /\ Pass
  /\ row' = [row EXCEPT ![c].deleted = TRUE]
  /\ UNCHANGED <<req, history>>

-----------------------------------------------------------------------------
(* The market *)

\* An offer or a recommendation is accepted, or the status is patched.
Assign(c) ==
  /\ Found(c) /\ row[c].phase # "assigned"
  /\ Pass
  /\ row' = [row EXCEPT ![c].phase = "assigned"]
  /\ agreed' = [agreed EXCEPT ![c] = row[c].terms]
  /\ overtaken' =
       IF \E q \in Request : /\ At(q, "write")
                           /\ req[q].cargo = c /\ req[q].terms # Null
       THEN overtaken \cup {c} ELSE overtaken \ {c}
  /\ UNCHANGED <<req, overlapped>>

\* Cancelled, or on its way
LeaveAssigned(c, p) ==
  /\ Found(c) /\ row[c].phase = "assigned"
  /\ p \in {"open", "begun"}
  /\ Pass
  /\ row' = [row EXCEPT ![c].phase = p]
  /\ UNCHANGED <<req, history>>

\* The client goes away or a statement fails: ROLLBACK.
Fail(r) ==
  /\ req[r] # Idle
  /\ IF r \in Holding THEN Release ELSE UNCHANGED free
  /\ Return(r)
  /\ UNCHANGED <<row, history>>

-----------------------------------------------------------------------------
Handle(r) ==
  \/ CreateUnlimited(r)
  \/ \E d \in Dispatcher : Count(r, d)
  \/ \E c \in Cargo, t \in Terms \cup {Null} : BeginUpdate(r, c, t)
  \/ BeginCreate(r) \/ CommitCreate(r) \/ Read(r) \/ CommitUpdate(r) \/ Fail(r)

Next ==
  \/ \E r \in Request : Handle(r)
  \/ \E c \in Cargo :
       \/ Delete(c) \/ Assign(c)
       \/ \E p \in Phase : LeaveAssigned(c, p)

Spec == Init /\ [][Next]_vars
-----------------------------------------------------------------------------
(* Properties *)

\* The limit is checked by a count that comes before the INSERT. A dispatcher
\* whose creations never overlapped stays within it, whatever is created by
\* others or deleted meanwhile.
LimitKept ==
  \A d \in Dispatcher \ overlapped : CountByDispatcher(d) <= CargoLimit

\* While a cargo is assigned its route and payment are those on which it was
\* assigned, unless an edit had passed the look at the status before.
TermsKept ==
  \A c \in Cargo \ overtaken :
    row[c].phase = "assigned" => row[c].terms = agreed[c]

\* An edit waits for a second connection while it holds one. It waits for
\* somebody who will give one back, except when the edits that wait have
\* taken the whole pool.
PoolDrains ==
  Waiting # {} =>
    free > 0 \/ Holding \ Waiting # {} \/ Cardinality(Waiting) = Conns
=============================================================================

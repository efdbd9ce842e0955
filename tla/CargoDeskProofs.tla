---------------------------- MODULE CargoDeskProofs ----------------------------
(***************************************************************************)
(* Theorems about CargoDesk, for any cargo, dispatchers and handlers, any   *)
(* limit and any number of connections.                                    *)
(***************************************************************************)
EXTENDS CargoDesk, FiniteSetTheorems, TLAPS

LEMMA IdleType ==
  Idle \in Handler /\ Idle.at = "idle" /\ Idle.terms = Null /\ Idle.by = Null
BY DEF Idle, Handler

LEMMA NoRowType == NoRow \in Row /\ NoRow.phase = "none"
BY DEF NoRow, Row, Phase

\* The cargo a dispatcher is counted for
Listed(d) == {c \in Cargo : Found(c) /\ row[c].by = d}
\* His creations in flight
Creator(q, d) == req[q].at \in {"begin", "insert"} /\ req[q].by = d

\* An edit has a cargo.
Editing(r) == req[r].at \in {"read", "write"} => req[r].cargo \in Cargo

\* The constants are what the module expects of them all along.
Types == DeskAssumption /\ TypeOK /\ \A r \in Request : Editing(r)

\* Every connection is in the pool or held by one handler.
PoolInv == IsFiniteSet(Holding) /\ Cardinality(Holding) + free = Conns

\* One creation at a time, and room for it
Within(d) ==
  /\ CountByDispatcher(d) <= CargoLimit
  /\ \A q \in Request : Creator(q, d) =>
       /\ CountByDispatcher(d) < CargoLimit
       /\ \A p \in Request : Creator(p, d) => p = q
LimitInv ==
  /\ \A d \in Dispatcher : IsFiniteSet(Listed(d))
  /\ \A d \in Dispatcher \ overlapped : Within(d)

\* Nobody is about to write the terms of an assigned cargo.
Pending(q, c) == /\ req[q].at = "write"
                 /\ req[q].cargo = c /\ req[q].terms # Null
TermsInv ==
  \A c \in Cargo \ overtaken :
    row[c].phase = "assigned" =>
      /\ row[c].terms = agreed[c]
      /\ \A q \in Request : ~Pending(q, c)

Inv == Types /\ PoolInv /\ LimitInv /\ TermsInv

-----------------------------------------------------------------------------
(* What a step changes *)

\* Handlers other than r stay where they are.
Moves(r) ==
  /\ req' \in [Request -> Handler]
  /\ \A q \in Request \ {r} : req'[q] = req[q]
  /\ Editing(r)'

LEMMA MovesTypes ==
  ASSUME Types, NEW r \in Request, Moves(r), row' \in [Cargo -> Row],
         free' \in 0 .. Conns, agreed' \in [Cargo -> Terms \cup {Null}],
         overlapped' \subseteq Dispatcher, overtaken' \subseteq Cargo
  PROVE  Types'
BY DEF Types, TypeOK, Moves, Editing

LEMMA ReturnMoves ==
  ASSUME Types, NEW r \in Request, Return(r)
  PROVE  Moves(r) /\ req'[r] = Idle
BY IdleType DEF Types, TypeOK, Return, Moves, Editing

LEMMA BeginMoves ==
  ASSUME Types, NEW r \in Request, NEW h \in Handler, Begin(r, h),
         h.at \in {"read", "write"} => h.cargo \in Cargo
  PROVE  Moves(r) /\ req'[r] = h /\ req[r] = Idle
BY DEF Types, TypeOK, Begin, Moves, Editing

LEMMA GotoMoves ==
  ASSUME Types, NEW r \in Request, NEW p \in {"insert", "write"}, Goto(r, p),
         p = "write" => req[r].at = "read"
  PROVE  /\ Moves(r) /\ req'[r].at = p /\ req'[r].cargo = req[r].cargo
         /\ req'[r].by = req[r].by /\ req'[r].terms = req[r].terms
<1>1. req[r] \in Handler /\ req' = [req EXCEPT ![r] = [req[r] EXCEPT !.at = p]]
  BY DEF Types, TypeOK, Goto
<1>2. PICK h \in Handler :
        /\ h = [req[r] EXCEPT !.at = p]
        /\ h.at = p /\ h.cargo = req[r].cargo
        /\ h.by = req[r].by /\ h.terms = req[r].terms
  <2>1. LET h == [req[r] EXCEPT !.at = p] IN
        /\ h \in Handler /\ h.at = p /\ h.cargo = req[r].cargo
        /\ h.by = req[r].by /\ h.terms = req[r].terms
    BY <1>1 DEF Handler
  <2>. QED
    BY <2>1, Zenon
<1>3. req' = [req EXCEPT ![r] = h]
  BY <1>1, <1>2
<1>. QED
  BY <1>2, <1>3 DEF Types, TypeOK, Moves, Editing

\* A connection goes with a handler that starts or stops to hold one.
LEMMA PoolStep ==
  ASSUME Types, PoolInv, NEW r \in Request, Moves(r),
         \/ r \notin Holding /\ r \in Holding' /\ Acquire
         \/ r \in Holding /\ r \notin Holding' /\ Release
         \/ (r \in Holding <=> r \in Holding') /\ UNCHANGED free
  PROVE  PoolInv' /\ free' \in 0 .. Conns
<1>1. \A q \in Request \ {r} : q \in Holding <=> q \in Holding'
  BY DEF Moves, Holding
<1>2. Holding \subseteq Request /\ Holding' \subseteq Request
  BY DEF Holding
<1>3. IsFiniteSet(Holding) /\ Cardinality(Holding) \in Nat
  BY FS_CardinalityType DEF PoolInv
<1>4. Conns \in Nat /\ free \in 0 .. Conns
  BY DEF Types, TypeOK, DeskAssumption
<1>5. CASE r \notin Holding /\ r \in Holding' /\ Acquire
  <2>1. Holding' = Holding \cup {r}
    BY <1>1, <1>2, <1>5
  <2>2. IsFiniteSet(Holding') /\ Cardinality(Holding') = Cardinality(Holding) + 1
    BY <1>3, <1>5, <2>1, FS_AddElement
  <2>3. free > 0 /\ free' = free - 1
    BY <1>5 DEF Acquire
  <2>. QED
    BY <1>3, <1>4, <2>2, <2>3 DEF PoolInv
<1>6. CASE r \in Holding /\ r \notin Holding' /\ Release
  <2>1. Holding' = Holding \ {r}
    BY <1>1, <1>2, <1>6
  <2>2. IsFiniteSet(Holding') /\ Cardinality(Holding') = Cardinality(Holding) - 1
    BY <1>3, <1>6, <2>1, FS_RemoveElement
  <2>3. free' = free + 1
    BY <1>6 DEF Release
  <2>4. Cardinality(Holding') \in Nat
    BY <2>2, FS_CardinalityType
  <2>. QED
    BY <1>3, <1>4, <2>2, <2>3, <2>4 DEF PoolInv
<1>7. CASE (r \in Holding <=> r \in Holding') /\ UNCHANGED free
  <2>1. Holding' = Holding
    BY <1>1, <1>2, <1>7
  <2>. QED
    BY <1>4, <1>7, <2>1 DEF PoolInv
<1>. QED
  BY <1>5, <1>6, <1>7

\* Where the cargo of a dispatcher do not grow in number, nor his creations
LEMMA LimitFrame ==
  ASSUME Types, LimitInv, UNCHANGED overlapped,
         \A d \in Dispatcher : Listed(d)' \subseteq Listed(d),
         \A q \in Request : \A d \in Dispatcher : Creator(q, d)' => Creator(q, d)
  PROVE  LimitInv'
<1>1. ASSUME NEW d \in Dispatcher
      PROVE  IsFiniteSet(Listed(d)') /\ (d \notin overlapped => Within(d)')
  <2>1. IsFiniteSet(Listed(d)) /\ Listed(d)' \in SUBSET Listed(d)
    BY DEF LimitInv
  <2>2. IsFiniteSet(Listed(d)') /\ Cardinality(Listed(d)') <= Cardinality(Listed(d))
    BY <2>1, FS_Subset
  <2>3. Cardinality(Listed(d)) \in Nat /\ Cardinality(Listed(d)') \in Nat
    BY <2>1, <2>2, FS_CardinalityType
  <2>4. /\ CountByDispatcher(d) = Cardinality(Listed(d))
        /\ CountByDispatcher(d)' = Cardinality(Listed(d)')
    BY DEF CountByDispatcher, Listed
  <2>5. ASSUME d \notin overlapped PROVE Within(d)'
    <3>1. Within(d)
      BY <2>5 DEF LimitInv
    <3>. QED
      BY <2>2, <2>3, <2>4, <3>1 DEF Within, Types, DeskAssumption
  <2>. QED
    BY <2>2, <2>5
<1>. QED
  BY <1>1 DEF LimitInv

\* Where what is on offer, and to whom, stays
SameCargo(c) ==
  /\ row'[c].phase = "none" <=> row[c].phase = "none"
  /\ row'[c].deleted = row[c].deleted /\ row'[c].by = row[c].by

LEMMA SameListed ==
  ASSUME \A c \in Cargo : SameCargo(c)
  PROVE  \A d \in Dispatcher : Listed(d)' = Listed(d)
BY DEF SameCargo, Listed, Found

-----------------------------------------------------------------------------
(* The handlers *)

\* A step of r that neither begins nor ends a creation nor touches the tables
LEMMA EditStep ==
  ASSUME Inv, NEW r \in Request, Moves(r), UNCHANGED <<row, history>>,
         PoolInv', free' \in 0 .. Conns,
         req'[r].at \in {"begin", "insert"} =>
           req[r].at \in {"begin", "insert"} /\ req'[r].by = req[r].by,
         req'[r].at = "write" =>
           /\ req[r].at \in {"read", "write"}
           /\ req'[r].terms # Null => row[req'[r].cargo].phase # "assigned"
  PROVE  Inv'
<1>1. Types'
  BY MovesTypes DEF Inv, Types, TypeOK, history
<1>2. LimitInv'
  <2>1. \A d \in Dispatcher : Listed(d)' = Listed(d)
    BY DEF Listed, Found
  <2>2. \A q \in Request : \A d \in Dispatcher : Creator(q, d)' => Creator(q, d)
    BY DEF Moves, Creator
  <2>. QED
    BY <2>1, <2>2, LimitFrame DEF Inv, history
<1>3. TermsInv'
  <2>1. ASSUME NEW c \in Cargo \ overtaken, row[c].phase = "assigned",
               NEW q \in Request, Pending(q, c)'
        PROVE  FALSE
    <3>1. CASE q = r
      BY <2>1, <3>1 DEF Pending
    <3>2. CASE q # r
      BY <2>1, <3>2 DEF Pending, Moves, Inv, TermsInv
    <3>. QED
      BY <3>1, <3>2
  <2>. QED
    BY <2>1 DEF Inv, TermsInv, history
<1>. QED
  BY <1>1, <1>2, <1>3 DEF Inv

LEMMA CountInv ==
  ASSUME Inv, NEW r \in Request, NEW d \in Dispatcher, Count(r, d)
  PROVE  Inv'
<1>1. PICK h \in Handler : /\ h = [Idle EXCEPT !.at = "begin", !.by = d]
                           /\ h.at = "begin" /\ h.by = d
  <2>1. LET h == [Idle EXCEPT !.at = "begin", !.by = d] IN
        h \in Handler /\ h.at = "begin" /\ h.by = d
    BY IdleType DEF Handler
  <2>. QED
    BY <2>1, Zenon
<1>2. Begin(r, h)
  BY <1>1, Zenon DEF Count
<1>3. Moves(r) /\ req'[r] = h /\ req[r] = Idle
  BY <1>1, <1>2, BeginMoves DEF Inv
<1>4. /\ UNCHANGED <<row, free, agreed, overtaken>>
      /\ CountByDispatcher(d) < CargoLimit
      /\ overlapped' = IF Creating(d) THEN overlapped \cup {d} ELSE overlapped
  BY DEF Count, Pass
<1>5. Types'
  BY <1>3, <1>4, MovesTypes DEF Inv, Types, TypeOK
<1>6. PoolInv'
  <2>1. r \notin Holding /\ r \notin Holding'
    BY <1>1, <1>3, IdleType DEF Holding
  <2>. QED
    BY <1>3, <1>4, <2>1, PoolStep DEF Inv
<1>7. LimitInv'
  <2>1. /\ \A e \in Dispatcher : Listed(e)' = Listed(e)
        /\ \A e \in Dispatcher : CountByDispatcher(e)' = CountByDispatcher(e)
    BY <1>4 DEF Listed, Found, CountByDispatcher
  <2>2. ASSUME NEW e \in Dispatcher \ overlapped', e # d PROVE Within(e)'
    <3>1. Within(e)
      BY <1>4, <2>2 DEF Inv, LimitInv
    <3>2. \A q \in Request : Creator(q, e)' => Creator(q, e)
      BY <1>1, <1>3, <2>2 DEF Creator, Moves
    <3>. QED
      BY <2>1, <3>1, <3>2 DEF Within, Inv, Types
  <2>3. ASSUME d \notin overlapped' PROVE Within(d)'
    <3>1. \A q \in Request : ~Creator(q, d)
      BY <1>4, <2>3 DEF Creating, Creator
    <3>2. \A q \in Request : Creator(q, d)' => q = r
      BY <1>3, <3>1 DEF Creator, Moves
    <3>3. Within(d)
      BY <1>4, <2>3 DEF Inv, LimitInv
    <3>. QED
      BY <1>4, <2>1, <3>2, <3>3 DEF Within
  <2>. QED
    BY <2>1, <2>2, <2>3 DEF Inv, LimitInv
<1>8. TermsInv'
  <2>1. \A q \in Request : \A c \in Cargo : Pending(q, c)' => Pending(q, c)
    BY <1>1, <1>3 DEF Pending, Moves
  <2>. QED
    BY <1>4, <2>1 DEF Inv, TermsInv
<1>. QED
  BY <1>5, <1>6, <1>7, <1>8 DEF Inv

LEMMA UnlimitedInv ==
  ASSUME Inv, NEW r \in Request, CreateUnlimited(r)
  PROVE  Inv'
<1>1. PICK h \in Handler : /\ h = [Idle EXCEPT !.at = "begin"]
                           /\ h.at = "begin" /\ h.by = Null
  <2>1. LET h == [Idle EXCEPT !.at = "begin"] IN
        h \in Handler /\ h.at = "begin" /\ h.by = Null
    BY IdleType DEF Handler
  <2>. QED
    BY <2>1, Zenon
<1>2. Begin(r, h)
  BY <1>1, Zenon DEF CreateUnlimited
<1>3. Moves(r) /\ req'[r] = h /\ req[r] = Idle
  BY <1>1, <1>2, BeginMoves DEF Inv
<1>4. UNCHANGED <<row, free, history>>
  BY DEF CreateUnlimited
<1>5. Types'
  BY <1>3, <1>4, MovesTypes DEF Inv, Types, TypeOK, history
<1>6. PoolInv'
  <2>1. r \notin Holding /\ r \notin Holding'
    BY <1>1, <1>3, IdleType DEF Holding
  <2>. QED
    BY <1>3, <1>4, <2>1, PoolStep DEF Inv
<1>7. LimitInv'
  <2>1. \A d \in Dispatcher : Listed(d)' = Listed(d)
    BY <1>4 DEF Listed, Found
  <2>2. \A q \in Request : \A d \in Dispatcher : Creator(q, d)' => Creator(q, d)
    BY <1>1, <1>3 DEF Creator, Moves, Inv, Types, DeskAssumption
  <2>. QED
    BY <1>4, <2>1, <2>2, LimitFrame DEF Inv, history
<1>8. TermsInv'
  <2>1. \A q \in Request : \A c \in Cargo : Pending(q, c)' => Pending(q, c)
    BY <1>1, <1>3 DEF Pending, Moves
  <2>. QED
    BY <1>4, <2>1 DEF Inv, TermsInv, history
<1>. QED
  BY <1>5, <1>6, <1>7, <1>8 DEF Inv

LEMMA BeginCreateInv ==
  ASSUME Inv, NEW r \in Request, BeginCreate(r)
  PROVE  Inv'
<1>1. /\ req[r].at = "begin" /\ Acquire /\ Goto(r, "insert")
      /\ UNCHANGED <<row, history>>
  BY DEF BeginCreate, At
<1>2. Moves(r) /\ req'[r].at = "insert" /\ req'[r].by = req[r].by
  BY <1>1, GotoMoves DEF Inv
<1>3. PoolInv' /\ free' \in 0 .. Conns
  <2>1. r \notin Holding /\ r \in Holding'
    BY <1>1, <1>2 DEF Holding
  <2>. QED
    BY <1>1, <1>2, <2>1, PoolStep DEF Inv
<1>. QED
  BY <1>1, <1>2, <1>3, EditStep

LEMMA BeginUpdateInv ==
  ASSUME Inv, NEW r \in Request, NEW c \in Cargo, NEW t \in Terms \cup {Null},
         BeginUpdate(r, c, t)
  PROVE  Inv'
<1>1. PICK h \in Handler :
        /\ h = [Idle EXCEPT !.at = "read", !.cargo = c, !.terms = t]
        /\ h.at = "read" /\ h.cargo = c
  <2>1. LET h == [Idle EXCEPT !.at = "read", !.cargo = c, !.terms = t] IN
        h \in Handler /\ h.at = "read" /\ h.cargo = c
    BY IdleType DEF Handler
  <2>. QED
    BY <2>1, Zenon
<1>2. Begin(r, h)
  BY <1>1, Zenon DEF BeginUpdate
<1>3. Moves(r) /\ req'[r] = h /\ req[r] = Idle
  BY <1>1, <1>2, BeginMoves DEF Inv
<1>4. Acquire /\ UNCHANGED <<row, history>>
  BY DEF BeginUpdate
<1>5. PoolInv' /\ free' \in 0 .. Conns
  <2>1. r \notin Holding /\ r \in Holding'
    BY <1>1, <1>3, IdleType DEF Holding
  <2>. QED
    BY <1>3, <1>4, <2>1, PoolStep DEF Inv
<1>. QED
  BY <1>1, <1>3, <1>4, <1>5, EditStep

\* An edit that has looked at the status has not found it assigned.
LEMMA ReadInv ==
  ASSUME Inv, NEW r \in Request, Read(r)
  PROVE  Inv'
<1>1. req[r].at = "read" /\ UNCHANGED <<row, history>>
  BY DEF Read, At
<1>2. CASE Goto(r, "write") /\ UNCHANGED free
           /\ ~Blocked(req[r].cargo, req[r].terms)
  <2>1. /\ Moves(r) /\ req'[r].at = "write"
        /\ req'[r].cargo = req[r].cargo /\ req'[r].terms = req[r].terms
    BY <1>1, <1>2, GotoMoves DEF Inv
  <2>2. PoolInv' /\ free' \in 0 .. Conns
    <3>1. r \in Holding /\ r \in Holding'
      BY <1>1, <2>1 DEF Holding
    <3>. QED
      BY <1>2, <2>1, <3>1, PoolStep DEF Inv
  <2>. QED
    BY <1>1, <1>2, <2>1, <2>2, EditStep DEF Blocked
<1>3. CASE Return(r) /\ Release
  <2>1. Moves(r) /\ req'[r] = Idle
    BY <1>3, ReturnMoves DEF Inv
  <2>2. PoolInv' /\ free' \in 0 .. Conns
    <3>1. r \in Holding /\ r \notin Holding'
      BY <1>1, <2>1, IdleType DEF Holding
    <3>. QED
      BY <1>3, <2>1, <3>1, PoolStep DEF Inv
  <2>. QED
    BY <1>1, <2>1, <2>2, IdleType, EditStep
<1>. QED
  BY <1>2, <1>3 DEF Read

LEMMA FailInv ==
  ASSUME Inv, NEW r \in Request, Fail(r)
  PROVE  Inv'
<1>1. /\ IF r \in Holding THEN Release ELSE UNCHANGED free
      /\ Return(r) /\ UNCHANGED <<row, history>>
  BY DEF Fail
<1>2. Moves(r) /\ req'[r] = Idle
  BY <1>1, ReturnMoves DEF Inv
<1>3. PoolInv' /\ free' \in 0 .. Conns
  <2>1. r \notin Holding'
    BY <1>2, IdleType DEF Holding
  <2>. QED
    BY <1>1, <1>2, <2>1, PoolStep DEF Inv
<1>. QED
  BY <1>1, <1>2, <1>3, IdleType, EditStep

\* The cargo of a creation is counted for its dispatcher from now on.
LEMMA CommitCreateInv ==
  ASSUME Inv, NEW r \in Request, CommitCreate(r)
  PROVE  Inv'
<1>1. /\ req[r].at = "insert" /\ Release /\ Return(r) /\ UNCHANGED history
  BY DEF CommitCreate, At
<1>2. Moves(r) /\ req'[r] = Idle
  BY <1>1, ReturnMoves DEF Inv
<1>3. /\ req[r].by \in Dispatcher \cup {Null} /\ First \in Terms
      /\ row \in [Cargo -> Row]
  BY DEF Inv, Types, TypeOK, Handler, DeskAssumption
<1>4. PICK new \in Row :
        /\ new = [phase |-> "open", deleted |-> FALSE, by |-> req[r].by,
                  terms |-> First]
        /\ new.phase = "open" /\ ~new.deleted /\ new.by = req[r].by
  <2>1. LET new == [phase |-> "open", deleted |-> FALSE, by |-> req[r].by,
                    terms |-> First] IN
        /\ new \in Row
        /\ new.phase = "open" /\ ~new.deleted /\ new.by = req[r].by
    BY <1>3 DEF Row, Phase
  <2>. QED
    BY <2>1, Zenon
<1>5. PICK c \in Cargo : row[c] = NoRow /\ row' = [row EXCEPT ![c] = new]
  BY <1>4 DEF CommitCreate
<1>6. /\ row' \in [Cargo -> Row] /\ row'[c] = new
      /\ \A e \in Cargo \ {c} : row'[e] = row[e]
  BY <1>3, <1>4, <1>5
<1>7. PoolInv' /\ free' \in 0 .. Conns
  <2>1. r \in Holding /\ r \notin Holding'
    BY <1>1, <1>2, IdleType DEF Holding
  <2>. QED
    BY <1>1, <1>2, <2>1, PoolStep DEF Inv
<1>8. Types'
  BY <1>1, <1>2, <1>6, <1>7, MovesTypes DEF Inv, Types, TypeOK, history
<1>9. ASSUME NEW d \in Dispatcher
      PROVE  IsFiniteSet(Listed(d)') /\ (d \notin overlapped' => Within(d)')
  <2>1. c \notin Listed(d)
    BY <1>5, NoRowType DEF Listed, Found
  <2>2. IsFiniteSet(Listed(d)) /\ Cardinality(Listed(d)) \in Nat
    BY FS_CardinalityType DEF Inv, LimitInv
  <2>3. /\ CountByDispatcher(d) = Cardinality(Listed(d))
        /\ CountByDispatcher(d)' = Cardinality(Listed(d)')
    BY DEF CountByDispatcher, Listed
  <2>4. CASE req[r].by # d
    <3>1. Listed(d)' = Listed(d)
      BY <1>4, <1>5, <1>6, <2>4, NoRowType DEF Listed, Found
    <3>2. \A q \in Request : Creator(q, d)' => Creator(q, d)
      BY <1>2, IdleType DEF Creator, Moves
    <3>3. d \notin overlapped' => Within(d)
      BY <1>1 DEF Inv, LimitInv, history
    <3>4. CountByDispatcher(d)' = CountByDispatcher(d)
      BY <2>3, <3>1
    <3>5. UNCHANGED CargoLimit
      OBVIOUS
    <3>. QED
      BY <2>2, <3>1, <3>2, <3>3, <3>4 DEF Within
  <2>5. CASE req[r].by = d
    <3>1. Listed(d)' = Listed(d) \cup {c}
      BY <1>4, <1>5, <1>6, <2>5, NoRowType DEF Listed, Found
    <3>2. /\ IsFiniteSet(Listed(d)')
          /\ Cardinality(Listed(d)') = Cardinality(Listed(d)) + 1
      BY <2>1, <2>2, <3>1, FS_AddElement
    <3>3. ASSUME d \notin overlapped' PROVE Within(d)'
      <4>1. Within(d) /\ Creator(r, d)
        BY <1>1, <2>5, <3>3 DEF Inv, LimitInv, history, Creator
      <4>2. \A q \in Request : ~Creator(q, d)'
        BY <1>2, <4>1, IdleType DEF Within, Creator, Moves
      <4>3. CountByDispatcher(d) < CargoLimit
        BY <4>1 DEF Within
      <4>4. CountByDispatcher(d)' <= CargoLimit
        BY <2>2, <2>3, <3>2, <4>3 DEF Inv, Types, DeskAssumption
      <4>. QED
        BY <4>2, <4>4 DEF Within
    <3>. QED
      BY <3>2, <3>3
  <2>. QED
    BY <2>4, <2>5
<1>10. TermsInv'
  <2>1. \A q \in Request : \A e \in Cargo : Pending(q, e)' => Pending(q, e)
    BY <1>2, IdleType DEF Pending, Moves
  <2>2. \A e \in Cargo : row'[e].phase = "assigned" => e # c
    BY <1>4, <1>6
  <2>. QED
    BY <1>1, <1>6, <2>1, <2>2 DEF Inv, TermsInv, history
<1>. QED
  BY <1>7, <1>8, <1>9, <1>10 DEF Inv, LimitInv

\* The cargo of an edit is not assigned, unless it was overtaken.
LEMMA CommitUpdateInv ==
  ASSUME Inv, NEW r \in Request, CommitUpdate(r)
  PROVE  Inv'
<1>. DEFINE c == req[r].cargo
<1>1. /\ req[r].at = "write" /\ Release /\ Return(r) /\ UNCHANGED history
      /\ row' = IF req[r].terms = Null THEN row
                ELSE [row EXCEPT ![c] = [row[c] EXCEPT !.terms = req[r].terms]]
  BY DEF CommitUpdate, At
<1>2. Moves(r) /\ req'[r] = Idle
  BY <1>1, ReturnMoves DEF Inv
<1>3. /\ c \in Cargo /\ req[r].terms \in Terms \cup {Null}
      /\ row \in [Cargo -> Row] /\ row[c] \in Row
  BY <1>1 DEF Inv, Types, TypeOK, Handler, Editing
<1>c. c = req[r].cargo
  OBVIOUS
<1>. HIDE DEF c
<1>4. PICK new \in Row :
        /\ new = [row[c] EXCEPT !.terms = req[r].terms]
        /\ new.phase = row[c].phase /\ new.deleted = row[c].deleted
        /\ new.by = row[c].by
  <2>1. LET new == [row[c] EXCEPT !.terms = req[r].terms] IN
        /\ new \in Row
        /\ new.phase = row[c].phase /\ new.deleted = row[c].deleted
        /\ new.by = row[c].by
    BY <1>3 DEF Row
  <2>. QED
    BY <2>1, Zenon
<1>5. row' = IF req[r].terms = Null THEN row ELSE [row EXCEPT ![c] = new]
  BY <1>1, <1>4
<1>6. /\ row' \in [Cargo -> Row]
      /\ \A e \in Cargo : /\ row'[e].phase = row[e].phase
                          /\ row'[e].deleted = row[e].deleted
                          /\ row'[e].by = row[e].by
      /\ \A e \in Cargo : e # c \/ req[r].terms = Null => row'[e] = row[e]
  BY <1>3, <1>4, <1>5
<1>7. PoolInv' /\ free' \in 0 .. Conns
  <2>1. r \in Holding /\ r \notin Holding'
    BY <1>1, <1>2, IdleType DEF Holding
  <2>. QED
    BY <1>1, <1>2, <2>1, PoolStep DEF Inv
<1>8. Types'
  BY <1>1, <1>2, <1>6, <1>7, MovesTypes DEF Inv, Types, TypeOK, history
<1>9. LimitInv'
  <2>1. \A d \in Dispatcher : Listed(d)' = Listed(d)
    BY <1>6, SameListed DEF SameCargo
  <2>2. \A q \in Request : \A d \in Dispatcher : Creator(q, d)' => Creator(q, d)
    BY <1>2, IdleType DEF Creator, Moves
  <2>. QED
    BY <1>1, <2>1, <2>2, LimitFrame DEF Inv, history
<1>10. TermsInv'
  <2>1. \A q \in Request : \A e \in Cargo : Pending(q, e)' => Pending(q, e)
    BY <1>2, IdleType DEF Pending, Moves
  <2>2. ASSUME NEW e \in Cargo \ overtaken, row[e].phase = "assigned"
        PROVE  row'[e] = row[e]
    <3>1. ~Pending(r, e)
      BY <2>2 DEF Inv, TermsInv
    <3>. QED
      BY <1>1, <1>6, <1>c, <3>1 DEF Pending
  <2>3. UNCHANGED <<agreed, overtaken>>
    BY <1>1 DEF history
  <2>4. ASSUME NEW e \in Cargo \ overtaken', row'[e].phase = "assigned"
        PROVE  row'[e].terms = agreed'[e] /\ \A q \in Request : ~Pending(q, e)'
    <3>1. e \in Cargo \ overtaken /\ row[e].phase = "assigned"
      BY <1>6, <2>3, <2>4
    <3>2. row[e].terms = agreed[e] /\ \A q \in Request : ~Pending(q, e)
      BY <3>1 DEF Inv, TermsInv
    <3>. QED
      BY <2>1, <2>2, <2>3, <3>1, <3>2
  <2>. QED
    BY <2>4 DEF TermsInv
<1>. QED
  BY <1>7, <1>8, <1>9, <1>10 DEF Inv

-----------------------------------------------------------------------------
(* The market *)

LEMMA MarketInv ==
  ASSUME Inv, NEW c \in Cargo,
         Delete(c) \/ Assign(c) \/ \E p \in Phase : LeaveAssigned(c, p)
  PROVE  Inv'
<1>1. /\ UNCHANGED <<req, free, overlapped>> /\ Found(c)
      /\ row \in [Cargo -> Row] /\ row[c] \in Row
  BY DEF Delete, Assign, LeaveAssigned, Pass, history, Inv, Types, TypeOK
<1>2. PoolInv' /\ free' \in 0 .. Conns
  BY <1>1 DEF Inv, PoolInv, Holding, Types, TypeOK
<1>3. \A q \in Request : \A d \in Dispatcher : Creator(q, d)' => Creator(q, d)
  BY <1>1 DEF Creator
<1>4. \A q \in Request : \A e \in Cargo : Pending(q, e)' <=> Pending(q, e)
  BY <1>1 DEF Pending
<1>5. ASSUME row' \in [Cargo -> Row], overtaken' \subseteq Cargo,
             agreed' \in [Cargo -> Terms \cup {Null}]
      PROVE  Types'
  BY <1>1, <1>5 DEF Inv, Types, TypeOK, Editing, DeskAssumption
<1>6. CASE Delete(c)
  <2>1. PICK new \in Row :
          /\ new = [row[c] EXCEPT !.deleted = TRUE]
          /\ new.phase = row[c].phase /\ new.terms = row[c].terms
          /\ new.deleted /\ new.by = row[c].by
    <3>1. LET new == [row[c] EXCEPT !.deleted = TRUE] IN
          /\ new \in Row
          /\ new.phase = row[c].phase /\ new.terms = row[c].terms
          /\ new.deleted /\ new.by = row[c].by
      BY <1>1 DEF Row
    <3>. QED
      BY <3>1, Zenon
  <2>2. row' = [row EXCEPT ![c] = new] /\ UNCHANGED history
    BY <1>6, <2>1 DEF Delete
  <2>3. /\ row' \in [Cargo -> Row]
        /\ \A e \in Cargo : /\ row'[e].phase = row[e].phase
                            /\ row'[e].terms = row[e].terms
                            /\ row'[e].by = row[e].by
                            /\ row[e].deleted => row'[e].deleted
    BY <1>1, <2>1, <2>2
  <2>4. Types'
    BY <1>5, <2>2, <2>3 DEF history, Inv, Types, TypeOK
  <2>5. \A d \in Dispatcher : Listed(d)' \subseteq Listed(d)
    BY <2>3 DEF Listed, Found
  <2>6. LimitInv'
    BY <1>3, <2>2, <2>5, LimitFrame DEF Inv, history
  <2>7. TermsInv'
    BY <1>4, <2>2, <2>3 DEF Inv, TermsInv, history
  <2>. QED
    BY <1>2, <2>4, <2>6, <2>7 DEF Inv
<1>7. ASSUME NEW p \in Phase, p # "none",
             row' = [row EXCEPT ![c] = [row[c] EXCEPT !.phase = p]],
             overtaken' \subseteq Cargo,
             agreed' \in [Cargo -> Terms \cup {Null}],
             TermsInv'
      PROVE  Inv'
  <2>1. PICK new \in Row :
          /\ new = [row[c] EXCEPT !.phase = p]
          /\ new.phase = p /\ new.deleted = row[c].deleted
          /\ new.by = row[c].by
    <3>1. LET new == [row[c] EXCEPT !.phase = p] IN
          /\ new \in Row /\ new.phase = p /\ new.deleted = row[c].deleted
          /\ new.by = row[c].by
      BY <1>1 DEF Row
    <3>. QED
      BY <3>1, Zenon
  <2>2. row' = [row EXCEPT ![c] = new]
    BY <1>7, <2>1
  <2>3. row' \in [Cargo -> Row] /\ \A e \in Cargo : SameCargo(e)
    BY <1>1, <1>7, <2>1, <2>2 DEF SameCargo, Found
  <2>4. Types'
    BY <1>5, <1>7, <2>3
  <2>5. LimitInv'
    BY <1>1, <1>3, <2>3, SameListed, LimitFrame DEF Inv
  <2>. QED
    BY <1>2, <1>7, <2>4, <2>5 DEF Inv
<1>8. ASSUME NEW p \in Phase
      PROVE  /\ \A e \in Cargo \ {c} :
                  [row EXCEPT ![c] = [row[c] EXCEPT !.phase = p]][e] = row[e]
             /\ [row EXCEPT ![c] = [row[c] EXCEPT !.phase = p]][c].phase = p
             /\ [row EXCEPT ![c] = [row[c] EXCEPT !.phase = p]][c].terms =
                  row[c].terms
  BY <1>1 DEF Row
<1>9. CASE Assign(c)
  <2>1. /\ row' = [row EXCEPT ![c] = [row[c] EXCEPT !.phase = "assigned"]]
        /\ agreed' = [agreed EXCEPT ![c] = row[c].terms]
        /\ overtaken' = IF \E q \in Request : Pending(q, c)
                        THEN overtaken \cup {c} ELSE overtaken \ {c}
    BY <1>9 DEF Assign, Pending, At
  <2>2. "assigned" \in Phase
    BY DEF Phase
  <2>3. /\ \A e \in Cargo \ {c} : row'[e] = row[e]
        /\ row'[c].phase = "assigned" /\ row'[c].terms = row[c].terms
    BY <1>8, <2>1, <2>2
  <2>4. /\ agreed' \in [Cargo -> Terms \cup {Null}] /\ overtaken' \subseteq Cargo
        /\ agreed'[c] = row[c].terms
        /\ \A e \in Cargo \ {c} : agreed'[e] = agreed[e]
    BY <1>1, <2>1 DEF Inv, Types, TypeOK, Row
  <2>5. TermsInv'
    <3>1. ASSUME NEW e \in Cargo \ overtaken', row'[e].phase = "assigned"
          PROVE  row'[e].terms = agreed'[e] /\ \A q \in Request : ~Pending(q, e)'
      <4>1. CASE e = c
        BY <1>4, <2>1, <2>3, <2>4, <3>1, <4>1
      <4>2. CASE e # c
        BY <1>4, <2>1, <2>3, <2>4, <3>1, <4>2 DEF Inv, TermsInv
      <4>. QED
        BY <4>1, <4>2
    <3>. QED
      BY <3>1 DEF TermsInv
  <2>. QED
    BY <1>7, <2>1, <2>2, <2>4, <2>5
<1>10. ASSUME NEW p \in Phase, LeaveAssigned(c, p)
       PROVE  Inv'
  <2>1. /\ row' = [row EXCEPT ![c] = [row[c] EXCEPT !.phase = p]]
        /\ p # "none" /\ p # "assigned" /\ UNCHANGED history
    BY <1>10 DEF LeaveAssigned
  <2>2. /\ \A e \in Cargo \ {c} : row'[e] = row[e]
        /\ row'[c].phase = p
    BY <1>8, <2>1
  <2>3. TermsInv'
    BY <1>4, <2>1, <2>2 DEF Inv, TermsInv, history
  <2>4. overtaken' \subseteq Cargo /\ agreed' \in [Cargo -> Terms \cup {Null}]
    BY <2>1 DEF history, Inv, Types, TypeOK
  <2>. QED
    BY <1>7, <2>1, <2>3, <2>4
<1>. QED
  BY <1>6, <1>9, <1>10

LEMMA InvInit == DeskAssumption /\ Init => Inv
<1>. SUFFICES ASSUME DeskAssumption, Init PROVE Inv
  OBVIOUS
<1>1. Types
  BY IdleType, NoRowType DEF Init, Types, TypeOK, Editing, DeskAssumption
<1>2. PoolInv
  <2>1. Holding = {}
    BY IdleType DEF Init, Holding
  <2>. QED
    BY <2>1, FS_EmptySet DEF Init, PoolInv, DeskAssumption
<1>3. LimitInv
  <2>1. ASSUME NEW d \in Dispatcher
        PROVE  /\ IsFiniteSet(Listed(d)) /\ CountByDispatcher(d) = 0
               /\ \A q \in Request : ~Creator(q, d)
    <3>1. Listed(d) = {}
      BY NoRowType DEF Init, Listed, Found
    <3>2. CountByDispatcher(d) = Cardinality(Listed(d))
      BY DEF CountByDispatcher, Listed
    <3>. QED
      BY <3>1, <3>2, FS_EmptySet, IdleType DEF Init, Creator
  <2>. QED
    BY <2>1 DEF LimitInv, Within, DeskAssumption
<1>4. TermsInv
  BY NoRowType DEF Init, TermsInv
<1>. QED
  BY <1>1, <1>2, <1>3, <1>4 DEF Inv

LEMMA InvNext == Inv /\ [Next]_vars => Inv'
<1>. SUFFICES ASSUME Inv, [Next]_vars PROVE Inv'
  OBVIOUS
<1>1. CASE UNCHANGED vars
  <2>1. UNCHANGED <<row, free, req, agreed, overlapped, overtaken>>
    BY <1>1 DEF vars, history
  <2>2. Types'
    BY <2>1 DEF Inv, Types, TypeOK, Editing
  <2>3. PoolInv'
    BY <2>1 DEF Inv, PoolInv, Holding
  <2>4. LimitInv'
    BY <2>1, LimitFrame DEF Inv, Listed, Found, Creator
  <2>5. TermsInv'
    BY <2>1 DEF Inv, TermsInv, Pending
  <2>. QED
    BY <2>2, <2>3, <2>4, <2>5 DEF Inv
<1>2. ASSUME NEW r \in Request, Handle(r) PROVE Inv'
  BY <1>2, UnlimitedInv, CountInv, BeginUpdateInv, BeginCreateInv,
     CommitCreateInv, ReadInv, CommitUpdateInv, FailInv DEF Handle
<1>. QED
  BY <1>1, <1>2, MarketInv DEF Next

\* Connections, counts and terms fit together, whatever overlaps and fails.
THEOREM Invariance == DeskAssumption /\ Spec => []Inv
<1>1. DeskAssumption /\ Init => Inv
  BY InvInit
<1>2. Inv /\ [Next]_vars => Inv'
  BY InvNext
<1>. QED
  BY <1>1, <1>2, PTL DEF Spec

\* The tables, the pool and the handlers keep their types.
THEOREM TypeCorrect == DeskAssumption /\ Spec => []TypeOK
<1>1. Inv => TypeOK
  BY DEF Inv, Types
<1>. QED
  BY <1>1, Invariance, PTL

\* A dispatcher whose creations do not overlap keeps to his limit.
THEOREM Limited == DeskAssumption /\ Spec => []LimitKept
<1>1. Inv => LimitKept
  BY DEF Inv, LimitInv, Within, LimitKept
<1>. QED
  BY <1>1, Invariance, PTL

\* Route and payment of an assigned cargo stay, unless an edit had passed its
\* look at the status before the assignment.
THEOREM Settled == DeskAssumption /\ Spec => []TermsKept
<1>1. Inv => TermsKept
  BY DEF Inv, TermsInv, TermsKept
<1>. QED
  BY <1>1, Invariance, PTL

\* The pool is out of connections for good only when the edits that wait for a
\* second one hold all of it.
THEOREM Drains == DeskAssumption /\ Spec => []PoolDrains
<1>1. ASSUME Inv PROVE PoolDrains
  <2>1. SUFFICES ASSUME ~(free > 0), Holding \ Waiting = {}
                 PROVE  Cardinality(Waiting) = Conns
    BY DEF PoolDrains
  <2>2. Waiting \subseteq Holding
    BY DEF Waiting, Holding, At
  <2>3. free = 0
    BY <1>1, <2>1 DEF Inv, Types, TypeOK, DeskAssumption
  <2>4. Cardinality(Holding) \in Nat
    BY <1>1, FS_CardinalityType DEF Inv, PoolInv
  <2>5. Waiting = Holding
    BY <2>1, <2>2
  <2>. QED
    BY <1>1, <2>3, <2>4, <2>5 DEF Inv, PoolInv
<1>2. Inv => PoolDrains
  BY <1>1
<1>. QED
  BY <1>2, Invariance, PTL
=============================================================================

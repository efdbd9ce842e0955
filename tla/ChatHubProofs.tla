---------------------------- MODULE ChatHubProofs ----------------------------
(***************************************************************************)
(* Theorems about ChatHub, for any users, connections and handlers, any    *)
(* capacity of a buffer and any number of broadcasts and faults.           *)
(***************************************************************************)
EXTENDS ChatHub, SequenceTheorems, TLAPS

LEMMA Values ==
  /\ Of \in [Conn -> User] /\ Conn \cap Request = {} /\ Null \notin User
  /\ Capacity \in Nat \ {0} /\ MaxLoops \in Nat /\ MaxFaults \in Nat
BY HubAssumption

LEMMA IdleType ==
  /\ Idle \in Loop /\ Idle.todo = {} /\ Idle.user = Null /\ Idle.list = <<>>
  /\ Idle.pos = 1 /\ ~Idle.live /\ ~Idle.left /\ Idle.load = Null
BY DEF Idle, Loop

\* What is left when an element is taken out of a sequence
LEMMA RemoveAtFacts ==
  ASSUME NEW S, NEW s \in Seq(S), NEW i \in 1 .. Len(s)
  PROVE  /\ RemoveAt(s, i) \in Seq(S)
         /\ Len(RemoveAt(s, i)) = Len(s) - 1
         /\ \A k \in 1 .. Len(s) - 1 :
              RemoveAt(s, i)[k] = IF k < i THEN s[k] ELSE s[k + 1]
<1>. DEFINE before == SubSeq(s, 1, i - 1)
            after  == SubSeq(s, i + 1, Len(s))
<1>1. /\ before \in Seq(S) /\ Len(before) = i - 1
      /\ \A k \in 1 .. i - 1 : before[k] = s[k]
  BY SubSeqProperties
<1>2. /\ after \in Seq(S) /\ Len(after) = Len(s) - i
      /\ \A k \in 1 .. Len(s) - i : after[k] = s[i + k]
  <2>1. \A k \in i + 1 .. Len(s) : s[k] \in S
    OBVIOUS
  <2>2. /\ after \in Seq(S)
        /\ Len(after) = IF i + 1 <= Len(s) THEN Len(s) - (i + 1) + 1 ELSE 0
        /\ \A k \in 1 .. Len(s) - (i + 1) + 1 : after[k] = s[i + 1 + k - 1]
    BY <2>1, SubSeqProperties
  <2>. QED
    BY <2>2
<1>. HIDE DEF before, after
<1>3. /\ before \o after \in Seq(S)
      /\ Len(before \o after) = Len(before) + Len(after)
      /\ \A k \in 1 .. Len(before) + Len(after) :
           (before \o after)[k] = IF k <= Len(before) THEN before[k]
                                  ELSE after[k - Len(before)]
  BY <1>1, <1>2, ConcatProperties
<1>4. RemoveAt(s, i) = before \o after
  BY DEF RemoveAt, before, after
<1>5. ASSUME NEW k \in 1 .. Len(s) - 1
      PROVE  RemoveAt(s, i)[k] = IF k < i THEN s[k] ELSE s[k + 1]
  <2>1. k \in Nat /\ i \in Nat /\ Len(s) \in Nat /\ k \in 1 .. Len(s) - 1
    OBVIOUS
  <2>2. k \in 1 .. Len(before) + Len(after)
    BY <1>1, <1>2, <2>1
  <2>3. RemoveAt(s, i)[k] = IF k <= Len(before) THEN before[k]
                            ELSE after[k - Len(before)]
    BY <1>3, <1>4, <2>2
  <2>4. CASE k < i
    BY <1>1, <2>1, <2>3, <2>4
  <2>5. CASE ~(k < i)
    <3>1. k - Len(before) = k - i + 1 /\ k - i + 1 \in 1 .. Len(s) - i
      BY <1>1, <2>1, <2>5
    <3>2. after[k - i + 1] = s[k + 1]
      BY <1>2, <2>1, <3>1
    <3>. QED
      BY <1>1, <2>1, <2>3, <2>5, <3>1, <3>2
  <2>. QED
    BY <2>4, <2>5
<1>6. RemoveAt(s, i) \in Seq(S) /\ Len(RemoveAt(s, i)) = Len(s) - 1
  BY <1>1, <1>2, <1>3, <1>4
<1>. QED
  BY <1>5, <1>6

-----------------------------------------------------------------------------
(* Types, and what a step may do to the lists that senders go through *)

Types ==
  /\ TypeOK
  /\ clients \in [User -> Seq(Conn)] /\ cap \in [User -> Nat]

LEMMA TypesInit == Init => Types
<1>. SUFFICES ASSUME Init PROVE Types
  OBVIOUS
<1>1. clients \in [User -> Seq(Conn)] /\ cap \in [User -> Nat]
  BY DEF Init
<1>2. \A u \in User : clients[u] \in Seq(Conn) /\ cap[u] >= Size(u)
  BY DEF Init, Size
<1>. QED
  BY <1>1, <1>2, Values, IdleType DEF Init, Types, TypeOK

\* The sender p goes through the same slots, and finds in them at most other
\* connections of the same user beside those it took.
Carried(p) ==
  /\ loop'[p] \in Loop
  /\ loop'[p].todo = loop[p].todo /\ loop'[p].user = loop[p].user
  /\ loop'[p].pos = loop[p].pos /\ loop'[p].load = loop[p].load
  /\ loop'[p] # Idle => loop[p] # Idle
  /\ Len(loop'[p].list) = Len(loop[p].list)
  /\ loop[p].user = Null => loop'[p] = loop[p]
  /\ ~loop'[p].left => ~loop[p].left

\* Detach only ends that slots are shared with the hub.
LEMMA DetachLoop ==
  ASSUME Types, NEW u \in User, Detach(u)
  PROVE  /\ loop' \in [Process -> Loop]
         /\ \A p \in Process :
              /\ Carried(p) /\ loop'[p].list = loop[p].list
              /\ loop'[p].left = loop[p].left
<1>1. loop' = [p \in Process |->
        IF OnList(p, u) THEN [loop[p] EXCEPT !.live = FALSE] ELSE loop[p]]
  BY DEF Detach
<1>2. ASSUME NEW p \in Process
      PROVE  /\ Carried(p) /\ loop'[p].list = loop[p].list
             /\ loop'[p].left = loop[p].left
  <2>1. loop[p] \in Loop
    BY DEF Types, TypeOK
  <2>2. CASE OnList(p, u)
    <3>1. loop'[p] = [loop[p] EXCEPT !.live = FALSE]
      BY <1>1, <2>2
    <3>2. loop[p].user # Null /\ loop[p] # Idle
      BY <2>2, Values, IdleType DEF OnList
    <3>3. /\ loop'[p] \in Loop
          /\ loop'[p].todo = loop[p].todo /\ loop'[p].user = loop[p].user
          /\ loop'[p].pos = loop[p].pos /\ loop'[p].load = loop[p].load
          /\ loop'[p].list = loop[p].list /\ loop'[p].left = loop[p].left
      BY <2>1, <3>1 DEF Loop
    <3>. QED
      BY <3>2, <3>3 DEF Carried
  <2>3. CASE ~OnList(p, u)
    BY <1>1, <2>1, <2>3 DEF Carried
  <2>. QED
    BY <2>2, <2>3
<1>3. \A p \in Process : loop'[p] \in Loop
  BY <1>2 DEF Carried
<1>4. loop' \in [Process -> Loop]
  BY <1>1, <1>3, Zenon
<1>. QED
  BY <1>2, <1>4

\* A slot is shared with a connection that was appended only by those who
\* have one more slot than the hub had.
LEMMA GrowLoop ==
  ASSUME Types, NEW u \in User, NEW c \in Conn, Grow(u, c)
  PROVE  /\ loop' \in [Process -> Loop]
         /\ cap' \in [User -> Nat] /\ cap'[u] >= Size(u) + 1
         /\ \A v \in User \ {u} : cap'[v] = cap[v]
         /\ \A p \in Process :
              /\ Carried(p) /\ loop'[p].left = loop[p].left
              /\ \A i \in 1 .. Len(loop[p].list) :
                   \/ loop'[p].list[i] = loop[p].list[i]
                   \/ /\ loop[p].user = u /\ i = Size(u) + 1
                      /\ loop'[p].list[i] = loop[p].list[i] \cup {c}
<1>. USE Values, IdleType
<1>1. Size(u) \in Nat /\ cap[u] \in Nat /\ cap[u] >= Size(u)
  BY DEF Types, TypeOK, Size
<1>2. CASE Size(u) = cap[u]
  <2>1. Detach(u)
    BY <1>2 DEF Grow
  <2>2. cap' = [cap EXCEPT ![u] = IF Size(u) = 0 THEN 1 ELSE 2 * Size(u)]
    BY <1>2 DEF Grow
  <2>3. /\ cap' \in [User -> Nat] /\ cap'[u] >= Size(u) + 1
        /\ \A v \in User \ {u} : cap'[v] = cap[v]
    BY <1>1, <2>2 DEF Types
  <2>. QED
    BY <2>1, <2>3, DetachLoop
<1>3. CASE Size(u) # cap[u]
  <2>1. UNCHANGED cap
    BY <1>3 DEF Grow
  <2>2. loop' = [p \in Process |->
          IF OnList(p, u) /\ Size(u) < Len(loop[p].list)
          THEN [loop[p] EXCEPT !.list[Size(u) + 1] = @ \cup {c}] ELSE loop[p]]
    BY <1>3 DEF Grow
  <2>3. ASSUME NEW p \in Process
        PROVE  /\ Carried(p) /\ loop'[p].left = loop[p].left
               /\ \A i \in 1 .. Len(loop[p].list) :
                    \/ loop'[p].list[i] = loop[p].list[i]
                    \/ /\ loop[p].user = u /\ i = Size(u) + 1
                       /\ loop'[p].list[i] = loop[p].list[i] \cup {c}
    <3>1. loop[p] \in Loop /\ loop[p].list \in Seq(SUBSET Conn)
      BY DEF Types, TypeOK, Loop
    <3>2. CASE OnList(p, u) /\ Size(u) < Len(loop[p].list)
      <4>1. loop'[p] = [loop[p] EXCEPT !.list[Size(u) + 1] = @ \cup {c}]
        BY <2>2, <3>2
      <4>2. Size(u) + 1 \in 1 .. Len(loop[p].list)
        BY <1>1, <3>1, <3>2
      <4>. DEFINE list == [loop[p].list EXCEPT ![Size(u) + 1] = @ \cup {c}]
      <4>3. /\ list \in Seq(SUBSET Conn) /\ Len(list) = Len(loop[p].list)
            /\ list[Size(u) + 1] = loop[p].list[Size(u) + 1] \cup {c}
            /\ \A k \in 1 .. Len(list) :
                 k # Size(u) + 1 => list[k] = loop[p].list[k]
        BY <1>1, <3>1, <4>2
      <4>4. loop'[p] = [loop[p] EXCEPT !.list = list]
        BY <3>1, <4>1 DEF Loop
      <4>. HIDE DEF list
      <4>5. /\ loop'[p] \in Loop /\ loop'[p].list = list
            /\ loop'[p].todo = loop[p].todo /\ loop'[p].user = loop[p].user
            /\ loop'[p].pos = loop[p].pos /\ loop'[p].load = loop[p].load
            /\ loop'[p].left = loop[p].left
        BY <3>1, <4>3, <4>4 DEF Loop
      <4>6. loop[p].user = u /\ u # Null /\ loop[p] # Idle
        BY <3>2 DEF OnList
      <4>. QED
        BY <4>3, <4>5, <4>6 DEF Carried
    <3>3. CASE ~(OnList(p, u) /\ Size(u) < Len(loop[p].list))
      BY <2>2, <3>1, <3>3 DEF Carried
    <3>. QED
      BY <3>2, <3>3
  <2>4. loop' \in [Process -> Loop]
    <3>1. \A p \in Process : loop'[p] \in Loop
      BY <2>3 DEF Carried
    <3>. QED
      BY <2>2, <3>1, Zenon
  <2>. QED
    BY <1>1, <1>3, <2>1, <2>3, <2>4 DEF Types
<1>. QED
  BY <1>2, <1>3

\* Whoever goes through a list of u notices that a connection has left.
LEMMA ShiftLoop ==
  ASSUME Types, NEW u \in User, NEW i \in 1 .. Size(u), Shift(u, i)
  PROVE  /\ loop' \in [Process -> Loop]
         /\ cap' \in [User -> Nat] /\ cap'[u] >= Size(u) - 1
         /\ \A v \in User \ {u} : cap'[v] = cap[v]
         /\ \A p \in Process :
              /\ Carried(p)
              /\ loop[p].user # u => loop'[p] = loop[p]
              /\ loop[p].user = u => loop'[p].left
              /\ \A k \in 1 .. Len(loop[p].list) :
                   \/ loop'[p].list[k] = loop[p].list[k]
                   \/ /\ loop[p].user = u /\ k + 1 \in 1 .. Size(u)
                      /\ loop'[p].list[k] =
                           loop[p].list[k] \cup {clients[u][k + 1]}
<1>. USE Values, IdleType
<1>1. /\ clients[u] \in Seq(Conn) /\ Size(u) = Len(clients[u])
      /\ Size(u) \in Nat /\ cap[u] \in Nat /\ cap[u] >= Size(u)
  BY DEF Types, TypeOK, Size
<1>2. /\ cap' \in [User -> Nat] /\ cap'[u] >= Size(u) - 1
      /\ \A v \in User \ {u} : cap'[v] = cap[v]
  <2>1. cap' = [cap EXCEPT ![u] = IF Size(u) = 1 THEN 0 ELSE @]
    BY DEF Shift
  <2>2. CASE Size(u) = 1
    BY <1>1, <2>1, <2>2 DEF Types
  <2>3. CASE Size(u) # 1
    BY <1>1, <2>1, <2>3 DEF Types
  <2>. QED
    BY <2>2, <2>3
<1>3. ASSUME NEW p \in Process
      PROVE  /\ Carried(p)
             /\ loop[p].user # u => loop'[p] = loop[p]
             /\ loop[p].user = u => loop'[p].left
             /\ \A k \in 1 .. Len(loop[p].list) :
                  \/ loop'[p].list[k] = loop[p].list[k]
                  \/ /\ loop[p].user = u /\ k + 1 \in 1 .. Size(u)
                     /\ loop'[p].list[k] =
                          loop[p].list[k] \cup {clients[u][k + 1]}
  <2>1. loop[p] \in Loop /\ loop[p].list \in Seq(SUBSET Conn)
    BY DEF Types, TypeOK, Loop
  <2>2. CASE loop[p].user # u
    <3>1. loop'[p] = loop[p]
      BY <2>2 DEF Shift
    <3>. QED
      BY <2>1, <2>2, <3>1 DEF Carried
  <2>3. CASE loop[p].user = u
    <3>. DEFINE list == [k \in 1 .. Len(loop[p].list) |->
                  IF loop[p].live /\ k \in i .. Size(u) - 1
                  THEN loop[p].list[k] \cup {clients[u][k + 1]}
                  ELSE loop[p].list[k]]
    <3>1. loop'[p] = [loop[p] EXCEPT !.left = TRUE,
                                     !.live = @ /\ Size(u) > 1,
                                     !.list = list]
      BY <2>3 DEF Shift
    <3>2. list \in Seq(SUBSET Conn) /\ Len(list) = Len(loop[p].list)
      <4>1. ASSUME NEW k \in 1 .. Len(loop[p].list)
            PROVE  list[k] \in SUBSET Conn
        BY <1>1, <2>1
      <4>. QED
        BY <2>1, <4>1
    <3>3. ASSUME NEW k \in 1 .. Len(loop[p].list)
          PROVE  \/ list[k] = loop[p].list[k]
                 \/ /\ k + 1 \in 1 .. Size(u)
                    /\ list[k] = loop[p].list[k] \cup {clients[u][k + 1]}
      BY <1>1
    <3>. HIDE DEF list
    <3>4. /\ loop'[p] \in Loop /\ loop'[p].list = list /\ loop'[p].left
          /\ loop'[p].todo = loop[p].todo /\ loop'[p].user = loop[p].user
          /\ loop'[p].pos = loop[p].pos /\ loop'[p].load = loop[p].load
      BY <2>1, <3>1, <3>2 DEF Loop
    <3>. QED
      BY <2>3, <3>2, <3>3, <3>4 DEF Carried
  <2>. QED
    BY <2>2, <2>3
<1>4. loop' \in [Process -> Loop]
  BY <1>3 DEF Shift, Carried
<1>. QED
  BY <1>2, <1>3, <1>4

\* The hub after append and after the shift
LEMMA GrowHub ==
  ASSUME Types, NEW u \in User, NEW c \in Conn, Grow(u, c)
  PROVE  /\ clients' \in [User -> Seq(Conn)]
         /\ \A v \in User \ {u} : clients'[v] = clients[v]
         /\ Size(u) \in Nat /\ Len(clients'[u]) = Size(u) + 1
         /\ clients'[u][Size(u) + 1] = c
         /\ \A i \in 1 .. Size(u) : clients'[u][i] = clients[u][i]
<1>1. clients' = [clients EXCEPT ![u] = Append(clients[u], c)]
  BY DEF Grow
<1>2. clients[u] \in Seq(Conn)
  BY DEF Types
<1>. QED
  BY <1>1, <1>2 DEF Types, Size

LEMMA ShiftHub ==
  ASSUME Types, NEW u \in User, NEW i \in 1 .. Size(u), Shift(u, i)
  PROVE  /\ clients' \in [User -> Seq(Conn)]
         /\ \A v \in User \ {u} : clients'[v] = clients[v]
         /\ Size(u) \in Nat /\ Len(clients'[u]) = Size(u) - 1
         /\ \A k \in 1 .. Size(u) - 1 :
              clients'[u][k] = IF k < i THEN clients[u][k]
                               ELSE clients[u][k + 1]
<1>1. clients' = [clients EXCEPT ![u] = RemoveAt(clients[u], i)]
  BY DEF Shift
<1>2. clients[u] \in Seq(Conn) /\ i \in 1 .. Len(clients[u])
  BY DEF Types, Size
<1>. DEFINE rest == RemoveAt(clients[u], i)
<1>3. /\ rest \in Seq(Conn) /\ Len(rest) = Len(clients[u]) - 1
      /\ \A k \in 1 .. Len(clients[u]) - 1 :
           rest[k] = IF k < i THEN clients[u][k] ELSE clients[u][k + 1]
  BY <1>2, RemoveAtFacts
<1>. HIDE DEF rest
<1>4. clients' = [clients EXCEPT ![u] = rest]
  BY <1>1 DEF rest
<1>5. clients' \in [User -> Seq(Conn)] /\ clients'[u] = rest
  BY <1>3, <1>4 DEF Types
<1>. QED
  BY <1>2, <1>3, <1>4, <1>5 DEF Types, Size

\* The disjuncts of Next
LEMMA NextCases ==
  ASSUME [Next]_vars
  PROVE  \/ \E c \in Conn :
              \/ Register(c) \/ SetOnline(c) \/ Unregister(c) \/ CloseSend(c)
              \/ Write(c) \/ WriteEnds(c) \/ Lose(c)
         \/ \E c \in Conn, k \in chats : Typing(c, k)
         \/ \E p \in Process : Offer(p) \/ Panic(p) \/ Done(p)
         \/ \E p \in Process, u \in User : TakeList(p, u)
         \/ \E u \in User : ExpirePresence(u)
         \/ \E u, v \in User : GetOrCreateConversation(u, v)
         \/ \E r \in Request, u \in User, k \in chats : SendMessage(r, u, k)
         \/ Restart
         \/ UNCHANGED vars
BY DEF Next, ReadPump, WritePump, Send, Ask

\* What a broadcast begins with, and what it goes on with after a user
LEMMA BroadcastType ==
  ASSUME NEW to \in SUBSET User, NEW load \in Payload
  PROVE  LET l == [Idle EXCEPT !.todo = to, !.load = load] IN
         /\ l \in Loop /\ l.todo = to /\ l.load = load
         /\ l.user = Null /\ l.list = <<>>
BY IdleType DEF Loop

\* The hub and the lists are as they were.
Quiet == UNCHANGED <<clients, cap, loop>>

LEMMA QuietTypes ==
  ASSUME Types, Quiet, chats' \subseteq Conversation,
         read' \in [Conn -> {"none", "announce", "run", "unwind", "close",
                             "ended"}],
         write' \in [Conn -> {"none", "run", "ended"}],
         up' \subseteq Conn, closed' \subseteq Conn,
         send' \in [Conn -> 0 .. Capacity],
         online' \in [User -> BOOLEAN], away' \subseteq User,
         faults' \in 0 .. MaxFaults
  PROVE  Types'
BY DEF Types, TypeOK, Quiet, Size

LEMMA LoopTypes ==
  ASSUME Types, loop' \in [Process -> Loop],
         UNCHANGED <<chats, clients, cap, write, up, closed, online, away,
                     faults>>,
         read' \in [Conn -> {"none", "announce", "run", "unwind", "close",
                             "ended"}],
         send' \in [Conn -> 0 .. Capacity]
  PROVE  Types'
BY DEF Types, TypeOK, Size

\* Both kinds of broadcast begin in the same way.
LEMMA BroadcastBegins ==
  ASSUME Types, NEW p \in Process, NEW to \in SUBSET User, NEW load \in Payload,
         Broadcast(p, to, load)
  PROVE  /\ loop' \in [Process -> Loop] /\ loop[p] = Idle
         /\ \A q \in Process \ {p} : loop'[q] = loop[q]
         /\ loop'[p].todo = to /\ loop'[p].load = load
         /\ loop'[p].user = Null /\ loop'[p].list = <<>>
<1>1. PICK l \in Loop : /\ l = [Idle EXCEPT !.todo = to, !.load = load]
                        /\ l.todo = to /\ l.load = load
                        /\ l.user = Null /\ l.list = <<>>
  <2>1. LET l == [Idle EXCEPT !.todo = to, !.load = load] IN
        /\ l \in Loop /\ l.todo = to /\ l.load = load
        /\ l.user = Null /\ l.list = <<>>
    BY BroadcastType
  <2>. QED
    BY <2>1, Zenon
<1>2. loop' = [loop EXCEPT ![p] = l] /\ loop[p] = Idle
  BY <1>1, Zenon DEF Broadcast, Busy
<1>. QED
  BY <1>1, <1>2 DEF Types, TypeOK

LEMMA PayloadType ==
  ASSUME Types, NEW k \in chats, NEW u \in User
  PROVE  /\ k \in SUBSET User
         /\ [type |-> "message", chat |-> k, from |-> u] \in Payload
         /\ [type |-> "typing", chat |-> k, from |-> u] \in Payload
<1>1. k \in Conversation
  BY DEF Types, TypeOK
<1>2. k \in SUBSET User
  BY <1>1 DEF Conversation
<1>. QED
  BY <1>1, <1>2 DEF Payload

\* What TakeList, Done, Offer and Panic do to the loop of p
LEMMA TakeLoop ==
  ASSUME Types, NEW p \in Process, NEW u \in User, TakeList(p, u)
  PROVE  /\ loop' \in [Process -> Loop]
         /\ \A q \in Process \ {p} : loop'[q] = loop[q]
         /\ u \in loop[p].todo /\ loop[p].user = Null
         /\ loop'[p].user = u /\ loop'[p].todo = loop[p].todo \ {u}
         /\ loop'[p].load = loop[p].load /\ loop'[p].pos = 1
         /\ Len(loop'[p].list) = Size(u)
         /\ \A i \in 1 .. Size(u) : loop'[p].list[i] = {clients[u][i]}
<1>. DEFINE list == [i \in 1 .. Size(u) |-> {clients[u][i]}]
<1>1. clients[u] \in Seq(Conn) /\ Size(u) \in Nat /\ loop[p] \in Loop
  BY DEF Types, TypeOK, Size
<1>2. list \in Seq(SUBSET Conn) /\ Len(list) = Size(u)
  <2>1. \A i \in 1 .. Size(u) : list[i] \in SUBSET Conn
    BY <1>1 DEF Size
  <2>. QED
    BY <1>1, <2>1
<1>3. \A i \in 1 .. Size(u) : list[i] = {clients[u][i]}
  OBVIOUS
<1>4. loop' = [loop EXCEPT ![p] = [loop[p] EXCEPT
                 !.user = u, !.todo = @ \ {u}, !.list = list, !.pos = 1,
                 !.live = TRUE, !.left = FALSE]]
  BY <1>1 DEF TakeList, Types, TypeOK, Loop
<1>. HIDE DEF list
<1>5. PICK l \in Loop :
        /\ l = [loop[p] EXCEPT !.user = u, !.todo = @ \ {u}, !.list = list,
                               !.pos = 1, !.live = TRUE, !.left = FALSE]
        /\ l.user = u /\ l.todo = loop[p].todo \ {u} /\ l.list = list
        /\ l.load = loop[p].load /\ l.pos = 1
  <2>1. LET l == [loop[p] EXCEPT !.user = u, !.todo = @ \ {u}, !.list = list,
                                 !.pos = 1, !.live = TRUE, !.left = FALSE] IN
        /\ l \in Loop
        /\ l.user = u /\ l.todo = loop[p].todo \ {u} /\ l.list = list
        /\ l.load = loop[p].load /\ l.pos = 1
    <3>1. /\ loop[p].todo \ {u} \in SUBSET User /\ 1 \in Nat \ {0}
          /\ u \in User \cup {Null}
      BY <1>1 DEF Loop
    <3>. QED
      BY <1>1, <1>2, <3>1 DEF Loop
  <2>. QED
    BY <2>1, Zenon
<1>6. loop' = [loop EXCEPT ![p] = l]
  BY <1>4, <1>5
<1>7. u \in loop[p].todo /\ loop[p].user = Null
  BY DEF TakeList
<1>. QED
  BY <1>2, <1>3, <1>5, <1>6, <1>7 DEF Types, TypeOK

LEMMA OfferLoop ==
  ASSUME Types, NEW p \in Process, Offer(p)
  PROVE  /\ loop' \in [Process -> Loop]
         /\ \A q \in Process \ {p} : loop'[q] = loop[q]
         /\ loop[p].user # Null
         /\ loop'[p].user = loop[p].user /\ loop'[p].todo = loop[p].todo
         /\ loop'[p].load = loop[p].load /\ loop'[p].pos = loop[p].pos + 1
         /\ loop'[p].list = loop[p].list /\ loop'[p].left = loop[p].left
         /\ send' \in [Conn -> 0 .. Capacity]
<1>1. loop[p] \in Loop
  BY DEF Types, TypeOK
<1>2. loop' = [loop EXCEPT ![p] = [loop[p] EXCEPT !.pos = @ + 1]]
  BY DEF Offer, Types, TypeOK
<1>3. PICK c \in Conn :
        send' = [send EXCEPT ![c] = IF @ < Capacity THEN @ + 1 ELSE @]
  <2>1. loop[p].pos \in 1 .. Len(loop[p].list)
    BY <1>1 DEF Offer, Loop
  <2>2. loop[p].list[loop[p].pos] \in SUBSET Conn
    BY <1>1, <2>1 DEF Loop
  <2>. QED
    BY <2>2 DEF Offer
<1>4. send' \in [Conn -> 0 .. Capacity]
  BY <1>3, Values DEF Types, TypeOK
<1>5. PICK l \in Loop :
        /\ l = [loop[p] EXCEPT !.pos = @ + 1]
        /\ l.user = loop[p].user /\ l.todo = loop[p].todo
        /\ l.load = loop[p].load /\ l.pos = loop[p].pos + 1
        /\ l.list = loop[p].list /\ l.left = loop[p].left
  <2>1. LET l == [loop[p] EXCEPT !.pos = @ + 1] IN
        /\ l \in Loop /\ l.user = loop[p].user /\ l.todo = loop[p].todo
        /\ l.load = loop[p].load /\ l.pos = loop[p].pos + 1
        /\ l.list = loop[p].list /\ l.left = loop[p].left
    BY <1>1 DEF Loop
  <2>. QED
    BY <2>1, Zenon
<1>6. loop' = [loop EXCEPT ![p] = l]
  BY <1>2, <1>5
<1>. QED
  BY <1>4, <1>5, <1>6 DEF Offer, Types, TypeOK

LEMMA DoneLoop ==
  ASSUME Types, NEW p \in Process, Done(p),
         loop[p].todo # {} => loop[p].load \in Payload
  PROVE  /\ loop' \in [Process -> Loop]
         /\ \A q \in Process \ {p} : loop'[q] = loop[q]
         /\ loop[p].user # Null
         /\ \/ loop'[p] = Idle
            \/ /\ loop[p].todo # {}
               /\ loop'[p].todo = loop[p].todo /\ loop'[p].load = loop[p].load
               /\ loop'[p].user = Null /\ loop'[p].list = <<>>
<1>1. loop[p] \in Loop /\ loop[p].todo \in SUBSET User
  BY DEF Types, TypeOK, Loop
<1>2. CASE loop[p].todo = {}
  BY <1>2, IdleType DEF Done, Types, TypeOK
<1>3. CASE loop[p].todo # {}
  <2>1. PICK l \in Loop :
          /\ l = [Idle EXCEPT !.todo = loop[p].todo, !.load = loop[p].load]
          /\ l.todo = loop[p].todo /\ l.load = loop[p].load
          /\ l.user = Null /\ l.list = <<>>
    <3>1. LET l == [Idle EXCEPT !.todo = loop[p].todo,
                                !.load = loop[p].load] IN
          /\ l \in Loop /\ l.todo = loop[p].todo /\ l.load = loop[p].load
          /\ l.user = Null /\ l.list = <<>>
      <4>1. loop[p].todo \in SUBSET User /\ loop[p].load \in Payload
        BY <1>1, <1>3
      <4>. QED
        BY <4>1, BroadcastType
    <3>. QED
      BY <3>1, Zenon
  <2>2. loop' = [loop EXCEPT ![p] = l]
    BY <1>3, <2>1 DEF Done, Types, TypeOK
  <2>. QED
    BY <1>3, <2>1, <2>2 DEF Done, Types, TypeOK
<1>. QED
  BY <1>2, <1>3

-----------------------------------------------------------------------------
(* The inductive invariant *)

\* Where the pumps of a connection in the hub are
InHub == {"announce", "run", "unwind"}

Registered(u) ==
  /\ \A i \in 1 .. Size(u) :
       Of[clients[u][i]] = u /\ read[clients[u][i]] \in InHub
  /\ \A i, j \in 1 .. Size(u) : clients[u][i] = clients[u][j] => i = j
Present(c) == read[c] \in InHub => c \in Hub(Of[c])

\* The hub holds exactly the connections whose ReadPump has not left yet, each
\* one once; only those that have left have their channel closed.
HubInv ==
  /\ \A u \in User : Registered(u)
  /\ \A c \in Conn : Present(c)
  /\ \A c \in closed : read[c] = "ended"

\* What a broadcast sends, and to whom it still will
Share(p) ==
  LET l == loop[p] IN
  l # Idle =>
    /\ l.load \in Payload
    /\ l.load.chat \in chats /\ l.load.from \in l.load.chat
    /\ l.todo \subseteq l.load.chat
    /\ l.user # Null => l.user \in l.load.chat
    /\ l.load.type = "typing" =>
         l.load.from \notin l.todo /\ l.load.from # l.user

\* Every slot holds connections of the user it was taken for.
Lists(p) ==
  LET l == loop[p] IN
  /\ l.user = Null => l.list = <<>>
  /\ \A i \in 1 .. Len(l.list) : \A c \in l.list[i] : Of[c] = l.user

\* A ReadPump broadcasts nothing while it begins or ends.
Typist(p) == p \in Conn /\ loop[p] # Idle => read[p] = "run"

LoopInv == \A p \in Process : Share(p) /\ Lists(p) /\ Typist(p)

Undisturbed(p) ==
  LET l == loop[p] IN
  l.user # Null /\ ~l.left =>
    /\ Len(l.list) <= Size(l.user)
    /\ \A i \in 1 .. Len(l.list) : l.list[i] = {clients[l.user][i]}

ListInv == \A p \in Process : Undisturbed(p)

Inv == Types /\ HubInv /\ LoopInv /\ ListInv

LEMMA InvInit == Init => Inv
<1>. SUFFICES ASSUME Init PROVE Inv
  OBVIOUS
<1>1. Types
  BY TypesInit
<1>2. HubInv
  BY DEF Init, HubInv, Registered, Present, InHub, Size
<1>3. LoopInv /\ ListInv
  BY IdleType
  DEF Init, LoopInv, ListInv, Share, Lists, Typist, Undisturbed, Payload
<1>. QED
  BY <1>1, <1>2, <1>3 DEF Inv

\* Nobody joins or leaves the hub.
LEMMA HubFrame ==
  ASSUME Types, HubInv, UNCHANGED clients,
         \A c \in Conn : read'[c] \in InHub <=> read[c] \in InHub,
         \A c \in closed' : read'[c] = "ended"
  PROVE  HubInv'
<1>1. \A u \in User : \A i \in 1 .. Size(u) : clients[u][i] \in Conn
  BY DEF Types, Size
<1>. QED
  BY <1>1 DEF HubInv, Registered, Present, Size, Hub

LEMMA HubJoins ==
  ASSUME Types, HubInv, NEW c \in Conn, Register(c)
  PROVE  HubInv'
<1>. DEFINE u == Of[c]
<1>1. /\ u \in User /\ read[c] = "none" /\ Grow(u, c)
      /\ read' = [read EXCEPT ![c] = "announce"] /\ UNCHANGED closed
  BY Values DEF Register
<1>. HIDE DEF u
<1>2. /\ \A v \in User \ {u} : clients'[v] = clients[v]
      /\ Size(u) \in Nat /\ Len(clients'[u]) = Size(u) + 1
      /\ clients'[u][Size(u) + 1] = c
      /\ \A i \in 1 .. Size(u) : clients'[u][i] = clients[u][i]
  BY <1>1, GrowHub
<1>3. \A v \in User : \A i \in 1 .. Size(v) :
        clients[v][i] \in Conn /\ clients[v][i] # c
  <2>1. \A v \in User : \A i \in 1 .. Size(v) : clients[v][i] \in Conn
    BY DEF Types, Size
  <2>2. read[c] \notin InHub
    BY <1>1 DEF InHub
  <2>. QED
    BY <2>1, <2>2 DEF HubInv, Registered
<1>4. /\ read'[c] = "announce" /\ Of[c] = u
      /\ \A d \in Conn \ {c} : read'[d] = read[d]
  BY <1>1 DEF Types, TypeOK, u
<1>5. ASSUME NEW v \in User PROVE Registered(v)'
  <2>1. CASE v # u
    BY <1>2, <1>3, <1>4, <2>1 DEF HubInv, Registered, Size
  <2>2. CASE v = u
    <3>1. ASSUME NEW i \in 1 .. Len(clients'[u])
          PROVE  \/ i = Size(u) + 1 /\ clients'[u][i] = c
                 \/ /\ i \in 1 .. Size(u)
                    /\ clients'[u][i] = clients[u][i]
      BY <1>2
    <3>2. \A i \in 1 .. Len(clients'[u]) :
            Of[clients'[u][i]] = u /\ read'[clients'[u][i]] \in InHub
      BY <1>1, <1>3, <1>4, <3>1 DEF HubInv, Registered, InHub
    <3>3. \A i, j \in 1 .. Len(clients'[u]) :
            clients'[u][i] = clients'[u][j] => i = j
      BY <1>1, <1>3, <3>1 DEF HubInv, Registered
    <3>. QED
      BY <2>2, <3>2, <3>3 DEF Registered, Size
  <2>. QED
    BY <2>1, <2>2
<1>6. ASSUME NEW d \in Conn PROVE Present(d)'
  <2>1. CASE d = c
    BY <1>2, <1>4, <2>1 DEF Present, Hub, Size
  <2>2. CASE d # c /\ read[d] \in InHub
    <3>1. Of[d] \in User
      BY Values
    <3>2. PICK i \in 1 .. Size(Of[d]) : clients[Of[d]][i] = d
      BY <2>2 DEF HubInv, Present, Hub
    <3>3. i \in 1 .. Len(clients'[Of[d]]) /\ clients'[Of[d]][i] = d
      BY <1>2, <3>1, <3>2 DEF Size
    <3>. QED
      BY <3>3 DEF Present, Hub, Size
  <2>3. CASE d # c /\ read[d] \notin InHub
    BY <1>4, <2>3 DEF Present
  <2>. QED
    BY <2>1, <2>2, <2>3
<1>7. \A d \in closed' : read'[d] = "ended"
  BY <1>1, <1>4 DEF HubInv, Types, TypeOK
<1>. QED
  BY <1>5, <1>6, <1>7 DEF HubInv

LEMMA HubLeaves ==
  ASSUME Types, HubInv, NEW c \in Conn, Unregister(c)
  PROVE  HubInv'
<1>. DEFINE u == Of[c]
<1>1. /\ u \in User /\ read[c] \in {"run", "unwind"}
      /\ read' = [read EXCEPT ![c] = "close"] /\ UNCHANGED closed
  BY Values DEF Unregister, ReadEnds
<1>2. PICK i \in 1 .. Size(u) : clients[u][i] = c /\ Shift(u, i)
  BY DEF Unregister
<1>. HIDE DEF u
<1>3. /\ \A v \in User \ {u} : clients'[v] = clients[v]
      /\ Size(u) \in Nat /\ Len(clients'[u]) = Size(u) - 1
      /\ \A k \in 1 .. Size(u) - 1 :
           clients'[u][k] = IF k < i THEN clients[u][k] ELSE clients[u][k + 1]
  BY <1>1, <1>2, ShiftHub
<1>4. /\ read'[c] = "close" /\ Of[c] = u
      /\ \A d \in Conn \ {c} : read'[d] = read[d]
  BY <1>1 DEF Types, TypeOK, u
<1>5. \A v \in User : \A k \in 1 .. Size(v) : clients[v][k] \in Conn
  BY DEF Types, Size
<1>6. Registered(u)
  BY <1>1 DEF HubInv
<1>7. \A k \in 1 .. Size(u) : k # i => clients[u][k] # c
  BY <1>2, <1>6 DEF Registered
<1>8. ASSUME NEW v \in User PROVE Registered(v)'
  <2>1. CASE v # u
    <3>1. Registered(v) /\ Size(v)' = Size(v)
      BY <1>3, <2>1 DEF HubInv, Size
    <3>2. \A k \in 1 .. Size(v) : clients[v][k] # c
      BY <1>4, <2>1, <3>1 DEF Registered
    <3>3. clients'[v] = clients[v]
      BY <1>3, <2>1
    <3>4. \A k \in 1 .. Size(v) : read'[clients[v][k]] = read[clients[v][k]]
      BY <1>4, <1>5, <3>2
    <3>. QED
      BY <3>1, <3>3, <3>4 DEF Registered
  <2>2. CASE v = u
    <3>1. ASSUME NEW k \in 1 .. Len(clients'[u])
          PROVE  \E j \in 1 .. Size(u) :
                   /\ j # i /\ clients'[u][k] = clients[u][j]
                   /\ j = IF k < i THEN k ELSE k + 1
      <4>1. k \in 1 .. Size(u) - 1 /\ k \in 1 .. Size(u) /\ k + 1 \in 1 .. Size(u)
        BY <1>3
      <4>2. CASE k < i
        BY <1>3, <4>1, <4>2
      <4>3. CASE ~(k < i)
        BY <1>3, <4>1, <4>3
      <4>. QED
        BY <4>2, <4>3
    <3>2. \A k \in 1 .. Len(clients'[u]) :
            Of[clients'[u][k]] = u /\ read'[clients'[u][k]] \in InHub
      BY <1>1, <1>4, <1>5, <1>6, <1>7, <3>1 DEF Registered
    <3>3. ASSUME NEW k \in 1 .. Len(clients'[u]), NEW m \in 1 .. Len(clients'[u]),
                 clients'[u][k] = clients'[u][m]
          PROVE  k = m
      <4>1. PICK j \in 1 .. Size(u) :
              clients'[u][k] = clients[u][j] /\ j = IF k < i THEN k ELSE k + 1
        BY <3>1
      <4>2. PICK l \in 1 .. Size(u) :
              clients'[u][m] = clients[u][l] /\ l = IF m < i THEN m ELSE m + 1
        BY <3>1
      <4>3. j = l
        BY <1>6, <3>3, <4>1, <4>2 DEF Registered
      <4>. QED
        BY <1>3, <4>1, <4>2, <4>3
    <3>. QED
      BY <2>2, <3>2, <3>3 DEF Registered, Size
  <2>. QED
    BY <2>1, <2>2
<1>9. ASSUME NEW d \in Conn, read'[d] \in InHub PROVE d \in Hub(Of[d])'
  <2>1. d # c /\ read[d] \in InHub /\ Of[d] \in User
    BY <1>4, <1>9, Values DEF InHub
  <2>2. PICK k \in 1 .. Size(Of[d]) : clients[Of[d]][k] = d
    BY <2>1 DEF HubInv, Present, Hub
  <2>3. CASE Of[d] # u
    BY <1>3, <2>1, <2>2, <2>3 DEF Hub, Size
  <2>4. CASE Of[d] = u
    <3>1. k # i /\ k \in 1 .. Size(u) /\ i \in 1 .. Size(u)
      BY <1>2, <2>1, <2>2, <2>4
    <3>2. CASE k < i
      <4>1. k \in 1 .. Size(u) - 1 /\ clients'[u][k] = d
        BY <1>3, <2>2, <2>4, <3>1, <3>2
      <4>. QED
        BY <1>3, <2>4, <4>1 DEF Hub, Size
    <3>3. CASE k > i
      <4>1. /\ k - 1 \in 1 .. Size(u) - 1 /\ ~(k - 1 < i)
            /\ k - 1 + 1 = k
        BY <1>3, <3>1, <3>3
      <4>2. clients'[u][k - 1] = d
        BY <1>3, <2>2, <2>4, <4>1
      <4>. QED
        BY <1>3, <2>4, <4>1, <4>2 DEF Hub, Size
    <3>. QED
      BY <1>3, <3>1, <3>2, <3>3
  <2>. QED
    BY <2>3, <2>4
<1>10. \A d \in closed' : read'[d] = "ended"
  BY <1>1, <1>4 DEF HubInv, Types, TypeOK
<1>. QED
  BY <1>8, <1>9, <1>10 DEF HubInv, Present

LEMMA HubRestarts ==
  ASSUME Types, HubInv, Restart
  PROVE  HubInv'
BY DEF Restart, Types, TypeOK, HubInv, Registered, Present, InHub, Size, Hub

-----------------------------------------------------------------------------
(* The broadcasts *)

\* Where no loop moves, and no ReadPump that broadcasts.
LEMMA LoopFrame ==
  ASSUME LoopInv, UNCHANGED loop, chats \subseteq chats',
         \A c \in Conn : c \in Process /\ loop[c] # Idle => read'[c] = read[c]
  PROVE  LoopInv'
BY DEF LoopInv, Share, Lists, Typist, Process

\* Where only the loop of p moves.
LEMMA LoopOfOne ==
  ASSUME LoopInv, NEW p \in Process, UNCHANGED chats,
         \A q \in Process \ {p} : loop'[q] = loop[q],
         \A c \in Conn \ {p} : read'[c] = read[c],
         Share(p)', Lists(p)', Typist(p)'
  PROVE  LoopInv'
BY DEF LoopInv, Share, Lists, Typist, Process

\* Where the hub changes: the slots of its lists get connections of the same
\* user.
LEMMA LoopsCarried ==
  ASSUME Types, LoopInv, UNCHANGED chats,
         \A c \in Conn : loop[c] # Idle => read'[c] = read[c],
         \A p \in Process : Carried(p),
         \A p \in Process : \A i \in 1 .. Len(loop[p].list) :
           \A c \in loop'[p].list[i] :
             c \in loop[p].list[i] \/ Of[c] = loop[p].user
  PROVE  LoopInv'
<1>1. ASSUME NEW p \in Process PROVE Share(p)' /\ Lists(p)' /\ Typist(p)'
  <2>1. Share(p) /\ Lists(p) /\ Typist(p) /\ Carried(p)
    BY DEF LoopInv
  <2>2. Share(p)'
    BY <2>1 DEF Share, Carried
  <2>3. Lists(p)'
    BY <2>1 DEF Lists, Carried
  <2>4. Typist(p)'
    BY <2>1 DEF Typist, Carried
  <2>. QED
    BY <2>2, <2>3, <2>4
<1>. QED
  BY <1>1 DEF LoopInv

\* A step that leaves hub and lists alone: only the types and where the
\* ReadPumps are matter.
LEMMA QuietInv ==
  ASSUME Inv, Types', Quiet, chats \subseteq chats',
         \A c \in Conn : read'[c] \in InHub <=> read[c] \in InHub,
         \A c \in closed' : read'[c] = "ended",
         \A c \in Conn : loop[c] # Idle => read'[c] = read[c]
  PROVE  Inv'
<1>1. HubInv'
  BY HubFrame DEF Inv, Quiet
<1>2. LoopInv'
  BY LoopFrame DEF Inv, Quiet
<1>3. ListInv'
  BY DEF Inv, Quiet, ListInv, Undisturbed, Size
<1>. QED
  BY <1>1, <1>2, <1>3 DEF Inv

\* A step of the broadcast of p.
LEMMA LoopInvOfOne ==
  ASSUME Inv, NEW p \in Process, loop' \in [Process -> Loop],
         UNCHANGED <<chats, clients, cap, write, up, closed, online, away,
                     faults>>,
         read' \in [Conn -> {"none", "announce", "run", "unwind", "close",
                             "ended"}],
         send' \in [Conn -> 0 .. Capacity],
         \A q \in Process \ {p} : loop'[q] = loop[q],
         \A c \in Conn : read'[c] \in InHub <=> read[c] \in InHub,
         \A c \in Conn \ {p} : read'[c] = read[c],
         \A c \in closed : read'[c] = read[c],
         Share(p)', Lists(p)', Typist(p)', Undisturbed(p)'
  PROVE  Inv'
<1>1. Types'
  BY LoopTypes DEF Inv
<1>2. HubInv'
  <2>1. \A c \in closed' : read'[c] = "ended"
    BY DEF Inv, HubInv, Types, TypeOK
  <2>. QED
    BY <2>1, HubFrame DEF Inv
<1>3. LoopInv'
  BY LoopOfOne DEF Inv
<1>4. ListInv'
  BY DEF Inv, ListInv, Undisturbed, Size
<1>. QED
  BY <1>1, <1>2, <1>3, <1>4 DEF Inv

\* Where everything a connection does but joining and leaving the hub
LEMMA ConnInv ==
  ASSUME Inv, NEW c \in Conn,
         \/ SetOnline(c) \/ CloseSend(c) \/ Write(c) \/ WriteEnds(c)
         \/ Lose(c)
  PROVE  Inv'
<1>. USE Values DEF Quiet
<1>0. Types /\ TypeOK
  BY DEF Inv, Types
<1>t. ASSUME NEW d \in Conn, read[d] # "run"
      PROVE  loop[d] = Idle
  BY <1>t DEF Inv, LoopInv, Typist, Process
<1>e. \A d \in closed : d \in Conn /\ read[d] = "ended"
  BY DEF Inv, HubInv, Types, TypeOK
<1>1. CASE SetOnline(c)
  <2>1. read[c] = "announce" /\ read' = [read EXCEPT ![c] = "run"]
    BY <1>1 DEF SetOnline
  <2>2. /\ online' \in [User -> BOOLEAN] /\ away' \subseteq User
        /\ faults' \in 0 .. MaxFaults
    <3>1. \/ /\ online' = [online EXCEPT ![Of[c]] = TRUE]
             /\ away' = away \ {Of[c]} /\ faults' = faults
          \/ /\ faults < MaxFaults /\ faults' = faults + 1
             /\ away' = away \cup {Of[c]} /\ online' = online
      BY <1>1 DEF SetOnline
    <3>2. /\ Of[c] \in User /\ online \in [User -> BOOLEAN]
          /\ away \subseteq User /\ faults \in 0 .. MaxFaults
      BY <1>0 DEF TypeOK
    <3>3. online' \in [User -> BOOLEAN]
      BY <3>1, <3>2
    <3>4. away' \subseteq User
      BY <3>1, <3>2
    <3>5. faults' \in 0 .. MaxFaults
      BY <3>1, <3>2
    <3>. QED
      BY <3>3, <3>4, <3>5
  <2>3. Quiet /\ UNCHANGED <<chats, up, send, closed>>
    BY <1>1 DEF SetOnline
  <2>4. write' = [write EXCEPT ![c] = "run"]
    BY <1>1 DEF SetOnline
  <2>5. Types'
    BY <1>0, <2>1, <2>2, <2>3, <2>4, QuietTypes DEF TypeOK
  <2>6. /\ \A d \in Conn : read'[d] \in InHub <=> read[d] \in InHub
        /\ \A d \in closed' : read'[d] = "ended"
        /\ \A d \in Conn : loop[d] # Idle => read'[d] = read[d]
    BY <1>0, <1>t, <1>e, <2>1, <2>3 DEF TypeOK, InHub
  <2>. QED
    BY <2>3, <2>5, <2>6, QuietInv
<1>2. CASE CloseSend(c)
  <2>1. /\ read[c] = "close" /\ read' = [read EXCEPT ![c] = "ended"]
        /\ closed' = closed \cup {c} /\ up' = up \ {c}
    BY <1>2 DEF CloseSend
  <2>2. Quiet /\ UNCHANGED <<chats, write, send, online, away, faults>>
    BY <1>2 DEF CloseSend
  <2>3. Types'
    BY <1>0, <2>1, <2>2, QuietTypes DEF TypeOK
  <2>4. /\ \A d \in Conn : read'[d] \in InHub <=> read[d] \in InHub
        /\ \A d \in closed' : read'[d] = "ended"
        /\ \A d \in Conn : loop[d] # Idle => read'[d] = read[d]
    BY <1>0, <1>t, <1>e, <2>1, <2>2 DEF TypeOK, InHub
  <2>. QED
    BY <2>2, <2>3, <2>4, QuietInv
<1>3. CASE Write(c) \/ WriteEnds(c) \/ Lose(c)
  <2>1. Quiet /\ UNCHANGED <<chats, read, closed, online, away, faults>>
    BY <1>3 DEF Write, WriteEnds, Lose
  <2>2. send' \in [Conn -> 0 .. Capacity]
    BY <1>0, <1>3 DEF Write, WriteEnds, Lose, TypeOK
  <2>3. /\ write' \in [Conn -> {"none", "run", "ended"}]
        /\ up' \subseteq Conn
    BY <1>0, <1>3 DEF Write, WriteEnds, Lose, TypeOK
  <2>4. Types'
    BY <1>0, <2>1, <2>2, <2>3, QuietTypes DEF TypeOK
  <2>. QED
    BY <1>e, <2>1, <2>4, QuietInv
<1>. QED
  BY <1>1, <1>2, <1>3

\* What becomes of the presence of users and of conversations
LEMMA OutsideInv ==
  ASSUME Inv,
         \/ \E u \in User : ExpirePresence(u)
         \/ \E u, v \in User : GetOrCreateConversation(u, v)
  PROVE  Inv'
<1>0. Types /\ TypeOK
  BY DEF Inv, Types
<1>1. Quiet /\ UNCHANGED <<cap, read, write, up, send, closed, faults>>
  BY DEF ExpirePresence, GetOrCreateConversation, Quiet, conns
<1>2. chats \subseteq chats' /\ chats' \subseteq Conversation
  <2>1. CASE UNCHANGED chats
    BY <1>0, <2>1 DEF TypeOK
  <2>2. ASSUME NEW u \in User, NEW v \in User, u # v,
               chats' = chats \cup {{u, v}}
        PROVE  chats \subseteq chats' /\ chats' \subseteq Conversation
    <3>1. {u, v} \in Conversation
      BY <2>2 DEF Conversation
    <3>. QED
      BY <1>0, <2>2, <3>1 DEF TypeOK
  <2>. QED
    BY <2>1, <2>2 DEF ExpirePresence, GetOrCreateConversation
<1>3. online' \in [User -> BOOLEAN] /\ away' \subseteq User
  BY <1>0 DEF ExpirePresence, GetOrCreateConversation, TypeOK
<1>4. Types'
  BY <1>0, <1>1, <1>2, <1>3, QuietTypes DEF TypeOK
<1>5. \A d \in closed' : read'[d] = "ended"
  BY <1>1 DEF Inv, HubInv
<1>. QED
  BY <1>1, <1>2, <1>4, <1>5, QuietInv

LEMMA RegisterInv ==
  ASSUME Inv, NEW c \in Conn, Register(c)
  PROVE  Inv'
<1>. DEFINE u == Of[c]
<1>0. Types /\ TypeOK /\ HubInv /\ LoopInv /\ ListInv
  BY DEF Inv, Types
<1>1. u \in User /\ Grow(u, c) /\ read[c] = "none"
  BY Values DEF Register
<1>2. /\ read' = [read EXCEPT ![c] = "announce"] /\ up' = up \cup {c}
      /\ UNCHANGED <<chats, write, send, closed, online, away, faults>>
  BY DEF Register
<1>c. Of[c] = u
  OBVIOUS
<1>. HIDE DEF u
<1>3. /\ clients' \in [User -> Seq(Conn)]
      /\ \A v \in User \ {u} : clients'[v] = clients[v]
      /\ Size(u) \in Nat /\ Len(clients'[u]) = Size(u) + 1
      /\ \A i \in 1 .. Size(u) : clients'[u][i] = clients[u][i]
  BY <1>0, <1>1, GrowHub
<1>4. /\ loop' \in [Process -> Loop]
      /\ cap' \in [User -> Nat] /\ cap'[u] >= Size(u) + 1
      /\ \A v \in User \ {u} : cap'[v] = cap[v]
      /\ \A p \in Process :
           /\ Carried(p) /\ loop'[p].left = loop[p].left
           /\ \A i \in 1 .. Len(loop[p].list) :
                \/ loop'[p].list[i] = loop[p].list[i]
                \/ /\ loop[p].user = u /\ i = Size(u) + 1
                   /\ loop'[p].list[i] = loop[p].list[i] \cup {c}
  BY <1>0, <1>1, GrowLoop
<1>5. Types'
  <2>1. \A v \in User : clients'[v] \in Seq(Conn) /\ cap'[v] >= Len(clients'[v])
    BY <1>0, <1>3, <1>4 DEF Types, TypeOK, Size
  <2>2. /\ read' \in [Conn -> {"none", "announce", "run", "unwind", "close",
                               "ended"}]
        /\ up' \subseteq Conn
    BY <1>0, <1>2 DEF TypeOK
  <2>. QED
    BY <1>0, <1>2, <1>3, <1>4, <2>1, <2>2 DEF Types, TypeOK, Size
<1>6. HubInv'
  BY <1>0, HubJoins
<1>7. LoopInv'
  <2>1. loop[c] = Idle
    BY <1>0, <1>1 DEF LoopInv, Typist, Process
  <2>2. \A d \in Conn : loop[d] # Idle => read'[d] = read[d]
    BY <1>0, <1>2, <2>1 DEF TypeOK
  <2>3. \A p \in Process : \A i \in 1 .. Len(loop[p].list) :
          \A d \in loop'[p].list[i] :
            d \in loop[p].list[i] \/ Of[d] = loop[p].user
    BY <1>4, <1>c
  <2>. QED
    BY <1>0, <1>2, <1>4, <2>2, <2>3, LoopsCarried
<1>8. ASSUME NEW p \in Process, loop'[p].user # Null, ~loop'[p].left
      PROVE  /\ Len(loop'[p].list) <= Len(clients'[loop'[p].user])
             /\ \A i \in 1 .. Len(loop'[p].list) :
                  loop'[p].list[i] = {clients'[loop'[p].user][i]}
  <2>1. /\ loop'[p].user = loop[p].user /\ loop'[p].left = loop[p].left
        /\ Len(loop'[p].list) = Len(loop[p].list)
    BY <1>4 DEF Carried
  <2>2. loop[p].user \in User
    BY <1>0, <1>8, <2>1 DEF TypeOK, Loop
  <2>3. /\ Len(loop[p].list) <= Size(loop[p].user)
        /\ \A i \in 1 .. Len(loop[p].list) :
             loop[p].list[i] = {clients[loop[p].user][i]}
    BY <1>0, <1>8, <2>1 DEF ListInv, Undisturbed
  <2>4. Len(loop[p].list) \in Nat
    BY <1>0 DEF TypeOK, Loop
  <2>5. CASE loop[p].user = u
    <3>1. \A i \in 1 .. Len(loop[p].list) :
            /\ loop'[p].list[i] = loop[p].list[i]
            /\ clients'[u][i] = clients[u][i]
      BY <1>3, <1>4, <2>3, <2>4, <2>5
    <3>2. Len(loop[p].list) <= Len(clients'[u])
      BY <1>3, <2>3, <2>4, <2>5
    <3>3. loop'[p].user = u /\ Len(loop'[p].list) = Len(loop[p].list)
      BY <2>1, <2>5
    <3>4. \A i \in 1 .. Len(loop[p].list) : loop'[p].list[i] = {clients'[u][i]}
      BY <2>3, <2>5, <3>1
    <3>. QED
      BY <3>2, <3>3, <3>4
  <2>6. CASE loop[p].user # u
    <3>1. \A i \in 1 .. Len(loop[p].list) : loop'[p].list[i] = loop[p].list[i]
      BY <1>4, <2>6
    <3>. QED
      BY <1>3, <2>1, <2>2, <2>3, <2>6, <3>1 DEF Size
  <2>. QED
    BY <2>5, <2>6
<1>9. ListInv'
  <2>1. ASSUME NEW p \in Process PROVE Undisturbed(p)'
    BY <1>8 DEF Undisturbed, Size
  <2>. QED
    BY <2>1 DEF ListInv
<1>. QED
  BY <1>5, <1>6, <1>7, <1>9 DEF Inv

LEMMA OfflineType ==
  ASSUME TypeOK, NEW u \in User, SetOffline(u)
  PROVE  /\ online' \in [User -> BOOLEAN] /\ away' \subseteq User
         /\ faults' \in 0 .. MaxFaults
<1>1. \/ UNCHANGED <<online, away, faults>>
      \/ /\ online' = [online EXCEPT ![u] = FALSE]
         /\ away' = away \ {u} /\ faults' = faults
      \/ /\ faults < MaxFaults /\ faults' = faults + 1
         /\ away' = away \cup {u} /\ online' = online
  BY DEF SetOffline
<1>2. /\ online \in [User -> BOOLEAN] /\ away \subseteq User
      /\ faults \in 0 .. MaxFaults /\ MaxFaults \in Nat
  BY Values DEF TypeOK
<1>3. online' \in [User -> BOOLEAN]
  BY <1>1, <1>2
<1>4. away' \subseteq User
  BY <1>1, <1>2
<1>5. faults' \in 0 .. MaxFaults
  BY <1>1, <1>2
<1>. QED
  BY <1>3, <1>4, <1>5

LEMMA UnregisterInv ==
  ASSUME Inv, NEW c \in Conn, Unregister(c)
  PROVE  Inv'
<1>. DEFINE u == Of[c]
<1>0. Types /\ TypeOK /\ HubInv /\ LoopInv /\ ListInv
  BY DEF Inv, Types
<1>1. /\ u \in User
      /\ (read[c] = "run" /\ loop[c] = Idle) \/ read[c] = "unwind"
  BY Values DEF Unregister, ReadEnds, Busy
<1>2. PICK j \in 1 .. Size(u) : clients[u][j] = c /\ Shift(u, j)
  BY DEF Unregister
<1>3. /\ read' = [read EXCEPT ![c] = "close"]
      /\ UNCHANGED <<chats, write, up, send, closed>>
  BY DEF Unregister
<1>4. /\ online' \in [User -> BOOLEAN] /\ away' \subseteq User
      /\ faults' \in 0 .. MaxFaults
  BY <1>0, <1>1, OfflineType DEF Unregister
<1>. HIDE DEF u
<1>5. /\ clients' \in [User -> Seq(Conn)]
      /\ \A v \in User \ {u} : clients'[v] = clients[v]
      /\ Size(u) \in Nat /\ Len(clients'[u]) = Size(u) - 1
  BY <1>0, <1>1, <1>2, ShiftHub
<1>6. /\ loop' \in [Process -> Loop]
      /\ cap' \in [User -> Nat] /\ cap'[u] >= Size(u) - 1
      /\ \A v \in User \ {u} : cap'[v] = cap[v]
      /\ \A p \in Process :
           /\ Carried(p)
           /\ loop[p].user # u => loop'[p] = loop[p]
           /\ loop[p].user = u => loop'[p].left
           /\ \A k \in 1 .. Len(loop[p].list) :
                \/ loop'[p].list[k] = loop[p].list[k]
                \/ /\ loop[p].user = u /\ k + 1 \in 1 .. Size(u)
                   /\ loop'[p].list[k] =
                        loop[p].list[k] \cup {clients[u][k + 1]}
  BY <1>0, <1>1, <1>2, ShiftLoop
<1>7. Types'
  <2>1. \A v \in User : clients'[v] \in Seq(Conn) /\ cap'[v] >= Len(clients'[v])
    <3>1. ASSUME NEW v \in User PROVE cap'[v] >= Len(clients'[v])
      <4>1. CASE v = u
        BY <1>5, <1>6, <4>1
      <4>2. CASE v # u
        BY <1>0, <1>5, <1>6, <4>2 DEF TypeOK, Size
      <4>. QED
        BY <4>1, <4>2
    <3>. QED
      BY <1>5, <3>1
  <2>2. read' \in [Conn -> {"none", "announce", "run", "unwind", "close",
                            "ended"}]
    BY <1>0, <1>3 DEF TypeOK
  <2>. QED
    BY <1>0, <1>3, <1>4, <1>5, <1>6, <2>1, <2>2 DEF Types, TypeOK, Size
<1>8. HubInv'
  BY <1>0, HubLeaves
<1>9. LoopInv'
  <2>1. loop[c] = Idle
    BY <1>0, <1>1 DEF LoopInv, Typist, Process
  <2>2. \A d \in Conn : loop[d] # Idle => read'[d] = read[d]
    BY <1>0, <1>3, <2>1 DEF TypeOK
  <2>3. \A k \in 1 .. Size(u) : Of[clients[u][k]] = u
    BY <1>0, <1>1 DEF HubInv, Registered
  <2>4. \A p \in Process : \A i \in 1 .. Len(loop[p].list) :
          \A d \in loop'[p].list[i] :
            d \in loop[p].list[i] \/ Of[d] = loop[p].user
    BY <1>6, <2>3
  <2>. QED
    BY <1>0, <1>3, <1>6, <2>2, <2>4, LoopsCarried
<1>10. ListInv'
  <2>1. ASSUME NEW p \in Process, loop'[p].user # Null, ~loop'[p].left
        PROVE  /\ Len(loop'[p].list) <= Len(clients'[loop'[p].user])
               /\ \A i \in 1 .. Len(loop'[p].list) :
                    loop'[p].list[i] = {clients'[loop'[p].user][i]}
    <3>1. loop[p].user # u /\ loop'[p] = loop[p]
      BY <1>6, <2>1
    <3>2. loop[p].user \in User
      BY <1>0, <2>1, <3>1 DEF TypeOK, Loop
    <3>3. /\ Len(loop[p].list) <= Len(clients[loop[p].user])
          /\ \A i \in 1 .. Len(loop[p].list) :
               loop[p].list[i] = {clients[loop[p].user][i]}
      BY <1>0, <2>1, <3>1 DEF ListInv, Undisturbed, Size
    <3>. QED
      BY <1>5, <3>1, <3>2, <3>3
  <2>2. ASSUME NEW p \in Process PROVE Undisturbed(p)'
    BY <2>1 DEF Undisturbed, Size
  <2>. QED
    BY <2>2 DEF ListInv
<1>. QED
  BY <1>7, <1>8, <1>9, <1>10 DEF Inv

LEMMA RestartInv ==
  ASSUME Inv, Restart
  PROVE  Inv'
<1>0. Types /\ TypeOK /\ HubInv
  BY DEF Inv, Types
<1>1. /\ clients' = [u \in User |-> <<>>] /\ cap' = [u \in User |-> 0]
      /\ read' = [c \in Conn |-> IF read[c] = "none" THEN "none" ELSE "ended"]
      /\ write' = [c \in Conn |->
                     IF read[c] = "none" THEN "none" ELSE "ended"]
      /\ up' = {} /\ closed' = {c \in Conn : read[c] # "none"}
      /\ send' = [c \in Conn |-> 0]
      /\ loop' = [p \in Process |-> Idle]
      /\ away' = away \cup {u \in User : online[u]}
      /\ faults < MaxFaults /\ faults' = faults + 1
      /\ UNCHANGED <<chats, online>>
  BY DEF Restart
<1>2. Types'
  <2>1. /\ clients' \in [User -> Seq(Conn)] /\ cap' \in [User -> Nat]
        /\ \A u \in User : clients'[u] \in Seq(Conn) /\ cap'[u] >= Len(clients'[u])
    BY <1>1
  <2>2. /\ read' \in [Conn -> {"none", "announce", "run", "unwind", "close",
                               "ended"}]
        /\ write' \in [Conn -> {"none", "run", "ended"}]
        /\ up' \subseteq Conn /\ closed' \subseteq Conn
        /\ send' \in [Conn -> 0 .. Capacity]
    BY <1>1, Values
  <2>3. loop' \in [Process -> Loop]
    BY <1>1, IdleType
  <2>4. away' \subseteq User /\ faults' \in 0 .. MaxFaults
    BY <1>0, <1>1, Values DEF TypeOK
  <2>. QED
    BY <1>0, <1>1, <2>1, <2>2, <2>3, <2>4 DEF Types, TypeOK, Size
<1>3. HubInv'
  BY <1>0, HubRestarts
<1>4. LoopInv' /\ ListInv'
  <2>1. \A p \in Process : loop'[p] = Idle
    BY <1>1
  <2>. QED
    BY <2>1, IdleType
    DEF LoopInv, ListInv, Share, Lists, Typist, Undisturbed
<1>. QED
  BY <1>2, <1>3, <1>4 DEF Inv

LEMMA BeginInv ==
  ASSUME Inv,
         \/ \E c \in Conn, k \in chats : Typing(c, k)
         \/ \E r \in Request, u \in User, k \in chats : SendMessage(r, u, k)
  PROVE  Inv'
<1>0. Types /\ TypeOK
  BY DEF Inv, Types
<1>1. ASSUME NEW p \in Process, NEW k \in chats, NEW to \in SUBSET k,
             NEW load \in Payload, Broadcast(p, to, load),
             UNCHANGED <<chats, conns, online, away, faults>>,
             load.chat = k, load.from \in k,
             load.type = "typing" => load.from \notin to,
             p \in Conn => read[p] = "run"
      PROVE  Inv'
  <2>1. to \in SUBSET User
    <3>1. k \in Conversation
      BY <1>0 DEF TypeOK
    <3>. QED
      BY <3>1 DEF Conversation
  <2>2. /\ loop' \in [Process -> Loop] /\ loop[p] = Idle
        /\ \A q \in Process \ {p} : loop'[q] = loop[q]
        /\ loop'[p].todo = to /\ loop'[p].load = load
        /\ loop'[p].user = Null /\ loop'[p].list = <<>>
    BY <1>0, <1>1, <2>1, BroadcastBegins
  <2>3. load.from # Null
    BY Values DEF Payload
  <2>4. Share(p)' /\ Lists(p)' /\ Typist(p)' /\ Undisturbed(p)'
    BY <1>1, <2>2, <2>3 DEF Share, Lists, Typist, Undisturbed, conns
  <2>. QED
    BY <1>0, <1>1, <2>2, <2>4, LoopInvOfOne DEF TypeOK, conns
<1>2. ASSUME NEW c \in Conn, NEW k \in chats, Typing(c, k)
      PROVE  Inv'
  <2>. DEFINE load == [type |-> "typing", chat |-> k, from |-> Of[c]]
  <2>1. /\ load \in Payload /\ load.chat = k /\ load.from = Of[c]
        /\ Of[c] \in k
    <3>1. Of[c] \in User /\ Of[c] \in k
      BY <1>2, Values DEF Typing, GetConversation
    <3>2. load \in Payload
      BY <1>0, <3>1, PayloadType
    <3>. QED
      BY <3>1, <3>2
  <2>2. /\ Broadcast(c, k \ {Of[c]}, load) /\ read[c] = "run"
        /\ UNCHANGED <<chats, conns, online, away, faults>>
    BY <1>2 DEF Typing
  <2>. HIDE DEF load
  <2>. QED
    BY <1>1, <2>1, <2>2 DEF Process
<1>3. ASSUME NEW r \in Request, NEW u \in User, NEW k \in chats,
             SendMessage(r, u, k)
      PROVE  Inv'
  <2>. DEFINE load == [type |-> "message", chat |-> k, from |-> u]
  <2>1. /\ load \in Payload /\ load.chat = k /\ load.from = u
        /\ u \in k /\ load.type # "typing"
    BY <1>0, <1>3, PayloadType DEF SendMessage, GetConversation
  <2>2. /\ Broadcast(r, k, load) /\ r \notin Conn
        /\ UNCHANGED <<chats, conns, online, away, faults>>
    BY <1>3, Values DEF SendMessage
  <2>. HIDE DEF load
  <2>. QED
    BY <1>1, <2>1, <2>2 DEF Process
<1>. QED
  BY <1>2, <1>3

LEMMA SendInv ==
  ASSUME Inv, NEW p \in Process,
         \/ Offer(p) \/ Panic(p) \/ Done(p) \/ \E u \in User : TakeList(p, u)
  PROVE  Inv'
<1>0. Types /\ TypeOK
  BY DEF Inv, Types
<1>i. Share(p) /\ Lists(p) /\ Typist(p) /\ Undisturbed(p)
  BY DEF Inv, LoopInv, ListInv
<1>1. ASSUME Offer(p) PROVE Inv'
  <2>1. /\ loop' \in [Process -> Loop]
        /\ \A q \in Process \ {p} : loop'[q] = loop[q]
        /\ loop[p].user # Null
        /\ loop'[p].user = loop[p].user /\ loop'[p].todo = loop[p].todo
        /\ loop'[p].load = loop[p].load
        /\ loop'[p].list = loop[p].list /\ loop'[p].left = loop[p].left
        /\ send' \in [Conn -> 0 .. Capacity]
    BY <1>0, <1>1, OfferLoop
  <2>2. UNCHANGED <<chats, clients, cap, read, write, up, closed, online, away,
                    faults>>
    BY <1>1 DEF Offer
  <2>3. loop[p] # Idle
    BY <2>1, IdleType
  <2>4. Share(p)' /\ Lists(p)' /\ Typist(p)' /\ Undisturbed(p)'
    BY <1>i, <2>1, <2>2, <2>3 DEF Share, Lists, Typist, Undisturbed, Size
  <2>5. read' \in [Conn -> {"none", "announce", "run", "unwind", "close",
                            "ended"}]
    BY <1>0, <2>2 DEF TypeOK
  <2>. QED
    BY <2>1, <2>2, <2>4, <2>5, LoopInvOfOne
<1>2. ASSUME Panic(p) PROVE Inv'
  <2>1. /\ loop[p].user # Null
        /\ loop' = [loop EXCEPT ![p] = Idle]
        /\ read' = IF p \in Conn THEN [read EXCEPT ![p] = "unwind"] ELSE read
        /\ UNCHANGED <<chats, clients, cap, write, up, send, closed, online,
                       away, faults>>
    BY <1>2 DEF Panic
  <2>2. p \in Conn => read[p] = "run"
    BY <1>i, <2>1, IdleType DEF Typist
  <2>3. /\ loop' \in [Process -> Loop] /\ loop'[p] = Idle
        /\ \A q \in Process \ {p} : loop'[q] = loop[q]
    BY <1>0, <2>1, IdleType DEF TypeOK
  <2>4. /\ read' \in [Conn -> {"none", "announce", "run", "unwind", "close",
                               "ended"}]
        /\ \A c \in Conn : read'[c] \in InHub <=> read[c] \in InHub
        /\ \A c \in Conn \ {p} : read'[c] = read[c]
    BY <1>0, <2>1, <2>2 DEF TypeOK, InHub
  <2>5. \A c \in closed : read'[c] = read[c]
    <3>1. \A c \in closed : c \in Conn /\ read[c] = "ended"
      BY DEF Inv, HubInv, Types, TypeOK
    <3>. QED
      BY <2>2, <2>4, <3>1
  <2>6. Share(p)' /\ Lists(p)' /\ Typist(p)' /\ Undisturbed(p)'
    BY <2>3, IdleType DEF Share, Lists, Typist, Undisturbed
  <2>7. send' \in [Conn -> 0 .. Capacity]
    BY <1>0, <2>1 DEF TypeOK
  <2>. QED
    BY <2>1, <2>3, <2>4, <2>5, <2>6, <2>7, LoopInvOfOne
<1>3. ASSUME Done(p) PROVE Inv'
  <2>1. loop[p].user # Null /\ loop[p] # Idle
    BY <1>3, IdleType DEF Done
  <2>2. loop[p].load \in Payload
    BY <1>i, <2>1 DEF Share
  <2>3. /\ loop' \in [Process -> Loop]
        /\ \A q \in Process \ {p} : loop'[q] = loop[q]
        /\ \/ loop'[p] = Idle
           \/ /\ loop'[p].todo = loop[p].todo /\ loop'[p].load = loop[p].load
              /\ loop'[p].user = Null /\ loop'[p].list = <<>>
    BY <1>0, <1>3, <2>2, DoneLoop
  <2>4. UNCHANGED <<chats, conns, online, away, faults>>
    BY <1>3 DEF Done
  <2>5. loop[p].load.from # Null
    BY <2>2, Values DEF Payload
  <2>6. Share(p)' /\ Lists(p)' /\ Typist(p)' /\ Undisturbed(p)'
    <3>1. CASE loop'[p] = Idle
      BY <3>1, IdleType DEF Share, Lists, Typist, Undisturbed
    <3>2. CASE loop'[p] # Idle
      BY <1>i, <2>1, <2>3, <2>4, <2>5, <3>2
      DEF Share, Lists, Typist, Undisturbed, conns
    <3>. QED
      BY <3>1, <3>2
  <2>. QED
    BY <1>0, <2>3, <2>4, <2>6, LoopInvOfOne DEF TypeOK, conns
<1>4. ASSUME NEW u \in User, TakeList(p, u) PROVE Inv'
  <2>1. /\ loop' \in [Process -> Loop]
        /\ \A q \in Process \ {p} : loop'[q] = loop[q]
        /\ u \in loop[p].todo /\ loop[p].user = Null
        /\ loop'[p].user = u /\ loop'[p].todo = loop[p].todo \ {u}
        /\ loop'[p].load = loop[p].load
        /\ Len(loop'[p].list) = Size(u)
        /\ \A i \in 1 .. Size(u) : loop'[p].list[i] = {clients[u][i]}
    BY <1>0, <1>4, TakeLoop
  <2>2. UNCHANGED <<chats, conns, online, away, faults>>
    BY <1>4 DEF TakeList
  <2>3. loop[p] # Idle
    BY <2>1, IdleType
  <2>4. /\ \A i \in 1 .. Size(u) : Of[clients[u][i]] = u
        /\ Size(u) \in Nat
    BY <1>0 DEF Inv, HubInv, Registered, Types, Size
  <2>5. Share(p)'
    BY <1>i, <2>1, <2>2, <2>3 DEF Share
  <2>6. Lists(p)'
    BY <2>1, <2>4, Values DEF Lists
  <2>7. Typist(p)'
    BY <1>i, <2>2, <2>3 DEF Typist, conns
  <2>8. Undisturbed(p)'
    BY <2>1, <2>2, <2>4 DEF Undisturbed, Size, conns
  <2>. QED
    BY <1>0, <2>1, <2>2, <2>5, <2>6, <2>7, <2>8, LoopInvOfOne
    DEF TypeOK, conns
<1>. QED
  BY <1>1, <1>2, <1>3, <1>4

LEMMA InvNext ==
  ASSUME Inv, [Next]_vars
  PROVE  Inv'
<1>1. CASE UNCHANGED vars
  <2>1. UNCHANGED <<chats, clients, cap, read, write, up, send, closed, loop,
                    online, away, faults>>
    BY <1>1 DEF vars, conns
  <2>2. Types'
    BY <2>1 DEF Inv, Types, TypeOK, Size
  <2>3. \A c \in closed' : read'[c] = "ended"
    BY <2>1 DEF Inv, HubInv
  <2>. QED
    BY <2>1, <2>2, <2>3, QuietInv DEF Quiet
<1>. QED
  BY <1>1, NextCases, ConnInv, OutsideInv, RegisterInv, UnregisterInv,
     RestartInv, BeginInv, SendInv

\* What the hub holds and what senders hold fit together, whoever connects,
\* breaks off, panics or restarts meanwhile.
THEOREM Invariance == Spec => []Inv
BY InvInit, InvNext, PTL DEF Spec

\* Hub, pumps, buffers and broadcasts keep their types and limits.
THEOREM TypeCorrect == Spec => []TypeOK
<1>1. Inv => TypeOK
  BY DEF Inv, Types
<1>. QED
  BY <1>1, Invariance, PTL

\* A broadcast reaches nobody but the two of its conversation.
THEOREM Private == Spec => []OnlyParticipants
<1>1. ASSUME Inv PROVE OnlyParticipants
  <2>1. ASSUME NEW p \in Process, loop[p] # Idle
        PROVE  LET load == loop[p].load IN
               /\ load.chat \in chats
               /\ Receivers(p) \cup {load.from} \subseteq load.chat
               /\ load.type = "typing" => load.from \notin Receivers(p)
    <3>1. Share(p) /\ Lists(p) /\ loop[p] \in Loop
      BY <1>1 DEF Inv, LoopInv, Types, TypeOK
    <3>2. ASSUME NEW v \in Receivers(p)
          PROVE  v \in loop[p].todo \/ (v = loop[p].user /\ v # Null)
      <4>1. CASE v \in loop[p].todo
        BY <4>1
      <4>2. ASSUME NEW i \in loop[p].pos .. Len(loop[p].list),
                   NEW c \in loop[p].list[i], v = Of[c]
            PROVE  v = loop[p].user /\ v # Null
        <5>1. i \in 1 .. Len(loop[p].list)
          BY <3>1 DEF Loop
        <5>2. loop[p].list # <<>>
          BY <5>1
        <5>. QED
          BY <3>1, <4>2, <5>1, <5>2 DEF Lists
      <4>. QED
        BY <3>2, <4>1, <4>2 DEF Receivers
    <3>. QED
      BY <2>1, <3>1, <3>2 DEF Share
  <2>. QED
    BY <2>1 DEF OnlyParticipants, Busy
<1>. QED
  BY <1>1, Invariance, PTL

\* Without a departure, giving back the lock before going through the list
\* costs a sender nothing.
THEOREM Unshaken == Spec => []SendUndisturbed
<1>1. ASSUME Inv PROVE SendUndisturbed
  <2>1. ASSUME NEW p \in Process, loop[p].user # Null, ~loop[p].left
        PROVE  /\ Len(loop[p].list) <= Size(loop[p].user)
               /\ \A i \in 1 .. Len(loop[p].list) :
                    /\ loop[p].list[i] = {clients[loop[p].user][i]}
                    /\ loop[p].pos <= i =>
                         clients[loop[p].user][i] \notin closed
    <3>1. loop[p].user \in User /\ loop[p] \in Loop
      BY <1>1, <2>1 DEF Inv, Types, TypeOK, Loop
    <3>2. Undisturbed(p) /\ Registered(loop[p].user)
      BY <1>1, <3>1 DEF Inv, ListInv, HubInv
    <3>3. Size(loop[p].user) \in Nat
      BY <1>1, <3>1 DEF Inv, Types, Size
    <3>4. Len(loop[p].list) \in Nat
      BY <3>1 DEF Loop
    <3>5. \A c \in closed : read[c] = "ended"
      BY <1>1 DEF Inv, HubInv
    <3>. QED
      BY <2>1, <3>2, <3>3, <3>4, <3>5 DEF Undisturbed, Registered, InHub
  <2>. QED
    BY <2>1 DEF SendUndisturbed
<1>. QED
  BY <1>1, Invariance, PTL

-----------------------------------------------------------------------------
(* Presence *)

PresentUser(u) ==
  /\ online[u] => Hub(u) # {}
  /\ (\E c \in Hub(u) : read[c] = "run") => online[u]

\* Where nobody's presence, nor anybody in the hub, changes.
LEMMA PresenceFrame ==
  ASSUME PresenceFollowsHub, UNCHANGED <<clients, online>>, away \subseteq away',
         \A c \in Conn : read'[c] = "run" => read[c] = "run",
         Types
  PROVE  PresenceFollowsHub'
<1>1. ASSUME NEW u \in User \ away' PROVE PresentUser(u)'
  <2>1. PresentUser(u)
    BY DEF PresenceFollowsHub, PresentUser
  <2>2. Hub(u)' = Hub(u) /\ Hub(u) \subseteq Conn
    BY DEF Hub, Size, Types
  <2>. QED
    BY <2>1, <2>2 DEF PresentUser
<1>. QED
  BY <1>1 DEF PresenceFollowsHub, PresentUser

\* Where one user's does, and he is in the hub or not as it says.
LEMMA PresenceOfOne ==
  ASSUME PresenceFollowsHub, Inv, NEW u \in User,
         \A v \in User \ {u} :
           /\ Hub(v)' = Hub(v) /\ online'[v] = online[v]
           /\ v \in away => v \in away',
         \A c \in Conn : Of[c] # u /\ read'[c] = "run" => read[c] = "run",
         u \notin away' => PresentUser(u)'
  PROVE  PresenceFollowsHub'
<1>1. ASSUME NEW v \in User \ away', v # u PROVE PresentUser(v)'
  <2>1. PresentUser(v) /\ Hub(v)' = Hub(v)
    BY <1>1 DEF PresenceFollowsHub, PresentUser
  <2>2. \A c \in Hub(v) : c \in Conn /\ Of[c] # u
    BY <1>1 DEF Inv, HubInv, Registered, Types, Hub, Size
  <2>. QED
    BY <1>1, <2>1, <2>2 DEF PresentUser
<1>. QED
  BY <1>1 DEF PresenceFollowsHub, PresentUser

LEMMA PresenceNext ==
  ASSUME PresenceFollowsHub, Inv, [Next]_vars
  PROVE  PresenceFollowsHub'
<1>. USE Values
<1>0. Types /\ TypeOK /\ HubInv
  BY DEF Inv, Types
<1>1. ASSUME NEW c \in Conn, Register(c) PROVE PresenceFollowsHub'
  <2>. DEFINE u == Of[c]
  <2>1. /\ u \in User /\ Grow(u, c)
        /\ read' = [read EXCEPT ![c] = "announce"]
        /\ UNCHANGED <<online, away>>
    BY <1>1 DEF Register
  <2>c. Of[c] = u
    OBVIOUS
  <2>. HIDE DEF u
  <2>2. /\ \A v \in User \ {u} : clients'[v] = clients[v]
        /\ Size(u) \in Nat /\ Len(clients'[u]) = Size(u) + 1
        /\ clients'[u][Size(u) + 1] = c
        /\ \A i \in 1 .. Size(u) : clients'[u][i] = clients[u][i]
    BY <1>0, <2>1, GrowHub
  <2>3. \A v \in User \ {u} : Hub(v)' = Hub(v)
    BY <2>2 DEF Hub, Size
  <2>4. Hub(u)' = Hub(u) \cup {c}
    <3>1. Size(u)' = Size(u) + 1
      BY <2>2 DEF Size
    <3>2. Hub(u)' \subseteq Hub(u) \cup {c}
      BY <2>2, <3>1 DEF Hub
    <3>3. Hub(u) \cup {c} \subseteq Hub(u)'
      <4>1. c \in Hub(u)'
        <5>1. Size(u) + 1 \in 1 .. Size(u) + 1
          BY <2>2
        <5>. QED
          BY <2>2, <3>1, <5>1 DEF Hub
      <4>2. ASSUME NEW i \in 1 .. Size(u) PROVE clients[u][i] \in Hub(u)'
        <5>1. i \in 1 .. Size(u) + 1
          BY <2>2
        <5>. QED
          BY <2>2, <3>1, <5>1 DEF Hub
      <4>. QED
        BY <4>1, <4>2 DEF Hub
    <3>. QED
      BY <3>2, <3>3
  <2>5. /\ read'[c] = "announce" /\ \A d \in Conn \ {c} : read'[d] = read[d]
    BY <1>0, <2>1 DEF TypeOK
  <2>6. Hub(u) \subseteq Conn
    BY <1>0, <2>1 DEF Hub, Size, Types
  <2>7. u \notin away' => PresentUser(u)'
    BY <2>1, <2>4, <2>5, <2>6 DEF PresenceFollowsHub, PresentUser
  <2>. QED
    BY <2>1, <2>3, <2>5, <2>7, <2>c, PresenceOfOne
<1>2. ASSUME NEW c \in Conn, SetOnline(c) PROVE PresenceFollowsHub'
  <2>1. /\ Of[c] \in User /\ UNCHANGED clients /\ read[c] = "announce"
        /\ read' = [read EXCEPT ![c] = "run"]
        /\ \/ /\ online' = [online EXCEPT ![Of[c]] = TRUE]
              /\ away' = away \ {Of[c]}
           \/ away' = away \cup {Of[c]} /\ UNCHANGED online
    BY <1>2 DEF SetOnline
  <2>2. \A v \in User : Hub(v)' = Hub(v)
    BY <2>1 DEF Hub, Size
  <2>3. c \in Hub(Of[c])
    BY <1>0, <2>1 DEF HubInv, Present, InHub
  <2>4. Of[c] \notin away' => PresentUser(Of[c])'
    BY <1>0, <2>1, <2>2, <2>3 DEF PresentUser, TypeOK
  <2>5. \A v \in User \ {Of[c]} :
          /\ Hub(v)' = Hub(v) /\ online'[v] = online[v]
          /\ v \in away => v \in away'
    BY <1>0, <2>1, <2>2 DEF TypeOK
  <2>6. \A d \in Conn : Of[d] # Of[c] /\ read'[d] = "run" => read[d] = "run"
    BY <1>0, <2>1 DEF TypeOK
  <2>. QED
    BY <2>1, <2>4, <2>5, <2>6, PresenceOfOne
<1>3. ASSUME NEW c \in Conn, Unregister(c) PROVE PresenceFollowsHub'
  <2>. DEFINE u == Of[c]
  <2>1. /\ u \in User /\ read[c] # "announce"
        /\ read' = [read EXCEPT ![c] = "close"] /\ SetOffline(u)
    BY <1>3 DEF Unregister, ReadEnds
  <2>2. PICK j \in 1 .. Size(u) : clients[u][j] = c /\ Shift(u, j)
    BY <1>3 DEF Unregister
  <2>c. Of[c] = u
    OBVIOUS
  <2>. HIDE DEF u
  <2>3. /\ \A v \in User \ {u} : clients'[v] = clients[v]
        /\ Size(u) \in Nat /\ Len(clients'[u]) = Size(u) - 1
        /\ \A k \in 1 .. Size(u) - 1 :
             clients'[u][k] = IF k < j THEN clients[u][k]
                              ELSE clients[u][k + 1]
    BY <1>0, <2>1, <2>2, ShiftHub
  <2>4. \A v \in User \ {u} : Hub(v)' = Hub(v)
    BY <2>3 DEF Hub, Size
  <2>5. Hub(u)' \subseteq Hub(u)
    <3>1. Size(u)' = Size(u) - 1
      BY <2>3 DEF Size
    <3>2. ASSUME NEW k \in 1 .. Size(u) - 1
          PROVE  clients'[u][k] \in Hub(u)
      <4>1. k \in 1 .. Size(u) /\ k + 1 \in 1 .. Size(u)
        BY <2>3
      <4>. QED
        BY <2>3, <4>1 DEF Hub
    <3>. QED
      BY <3>1, <3>2 DEF Hub
  <2>6. /\ read'[c] = "close" /\ \A d \in Conn \ {c} : read'[d] = read[d]
    BY <1>0, <2>1 DEF TypeOK
  <2>7. Hub(u) \subseteq Conn
    BY <1>0, <2>1 DEF Hub, Size, Types
  <2>8. /\ \A v \in User \ {u} :
             online'[v] = online[v] /\ (v \in away => v \in away')
        /\ u \notin away' => PresentUser(u)'
    <3>1. CASE Size(u) > 1
      <4>1. UNCHANGED <<online, away>>
        BY <2>1, <3>1 DEF SetOffline
      <4>2. clients'[u][1] \in Hub(u)'
        BY <2>3, <3>1 DEF Hub, Size
      <4>3. \A d \in Hub(u)' : read'[d] = "run" => read[d] = "run"
        BY <2>5, <2>6, <2>7
      <4>. QED
        BY <2>1, <2>5, <4>1, <4>2, <4>3 DEF PresenceFollowsHub, PresentUser
    <3>2. CASE ~(Size(u) > 1)
      <4>1. Hub(u)' = {}
        BY <2>3, <3>2 DEF Hub, Size
      <4>2. \/ /\ online' = [online EXCEPT ![u] = FALSE]
               /\ away' = away \ {u}
            \/ away' = away \cup {u} /\ UNCHANGED online
        BY <2>1, <3>2 DEF SetOffline
      <4>. QED
        BY <1>0, <2>1, <4>1, <4>2 DEF PresentUser, TypeOK
    <3>. QED
      BY <3>1, <3>2
  <2>9. \A d \in Conn : Of[d] # u /\ read'[d] = "run" => read[d] = "run"
    BY <2>6
  <2>. QED
    BY <2>1, <2>4, <2>8, <2>9, PresenceOfOne
<1>4. ASSUME NEW u \in User, ExpirePresence(u) PROVE PresenceFollowsHub'
  <2>1. /\ online' = [online EXCEPT ![u] = FALSE]
        /\ away' = IF Hub(u) = {} THEN away \ {u} ELSE away \cup {u}
        /\ UNCHANGED <<clients, read>>
    BY <1>4 DEF ExpirePresence, conns
  <2>2. \A v \in User : Hub(v)' = Hub(v)
    BY <2>1 DEF Hub, Size
  <2>3. u \notin away' => PresentUser(u)'
    BY <1>0, <2>1, <2>2 DEF PresentUser, TypeOK
  <2>4. \A v \in User \ {u} :
          /\ Hub(v)' = Hub(v) /\ online'[v] = online[v]
          /\ v \in away => v \in away'
    BY <1>0, <2>1, <2>2 DEF TypeOK
  <2>. QED
    BY <2>1, <2>3, <2>4, PresenceOfOne
<1>5. ASSUME Restart PROVE PresenceFollowsHub'
  <2>1. \A u \in User \ away' : ~online'[u] /\ Hub(u)' = {}
    BY <1>5 DEF Restart, Hub, Size
  <2>. QED
    BY <2>1 DEF PresenceFollowsHub
<1>6. ASSUME UNCHANGED <<clients, online, away>>,
             \A c \in Conn : read'[c] = "run" => read[c] = "run"
      PROVE  PresenceFollowsHub'
  BY <1>0, <1>6, PresenceFrame
<1>7. ASSUME NEW c \in Conn,
             CloseSend(c) \/ Write(c) \/ WriteEnds(c) \/ Lose(c)
      PROVE  PresenceFollowsHub'
  BY <1>0, <1>6, <1>7 DEF CloseSend, Write, WriteEnds, Lose, TypeOK
<1>8. ASSUME NEW p \in Process,
             \/ Offer(p) \/ Panic(p) \/ Done(p)
             \/ \E u \in User : TakeList(p, u)
      PROVE  PresenceFollowsHub'
  BY <1>0, <1>6, <1>8 DEF Offer, Panic, Done, TakeList, conns, TypeOK
<1>9. ASSUME \/ \E c \in Conn, k \in chats : Typing(c, k)
             \/ \E u, v \in User : GetOrCreateConversation(u, v)
             \/ \E r \in Request, u \in User, k \in chats : SendMessage(r, u, k)
             \/ UNCHANGED vars
      PROVE  PresenceFollowsHub'
  BY <1>6, <1>9
  DEF Typing, GetOrCreateConversation, SendMessage, vars, conns
<1>. QED
  BY <1>1, <1>2, <1>3, <1>4, <1>5, <1>7, <1>8, <1>9, NextCases

\* Presence follows the hub, though each is written by statements of its own.
THEOREM PresenceHolds == Spec => []PresenceFollowsHub
<1>1. Init => PresenceFollowsHub
  BY DEF Init, PresenceFollowsHub, Hub, Size
<1>2. Inv /\ PresenceFollowsHub /\ [Next]_vars => PresenceFollowsHub'
  BY PresenceNext
<1>. QED
  BY <1>1, <1>2, Invariance, PTL DEF Spec
=============================================================================

------------------------------ MODULE ChatHub ------------------------------
(***************************************************************************)
(* The chat of internal/chat and handlers/chat: conversations and messages *)
(* in the database, the hub of websocket connections in memory, presence   *)
(* in Redis.                                                               *)
(*                                                                         *)
(* Every connection has two goroutines, ReadPump and WritePump; every HTTP *)
(* handler is one more. The list of a user's connections is a Go slice     *)
(* that SendToUser goes through after it has given back the lock, while    *)
(* Unregister shifts its elements in place: what a sender may find in a    *)
(* slot is the set of everything the slot has held since it took the list. *)
(***************************************************************************)
EXTENDS Naturals, FiniteSets, Sequences, SequencesExt

CONSTANTS
  User,
  Conn,        \* bound: the websocket connections of one behaviour
  Of,          \* whose connection it is
  Request,     \* SendMessage handlers that can be in flight at the same time
  Capacity,    \* bound: the buffer of a connection (256 in the code)
  MaxLoops,    \* bound: the broadcasts under way at the same time
  MaxFaults,   \* bound: restarts and failing Redis calls in one behaviour
  Null

ASSUME HubAssumption ==
  /\ Of \in [Conn -> User]
  /\ Conn \cap Request = {} /\ Null \notin User
  /\ Capacity \in Nat \ {0} /\ MaxLoops \in Nat /\ MaxFaults \in Nat

VARIABLES
  chats,     \* chat_conversations: pairs of users
  clients,   \* Hub.clients
  cap,       \* the capacity of the slices in Hub.clients
  read,      \* where ServeWS and the ReadPump of a connection are
  write,     \* where its WritePump is
  up,        \* the sockets that work
  send,      \* how much waits in Client.Send
  closed,    \* the connections whose Client.Send is closed
  loop,      \* where a goroutine is in BroadcastTyping or BroadcastMessage
  online,    \* presence of a user: "none", or set and not deleted or expired
  away,      \* history: users whose presence has expired or been lost
  faults     \* restarts and failed calls so far

conns == <<clients, cap, read, write, up, send, closed>>
vars  == <<chats, conns, loop, online, away, faults>>

-----------------------------------------------------------------------------
\* user_a and user_b; which of the two comes first makes no difference.
Conversation == {{u, v} : u, v \in User} \ {{u} : u \in User}

Payload == [type: {"typing", "message"}, chat: Conversation, from: User]

\* The ReadPump of a connection, or a handler: both run SendToUser.
Process == Conn \cup Request

Loop ==
  [todo: SUBSET User,             \* still to send to
   user: User \cup {Null},        \* sending to
   list: Seq(SUBSET Conn),        \* what may be found in each slot
   pos: Nat \ {0},                \* the next slot
   live: BOOLEAN,                 \* the slots still are those of the hub
   left: BOOLEAN,                 \* a connection of the user has left since
   load: Payload \cup {Null}]
Idle ==
  [todo |-> {}, user |-> Null, list |-> <<>>, pos |-> 1, live |-> FALSE,
   left |-> FALSE, load |-> Null]

Size(u)   == Len(clients[u])
Hub(u)    == {clients[u][i] : i \in 1 .. Size(u)}
Busy(p)   == loop[p] # Idle

TypeOK ==
  /\ chats \subseteq Conversation
  /\ \A u \in User : clients[u] \in Seq(Conn) /\ cap[u] >= Size(u)
  /\ read \in [Conn -> {"none", "announce", "run", "unwind", "close",
                        "ended"}]
  /\ write \in [Conn -> {"none", "run", "ended"}]
  /\ up \subseteq Conn /\ closed \subseteq Conn
  /\ send \in [Conn -> 0 .. Capacity]
  /\ loop \in [Process -> Loop]
  /\ online \in [User -> BOOLEAN] /\ away \subseteq User
  /\ faults \in 0 .. MaxFaults

Init ==
  /\ chats = {}
  /\ clients = [u \in User |-> <<>>] /\ cap = [u \in User |-> 0]
  /\ read = [c \in Conn |-> "none"] /\ write = [c \in Conn |-> "none"]
  /\ up = {} /\ closed = {}
  /\ send = [c \in Conn |-> 0]
  /\ loop = [p \in Process |-> Idle]
  /\ online = [u \in User |-> FALSE] /\ away = {}
  /\ faults = 0

-----------------------------------------------------------------------------
(* What becomes of the lists that senders of u go through *)

OnList(p, u) == loop[p].user = u /\ loop[p].live

\* The hub has moved to another array: the slots of a sender do not change.
Detach(u) ==
  loop' = [p \in Process |->
             IF OnList(p, u) THEN [loop[p] EXCEPT !.live = FALSE] ELSE loop[p]]

\* append: the slot after the last, or an array of twice the size
Grow(u, c) ==
  LET n == Size(u) IN
  /\ clients' = [clients EXCEPT ![u] = Append(@, c)]
  /\ IF n = cap[u]
     THEN cap' = [cap EXCEPT ![u] = IF n = 0 THEN 1 ELSE 2 * n] /\ Detach(u)
     ELSE /\ UNCHANGED cap
          /\ loop' = [p \in Process |->
               IF OnList(p, u) /\ n < Len(loop[p].list)
               THEN [loop[p] EXCEPT !.list[n + 1] = @ \cup {c}] ELSE loop[p]]

\* append(list[:i], list[i+1:]...): the rest moves one slot to the front.
Shift(u, i) ==
  LET n == Size(u) IN
  /\ clients' = [clients EXCEPT ![u] = RemoveAt(@, i)]
  /\ cap' = [cap EXCEPT ![u] = IF n = 1 THEN 0 ELSE @]
  /\ loop' = [p \in Process |->
       IF loop[p].user # u THEN loop[p]
       ELSE [loop[p] EXCEPT
               !.left = TRUE,
               !.live = @ /\ n > 1,
               !.list = [k \in 1 .. Len(@) |->
                  IF loop[p].live /\ k \in i .. n - 1
                  THEN @[k] \cup {clients[u][k + 1]} ELSE @[k]]]]

-----------------------------------------------------------------------------
(* A connection: ServeWS registers it, tells Redis and starts the pumps.    *)

Register(c) ==
  /\ read[c] = "none"
  /\ Grow(Of[c], c)
  /\ read' = [read EXCEPT ![c] = "announce"]
  /\ up' = up \cup {c}
  /\ UNCHANGED <<chats, write, send, closed, online, away, faults>>

\* The error is ignored.
SetOnline(c) ==
  LET u == Of[c] IN
  /\ read[c] = "announce"
  /\ \/ /\ online' = [online EXCEPT ![u] = TRUE]
        /\ away' = away \ {u}
        /\ UNCHANGED faults
     \/ /\ faults < MaxFaults /\ faults' = faults + 1
        /\ away' = away \cup {u}
        /\ UNCHANGED online
  /\ read' = [read EXCEPT ![c] = "run"]
  /\ write' = [write EXCEPT ![c] = "run"]
  /\ UNCHANGED <<chats, clients, cap, up, send, closed, loop>>

\* The network or the client goes away.
Lose(c) ==
  /\ c \in up
  /\ up' = up \ {c}
  /\ UNCHANGED <<chats, clients, cap, read, write, send, closed, loop, online,
                 away, faults>>

\* Fault: the user is set offline whoever else is connected.
SetOfflineAnyway(u) ==
  /\ online' = [online EXCEPT ![u] = FALSE]
  /\ UNCHANGED <<away, faults>>

\* Inside the lock, when no connection is left; the error is ignored.
SetOffline(u) ==
  IF Size(u) > 1 THEN UNCHANGED <<online, away, faults>>
  ELSE \/ /\ online' = [online EXCEPT ![u] = FALSE]
          /\ away' = away \ {u}
          /\ UNCHANGED faults
       \/ /\ faults < MaxFaults /\ faults' = faults + 1
          /\ away' = away \cup {u}
          /\ UNCHANGED online

ReadEnds(c) ==
  \/ read[c] = "run" /\ c \notin up /\ ~Busy(c)
  \/ read[c] = "unwind"

\* Fault: the channel is closed before the connection leaves the hub.
UnregisterLate(c) ==
  /\ \/ /\ ReadEnds(c) /\ c \notin closed
        /\ closed' = closed \cup {c}
        /\ UNCHANGED <<clients, cap, loop, read, online, away, faults>>
     \/ /\ ReadEnds(c) /\ c \in closed
        /\ \E i \in 1 .. Size(Of[c]) :
             clients[Of[c]][i] = c /\ Shift(Of[c], i)
        /\ SetOffline(Of[c])
        /\ read' = [read EXCEPT ![c] = "close"]
        /\ UNCHANGED closed
  /\ UNCHANGED <<chats, write, up, send>>

\* ReadMessage fails, at the latest when no pong has come for a minute, or a
\* panic unwinds: Unregister up to the unlock.
Unregister(c) ==
  /\ ReadEnds(c)
  /\ \E i \in 1 .. Size(Of[c]) : clients[Of[c]][i] = c /\ Shift(Of[c], i)
  /\ SetOffline(Of[c])
  /\ read' = [read EXCEPT ![c] = "close"]
  /\ UNCHANGED <<chats, write, up, send, closed>>

\* Its last statement, and the Close of the socket.
CloseSend(c) ==
  /\ read[c] = "close"
  /\ closed' = closed \cup {c}
  /\ up' = up \ {c}
  /\ read' = [read EXCEPT ![c] = "ended"]
  /\ UNCHANGED <<chats, clients, cap, write, send, loop, online, away, faults>>

\* WritePump: a payload is written; on a broken socket it may seem to be.
Write(c) ==
  /\ write[c] = "run" /\ send[c] > 0
  /\ send' = [send EXCEPT ![c] = @ - 1]
  /\ UNCHANGED <<chats, clients, cap, read, write, up, closed, loop, online,
                 away, faults>>

\* A payload or a ping fails or takes more than ten seconds, or the channel
\* is closed and empty: the pump returns and closes the socket.
WriteEnds(c) ==
  /\ write[c] = "run"
  /\ write' = [write EXCEPT ![c] = "ended"]
  /\ up' = up \ {c}
  /\ UNCHANGED <<chats, clients, cap, read, send, closed, loop, online, away,
                 faults>>

\* 65 seconds after SetOnline. Nothing calls Heartbeat, so this happens to
\* users that are connected too.
ExpirePresence(u) ==
  /\ online[u]
  /\ online' = [online EXCEPT ![u] = FALSE]
  /\ away' = IF Hub(u) = {} THEN away \ {u} ELSE away \cup {u}
  /\ UNCHANGED <<chats, conns, loop, faults>>

\* The process stops and starts again. Presence stays in Redis.
Restart ==
  /\ faults < MaxFaults /\ faults' = faults + 1
  /\ \E c \in Conn : read[c] # "none"
  /\ clients' = [u \in User |-> <<>>] /\ cap' = [u \in User |-> 0]
  /\ read' = [c \in Conn |-> IF read[c] = "none" THEN "none" ELSE "ended"]
  /\ write' = [c \in Conn |-> IF read[c] = "none" THEN "none" ELSE "ended"]
  /\ up' = {} /\ closed' = {c \in Conn : read[c] # "none"}
  /\ send' = [c \in Conn |-> 0]
  /\ loop' = [p \in Process |-> Idle]
  /\ away' = away \cup {u \in User : online[u]}
  /\ UNCHANGED <<chats, online>>

-----------------------------------------------------------------------------
(* Conversations and messages *)

GetOrCreateConversation(u, v) ==
  /\ u # v
  /\ chats' = chats \cup {{u, v}}
  /\ UNCHANGED <<conns, loop, online, away, faults>>

\* Conversations are never changed or deleted, so it may be read in the same
\* step as what follows.
GetConversation(k, u) == k \in chats /\ u \in k

Broadcast(p, to, load) ==
  /\ ~Busy(p)
  /\ Cardinality({q \in Process : Busy(q)}) < MaxLoops
  /\ loop' = [loop EXCEPT ![p] = [Idle EXCEPT !.todo = to, !.load = load]]

\* CreateMessage, then BroadcastMessage. The stored messages are not modelled:
\* nobody is told when one is edited or deleted.
SendMessage(r, u, k) ==
  /\ GetConversation(k, u)
  /\ Broadcast(r, k, [type |-> "message", chat |-> k, from |-> u])
  /\ UNCHANGED <<chats, conns, online, away, faults>>

\* Fault: the one who types is told as well.
TypingToBoth(c, k) ==
  /\ read[c] = "run" /\ c \in up
  /\ GetConversation(k, Of[c])
  /\ Broadcast(c, k, [type |-> "typing", chat |-> k, from |-> Of[c]])
  /\ UNCHANGED <<chats, conns, online, away, faults>>

\* A "typing" envelope from the socket: BroadcastTyping with the peer.
Typing(c, k) ==
  /\ read[c] = "run" /\ c \in up
  /\ GetConversation(k, Of[c])
  /\ Broadcast(c, k \ {Of[c]}, [type |-> "typing", chat |-> k,
                                from |-> Of[c]])
  /\ UNCHANGED <<chats, conns, online, away, faults>>

-----------------------------------------------------------------------------
(* SendToUser *)

\* The list is taken under the read lock.
TakeList(p, u) ==
  /\ loop[p].user = Null /\ u \in loop[p].todo
  /\ loop' = [loop EXCEPT ![p].user = u, ![p].todo = @ \ {u},
                          ![p].list = [i \in 1 .. Size(u) |-> {clients[u][i]}],
                          ![p].pos = 1, ![p].live = TRUE, ![p].left = FALSE]
  /\ UNCHANGED <<chats, conns, online, away, faults>>

\* Fault: the buffer has no limit.
OfferUnbounded(p) ==
  /\ loop[p].user # Null /\ loop[p].pos <= Len(loop[p].list)
  /\ \E c \in loop[p].list[loop[p].pos] :
       /\ c \notin closed
       /\ send' = [send EXCEPT ![c] = @ + 1]
  /\ loop' = [loop EXCEPT ![p].pos = @ + 1]
  /\ UNCHANGED <<chats, clients, cap, read, write, up, closed, online, away,
                 faults>>

\* Fault: a full buffer blocks.
OfferBlocking(p) ==
  /\ loop[p].user # Null /\ loop[p].pos <= Len(loop[p].list)
  /\ \E c \in loop[p].list[loop[p].pos] :
       /\ c \notin closed /\ send[c] < Capacity
       /\ send' = [send EXCEPT ![c] = @ + 1]
  /\ loop' = [loop EXCEPT ![p].pos = @ + 1]
  /\ UNCHANGED <<chats, clients, cap, read, write, up, closed, online, away,
                 faults>>

\* One round of the loop. A full buffer is skipped; a closed channel panics.
Offer(p) ==
  /\ loop[p].user # Null /\ loop[p].pos <= Len(loop[p].list)
  /\ \E c \in loop[p].list[loop[p].pos] :
       /\ c \notin closed
       /\ send' = [send EXCEPT ![c] = IF @ < Capacity THEN @ + 1 ELSE @]
  /\ loop' = [loop EXCEPT ![p].pos = @ + 1]
  /\ UNCHANGED <<chats, clients, cap, read, write, up, closed, online, away,
                 faults>>

\* gin.Recovery ends the handler; a ReadPump unwinds and drops its own
\* connection, though it is the other's that was gone.
Panic(p) ==
  /\ loop[p].user # Null /\ loop[p].pos <= Len(loop[p].list)
  /\ \E c \in loop[p].list[loop[p].pos] : c \in closed
  /\ loop' = [loop EXCEPT ![p] = Idle]
  /\ read' = IF p \in Conn THEN [read EXCEPT ![p] = "unwind"] ELSE read
  /\ UNCHANGED <<chats, clients, cap, write, up, send, closed, online, away,
                 faults>>

\* The next user, or the end of the broadcast.
Done(p) ==
  /\ loop[p].user # Null /\ loop[p].pos > Len(loop[p].list)
  /\ loop' = [loop EXCEPT ![p] =
                IF @.todo = {} THEN Idle
                ELSE [Idle EXCEPT !.todo = loop[p].todo, !.load = loop[p].load]]
  /\ UNCHANGED <<chats, conns, online, away, faults>>

-----------------------------------------------------------------------------
Send(p) == Offer(p) \/ Panic(p) \/ Done(p) \/ \E u \in User : TakeList(p, u)

ReadPump(c)  == SetOnline(c) \/ Unregister(c) \/ CloseSend(c)
WritePump(c) == Write(c) \/ WriteEnds(c)

Ask ==
  \E u \in User :
    \/ \E v \in User : GetOrCreateConversation(u, v)
    \/ \E r \in Request, k \in chats : SendMessage(r, u, k)

Next ==
  \/ \E c \in Conn : Register(c) \/ ReadPump(c) \/ WritePump(c) \/ Lose(c)
  \/ \E c \in Conn, k \in chats : Typing(c, k)
  \/ \E p \in Process : Send(p)
  \/ \E u \in User : ExpirePresence(u)
  \/ Ask
  \/ Restart

\* Goroutines that can run do run. ReadMessage fails in the end on a broken
\* socket, and so does the ping; clients owe nothing.
Fairness ==
  /\ \A c \in Conn : WF_vars(ReadPump(c))
  /\ \A c \in Conn : WF_vars(write[c] = "run" /\ WriteEnds(c) /\ c \notin up)
  /\ \A p \in Process : WF_vars(Send(p))

Spec == Init /\ [][Next]_vars /\ Fairness
-----------------------------------------------------------------------------
(* Properties *)

\* What a broadcast still has to send, it sends only to the two of the
\* conversation, one of whom it comes from, and nobody is told that he is
\* typing himself: whatever the shifted slots of its list hold by then.
Receivers(p) ==
  loop[p].todo \cup {Of[c] : c \in UNION {loop[p].list[i] :
                                  i \in loop[p].pos .. Len(loop[p].list)}}
OnlyParticipants ==
  \A p \in Process : Busy(p) =>
    LET load == loop[p].load IN
    /\ load.chat \in chats
    /\ Receivers(p) \cup {load.from} \subseteq load.chat
    /\ load.type = "typing" => load.from \notin Receivers(p)

\* As long as no connection of the user leaves, a sender that has given back
\* the lock still goes through the connections it took, each one once, in the
\* hub and with an open channel, whoever registers meanwhile. (When one
\* leaves, another may be skipped or served twice, and a send may panic.)
SendUndisturbed ==
  \A p \in Process :
    LET l == loop[p] IN
    l.user # Null /\ ~l.left =>
      /\ Len(l.list) <= Size(l.user)
      /\ \A i \in 1 .. Len(l.list) :
           /\ l.list[i] = {clients[l.user][i]}
           /\ l.pos <= i => clients[l.user][i] \notin closed

\* Presence follows the hub: a user with a connection that has been announced
\* is online until the key expires, and one without connections is offline,
\* except after a failed call or a restart, until the key expires.
PresenceFollowsHub ==
  \A u \in User \ away :
    /\ online[u] => Hub(u) # {}
    /\ (\E c \in Hub(u) : read[c] = "run") => online[u]

\* A connection whose socket breaks, or whose WritePump has returned, leaves
\* the hub for good, and both its goroutines end, also when a broadcast of
\* its own is under way or ends in a panic.
Ending(c)  == read[c] = "run" /\ (c \notin up \/ write[c] = "ended")
Reaped(c)  == read[c] = "ended" /\ write[c] = "ended" /\ c \notin Hub(Of[c])
BrokenIsReaped == \A c \in Conn : Ending(c) ~> Reaped(c)
=============================================================================

---------------------------- MODULE ChatMessages ----------------------------
(***************************************************************************)
(* The messages of one conversation (internal/chat/repo.go): they are      *)
(* written, edited and deleted while a client pages through them, newest   *)
(* first, with the id of the last message it got as the cursor.            *)
(*                                                                         *)
(* created_at is now() of the transaction, the time at which it begins; a  *)
(* reader sees the row when it is committed. Two messages may have the     *)
(* same created_at.                                                        *)
(***************************************************************************)
EXTENDS Naturals, FiniteSets

CONSTANTS
  Person,
  Pair,        \* the two of the conversation
  MaxMessage,  \* bound: the messages written
  MaxTime,     \* bound: the clock, in microseconds that make a difference
  PageLimit,   \* bound: the messages on a page (50 in the code, 100 at most)
  Null

MessagesAssumption ==
  /\ Pair \subseteq Person /\ Null \notin Person
  /\ MaxMessage \in Nat /\ MaxTime \in Nat /\ PageLimit \in Nat \ {0}

VARIABLES
  messages,  \* chat_messages
  now,       \* the clock of the database
  reader,    \* the client that pages
  there      \* history: the messages committed when it began

vars == <<messages, now, reader, there>>

-----------------------------------------------------------------------------
Message == 1 .. MaxMessage
None == 0

Row ==
  [sender: Person \cup {Null}, created: 0 .. MaxTime,
   edited: BOOLEAN,
   state: {"none", "pending", "stored", "deleted"}]
NoRow ==
  [sender |-> Null, created |-> 0, edited |-> FALSE, state |-> "none"]

Reader ==
  [who: Person \cup {Null}, step: {"idle", "paging", "done"},
   cursors: SUBSET Message,        \* the last messages of the pages so far
   cursor: Message \cup {None},
   listed: SUBSET Message,
   count: Nat]                     \* how many rows it was sent
NoReader ==
  [who |-> Null, step |-> "idle", cursors |-> {}, cursor |-> None,
   listed |-> {}, count |-> 0]

Stored  == {m \in Message : messages[m].state = "stored"}
Created(m) == messages[m].created

TypeOK ==
  /\ messages \in [Message -> Row]
  /\ now \in 0 .. MaxTime
  /\ reader \in Reader /\ there \subseteq Message

Init ==
  /\ messages = [m \in Message |-> NoRow]
  /\ now = 0
  /\ reader = NoReader /\ there = {}

-----------------------------------------------------------------------------
(* Writing *)

\* The statement begins; one who is not of the conversation inserts nothing.
CreateMessage(m, p) ==
  /\ p \in Pair
  /\ messages[m].state = "none" /\ \A k \in 1 .. m - 1 : messages[k] # NoRow
  /\ messages' = [messages EXCEPT ![m] =
                    [sender |-> p, created |-> now, edited |-> FALSE,
                     state |-> "pending"]]
  /\ UNCHANGED <<now, reader, there>>

Commit(m) ==
  /\ messages[m].state = "pending"
  /\ messages' = [messages EXCEPT ![m].state = "stored"]
  /\ UNCHANGED <<now, reader, there>>

\* Only the sender changes or deletes a row, and no row that is deleted.
Own(m, p) == m \in Stored /\ messages[m].sender = p

\* UPDATE: its created_at stays.
EditMessage(m, p) ==
  /\ Own(m, p)
  /\ messages' = [messages EXCEPT ![m].edited = TRUE]
  /\ UNCHANGED <<now, reader, there>>

\* deleted_at is set; the row stays.
DeleteMessage(m, p) ==
  /\ Own(m, p)
  /\ messages' = [messages EXCEPT ![m].state = "deleted"]
  /\ UNCHANGED <<now, reader, there>>

Tick ==
  /\ now < MaxTime /\ now' = now + 1
  /\ UNCHANGED <<messages, reader, there>>

-----------------------------------------------------------------------------
(* Reading *)

\* Fault: the message of the cursor is on the next page as well.
AfterCursorToo(m, c) == c = None \/ Created(m) <= Created(c)

\* Deleted or not, the message of the cursor still has its created_at.
AfterCursor(m, c) == c = None \/ Created(m) < Created(c)

\* What ListMessages may return: ORDER BY created_at DESC leaves the order of
\* messages with the same created_at open, and so what LIMIT cuts off.
Pages(p, c) ==
  LET found == {m \in Stored : p \in Pair /\ AfterCursor(m, c)} IN
  {page \in SUBSET found :
     /\ Cardinality(page) =
          (IF Cardinality(found) < PageLimit THEN Cardinality(found) ELSE PageLimit)
     /\ \A m \in page, n \in found \ page : Created(m) >= Created(n)}

\* A page and the message it ends with; an empty page is the end.
ListMessages(p, r) ==
  \E page \in Pages(p, r.cursor) :
    IF page = {} THEN reader' = [r EXCEPT !.step = "done"]
    ELSE \E last \in page :
           /\ \A m \in page : Created(last) <= Created(m)
           /\ reader' = [r EXCEPT !.cursor = last, !.cursors = @ \cup {last},
                                  !.listed = @ \cup page,
                                  !.count = @ + Cardinality(page)]

Open(p) ==
  /\ reader.step = "idle"
  /\ there' = Stored
  /\ ListMessages(p, [NoReader EXCEPT !.who = p, !.step = "paging"])
  /\ UNCHANGED <<messages, now>>

NextPage ==
  /\ reader.step = "paging"
  /\ ListMessages(reader.who, reader)
  /\ UNCHANGED <<messages, now, there>>

Next ==
  \/ \E m \in Message, p \in Person :
       CreateMessage(m, p) \/ EditMessage(m, p) \/ DeleteMessage(m, p)
  \/ \E m \in Message : Commit(m)
  \/ \E p \in Person : Open(p)
  \/ NextPage \/ Tick

Spec == Init /\ [][Next]_vars
-----------------------------------------------------------------------------
(* Properties *)

\* A client that pages to the end gets no message twice, whatever is written
\* or deleted meanwhile, and gets every message that was there from beginning
\* to end, except those with the created_at of the last message of a page.
\* Someone else gets nothing.
PagesComplete ==
  /\ Cardinality(reader.listed) = reader.count
  /\ reader.who \notin Pair => reader.listed = {}
  /\ reader.step = "done" /\ reader.who \in Pair =>
       \A m \in (there \cap Stored) \ reader.listed :
         \E c \in reader.cursors : Created(m) = Created(c)
=============================================================================

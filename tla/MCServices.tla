----------------------------- MODULE MCServices -----------------------------
(***************************************************************************)
(* Small instances of OneTimeCodes, and of Invitations, CargoDesk and      *)
(* ChatMessages beside it. They share no table, so a behaviour is explored *)
(* for one of them at a time: `area' names it, the others stay as they     *)
(* were initially. Invitations and CargoDesk are taken with the theorems   *)
(* proved about them, for ServicesProofs to cite.                          *)
(***************************************************************************)
EXTENDS OneTimeCodes, TLC

CONSTANTS
  Driver, Dispatcher, Company, Invite,
  Cargo, Lister, Terms, First, CargoLimit, Conns,
  MaxMessage, MaxTime, PageLimit

VARIABLES
  area,
  link, employer, rig, owner, role, invite, invReq, agreed, granted, closed,
  shared, invFaults,
  row, free, deskReq, terms, overlapped, overtaken,
  messages, now, reader, there

I == INSTANCE InvitationsProofs WITH req <- invReq, faults <- invFaults

D == INSTANCE CargoDeskProofs
       WITH Dispatcher <- Lister, req <- deskReq,
            agreed <- terms

M == INSTANCE ChatMessages
       WITH Person <- Dispatcher \cup Driver, Pair <- Dispatcher

ASSUME InvitationConstants == I!InvitationAssumption
ASSUME DeskConstants == D!DeskAssumption
ASSUME MessagesConstants == M!MessagesAssumption

invVars ==
  <<link, employer, rig, owner, role, invite, invReq, agreed, granted, closed,
    shared, invFaults>>
deskVars == <<row, free, deskReq, terms, overlapped, overtaken>>
messageVars == <<messages, now, reader, there>>

Area == {"codes", "invitations", "desk", "messages"}
Turn(a) == area = a /\ UNCHANGED area

ServiceVars == <<area, vars, invVars, deskVars, messageVars>>
ServiceInit ==
  /\ area \in Area /\ Init /\ I!Init /\ D!Init /\ M!Init
  /\ area # "codes" => \A k \in Key : kind[k] = "driver"
ServiceNext ==
  \/ Turn("codes") /\ Next /\ UNCHANGED <<invVars, deskVars, messageVars>>
  \/ Turn("invitations") /\ I!Next /\ UNCHANGED <<vars, deskVars, messageVars>>
  \/ Turn("desk") /\ D!Next /\ UNCHANGED <<vars, invVars, messageVars>>
  \/ Turn("messages") /\ M!Next /\ UNCHANGED <<vars, invVars, deskVars>>
ServiceSpec == ServiceInit /\ [][ServiceNext]_ServiceVars

\* Two dispatchers and two cargo are the same pair of values here, so one
\* permutation does for both.
Symmetry == Permutations(Dispatcher) \cup Permutations(Request)
-----------------------------------------------------------------------------
\* Nobody is tied to anybody without the word of both, and the rows of
\* Invitations have their types.
Consent == area = "invitations" => I!TypeOK /\ I!Consent

\* An invitation is carried out or closed, once, unless two handlers held it
\* or one failed on it.
InvitationOnce == area = "invitations" => I!InvitationOnce

\* Creations that do not overlap keep to the dispatcher's limit, and the rows
\* of CargoDesk have their types.
LimitKept == area = "desk" => D!TypeOK /\ D!LimitKept

\* An assigned cargo keeps route and payment, unless an edit had passed its
\* look at the status before the assignment.
TermsKept == area = "desk" => D!TermsKept

\* An edit in want of a second connection waits for someone who is not in
\* want himself, until the edits have taken the whole pool.
PoolDrains == area = "desk" => D!PoolDrains

\* Paging through a conversation misses and repeats nothing, but for messages
\* of the same microsecond; the rows of ChatMessages have their types.
PagesComplete == area = "messages" => M!TypeOK /\ M!PagesComplete
=============================================================================

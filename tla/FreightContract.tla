-------------------------- MODULE FreightContract --------------------------
(***************************************************************************)
(* What the freight market promises to its users, without handlers, stale  *)
(* reads or statuses: bids are made on cargo that moderation has decided,  *)
(* some bids win and stay won, and hauls are run for won bids only, each   *)
(* by one crew that is fixed when the haul starts.                         *)
(*                                                                         *)
(* It promises no more than the code keeps: a bid may win more than one    *)
(* haul, a cargo may have several winners, and a haul that was called off  *)
(* may run again (Resume).                                                 *)
(***************************************************************************)
CONSTANTS Cargo, Offer, Trip, Driver, Null

VARIABLES
  decided,   \* cargo whose moderation is over
  bid,       \* the cargo each offer is made on, or Null
  won,       \* offers accepted
  haul       \* for each trip its offer, cargo, crew and phase

cvars == <<decided, bid, won, haul>>

NoHaul == [offer |-> Null, cargo |-> Null, crew |-> Null, phase |-> "none"]

Init ==
  /\ decided = {}
  /\ bid = [o \in Offer |-> Null]
  /\ won = {}
  /\ haul = [t \in Trip |-> NoHaul]

Decide(c) ==
  /\ decided' = decided \cup {c}
  /\ UNCHANGED <<bid, won, haul>>

Bid(o, c) ==
  /\ bid[o] = Null /\ c \in decided
  /\ bid' = [bid EXCEPT ![o] = c]
  /\ UNCHANGED <<decided, won, haul>>

\* Accepting an offer assigns its cargo, which moderation has decided.
Win(o) ==
  /\ bid[o] # Null
  /\ won' = won \cup {o}
  /\ UNCHANGED <<decided, bid, haul>>

Open(t, o) ==
  /\ haul[t] = NoHaul /\ o \in won
  /\ haul' = [haul EXCEPT ![t] = [offer |-> o, cargo |-> bid[o],
                                  crew |-> Null, phase |-> "open"]]
  /\ UNCHANGED <<decided, bid, won>>

Crew(t, d) ==
  /\ haul[t].phase = "open"
  /\ haul' = [haul EXCEPT ![t].crew = d]
  /\ UNCHANGED <<decided, bid, won>>

\* A haul starts, or runs again after it was called off, with a crew only.
Run(t) ==
  /\ haul[t].phase \in {"open", "off"} /\ haul[t].crew # Null
  /\ haul' = [haul EXCEPT ![t].phase = "run"]
  /\ UNCHANGED <<decided, bid, won>>

CallOff(t) ==
  /\ haul[t].phase \in {"open", "run"}
  /\ haul' = [haul EXCEPT ![t].phase = "off"]
  /\ UNCHANGED <<decided, bid, won>>

Next ==
  \/ \E c \in Cargo : Decide(c)
  \/ \E o \in Offer, c \in Cargo : Bid(o, c)
  \/ \E o \in Offer : Win(o)
  \/ \E t \in Trip, o \in Offer : Open(t, o)
  \/ \E t \in Trip, d \in Driver \cup {Null} : Crew(t, d)
  \/ \E t \in Trip : Run(t) \/ CallOff(t)

Spec == Init /\ [][Next]_cvars
=============================================================================

-------------------------- MODULE SessionContract --------------------------
(***************************************************************************)
(* What the sessions promise to those who hold tokens, without handlers,   *)
(* Redis keys that are still being written, or the index of a user. A pair *)
(* is given to its owner once, with whatever of its two rights could be    *)
(* stored: to be exchanged (good) and to be let in (open). It never gets a *)
(* right again, and loses one only when it expires or when its owner has   *)
(* asked for it with a token of his own.                                   *)
(***************************************************************************)
CONSTANTS User, Pair, Null, None

VARIABLES
  owner,   \* whom each pair was given to, or Null
  origin,  \* the pair it was exchanged for, or None
  good,    \* pairs whose refresh token may still be exchanged ...
  open,    \* ... and those whose access token is let in,
  dead,    \* unless the refresh token has expired ...
  old,     \* ... or the access token
  busy     \* users who refresh or log out

svars == <<owner, origin, good, open, dead, old, busy>>

Given == {s \in Pair : owner[s] # Null}

Init ==
  /\ owner = [s \in Pair |-> Null] /\ origin = [s \in Pair |-> None]
  /\ good = {} /\ open = {} /\ dead = {} /\ old = {} /\ busy = {}

\* The pair reaches its owner, with the rights that could be stored.
Give(s, u) ==
  /\ s \notin Given
  /\ owner' = [owner EXCEPT ![s] = u]
  /\ good' \in {good, good \cup {s}}
  /\ open' \in {open, open \cup {s}}
  /\ UNCHANGED <<dead, old, busy>>

\* A login, or a switch of company
Grant(s, u) == Give(s, u) /\ UNCHANGED origin

\* The end of a refresh: one new pair, of the same owner, for one that is
\* spent.
Exchange(s, f) ==
  /\ f \in Given \ good /\ \A t \in Pair : origin[t] # f
  /\ Give(s, owner[f])
  /\ origin' = [origin EXCEPT ![s] = f]

\* A refresh token is presented: for a new pair, or to be ended.
Present(s) ==
  /\ s \in good \ dead
  /\ good' = good \ {s}
  /\ busy' \in {busy, busy \cup {owner[s]}}
  /\ UNCHANGED <<owner, origin, open, dead, old>>

\* A logout by access token
Ask(s) ==
  /\ s \in Given \ old
  /\ busy' = busy \cup {owner[s]}
  /\ UNCHANGED <<owner, origin, good, open, dead, old>>

\* What is taken from a user who has asked for it
Revoke(u) ==
  /\ u \in busy
  /\ good' \in SUBSET good
  /\ \A s \in good \ good' : owner[s] = u
  /\ UNCHANGED <<owner, origin, open, dead, old, busy>>

Close(s) ==
  /\ s \in open /\ owner[s] \in busy
  /\ open' = open \ {s}
  /\ busy' \in {busy, busy \ {owner[s]}}
  /\ UNCHANGED <<owner, origin, good, dead, old>>

Done(u) ==
  /\ busy' = busy \ {u}
  /\ UNCHANGED <<owner, origin, good, open, dead, old>>

\* What is taken from everybody: access goes first.
Age(s) ==
  /\ \/ old' = old \cup {s} /\ UNCHANGED dead
     \/ s \in old /\ dead' = dead \cup {s} /\ UNCHANGED old
  /\ UNCHANGED <<owner, origin, good, open, busy>>

Expire(s) ==
  /\ \/ s \in dead /\ good' = good \ {s} /\ UNCHANGED open
     \/ s \in old /\ open' = open \ {s} /\ UNCHANGED good
  /\ UNCHANGED <<owner, origin, dead, old, busy>>

Next ==
  \/ \E s \in Pair :
       Present(s) \/ Ask(s) \/ Close(s) \/ Age(s) \/ Expire(s)
  \/ \E s \in Pair, u \in User : Grant(s, u)
  \/ \E s, f \in Pair : Exchange(s, f)
  \/ \E u \in User : Revoke(u) \/ Done(u)

Spec == Init /\ [][Next]_svars
=============================================================================

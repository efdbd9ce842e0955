----------------------------- MODULE MCFreight -----------------------------
(* Small instances of Freight for TLC: see the .cfg files. *)
EXTENDS Freight, TLC

CONSTANTS c1, d1

\* Driver d1 alone works for the company that owns cargo c1.
OneColleague == {<<c1, d1>>}

\* The rows of a table and the handlers are interchangeable.
Symmetry ==
  Permutations(Offer) \cup Permutations(Trip) \cup Permutations(Request)
=============================================================================

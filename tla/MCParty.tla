------------------------------ MODULE MCParty ------------------------------
(***************************************************************************)
(* A small instance of Party: two parties and one who is in neither.       *)
(***************************************************************************)
EXTENDS Party

CONSTANTS ann, bob, cid, dan, eve, p1, p2

Alike == Permutations(Players) \cup Permutations(PartyIds)
=============================================================================

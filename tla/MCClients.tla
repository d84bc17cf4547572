----------------------------- MODULE MCClients -----------------------------
(***************************************************************************)
(* A small instance of Clients: an account with two characters, one of its *)
(* connections still there when the next one comes, and two scripts.       *)
(***************************************************************************)
EXTENDS Clients

CONSTANTS k1, k2, c1, c2, s1, s2
=============================================================================

------------------------- MODULE MCClientSessions -------------------------
(***************************************************************************)
(* ClientSessions for TLC: two coroutines of one client, and as many pairs *)
(* as it takes to log in, refresh and be signed in elsewhere.              *)
(***************************************************************************)
EXTENDS ClientSessions, TLC

Symmetry == Permutations(Tasks) \cup Permutations(Families)
=============================================================================

-------------------------- MODULE MCAndroidClient --------------------------
(***************************************************************************)
(* AndroidClient for TLC: two coroutines at a time, two keys (one more     *)
(* than an installation may use).                                          *)
(***************************************************************************)
EXTENDS AndroidClient, TLC

Symmetry == Permutations(Tasks) \cup Permutations(Keys)
=============================================================================

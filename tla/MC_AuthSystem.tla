---------------------------- MODULE MC_AuthSystem ----------------------------
(* Model of AuthSystem: one user, one browser, two requests in flight. *)
EXTENDS AuthSystem, TLC
Interchangeable == Permutations(Requests)
=============================================================================

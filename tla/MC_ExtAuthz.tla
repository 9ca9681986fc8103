---------------------------- MODULE MC_ExtAuthz -----------------------------
(* Model of ExtAuthz: one name used by two users, two requests in flight. *)
EXTENDS ExtAuthz, TLC
Interchangeable == Permutations(Requests) \cup Permutations(Subjects)
=============================================================================

--------------------------- MODULE MC_TokenBroker ---------------------------
(* Model of TokenBroker: lifetimes on both sides of the grace period. *)
EXTENDS TokenBroker
MCLifetimes == {2}
=============================================================================

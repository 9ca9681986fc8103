---------------------------- MODULE SourceBounds ----------------------------
(***************************************************************************)
(* What the two models of sessionspaces share: the mark for no value, and  *)
(* the bounds on how often its sources change and requests fail.           *)
(***************************************************************************)

CONSTANTS
    None,        \* "no value"
    MaxChanges,  \* bound: changes of the sources
    MaxFaults    \* bound: failed requests

VARIABLES changes, faults   \* counters for the bounds
=============================================================================

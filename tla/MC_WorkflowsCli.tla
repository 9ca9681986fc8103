-------------------------- MODULE MC_WorkflowsCli --------------------------
(* Two processes; a chart of two templates, charts of one bad template (a       *)
(* label, no name) and one that helm does not render; one rule of each type.    *)
(* Lints share no state with the login or with `create`, so runs that mix them  *)
(* are left out.                                                                *)
EXTENDS WorkflowsCli, TLC

Good(key) == [named |-> TRUE, valid |-> TRUE, labels |-> key :> "true", annotations |-> "repository" :> "url"]

Rendered ==
    [two |-> <<Good("mx"), Good("imaging")>>,
     bad |-> <<[Good("mx") EXCEPT !.labels = "mx" :> "yes"]>>,
     unnamed |-> <<[Good("imaging") EXCEPT !.named = FALSE]>>,
     none |-> <<>>]

RuleSet ==
    {[type |-> "stem", location |-> "labels", options |-> {"mx", "imaging"}],
     [type |-> "requiredKey", location |-> "annotations", key |-> "repository"]}

Lints(p) == "linted" \in DOMAIN proc[p]
Unmixed == (\E p \in Procs : Lints(p)) => issued = 1 /\ ~expired /\ repo = None

Interchangeable == Permutations(Procs)
=============================================================================

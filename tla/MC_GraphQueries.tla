-------------------------- MODULE MC_GraphQueries ---------------------------
(* Model of GraphQueries: filters of every kind, templates with parameters of
   every kind, and workflows whose nodes form a diamond. *)
EXTENDS GraphQueries, TLC

NoFilter == [status |-> {}, creator |-> None, template |-> None, labels |-> {}]
Selector(k, op, vs) == [key |-> k, operator |-> op, values |-> vs]

MCFilters == {
    NoFilter,
    [NoFilter EXCEPT !.status = {"Running", "Succeeded"}, !.labels = {Selector("creator", "In", <<"u1", "u2">>)}],
    [NoFilter EXCEPT !.creator = "u2", !.labels = {Selector("template", "NotIn", <<"own">>)}],
    [NoFilter EXCEPT !.template = "plain", !.labels = {Selector("preferred-username", "Exists", None),
                                                       Selector("creator", "Ne", <<"u2">>),
                                                       Selector("missing", "DoesNotExist", None)}],
    [NoFilter EXCEPT !.labels = {Selector("template", "Eq", <<>>)}] }

Group(gs) == [g \in gs |-> "true"]

Param(n) == [name |-> n, valueFrom |-> FALSE, value |-> None, default |-> None, enum |-> {}, annotation |-> "none"]

MCCatalog == <<
    [name |-> "plain", labels |-> Group({"mx"}), schema |-> None,
     arguments |-> <<[Param("v") EXCEPT !.valueFrom = TRUE]>>,
     inputs |-> <<[Param("q") EXCEPT !.enum = {"true", "word"}]>>],
    [name |-> "own", labels |-> Group({"mx", "imaging"}), schema |-> [n \in {"p"} |-> "own"],
     arguments |-> <<Param("q")>>, inputs |-> <<>>],
    [name |-> "broken", labels |-> Group({"imaging"}), schema |-> None,
     arguments |-> <<[Param("p") EXCEPT !.annotation = "bad"]>>, inputs |-> <<>>],
    [name |-> "garbled", labels |-> Group({"mx"}), schema |-> Malformed, arguments |-> <<>>, inputs |-> <<>>] >>

MCJsonKind == [x \in {"true", "word"} |-> IF x = "true" THEN "bool" ELSE None]
MCFormValues == {Null, Json("bool", "true"), Json("string", "word"), Json("string", "true")}
MCGroupFilters == {{}, {"mx"}, {"mx", "imaging"}}
MCShape == <<{2, 3}, {4}, {4}, {}>>
MCUsers == {"u1", "u2"}
MCNameless == {"u2"}
MCTriggerNames == {"a", "b"}
MCLimits == [workflows |-> {1, 31}, templates |-> {None, 1}, triggers |-> {0, 1}]

\* No request looks at workflows and triggers both: one of the lists is enough.
OneList == argo = <<>> \/ triggers = <<>>
=============================================================================

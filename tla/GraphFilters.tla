---------------------------- MODULE GraphFilters ----------------------------
(***************************************************************************)
(* The filters of graph-proxy's list queries (graphql/filters.rs): what a  *)
(* client asks for, turned into the label selector of the Argo API, and    *)
(* what the API makes of it (external).                                    *)
(*                                                                         *)
(* Abstractions.  A selector is the set of requirements its text joins     *)
(* with commas.  Labels are a function from the keys that are present.     *)
(***************************************************************************)
EXTENDS Naturals, Sequences, FiniteSets

CONSTANT None   \* "no value"

\* What a list gives for some of its places: the elements there, in order.
Nth(places, k) == CHOOSE i \in places : Cardinality({j \in places : j <= i}) = k
Pick(s, places) == [k \in 1..Cardinality(places) |-> s[Nth(places, k)]]

Req(key, op, values) == [key |-> key, op |-> op, values |-> values]

\* The `expect`s and indexings of to_label_selector fail: the request dies.
Panics(l) ==
    \/ l.operator \in {"Eq", "Ne"} /\ l.values \in {None, <<>>}
    \/ l.operator \in {"In", "NotIn"} /\ l.values = None

ValueSet(l) == {l.values[i] : i \in DOMAIN l.values}

\* Mutant: the keyword without its negation.
NotInAsIn(l) ==
    CASE l.operator \in {"Eq", "Ne"} -> Req(l.key, "in", {l.values[1]})
      [] l.operator \in {"In", "NotIn"} -> Req(l.key, "in", ValueSet(l))
      [] OTHER -> Req(l.key, "exists", {})

\* to_label_selector: Eq and Ne take the first value and ignore the others.
ToLabelSelector(l) ==
    CASE l.operator = "Eq"           -> Req(l.key, "in", {l.values[1]})
      [] l.operator = "Ne"           -> Req(l.key, "notin", {l.values[1]})
      [] l.operator = "In"           -> Req(l.key, "in", ValueSet(l))
      [] l.operator = "NotIn"        -> Req(l.key, "notin", ValueSet(l))
      [] l.operator = "Exists"       -> Req(l.key, "exists", {})
      [] l.operator = "DoesNotExist" -> Req(l.key, "absent", {})

\* WorkflowStatusFilter: with no phase enabled there is no requirement.
StatusLabels(phases) == IF phases = {} THEN {} ELSE {Req("phase", "in", phases)}

CreatorLabels(creator) ==
    IF creator = None THEN {} ELSE {Req("preferred-username", "in", {creator})}

TemplateLabels(template) ==
    IF template = None THEN {} ELSE {Req("template", "in", {template})}

\* WorkflowFilter::create_label_selection.
WorkflowSelection(f) ==
    StatusLabels(f.status) \cup CreatorLabels(f.creator) \cup TemplateLabels(f.template)
        \cup {ToLabelSelector(l) : l \in f.labels}

\* WorkflowTemplatesFilter::create_label_selection: one requirement per group.
TemplateSelection(groups) == {Req(g, "in", {"true"}) : g \in groups}

\* What the API server makes of a requirement.
Meets(labels, r) ==
    CASE r.op = "in"     -> r.key \in DOMAIN labels /\ labels[r.key] \in r.values
      [] r.op = "notin"  -> r.key \in DOMAIN labels => labels[r.key] \notin r.values
      [] r.op = "exists" -> r.key \in DOMAIN labels
      [] r.op = "absent" -> r.key \notin DOMAIN labels

Selected(labels, selection) == \A r \in selection : Meets(labels, r)
=============================================================================

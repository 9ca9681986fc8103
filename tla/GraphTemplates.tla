--------------------------- MODULE GraphTemplates ---------------------------
(***************************************************************************)
(* Workflow templates and their parameters as graph-proxy presents them    *)
(* (graphql/{parameter_schema,workflow_templates,workflows}.rs): the       *)
(* schema of the form a user fills in, how the filled form becomes Argo    *)
(* parameters, and how the parameters of a workflow are shown again.       *)
(*                                                                         *)
(* Abstractions.  A JSON value is its kind and its text.  A schema is what *)
(* it says of each parameter; annotated schemas are opaque.                *)
(***************************************************************************)
EXTENDS GraphFilters, Functions, SequencesExt

CONSTANTS
    JsonKind,   \* JsonKind[x]: the kind of JSON text x is, or None: not JSON
    Malformed   \* an author's schema that is not JSON

ASSUME MalformedIsSome == Malformed # None

Json(kind, text) == [kind |-> kind, text |-> text]
Null == Json("null", None)

(***************************************************************************)
(* The schema.                                                             *)
(***************************************************************************)

\* infer_string_schema and infer_enum_schema: a value is shown as the default.
InferredSchema(p) ==
    [type |-> IF p.enum = {} THEN "string" ELSE "enum", options |-> p.enum,
     default |-> IF p.value = None THEN p.default ELSE p.value]

\* add_parameter: an annotation of that name wins over what is inferred.
AddParameter(p) ==
    IF p.annotation = "good" THEN [type |-> "annotated", options |-> {}, default |-> None]
    ELSE InferredSchema(p)

\* Mutant: the inputs of the entrypoint are forgotten.
FormArguments(t) == Pick(t.arguments, {i \in DOMAIN t.arguments : ~t.arguments[i].valueFrom})

\* ArgumentSchema::new: arguments, then inputs of the entrypoint's template;
\* what has a source (valueFrom) is not asked for.
FormParameters(t) ==
    LET all == t.arguments \o t.inputs
    IN  Pick(all, {i \in DOMAIN all : ~all[i].valueFrom})

\* The author's own schema (t.schema), which may not be JSON, is taken instead of a
\* derived one; that fails if an annotation it needs is not JSON.
HasForm(t) ==
    IF t.schema # None THEN t.schema # Malformed
    ELSE \A p \in Range(FormParameters(t)) : p.annotation # "bad"

\* The schemas of the parameters ps by name; one that comes later replaces an
\* earlier one of its name (BTreeMap::insert).
Properties(ps) ==
    [n \in {p.name : p \in Range(ps)} |-> AddParameter(ps[Max({i \in DOMAIN ps : ps[i].name = n})])]

\* WorkflowTemplate::arguments.
Arguments(t) == IF t.schema # None THEN t.schema ELSE Properties(FormParameters(t))

\* The schema's "required": every property, one with a default too.
Required(t) == DOMAIN Arguments(t)

(***************************************************************************)
(* There and back.                                                         *)
(***************************************************************************)

\* Mutant: a string is quoted like any other value.
QuotedParameter(v) == IF v.kind = "null" THEN None
                      ELSE IF v.kind = "string" THEN <<"quoted", v.text>> ELSE v.text

\* to_argo_parameter: null is left out, all else is its text, strings unquoted.
ToArgoParameter(v) == IF v.kind = "null" THEN None ELSE v.text

\* Workflow::parameters: text that happens to be JSON is shown as that value.
Shown(text) ==
    IF text = None THEN Null
    ELSE IF text \in DOMAIN JsonKind /\ JsonKind[text] # None THEN Json(JsonKind[text], text)
    ELSE Json("string", text)

\* The parameters of the submit request, and so the arguments of the workflow.
Given(values) ==
    [n \in {m \in DOMAIN values : ToArgoParameter(values[m]) # None} |-> ToArgoParameter(values[n])]

\* Argo (external) refuses a workflow with a parameter that has neither a
\* source, nor a submitted value, nor one of its own.
Unbound(t, given) ==
    \E p \in Range(t.arguments \o t.inputs) :
        ~p.valueFrom /\ p.name \notin DOMAIN given /\ p.value = None /\ p.default = None
=============================================================================

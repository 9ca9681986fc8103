---------------------------- MODULE GraphQueries ----------------------------
(***************************************************************************)
(* graph-proxy's queries and mutations (graphql/{workflows,                *)
(* workflow_templates,triggers,mod}.rs) as one client uses them, while     *)
(* the visit's workflows change underneath: a walk through a list page by  *)
(* page, a workflow and then its tasks, a submission through auth-daemon.  *)
(*                                                                         *)
(* External: the Argo API lists a visit's workflows, live and archived,    *)
(* newest first, and resumes at an offset; the Kubernetes API resumes a    *)
(* list of triggers in the snapshot its continue token names.  Several     *)
(* workflows may carry one name once the earlier ones have ended.          *)
(***************************************************************************)
EXTENDS GraphTemplates, Naturals

CONSTANTS
    Users,        \* people: creators of workflows, owners of triggers
    Me,           \* the client
    Nameless,     \* those whose account has no preferred username
    Catalog,      \* the cluster workflow templates, in listing order
    Filters,      \* workflow filters clients use
    GroupFilters, \* template filters: sets of science groups
    Limits,       \* Limits[kind]: page sizes clients ask for (None: none given)
    FormValues,   \* JSON values clients put in a form
    TriggerNames, \* names of triggers
    Shape,        \* Shape[i]: the children of the i-th node of every workflow
    MaxUid        \* bound: workflows created over a behaviour

ASSUME MaxUidNat == MaxUid \in Nat

VARIABLES
    argo,      \* the visit's workflows, newest first
    uids,      \* how many have been created; the n-th has uid n
    triggers,  \* the triggers, in listing order
    client     \* what the client is doing

vars == <<argo, uids, triggers, client>>

FixedName == 0     \* the name that people who submit by hand use again and again
Phases == {"None", "Pending", "Running", "Succeeded"}    \* "None": no status yet
Completed == {"Succeeded"}

(***************************************************************************)
(* A workflow as the graph presents it.                                    *)
(***************************************************************************)

\* WorkflowCreator::from_argo_workflow_labels, with its fallback.
Creator(w) == IF "preferred-username" \in DOMAIN w.labels THEN w.labels["preferred-username"]
              ELSE w.labels["creator"]

\* The labels the API filters on; Argo maintains the phase label.
Labels(w) == IF w.phase = "None" THEN w.labels
             ELSE [k \in DOMAIN w.labels \cup {"phase"} |-> IF k = "phase" THEN w.phase ELSE w.labels[k]]

\* WorkflowStatus::new: no status is an error; "Pending" has no tasks.
HasTasks(w) == w.phase \in {"Running", "Succeeded"}

\* The nodes of a workflow's status, each with its children.
NodesOf(w) ==
    IF ~HasTasks(w) THEN {}
    ELSE {[id |-> <<w.uid, i>>, children |-> {<<w.uid, j>> : j \in Shape[i]}] : i \in DOMAIN Shape}

\* Mutant: children taken for parents.
ChildrenAsParents(nodes) == [n \in nodes |-> n.children]

\* generate_relationship_map: who lists the node as a child.
RelationshipMap(nodes) == [n \in nodes |-> {m.id : m \in {k \in nodes : n.id \in k.children}}]

\* Task: how it stands to the other tasks.
Task(node, depends) == [id |-> node.id, dependencies |-> node.children, depends |-> depends]

\* into_tasks.
IntoTasks(nodes) == {Task(n, RelationshipMap(nodes)[n]) : n \in nodes}

(***************************************************************************)
(* Lists.                                                                  *)
(***************************************************************************)

DefaultLimit(kind) == IF kind = "templates" THEN 100 ELSE 10

\* Mutant: the validators are gone.
LimitUnchecked(kind, limit) == TRUE

\* The validators: 1..30 and 1..100; `triggers` has none, and 0 means no limit.
LimitAccepted(kind, limit) ==
    limit # None => CASE kind = "workflows" -> limit \in 1..30
                      [] kind = "templates" -> limit \in 1..100
                      [] OTHER -> TRUE

PageSize(kind, limit) == IF limit = None THEN DefaultLimit(kind) ELSE limit

\* What the Argo API selects of the workflows ws.
Matching(ws, f) == Pick(ws, {i \in DOMAIN ws : Selected(Labels(ws[i]), WorkflowSelection(f))})

\* The triggers labelled with the caller's posix uid.
OwnTriggers == Pick(triggers, {i \in DOMAIN triggers : triggers[i].owner = Me})

\* What the Argo API and the Kubernetes API select for a walk.
Listing(c) ==
    CASE c.kind = "workflows" -> Matching(argo, c.filter)
      [] c.kind = "templates" ->
           Pick(Catalog, {i \in DOMAIN Catalog : Selected(Catalog[i].labels, TemplateSelection(c.filter))})
      [] c.kind = "triggers" -> OwnTriggers

Key(kind, x) == IF kind = "workflows" THEN x.uid ELSE x.name
Keys(kind, xs) == [i \in DOMAIN xs |-> Key(kind, xs[i])]

\* Mutant: the cursor of an edge skips the one that follows it.
EdgeCursorOff(cursor, idx) == cursor + idx + 1

\* workflows, workflow_templates: OpaqueCursor(cursor_index + idx + 1), with idx
\* counted from 1 here.
EdgeCursor(cursor, idx) == cursor + idx

\* The page at an offset: its items, whether it has neighbours, and the cursor
\* of its last edge.
OffsetPage(all, n, cursor) ==
    LET items == SubSeq(all, cursor + 1, Min({cursor + n, Len(all)}))
    IN  [items |-> items, hasPrevious |-> cursor > 0, hasNext |-> Len(all) > cursor + n,
         cursor |-> EdgeCursor(cursor, Len(items))]

\* triggers: the cursor is the continue token, which stands for the rest of the
\* snapshot; every edge of the page carries it.
TokenPage(rest, n, first) ==
    LET k == IF n = 0 \/ n > Len(rest) THEN Len(rest) ELSE n
    IN  [items |-> SubSeq(rest, 1, k), hasPrevious |-> ~first, hasNext |-> Len(rest) > k,
         cursor |-> SubSeq(rest, k + 1, Len(rest))]

Page(c) ==
    LET n == PageSize(c.kind, c.limit)
    IN  IF c.kind = "triggers"
        THEN TokenPage(IF c.pages = 0 THEN Listing(c) ELSE c.cursor, n, c.pages = 0)
        ELSE OffsetPage(Listing(c), n, c.cursor)

\* What the filter asks for, in the terms of the fields the graph shows.
Asked(f, w) ==
    /\ f.status = {} \/ w.phase \in f.status
    /\ f.creator = None \/ Creator(w) = f.creator
    /\ f.template = None \/ w.template = f.template
    /\ \A l \in f.labels : LET has == l.key \in DOMAIN Labels(w)
                               value == Labels(w)[l.key]
                           IN
         CASE l.operator = "Exists" -> has
           [] l.operator = "DoesNotExist" -> ~has
           [] l.operator = "Eq" -> has /\ value = l.values[1]
           [] l.operator = "In" -> has /\ value \in ValueSet(l)
           [] l.operator = "Ne" -> ~has \/ value # l.values[1]
           [] OTHER -> ~has \/ value \notin ValueSet(l)

\* A template says that it belongs to a group.
InGroup(t, g) == g \in DOMAIN t.labels /\ t.labels[g] = "true"

AskedKeys(c) ==
    CASE c.kind = "workflows" -> Keys(c.kind, Pick(argo, {i \in DOMAIN argo : Asked(c.filter, argo[i])}))
      [] c.kind = "templates" ->
           Keys(c.kind, Pick(Catalog, {i \in DOMAIN Catalog : \A g \in c.filter : InGroup(Catalog[i], g)}))
      [] c.kind = "triggers" -> Keys(c.kind, OwnTriggers)

Idle == [at |-> "idle"]
Failed == [at |-> "failed"]     \* the client got an error, or no answer at all

\* A client starts a walk.  The request dies if its filter panics.
StartWalk(kind, f, limit) ==
    /\ client = Idle
    /\ LimitAccepted(kind, limit)
    /\ client' = IF kind = "workflows" /\ \E l \in f.labels : Panics(l) THEN Failed
                 ELSE [at |-> "walk", kind |-> kind, filter |-> f, limit |-> limit, cursor |-> 0,
                       pages |-> 0, linked |-> TRUE, seen |-> <<>>, asked |-> <<>>, odd |-> {},
                       added |-> FALSE, removed |-> FALSE, swallowed |-> FALSE]
    /\ UNCHANGED <<argo, uids, triggers>>

\* History: what the walk should see, as of its first page.
Asking(c) ==
    IF c.pages > 0 THEN c
    ELSE [c EXCEPT !.asked = AskedKeys(c),
                   !.odd = {w.uid : w \in {v \in Range(argo) : c.kind = "workflows" /\
                                "preferred-username" \notin DOMAIN v.labels}}]

\* One page; the client goes on from its last edge while hasNextPage says so.
NextPage ==
    /\ client.at = "walk"
    /\ LET p == Page(client) IN
       client' = [Asking(client) EXCEPT
                    !.at = IF p.hasNext THEN "walk" ELSE "walked",
                    !.cursor = p.cursor,
                    !.linked = @ /\ (p.hasPrevious <=> client.pages > 0),
                    !.pages = @ + 1,
                    !.seen = @ \o Keys(client.kind, p.items)]
    /\ UNCHANGED <<argo, uids, triggers>>

\* The API answers with an error: "Unauthorized" goes to the client, and so does
\* any error of the trigger API; others become an empty page without neighbours.
PageFails ==
    /\ client.at = "walk"
    /\ \/ client' = Failed
       \/ /\ client.kind # "triggers"
          /\ client' = [client EXCEPT !.at = "walked", !.pages = @ + 1, !.swallowed = TRUE]
    /\ UNCHANGED <<argo, uids, triggers>>

(***************************************************************************)
(* One workflow and its tasks.                                             *)
(***************************************************************************)

\* The most recent of the workflows at the given places, or none.
Newest(places) == IF places = {} THEN None ELSE argo[Min(places)]

\* The API's answer for a name: the most recent workflow of that name.
ByName(n) == Newest({i \in DOMAIN argo : argo[i].name = n})

\* ... and for a name and a uid.
ByUid(n, u) == Newest({i \in DOMAIN argo : argo[i].name = n /\ argo[i].uid = u})

Hold(w, nodes) == [at |-> "hold", wf |-> w, nodes |-> nodes]

\* workflow: by name.  A 404 is an answer (null).
GetWorkflow(n) ==
    /\ client = Idle
    /\ client' = IF ByName(n) = None THEN Idle ELSE Hold(ByName(n), NodesOf(ByName(n)))
    /\ UNCHANGED <<argo, uids, triggers>>

\* workflow_by_id and node: by the three parts of an id.
GetWorkflowById(n, u) ==
    /\ client = Idle
    /\ client' = IF ByUid(n, u) = None THEN Idle ELSE Hold(ByUid(n, u), NodesOf(ByUid(n, u)))
    /\ UNCHANGED <<argo, uids, triggers>>

\* A workflow of a list: the API leaves out its nodes.
TakeListed(i) ==
    /\ client = Idle
    /\ client' = Hold(argo[i], {})
    /\ UNCHANGED <<argo, uids, triggers>>

\* Mutant: whichever workflow is the newest.
FetchAnyTaskInfo(c) == IF argo = <<>> THEN None ELSE Head(argo)

\* fetch_missing_task_info: if there are no nodes, the workflow is fetched again,
\* by visit and name only.
FetchMissingTaskInfo(c) == IF c.nodes # {} THEN c.wf ELSE ByName(c.wf.name)

\* tasks: an error if the workflow is gone; no answer (the unwrap) if the one
\* that has its name now has no status yet.
ResolveTasks ==
    /\ client.at = "hold"
    /\ HasTasks(client.wf)
    /\ LET w == FetchMissingTaskInfo(client) IN
       client' = IF w = None \/ (client.nodes = {} /\ w.phase = "None")
                 THEN [at |-> "tasks", wf |-> client.wf, tasks |-> {}, failed |-> TRUE]
                 ELSE [at |-> "tasks", wf |-> client.wf, failed |-> FALSE,
                       tasks |-> IntoTasks(IF client.nodes # {} THEN client.nodes ELSE NodesOf(w))]
    /\ UNCHANGED <<argo, uids, triggers>>

(***************************************************************************)
(* Submissions, as auth-daemon forwards them: an answer with errors is     *)
(* tried once more.                                                        *)
(***************************************************************************)

NewWorkflow(origin, name, labels, template) ==
    [uid |-> uids + 1, origin |-> origin, name |-> name, phase |-> "None", labels |-> labels,
     template |-> template]

Created(w) == argo' = <<w>> \o argo /\ uids' = uids + 1

\* The labels Argo gives a workflow: who submitted it and from what.
CreatedBy(u, t) ==
    [k \in {"creator"} \cup (IF u \in Nameless THEN {} ELSE {"preferred-username"})
                       \cup (IF t = None THEN {} ELSE {"template"}) |-> IF k = "template" THEN t ELSE u]

\* A client submits a template with its form, or a manifest of its own.
Submit(t, values) ==
    /\ client = Idle
    /\ t # None => HasForm(t) /\ DOMAIN values = Required(t)
    /\ client' = [at |-> "submit", template |-> t, values |-> values,
                  attempt |-> 1, lost |-> 0, made |-> {}, unbound |-> FALSE]
    /\ UNCHANGED <<argo, uids, triggers>>

\* The name Argo generates from generateName: nobody else has it.
GeneratedName == uids + 1

\* Mutant: a manifest keeps its metadata.name.
KeptName(t) == IF t = None THEN FixedName ELSE GeneratedName

\* submit_workflow turns a fixed metadata.name into generateName, and
\* submit_workflow_template names nothing.
SubmittedName(t) == GeneratedName

Submission(c) ==
    LET t == IF c.template = None THEN None ELSE c.template.name
    IN  NewWorkflow("graph", SubmittedName(c.template), CreatedBy(Me, t), t)

\* submit_workflow_template, submit_workflow: Argo creates the workflow.
SubmitAccepted ==
    /\ client.at = "submit" /\ uids < MaxUid
    /\ client.template # None => ~Unbound(client.template, Given(client.values))
    /\ Created(Submission(client))
    /\ \/ client' = [client EXCEPT !.at = "submitted", !.made = @ \cup {uids + 1}]
       \/ client' = [client EXCEPT !.at = "errors", !.made = @ \cup {uids + 1}, !.lost = @ + 1]
    /\ UNCHANGED triggers

\* Argo refuses, or cannot be reached: the answer has errors.
SubmitRefused ==
    /\ client.at = "submit"
    /\ client' = [client EXCEPT !.at = "errors",
                    !.unbound = client.template # None /\ Unbound(client.template, Given(client.values))]
    /\ UNCHANGED <<argo, uids, triggers>>

\* Mutant: every error is worth another try.
RetryAgain(c) == TRUE

\* should_retry: any answer with errors, mutations included, and once only.
RetryAllowed(c) == c.attempt = 1

Retry ==
    /\ client.at = "errors"
    /\ client' = IF RetryAllowed(client) THEN [client EXCEPT !.at = "submit", !.attempt = 2]
                 ELSE [client EXCEPT !.at = "refused"]
    /\ UNCHANGED <<argo, uids, triggers>>

(***************************************************************************)
(* Triggers.                                                               *)
(***************************************************************************)

\* create_trigger: labelled with the caller's posix uid; a name in use is refused.
CreateTrigger(n) ==
    /\ client = Idle
    /\ client' = IF \E t \in Range(triggers) : t.name = n THEN Failed ELSE Idle
    /\ triggers' = IF \E t \in Range(triggers) : t.name = n THEN triggers
                   ELSE Append(triggers, [name |-> n, owner |-> Me])
    /\ UNCHANGED <<argo, uids>>

\* The guard of `trigger`: the label must be there and be the caller's.
MayRead(t) == t.owner = Me

\* trigger: the proxy reads with its own account, so this check is the only one.
GetTrigger(i) ==
    /\ client = Idle
    /\ client' = IF MayRead(triggers[i]) THEN [at |-> "trigger", trigger |-> triggers[i]]
                 ELSE Failed
    /\ UNCHANGED <<argo, uids, triggers>>

(***************************************************************************)
(* Everything else that moves.                                             *)
(***************************************************************************)

\* The history fields of a walk under way.
Noted ==
    IF client.at = "walk" /\ client.kind = "workflows" /\ client.pages > 0
    THEN LET before == Range(Keys("workflows", Listing(client)))
             after == Range(Keys("workflows", Matching(argo', client.filter)))
         IN  client' = [client EXCEPT !.added = @ \/ ~(after \subseteq before),
                                      !.removed = @ \/ ~(before \subseteq after)]
    ELSE client' = client

\* Somebody submits by hand, under the name he always uses.
SubmitByHand(u) ==
    /\ uids < MaxUid
    /\ \A w \in Range(argo) : w.name = FixedName => w.phase \in Completed
    /\ Created(NewWorkflow("hand", FixedName, CreatedBy(u, None), None))
    /\ Noted
    /\ UNCHANGED triggers

Successor(phase) == CASE phase = "None" -> "Pending" [] phase = "Pending" -> "Running" [] OTHER -> "Succeeded"

WorkflowProceeds(i) ==
    /\ argo[i].phase # "Succeeded"
    /\ argo' = [argo EXCEPT ![i].phase = Successor(argo[i].phase)]
    /\ Noted
    /\ UNCHANGED <<uids, triggers>>

WorkflowDeleted(i) ==
    /\ argo' = RemoveAt(argo, i)
    /\ Noted
    /\ UNCHANGED <<uids, triggers>>

\* A trigger applied with kubectl: somebody's label, or none.
TriggerApplied(n, o) ==
    /\ \A t \in Range(triggers) : t.name # n
    /\ triggers' = <<[name |-> n, owner |-> o]>> \o triggers
    /\ UNCHANGED <<argo, uids, client>>

TriggerDeleted(i) ==
    /\ triggers' = RemoveAt(triggers, i)
    /\ UNCHANGED <<argo, uids, client>>

ClientDone ==
    /\ client.at \in {"failed", "walked", "tasks", "submitted", "refused", "trigger"}
       \/ client.at = "hold"
    /\ client' = Idle
    /\ UNCHANGED <<argo, uids, triggers>>

Init ==
    /\ argo = <<>> /\ uids = 0 /\ triggers = <<>>
    /\ client = Idle

\* Triggers are filtered by their owner and by nothing else.
Walks ==
    \/ \E f \in Filters, l \in Limits["workflows"] : StartWalk("workflows", f, l)
    \/ \E g \in GroupFilters, l \in Limits["templates"] : StartWalk("templates", g, l)
    \/ \E l \in Limits["triggers"] : StartWalk("triggers", None, l)

Queries ==
    \/ Walks \/ NextPage \/ PageFails
    \/ \E n \in 0..MaxUid : GetWorkflow(n) \/ \E u \in 1..uids : GetWorkflowById(n, u)
    \/ \E i \in DOMAIN argo : TakeListed(i)
    \/ ResolveTasks
    \/ \E i \in DOMAIN triggers : GetTrigger(i)

Mutations ==
    \/ Submit(None, <<>>)
    \/ \E t \in Range(Catalog) : HasForm(t) /\ \E values \in [Required(t) -> FormValues] : Submit(t, values)
    \/ SubmitAccepted \/ SubmitRefused \/ Retry
    \/ \E n \in TriggerNames : CreateTrigger(n)

Cluster ==
    \/ \E u \in Users : SubmitByHand(u)
    \/ \E i \in DOMAIN argo : WorkflowProceeds(i) \/ WorkflowDeleted(i)
    \/ \E n \in TriggerNames, o \in Users \cup {None} : TriggerApplied(n, o)
    \/ \E i \in DOMAIN triggers : TriggerDeleted(i)

Next == Queries \/ Mutations \/ Cluster \/ ClientDone

Spec == Init /\ [][Next]_vars

(***************************************************************************)
(* Properties.                                                             *)
(***************************************************************************)

TemplateNames == {t.name : t \in Range(Catalog)}

Workflow ==
    [uid: 1..MaxUid, origin: {"graph", "hand"}, name: 0..MaxUid, phase: Phases,
     labels: UNION {[ks -> Users \cup TemplateNames] : ks \in SUBSET {"creator", "preferred-username", "template"}},
     template: {None} \cup TemplateNames]

\* "No value" is not a workflow, and the client is one of the people.
ASSUME NoneIsNoWorkflow == None \notin Workflow
ASSUME ClientIsUser == Me \in Users

\* Lists are lists.
ASSUME CatalogIsList ==
    /\ Catalog \in Seq(Range(Catalog))
    /\ \A t \in Range(Catalog) : t.arguments \in Seq(Range(t.arguments)) /\ t.inputs \in Seq(Range(t.inputs))

\* WorkflowFilter: phases that a status has, and the six operators.
ASSUME FiltersTyped ==
    \A f \in Filters :
        /\ "None" \notin f.status
        /\ \A l \in f.labels : l.operator \in {"Exists", "DoesNotExist", "Eq", "Ne", "In", "NotIn"}

\* A limit of triggers, which no validator looks at, is a natural number.
ASSUME TriggerLimits == Limits["triggers"] \subseteq Nat \cup {None}

\* A JSON value is null, a string, or what its text reads as.
ASSUME FormIsJson ==
    \A v \in FormValues :
        \/ v = Null
        \/ /\ v = Json(v.kind, v.text) /\ v.kind # "null" /\ v.text # None
           /\ v.kind # "string" => v.kind # None /\ v.text \in DOMAIN JsonKind /\ JsonKind[v.text] = v.kind

\* Every workflow has its fields, the newest comes first, the client is in one of
\* its places, and no page of workflows is empty by request or over thirty long.
TypeOK ==
    /\ uids \in 0..MaxUid
    /\ \A w \in Range(argo) : w \in Workflow /\ w.uid <= uids
    /\ \A i, j \in DOMAIN argo : i < j => argo[i].uid > argo[j].uid
    /\ \A t \in Range(triggers) : t \in [name: TriggerNames, owner: Users \cup {None}]
    /\ client.at \in {"idle", "failed", "walk", "walked", "hold", "tasks", "submit", "errors",
                      "submitted", "refused", "trigger"}
    /\ client.at = "walk" /\ client.kind = "workflows" => client.limit \in {None} \cup 1..30

\* The filter by creator looks at one label only, although the creator shown
\* falls back on another: those workflows may be missing.
Findable(c) ==
    Pick(c.asked, {i \in DOMAIN c.asked : c.kind = "workflows" /\ c.filter.creator # None => c.asked[i] \notin c.odd})

\* Paging adds up: a walk that follows endCursor while hasNextPage, and met no
\* error, has seen exactly what its filter asks for, in order and once, and only
\* its first page said that there is nothing before it.  For triggers this holds
\* whatever changes meanwhile; for workflows if the selection did not change.
WalkComplete ==
    client.at = "walked" /\ ~client.swallowed /\ (client.kind = "triggers" \/ ~(client.added \/ client.removed))
        => client.linked /\ client.seen = Findable(client)

\* The cursor is an offset into a list that moves.  A walk misses a workflow that
\* was there from the start only if another one left the selection meanwhile, and
\* shows one twice only if another one entered it.
WalkDrift ==
    client.at = "walked" /\ client.kind = "workflows" /\ ~client.swallowed =>
        /\ ~client.removed => Range(Findable(client)) \subseteq Range(client.seen)
        /\ ~client.added => IsInjective(client.seen)

\* Tasks are fetched after their workflow, by visit and name.  For a workflow
\* submitted through the graph the answer is its own tasks, with parents and
\* children that agree, and fails only if the workflow was deleted; one submitted
\* by hand can be answered with the tasks of a namesake, or with none.
TasksFaithful ==
    client.at = "tasks" =>
        /\ client.wf.origin = "graph" =>
             /\ \A t \in client.tasks : t.id[1] = client.wf.uid
             /\ client.failed => \A w \in Range(argo) : w.uid # client.wf.uid
        /\ \A a, b \in client.tasks : a.id \in b.depends <=> b.id \in a.dependencies

\* The daemon's retry of a mutation makes at most one workflow too many, and only
\* after an answer was lost; a client that is told of a success has its workflow.
SubmittedOnce ==
    client.at \in {"submitted", "refused"} =>
        /\ Cardinality(client.made) = client.lost + (IF client.at = "submitted" THEN 1 ELSE 0)
        /\ Cardinality(client.made) <= 2

\* A form filled in from the derived schema, with no null in it, is never refused
\* for a missing parameter, and the workflow shows each value as it was filled in,
\* except a string that reads as JSON.
FormFaithful ==
    client.at \in {"errors", "submitted", "refused"} /\ client.template # None =>
        /\ client.unbound => \/ client.template.schema # None
                             \/ \E n \in DOMAIN client.values : client.values[n] = Null
        /\ \A n \in DOMAIN client.values :
             LET v == client.values[n]
                 params == Given(client.values)    \* of the workflow made
             IN  \/ v = Null /\ n \notin DOMAIN params
                 \/ Shown(params[n]) = v
                 \/ v.kind = "string" /\ JsonKind[v.text] # None
=============================================================================

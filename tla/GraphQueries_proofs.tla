------------------------ MODULE GraphQueries_proofs -------------------------
(***************************************************************************)
(* graph-proxy's queries and mutations for any workflows, triggers, forms  *)
(* and bounds: types, the tasks of a workflow, the retry of a submission,  *)
(* forms, and walks along the cursors of a list.                           *)
(*                                                                         *)
(* A workflow is read, and its tasks later, by name: the invariant says    *)
(* what a name stands for (NamesOK) and what became meanwhile of the       *)
(* workflow the client holds (Held): it is gone, or it is still the one of *)
(* its uid and has gone no step back.  Counted follows the daemon's two    *)
(* attempts at a submission.  FormInv ties what was submitted to the form  *)
(* it was filled into.                                                     *)
(*                                                                         *)
(* A walk: an Argo list falls in uid (Falling), so an element is known by  *)
(* its rank, the number of those ahead of it, and two lists of the same    *)
(* elements are one.  WalkInv says what has been seen by its place.  Of    *)
(* workflows (OnWorkflows): all that should be seen up to the cursor, if   *)
(* none has left the selection; nothing after the cursor and nothing       *)
(* twice, if none has entered it; exactly the list up to the cursor if     *)
(* neither (SeenTo).  Of templates, the list up to the cursor              *)
(* (OnTemplates).  Of triggers, the snapshot without its rest              *)
(* (OnTriggers).                                                           *)
(***************************************************************************)
EXTENDS GraphQueries, FiniteSetTheorems, WellFoundedInduction, TLAPS

\* The visit's workflows, newest first.
ArgoOK ==
    /\ uids \in 0..MaxUid
    /\ argo \in Seq(Workflow)
    /\ \A i \in DOMAIN argo : argo[i].uid <= uids
    /\ \A i, j \in DOMAIN argo : i < j => argo[i].uid > argo[j].uid

Trigger == [name: TriggerNames, owner: Users \cup {None}]

\* A generated name is as good as the uid; everybody else uses one name.
Named(w) == w.name = IF w.origin = "graph" THEN w.uid ELSE FixedName

NamesOK == \A i \in DOMAIN argo : Named(argo[i])

\* The fields of a walk and of a submission.
WalkFields == {"at", "kind", "filter", "limit", "cursor", "pages", "linked", "seen", "asked", "odd", "added",
               "removed", "swallowed"}
SubmitFields == {"at", "template", "values", "attempt", "lost", "made", "unbound"}

Submitting == {"submit", "errors", "submitted", "refused"}
Places == {"idle", "failed", "walk", "walked", "hold", "tasks", "trigger"} \cup Submitting

\* Where the client is, and a walk's limit.
ClientOK ==
    /\ client.at \in Places
    /\ client.at \in {"walk", "walked"} => DOMAIN client = WalkFields
    /\ client.at = "walk" /\ client.kind = "workflows" => client.limit \in {None} \cup 1..30

\* Whoever has the uid of the workflow w still is w, as far on or further.
Succeeds(w) ==
    \A i \in DOMAIN argo : argo[i].uid = w.uid =>
        argo[i].origin = w.origin /\ (HasTasks(w) => HasTasks(argo[i]))

\* The workflow the client holds, and the nodes that came with it.
Held ==
    /\ client.at \in {"hold", "tasks"} =>
         /\ client.wf \in Workflow /\ client.wf.uid <= uids
         /\ Named(client.wf) /\ Succeeds(client.wf)
    /\ client.at = "hold" => client.nodes = {} \/ client.nodes = NodesOf(client.wf)

\* What the attempts at a submission have made.
Counted ==
    client.at \in Submitting =>
        /\ DOMAIN client = SubmitFields
        /\ client.template \in {None} \cup Range(Catalog)
        /\ client.made \in SUBSET (1..uids) /\ IsFiniteSet(client.made)
        /\ client.attempt \in {1, 2} /\ client.lost \in Nat
        /\ Cardinality(client.made) = client.lost + (IF client.at = "submitted" THEN 1 ELSE 0)
        /\ client.at \in {"submit", "submitted"} => client.lost < client.attempt
        /\ client.at = "errors" => client.lost <= client.attempt
        /\ client.at = "refused" => client.lost <= 2

WorldInv == ArgoOK /\ NamesOK /\ triggers \in Seq(Trigger)
ClientInv == ClientOK /\ Held /\ Counted /\ TasksFaithful
IInv == WorldInv /\ ClientInv

-----------------------------------------------------------------------------

\* A nonempty set of naturals has a least element.
LEMMA Least ==
    ASSUME NEW S \in SUBSET Nat, S # {}
    PROVE  Min(S) \in S /\ \A l \in S : Min(S) <= l
  <1> DEFINE R == OpToRel(<, Nat)
  <1>1. IsWellFoundedOn(R, Nat)
    BY NatLessThanWellFounded, Zenon
  <1>2. \A x, y \in Nat : y < x => <<y, x>> \in R
    BY DEF OpToRel
  <1> HIDE DEF R
  <1>3. PICK u \in S : \A y \in S : ~ (<<y, u>> \in R)
    BY <1>1, WFMin
  <1>4. \A l \in S : l \in Nat /\ u \in Nat /\ ~(l < u)
    BY <1>2, <1>3
  <1>5. \A l \in S : u <= l
    BY <1>4
  <1>6. QED
    BY <1>3, <1>5 DEF Min

\* The most recent workflow of some places is at one of them.
LEMMA NewestIs ==
    ASSUME ArgoOK, NEW S \in SUBSET DOMAIN argo
    PROVE  /\ S = {} => Newest(S) = None
           /\ S # {} => \E i \in S : Newest(S) = argo[i]
           /\ Newest(S) = None => S = {}
  <1>1. DOMAIN argo \subseteq Nat
    BY DEF ArgoOK
  <1>2. S # {} => Min(S) \in S
    BY <1>1, Least
  <1>3. \A i \in S : argo[i] # None
    BY NoneIsNoWorkflow DEF ArgoOK
  <1>4. QED
    BY <1>2, <1>3 DEF Newest

\* No two workflows have one uid.
LEMMA UidsApart ==
    ASSUME ArgoOK
    PROVE  \A i, j \in DOMAIN argo : argo[i].uid = argo[j].uid => i = j
  <1> SUFFICES ASSUME NEW i \in DOMAIN argo, NEW j \in DOMAIN argo, i # j
               PROVE  argo[i].uid # argo[j].uid
    OBVIOUS
  <1>1. argo[i].uid \in Nat /\ argo[j].uid \in Nat
    <2>1. argo[i] \in Workflow /\ argo[j] \in Workflow
      BY DEF ArgoOK
    <2>2. QED
      BY <2>1, MaxUidNat DEF Workflow
  <1>2. i \in Nat /\ j \in Nat
    BY DEF ArgoOK
  <1>3. CASE i < j
    BY <1>1, <1>3 DEF ArgoOK
  <1>4. CASE j < i
    BY <1>1, <1>4 DEF ArgoOK
  <1>5. QED
    BY <1>2, <1>3, <1>4

\* Putting a workflow in front of the others.
LEMMA ConsIs ==
    ASSUME NEW S, NEW s \in Seq(S), NEW x \in S
    PROVE  /\ <<x>> \o s \in Seq(S)
           /\ DOMAIN (<<x>> \o s) = 1..(Len(s) + 1)
           /\ (<<x>> \o s)[1] = x
           /\ \A i \in 2..(Len(s) + 1) : i - 1 \in DOMAIN s /\ (<<x>> \o s)[i] = s[i - 1]
  OBVIOUS

\* Taking one out.
LEMMA RemoveIs ==
    ASSUME NEW S, NEW s \in Seq(S), NEW k \in DOMAIN s
    PROVE  /\ RemoveAt(s, k) \in Seq(S)
           /\ DOMAIN RemoveAt(s, k) = 1..(Len(s) - 1)
           /\ \A i \in 1..(Len(s) - 1) :
                 /\ i \in DOMAIN s /\ i + 1 \in DOMAIN s
                 /\ RemoveAt(s, k)[i] = IF i < k THEN s[i] ELSE s[i + 1]
  <1> DEFINE a == SubSeq(s, 1, k - 1)
             b == SubSeq(s, k + 1, Len(s))
  <1>1. k \in 1..Len(s) /\ Len(s) \in Nat
    OBVIOUS
  <1>2. a \in Seq(S) /\ Len(a) = k - 1 /\ \A i \in 1..(k - 1) : a[i] = s[i]
    BY <1>1
  <1>3. b \in Seq(S) /\ Len(b) = Len(s) - k /\ \A i \in 1..(Len(s) - k) : b[i] = s[k + i]
    BY <1>1
  <1> HIDE DEF a, b
  <1>4. /\ a \o b \in Seq(S) /\ Len(a \o b) = Len(a) + Len(b)
        /\ \A i \in 1..(Len(a) + Len(b)) : (a \o b)[i] = IF i <= Len(a) THEN a[i] ELSE b[i - Len(a)]
    BY <1>2, <1>3
  <1>5. Len(a) + Len(b) = Len(s) - 1
    BY <1>1, <1>2, <1>3
  <1>6. ASSUME NEW i \in 1..(Len(s) - 1)
        PROVE  (a \o b)[i] = IF i < k THEN s[i] ELSE s[i + 1]
    <2>1. (a \o b)[i] = IF i <= k - 1 THEN a[i] ELSE b[i - (k - 1)]
      BY <1>2, <1>4, <1>5
    <2>2. CASE i < k
      <3>1. i \in 1..(k - 1) /\ i <= k - 1
        BY <1>1, <2>2
      <3>2. QED
        BY <1>2, <2>1, <2>2, <3>1
    <2>3. CASE ~(i < k)
      <3>1. i - (k - 1) \in 1..(Len(s) - k) /\ k + (i - (k - 1)) = i + 1 /\ ~(i <= k - 1)
        BY <1>1, <2>3
      <3>2. QED
        BY <1>3, <2>1, <2>3, <3>1
    <2>4. QED
      BY <2>2, <2>3
  <1>7. RemoveAt(s, k) = a \o b
    BY DEF RemoveAt, a, b
  <1>8. QED
    BY <1>1, <1>4, <1>5, <1>6, <1>7

\* The nodes of a workflow are its own, and an id names one node.
LEMMA NodesAre ==
    ASSUME NEW w
    PROVE  /\ \A n \in NodesOf(w) : n.id[1] = w.uid
           /\ \A m, n \in NodesOf(w) : m.id = n.id => m.children = n.children
  <1>1. CASE ~HasTasks(w)
    BY <1>1 DEF NodesOf
  <1>2. CASE HasTasks(w)
    <2>1. \A n \in NodesOf(w) : \E i \in DOMAIN Shape :
              n.id = <<w.uid, i>> /\ n.children = {<<w.uid, j>> : j \in Shape[i]}
      BY <1>2 DEF NodesOf
    <2>2. \A n \in NodesOf(w) : n.id[1] = w.uid
      BY <2>1
    <2>3. ASSUME NEW m \in NodesOf(w), NEW n \in NodesOf(w), m.id = n.id
          PROVE  m.children = n.children
      <3>1. PICK i \in DOMAIN Shape : m.id = <<w.uid, i>> /\ m.children = {<<w.uid, j>> : j \in Shape[i]}
        BY <2>1
      <3>2. PICK k \in DOMAIN Shape : n.id = <<w.uid, k>> /\ n.children = {<<w.uid, j>> : j \in Shape[k]}
        BY <2>1
      <3>3. m.id[2] = i /\ n.id[2] = k
        BY <3>1, <3>2
      <3>4. i = k
        BY <2>3, <3>3
      <3>5. QED
        BY <3>1, <3>2, <3>4
    <2>4. QED
      BY <2>2, <2>3
  <1>3. QED
    BY <1>1, <1>2

\* into_tasks: every task is of the workflow, and parents and children agree.
LEMMA TasksAgree ==
    ASSUME NEW w, NEW nodes \in {{}, NodesOf(w)}
    PROVE  /\ \A t \in IntoTasks(nodes) : t.id[1] = w.uid
           /\ \A a, b \in IntoTasks(nodes) : a.id \in b.depends <=> b.id \in a.dependencies
  <1>1. /\ \A n \in nodes : n.id[1] = w.uid
        /\ \A m, n \in nodes : m.id = n.id => m.children = n.children
    BY NodesAre
  <1>2. \A t \in IntoTasks(nodes) : \E n \in nodes :
            /\ t.id = n.id /\ t.dependencies = n.children
            /\ t.depends = {m.id : m \in {k \in nodes : n.id \in k.children}}
    BY DEF IntoTasks, Task, RelationshipMap
  <1>3. QED
    BY <1>1, <1>2

-----------------------------------------------------------------------------

\* Nothing has happened.
LEMMA InitInv == Init => IInv
  BY MaxUidNat DEF Init, Idle, IInv, WorldInv, ClientInv, ArgoOK, NamesOK, ClientOK, Held, Counted, TasksFaithful, Places,
     Submitting

\* A step of the client that leaves the world alone.
LEMMA WorldKept ==
    ASSUME IInv, UNCHANGED <<argo, uids, triggers>>
    PROVE  WorldInv'
  BY DEF IInv, WorldInv, ArgoOK, NamesOK, Named, Trigger, Workflow, FixedName

\* Of a client that neither holds a workflow nor submits, walks excepted, nothing
\* is asked.
LEMMA AtRest ==
    ASSUME client'.at \in {"idle", "failed", "trigger"}
    PROVE  ClientInv'
  BY DEF ClientInv, ClientOK, Held, Counted, TasksFaithful, Places, Submitting

\* The client starts a walk: the validators have seen its limit.
LEMMA StartWalkStep ==
    ASSUME IInv, NEW kind, NEW f, NEW limit, StartWalk(kind, f, limit)
    PROVE  IInv'
  <1>1. WorldInv'
    BY WorldKept DEF StartWalk
  <1>2. CASE client' = Failed
    BY <1>1, <1>2, AtRest DEF Failed, IInv
  <1>3. CASE client' # Failed
    <2>1. client' = [at |-> "walk", kind |-> kind, filter |-> f, limit |-> limit, cursor |-> 0,
                     pages |-> 0, linked |-> TRUE, seen |-> <<>>, asked |-> <<>>, odd |-> {},
                     added |-> FALSE, removed |-> FALSE, swallowed |-> FALSE]
      BY <1>3 DEF StartWalk
    <2>2. client'.at = "walk" /\ client'.kind = kind /\ client'.limit = limit
      BY <2>1
    <2>3. DOMAIN client' = WalkFields
      BY <2>1 DEF WalkFields
    <2>4. kind = "workflows" => limit \in {None} \cup 1..30
      BY DEF StartWalk, LimitAccepted
    <2>5. ClientInv'
      BY <2>2, <2>3, <2>4 DEF ClientInv, ClientOK, Held, Counted, TasksFaithful, Places, Submitting, WalkFields
    <2>6. QED
      BY <1>1, <2>5 DEF IInv
  <1>4. QED
    BY <1>2, <1>3

\* A walk goes on, or is over, with the limit it began with.
LEMMA WalkOn ==
    ASSUME client'.at \in {"walk", "walked"}, DOMAIN client' = WalkFields,
           client'.at = "walk" /\ client'.kind = "workflows" => client'.limit \in {None} \cup 1..30
    PROVE  ClientInv'
  BY DEF ClientInv, ClientOK, Held, Counted, TasksFaithful, Places, Submitting, WalkFields

\* A page, or an error in its place.
LEMMA PageStep ==
    ASSUME IInv, NextPage \/ PageFails
    PROVE  IInv'
  <1>1. WorldInv'
    BY WorldKept DEF NextPage, PageFails
  <1>2. /\ client.at = "walk" /\ DOMAIN client = WalkFields
        /\ client.kind = "workflows" => client.limit \in {None} \cup 1..30
    BY DEF NextPage, PageFails, IInv, ClientInv, ClientOK
  <1>3. CASE NextPage
    <2> DEFINE c == Asking(client)
               pg == Page(client)
    <2>1. DOMAIN c = WalkFields /\ c.kind = client.kind /\ c.limit = client.limit
      BY <1>2 DEF Asking, WalkFields
    <2> HIDE DEF c, pg
    <2>2. client' = [c EXCEPT !.at = IF pg.hasNext THEN "walk" ELSE "walked",
                              !.cursor = pg.cursor,
                              !.linked = @ /\ (pg.hasPrevious <=> client.pages > 0),
                              !.pages = @ + 1,
                              !.seen = @ \o Keys(client.kind, pg.items)]
      BY <1>3 DEF NextPage, c, pg
    <2>3. /\ DOMAIN client' = WalkFields /\ client'.at \in {"walk", "walked"}
          /\ client'.kind = client.kind /\ client'.limit = client.limit
      BY <2>1, <2>2 DEF WalkFields
    <2>4. QED
      BY <1>1, <1>2, <2>3, WalkOn DEF IInv
  <1>4. CASE PageFails
    <2>1. CASE client' = Failed
      BY <1>1, <2>1, AtRest DEF Failed, IInv
    <2>2. CASE client' = [client EXCEPT !.at = "walked", !.pages = @ + 1, !.swallowed = TRUE]
      <3>1. DOMAIN client' = WalkFields /\ client'.at = "walked"
        BY <1>2, <2>2 DEF WalkFields
      <3>2. QED
        BY <1>1, <3>1, WalkOn DEF IInv
    <2>3. QED
      BY <1>4, <2>1, <2>2 DEF PageFails
  <1>5. QED
    BY <1>3, <1>4

\* A workflow of the list, with or without its nodes, in the client's hands.
LEMMA HoldStep ==
    ASSUME IInv, UNCHANGED <<argo, uids, triggers>>, NEW i \in DOMAIN argo,
           NEW nodes \in {{}, NodesOf(argo[i])}, client' = Hold(argo[i], nodes)
    PROVE  IInv'
  <1>1. WorldInv'
    BY WorldKept
  <1>2. client'.at = "hold" /\ client'.wf = argo[i] /\ client'.nodes = nodes
    BY DEF Hold
  <1>3. argo[i] \in Workflow /\ argo[i].uid <= uids /\ Named(argo[i])
    BY DEF IInv, WorldInv, ArgoOK, NamesOK
  <1>4. \A j \in DOMAIN argo : argo[j].uid = argo[i].uid => j = i
    BY UidsApart DEF IInv, WorldInv
  <1>5. Held'
    BY <1>2, <1>3, <1>4 DEF Held, Succeeds, Named, NodesOf, HasTasks, FixedName, Workflow
  <1>6. ClientInv'
    BY <1>2, <1>5 DEF ClientInv, ClientOK, Counted, TasksFaithful, Places, Submitting
  <1>7. QED
    BY <1>1, <1>6 DEF IInv

\* workflow, workflow_by_id, node, and a workflow of a list.
LEMMA GetStep ==
    ASSUME IInv,
           \/ \E n : GetWorkflow(n)
           \/ \E n, u : GetWorkflowById(n, u)
           \/ \E i \in DOMAIN argo : TakeListed(i)
    PROVE  IInv'
  <1>1. UNCHANGED <<argo, uids, triggers>>
    BY DEF GetWorkflow, GetWorkflowById, TakeListed
  <1>2. CASE client' = Idle
    BY <1>1, <1>2, WorldKept, AtRest DEF Idle, IInv
  <1>3. ASSUME NEW S \in SUBSET DOMAIN argo, Newest(S) # None, client' = Hold(Newest(S), NodesOf(Newest(S)))
        PROVE  IInv'
    <2>1. PICK i \in S : Newest(S) = argo[i]
      BY <1>3, NewestIs DEF IInv, WorldInv
    <2>2. QED
      BY <1>1, <1>3, <2>1, HoldStep
  <1>4. ASSUME NEW n, GetWorkflow(n) PROVE IInv'
    BY <1>2, <1>3, <1>4 DEF GetWorkflow, ByName
  <1>5. ASSUME NEW n, NEW u, GetWorkflowById(n, u) PROVE IInv'
    BY <1>2, <1>3, <1>5 DEF GetWorkflowById, ByUid
  <1>6. ASSUME NEW i \in DOMAIN argo, TakeListed(i) PROVE IInv'
    BY <1>1, <1>6, HoldStep DEF TakeListed
  <1>7. QED
    BY <1>4, <1>5, <1>6

\* A name the graph generated stands for one workflow: the one of that uid.
LEMMA NameIsUid ==
    ASSUME IInv, client.at = "hold", client.wf.origin = "graph", NEW i \in DOMAIN argo
    PROVE  argo[i].name = client.wf.name <=> argo[i].uid = client.wf.uid
  <1>1. client.wf \in Workflow /\ Named(client.wf) /\ Succeeds(client.wf)
    BY DEF IInv, ClientInv, Held
  <1>2. argo[i] \in Workflow /\ Named(argo[i])
    BY DEF IInv, WorldInv, ArgoOK, NamesOK
  <1>3. client.wf.name = client.wf.uid /\ client.wf.uid # 0
    BY <1>1, MaxUidNat DEF Named, Workflow
  <1>4. argo[i].uid = client.wf.uid => argo[i].origin = "graph"
    BY <1>1 DEF Succeeds
  <1>5. QED
    BY <1>2, <1>3, <1>4 DEF Named, FixedName

\* tasks: from the nodes at hand, or from what has the workflow's name now.
LEMMA ResolveStep ==
    ASSUME IInv, ResolveTasks
    PROVE  IInv'
  <1> DEFINE wf == client.wf
             w == FetchMissingTaskInfo(client)
             bad == w = None \/ (client.nodes = {} /\ w.phase = "None")
  <1>1. /\ client.at = "hold" /\ HasTasks(wf) /\ UNCHANGED <<argo, uids, triggers>>
        /\ wf \in Workflow /\ wf.uid <= uids /\ Named(wf) /\ Succeeds(wf)
        /\ client.nodes = {} \/ client.nodes = NodesOf(wf)
    BY DEF ResolveTasks, IInv, ClientInv, Held
  <1>2. /\ client'.at = "tasks" /\ client'.wf = wf
        /\ bad => client'.failed = TRUE /\ client'.tasks = {}
        /\ ~bad => /\ client'.failed = FALSE
                   /\ client'.tasks = IntoTasks(IF client.nodes # {} THEN client.nodes ELSE NodesOf(w))
    BY DEF ResolveTasks
  <1> DEFINE Answer ==
        /\ wf.origin = "graph" =>
             /\ \A t \in client'.tasks : t.id[1] = wf.uid
             /\ client'.failed => \A i \in DOMAIN argo : argo[i].uid # wf.uid
        /\ \A a, b \in client'.tasks : a.id \in b.depends <=> b.id \in a.dependencies
  <1>3. ASSUME client.nodes # {} PROVE Answer
    <2>1. w = wf /\ wf # None
      BY <1>1, <1>3, NoneIsNoWorkflow DEF FetchMissingTaskInfo
    <2>2. client'.failed = FALSE /\ client'.tasks = IntoTasks(NodesOf(wf))
      BY <1>1, <1>2, <1>3, <2>1
    <2>3. QED
      BY <2>2, TasksAgree
  <1>4. ASSUME client.nodes = {} PROVE Answer
    <2> DEFINE S == {i \in DOMAIN argo : argo[i].name = wf.name}
    <2>1. w = Newest(S)
      BY <1>4 DEF FetchMissingTaskInfo, ByName
    <2>2. S \in SUBSET DOMAIN argo
      OBVIOUS
    <2>3. /\ S # {} => \E i \in S : w = argo[i]
          /\ w = None <=> S = {}
      BY <2>1, <2>2, NewestIs DEF IInv, WorldInv
    <2> HIDE DEF w
    <2>4. CASE w = None
      <3>1. wf.origin = "graph" => \A i \in DOMAIN argo : argo[i].uid # wf.uid
        BY <1>1, <2>3, <2>4, NameIsUid
      <3>2. QED
        BY <1>2, <2>4, <3>1
    <2>5. CASE w # None
      <3>1. PICK i \in DOMAIN argo : w = argo[i] /\ argo[i].name = wf.name
        BY <2>3, <2>5
      <3>2. wf.origin = "graph" => w.uid = wf.uid
        BY <1>1, <3>1, NameIsUid
      <3>3. wf.origin = "graph" => HasTasks(w)
        BY <1>1, <3>1, <3>2 DEF Succeeds
      <3>4. CASE bad
        <4>1. wf.origin # "graph"
          BY <2>5, <3>3, <3>4 DEF HasTasks
        <4>2. QED
          BY <1>2, <3>4, <4>1
      <3>5. CASE ~bad
        BY <1>2, <1>4, <3>2, <3>5, TasksAgree
      <3>6. QED
        BY <3>4, <3>5
    <2>6. QED
      BY <2>4, <2>5
  <1>5. Answer
    BY <1>3, <1>4
  <1>6. TasksFaithful'
    BY <1>1, <1>2, <1>5 DEF TasksFaithful, Range
  <1>7. Held'
    BY <1>1, <1>2 DEF Held, Succeeds, Named, HasTasks, FixedName, Workflow
  <1>8. ClientOK' /\ Counted'
    BY <1>2 DEF ClientOK, Counted, Places, Submitting
  <1>9. QED
    BY <1>1, <1>6, <1>7, <1>8, WorldKept DEF IInv, ClientInv

\* A client that submits: what its counts have to satisfy.
LEMMA SubmittingStep ==
    ASSUME client'.at \in Submitting, Counted'
    PROVE  ClientInv'
  BY DEF ClientInv, ClientOK, Held, TasksFaithful, Places, Submitting

\* A submission begins with nothing made.
LEMMA SubmitStep ==
    ASSUME IInv, NEW t \in {None} \cup Range(Catalog), NEW values, Submit(t, values)
    PROVE  IInv'
  <1>1. WorldInv'
    BY WorldKept DEF Submit
  <1>2. client' = [at |-> "submit", template |-> t, values |-> values,
                   attempt |-> 1, lost |-> 0, made |-> {}, unbound |-> FALSE]
    BY DEF Submit
  <1>3. /\ client'.at = "submit" /\ client'.template = t /\ client'.attempt = 1 /\ client'.lost = 0 /\ client'.made = {}
        /\ IsFiniteSet({}) /\ Cardinality({}) = 0
    BY <1>2, FS_EmptySet
  <1>4. DOMAIN client' = SubmitFields
    BY <1>2 DEF SubmitFields
  <1>5. Counted'
    BY <1>3, <1>4 DEF Counted, SubmitFields
  <1>6. QED
    BY <1>1, <1>3, <1>5, SubmittingStep DEF IInv, Submitting

\* A refusal, the retry, and giving up make nothing.
LEMMA RetryStep ==
    ASSUME IInv, SubmitRefused \/ Retry
    PROVE  IInv'
  <1>1. WorldInv' /\ uids' = uids
    BY WorldKept DEF SubmitRefused, Retry
  <1>2. client.at \in Submitting /\ DOMAIN client = SubmitFields
    BY DEF SubmitRefused, Retry, IInv, ClientInv, Counted, Submitting
  <1>3. CASE SubmitRefused
    <2>1. /\ client.at = "submit" /\ client'.at = "errors" /\ DOMAIN client' = SubmitFields
          /\ client'.template = client.template /\ client'.attempt = client.attempt
          /\ client'.lost = client.lost /\ client'.made = client.made
      BY <1>2, <1>3 DEF SubmitRefused, SubmitFields
    <2>2. Counted'
      BY <1>1, <2>1 DEF IInv, ClientInv, Counted, Submitting, SubmitFields
    <2>3. QED
      BY <1>1, <2>1, <2>2, SubmittingStep DEF IInv, Submitting
  <1>4. CASE Retry
    <2>1. /\ client.at = "errors" /\ DOMAIN client' = SubmitFields
          /\ client'.template = client.template /\ client'.lost = client.lost /\ client'.made = client.made
          /\ \/ client.attempt = 1 /\ client'.at = "submit" /\ client'.attempt = 2
             \/ client.attempt # 1 /\ client'.at = "refused" /\ client'.attempt = client.attempt
      BY <1>2, <1>4 DEF Retry, RetryAllowed, SubmitFields
    <2>2. Counted'
      BY <1>1, <2>1 DEF IInv, ClientInv, Counted, Submitting, SubmitFields
    <2>3. QED
      BY <1>1, <2>1, <2>2, SubmittingStep DEF IInv, Submitting
  <1>5. QED
    BY <1>3, <1>4

-----------------------------------------------------------------------------

\* The workflows after a step are new, or each continues one that was there.
Continues ==
    \A i \in DOMAIN argo' :
        \/ argo'[i].uid > uids
        \/ \E j \in DOMAIN argo :
              /\ argo'[i].uid = argo[j].uid /\ argo'[i].origin = argo[j].origin
              /\ HasTasks(argo[j]) => HasTasks(argo'[i])

\* What a client holds stays what it is while the workflows move on.
LEMMA HeldKept ==
    ASSUME IInv, Continues, uids' \in Nat, uids <= uids', client' = client
    PROVE  Held' /\ TasksFaithful'
  <1>1. CASE client.at \notin {"hold", "tasks"}
    BY <1>1 DEF Held, TasksFaithful
  <1>2. CASE client.at \in {"hold", "tasks"}
    <2>1. client.wf \in Workflow /\ client.wf.uid <= uids /\ Named(client.wf) /\ Succeeds(client.wf)
      BY <1>2 DEF IInv, ClientInv, Held
    <2>2. client.wf.uid \in Nat
      BY <2>1, MaxUidNat DEF Workflow
    <2>3. uids \in Nat
      BY MaxUidNat DEF IInv, WorldInv, ArgoOK
    <2>4. ASSUME NEW i \in DOMAIN argo', argo'[i].uid = client.wf.uid
          PROVE  /\ argo'[i].origin = client.wf.origin
                 /\ HasTasks(client.wf) => HasTasks(argo'[i])
                 /\ \E j \in DOMAIN argo : argo[j].uid = client.wf.uid
      <3>1. ~(argo'[i].uid > uids)
        BY <2>1, <2>2, <2>3, <2>4
      <3>2. PICK j \in DOMAIN argo :
              /\ argo'[i].uid = argo[j].uid /\ argo'[i].origin = argo[j].origin
              /\ HasTasks(argo[j]) => HasTasks(argo'[i])
        BY <3>1 DEF Continues
      <3>3. QED
        BY <2>1, <2>4, <3>2 DEF Succeeds
    <2>5. client.wf.uid <= uids'
      BY <2>1, <2>2, <2>3
    <2>6. Held'
      BY <2>1, <2>4, <2>5 DEF IInv, ClientInv, Held, Succeeds, Named, HasTasks, NodesOf, FixedName, Workflow
    <2>7. TasksFaithful'
      BY <2>4 DEF IInv, ClientInv, TasksFaithful, Range
    <2>8. QED
      BY <2>6, <2>7
  <1>3. QED
    BY <1>1, <1>2

\* A new workflow goes to the front.
LEMMA CreatedWorld ==
    ASSUME IInv, uids < MaxUid, NEW w \in Workflow, w.uid = uids + 1, Named(w), Created(w), UNCHANGED triggers
    PROVE  WorldInv' /\ Continues /\ uids' \in Nat /\ uids <= uids'
  <1>1. /\ argo \in Seq(Workflow) /\ uids \in 0..MaxUid /\ MaxUid \in Nat
        /\ argo' = <<w>> \o argo /\ uids' = uids + 1
    BY MaxUidNat DEF IInv, WorldInv, ArgoOK, Created
  <1>2. /\ argo' \in Seq(Workflow) /\ DOMAIN argo' = 1..(Len(argo) + 1)
        /\ argo'[1] = w
        /\ \A i \in 2..(Len(argo) + 1) : i - 1 \in DOMAIN argo /\ argo'[i] = argo[i - 1]
    BY <1>1, ConsIs
  <1>3. \A i \in DOMAIN argo' : i = 1 \/ i \in 2..(Len(argo) + 1)
    BY <1>1, <1>2
  <1>4. \A i \in DOMAIN argo : argo[i] \in Workflow /\ argo[i].uid <= uids
    BY DEF IInv, WorldInv, ArgoOK
  <1>5. \A i \in DOMAIN argo : argo[i].uid \in Nat
    BY <1>4, MaxUidNat DEF Workflow
  <1>6. uids' \in 0..MaxUid /\ \A i \in DOMAIN argo' : argo'[i].uid <= uids'
    BY <1>1, <1>2, <1>3, <1>4, <1>5
  <1>7. ASSUME NEW i \in DOMAIN argo', NEW j \in DOMAIN argo', i < j
        PROVE  argo'[i].uid > argo'[j].uid
    <2>1. j \in 2..(Len(argo) + 1) /\ j - 1 \in DOMAIN argo /\ argo'[j] = argo[j - 1]
      BY <1>1, <1>2, <1>3, <1>7
    <2>2. CASE i = 1
      BY <1>1, <1>2, <1>4, <1>5, <2>1, <2>2
    <2>3. CASE i \in 2..(Len(argo) + 1)
      <3>1. i - 1 \in DOMAIN argo /\ argo'[i] = argo[i - 1]
        BY <1>2, <2>3
      <3>2. i - 1 < j - 1
        BY <1>7, <2>1, <2>3
      <3>3. argo[i - 1].uid > argo[j - 1].uid
        BY <2>1, <3>1, <3>2 DEF IInv, WorldInv, ArgoOK
      <3>4. QED
        BY <2>1, <3>1, <3>3
    <2>4. QED
      BY <1>3, <2>2, <2>3
  <1>8. NamesOK'
    <2>1. \A i \in DOMAIN argo' : argo'[i] = w \/ \E j \in DOMAIN argo : argo'[i] = argo[j]
      BY <1>2, <1>3
    <2>2. QED
      BY <2>1 DEF IInv, WorldInv, NamesOK, Named, FixedName
  <1>9. Continues
    <2>1. w.uid > uids
      BY <1>1
    <2>2. QED
      BY <1>2, <1>3, <2>1 DEF Continues
  <1>10. ArgoOK'
    BY <1>2, <1>6, <1>7 DEF ArgoOK, Workflow, TemplateNames, Phases
  <1>11. QED
    BY <1>1, <1>8, <1>9, <1>10 DEF IInv, WorldInv, Trigger

\* What Argo makes of a submission is a workflow, whoever submits and from what.
LEMMA NewWorkflowType ==
    ASSUME IInv, uids < MaxUid, NEW origin \in {"graph", "hand"}, NEW name \in 0..MaxUid,
           NEW u \in Users, NEW t \in {None} \cup TemplateNames
    PROVE  /\ NewWorkflow(origin, name, CreatedBy(u, t), t) \in Workflow
           /\ NewWorkflow(origin, name, CreatedBy(u, t), t).uid = uids + 1
           /\ NewWorkflow(origin, name, CreatedBy(u, t), t).origin = origin
           /\ NewWorkflow(origin, name, CreatedBy(u, t), t).name = name
  <1> DEFINE ks == {"creator"} \cup (IF u \in Nameless THEN {} ELSE {"preferred-username"})
                              \cup (IF t = None THEN {} ELSE {"template"})
             ls == UNION {[k -> Users \cup TemplateNames] :
                             k \in SUBSET {"creator", "preferred-username", "template"}}
  <1>1. uids + 1 \in 1..MaxUid
    BY MaxUidNat DEF IInv, WorldInv, ArgoOK
  <1>2. ks \in SUBSET {"creator", "preferred-username", "template"} /\ ("template" \in ks => t \in TemplateNames)
    OBVIOUS
  <1>3. CreatedBy(u, t) = [k \in ks |-> IF k = "template" THEN t ELSE u]
    BY DEF CreatedBy
  <1> HIDE DEF ks
  <1>4. CreatedBy(u, t) \in [ks -> Users \cup TemplateNames]
    BY <1>2, <1>3
  <1>5. CreatedBy(u, t) \in ls
    BY <1>2, <1>4
  <1> HIDE DEF ls
  <1>6. Workflow = [uid: 1..MaxUid, origin: {"graph", "hand"}, name: 0..MaxUid, phase: Phases,
                    labels: ls, template: {None} \cup TemplateNames]
    BY DEF Workflow, ls
  <1>7. "None" \in Phases
    BY DEF Phases
  <1>8. QED
    BY <1>1, <1>5, <1>6, <1>7 DEF NewWorkflow

\* Argo accepts a submission: one more workflow of it, and either the answer
\* arrives or one more is lost.
LEMMA SubmitAcceptedStep ==
    ASSUME IInv, SubmitAccepted
    PROVE  IInv'
  <1>1. /\ client.at = "submit" /\ uids < MaxUid /\ uids' = uids + 1 /\ uids \in Nat
        /\ DOMAIN client = SubmitFields /\ client.template \in {None} \cup Range(Catalog)
        /\ client.made \in SUBSET (1..uids) /\ IsFiniteSet(client.made)
        /\ client.attempt \in {1, 2} /\ client.lost \in Nat /\ client.lost < client.attempt
        /\ Cardinality(client.made) = client.lost
    BY MaxUidNat DEF SubmitAccepted, Created, IInv, WorldInv, ArgoOK, ClientInv, Counted, Submitting
  <1>2. WorldInv'
    <2> DEFINE t == IF client.template = None THEN None ELSE client.template.name
               w == NewWorkflow("graph", GeneratedName, CreatedBy(Me, t), t)
    <2>1. t \in {None} \cup TemplateNames
      BY <1>1 DEF TemplateNames
    <2>2. GeneratedName = uids + 1 /\ GeneratedName \in 0..MaxUid
      BY <1>1, MaxUidNat DEF GeneratedName
    <2> HIDE DEF t
    <2>3. w \in Workflow /\ w.uid = uids + 1 /\ w.origin = "graph" /\ w.name = uids + 1
      BY <1>1, <2>1, <2>2, NewWorkflowType, ClientIsUser
    <2>4. Submission(client) = w
      BY DEF Submission, SubmittedName, t
    <2>5. Created(w) /\ UNCHANGED triggers
      BY <2>4 DEF SubmitAccepted
    <2> HIDE DEF w
    <2>6. QED
      BY <1>1, <2>3, <2>5, CreatedWorld DEF Named
  <1>3. /\ IsFiniteSet(client.made \cup {uids + 1})
        /\ Cardinality(client.made \cup {uids + 1}) = client.lost + 1
        /\ client.made \cup {uids + 1} \in SUBSET (1..uids')
    <2>1. uids + 1 \notin client.made
      BY <1>1
    <2>2. QED
      BY <1>1, <2>1, FS_AddElement
  <1>4. /\ DOMAIN client' = SubmitFields /\ client'.template = client.template
        /\ client'.attempt = client.attempt /\ client'.made = client.made \cup {uids + 1}
        /\ \/ client'.at = "submitted" /\ client'.lost = client.lost
           \/ client'.at = "errors" /\ client'.lost = client.lost + 1
    BY <1>1 DEF SubmitAccepted, SubmitFields
  <1>5. Counted'
    BY <1>1, <1>3, <1>4 DEF Counted, Submitting, SubmitFields
  <1>6. QED
    BY <1>2, <1>4, <1>5, SubmittingStep DEF IInv, Submitting

\* The history of a walk is all that a change of the cluster does to the client.
LEMMA NotedIs ==
    ASSUME Noted
    PROVE  \/ client' = client
           \/ client.at = "walk" /\ \E a, r : client' = [client EXCEPT !.added = a, !.removed = r]
  BY DEF Noted

\* A change of the cluster.
LEMMA ClusterStep ==
    ASSUME IInv, Noted, WorldInv', Continues, uids' \in Nat, uids <= uids'
    PROVE  IInv'
  <1>1. CASE client' = client
    <2>1. ClientOK'
      BY <1>1 DEF IInv, ClientInv, ClientOK, Places, Submitting, WalkFields
    <2>2. uids \in Nat
      BY MaxUidNat DEF IInv, WorldInv, ArgoOK
    <2>3. 1..uids \subseteq 1..uids'
      BY <2>2
    <2>4. Counted'
      BY <1>1, <2>3 DEF IInv, ClientInv, Counted, Submitting, SubmitFields, Range
    <2>5. QED
      BY <1>1, <2>1, <2>4, HeldKept DEF IInv, ClientInv
  <1>2. ASSUME NEW a, NEW r, client.at = "walk", client' = [client EXCEPT !.added = a, !.removed = r]
        PROVE  IInv'
    <2>1. DOMAIN client = WalkFields /\ (client.kind = "workflows" => client.limit \in {None} \cup 1..30)
      BY <1>2 DEF IInv, ClientInv, ClientOK
    <2>2. DOMAIN client' = WalkFields /\ client'.at = "walk" /\ client'.kind = client.kind /\ client'.limit = client.limit
      BY <1>2, <2>1 DEF WalkFields
    <2>3. QED
      BY <2>1, <2>2, WalkOn DEF IInv
  <1>3. QED
    BY <1>1, <1>2, NotedIs

\* Somebody submits by hand.
LEMMA ByHandStep ==
    ASSUME IInv, NEW u \in Users, SubmitByHand(u)
    PROVE  IInv'
  <1> DEFINE w == NewWorkflow("hand", FixedName, CreatedBy(u, None), None)
  <1>1. uids < MaxUid /\ Created(w) /\ Noted /\ UNCHANGED triggers
    BY DEF SubmitByHand
  <1>2. FixedName \in 0..MaxUid
    BY MaxUidNat DEF FixedName
  <1>3. w \in Workflow /\ w.uid = uids + 1 /\ w.origin = "hand" /\ w.name = FixedName
    BY <1>1, <1>2, NewWorkflowType
  <1> HIDE DEF w
  <1>4. WorldInv' /\ Continues /\ uids' \in Nat /\ uids <= uids'
    BY <1>1, <1>3, CreatedWorld DEF Named
  <1>5. QED
    BY <1>1, <1>4, ClusterStep

\* A workflow proceeds: its phase only.
LEMMA ProceedsStep ==
    ASSUME IInv, NEW k \in DOMAIN argo, WorkflowProceeds(k)
    PROVE  IInv'
  <1> DEFINE w == [argo[k] EXCEPT !.phase = Successor(argo[k].phase)]
  <1>1. /\ argo \in Seq(Workflow) /\ uids \in Nat /\ argo[k].phase # "Succeeded"
        /\ uids' = uids /\ triggers' = triggers /\ Noted
    BY MaxUidNat DEF WorkflowProceeds, IInv, WorldInv, ArgoOK
  <1>2. argo' = [argo EXCEPT ![k] = w]
    BY <1>1 DEF WorkflowProceeds
  <1>3. argo[k] \in Workflow
    BY <1>1
  <1>4. Successor(argo[k].phase) \in Phases /\ (HasTasks(argo[k]) => Successor(argo[k].phase) = "Succeeded")
    BY <1>1 DEF Successor, Phases, HasTasks
  <1>5. /\ w \in Workflow /\ w.uid = argo[k].uid /\ w.origin = argo[k].origin /\ w.name = argo[k].name
        /\ w.phase = Successor(argo[k].phase)
    <2>1. ASSUME NEW L, NEW T, argo[k] \in [uid: 1..MaxUid, origin: {"graph", "hand"}, name: 0..MaxUid,
                                            phase: Phases, labels: L, template: T]
          PROVE  /\ w \in [uid: 1..MaxUid, origin: {"graph", "hand"}, name: 0..MaxUid,
                            phase: Phases, labels: L, template: T]
                 /\ w.uid = argo[k].uid /\ w.origin = argo[k].origin /\ w.name = argo[k].name
                 /\ w.phase = Successor(argo[k].phase)
      <3> HIDE DEF Phases
      <3> QED
        BY <1>4, <2>1
    <2>2. QED
      BY <1>3, <2>1 DEF Workflow
  <1> HIDE DEF w
  <1>6. argo' \in Seq(Workflow) /\ DOMAIN argo' = DOMAIN argo
    BY <1>1, <1>2, <1>5
  <1>7. \A i \in DOMAIN argo :
            /\ argo'[i].uid = argo[i].uid /\ argo'[i].origin = argo[i].origin
            /\ argo'[i].name = argo[i].name
            /\ HasTasks(argo[i]) => HasTasks(argo'[i])
    BY <1>2, <1>4, <1>5 DEF HasTasks
  <1>8. ArgoOK'
    <2>1. \A i \in DOMAIN argo' : argo'[i].uid <= uids'
      BY <1>1, <1>6, <1>7 DEF IInv, WorldInv, ArgoOK
    <2>2. \A i, j \in DOMAIN argo' : i < j => argo'[i].uid > argo'[j].uid
      BY <1>6, <1>7 DEF IInv, WorldInv, ArgoOK
    <2>3. QED
      BY <1>1, <1>6, <2>1, <2>2 DEF IInv, WorldInv, ArgoOK
  <1>9. NamesOK'
    <2> SUFFICES ASSUME NEW i \in DOMAIN argo PROVE Named(argo[i])'
      BY <1>6 DEF NamesOK
    <2>1. Named(argo[i])
      BY DEF IInv, WorldInv, NamesOK
    <2>2. QED
      BY <1>7, <2>1 DEF Named, FixedName
  <1>10. Continues
    <2> SUFFICES ASSUME NEW i \in DOMAIN argo
                 PROVE  \E j \in DOMAIN argo :
                           /\ argo'[i].uid = argo[j].uid /\ argo'[i].origin = argo[j].origin
                           /\ HasTasks(argo[j]) => HasTasks(argo'[i])
      BY <1>6 DEF Continues
    <2> QED
      BY <1>7
  <1>11. WorldInv'
    BY <1>1, <1>8, <1>9 DEF IInv, WorldInv, Trigger
  <1>12. QED
    BY <1>1, <1>10, <1>11, ClusterStep

\* A workflow is deleted: the others keep their order.
LEMMA DeletedStep ==
    ASSUME IInv, NEW k \in DOMAIN argo, WorkflowDeleted(k)
    PROVE  IInv'
  <1>1. /\ argo \in Seq(Workflow) /\ uids \in Nat
        /\ argo' = RemoveAt(argo, k) /\ uids' = uids /\ triggers' = triggers /\ Noted
    BY MaxUidNat DEF WorkflowDeleted, IInv, WorldInv, ArgoOK
  <1>2. /\ argo' \in Seq(Workflow) /\ DOMAIN argo' = 1..(Len(argo) - 1)
        /\ \A i \in 1..(Len(argo) - 1) :
              /\ i \in DOMAIN argo /\ i + 1 \in DOMAIN argo
              /\ argo'[i] = IF i < k THEN argo[i] ELSE argo[i + 1]
    BY <1>1, RemoveIs
  <1>3. \A i \in DOMAIN argo' : \E j \in DOMAIN argo : argo'[i] = argo[j]
    BY <1>2
  <1>4. ASSUME NEW i \in DOMAIN argo', NEW j \in DOMAIN argo', i < j
        PROVE  argo'[i].uid > argo'[j].uid
    <2> DEFINE a == IF i < k THEN i ELSE i + 1
               b == IF j < k THEN j ELSE j + 1
    <2>1. a \in DOMAIN argo /\ b \in DOMAIN argo /\ argo'[i] = argo[a] /\ argo'[j] = argo[b]
      BY <1>2
    <2>2. a < b
      BY <1>1, <1>2, <1>4
    <2> HIDE DEF a, b
    <2>3. QED
      BY <2>1, <2>2 DEF IInv, WorldInv, ArgoOK
  <1>5. ArgoOK'
    BY <1>1, <1>2, <1>3, <1>4 DEF IInv, WorldInv, ArgoOK, Workflow, TemplateNames, Phases
  <1>6. NamesOK'
    BY <1>3 DEF IInv, WorldInv, NamesOK, Named, FixedName
  <1>7. Continues
    BY <1>3 DEF Continues
  <1>8. WorldInv'
    BY <1>1, <1>5, <1>6 DEF IInv, WorldInv, Trigger
  <1>9. QED
    BY <1>1, <1>7, <1>8, ClusterStep

\* Triggers come and go, and are read.
LEMMA TriggerStep ==
    ASSUME IInv,
           \/ \E n \in TriggerNames : CreateTrigger(n)
           \/ \E k \in DOMAIN triggers : GetTrigger(k) \/ TriggerDeleted(k)
           \/ \E n \in TriggerNames, o \in Users \cup {None} : TriggerApplied(n, o)
    PROVE  IInv'
  <1>1. argo' = argo /\ uids' = uids /\ triggers \in Seq(Trigger)
    BY DEF CreateTrigger, GetTrigger, TriggerDeleted, TriggerApplied, IInv, WorldInv
  <1>2. triggers' \in Seq(Trigger)
    <2>1. CASE triggers' = triggers
      BY <1>1, <2>1
    <2>2. ASSUME NEW k \in DOMAIN triggers, TriggerDeleted(k) PROVE triggers' \in Seq(Trigger)
      BY <1>1, <2>2, RemoveIs DEF TriggerDeleted
    <2>3. ASSUME NEW n \in TriggerNames, CreateTrigger(n) PROVE triggers' \in Seq(Trigger)
      <3>1. [name |-> n, owner |-> Me] \in Trigger
        BY ClientIsUser DEF Trigger
      <3>2. triggers' = triggers \/ triggers' = Append(triggers, [name |-> n, owner |-> Me])
        BY <2>3 DEF CreateTrigger
      <3>3. QED
        BY <1>1, <3>1, <3>2
    <2>4. ASSUME NEW n \in TriggerNames, NEW o \in Users \cup {None}, TriggerApplied(n, o)
          PROVE  triggers' \in Seq(Trigger)
      <3>1. [name |-> n, owner |-> o] \in Trigger
        BY DEF Trigger
      <3>2. triggers' = <<[name |-> n, owner |-> o]>> \o triggers
        BY <2>4 DEF TriggerApplied
      <3>3. QED
        BY <1>1, <3>1, <3>2, ConsIs
    <2>5. QED
      BY <2>1, <2>2, <2>3, <2>4 DEF GetTrigger
  <1>3. WorldInv'
    BY <1>1, <1>2 DEF IInv, WorldInv, ArgoOK, NamesOK, Named, Trigger, Workflow, FixedName
  <1>4. client' = client \/ client'.at \in {"idle", "failed", "trigger"}
    <2>1. ASSUME NEW n, CreateTrigger(n) PROVE client'.at \in {"idle", "failed"}
      BY <2>1 DEF CreateTrigger, Idle, Failed
    <2>2. ASSUME NEW k, GetTrigger(k) PROVE client'.at \in {"failed", "trigger"}
      BY <2>2 DEF GetTrigger, Failed
    <2>3. QED
      BY <2>1, <2>2 DEF TriggerDeleted, TriggerApplied
  <1>5. CASE client' = client
    BY <1>1, <1>3, <1>5 DEF IInv, ClientInv, ClientOK, Held, Counted, TasksFaithful, Places, Submitting, WalkFields, SubmitFields,
       Succeeds, Named, HasTasks, NodesOf, FixedName, Workflow, Range
  <1>6. QED
    BY <1>3, <1>4, <1>5, AtRest DEF IInv

\* Every step keeps the invariant.
LEMMA InvStep ==
    ASSUME IInv, [Next]_vars
    PROVE  IInv'
  <1>1. CASE Queries
    BY <1>1, StartWalkStep, PageStep, GetStep, ResolveStep, TriggerStep DEF Queries, Walks
  <1>2. CASE Mutations
    BY <1>2, SubmitStep, SubmitAcceptedStep, RetryStep, TriggerStep DEF Mutations
  <1>3. CASE Cluster
    BY <1>3, ByHandStep, ProceedsStep, DeletedStep, TriggerStep DEF Cluster
  <1>4. CASE ClientDone
    BY <1>4, WorldKept, AtRest DEF ClientDone, Idle, IInv
  <1>5. CASE UNCHANGED vars
    <2>1. argo' = argo /\ uids' = uids /\ triggers' = triggers /\ client' = client
      BY <1>5 DEF vars
    <2>2. ClientInv'
      BY <2>1 DEF IInv, ClientInv, ClientOK, Held, Counted, TasksFaithful, Places, Submitting, WalkFields, SubmitFields,
         Succeeds, Named, HasTasks, NodesOf, FixedName, Workflow, Range
    <2>3. QED
      BY <2>1, <2>2, WorldKept DEF IInv
  <1>6. QED
    BY <1>1, <1>2, <1>3, <1>4, <1>5 DEF Next

-----------------------------------------------------------------------------

\* The invariant holds in every reachable state.
THEOREM Invariant == Spec => []IInv
  <1>1. IInv /\ [Next]_vars => IInv'
    BY InvStep
  <1>2. QED
    BY InitInv, <1>1, PTL DEF Spec

\* The types of workflows, triggers and the client, the order of the list, and the
\* limit of a walk through workflows.
THEOREM TypeCorrect == Spec => []TypeOK
  <1>1. IInv => TypeOK
    <2> SUFFICES ASSUME IInv PROVE TypeOK
      OBVIOUS
    <2>1. \A w \in Range(argo) : w \in Workflow /\ w.uid <= uids
      BY DEF IInv, WorldInv, ArgoOK, Range
    <2>2. \A t \in Range(triggers) : t \in Trigger
      BY DEF IInv, WorldInv, Range
    <2>3. QED
      BY <2>1, <2>2 DEF IInv, WorldInv, ClientInv, ArgoOK, ClientOK, TypeOK, Trigger, Places, Submitting
  <1>2. QED
    BY Invariant, <1>1, PTL

\* Workflow::tasks and fetch_missing_task_info: a workflow submitted through the
\* graph is answered with its own tasks, however the list changed since it was
\* read, and with an error only if it was deleted; parents and children agree.
THEOREM TasksFaithfulHolds == Spec => []TasksFaithful
  <1>1. IInv => TasksFaithful
    BY DEF IInv, ClientInv
  <1>2. QED
    BY Invariant, <1>1, PTL

\* auth-daemon's retry of a mutation: at most one workflow too many, and only after
\* a lost answer.
THEOREM SubmittedOnceHolds == Spec => []SubmittedOnce
  <1>1. IInv => SubmittedOnce
    <2> SUFFICES ASSUME IInv, client.at \in {"submitted", "refused"}
                 PROVE  /\ Cardinality(client.made) = client.lost + (IF client.at = "submitted" THEN 1 ELSE 0)
                        /\ Cardinality(client.made) <= 2
      BY DEF SubmittedOnce
    <2>1. /\ client.attempt \in {1, 2} /\ client.lost \in Nat
          /\ Cardinality(client.made) = client.lost + (IF client.at = "submitted" THEN 1 ELSE 0)
          /\ client.at = "submitted" => client.lost < client.attempt
          /\ client.at = "refused" => client.lost <= 2
      BY DEF IInv, ClientInv, Counted, Submitting
    <2>2. QED
      BY <2>1
  <1>2. QED
    BY Invariant, <1>1, PTL

-----------------------------------------------------------------------------

(***************************************************************************)
(* Lists and what is picked from them.                                     *)
(***************************************************************************)

UpTo(P, i) == {j \in P : j <= i}

\* The places of a list are finitely many.
LEMMA UpToFinite ==
    ASSUME NEW n \in Nat, NEW P \in SUBSET (1..n)
    PROVE  /\ IsFiniteSet(P) /\ Cardinality(P) \in Nat
           /\ \A i : IsFiniteSet(UpTo(P, i)) /\ Cardinality(UpTo(P, i)) \in Nat
  <1>1. IsFiniteSet(1..n)
    BY FS_Interval
  <1>2. IsFiniteSet(P)
    BY <1>1, FS_Subset
  <1>3. \A i : UpTo(P, i) \in SUBSET P
    BY DEF UpTo
  <1>4. \A i : IsFiniteSet(UpTo(P, i))
    BY <1>2, <1>3, FS_Subset
  <1>5. QED
    BY <1>2, <1>4, FS_CardinalityType

\* Among n places there is a k-th for every k up to n.
LEMMA NthExists ==
    ASSUME NEW n \in Nat, NEW P \in SUBSET (1..n), NEW k \in 1..Cardinality(P)
    PROVE  \E i \in P : Cardinality(UpTo(P, i)) = k
  <1> DEFINE T == {m \in Nat : Cardinality(UpTo(P, m)) >= k}
             m == Min(T)
  <1>1. /\ Cardinality(P) \in Nat
        /\ \A i : IsFiniteSet(UpTo(P, i)) /\ Cardinality(UpTo(P, i)) \in Nat
    BY UpToFinite
  <1>2. k \in Nat /\ k > 0 /\ k <= Cardinality(P)
    BY <1>1
  <1>0. \A i \in P : i \in Nat /\ i >= 1 /\ i <= n
    OBVIOUS
  <1>3. UpTo(P, n) = P
    BY <1>0 DEF UpTo
  <1>4. n \in T
    BY <1>1, <1>2, <1>3
  <1>5. m \in T /\ \A l \in T : m <= l
    BY <1>4, Least
  <1>6. m \in Nat /\ Cardinality(UpTo(P, m)) >= k
    BY <1>5
  <1>7. m # 0
    <2>0. \A j \in P : ~(j <= 0)
      BY <1>0
    <2>1. UpTo(P, 0) = {}
      BY <2>0 DEF UpTo
    <2>2. Cardinality(UpTo(P, 0)) = 0
      BY <2>1, FS_EmptySet
    <2>3. QED
      BY <1>2, <1>6, <2>2
  <1>8. m - 1 \in Nat /\ m - 1 \notin T
    <2>1. m - 1 \in Nat /\ ~(m <= m - 1)
      BY <1>6, <1>7
    <2>2. QED
      BY <1>5, <2>1
  <1>9. Cardinality(UpTo(P, m - 1)) < k
    BY <1>1, <1>2, <1>8
  <1> HIDE DEF m
  <1>10. CASE m \in P
    <2>0. \A j \in P : j <= m <=> j <= m - 1 \/ j = m
      BY <1>0, <1>6, <1>8
    <2>1. UpTo(P, m) = UpTo(P, m - 1) \cup {m}
      BY <1>10, <2>0 DEF UpTo
    <2>2. m \notin UpTo(P, m - 1)
      BY <1>6 DEF UpTo
    <2>3. Cardinality(UpTo(P, m)) = Cardinality(UpTo(P, m - 1)) + 1
      BY <1>1, <2>1, <2>2, FS_AddElement
    <2>4. Cardinality(UpTo(P, m)) = k
      BY <1>1, <1>2, <1>6, <1>9, <2>3
    <2>5. QED
      BY <1>10, <2>4
  <1>11. CASE m \notin P
    <2>0. \A j \in P : j <= m <=> j <= m - 1
      BY <1>0, <1>6, <1>8, <1>11
    <2>1. UpTo(P, m) = UpTo(P, m - 1)
      BY <2>0 DEF UpTo
    <2>2. QED
      BY <1>1, <1>2, <1>6, <1>9, <2>1
  <1>12. QED
    BY <1>10, <1>11

\* The k-th place is a place, and a later one is further on.
LEMMA NthIs ==
    ASSUME NEW n \in Nat, NEW P \in SUBSET (1..n)
    PROVE  /\ \A k \in 1..Cardinality(P) : Nth(P, k) \in P /\ Cardinality(UpTo(P, Nth(P, k))) = k
           /\ \A j, k \in 1..Cardinality(P) : j < k => Nth(P, j) < Nth(P, k)
           /\ \A i \in P : /\ Cardinality(UpTo(P, i)) \in 1..Cardinality(P)
                           /\ Nth(P, Cardinality(UpTo(P, i))) = i
  <1>1. /\ IsFiniteSet(P) /\ Cardinality(P) \in Nat
        /\ \A i : IsFiniteSet(UpTo(P, i)) /\ Cardinality(UpTo(P, i)) \in Nat
    BY UpToFinite
  <1>0. \A i \in P : i \in Nat /\ i >= 1 /\ i <= n
    OBVIOUS
  <1>2. \A k : Nth(P, k) = CHOOSE i \in P : Cardinality(UpTo(P, i)) = k
    BY DEF Nth, UpTo
  <1>3. \A k \in 1..Cardinality(P) : Nth(P, k) \in P /\ Cardinality(UpTo(P, Nth(P, k))) = k
    BY <1>2, NthExists
  <1>4. ASSUME NEW i \in P, NEW j \in P, i <= j
        PROVE  Cardinality(UpTo(P, i)) <= Cardinality(UpTo(P, j))
    <2>0. \A l \in P : l <= i => l <= j
      BY <1>0, <1>4
    <2>1. UpTo(P, i) \in SUBSET UpTo(P, j)
      BY <2>0 DEF UpTo
    <2>2. QED
      BY <1>1, <2>1, FS_Subset
  <1>5. ASSUME NEW i \in P, NEW j \in P, i < j
        PROVE  Cardinality(UpTo(P, i)) < Cardinality(UpTo(P, j))
    <2>0. j <= j /\ ~(j <= i) /\ \A l \in P : l <= i => l <= j
      BY <1>0, <1>5
    <2>1. UpTo(P, i) \in SUBSET UpTo(P, j) /\ j \in UpTo(P, j) /\ j \notin UpTo(P, i)
      BY <2>0 DEF UpTo
    <2>2. Cardinality(UpTo(P, i)) <= Cardinality(UpTo(P, j))
      BY <1>1, <2>1, FS_Subset
    <2>3. Cardinality(UpTo(P, j)) # Cardinality(UpTo(P, i))
      BY <1>1, <2>1, FS_Subset
    <2>4. QED
      BY <1>1, <2>2, <2>3
  <1>6. ASSUME NEW j \in 1..Cardinality(P), NEW k \in 1..Cardinality(P), j < k
        PROVE  Nth(P, j) < Nth(P, k)
    <2>1. Nth(P, j) \in P /\ Nth(P, k) \in P /\ Nth(P, j) \in Nat /\ Nth(P, k) \in Nat
      BY <1>0, <1>3
    <2>2. CASE Nth(P, k) <= Nth(P, j)
      <3>1. k <= j
        BY <1>3, <1>4, <2>1, <2>2
      <3>2. QED
        BY <1>1, <1>6, <3>1
    <2>3. QED
      BY <2>1, <2>2
  <1>7. ASSUME NEW i \in P
        PROVE  /\ Cardinality(UpTo(P, i)) \in 1..Cardinality(P)
               /\ Nth(P, Cardinality(UpTo(P, i))) = i
    <2> DEFINE k == Cardinality(UpTo(P, i))
    <2>1. UpTo(P, i) \in SUBSET P /\ i \in UpTo(P, i)
      BY <1>0 DEF UpTo
    <2>2. k <= Cardinality(P) /\ k \in Nat
      BY <1>1, <2>1, FS_Subset
    <2>3. k # 0
      BY <1>1, <2>1, FS_EmptySet
    <2>4. k \in 1..Cardinality(P)
      BY <1>1, <2>2, <2>3
    <2>5. Nth(P, k) \in P /\ Cardinality(UpTo(P, Nth(P, k))) = k
      BY <1>3, <2>4
    <2>6. Nth(P, k) \in Nat /\ i \in Nat
      BY <1>0, <2>5
    <2>7. ~(Nth(P, k) < i) /\ ~(i < Nth(P, k))
      <3>1. ~(k < k)
        BY <2>2
      <3>2. QED
        BY <1>5, <2>5, <3>1
    <2>8. QED
      BY <2>4, <2>6, <2>7
  <1>8. QED
    BY <1>3, <1>6, <1>7

\* What is picked from a list.
LEMMA PickIs ==
    ASSUME NEW S, NEW s \in Seq(S), NEW P \in SUBSET DOMAIN s
    PROVE  /\ Pick(s, P) \in Seq(S) /\ Len(Pick(s, P)) = Cardinality(P) /\ Cardinality(P) \in Nat
           /\ DOMAIN Pick(s, P) = 1..Cardinality(P)
           /\ \A k \in 1..Cardinality(P) : Nth(P, k) \in P /\ Pick(s, P)[k] = s[Nth(P, k)]
           /\ \A j, k \in 1..Cardinality(P) : j < k => Nth(P, j) < Nth(P, k)
           /\ \A i \in P : \E k \in 1..Cardinality(P) : Nth(P, k) = i
  <1>1. Len(s) \in Nat /\ P \in SUBSET (1..Len(s))
    OBVIOUS
  <1>2. Cardinality(P) \in Nat
    BY <1>1, UpToFinite
  <1>3. /\ \A k \in 1..Cardinality(P) : Nth(P, k) \in P
        /\ \A j, k \in 1..Cardinality(P) : j < k => Nth(P, j) < Nth(P, k)
        /\ \A i \in P : \E k \in 1..Cardinality(P) : Nth(P, k) = i
    BY <1>1, NthIs
  <1>4. \A k \in 1..Cardinality(P) : s[Nth(P, k)] \in S
    BY <1>3
  <1>5. Pick(s, P) \in [1..Cardinality(P) -> S]
    BY <1>4 DEF Pick
  <1>6. Pick(s, P) \in Seq(S) /\ Len(Pick(s, P)) = Cardinality(P)
    BY <1>2, <1>5
  <1>7. \A k \in 1..Cardinality(P) : Pick(s, P)[k] = s[Nth(P, k)]
    BY DEF Pick
  <1>8. QED
    BY <1>2, <1>3, <1>5, <1>6, <1>7

\* All of a list is the list.
LEMMA PickAll ==
    ASSUME NEW S, NEW s \in Seq(S)
    PROVE  Pick(s, DOMAIN s) = s
  <1> DEFINE n == Len(s)
             P == DOMAIN s
  <1>1. n \in Nat /\ P = 1..n
    OBVIOUS
  <1>2. Cardinality(P) = n
    BY <1>1, FS_Interval
  <1>3. ASSUME NEW i \in 1..n
        PROVE  Cardinality(UpTo(P, i)) = i
    <2>1. UpTo(P, i) = 1..i
      BY <1>1 DEF UpTo
    <2>2. QED
      BY <2>1, FS_Interval
  <1>4. \A k \in 1..n : Nth(P, k) = k
    BY <1>1, <1>2, <1>3, NthIs
  <1>5. Pick(s, P) = [k \in 1..n |-> s[k]]
    BY <1>2, <1>4 DEF Pick
  <1>6. QED
    BY <1>1, <1>5

-----------------------------------------------------------------------------

(***************************************************************************)
(* Forms.                                                                  *)
(***************************************************************************)

\* A client that submits a template has filled in its form, and the refusal it
\* remembers is about that form.
FormInv ==
    client.at \in Submitting /\ client.template # None =>
        /\ client.template \in Range(Catalog)
        /\ client.values \in [Required(client.template) -> FormValues]
        /\ client.unbound => Unbound(client.template, Given(client.values))

\* The steps of the client, the changes around it left out.
LEMMA ClientSteps ==
    ASSUME IInv, [Next]_vars
    PROVE  \/ client' = client
           \/ client'.at \in {"idle", "failed", "hold", "tasks", "trigger"}
           \/ Walks \/ NextPage \/ PageFails
           \/ client.at = "walk" /\ client'.at = "walk"
           \/ Submit(None, <<>>)
           \/ \E t \in Range(Catalog) : \E values \in [Required(t) -> FormValues] : Submit(t, values)
           \/ SubmitAccepted \/ SubmitRefused \/ Retry
  <1>1. CASE Queries
    <2>1. ASSUME NEW n, GetWorkflow(n) PROVE client'.at \in {"idle", "hold"}
      BY <2>1 DEF GetWorkflow, Idle, Hold
    <2>2. ASSUME NEW n, NEW u, GetWorkflowById(n, u) PROVE client'.at \in {"idle", "hold"}
      BY <2>2 DEF GetWorkflowById, Idle, Hold
    <2>3. ASSUME NEW i, TakeListed(i) PROVE client'.at = "hold"
      BY <2>3 DEF TakeListed, Hold
    <2>4. ResolveTasks => client'.at = "tasks"
      BY DEF ResolveTasks
    <2>5. ASSUME NEW i, GetTrigger(i) PROVE client'.at \in {"failed", "trigger"}
      BY <2>5 DEF GetTrigger, Failed
    <2>6. QED
      BY <1>1, <2>1, <2>2, <2>3, <2>4, <2>5 DEF Queries
  <1>2. CASE Mutations
    <2>1. ASSUME NEW n, CreateTrigger(n) PROVE client'.at \in {"idle", "failed"}
      BY <2>1 DEF CreateTrigger, Idle, Failed
    <2>2. QED
      BY <1>2, <2>1 DEF Mutations
  <1>3. CASE Cluster
    <2>1. Noted => client' = client \/ (client.at = "walk" /\ client'.at = "walk")
      <3> SUFFICES ASSUME Noted, client.at = "walk", NEW a, NEW r,
                          client' = [client EXCEPT !.added = a, !.removed = r]
                   PROVE  client'.at = "walk"
        BY NotedIs
      <3>1. DOMAIN client = WalkFields
        BY DEF IInv, ClientInv, ClientOK
      <3>2. QED
        BY <3>1 DEF WalkFields
    <2>2. QED
      BY <1>3, <2>1 DEF Cluster, SubmitByHand, WorkflowProceeds, WorkflowDeleted, TriggerApplied, TriggerDeleted
  <1>4. CASE ClientDone
    BY <1>4 DEF ClientDone, Idle
  <1>5. CASE UNCHANGED vars
    BY <1>5 DEF vars
  <1>6. QED
    BY <1>1, <1>2, <1>3, <1>4, <1>5 DEF Next

\* Where a walk's own steps leave it.
LEMMA WalksOn ==
    ASSUME IInv, Walks \/ NextPage \/ PageFails
    PROVE  client'.at \in {"failed", "walk", "walked"}
  <1>1. CASE Walks
    <2>1. ASSUME NEW k, NEW f, NEW l, StartWalk(k, f, l) PROVE client'.at \in {"failed", "walk"}
      BY <2>1 DEF StartWalk, Failed
    <2>2. QED
      BY <1>1, <2>1 DEF Walks
  <1>2. CASE NextPage \/ PageFails
    <2>1. client.at = "walk" /\ DOMAIN client = WalkFields
      BY <1>2 DEF NextPage, PageFails, IInv, ClientInv, ClientOK
    <2>2. DOMAIN Asking(client) = WalkFields
      BY <2>1 DEF Asking, WalkFields
    <2>3. NextPage => client'.at \in {"walk", "walked"}
      <3> SUFFICES ASSUME NextPage PROVE client'.at \in {"walk", "walked"}
        OBVIOUS
      <3> DEFINE c == Asking(client)
                 pg == Page(client)
      <3> HIDE DEF c, pg
      <3>1. DOMAIN c = WalkFields
        BY <2>2 DEF c
      <3>2. client' = [c EXCEPT !.at = IF pg.hasNext THEN "walk" ELSE "walked",
                                !.cursor = pg.cursor,
                                !.linked = @ /\ (pg.hasPrevious <=> client.pages > 0),
                                !.pages = @ + 1,
                                !.seen = @ \o Keys(client.kind, pg.items)]
        BY DEF NextPage, c, pg
      <3>3. QED
        BY <3>1, <3>2 DEF WalkFields
    <2>4. PageFails => client'.at \in {"failed", "walked"}
      <3>1. client' = Failed => client'.at = "failed"
        BY DEF Failed
      <3>2. client' = [client EXCEPT !.at = "walked", !.pages = @ + 1, !.swallowed = TRUE] => client'.at = "walked"
        BY <2>1 DEF WalkFields
      <3>3. QED
        BY <3>1, <3>2 DEF PageFails
    <2>5. QED
      BY <1>2, <2>3, <2>4
  <1>3. QED
    BY <1>1, <1>2

\* Every step keeps what is known of the form.
LEMMA FormStep ==
    ASSUME IInv, FormInv, [Next]_vars
    PROVE  FormInv'
  <1>1. CASE client' = client
    BY <1>1 DEF FormInv
  <1>2. CASE client'.at \notin Submitting
    BY <1>2 DEF FormInv
  <1>3. ASSUME NEW t, NEW values, Submit(t, values),
               t # None => t \in Range(Catalog) /\ values \in [Required(t) -> FormValues]
        PROVE  FormInv'
    <2>1. client'.template = t /\ client'.values = values /\ client'.unbound = FALSE
      BY <1>3 DEF Submit
    <2>2. QED
      BY <1>3, <2>1 DEF FormInv
  <1>4. CASE SubmitAccepted \/ SubmitRefused \/ Retry
    <2>1. client.at \in Submitting /\ DOMAIN client = SubmitFields
      BY <1>4 DEF SubmitAccepted, SubmitRefused, Retry, IInv, ClientInv, Counted, Submitting
    <2>2. /\ client'.template = client.template /\ client'.values = client.values
          /\ \/ client'.unbound = client.unbound
             \/ client'.unbound = (client.template # None /\ Unbound(client.template, Given(client.values)))
      <3>1. CASE SubmitAccepted
        BY <2>1, <3>1 DEF SubmitAccepted, SubmitFields
      <3>2. CASE SubmitRefused
        BY <2>1, <3>2 DEF SubmitRefused, SubmitFields
      <3>3. CASE Retry
        BY <2>1, <3>3 DEF Retry, SubmitFields
      <3>4. QED
        BY <1>4, <3>1, <3>2, <3>3
    <2>3. QED
      BY <2>1, <2>2 DEF FormInv
  <1>5. Walks \/ NextPage \/ PageFails => client'.at \notin Submitting
    BY WalksOn DEF Submitting
  <1>6. QED
    BY <1>1, <1>2, <1>3, <1>4, <1>5, ClientSteps DEF Submitting

\* ArgumentSchema::new: the derived form asks for every parameter without a source.
LEMMA FormAsks ==
    ASSUME NEW t \in Range(Catalog), t.schema = None,
           NEW p \in Range(t.arguments \o t.inputs), ~p.valueFrom
    PROVE  p.name \in Required(t)
  <1> DEFINE S == Range(t.arguments) \cup Range(t.inputs)
             all == t.arguments \o t.inputs
             P == {i \in DOMAIN all : ~all[i].valueFrom}
  <1>1. t.arguments \in Seq(S) /\ t.inputs \in Seq(S)
    BY CatalogIsList
  <1>2. all \in Seq(S)
    BY <1>1
  <1>3. PICK i \in P : p = all[i]
    BY DEF Range
  <1>4. FormParameters(t) = Pick(all, P) /\ P \in SUBSET DOMAIN all
    BY DEF FormParameters
  <1> HIDE DEF S, all, P
  <1>5. /\ DOMAIN Pick(all, P) = 1..Cardinality(P)
        /\ \A k \in 1..Cardinality(P) : Pick(all, P)[k] = all[Nth(P, k)]
        /\ \E k \in 1..Cardinality(P) : Nth(P, k) = i
    BY <1>2, <1>3, <1>4, PickIs
  <1>6. p \in Range(FormParameters(t))
    BY <1>3, <1>5, <1>4 DEF Range
  <1>7. Required(t) = {q.name : q \in Range(FormParameters(t))}
    BY DEF Required, Arguments, Properties
  <1>8. QED
    BY <1>6, <1>7

\* to_argo_parameter and Workflow::parameters: what comes of a JSON value.
LEMMA ValueShown ==
    ASSUME NEW v \in FormValues
    PROVE  /\ v = Null => ToArgoParameter(v) = None
           /\ v # Null => /\ ToArgoParameter(v) # None
                          /\ \/ Shown(ToArgoParameter(v)) = v
                             \/ v.kind = "string" /\ JsonKind[v.text] # None
  <1>1. CASE v = Null
    BY <1>1 DEF Null, Json, ToArgoParameter
  <1>2. CASE v # Null
    <2>1. /\ v = Json(v.kind, v.text) /\ v.kind # "null" /\ v.text # None
          /\ v.kind # "string" => v.kind # None /\ v.text \in DOMAIN JsonKind /\ JsonKind[v.text] = v.kind
      BY <1>2, FormIsJson
    <2>2. ToArgoParameter(v) = v.text
      BY <2>1 DEF ToArgoParameter
    <2>3. QED
      BY <1>2, <2>1, <2>2 DEF Shown
  <1>3. QED
    BY <1>1, <1>2

\* submit_workflow_template: a form filled in from the derived schema without a
\* null is not refused for a missing parameter, and Workflow::parameters shows each
\* value as it was filled in, except a string that reads as JSON.
THEOREM FormFaithfulHolds == Spec => []FormFaithful
  <1>1. Init => FormInv
    BY DEF Init, Idle, FormInv, Submitting
  <1>2. IInv /\ FormInv /\ [Next]_vars => FormInv'
    BY FormStep
  <1>3. FormInv => FormFaithful
    <2> SUFFICES ASSUME FormInv, client.at \in {"errors", "submitted", "refused"}, client.template # None
                 PROVE  /\ client.unbound => \/ client.template.schema # None
                                             \/ \E n \in DOMAIN client.values : client.values[n] = Null
                        /\ \A n \in DOMAIN client.values :
                              LET v == client.values[n]
                                  params == Given(client.values)
                              IN  \/ v = Null /\ n \notin DOMAIN params
                                  \/ Shown(params[n]) = v
                                  \/ v.kind = "string" /\ JsonKind[v.text] # None
      BY DEF FormFaithful
    <2> DEFINE t == client.template
               vs == client.values
               params == Given(vs)
    <2>1. /\ t \in Range(Catalog) /\ vs \in [Required(t) -> FormValues]
          /\ client.unbound => Unbound(t, Given(vs))
      BY DEF FormInv, Submitting
    <2> HIDE DEF t, vs
    <2>2. /\ DOMAIN params = {n \in DOMAIN vs : ToArgoParameter(vs[n]) # None}
          /\ \A n \in DOMAIN params : params[n] = ToArgoParameter(vs[n])
      BY DEF Given
    <2> HIDE DEF params
    <2>3. ASSUME client.unbound, t.schema = None PROVE \E n \in DOMAIN vs : vs[n] = Null
      <3>1. PICK p \in Range(t.arguments \o t.inputs) : ~p.valueFrom /\ p.name \notin DOMAIN params
        BY <2>1, <2>3 DEF Unbound, params
      <3>2. p.name \in DOMAIN vs /\ vs[p.name] \in FormValues
        BY <2>1, <2>3, <3>1, FormAsks
      <3>3. ToArgoParameter(vs[p.name]) = None
        BY <2>2, <3>1, <3>2
      <3>4. QED
        BY <3>2, <3>3, ValueShown
    <2>4. ASSUME NEW n \in DOMAIN vs
          PROVE  \/ vs[n] = Null /\ n \notin DOMAIN params
                 \/ Shown(params[n]) = vs[n]
                 \/ vs[n].kind = "string" /\ JsonKind[vs[n].text] # None
      <3>1. vs[n] \in FormValues
        BY <2>1
      <3>2. QED
        BY <2>2, <3>1, ValueShown
    <2>5. QED
      BY <2>3, <2>4 DEF t, vs, params
  <1>4. QED
    BY Invariant, <1>1, <1>2, <1>3, PTL DEF Spec

-----------------------------------------------------------------------------

(***************************************************************************)
(* Falling lists: the uids of a listing, newest first.                     *)
(***************************************************************************)

Falling(K) == K \in Seq(Nat) /\ \A i, j \in DOMAIN K : i < j => K[i] > K[j]

\* The place of a uid is the number of those at least as recent.
LEMMA Rank ==
    ASSUME NEW K, Falling(K), NEW k \in DOMAIN K
    PROVE  /\ IsFiniteSet({v \in Range(K) : v >= K[k]})
           /\ Cardinality({v \in Range(K) : v >= K[k]}) = k
  <1> DEFINE T == {v \in Range(K) : v >= K[k]}
             f == [i \in 1..k |-> K[i]]
  <1>1. /\ DOMAIN K = 1..Len(K) /\ Len(K) \in Nat /\ k \in Nat /\ k >= 1 /\ k <= Len(K)
        /\ \A i \in DOMAIN K : K[i] \in Nat
    BY DEF Falling
  <1>2. \A i \in 1..k : i \in DOMAIN K
    BY <1>1
  <1>3. \A i \in 1..k : K[i] \in T
    <2> SUFFICES ASSUME NEW i \in 1..k PROVE K[i] >= K[k]
      BY <1>2 DEF Range
    <2>1. i < k \/ i = k
      BY <1>1
    <2>2. i < k => K[i] > K[k]
      BY <1>2 DEF Falling
    <2>3. QED
      BY <1>1, <1>2, <2>1, <2>2
  <1>4. \A v \in T : \E i \in 1..k : K[i] = v
    <2> SUFFICES ASSUME NEW v \in T PROVE \E i \in 1..k : K[i] = v
      OBVIOUS
    <2>1. PICK i \in DOMAIN K : v = K[i] /\ K[i] >= K[k]
      BY DEF Range
    <2>2. ~(k < i)
      <3>1. k < i => K[k] > K[i]
        BY DEF Falling
      <3>2. QED
        BY <1>1, <2>1, <3>1
    <2>3. i \in 1..k
      BY <1>1, <2>2
    <2>4. QED
      BY <2>1, <2>3
  <1>5. \A i, j \in 1..k : K[i] = K[j] => i = j
    <2> SUFFICES ASSUME NEW i \in 1..k, NEW j \in 1..k, K[i] = K[j] PROVE i = j
      OBVIOUS
    <2>1. (i < j => K[i] > K[j]) /\ (j < i => K[j] > K[i])
      BY <1>2 DEF Falling
    <2>2. QED
      BY <1>1, <1>2, <2>1
  <1>6. f \in [1..k -> T]
    BY <1>3
  <1>7. f \in Bijection(1..k, T)
    BY <1>4, <1>5, <1>6 DEF Bijection, Injection, Surjection, IsInjective
  <1>8. ExistsBijection(1..k, T)
    BY <1>7 DEF ExistsBijection
  <1>9. IsFiniteSet(1..k) /\ Cardinality(1..k) = k
    BY <1>1, FS_Interval
  <1>10. QED
    BY <1>8, <1>9, FS_Bijection

\* Uids that are in a larger selection too are no further on in the smaller one.
LEMMA Ahead ==
    ASSUME NEW K, Falling(K), NEW L, Falling(L), Range(K) \subseteq Range(L),
           NEW i \in DOMAIN K, NEW j \in DOMAIN L, K[i] = L[j]
    PROVE  i <= j
  <1> DEFINE A == {v \in Range(K) : v >= K[i]}
             B == {v \in Range(L) : v >= L[j]}
  <1>1. IsFiniteSet(B) /\ Cardinality(A) = i /\ Cardinality(B) = j
    BY Rank
  <1>2. A \in SUBSET B
    OBVIOUS
  <1>3. QED
    BY <1>1, <1>2, FS_Subset

\* Two falling lists of the same uids are the same.
LEMMA SameList ==
    ASSUME NEW K, Falling(K), NEW L, Falling(L), Range(K) = Range(L)
    PROVE  K = L
  <1>1. ASSUME NEW A, Falling(A), NEW B, Falling(B), Range(A) = Range(B), NEW i \in DOMAIN A
        PROVE  i \in DOMAIN B /\ A[i] = B[i]
    <2>1. PICK j \in DOMAIN B : A[i] = B[j]
      BY <1>1 DEF Range
    <2>2. i <= j /\ j <= i
      BY <1>1, <2>1, Ahead
    <2>3. i \in Nat /\ j \in Nat
      BY <1>1 DEF Falling
    <2>4. QED
      BY <2>1, <2>2, <2>3
  <1>2. DOMAIN K = DOMAIN L
    BY <1>1
  <1>3. \A i \in DOMAIN K : K[i] = L[i]
    BY <1>1
  <1>4. K \in Seq(Nat) /\ L \in Seq(Nat)
    BY DEF Falling
  <1>5. QED
    BY <1>2, <1>3, <1>4

\* No uid is twice in a falling list.
LEMMA FallingApart ==
    ASSUME NEW K, Falling(K), NEW i \in DOMAIN K, NEW j \in DOMAIN K, K[i] = K[j]
    PROVE  i = j
  <1>1. i \in Nat /\ j \in Nat /\ K[i] \in Nat /\ K[j] \in Nat
    BY DEF Falling
  <1>2. (i < j => K[i] > K[j]) /\ (j < i => K[j] > K[i])
    BY DEF Falling
  <1>3. QED
    BY <1>1, <1>2

\* Some of a falling list.
LEMMA PickFalling ==
    ASSUME NEW K, Falling(K), NEW P \in SUBSET DOMAIN K
    PROVE  Falling(Pick(K, P)) /\ Range(Pick(K, P)) = {K[i] : i \in P}
  <1> DEFINE s == Pick(K, P)
  <1>1. K \in Seq(Nat)
    BY DEF Falling
  <1>2. /\ s \in Seq(Nat) /\ DOMAIN s = 1..Cardinality(P)
        /\ \A k \in 1..Cardinality(P) : Nth(P, k) \in P /\ s[k] = K[Nth(P, k)]
        /\ \A j, k \in 1..Cardinality(P) : j < k => Nth(P, j) < Nth(P, k)
        /\ \A i \in P : \E k \in 1..Cardinality(P) : Nth(P, k) = i
    BY <1>1, PickIs
  <1> HIDE DEF s
  <1>3. \A j, k \in DOMAIN s : j < k => s[j] > s[k]
    BY <1>2 DEF Falling
  <1>4. Range(s) = {K[i] : i \in P}
    BY <1>2 DEF Range
  <1>5. QED
    BY <1>2, <1>3, <1>4 DEF Falling, s

\* The visit's workflows, as far as their order goes.
Listed(ws) == ws \in Seq(Workflow) /\ \A i, j \in DOMAIN ws : i < j => ws[i].uid > ws[j].uid

\* The uids of some of the workflows.
LEMMA PickedUids ==
    ASSUME NEW ws, Listed(ws), NEW P \in SUBSET DOMAIN ws
    PROVE  LET K == Keys("workflows", Pick(ws, P))
           IN  Falling(K) /\ Range(K) = {ws[i].uid : i \in P} /\ DOMAIN K = DOMAIN Pick(ws, P)
  <1> DEFINE s == Pick(ws, P)
             K == Keys("workflows", s)
  <1>1. ws \in Seq(Workflow)
    BY DEF Listed
  <1>2. /\ s \in Seq(Workflow) /\ DOMAIN s = 1..Cardinality(P) /\ Cardinality(P) \in Nat
        /\ \A k \in 1..Cardinality(P) : Nth(P, k) \in P /\ s[k] = ws[Nth(P, k)]
        /\ \A j, k \in 1..Cardinality(P) : j < k => Nth(P, j) < Nth(P, k)
        /\ \A i \in P : \E k \in 1..Cardinality(P) : Nth(P, k) = i
    BY <1>1, PickIs
  <1> HIDE DEF s
  <1>3. DOMAIN K = 1..Cardinality(P) /\ \A k \in 1..Cardinality(P) : K[k] = s[k].uid
    BY <1>2 DEF Keys, Key
  <1>4. \A k \in 1..Cardinality(P) : s[k] \in Workflow
    BY <1>2
  <1>5. \A w \in Workflow : w.uid \in Nat
    BY MaxUidNat DEF Workflow
  <1>6. K = [k \in 1..Cardinality(P) |-> s[k].uid]
    BY <1>2 DEF Keys, Key
  <1>7. K \in Seq(Nat)
    BY <1>2, <1>4, <1>5, <1>6
  <1> HIDE DEF K
  <1>8. \A j, k \in DOMAIN K : j < k => K[j] > K[k]
    BY <1>2, <1>3 DEF Listed
  <1>9. Range(K) = {ws[i].uid : i \in P}
    BY <1>2, <1>3 DEF Range
  <1>10. QED
    BY <1>2, <1>3, <1>7, <1>8, <1>9 DEF Falling, s, K

-----------------------------------------------------------------------------

(***************************************************************************)
(* Filters: what the selector selects is what was asked for.               *)
(***************************************************************************)

\* A workflow of a template has the template's label, and no other has one.
Tagged(w) ==
    /\ "template" \in DOMAIN w.labels <=> w.template # None
    /\ w.template # None => w.labels["template"] = w.template

\* The labels the API sees: Argo's phase, and those of the submission.
LEMMA LabelsAre ==
    ASSUME NEW w \in Workflow
    PROVE  /\ w.phase \in Phases
           /\ "phase" \in DOMAIN Labels(w) <=> w.phase # "None"
           /\ w.phase # "None" => Labels(w)["phase"] = w.phase
           /\ \A k : k # "phase" =>
                 /\ k \in DOMAIN Labels(w) <=> k \in DOMAIN w.labels
                 /\ k \in DOMAIN w.labels => Labels(w)[k] = w.labels[k]
  <1>1. /\ w.phase \in Phases
        /\ w.labels \in UNION {[ks -> Users \cup TemplateNames] :
                                 ks \in SUBSET {"creator", "preferred-username", "template"}}
    <2>1. ASSUME NEW L, w \in [uid: 1..MaxUid, origin: {"graph", "hand"}, name: 0..MaxUid, phase: Phases,
                               labels: L, template: {None} \cup TemplateNames]
          PROVE  w.phase \in Phases /\ w.labels \in L
      <3> HIDE DEF Phases
      <3> QED
        BY <2>1
    <2>2. QED
      BY <2>1 DEF Workflow
  <1>2. PICK ks \in SUBSET {"creator", "preferred-username", "template"} :
            w.labels \in [ks -> Users \cup TemplateNames]
    BY <1>1
  <1>3. "phase" \notin DOMAIN w.labels
    BY <1>2
  <1>4. CASE w.phase = "None"
    BY <1>1, <1>3, <1>4 DEF Labels
  <1>5. CASE w.phase # "None"
    <2>1. Labels(w) = [k \in DOMAIN w.labels \cup {"phase"} |-> IF k = "phase" THEN w.phase ELSE w.labels[k]]
      BY <1>5 DEF Labels
    <2>2. QED
      BY <1>1, <1>3, <1>5, <2>1
  <1>6. QED
    BY <1>4, <1>5

\* LabelFilter: a requirement and the operator it was made from agree.
LEMMA SelectorIs ==
    ASSUME NEW labels, NEW l, l.operator \in {"Exists", "DoesNotExist", "Eq", "Ne", "In", "NotIn"}
    PROVE  Meets(labels, ToLabelSelector(l)) <=>
             LET has == l.key \in DOMAIN labels
                 value == labels[l.key]
             IN  CASE l.operator = "Exists" -> has
                   [] l.operator = "DoesNotExist" -> ~has
                   [] l.operator = "Eq" -> has /\ value = l.values[1]
                   [] l.operator = "In" -> has /\ value \in ValueSet(l)
                   [] l.operator = "Ne" -> ~has \/ value # l.values[1]
                   [] OTHER -> ~has \/ value \notin ValueSet(l)
  <1> HIDE DEF ValueSet
  <1>1. CASE l.operator = "Exists"
    BY <1>1 DEF ToLabelSelector, Meets, Req
  <1>2. CASE l.operator = "DoesNotExist"
    BY <1>2 DEF ToLabelSelector, Meets, Req
  <1>3. CASE l.operator = "Eq"
    BY <1>3 DEF ToLabelSelector, Meets, Req
  <1>4. CASE l.operator = "Ne"
    BY <1>4 DEF ToLabelSelector, Meets, Req
  <1>5. CASE l.operator = "In"
    BY <1>5 DEF ToLabelSelector, Meets, Req
  <1>6. CASE l.operator = "NotIn"
    BY <1>6 DEF ToLabelSelector, Meets, Req
  <1>7. QED
    BY <1>1, <1>2, <1>3, <1>4, <1>5, <1>6

\* One requirement that names values, and none.
LEMMA OneRequirement ==
    ASSUME NEW labels, NEW k, NEW vs
    PROVE  /\ Selected(labels, {Req(k, "in", vs)}) <=> k \in DOMAIN labels /\ labels[k] \in vs
           /\ Selected(labels, {})
  <1>1. Meets(labels, Req(k, "in", vs)) <=> k \in DOMAIN labels /\ labels[k] \in vs
    BY DEF Meets, Req
  <1>2. QED
    BY <1>1 DEF Selected

\* WorkflowFilter::create_label_selection: what it selects is what was asked for,
\* except that the creator is looked up in one label only.
LEMMA FilterIs ==
    ASSUME NEW w \in Workflow, Tagged(w), NEW f \in Filters
    PROVE  Selected(Labels(w), WorkflowSelection(f)) <=>
             Asked(f, w) /\ (f.creator # None => "preferred-username" \in DOMAIN w.labels)
  <1> DEFINE L == Labels(w)
  <1>1. /\ w.phase \in Phases
        /\ "phase" \in DOMAIN L <=> w.phase # "None"
        /\ w.phase # "None" => L["phase"] = w.phase
        /\ \A k : k # "phase" =>
              /\ k \in DOMAIN L <=> k \in DOMAIN w.labels
              /\ k \in DOMAIN w.labels => L[k] = w.labels[k]
    BY LabelsAre
  <1> DEFINE D == {ToLabelSelector(l) : l \in f.labels}
  <1>2. Selected(L, WorkflowSelection(f)) <=>
           /\ Selected(L, StatusLabels(f.status)) /\ Selected(L, CreatorLabels(f.creator))
           /\ Selected(L, TemplateLabels(f.template)) /\ Selected(L, D)
    BY DEF Selected, WorkflowSelection
  <1> DEFINE AskedLabels == \A l \in f.labels :
                              LET has == l.key \in DOMAIN Labels(w)
                                  value == Labels(w)[l.key]
                              IN  CASE l.operator = "Exists" -> has
                                    [] l.operator = "DoesNotExist" -> ~has
                                    [] l.operator = "Eq" -> has /\ value = l.values[1]
                                    [] l.operator = "In" -> has /\ value \in ValueSet(l)
                                    [] l.operator = "Ne" -> ~has \/ value # l.values[1]
                                    [] OTHER -> ~has \/ value \notin ValueSet(l)
  <1>3. Selected(L, D) <=> \A l \in f.labels : Meets(L, ToLabelSelector(l))
    BY DEF Selected
  <1>4. Selected(L, D) <=> AskedLabels
    BY <1>3, FiltersTyped, SelectorIs
  <1>5. Asked(f, w) <=> /\ f.status = {} \/ w.phase \in f.status
                        /\ f.creator = None \/ Creator(w) = f.creator
                        /\ f.template = None \/ w.template = f.template
                        /\ AskedLabels
    BY DEF Asked
  <1> HIDE DEF L, D, AskedLabels
  <1>6. Selected(L, StatusLabels(f.status)) <=> f.status = {} \/ w.phase \in f.status
    <2>1. CASE f.status = {}
      BY <2>1, OneRequirement DEF StatusLabels
    <2>2. CASE f.status # {}
      <3>1. Selected(L, StatusLabels(f.status)) <=> "phase" \in DOMAIN L /\ L["phase"] \in f.status
        BY <2>2, OneRequirement DEF StatusLabels
      <3>2. "None" \notin f.status
        BY FiltersTyped
      <3>3. QED
        BY <1>1, <2>2, <3>1, <3>2
    <2>3. QED
      BY <2>1, <2>2
  <1>7. Selected(L, CreatorLabels(f.creator)) <=>
           f.creator = None \/ ("preferred-username" \in DOMAIN w.labels /\ Creator(w) = f.creator)
    <2>1. CASE f.creator = None
      BY <2>1, OneRequirement DEF CreatorLabels
    <2>2. CASE f.creator # None
      <3>1. Selected(L, CreatorLabels(f.creator)) <=>
               "preferred-username" \in DOMAIN L /\ L["preferred-username"] \in {f.creator}
        BY <2>2, OneRequirement DEF CreatorLabels
      <3>2. QED
        BY <1>1, <2>2, <3>1 DEF Creator
    <2>3. QED
      BY <2>1, <2>2
  <1>8. Selected(L, TemplateLabels(f.template)) <=> f.template = None \/ w.template = f.template
    <2>1. CASE f.template = None
      BY <2>1, OneRequirement DEF TemplateLabels
    <2>2. CASE f.template # None
      <3>1. Selected(L, TemplateLabels(f.template)) <=> "template" \in DOMAIN L /\ L["template"] \in {f.template}
        BY <2>2, OneRequirement DEF TemplateLabels
      <3>2. QED
        BY <1>1, <2>2, <3>1 DEF Tagged
    <2>3. QED
      BY <2>1, <2>2
  <1>9. QED
    BY <1>2, <1>4, <1>5, <1>6, <1>7, <1>8 DEF L

\* WorkflowTemplatesFilter::create_label_selection.
LEMMA GroupFilterIs ==
    ASSUME NEW t, NEW groups
    PROVE  Selected(t.labels, TemplateSelection(groups)) <=> \A g \in groups : InGroup(t, g)
  <1>1. \A g : Meets(t.labels, Req(g, "in", {"true"})) <=> InGroup(t, g)
    BY DEF Meets, Req, InGroup
  <1>2. QED
    BY <1>1 DEF Selected, TemplateSelection

\* The uids of the workflows a filter selects now.
Now(ws, f) == Keys("workflows", Matching(ws, f))

\* What a walk should see is what the API selects as of its first page.
LEMMA FirstFound ==
    ASSUME Listed(argo), \A i \in DOMAIN argo : Tagged(argo[i]),
           NEW c, c.kind = "workflows", c.filter \in Filters, c.asked = AskedKeys(c),
           c.odd = {w.uid : w \in {v \in Range(argo) : "preferred-username" \notin DOMAIN v.labels}}
    PROVE  Falling(c.asked) /\ Findable(c) = Now(argo, c.filter)
  <1> DEFINE f == c.filter
             PA == {i \in DOMAIN argo : Asked(f, argo[i])}
             PS == {i \in DOMAIN argo : Selected(Labels(argo[i]), WorkflowSelection(f))}
             K == c.asked
             PF == {i \in DOMAIN K : f.creator # None => K[i] \notin c.odd}
  <1>1. PA \in SUBSET DOMAIN argo /\ PS \in SUBSET DOMAIN argo /\ PF \in SUBSET DOMAIN K
    OBVIOUS
  <1>2. K = Keys("workflows", Pick(argo, PA)) /\ Now(argo, f) = Keys("workflows", Pick(argo, PS))
    BY DEF AskedKeys, Now, Matching
  <1>3. Falling(K) /\ Range(K) = {argo[i].uid : i \in PA}
    BY <1>1, <1>2, PickedUids
  <1>4. Falling(Now(argo, f)) /\ Range(Now(argo, f)) = {argo[i].uid : i \in PS}
    BY <1>1, <1>2, PickedUids
  <1>5. Findable(c) = Pick(K, PF)
    BY DEF Findable
  <1>6. Falling(Pick(K, PF)) /\ Range(Pick(K, PF)) = {K[i] : i \in PF}
    BY <1>1, <1>3, PickFalling
  <1>7. \A i \in DOMAIN argo : i \in PS <=> i \in PA /\ (f.creator # None => "preferred-username" \in DOMAIN argo[i].labels)
    BY FilterIs DEF Listed
  <1>8. \A i, j \in DOMAIN argo : argo[i].uid = argo[j].uid => i = j
    <2> SUFFICES ASSUME NEW i \in DOMAIN argo, NEW j \in DOMAIN argo, argo[i].uid = argo[j].uid PROVE i = j
      OBVIOUS
    <2>1. i \in Nat /\ j \in Nat /\ argo[i] \in Workflow /\ argo[j] \in Workflow
      BY DEF Listed
    <2>2. argo[i].uid \in Nat /\ argo[j].uid \in Nat
      BY <2>1, MaxUidNat DEF Workflow
    <2>3. QED
      BY <2>1, <2>2 DEF Listed
  <1>9. \A i \in DOMAIN argo : argo[i].uid \in c.odd <=> "preferred-username" \notin DOMAIN argo[i].labels
    BY <1>8 DEF Range
  <1> HIDE DEF PA, PS, K
  <1>10. \A v : v \in {K[i] : i \in PF} <=> v \in Range(K) /\ (f.creator # None => v \notin c.odd)
    BY DEF Range
  <1>11. {K[i] : i \in PF} = {argo[i].uid : i \in PS}
    <2>1. PA \subseteq DOMAIN argo /\ PS \subseteq DOMAIN argo
      BY <1>1
    <2>2. ASSUME NEW i \in PS PROVE argo[i].uid \in Range(K) /\ (f.creator # None => argo[i].uid \notin c.odd)
      BY <1>3, <1>7, <1>9, <2>1
    <2>3. ASSUME NEW v \in Range(K), f.creator # None => v \notin c.odd PROVE v \in {argo[i].uid : i \in PS}
      <3>1. PICK i \in PA : v = argo[i].uid
        BY <1>3
      <3>2. QED
        BY <1>7, <1>9, <2>1, <2>3, <3>1
    <2>4. QED
      BY <1>10, <2>2, <2>3
  <1>12. QED
    BY <1>3, <1>4, <1>5, <1>6, <1>11, SameList DEF K

-----------------------------------------------------------------------------

(***************************************************************************)
(* Pages.                                                                  *)
(***************************************************************************)

\* One list after another.
LEMMA JoinedIs ==
    ASSUME NEW V, NEW s \in Seq(V), NEW t \in Seq(V)
    PROVE  /\ s \o t \in Seq(V) /\ Len(s \o t) = Len(s) + Len(t)
           /\ \A i \in 1..Len(s) : (s \o t)[i] = s[i]
           /\ \A i \in 1..Len(t) : (s \o t)[Len(s) + i] = t[i]
           /\ \A i \in DOMAIN (s \o t) :
                 i \in DOMAIN s \/ (i - Len(s) \in DOMAIN t /\ (s \o t)[i] = t[i - Len(s)])
           /\ Range(s \o t) = Range(s) \cup Range(t)
  <1> DEFINE j == s \o t
  <1>1. /\ j \in Seq(V) /\ Len(j) = Len(s) + Len(t) /\ Len(s) \in Nat /\ Len(t) \in Nat
        /\ DOMAIN s = 1..Len(s) /\ DOMAIN t = 1..Len(t) /\ DOMAIN j = 1..(Len(s) + Len(t))
    OBVIOUS
  <1>2. \A i \in 1..Len(s) : i \in DOMAIN j /\ j[i] = s[i]
    OBVIOUS
  <1>3. \A i \in 1..Len(t) : Len(s) + i \in DOMAIN j /\ j[Len(s) + i] = t[i]
    OBVIOUS
  <1> HIDE DEF j
  <1>4. ASSUME NEW i \in DOMAIN j, i \notin DOMAIN s
        PROVE  i - Len(s) \in DOMAIN t /\ j[i] = t[i - Len(s)]
    <2>1. i - Len(s) \in 1..Len(t) /\ Len(s) + (i - Len(s)) = i
      BY <1>1, <1>4
    <2>2. QED
      BY <1>1, <1>3, <2>1
  <1>5. Range(j) = Range(s) \cup Range(t)
    <2>1. \A v \in Range(j) : v \in Range(s) \cup Range(t)
      <3> SUFFICES ASSUME NEW i \in DOMAIN j PROVE j[i] \in Range(s) \cup Range(t)
        BY DEF Range
      <3>1. CASE i \in DOMAIN s
        BY <1>1, <1>2, <3>1 DEF Range
      <3>2. CASE i \notin DOMAIN s
        BY <1>4, <3>2 DEF Range
      <3>3. QED
        BY <3>1, <3>2
    <2>2. \A v \in Range(s) : v \in Range(j)
      <3> SUFFICES ASSUME NEW i \in DOMAIN s PROVE s[i] \in Range(j)
        BY DEF Range
      <3> QED
        BY <1>1, <1>2 DEF Range
    <2>3. \A v \in Range(t) : v \in Range(j)
      <3> SUFFICES ASSUME NEW i \in DOMAIN t PROVE t[i] \in Range(j)
        BY DEF Range
      <3> QED
        BY <1>1, <1>3 DEF Range
    <2>4. QED
      BY <2>1, <2>2, <2>3
  <1>6. QED
    BY <1>1, <1>2, <1>3, <1>4, <1>5 DEF j

\* Two lists are the same if they agree everywhere.
LEMMA SameSeq ==
    ASSUME NEW V, NEW s \in Seq(V), NEW t \in Seq(V), Len(s) = Len(t), \A i \in 1..Len(s) : s[i] = t[i]
    PROVE  s = t
  OBVIOUS

\* A slice, empty if it ends before it begins.
Slice(q, X, s, a, e) ==
    /\ q \in Seq(X) /\ Len(q) = (IF a + 1 <= e THEN e - a ELSE 0)
    /\ \A i \in 1..Len(q) : a + i \in DOMAIN s /\ q[i] = s[a + i]

LEMMA SliceIs ==
    ASSUME NEW X, NEW s \in Seq(X), NEW a \in Nat, NEW e \in Nat, e <= Len(s)
    PROVE  Slice(SubSeq(s, a + 1, e), X, s, a, e)
  <1> DEFINE q == SubSeq(s, a + 1, e)
  <1>1. CASE a + 1 <= e
    <2>1. q \in Seq(X) /\ Len(q) = e - a
      BY <1>1
    <2>2. \A i \in 1..(e - a) : a + i \in DOMAIN s /\ q[i] = s[a + i]
      BY <1>1
    <2>3. QED
      BY <1>1, <2>1, <2>2 DEF Slice
  <1>2. CASE ~(a + 1 <= e)
    <2>1. q = <<>>
      BY <1>2
    <2>2. QED
      BY <1>2, <2>1 DEF Slice
  <1>3. QED
    BY <1>1, <1>2

\* Where the page of n after cursor ends in a list of L.
LEMMA PageEnd ==
    ASSUME NEW L \in Nat, NEW n \in Nat, n > 0, NEW cursor \in Nat, NEW e \in Nat,
           e <= cursor + n, e <= L, e = cursor + n \/ e = L,
           NEW m, m = IF cursor + 1 <= e THEN e - cursor ELSE 0
    PROVE  /\ L > cursor + n => cursor + m > cursor
           /\ ~(L > cursor + n) => cursor + m >= L
           /\ cursor <= L => cursor + m <= L
  OBVIOUS

\* The page at an offset, in keys.
LEMMA OffsetPageIs ==
    ASSUME NEW X, NEW all \in Seq(X), NEW kind, NEW V, Keys(kind, all) \in Seq(V),
           NEW n \in Nat, n > 0, NEW cursor \in Nat
    PROVE  LET p == OffsetPage(all, n, cursor)
               K == Keys(kind, all)
               ks == Keys(kind, p.items)
           IN  /\ ks \in Seq(V) /\ p.cursor = cursor + Len(ks)
               /\ \A i \in 1..Len(ks) : cursor + i \in DOMAIN K /\ ks[i] = K[cursor + i]
               /\ p.hasPrevious <=> cursor > 0
               /\ p.hasNext => p.cursor > cursor
               /\ ~p.hasNext => p.cursor >= Len(K)
               /\ cursor <= Len(K) => p.cursor <= Len(K)
  <1> DEFINE p == OffsetPage(all, n, cursor)
             K == Keys(kind, all)
             ks == Keys(kind, p.items)
             e == Min({cursor + n, Len(all)})
  <1>1. Len(all) \in Nat /\ DOMAIN all = 1..Len(all)
    OBVIOUS
  <1>2. e \in Nat /\ e <= cursor + n /\ e <= Len(all) /\ (e = cursor + n \/ e = Len(all))
    <2>1. {cursor + n, Len(all)} \in SUBSET Nat /\ {cursor + n, Len(all)} # {}
      BY <1>1
    <2>2. QED
      BY <2>1, Least
  <1> HIDE DEF e
  <1>3. /\ p.items = SubSeq(all, cursor + 1, e) /\ (p.hasPrevious <=> cursor > 0)
        /\ p.hasNext <=> Len(all) > cursor + n
        /\ p.cursor = cursor + Len(p.items)
    BY DEF OffsetPage, EdgeCursor, e
  <1> HIDE DEF p
  <1> DEFINE items == p.items
  <1>4. /\ items \in Seq(X) /\ Len(items) = (IF cursor + 1 <= e THEN e - cursor ELSE 0)
        /\ \A i \in 1..Len(items) : cursor + i \in DOMAIN all /\ items[i] = all[cursor + i]
    <2>1. Slice(SubSeq(all, cursor + 1, e), X, all, cursor, e)
      BY <1>2, SliceIs, Zenon
    <2>2. Slice(items, X, all, cursor, e)
      BY <1>3, <2>1
    <2> HIDE DEF items
    <2>3. QED
      BY <2>2 DEF Slice
  <1>5. DOMAIN K = 1..Len(all) /\ Len(K) = Len(all) /\ \A i \in 1..Len(all) : K[i] = Key(kind, all[i])
    <2>1. DOMAIN K = 1..Len(all) /\ \A i \in 1..Len(all) : K[i] = Key(kind, all[i])
      BY <1>1 DEF Keys
    <2> HIDE DEF K
    <2>2. K \in Seq(V)
      BY DEF K
    <2>3. QED
      BY <1>1, <2>1, <2>2
  <1>6. DOMAIN ks = 1..Len(items) /\ \A i \in 1..Len(items) : ks[i] = Key(kind, items[i])
    BY <1>4 DEF Keys
  <1>7. Len(items) \in Nat
    BY <1>4
  <1>8. \A i \in 1..Len(items) : cursor + i \in DOMAIN K /\ ks[i] = K[cursor + i]
    BY <1>1, <1>4, <1>5, <1>6
  <1>9. ks = [i \in 1..Len(items) |-> K[cursor + i]]
    BY <1>1, <1>4, <1>5 DEF Keys
  <1>10. K \in Seq(V)
    OBVIOUS
  <1> HIDE DEF K, ks
  <1>11. \A i \in 1..Len(items) : K[cursor + i] \in V
    BY <1>8, <1>10
  <1>12. ks \in Seq(V) /\ Len(ks) = Len(items)
    BY <1>7, <1>9, <1>11
  <1>13. /\ p.cursor = cursor + Len(ks)
         /\ \A i \in 1..Len(ks) : cursor + i \in DOMAIN K /\ ks[i] = K[cursor + i]
    BY <1>3, <1>8, <1>12
  <1>14. /\ p.hasNext => p.cursor > cursor
         /\ ~p.hasNext => p.cursor >= Len(K)
         /\ cursor <= Len(K) => p.cursor <= Len(K)
    <2>1. p.cursor = cursor + Len(items) /\ Len(K) = Len(all)
      BY <1>3, <1>5
    <2>2. /\ Len(all) > cursor + n => cursor + Len(items) > cursor
          /\ ~(Len(all) > cursor + n) => cursor + Len(items) >= Len(all)
          /\ cursor <= Len(all) => cursor + Len(items) <= Len(all)
      BY <1>1, <1>2, <1>4, PageEnd
    <2>3. p.hasNext <=> Len(all) > cursor + n
      BY <1>3
    <2> HIDE DEF items
    <2>4. QED
      BY <2>1, <2>2, <2>3
  <1>15. QED
    BY <1>3, <1>12, <1>13, <1>14 DEF p, K, ks

\* The names of triggers.
LEMMA TriggerKeys ==
    ASSUME NEW s \in Seq(Trigger)
    PROVE  /\ Keys("triggers", s) \in Seq(TriggerNames) /\ Len(Keys("triggers", s)) = Len(s)
           /\ \A i \in 1..Len(s) : Keys("triggers", s)[i] = s[i].name
  <1>1. \A i \in DOMAIN s : s[i] \in Trigger
    OBVIOUS
  <1>2. \A i \in DOMAIN s : s[i].name \in TriggerNames
    BY <1>1 DEF Trigger
  <1>3. Keys("triggers", s) = [i \in DOMAIN s |-> s[i].name]
    BY DEF Keys, Key
  <1>4. QED
    BY <1>2, <1>3

\* The page a continue token stands for, in keys.
LEMMA TokenPageIs ==
    ASSUME NEW rest \in Seq(Trigger), NEW n \in Nat, NEW first
    PROVE  LET p == TokenPage(rest, n, first)
           IN  /\ Keys("triggers", p.items) \in Seq(TriggerNames)
               /\ p.cursor \in Seq(Trigger)
               /\ Keys("triggers", p.items) \o Keys("triggers", p.cursor) = Keys("triggers", rest)
               /\ Keys("triggers", p.cursor) \in Seq(TriggerNames)
               /\ p.hasPrevious <=> ~first
               /\ ~p.hasNext => p.cursor = <<>>
  <1> DEFINE k == IF n = 0 \/ n > Len(rest) THEN Len(rest) ELSE n
             p == TokenPage(rest, n, first)
             a == SubSeq(rest, 1, k)
             b == SubSeq(rest, k + 1, Len(rest))
  <1>1. k \in Nat /\ k <= Len(rest) /\ Len(rest) \in Nat
    OBVIOUS
  <1>2. p.items = a /\ p.cursor = b /\ (p.hasPrevious <=> ~first) /\ (p.hasNext <=> Len(rest) > k)
    BY DEF TokenPage
  <1> HIDE DEF k, p
  <1>3. a \in Seq(Trigger) /\ Len(a) = k /\ \A i \in 1..k : a[i] = rest[i]
    BY <1>1
  <1>4. b \in Seq(Trigger) /\ Len(b) = Len(rest) - k /\ \A i \in 1..(Len(rest) - k) : b[i] = rest[k + i]
    BY <1>1
  <1>5. \A s \in Seq(Trigger) :
            /\ Keys("triggers", s) \in Seq(TriggerNames) /\ Len(Keys("triggers", s)) = Len(s)
            /\ \A i \in 1..Len(s) : Keys("triggers", s)[i] = s[i].name
    BY TriggerKeys
  <1> HIDE DEF a, b
  <1> DEFINE ka == Keys("triggers", a)
             kb == Keys("triggers", b)
             kr == Keys("triggers", rest)
  <1>6. /\ ka \in Seq(TriggerNames) /\ Len(ka) = k /\ \A i \in 1..k : ka[i] = rest[i].name
        /\ kb \in Seq(TriggerNames) /\ Len(kb) = Len(rest) - k
        /\ \A i \in 1..(Len(rest) - k) : kb[i] = rest[k + i].name
        /\ kr \in Seq(TriggerNames) /\ Len(kr) = Len(rest) /\ \A i \in 1..Len(rest) : kr[i] = rest[i].name
    BY <1>3, <1>4, <1>5
  <1> HIDE DEF ka, kb, kr
  <1>7. ka \o kb = kr
    <2> DEFINE j == ka \o kb
    <2>1. /\ j \in Seq(TriggerNames) /\ Len(j) = Len(rest)
          /\ \A i \in 1..k : j[i] = ka[i]
          /\ \A i \in 1..(Len(rest) - k) : j[k + i] = kb[i]
      BY <1>1, <1>6, JoinedIs
    <2> HIDE DEF j
    <2>2. ASSUME NEW i \in 1..Len(rest) PROVE j[i] = kr[i]
      <3>1. CASE i <= k
        <4>1. i \in 1..k
          BY <1>1, <3>1
        <4>2. QED
          BY <1>6, <2>1, <4>1
      <3>2. CASE ~(i <= k)
        <4>1. i - k \in 1..(Len(rest) - k) /\ k + (i - k) = i
          BY <1>1, <3>2
        <4>2. QED
          BY <1>6, <2>1, <4>1
      <3>3. QED
        BY <3>1, <3>2
    <2>3. j = kr
      BY <1>6, <2>1, <2>2, SameSeq
    <2>4. QED
      BY <2>3 DEF j
  <1>8. ~p.hasNext => b = <<>>
    BY <1>1, <1>2, <1>4
  <1>9. QED
    BY <1>2, <1>4, <1>6, <1>7, <1>8 DEF p, ka, kb, kr

-----------------------------------------------------------------------------

(***************************************************************************)
(* Walks.                                                                  *)
(***************************************************************************)

\* What StartWalk has checked, and where a walk begins.
Begun(c) ==
    /\ c.kind \in {"workflows", "templates", "triggers"}
    /\ c.kind = "workflows" => c.filter \in Filters
    /\ PageSize(c.kind, c.limit) \in Nat
    /\ c.kind # "triggers" => PageSize(c.kind, c.limit) > 0
    /\ c.pages \in Nat /\ c.linked
    /\ c.pages = 0 => c.cursor = 0 /\ c.seen = <<>> /\ ~c.added /\ ~c.removed

\* The client has seen the keys K up to its cursor.
SeenTo(c, K) ==
    /\ Len(c.seen) = c.cursor /\ c.cursor <= Len(K)
    /\ \A k \in 1..c.cursor : c.seen[k] = K[k]

\* A walk through workflows, of which K are selected now.  While none has left the
\* selection, all that should be seen are in it, and those before the cursor have
\* been; while none has entered it, it holds nothing else, and what has been seen
\* is before the cursor.
OnWorkflows(c, K) ==
    /\ c.cursor \in Nat /\ c.seen \in Seq(Nat) /\ (c.pages > 0 <=> c.cursor > 0)
    /\ Falling(Findable(c))
    /\ ~c.removed => /\ Range(Findable(c)) \subseteq Range(K)
                     /\ \A k \in DOMAIN K : k <= c.cursor /\ K[k] \in Range(Findable(c)) => K[k] \in Range(c.seen)
    /\ ~c.added => /\ Range(K) \subseteq Range(Findable(c))
                   /\ IsInjective(c.seen)
                   /\ \A k \in DOMAIN K : K[k] \in Range(c.seen) => k <= c.cursor
    /\ ~(c.added \/ c.removed) => SeenTo(c, K)

TemplatesOf(groups) ==
    Pick(Catalog, {i \in DOMAIN Catalog : Selected(Catalog[i].labels, TemplateSelection(groups))})

\* A walk through templates.
OnTemplates(c) ==
    /\ c.cursor \in Nat /\ c.seen \in Seq(TemplateNames) /\ (c.pages > 0 <=> c.cursor > 0)
    /\ c.asked = Keys("templates", TemplatesOf(c.filter))
    /\ SeenTo(c, c.asked)

\* A walk through triggers, with the rest of its snapshot to come.
OnTriggers(c, rest) ==
    /\ rest \in Seq(Trigger) /\ c.seen \in Seq(TriggerNames)
    /\ c.asked = c.seen \o Keys("triggers", rest)

OnWalk(c) ==
    /\ c.kind = "workflows" => OnWorkflows(c, Now(argo, c.filter))
    /\ c.kind = "templates" => OnTemplates(c)
    /\ c.kind = "triggers" => OnTriggers(c, IF c.pages = 0 THEN OwnTriggers ELSE c.cursor)

TagsOK == \A i \in DOMAIN argo : Tagged(argo[i])

\* A walk under way, and one that is over.
Walking == client.at = "walk" => Begun(client) /\ (client.pages > 0 => OnWalk(client))
WalkInv == TagsOK /\ Walking /\ WalkComplete /\ WalkDrift

\* Counting from an offset, and back.
LEMMA Shift ==
    ASSUME NEW a \in Nat, NEW m \in Nat
    PROVE  /\ \A k \in Nat : k > a /\ k <= a + m => k - a \in 1..m /\ a + (k - a) = k
           /\ \A i \in 1..m : a + i > a /\ a + i <= a + m
  OBVIOUS

\* A walk through workflows takes a page: d is what becomes of c.
LEMMA WorkflowsPage ==
    ASSUME NEW ws \in Seq(Workflow), Falling(Keys("workflows", ws)),
           NEW c, c.kind = "workflows", OnWorkflows(c, Keys("workflows", ws)), c.pages \in Nat, NEW n \in Nat, n > 0,
           NEW d, d.kind = c.kind, d.filter = c.filter, d.asked = c.asked, d.odd = c.odd,
           d.added = c.added, d.removed = c.removed, d.pages = c.pages + 1,
           d.cursor = OffsetPage(ws, n, c.cursor).cursor,
           d.seen = c.seen \o Keys("workflows", OffsetPage(ws, n, c.cursor).items)
    PROVE  /\ OffsetPage(ws, n, c.cursor).hasPrevious <=> c.pages > 0
           /\ OffsetPage(ws, n, c.cursor).hasNext => OnWorkflows(d, Keys("workflows", ws))
           /\ ~OffsetPage(ws, n, c.cursor).hasNext =>
                 /\ ~d.removed => Range(Findable(d)) \subseteq Range(d.seen)
                 /\ ~d.added => IsInjective(d.seen)
                 /\ ~(d.added \/ d.removed) => d.seen = Findable(d)
  <1> DEFINE K == Keys("workflows", ws)
             p == OffsetPage(ws, n, c.cursor)
             ks == Keys("workflows", p.items)
             F == Findable(c)
  <1>1. K \in Seq(Nat) /\ Falling(K) /\ c.cursor \in Nat /\ c.seen \in Seq(Nat)
    BY DEF Falling, OnWorkflows
  <1>2. /\ ks \in Seq(Nat) /\ p.cursor = c.cursor + Len(ks)
        /\ \A i \in 1..Len(ks) : c.cursor + i \in DOMAIN K /\ ks[i] = K[c.cursor + i]
        /\ p.hasPrevious <=> c.cursor > 0
        /\ p.hasNext => p.cursor > c.cursor
        /\ ~p.hasNext => p.cursor >= Len(K)
        /\ c.cursor <= Len(K) => p.cursor <= Len(K)
    BY <1>1, OffsetPageIs
  <1>3. Findable(d) = F
    BY DEF Findable
  <1>4. d.cursor = p.cursor /\ d.seen = c.seen \o ks
    OBVIOUS
  <1>5. /\ c.pages > 0 <=> c.cursor > 0
        /\ Falling(F)
        /\ ~c.removed => /\ Range(F) \subseteq Range(K)
                         /\ \A k \in DOMAIN K : k <= c.cursor /\ K[k] \in Range(F) => K[k] \in Range(c.seen)
        /\ ~c.added => /\ Range(K) \subseteq Range(F)
                       /\ IsInjective(c.seen)
                       /\ \A k \in DOMAIN K : K[k] \in Range(c.seen) => k <= c.cursor
        /\ ~(c.added \/ c.removed) => SeenTo(c, K)
    BY DEF OnWorkflows
  <1> HIDE DEF K, p, ks, F
  <1>6. /\ d.seen \in Seq(Nat) /\ Len(d.seen) = Len(c.seen) + Len(ks)
        /\ \A i \in 1..Len(c.seen) : d.seen[i] = c.seen[i]
        /\ \A i \in 1..Len(ks) : d.seen[Len(c.seen) + i] = ks[i]
        /\ \A i \in DOMAIN d.seen :
              i \in DOMAIN c.seen \/ (i - Len(c.seen) \in DOMAIN ks /\ d.seen[i] = ks[i - Len(c.seen)])
        /\ Range(d.seen) = Range(c.seen) \cup Range(ks)
    <2>1. c.seen \in Seq(Nat) /\ ks \in Seq(Nat)
      BY <1>1, <1>2
    <2>2. c.seen \o ks \in Seq(Nat) /\ Len(c.seen \o ks) = Len(c.seen) + Len(ks)
      BY <2>1
    <2>3. \A i \in 1..Len(c.seen) : (c.seen \o ks)[i] = c.seen[i]
      BY <2>1
    <2>4. \A i \in 1..Len(ks) : (c.seen \o ks)[Len(c.seen) + i] = ks[i]
      BY <2>1
    <2>5. \A i \in DOMAIN (c.seen \o ks) :
              i \in DOMAIN c.seen \/ (i - Len(c.seen) \in DOMAIN ks /\ (c.seen \o ks)[i] = ks[i - Len(c.seen)])
      BY <2>1, JoinedIs
    <2>6. Range(c.seen \o ks) = Range(c.seen) \cup Range(ks)
      BY <2>1, JoinedIs
    <2> DEFINE j == c.seen \o ks
    <2>7. d.seen = j
      BY <1>4
    <2>8. /\ j \in Seq(Nat) /\ Len(j) = Len(c.seen) + Len(ks)
          /\ \A i \in 1..Len(c.seen) : j[i] = c.seen[i]
          /\ \A i \in 1..Len(ks) : j[Len(c.seen) + i] = ks[i]
          /\ \A i \in DOMAIN j : i \in DOMAIN c.seen \/ (i - Len(c.seen) \in DOMAIN ks /\ j[i] = ks[i - Len(c.seen)])
          /\ Range(j) = Range(c.seen) \cup Range(ks)
      BY <2>2, <2>3, <2>4, <2>5, <2>6, Zenon
    <2> HIDE DEF j
    <2>9. QED
      BY <2>7, <2>8
  <1>7. Len(ks) \in Nat /\ DOMAIN ks = 1..Len(ks) /\ Len(K) \in Nat /\ DOMAIN K = 1..Len(K)
        /\ Len(c.seen) \in Nat /\ DOMAIN c.seen = 1..Len(c.seen)
    BY <1>1, <1>2
  <1>8. d.cursor = c.cursor + Len(ks) /\ d.cursor \in Nat /\ d.cursor >= c.cursor
    BY <1>1, <1>2, <1>4, <1>7
  \* The keys between the old cursor and the new one are on the page, and no others.
  <1>9. ASSUME NEW k \in DOMAIN K
        PROVE  K[k] \in Range(ks) <=> k > c.cursor /\ k <= d.cursor
    <2>1. ASSUME k > c.cursor, k <= d.cursor PROVE K[k] \in Range(ks)
      <3>1. k - c.cursor \in 1..Len(ks) /\ c.cursor + (k - c.cursor) = k
        <4>1. c.cursor \in Nat /\ Len(ks) \in Nat /\ k \in Nat
          BY <1>1, <1>7
        <4>2. k > c.cursor /\ k <= c.cursor + Len(ks)
          BY <1>8, <2>1
        <4>3. QED
          BY <4>1, <4>2, Shift, Zenon
      <3>2. ks[k - c.cursor] = K[k]
        BY <1>2, <3>1
      <3>3. QED
        BY <1>7, <3>1, <3>2 DEF Range
    <2>2. ASSUME K[k] \in Range(ks) PROVE k > c.cursor /\ k <= d.cursor
      <3>1. PICK i \in 1..Len(ks) : K[k] = ks[i]
        BY <1>7, <2>2 DEF Range
      <3>2. c.cursor + i \in DOMAIN K /\ K[k] = K[c.cursor + i]
        BY <1>2, <3>1
      <3>3. k = c.cursor + i
        BY <1>1, <3>2, FallingApart
      <3>4. QED
        BY <1>1, <1>7, <1>8, <3>1, <3>3, Shift
    <2>3. QED
      BY <2>1, <2>2
  <1>10. ASSUME ~c.removed, NEW k \in DOMAIN K, k <= d.cursor, K[k] \in Range(F)
         PROVE  K[k] \in Range(d.seen)
    <2>1. CASE k <= c.cursor
      BY <1>5, <1>6, <1>10, <2>1
    <2>2. CASE k > c.cursor
      BY <1>6, <1>9, <1>10, <2>2
    <2>3. QED
      BY <1>1, <1>7, <2>1, <2>2
  <1>11. ASSUME ~c.added, NEW k \in DOMAIN K, K[k] \in Range(d.seen)
         PROVE  k <= d.cursor
    <2>1. CASE K[k] \in Range(c.seen)
      <3>1. k <= c.cursor
        BY <1>5, <1>11, <2>1
      <3>2. QED
        BY <1>1, <1>7, <1>8, <3>1
    <2>2. CASE K[k] \in Range(ks)
      BY <1>9, <2>2
    <2>3. QED
      BY <1>6, <1>11, <2>1, <2>2
  <1>12. ASSUME ~c.added PROVE IsInjective(d.seen)
    <2> SUFFICES ASSUME NEW i \in DOMAIN d.seen, NEW j \in DOMAIN d.seen, i < j, d.seen[i] = d.seen[j]
                 PROVE  FALSE
      <3>1. \A i \in DOMAIN d.seen : i \in Nat
        BY <1>6
      <3>2. \A i, j \in DOMAIN d.seen : i = j \/ i < j \/ j < i
        BY <3>1
      <3>3. QED
        BY <3>2 DEF IsInjective
    <2>0. i \in Nat /\ j \in Nat
      BY <1>6
    <2>1. ASSUME NEW a \in DOMAIN d.seen, a \notin DOMAIN c.seen
          PROVE  /\ a \in Nat /\ c.cursor + (a - Len(c.seen)) \in DOMAIN K
                 /\ d.seen[a] = K[c.cursor + (a - Len(c.seen))]
      <3>1. a - Len(c.seen) \in 1..Len(ks) /\ d.seen[a] = ks[a - Len(c.seen)]
        BY <1>6, <1>7, <2>1
      <3>2. a \in Nat
        BY <1>6
      <3>3. QED
        BY <1>2, <3>1, <3>2
    <2>2. CASE i \in DOMAIN c.seen /\ j \in DOMAIN c.seen
      <3>1. c.seen[i] = c.seen[j]
        BY <1>6, <1>7, <2>2
      <3>2. i = j
        BY <1>5, <1>12, <2>2, <3>1 DEF IsInjective
      <3>3. QED
        BY <2>0, <3>2
    <2>3. CASE i \in DOMAIN c.seen /\ j \notin DOMAIN c.seen
      <3> DEFINE k == c.cursor + (j - Len(c.seen))
      <3>1. k \in DOMAIN K /\ d.seen[j] = K[k]
        BY <2>1, <2>3
      <3>2. K[k] = c.seen[i]
        BY <1>6, <1>7, <2>3, <3>1
      <3>3. K[k] \in Range(c.seen)
        BY <2>3, <3>2 DEF Range
      <3>4. k <= c.cursor
        BY <1>5, <1>12, <3>1, <3>3
      <3>5. ~(j <= Len(c.seen))
        BY <1>6, <1>7, <2>0, <2>3
      <3>6. QED
        BY <1>1, <1>7, <2>0, <3>4, <3>5
    <2>4. CASE i \notin DOMAIN c.seen /\ j \in DOMAIN c.seen
      BY <1>6, <1>7, <2>0, <2>4
    <2>5. CASE i \notin DOMAIN c.seen /\ j \notin DOMAIN c.seen
      <3>0. /\ c.cursor + (i - Len(c.seen)) \in DOMAIN K /\ d.seen[i] = K[c.cursor + (i - Len(c.seen))]
            /\ c.cursor + (j - Len(c.seen)) \in DOMAIN K /\ d.seen[j] = K[c.cursor + (j - Len(c.seen))]
        BY <2>1, <2>5
      <3>1. c.cursor + (i - Len(c.seen)) = c.cursor + (j - Len(c.seen))
        BY <1>1, <3>0, FallingApart
      <3>2. QED
        BY <1>1, <1>7, <2>0, <3>1
    <2>6. QED
      BY <2>2, <2>3, <2>4, <2>5
  <1>13. ASSUME ~(c.added \/ c.removed) PROVE SeenTo(d, K)
    <2>1. Len(c.seen) = c.cursor /\ c.cursor <= Len(K) /\ \A k \in 1..c.cursor : c.seen[k] = K[k]
      BY <1>5, <1>13 DEF SeenTo
    <2>2. Len(d.seen) = d.cursor /\ d.cursor <= Len(K)
      BY <1>2, <1>4, <1>6, <2>1
    <2>3. ASSUME NEW k \in 1..d.cursor PROVE d.seen[k] = K[k]
      <3>1. CASE k <= c.cursor
        <4>1. k \in 1..c.cursor
          BY <1>1, <1>8, <3>1
        <4>2. QED
          BY <1>6, <2>1, <4>1
      <3>2. CASE ~(k <= c.cursor)
        <4>1. k - c.cursor \in 1..Len(ks) /\ c.cursor + (k - c.cursor) = k
          BY <1>1, <1>7, <1>8, <3>2, Shift
        <4>2. ks[k - c.cursor] = K[k] /\ d.seen[Len(c.seen) + (k - c.cursor)] = ks[k - c.cursor]
          BY <1>2, <1>6, <4>1
        <4>3. QED
          BY <2>1, <4>1, <4>2
      <3>3. QED
        BY <3>1, <3>2
    <2>4. QED
      BY <2>2, <2>3 DEF SeenTo
  <1>14. ASSUME p.hasNext PROVE OnWorkflows(d, K)
    <2>1. d.pages > 0 <=> d.cursor > 0
      BY <1>1, <1>2, <1>4, <1>8, <1>14
    <2>2. QED
      BY <1>3, <1>5, <1>6, <1>8, <1>10, <1>11, <1>12, <1>13, <2>1 DEF OnWorkflows
  <1>15. ASSUME ~p.hasNext
         PROVE  /\ ~d.removed => Range(F) \subseteq Range(d.seen)
                /\ ~d.added => IsInjective(d.seen)
                /\ ~(d.added \/ d.removed) => d.seen = F
    <2>1. d.cursor >= Len(K)
      BY <1>2, <1>4, <1>15
    <2>2. ~c.removed => Range(F) \subseteq Range(d.seen)
      <3> SUFFICES ASSUME ~c.removed, NEW v \in Range(F) PROVE v \in Range(d.seen)
        OBVIOUS
      <3>1. v \in Range(K)
        BY <1>5
      <3>2. PICK k \in DOMAIN K : v = K[k]
        BY <3>1 DEF Range
      <3>3. k <= d.cursor
        BY <1>7, <1>8, <2>1
      <3>4. QED
        BY <1>10, <3>2, <3>3
    <2>3. ~(c.added \/ c.removed) => d.seen = F
      <3> SUFFICES ASSUME ~(c.added \/ c.removed) PROVE d.seen = F
        OBVIOUS
      <3>0. Range(K) = Range(F)
        BY <1>5
      <3>1. K = F
        BY <1>1, <1>5, <3>0, SameList
      <3>2. Len(d.seen) = d.cursor /\ d.cursor <= Len(K) /\ \A k \in 1..d.cursor : d.seen[k] = K[k]
        BY <1>13 DEF SeenTo
      <3>3. d.cursor = Len(K)
        BY <1>7, <1>8, <2>1, <3>2
      <3>4. d.seen = K
        BY <1>1, <1>6, <3>2, <3>3, SameSeq
      <3>5. QED
        BY <3>1, <3>4
    <2>4. QED
      BY <1>12, <2>2, <2>3
  <1>16. QED
    BY <1>2, <1>3, <1>5, <1>14, <1>15 DEF K, p

\* The beginning of a list, and more of it after that.
Begins(s, K) == \A k \in 1..Len(s) : s[k] = K[k]
GoesOn(s, ks, K) == Len(s) + Len(ks) <= Len(K) /\ \A i \in 1..Len(ks) : ks[i] = K[Len(s) + i]

LEMMA SeenFurther ==
    ASSUME NEW V, NEW K \in Seq(V), NEW s \in Seq(V), NEW ks \in Seq(V), Begins(s, K), GoesOn(s, ks, K)
    PROVE  s \o ks \in Seq(V) /\ Len(s \o ks) = Len(s) + Len(ks) /\ Begins(s \o ks, K)
  <1> DEFINE j == s \o ks
  <1>1. j \in Seq(V) /\ Len(j) = Len(s) + Len(ks) /\ Len(s) \in Nat /\ Len(ks) \in Nat
    OBVIOUS
  <1>2. \A i \in 1..Len(s) : j[i] = s[i]
    OBVIOUS
  <1>3. \A i \in 1..Len(ks) : j[Len(s) + i] = ks[i]
    OBVIOUS
  <1> HIDE DEF j
  <1>4. ASSUME NEW k \in 1..(Len(s) + Len(ks)) PROVE j[k] = K[k]
    <2>1. CASE k <= Len(s)
      <3>1. k \in 1..Len(s)
        BY <1>1, <2>1
      <3>2. QED
        BY <1>2, <3>1 DEF Begins
    <2>2. CASE ~(k <= Len(s))
      <3>1. k - Len(s) \in 1..Len(ks) /\ Len(s) + (k - Len(s)) = k
        BY <1>1, <2>2, Shift
      <3>2. j[Len(s) + (k - Len(s))] = ks[k - Len(s)] /\ ks[k - Len(s)] = K[Len(s) + (k - Len(s))]
        BY <1>3, <3>1 DEF GoesOn
      <3>3. QED
        BY <3>1, <3>2
    <2>3. QED
      BY <2>1, <2>2
  <1>5. QED
    BY <1>1, <1>4 DEF j, Begins

\* The templates of some groups, and their names.
LEMMA TemplatesAre ==
    ASSUME NEW groups
    PROVE  /\ TemplatesOf(groups) \in Seq(Range(Catalog))
           /\ Keys("templates", TemplatesOf(groups)) \in Seq(TemplateNames)
           /\ TemplatesOf(groups) = Pick(Catalog, {i \in DOMAIN Catalog : \A g \in groups : InGroup(Catalog[i], g)})
  <1> DEFINE P == {i \in DOMAIN Catalog : Selected(Catalog[i].labels, TemplateSelection(groups))}
             ts == TemplatesOf(groups)
  <1>1. P \in SUBSET DOMAIN Catalog
    OBVIOUS
  <1>2. P = {i \in DOMAIN Catalog : \A g \in groups : InGroup(Catalog[i], g)}
    BY GroupFilterIs
  <1>3. ts = Pick(Catalog, P)
    BY DEF TemplatesOf
  <1> HIDE DEF P, ts
  <1>4. ts \in Seq(Range(Catalog))
    BY <1>1, <1>3, CatalogIsList, PickIs
  <1>5. Keys("templates", ts) = [i \in DOMAIN ts |-> ts[i].name]
    BY DEF Keys, Key
  <1>6. \A i \in DOMAIN ts : ts[i].name \in TemplateNames
    <2>1. \A i \in DOMAIN ts : ts[i] \in Range(Catalog)
      BY <1>4
    <2>2. QED
      BY <2>1 DEF TemplateNames
  <1>7. Keys("templates", ts) \in Seq(TemplateNames)
    BY <1>4, <1>5, <1>6
  <1>8. QED
    BY <1>2, <1>3, <1>4, <1>7 DEF ts

\* A walk through templates takes a page.
LEMMA TemplatesPage ==
    ASSUME NEW c, c.kind = "templates", OnTemplates(c), c.pages \in Nat, NEW n \in Nat, n > 0,
           NEW d, d.kind = c.kind, d.filter = c.filter, d.asked = c.asked, d.pages = c.pages + 1,
           d.cursor = OffsetPage(TemplatesOf(c.filter), n, c.cursor).cursor,
           d.seen = c.seen \o Keys("templates", OffsetPage(TemplatesOf(c.filter), n, c.cursor).items)
    PROVE  LET p == OffsetPage(TemplatesOf(c.filter), n, c.cursor)
           IN  /\ p.hasPrevious <=> c.pages > 0
               /\ p.hasNext => OnTemplates(d)
               /\ ~p.hasNext => d.seen = Findable(d)
  <1> DEFINE ts == TemplatesOf(c.filter)
             p == OffsetPage(ts, n, c.cursor)
             K == Keys("templates", ts)
             ks == Keys("templates", p.items)
             s == c.seen
  <1>1. /\ c.cursor \in Nat /\ s \in Seq(TemplateNames) /\ (c.pages > 0 <=> c.cursor > 0)
        /\ c.asked = K /\ Len(s) = c.cursor /\ c.cursor <= Len(K) /\ \A k \in 1..c.cursor : s[k] = K[k]
    BY DEF OnTemplates, SeenTo
  <1>2. ts \in Seq(Range(Catalog)) /\ K \in Seq(TemplateNames)
    BY TemplatesAre
  <1>3. /\ ks \in Seq(TemplateNames) /\ p.cursor = c.cursor + Len(ks)
        /\ \A i \in 1..Len(ks) : c.cursor + i \in DOMAIN K /\ ks[i] = K[c.cursor + i]
        /\ p.hasPrevious <=> c.cursor > 0
        /\ p.hasNext => p.cursor > c.cursor
        /\ ~p.hasNext => p.cursor >= Len(K)
        /\ c.cursor <= Len(K) => p.cursor <= Len(K)
    BY <1>1, <1>2, OffsetPageIs
  <1>4. d.cursor = p.cursor /\ d.seen = s \o ks /\ d.asked = K /\ d.filter = c.filter /\ d.kind = "templates"
    BY <1>1
  <1>5. p = OffsetPage(TemplatesOf(c.filter), n, c.cursor)
    OBVIOUS
  <1>6. K = Keys("templates", TemplatesOf(c.filter))
    OBVIOUS
  <1> HIDE DEF ts, p, K, ks, s
  <1>7. Len(s) + Len(ks) <= Len(K) /\ \A k \in 1..Len(s) : s[k] = K[k]
    BY <1>1, <1>3
  <1>8. \A i \in 1..Len(ks) : ks[i] = K[Len(s) + i]
    BY <1>1, <1>3
  <1>9. /\ s \o ks \in Seq(TemplateNames) /\ Len(s \o ks) = Len(s) + Len(ks)
        /\ \A k \in 1..(Len(s) + Len(ks)) : (s \o ks)[k] = K[k]
    <2>1. s \in Seq(TemplateNames) /\ ks \in Seq(TemplateNames) /\ K \in Seq(TemplateNames)
      BY <1>1, <1>2, <1>3
    <2>2. Begins(s, K) /\ GoesOn(s, ks, K)
      BY <1>7, <1>8 DEF Begins, GoesOn
    <2>3. s \o ks \in Seq(TemplateNames) /\ Len(s \o ks) = Len(s) + Len(ks) /\ Begins(s \o ks, K)
      BY <2>1, <2>2, SeenFurther, Zenon
    <2> DEFINE j == s \o ks
    <2>4. j \in Seq(TemplateNames) /\ Len(j) = Len(s) + Len(ks) /\ Begins(j, K)
      BY <2>3
    <2> HIDE DEF j
    <2>5. \A k \in 1..(Len(s) + Len(ks)) : j[k] = K[k]
      BY <2>4 DEF Begins
    <2>6. QED
      BY <2>4, <2>5 DEF j
  <1> DEFINE j == s \o ks
  <1>10. j \in Seq(TemplateNames) /\ Len(j) = d.cursor /\ \A k \in 1..d.cursor : j[k] = K[k]
    BY <1>1, <1>3, <1>4, <1>9
  <1>11. d.seen = j
    BY <1>4
  <1> HIDE DEF j
  <1>12. d.cursor \in Nat /\ d.cursor <= Len(K)
    <2>1. Len(ks) \in Nat
      BY <1>3
    <2>2. QED
      BY <1>1, <1>3, <1>4, <2>1
  <1>13. ASSUME p.hasNext PROVE OnTemplates(d)
    <2>1. d.pages > 0 <=> d.cursor > 0
      BY <1>1, <1>3, <1>4, <1>12, <1>13
    <2>2. SeenTo(d, d.asked)
      BY <1>4, <1>10, <1>11, <1>12 DEF SeenTo
    <2>3. QED
      BY <1>4, <1>6, <1>10, <1>11, <1>12, <2>1, <2>2 DEF OnTemplates
  <1>14. ASSUME ~p.hasNext PROVE d.seen = Findable(d)
    <2>1. d.cursor = Len(K) /\ Len(K) \in Nat
      BY <1>2, <1>3, <1>4, <1>12, <1>14
    <2>2. j = K
      BY <1>2, <1>10, <2>1, SameSeq
    <2>3. Findable(d) = Pick(K, DOMAIN K)
      <3>1. {i \in DOMAIN K : d.kind = "workflows" /\ d.filter.creator # None => K[i] \notin d.odd} = DOMAIN K
        BY <1>4
      <3>2. QED
        BY <1>4, <3>1 DEF Findable
    <2>4. Pick(K, DOMAIN K) = K
      BY <1>2, PickAll
    <2>5. QED
      BY <1>11, <2>2, <2>3, <2>4
  <1>15. QED
    BY <1>1, <1>3, <1>5, <1>13, <1>14

\* Lists joined in either order.
LEMMA JoinAssociative ==
    ASSUME NEW V, NEW s \in Seq(V), NEW a \in Seq(V), NEW b \in Seq(V)
    PROVE  /\ s \o a \in Seq(V)
           /\ (s \o a) \o b = s \o (a \o b)
           /\ b = <<>> => (s \o a) \o b = s \o a
  <1>1. s \o a \in Seq(V)
    OBVIOUS
  <1>2. (s \o a) \o b = s \o (a \o b)
    OBVIOUS
  <1>3. b = <<>> => (s \o a) \o b = s \o a
    OBVIOUS
  <1>4. QED
    BY <1>1, <1>2, <1>3

\* A walk through triggers takes a page.
LEMMA TriggersPage ==
    ASSUME NEW c, c.kind = "triggers", NEW rest, OnTriggers(c, rest), NEW n \in Nat, NEW first,
           NEW d, d.kind = c.kind, d.asked = c.asked, d.cursor = TokenPage(rest, n, first).cursor,
           d.seen = c.seen \o Keys("triggers", TokenPage(rest, n, first).items)
    PROVE  LET p == TokenPage(rest, n, first)
           IN  /\ p.hasPrevious <=> ~first
               /\ OnTriggers(d, d.cursor)
               /\ ~p.hasNext => d.seen = Findable(d)
  <1> DEFINE p == TokenPage(rest, n, first)
             s == c.seen
             a == Keys("triggers", p.items)
             b == Keys("triggers", p.cursor)
  <1>1. rest \in Seq(Trigger) /\ s \in Seq(TriggerNames) /\ c.asked = s \o Keys("triggers", rest)
    BY DEF OnTriggers
  <1>2. /\ a \in Seq(TriggerNames) /\ p.cursor \in Seq(Trigger) /\ a \o b = Keys("triggers", rest)
        /\ b \in Seq(TriggerNames) /\ (p.hasPrevious <=> ~first) /\ (~p.hasNext => p.cursor = <<>>)
    BY <1>1, TokenPageIs
  <1>3. d.kind = "triggers" /\ d.cursor = p.cursor /\ d.seen = s \o a /\ d.asked = s \o (a \o b)
    BY <1>1, <1>2
  <1>4. p = TokenPage(rest, n, first)
    OBVIOUS
  <1>5. Keys("triggers", d.cursor) = b
    OBVIOUS
  <1>6. p.cursor = <<>> => b = <<>>
    BY <1>2 DEF Keys
  <1> HIDE DEF p, s, a, b
  <1>7. s \o a \in Seq(TriggerNames) /\ (s \o a) \o b = s \o (a \o b) /\ (b = <<>> => (s \o a) \o b = s \o a)
    <2>1. s \in Seq(TriggerNames) /\ a \in Seq(TriggerNames) /\ b \in Seq(TriggerNames)
      BY <1>1, <1>2
    <2>2. QED
      BY <2>1, JoinAssociative
  <1>8. d.seen \in Seq(TriggerNames) /\ d.asked = d.seen \o b
    BY <1>3, <1>7
  <1>9. OnTriggers(d, d.cursor)
    BY <1>2, <1>3, <1>5, <1>8 DEF OnTriggers
  <1>10. ASSUME ~p.hasNext PROVE d.seen = Findable(d)
    <2> DEFINE K == d.asked
    <2>1. K = d.seen /\ K \in Seq(TriggerNames)
      BY <1>2, <1>3, <1>6, <1>7, <1>8, <1>10
    <2>2. {i \in DOMAIN K : d.kind = "workflows" /\ d.filter.creator # None => K[i] \notin d.odd} = DOMAIN K
      BY <1>3
    <2>3. Findable(d) = Pick(K, DOMAIN K)
      BY <2>2 DEF Findable
    <2> HIDE DEF K
    <2>4. Pick(K, DOMAIN K) = K
      BY <2>1, PickAll
    <2>5. QED
      BY <2>1, <2>3, <2>4
  <1>11. QED
    BY <1>2, <1>4, <1>9, <1>10

-----------------------------------------------------------------------------

\* The order of the workflows, on its own.
LEMMA ArgoListed == ArgoOK => Listed(argo)
  BY DEF ArgoOK, Listed

\* The uids a filter selects are a falling list.
LEMMA NowFalling ==
    ASSUME NEW ws, Listed(ws), NEW f
    PROVE  Matching(ws, f) \in Seq(Workflow) /\ Falling(Now(ws, f))
  <1> DEFINE P == {i \in DOMAIN ws : Selected(Labels(ws[i]), WorkflowSelection(f))}
  <1>1. P \in SUBSET DOMAIN ws /\ Matching(ws, f) = Pick(ws, P) /\ ws \in Seq(Workflow)
    BY DEF Matching, Listed
  <1> HIDE DEF P
  <1>2. QED
    BY <1>1, PickIs, PickedUids DEF Now

\* Asking keeps everything but the history of the walk.
LEMMA AskingKeeps ==
    ASSUME DOMAIN client = WalkFields
    PROVE  LET c == Asking(client)
           IN  /\ DOMAIN c = WalkFields
               /\ c.kind = client.kind /\ c.filter = client.filter /\ c.limit = client.limit
               /\ c.cursor = client.cursor /\ c.pages = client.pages /\ c.linked = client.linked
               /\ c.seen = client.seen /\ c.added = client.added /\ c.removed = client.removed
               /\ c.swallowed = client.swallowed
               /\ client.pages > 0 => c = client
               /\ ~(client.pages > 0) =>
                     /\ c.asked = AskedKeys(client)
                     /\ c.odd = {w.uid : w \in {v \in Range(argo) : client.kind = "workflows" /\
                                                     "preferred-username" \notin DOMAIN v.labels}}
  BY DEF Asking, WalkFields

\* Before its first page, too, a walk is where it should be.
LEMMA AskingIs ==
    ASSUME IInv, WalkInv, client.at = "walk"
    PROVE  Begun(Asking(client)) /\ OnWalk(Asking(client))
  <1> DEFINE c == Asking(client)
  <1>1. DOMAIN client = WalkFields /\ Begun(client) /\ (client.pages > 0 => OnWalk(client))
    BY DEF IInv, ClientInv, ClientOK, WalkInv, Walking
  <1>2. /\ c.kind = client.kind /\ c.filter = client.filter /\ c.limit = client.limit
        /\ c.cursor = client.cursor /\ c.pages = client.pages /\ c.linked = client.linked
        /\ c.seen = client.seen /\ c.added = client.added /\ c.removed = client.removed
        /\ client.pages > 0 => c = client
        /\ ~(client.pages > 0) =>
              /\ c.asked = AskedKeys(client)
              /\ c.odd = {w.uid : w \in {v \in Range(argo) : client.kind = "workflows" /\
                                              "preferred-username" \notin DOMAIN v.labels}}
    BY <1>1, AskingKeeps
  <1> HIDE DEF c
  <1>3. Begun(c)
    BY <1>1, <1>2 DEF Begun
  <1>4. CASE client.pages > 0
    BY <1>1, <1>2, <1>3, <1>4 DEF c
  <1>5. CASE ~(client.pages > 0)
    <2>1. c.pages = 0 /\ c.cursor = 0 /\ c.seen = <<>> /\ ~c.added /\ ~c.removed
      BY <1>2, <1>3, <1>5 DEF Begun
    <2>2. <<>> \in Seq(Nat) /\ <<>> \in Seq(TemplateNames) /\ <<>> \in Seq(TriggerNames) /\ Len(<<>>) = 0
      OBVIOUS
    <2>3. ASSUME c.kind = "workflows" PROVE OnWorkflows(c, Now(argo, c.filter))
      <3> DEFINE K == Now(argo, c.filter)
      <3>1. Listed(argo)
        BY ArgoListed DEF IInv, WorldInv
      <3>2. c.filter \in Filters
        BY <1>3, <2>3 DEF Begun
      <3>3. c.asked = AskedKeys(c)
        BY <1>2, <1>5 DEF AskedKeys
      <3>4. c.odd = {w.uid : w \in {v \in Range(argo) : "preferred-username" \notin DOMAIN v.labels}}
        BY <1>2, <1>5, <2>3
      <3>5. \A i \in DOMAIN argo : Tagged(argo[i])
        BY DEF WalkInv, TagsOK
      <3>6. Findable(c) = K
        BY <2>3, <3>1, <3>2, <3>3, <3>4, <3>5, FirstFound
      <3>7. Falling(K)
        BY <3>1, NowFalling
      <3> HIDE DEF K
      <3>8. \A k \in DOMAIN K : ~(k <= c.cursor)
        BY <2>1, <3>7 DEF Falling
      <3>9. IsInjective(c.seen) /\ Range(c.seen) = {}
        BY <2>1 DEF IsInjective, Range
      <3>10. SeenTo(c, K)
        <4>1. Len(K) \in Nat
          BY <3>7 DEF Falling
        <4>2. QED
          BY <2>1, <2>2, <4>1 DEF SeenTo
      <3>11. OnWorkflows(c, K)
        BY <2>1, <2>2, <3>6, <3>7, <3>8, <3>9, <3>10 DEF OnWorkflows
      <3>12. QED
        BY <3>11 DEF K
    <2>4. ASSUME c.kind = "templates" PROVE OnTemplates(c)
      <3> DEFINE K == Keys("templates", TemplatesOf(c.filter))
      <3>1. c.asked = K
        BY <1>2, <1>5, <2>4, TemplatesAre DEF AskedKeys
      <3>2. Len(K) \in Nat
        BY TemplatesAre
      <3> HIDE DEF K
      <3>3. SeenTo(c, c.asked)
        BY <2>1, <2>2, <3>1, <3>2 DEF SeenTo
      <3>4. QED
        BY <2>1, <2>2, <3>1, <3>3 DEF OnTemplates, K
    <2>5. ASSUME c.kind = "triggers" PROVE OnTriggers(c, OwnTriggers)
      <3> DEFINE P == {i \in DOMAIN triggers : triggers[i].owner = Me}
      <3>1. P \in SUBSET DOMAIN triggers /\ OwnTriggers = Pick(triggers, P) /\ triggers \in Seq(Trigger)
        BY DEF OwnTriggers, IInv, WorldInv
      <3> HIDE DEF P
      <3>2. OwnTriggers \in Seq(Trigger)
        BY <3>1, PickIs
      <3>3. c.asked = Keys("triggers", OwnTriggers)
        BY <1>2, <1>5, <2>5 DEF AskedKeys
      <3>4. Keys("triggers", OwnTriggers) \in Seq(TriggerNames)
        BY <3>2, TriggerKeys
      <3>5. <<>> \o Keys("triggers", OwnTriggers) = Keys("triggers", OwnTriggers)
        BY <3>4
      <3>6. QED
        BY <2>1, <2>2, <3>2, <3>3, <3>5 DEF OnTriggers
    <2>6. QED
      BY <1>3, <2>1, <2>3, <2>4, <2>5 DEF OnWalk, c
  <1>6. QED
    BY <1>4, <1>5

\* The next page: the walk goes on as it should, or is over and complete.
LEMMA NextPageWalk ==
    ASSUME IInv, WalkInv, NextPage
    PROVE  Walking' /\ WalkComplete' /\ WalkDrift'
  <1> DEFINE c == Asking(client)
             p == Page(client)
             n == PageSize(client.kind, client.limit)
  <1>1. client.at = "walk" /\ DOMAIN client = WalkFields /\ argo' = argo
    BY DEF NextPage, IInv, ClientInv, ClientOK
  <1>2. Begun(c) /\ OnWalk(c)
    BY <1>1, AskingIs
  <1>3. /\ DOMAIN c = WalkFields
        /\ c.kind = client.kind /\ c.filter = client.filter /\ c.limit = client.limit
        /\ c.cursor = client.cursor /\ c.pages = client.pages
    BY <1>1, AskingKeeps
  <1>4. client' = [c EXCEPT !.at = IF p.hasNext THEN "walk" ELSE "walked",
                            !.cursor = p.cursor,
                            !.linked = @ /\ (p.hasPrevious <=> client.pages > 0),
                            !.pages = @ + 1,
                            !.seen = @ \o Keys(client.kind, p.items)]
    BY DEF NextPage
  <1>5. p = IF c.kind = "triggers" THEN TokenPage(IF c.pages = 0 THEN OwnTriggers ELSE c.cursor, n, c.pages = 0)
            ELSE OffsetPage(Listing(c), n, c.cursor)
    <2>1. Listing(client) = Listing(c)
      BY <1>3 DEF Listing
    <2>2. client.kind = "triggers" => Listing(client) = OwnTriggers
      BY DEF Listing
    <2>3. QED
      BY <1>3, <2>1, <2>2 DEF Page
  <1>6. n = PageSize(c.kind, c.limit)
    BY <1>3
  <1> HIDE DEF c, p, n
  <1>7. /\ client'.at = (IF p.hasNext THEN "walk" ELSE "walked")
        /\ client'.cursor = p.cursor /\ client'.pages = c.pages + 1
        /\ client'.seen = c.seen \o Keys(c.kind, p.items)
        /\ client'.kind = c.kind /\ client'.filter = c.filter /\ client'.limit = c.limit
        /\ client'.asked = c.asked /\ client'.odd = c.odd /\ client'.added = c.added /\ client'.removed = c.removed
    BY <1>3, <1>4 DEF WalkFields
  <1>8. client'.linked = (c.linked /\ (p.hasPrevious <=> c.pages > 0))
    BY <1>3, <1>4 DEF WalkFields
  <1>9. c.kind \in {"workflows", "templates", "triggers"} /\ c.pages \in Nat /\ c.linked /\ n \in Nat
    BY <1>2, <1>6 DEF Begun
  <1>10. ASSUME p.hasPrevious <=> c.pages > 0
         PROVE  Begun(client') /\ client'.pages > 0 /\ client'.linked
    <2>1. client'.pages \in Nat /\ client'.pages > 0
      BY <1>7, <1>9
    <2>2. client'.linked
      BY <1>8, <1>9, <1>10, Zenon
    <2>3. QED
      BY <1>2, <1>7, <2>1, <2>2 DEF Begun
  <1>11. CASE c.kind = "workflows"
    <2> DEFINE ws == Matching(argo, c.filter)
    <2>1. OnWorkflows(c, Keys("workflows", ws)) /\ n > 0
      BY <1>2, <1>6, <1>11 DEF OnWalk, Now, Begun
    <2>2. ws \in Seq(Workflow) /\ Falling(Keys("workflows", ws))
      <3>1. Listed(argo)
        BY ArgoListed DEF IInv, WorldInv
      <3>2. QED
        BY <3>1, NowFalling DEF Now
    <2>3. p = OffsetPage(ws, n, c.cursor)
      BY <1>5, <1>11 DEF Listing
    <2> HIDE DEF ws
    <2>4. client'.cursor = OffsetPage(ws, n, c.cursor).cursor
          /\ client'.seen = c.seen \o Keys("workflows", OffsetPage(ws, n, c.cursor).items)
      BY <1>7, <1>11, <2>3
    <2>5. /\ p.hasPrevious <=> c.pages > 0
          /\ p.hasNext => OnWorkflows(client', Keys("workflows", ws))
          /\ ~p.hasNext =>
                /\ ~client'.removed => Range(Findable(client')) \subseteq Range(client'.seen)
                /\ ~client'.added => IsInjective(client'.seen)
                /\ ~(client'.added \/ client'.removed) => client'.seen = Findable(client')
      BY <1>7, <1>9, <1>11, <2>1, <2>2, <2>3, <2>4, WorkflowsPage
    <2>6. Begun(client') /\ client'.pages > 0 /\ client'.linked
      BY <1>10, <2>5
    <2>7. Walking'
      <3>1. Now(argo', client'.filter) = Keys("workflows", ws)
        BY <1>1, <1>7 DEF Now, ws
      <3>2. client'.at = "walk" => OnWalk(client)'
        BY <1>7, <1>11, <2>5, <3>1 DEF OnWalk
      <3>3. QED
        BY <2>6, <3>2 DEF Walking
    <2>8. WalkComplete'
      BY <1>7, <2>5, <2>6, <1>11 DEF WalkComplete
    <2>9. WalkDrift'
      BY <1>7, <2>5 DEF WalkDrift
    <2>10. QED
      BY <2>7, <2>8, <2>9
  <1>12. CASE c.kind = "templates"
    <2> DEFINE ts == TemplatesOf(c.filter)
    <2>1. OnTemplates(c) /\ n > 0
      BY <1>2, <1>6, <1>12 DEF OnWalk, Begun
    <2>2. p = OffsetPage(ts, n, c.cursor)
      BY <1>5, <1>12 DEF Listing, TemplatesOf
    <2>3. client'.cursor = OffsetPage(ts, n, c.cursor).cursor
          /\ client'.seen = c.seen \o Keys("templates", OffsetPage(ts, n, c.cursor).items)
      BY <1>7, <1>12, <2>2
    <2>4. /\ p.hasPrevious <=> c.pages > 0
          /\ p.hasNext => OnTemplates(client')
          /\ ~p.hasNext => client'.seen = Findable(client')
      BY <1>7, <1>9, <1>12, <2>1, <2>2, <2>3, TemplatesPage
    <2> HIDE DEF ts
    <2>5. Begun(client') /\ client'.pages > 0 /\ client'.linked
      BY <1>10, <2>4
    <2>6. Walking'
      <3>1. client'.at = "walk" => OnWalk(client)'
        BY <1>7, <1>12, <2>4 DEF OnWalk
      <3>2. QED
        BY <2>5, <3>1 DEF Walking
    <2>7. WalkComplete'
      BY <1>7, <2>4, <2>5 DEF WalkComplete
    <2>8. WalkDrift'
      BY <1>7, <1>12 DEF WalkDrift
    <2>9. QED
      BY <2>6, <2>7, <2>8
  <1>13. CASE c.kind = "triggers"
    <2> DEFINE rest == IF c.pages = 0 THEN OwnTriggers ELSE c.cursor
               first == c.pages = 0
    <2>1. OnTriggers(c, rest)
      BY <1>2, <1>13 DEF OnWalk
    <2>2. p = TokenPage(rest, n, first)
      BY <1>5, <1>13
    <2>3. (c.pages > 0 <=> ~first) /\ first \in BOOLEAN
      BY <1>9
    <2> HIDE DEF rest, first
    <2>4. client'.cursor = TokenPage(rest, n, first).cursor
          /\ client'.seen = c.seen \o Keys("triggers", TokenPage(rest, n, first).items)
      BY <1>7, <1>13, <2>2
    <2>5. /\ p.hasPrevious <=> ~first
          /\ OnTriggers(client', client'.cursor)
          /\ ~p.hasNext => client'.seen = Findable(client')
      <3>1. LET q == TokenPage(rest, n, first)
            IN  /\ q.hasPrevious <=> ~first
                /\ OnTriggers(client', client'.cursor)
                /\ ~q.hasNext => client'.seen = Findable(client')
        BY <1>7, <1>9, <1>13, <2>1, <2>4, TriggersPage
      <3>2. QED
        BY <2>2, <3>1
    <2>6. Begun(client') /\ client'.pages > 0 /\ client'.linked
      BY <1>10, <2>3, <2>5
    <2>7. Walking'
      <3>1. ~(client'.pages = 0)
        BY <2>6 DEF Begun
      <3>2. OnWalk(client)'
        BY <1>7, <1>13, <2>5, <3>1 DEF OnWalk
      <3>3. QED
        BY <2>6, <3>2 DEF Walking
    <2>8. WalkComplete'
      BY <1>7, <2>5, <2>6 DEF WalkComplete
    <2>9. WalkDrift'
      BY <1>7, <1>13 DEF WalkDrift
    <2>10. QED
      BY <2>7, <2>8, <2>9
  <1>14. QED
    BY <1>9, <1>11, <1>12, <1>13

\* The selection changes under a walk: Noted records how, and places only move the
\* way that allows.
LEMMA SelectionMoves ==
    ASSUME NEW c, NEW d, NEW K, NEW L, Falling(K), Falling(L), OnWorkflows(c, K),
           Findable(d) = Findable(c), d.cursor = c.cursor, d.seen = c.seen, d.pages = c.pages,
           ~d.added => ~c.added /\ Range(L) \subseteq Range(K),
           ~d.removed => ~c.removed /\ Range(K) \subseteq Range(L)
    PROVE  OnWorkflows(d, L)
  <1> DEFINE F == Findable(c)
  <1>1. /\ c.cursor \in Nat /\ c.seen \in Seq(Nat) /\ (c.pages > 0 <=> c.cursor > 0)
        /\ Falling(F)
        /\ ~c.removed => /\ Range(F) \subseteq Range(K)
                         /\ \A k \in DOMAIN K : k <= c.cursor /\ K[k] \in Range(F) => K[k] \in Range(c.seen)
        /\ ~c.added => /\ Range(K) \subseteq Range(F)
                       /\ IsInjective(c.seen)
                       /\ \A k \in DOMAIN K : K[k] \in Range(c.seen) => k <= c.cursor
        /\ ~(c.added \/ c.removed) => SeenTo(c, K)
    BY DEF OnWorkflows
  <1>2. (\A k \in DOMAIN K : k \in Nat) /\ (\A k \in DOMAIN L : k \in Nat)
    BY DEF Falling
  <1> HIDE DEF F
  <1>3. ASSUME ~d.removed, NEW k \in DOMAIN L, k <= c.cursor, L[k] \in Range(F)
        PROVE  L[k] \in Range(c.seen)
    <2>1. L[k] \in Range(K)
      BY <1>1, <1>3
    <2>2. PICK j \in DOMAIN K : K[j] = L[k]
      BY <2>1 DEF Range
    <2>3. j <= k
      BY <1>3, <2>2, Ahead
    <2>4. j <= c.cursor
      BY <1>1, <1>2, <1>3, <2>3
    <2>5. QED
      BY <1>1, <1>3, <2>2, <2>4
  <1>4. ASSUME ~d.added, NEW k \in DOMAIN L, L[k] \in Range(c.seen)
        PROVE  k <= c.cursor
    <2>1. L[k] \in Range(K)
      BY <1>4 DEF Range
    <2>2. PICK j \in DOMAIN K : K[j] = L[k]
      BY <2>1 DEF Range
    <2>3. k <= j
      BY <1>4, <2>2, Ahead
    <2>4. j <= c.cursor
      BY <1>1, <1>4, <2>2
    <2>5. QED
      BY <1>1, <1>2, <2>3, <2>4
  <1>5. ASSUME ~(d.added \/ d.removed) PROVE SeenTo(d, L)
    <2>1. Range(K) = Range(L)
      BY <1>5
    <2>2. K = L
      BY <2>1, SameList
    <2>3. QED
      BY <1>1, <1>5, <2>2 DEF SeenTo
  <1>6. /\ ~d.removed => Range(F) \subseteq Range(L)
        /\ ~d.added => Range(L) \subseteq Range(F) /\ IsInjective(c.seen)
    BY <1>1
  <1>7. Findable(d) = F
    BY DEF F
  <1>8. QED
    BY <1>1, <1>3, <1>4, <1>5, <1>6, <1>7 DEF OnWorkflows

\* The workflows change while the client walks.
LEMMA NotedWalk ==
    ASSUME IInv, IInv', Walking, Noted, client.at = "walk"
    PROVE  Walking' /\ client'.at = "walk"
  <1>1. DOMAIN client = WalkFields /\ Begun(client) /\ (client.pages > 0 => OnWalk(client))
    BY DEF IInv, ClientInv, ClientOK, Walking
  <1>2. CASE client.kind = "workflows" /\ client.pages > 0
    <2> DEFINE K == Now(argo, client.filter)
               L == Now(argo', client.filter)
    <2>1. OnWorkflows(client, K)
      BY <1>1, <1>2 DEF OnWalk
    <2>2. Falling(K) /\ Falling(L)
      <3>1. Listed(argo)
        BY ArgoListed DEF IInv, WorldInv
      <3>2. Listed(argo')
        BY DEF IInv, WorldInv, ArgoOK, Listed
      <3>3. QED
        BY <3>1, <3>2, NowFalling
    <2>3. client' = [client EXCEPT !.added = @ \/ ~(Range(L) \subseteq Range(K)),
                                   !.removed = @ \/ ~(Range(K) \subseteq Range(L))]
      BY <1>2 DEF Noted, Listing, Now
    <2> HIDE DEF K, L
    <2>4. /\ client'.at = "walk" /\ client'.kind = client.kind /\ client'.filter = client.filter
          /\ client'.limit = client.limit /\ client'.cursor = client.cursor /\ client'.seen = client.seen
          /\ client'.pages = client.pages /\ client'.linked = client.linked
          /\ client'.asked = client.asked /\ client'.odd = client.odd
      BY <1>1, <2>3 DEF WalkFields
    <2>5. /\ client'.added = (client.added \/ ~(Range(L) \subseteq Range(K)))
          /\ client'.removed = (client.removed \/ ~(Range(K) \subseteq Range(L)))
      BY <1>1, <2>3 DEF WalkFields
    <2>6. /\ ~client'.added => ~client.added /\ Range(L) \subseteq Range(K)
          /\ ~client'.removed => ~client.removed /\ Range(K) \subseteq Range(L)
      BY <2>5, Zenon
    <2>7. Findable(client') = Findable(client)
      BY <2>4 DEF Findable
    <2>8. OnWorkflows(client', L)
      BY <2>1, <2>2, <2>4, <2>6, <2>7, SelectionMoves
    <2>9. Now(argo', client'.filter) = L
      BY <2>4 DEF L
    <2>10. Begun(client')
      <3>1. client.pages # 0
        BY <1>1, <1>2 DEF Begun
      <3>2. QED
        BY <1>1, <2>4, <3>1 DEF Begun
    <2>11. OnWalk(client)'
      BY <1>2, <2>4, <2>8, <2>9 DEF OnWalk
    <2>12. QED
      BY <2>4, <2>10, <2>11 DEF Walking
  <1>3. CASE ~(client.kind = "workflows" /\ client.pages > 0)
    <2>1. client' = client
      BY <1>3 DEF Noted
    <2>2. ASSUME client.pages > 0 PROVE OnWalk(client)'
      <3>1. client.pages # 0 /\ client.kind # "workflows" /\ OnWalk(client)
        BY <1>1, <1>3, <2>2 DEF Begun
      <3>2. OnTemplates(client)' <=> OnTemplates(client)
        BY <2>1 DEF OnTemplates, SeenTo, TemplatesOf
      <3>3. OnTriggers(client, client.cursor)' <=> OnTriggers(client, client.cursor)
        BY <2>1 DEF OnTriggers
      <3>4. QED
        BY <2>1, <3>1, <3>2, <3>3 DEF OnWalk
    <2>3. QED
      BY <1>1, <2>1, <2>2 DEF Walking
  <1>4. QED
    BY <1>2, <1>3

\* Nothing of what a walk rests on changes.
LEMMA WalkKept ==
    ASSUME Walking, client' = client, argo' = argo
    PROVE  Walking'
  <1> SUFFICES ASSUME client.at = "walk" PROVE Begun(client') /\ (client'.pages > 0 => OnWalk(client)')
    BY DEF Walking
  <1>1. Begun(client) /\ (client.pages > 0 => OnWalk(client))
    BY DEF Walking
  <1>2. ASSUME client.pages > 0 PROVE OnWalk(client)'
    <2>1. client.pages # 0 /\ OnWalk(client)
      BY <1>1, <1>2 DEF Begun
    <2>2. QED
      BY <2>1 DEF OnWalk
  <1>3. QED
    BY <1>1, <1>2

\* Which steps change the workflows.
LEMMA ArgoSteps ==
    ASSUME [Next]_vars
    PROVE  \/ argo' = argo \/ SubmitAccepted
           \/ \E u \in Users : SubmitByHand(u)
           \/ \E i \in DOMAIN argo : WorkflowProceeds(i) \/ WorkflowDeleted(i)
  <1>1. Queries => argo' = argo
    BY DEF Queries, Walks, StartWalk, NextPage, PageFails, GetWorkflow, GetWorkflowById, TakeListed, ResolveTasks,
       GetTrigger
  <1>2. Mutations => argo' = argo \/ SubmitAccepted
    BY DEF Mutations, Submit, SubmitRefused, Retry, CreateTrigger
  <1>3. ASSUME Cluster
        PROVE  \/ argo' = argo
               \/ \E u \in Users : SubmitByHand(u)
               \/ \E i \in DOMAIN argo : WorkflowProceeds(i) \/ WorkflowDeleted(i)
    BY <1>3 DEF Cluster, TriggerApplied, TriggerDeleted
  <1>4. ClientDone => argo' = argo
    BY DEF ClientDone
  <1>5. UNCHANGED vars => argo' = argo
    BY DEF vars
  <1>6. QED
    BY <1>1, <1>2, <1>3, <1>4, <1>5 DEF Next

\* Argo's labels of a new workflow.
LEMMA NewTagged ==
    ASSUME NEW origin, NEW name, NEW u, NEW t
    PROVE  Tagged(NewWorkflow(origin, name, CreatedBy(u, t), t))
  <1> DEFINE w == NewWorkflow(origin, name, CreatedBy(u, t), t)
  <1>1. w.labels = CreatedBy(u, t) /\ w.template = t
    BY DEF NewWorkflow
  <1>2. /\ "template" \in DOMAIN CreatedBy(u, t) <=> t # None
        /\ t # None => CreatedBy(u, t)["template"] = t
    BY DEF CreatedBy
  <1> HIDE DEF w
  <1>3. QED
    BY <1>1, <1>2 DEF Tagged, w

\* A workflow keeps its labels and its template.
LEMMA TagsStep ==
    ASSUME IInv, TagsOK, [Next]_vars
    PROVE  TagsOK'
  <1>0. argo \in Seq(Workflow)
    BY DEF IInv, WorldInv, ArgoOK
  <1>1. CASE argo' = argo
    BY <1>1 DEF TagsOK, Tagged
  <1>2. ASSUME NEW w, Tagged(w), argo' = <<w>> \o argo PROVE TagsOK'
    <2>1. \A i \in DOMAIN argo' : argo'[i] = w \/ \E j \in DOMAIN argo : argo'[i] = argo[j]
      BY <1>0, <1>2
    <2>2. QED
      BY <1>2, <2>1 DEF TagsOK, Tagged
  <1>3. CASE SubmitAccepted
    <2> DEFINE t == IF client.template = None THEN None ELSE client.template.name
    <2>1. argo' = <<NewWorkflow("graph", GeneratedName, CreatedBy(Me, t), t)>> \o argo
      BY <1>3 DEF SubmitAccepted, Created, Submission, SubmittedName
    <2> HIDE DEF t
    <2>2. QED
      BY <1>2, <2>1, NewTagged
  <1>4. ASSUME NEW u \in Users, SubmitByHand(u) PROVE TagsOK'
    <2>1. argo' = <<NewWorkflow("hand", FixedName, CreatedBy(u, None), None)>> \o argo
      BY <1>4 DEF SubmitByHand, Created
    <2>2. QED
      BY <1>2, <2>1, NewTagged
  <1>5. ASSUME NEW k \in DOMAIN argo, WorkflowProceeds(k) PROVE TagsOK'
    <2> DEFINE w == [argo[k] EXCEPT !.phase = Successor(argo[k].phase)]
    <2>1. argo' = [argo EXCEPT ![k] = w]
      BY <1>5 DEF WorkflowProceeds
    <2>2. w.labels = argo[k].labels /\ w.template = argo[k].template
      <3>1. argo[k] \in Workflow
        BY <1>0
      <3>2. "labels" \in DOMAIN argo[k] /\ "template" \in DOMAIN argo[k]
        BY <3>1 DEF Workflow
      <3>3. QED
        BY <3>2
    <2> HIDE DEF w
    <2>3. \A i \in DOMAIN argo' : i \in DOMAIN argo /\ argo'[i].labels = argo[i].labels /\ argo'[i].template = argo[i].template
      BY <1>0, <2>1, <2>2
    <2>4. QED
      BY <2>3 DEF TagsOK, Tagged
  <1>6. ASSUME NEW k \in DOMAIN argo, WorkflowDeleted(k) PROVE TagsOK'
    <2>1. argo' = RemoveAt(argo, k)
      BY <1>6 DEF WorkflowDeleted
    <2>2. /\ DOMAIN argo' = 1..(Len(argo) - 1)
          /\ \A i \in 1..(Len(argo) - 1) :
                /\ i \in DOMAIN argo /\ i + 1 \in DOMAIN argo
                /\ argo'[i] = IF i < k THEN argo[i] ELSE argo[i + 1]
      BY <1>0, <2>1, RemoveIs
    <2>3. \A i \in DOMAIN argo' : \E j \in DOMAIN argo : argo'[i] = argo[j]
      BY <2>2
    <2>4. QED
      BY <2>3 DEF TagsOK, Tagged
  <1>7. QED
    BY <1>1, <1>3, <1>4, <1>5, <1>6, ArgoSteps

\* The validators have accepted the limit, and there is nothing behind the client.
LEMMA WalkBegins ==
    ASSUME Walks
    PROVE  Walking' /\ client'.at # "walked"
  <1>1. ASSUME NEW kind, NEW f, NEW limit, StartWalk(kind, f, limit), kind \in {"workflows", "templates", "triggers"},
               kind = "workflows" => f \in Filters, kind = "triggers" => limit \in Nat \cup {None}
        PROVE  Walking' /\ client'.at # "walked"
    <2>1. CASE client' = Failed
      BY <2>1 DEF Failed, Walking
    <2>2. CASE client' # Failed
      <3>1. client' = [at |-> "walk", kind |-> kind, filter |-> f, limit |-> limit, cursor |-> 0,
                       pages |-> 0, linked |-> TRUE, seen |-> <<>>, asked |-> <<>>, odd |-> {},
                       added |-> FALSE, removed |-> FALSE, swallowed |-> FALSE]
        BY <1>1, <2>2 DEF StartWalk
      <3>2. /\ client'.at = "walk" /\ client'.kind = kind /\ client'.filter = f /\ client'.limit = limit
            /\ client'.cursor = 0 /\ client'.pages = 0 /\ client'.linked = TRUE /\ client'.seen = <<>>
            /\ client'.added = FALSE /\ client'.removed = FALSE
        BY <3>1
      <3>3. LimitAccepted(kind, limit)
        BY <1>1 DEF StartWalk
      <3>4. PageSize(kind, limit) \in Nat /\ (kind # "triggers" => PageSize(kind, limit) > 0)
        BY <1>1, <3>3 DEF PageSize, DefaultLimit, LimitAccepted
      <3>5. Begun(client')
        BY <1>1, <3>2, <3>4 DEF Begun
      <3>6. QED
        BY <3>2, <3>5 DEF Walking
    <2>3. QED
      BY <2>1, <2>2
  <1>2. QED
    BY <1>1, TriggerLimits DEF Walks

\* Every step keeps the invariant of walks.
LEMMA WalkStep ==
    ASSUME IInv, IInv', WalkInv, [Next]_vars
    PROVE  WalkInv'
  <1>0. TagsOK'
    BY TagsStep DEF WalkInv
  <1>1. CASE client'.at \notin {"walk", "walked"}
    BY <1>0, <1>1 DEF WalkInv, Walking, WalkComplete, WalkDrift
  <1>2. CASE client' = client
    <2>1. WalkComplete' /\ WalkDrift'
      BY <1>2 DEF WalkInv, WalkComplete, WalkDrift, Findable
    <2>2. CASE client.at # "walk"
      BY <1>0, <1>2, <2>1, <2>2 DEF WalkInv, Walking
    <2>3. CASE client.at = "walk" /\ argo' = argo
      BY <1>0, <1>2, <2>1, <2>3, WalkKept DEF WalkInv
    <2>4. CASE client.at = "walk" /\ argo' # argo
      <3>1. Noted
        BY <2>4, ArgoSteps DEF SubmitAccepted, SubmitByHand, WorkflowProceeds, WorkflowDeleted
      <3>2. Walking'
        BY <2>4, <3>1, NotedWalk DEF WalkInv
      <3>3. QED
        BY <1>0, <2>1, <3>2 DEF WalkInv
    <2>5. QED
      BY <2>2, <2>3, <2>4
  <1>3. CASE Walks
    BY <1>0, <1>3, WalkBegins DEF WalkInv, WalkComplete, WalkDrift
  <1>4. CASE NextPage
    BY <1>0, <1>4, NextPageWalk DEF WalkInv
  <1>5. CASE PageFails
    <2>1. DOMAIN client = WalkFields
      BY <1>5 DEF PageFails, IInv, ClientInv, ClientOK
    <2>2. CASE client' = Failed
      BY <1>1, <2>2 DEF Failed
    <2>3. CASE client' = [client EXCEPT !.at = "walked", !.pages = @ + 1, !.swallowed = TRUE]
      <3>1. client'.at = "walked" /\ client'.swallowed = TRUE
        BY <2>1, <2>3 DEF WalkFields
      <3>2. QED
        BY <1>0, <3>1 DEF WalkInv, Walking, WalkComplete, WalkDrift
    <2>4. QED
      BY <1>5, <2>2, <2>3 DEF PageFails
  <1>6. CASE client.at = "walk" /\ client'.at = "walk" /\ client' # client /\ ~NextPage
    <2>1. Noted
      <3>1. ~Queries \/ PageFails
        <4>1. ~Walks /\ ~ResolveTasks
          BY <1>6 DEF Walks, StartWalk, ResolveTasks, Idle
        <4>2. \A n, u : ~GetWorkflow(n) /\ ~GetWorkflowById(n, u)
          BY <1>6 DEF GetWorkflow, GetWorkflowById, Idle
        <4>3. \A i : ~TakeListed(i) /\ ~GetTrigger(i)
          BY <1>6 DEF TakeListed, GetTrigger, Idle
        <4>4. QED
          BY <1>6, <4>1, <4>2, <4>3 DEF Queries
      <3>2. ~PageFails
        <4>1. DOMAIN client = WalkFields
          BY <1>6 DEF IInv, ClientInv, ClientOK
        <4>2. client' = Failed => client'.at # "walk"
          BY DEF Failed
        <4>3. client' = [client EXCEPT !.at = "walked", !.pages = @ + 1, !.swallowed = TRUE] => client'.at # "walk"
          BY <4>1 DEF WalkFields
        <4>4. QED
          BY <1>6, <4>2, <4>3 DEF PageFails
      <3>3. ~Mutations /\ ~ClientDone /\ ~UNCHANGED vars
        <4>1. \A t, values : ~Submit(t, values)
          BY <1>6 DEF Submit, Idle
        <4>2. \A n : ~CreateTrigger(n)
          BY <1>6 DEF CreateTrigger, Idle
        <4>3. QED
          BY <1>6, <4>1, <4>2 DEF Mutations, SubmitAccepted, SubmitRefused, Retry, ClientDone, vars
      <3>4. Cluster
        BY <3>1, <3>2, <3>3 DEF Next
      <3>5. QED
        BY <1>6, <3>4 DEF Cluster, SubmitByHand, WorkflowProceeds, WorkflowDeleted, TriggerApplied, TriggerDeleted
    <2>2. Walking'
      BY <1>6, <2>1, NotedWalk DEF WalkInv
    <2>3. QED
      BY <1>0, <1>6, <2>2 DEF WalkInv, WalkComplete, WalkDrift
  <1>7. ASSUME Submit(None, <<>>) \/ \E t \in Range(Catalog) : \E values \in [Required(t) -> FormValues] : Submit(t, values)
        PROVE  client'.at = "submit"
    BY <1>7 DEF Submit
  <1>8. ASSUME SubmitAccepted \/ SubmitRefused \/ Retry
        PROVE  client'.at \in Submitting
    <2>1. client.at \in Submitting /\ DOMAIN client = SubmitFields
      BY <1>8 DEF SubmitAccepted, SubmitRefused, Retry, IInv, ClientInv, Counted, Submitting
    <2>2. SubmitAccepted => client'.at \in {"submitted", "errors"}
      BY <2>1 DEF SubmitAccepted, SubmitFields
    <2>3. SubmitRefused => client'.at = "errors"
      BY <2>1 DEF SubmitRefused, SubmitFields
    <2>4. Retry => client'.at \in {"submit", "refused"}
      BY <2>1 DEF Retry, SubmitFields
    <2>5. QED
      BY <1>8, <2>2, <2>3, <2>4 DEF Submitting
  <1>9. QED
    BY <1>1, <1>2, <1>3, <1>4, <1>5, <1>6, <1>7, <1>8, ClientSteps DEF Submitting

\* The invariant of walks holds in every reachable state.
THEOREM WalkInvariant == Spec => []WalkInv
  <1>1. Init => WalkInv
    BY DEF Init, Idle, WalkInv, TagsOK, Walking, WalkComplete, WalkDrift
  <1>2. IInv /\ IInv' /\ WalkInv /\ [Next]_vars => WalkInv'
    BY WalkStep
  <1>3. QED
    BY Invariant, <1>1, <1>2, PTL DEF Spec

\* workflows, workflow_templates and triggers: a walk that follows endCursor while
\* hasNextPage has seen what its filter asks for, in order and once, and its pages
\* are linked; of workflows, if the selection did not change.
THEOREM WalkCompleteHolds == Spec => []WalkComplete
  <1>1. WalkInv => WalkComplete
    BY DEF WalkInv
  <1>2. QED
    BY WalkInvariant, <1>1, PTL

\* workflows: the offset in a list that moves misses a workflow only if another one
\* has left the selection, and shows one twice only if another one has entered it.
THEOREM WalkDriftHolds == Spec => []WalkDrift
  <1>1. WalkInv => WalkDrift
    BY DEF WalkInv
  <1>2. QED
    BY WalkInvariant, <1>1, PTL
=============================================================================

------------------------------ MODULE ExtAuthz ------------------------------
(***************************************************************************)
(* authorize_request (auth-broker/src/ext_authz): which user's bearer      *)
(* token a workflow pod receives.  Between its awaits the cluster moves:   *)
(* pods end, names are used again, workflows are deleted and resubmitted,  *)
(* and the subject cache keeps answers for SUBJECT_CACHE_TTL_SECS.         *)
(*                                                                         *)
(* Abstractions.  One namespace, and one pod name per workflow name.       *)
(* Workflow and pod instances are numbered in the order they are created;  *)
(* a pod's uid is its number.  get_or_refresh_token (module TokenBroker)   *)
(* gives an access token of the subject it is asked for, or fails.         *)
(***************************************************************************)
EXTENDS Naturals

CONSTANTS
    Names,         \* names of workflows, and of their pods
    Subjects,      \* workflow creators
    Requests,      \* concurrent requests of the proxies
    MaxWorkflows,  \* bound: workflows submitted
    MaxPods,       \* bound: pods started
    None           \* "no value"

ASSUME BoundsNat == MaxWorkflows \in Nat /\ MaxPods \in Nat
ASSUME NoneIsNothingElse == None \notin Subjects /\ None \notin Names /\ None \notin Nat

Workflows == 1..MaxWorkflows
Uids == 1..MaxPods

VARIABLES
    submitted,      \* number of workflows submitted so far
    creator,        \* creator[i]: creator label of workflow instance i
    workflow,       \* workflow[w]: the instance that exists under name w
    started,        \* number of pods started so far
    podName,        \* podName[u]: name of pod instance u
    owner,          \* owner[u]: the workflow instance pod u belongs to
    pod,            \* pod[w]: the pod instance that exists under name w
    subject_cache,  \* subject_cache[<<w, u>>]: cached subject of pod w with uid u
    pc,             \* pc[r]: the await at which request r is suspended
    sender,         \* sender[r]: the pod instance whose token the request carries
    carries,        \* carries[r]: the token names the pod's uid
    seen,           \* seen[r]: uid of the pod the API server returned
    subject,        \* subject[r]: the subject resolved
    wasAlive,       \* history: the sender existed when the request arrived
    mixed           \* history: pods looked up after their workflow's name was reused

cluster == <<submitted, creator, workflow, started, podName, owner, pod>>
locals == <<sender, carries, seen, subject, wasAlive>>
vars == <<cluster, subject_cache, pc, locals, mixed>>

Answered == {"ok", "forbidden", "unavailable"}
Places == {"idle", "pod", "cached", "resolve", "remember", "token"} \cup Answered

\* Every variable has its type.
TypeOK ==
    /\ submitted \in 0..MaxWorkflows /\ started \in 0..MaxPods
    /\ creator \in [Workflows -> Subjects \cup {None}]
    /\ workflow \in [Names -> Workflows \cup {None}]
    /\ podName \in [Uids -> Names \cup {None}]
    /\ owner \in [Uids -> Workflows \cup {None}]
    /\ pod \in [Names -> Uids \cup {None}]
    /\ subject_cache \in [Names \X Uids -> Subjects \cup {None}]
    /\ pc \in [Requests -> Places]
    /\ sender \in [Requests -> Uids \cup {None}]
    /\ carries \in [Requests -> BOOLEAN]
    /\ seen \in [Requests -> Uids \cup {None}]
    /\ subject \in [Requests -> Subjects \cup {None}]
    /\ wasAlive \in [Requests -> BOOLEAN]
    /\ mixed \in SUBSET Uids

\* The creator of the workflow pod u was started for.
CreatorOf(u) == creator[owner[u]]

(***************************************************************************)
(* The cluster (external).                                                 *)
(***************************************************************************)

Submit(w, s) ==
    /\ workflow[w] = None
    /\ submitted < MaxWorkflows
    /\ submitted' = submitted + 1
    /\ creator' = [creator EXCEPT ![submitted + 1] = s]
    /\ workflow' = [workflow EXCEPT ![w] = submitted + 1]
    /\ UNCHANGED <<started, podName, owner, pod, subject_cache, pc, locals, mixed>>

\* Its pods follow later, by garbage collection.
DeleteWorkflow(w) ==
    /\ workflow[w] # None
    /\ workflow' = [workflow EXCEPT ![w] = None]
    /\ UNCHANGED <<submitted, creator, started, podName, owner, pod, subject_cache, pc, locals, mixed>>

StartPod(w) ==
    /\ workflow[w] # None /\ pod[w] = None
    /\ started < MaxPods
    /\ started' = started + 1
    /\ podName' = [podName EXCEPT ![started + 1] = w]
    /\ owner' = [owner EXCEPT ![started + 1] = workflow[w]]
    /\ pod' = [pod EXCEPT ![w] = started + 1]
    /\ UNCHANGED <<submitted, creator, workflow, subject_cache, pc, locals, mixed>>

StopPod(w) ==
    /\ pod[w] # None
    /\ pod' = [pod EXCEPT ![w] = None]
    /\ UNCHANGED <<submitted, creator, workflow, started, podName, owner, subject_cache, pc, locals, mixed>>

(***************************************************************************)
(* authorize_request_inner.                                                *)
(***************************************************************************)

Goto(r, p) == pc' = [pc EXCEPT ![r] = p]

Answer(r, p) ==
    /\ pc[r] \in Places \ (Answered \cup {"idle"})
    /\ Goto(r, p)
    /\ UNCHANGED <<cluster, subject_cache, locals, mixed>>

\* The token is reviewed and names its pod.  The API server remembers a review
\* for a while, so the pod need not exist any more.
Review(r, u, c) ==
    /\ pc[r] \in {"idle"} \cup Answered
    /\ u <= started
    /\ Goto(r, "pod")
    /\ sender' = [sender EXCEPT ![r] = u]
    /\ carries' = [carries EXCEPT ![r] = c]
    /\ seen' = [seen EXCEPT ![r] = None]
    /\ subject' = [subject EXCEPT ![r] = None]
    /\ wasAlive' = [wasAlive EXCEPT ![r] = (pod[podName[u]] = u)]
    /\ UNCHANGED <<cluster, subject_cache, mixed>>

\* No token in the request, an unauthenticated one, or one that names no pod.
\* (AuthzError::TokenValidation, the API server unreachable, is a 503.)
ReviewFails(r) ==
    /\ pc[r] \in {"idle"} \cup Answered
    /\ \E p \in {"forbidden", "unavailable"} : Goto(r, p)
    /\ sender' = [sender EXCEPT ![r] = None]
    /\ carries' = [carries EXCEPT ![r] = FALSE]
    /\ seen' = [seen EXCEPT ![r] = None]
    /\ subject' = [subject EXCEPT ![r] = None]
    /\ wasAlive' = [wasAlive EXCEPT ![r] = FALSE]
    /\ UNCHANGED <<cluster, subject_cache, mixed>>

\* Mutant: the uid is not compared.
AnyUid(r, u) == u # None

\* The pod returned is the token's pod, as far as the token tells.
UidMatches(r, u) == u # None /\ (carries[r] => u = sender[r])

\* Mutant: the name is kept where the uid belongs.
GetPodName(r) ==
    /\ pc[r] = "pod"
    /\ UidMatches(r, pod[podName[sender[r]]])
    /\ seen' = [seen EXCEPT ![r] = podName[sender[r]]]
    /\ Goto(r, "cached")
    /\ UNCHANGED <<cluster, subject_cache, sender, carries, subject, wasAlive, mixed>>

\* Mutant: a cached subject spares the call of the API server.
CacheFirst(r) ==
    /\ pc[r] = "pod"
    /\ \/ carries[r] /\ subject_cache[<<podName[sender[r]], sender[r]>>] # None
       \/ UidMatches(r, pod[podName[sender[r]]])
    /\ seen' = [seen EXCEPT ![r] =
         IF carries[r] THEN sender[r] ELSE pod[podName[sender[r]]]]
    /\ Goto(r, "cached")
    /\ UNCHANGED <<cluster, subject_cache, sender, carries, subject, wasAlive, mixed>>

\* get_pod by name, then the uid check.
GetPod(r) ==
    /\ pc[r] = "pod"
    /\ UidMatches(r, pod[podName[sender[r]]])
    /\ seen' = [seen EXCEPT ![r] = pod[podName[sender[r]]]]
    /\ Goto(r, "cached")
    /\ UNCHANGED <<cluster, subject_cache, sender, carries, subject, wasAlive, mixed>>

\* PodNotFound (also any error of the API server), PodUidMismatch.
PodRefused(r) == pc[r] = "pod" /\ Answer(r, "forbidden")

\* Mutant: one key for every instance of a name.
NameKey(r) == <<podName[sender[r]], 1>>

\* format!("{}/{}/{}", namespace, name, uid of the pod returned)
PodKey(r) == <<podName[sender[r]], seen[r]>>

GetCachedSubject(r) ==
    /\ pc[r] = "cached"
    /\ subject' = [subject EXCEPT ![r] = subject_cache[PodKey(r)]]
    /\ Goto(r, IF subject_cache[PodKey(r)] = None THEN "resolve" ELSE "token")
    /\ UNCHANGED <<cluster, subject_cache, sender, carries, seen, wasAlive, mixed>>

\* resolve_subject: the workflow the pod's label names, looked up by name.
ResolveSubject(r) ==
    LET w == podName[seen[r]] IN
    /\ pc[r] = "resolve"
    /\ workflow[w] # None
    /\ subject' = [subject EXCEPT ![r] = creator[workflow[w]]]
    /\ mixed' = IF workflow[w] = owner[seen[r]] THEN mixed ELSE mixed \cup {seen[r]}
    /\ Goto(r, "remember")
    /\ UNCHANGED <<cluster, subject_cache, sender, carries, seen, wasAlive>>

\* A label is missing, the workflow is gone, or the API server fails.
ResolveFails(r) == pc[r] = "resolve" /\ Answer(r, "forbidden")

SetCachedSubject(r) ==
    /\ pc[r] = "remember"
    /\ subject_cache' = [subject_cache EXCEPT ![PodKey(r)] = subject[r]]
    /\ Goto(r, "token")
    /\ UNCHANGED <<cluster, locals, mixed>>

\* get_or_refresh_token(subject): a bearer token of subject, or 503.
TokenReturned(r) == pc[r] = "token" /\ Answer(r, "ok")
TokenFails(r) == pc[r] = "token" /\ Answer(r, "unavailable")

\* The time to live is over, or the cache is full.
EvictSubject(k) ==
    /\ subject_cache[k] # None
    /\ subject_cache' = [subject_cache EXCEPT ![k] = None]
    /\ UNCHANGED <<cluster, pc, locals, mixed>>

Init ==
    /\ submitted = 0 /\ started = 0
    /\ creator = [i \in Workflows |-> None]
    /\ workflow = [w \in Names |-> None]
    /\ podName = [u \in Uids |-> None]
    /\ owner = [u \in Uids |-> None]
    /\ pod = [w \in Names |-> None]
    /\ subject_cache = [k \in Names \X Uids |-> None]
    /\ pc = [r \in Requests |-> "idle"]
    /\ sender = [r \in Requests |-> None]
    /\ carries = [r \in Requests |-> FALSE]
    /\ seen = [r \in Requests |-> None]
    /\ subject = [r \in Requests |-> None]
    /\ wasAlive = [r \in Requests |-> FALSE]
    /\ mixed = {}

Cluster ==
    \E w \in Names :
        \/ \E s \in Subjects : Submit(w, s)
        \/ DeleteWorkflow(w) \/ StartPod(w) \/ StopPod(w)

Handle(r) ==
    \/ \E u \in Uids, c \in BOOLEAN : Review(r, u, c)
    \/ ReviewFails(r) \/ GetPod(r) \/ PodRefused(r)
    \/ GetCachedSubject(r) \/ ResolveSubject(r) \/ ResolveFails(r)
    \/ SetCachedSubject(r) \/ TokenReturned(r) \/ TokenFails(r)

Next ==
    \/ Cluster
    \/ \E r \in Requests : Handle(r)
    \/ \E k \in Names \X Uids : EvictSubject(k)

Spec == Init /\ [][Next]_vars

(***************************************************************************)
(* Properties.                                                             *)
(***************************************************************************)

\* The pod a request speaks for: the sender itself when the token names a uid,
\* otherwise whichever pod had the sender's name when it was fetched.
Claimed(r) == IF carries[r] THEN sender[r] ELSE seen[r]

\* A request that succeeds gets the token of the creator of the workflow its pod
\* was started for, whatever restarts, name reuse and cache evictions happened
\* meanwhile.  Two things are not claimed: of a pod whose workflow was deleted and
\* whose workflow name was submitted again before its subject was looked up (mixed);
\* and, of a token without a pod uid, that the pod of that name is the sender (Claimed).
BearerForCreator ==
    \A r \in Requests :
        pc[r] = "ok" /\ seen[r] \notin mixed => subject[r] = CreatorOf(Claimed(r))

\* A token that names the uid of a pod that had already ended when the request
\* arrived gets nothing, though its review and its subject may be cached.
EndedPodRefused ==
    \A r \in Requests : pc[r] = "ok" /\ carries[r] => wasAlive[r]

\* What the cache says of a pod stays what its workflow says, for as long as the
\* entry lives (mixed pods are excepted here too).
CachedSubjectTrue ==
    \A w \in Names, u \in Uids :
        subject_cache[<<w, u>>] # None /\ u \notin mixed =>
            subject_cache[<<w, u>>] = CreatorOf(u)
=============================================================================

-------------------------- MODULE ExtAuthz_proofs ---------------------------
(***************************************************************************)
(* Proofs about ExtAuthz, for any names, users, requests and bounds.       *)
(*                                                                         *)
(* The invariant has three parts: World, facts of the cluster that hold    *)
(* because instances are numbered; Cached, what the subject cache may say; *)
(* Handling, what a request knows at each await.  Cluster steps disturb    *)
(* the last two only through OldInstances: what exists does not change its *)
(* name, its owner or its creator, and a pod that is gone stays gone.      *)
(***************************************************************************)
EXTENDS ExtAuthz, TLAPS

World ==
    /\ \A u \in Uids : u <= started =>
         podName[u] \in Names /\ owner[u] \in Workflows /\ owner[u] <= submitted
    /\ \A i \in Workflows : i <= submitted => creator[i] \in Subjects
    /\ \A w \in Names : workflow[w] # None => workflow[w] <= submitted
    /\ \A w \in Names : pod[w] # None => pod[w] <= started /\ podName[pod[w]] = w

Cached ==
    \A w \in Names, u \in Uids : subject_cache[<<w, u>>] # None =>
        u <= started /\ (u \notin mixed => subject_cache[<<w, u>>] = CreatorOf(u))

HasSender == {"pod", "cached", "resolve", "remember", "token", "ok"}
HasPod == {"cached", "resolve", "remember", "token", "ok"}
HasSubject == {"remember", "token", "ok"}

SenderKnown(r) ==
    /\ sender[r] \in Uids /\ sender[r] <= started
    /\ pc[r] = "pod" /\ pod[podName[sender[r]]] = sender[r] => wasAlive[r]

PodKnown(r) ==
    /\ seen[r] \in Uids /\ seen[r] <= started
    /\ podName[seen[r]] = podName[sender[r]]
    /\ carries[r] => seen[r] = sender[r] /\ wasAlive[r]

SubjectKnown(r) ==
    /\ subject[r] \in Subjects
    /\ seen[r] \notin mixed => subject[r] = CreatorOf(seen[r])

Handling ==
    \A r \in Requests :
        /\ pc[r] \in HasSender => SenderKnown(r)
        /\ pc[r] \in HasPod => PodKnown(r)
        /\ pc[r] \in HasSubject => SubjectKnown(r)

IInv == TypeOK /\ World /\ Cached /\ Handling

OldInstances ==
    /\ started <= started'
    /\ \A u \in Uids : u <= started =>
         /\ podName'[u] = podName[u]
         /\ owner'[u] = owner[u]
         /\ creator'[owner[u]] = creator[owner[u]]
         /\ pod'[podName[u]] = u => pod[podName[u]] = u

Requesting == <<subject_cache, pc, locals, mixed>>
-----------------------------------------------------------------------------
LEMMA InitInv == Init => IInv
<1> SUFFICES ASSUME Init PROVE IInv
    OBVIOUS
<1>1. TypeOK
    BY BoundsNat DEF Init, TypeOK, Uids, Workflows, Places, Answered
<1>2. World
    BY BoundsNat DEF Init, World, Uids, Workflows
<1>3. Cached
    BY DEF Init, Cached
<1>4. Handling
    BY DEF Init, Handling, HasSender, HasPod, HasSubject
<1> QED BY <1>1, <1>2, <1>3, <1>4 DEF IInv

(***************************************************************************)
(* Steps of the cluster.                                                   *)
(***************************************************************************)

LEMMA SubmitStep ==
    ASSUME IInv, NEW w \in Names, NEW s \in Subjects, Submit(w, s)
    PROVE  TypeOK' /\ World' /\ OldInstances /\ UNCHANGED Requesting
<1> USE BoundsNat, NoneIsNothingElse DEF IInv, Uids, Workflows
<1>0. submitted + 1 \in Workflows /\ started \in Nat
    BY DEF Submit, TypeOK
<1>1. TypeOK'
    BY <1>0 DEF Submit, TypeOK, locals
<1>2. World'
    BY <1>0 DEF Submit, TypeOK, World
<1>3. OldInstances
    BY <1>0 DEF Submit, TypeOK, World, OldInstances
<1> QED BY <1>1, <1>2, <1>3 DEF Submit, Requesting

LEMMA DeleteStep ==
    ASSUME IInv, NEW w \in Names, DeleteWorkflow(w)
    PROVE  TypeOK' /\ World' /\ OldInstances /\ UNCHANGED Requesting
<1> USE BoundsNat, NoneIsNothingElse DEF IInv, Uids, Workflows
<1>1. TypeOK'
    BY DEF DeleteWorkflow, TypeOK, locals
<1>2. World'
    BY DEF DeleteWorkflow, TypeOK, World
<1>3. OldInstances
    BY DEF DeleteWorkflow, TypeOK, World, OldInstances
<1> QED BY <1>1, <1>2, <1>3 DEF DeleteWorkflow, Requesting

LEMMA StartStep ==
    ASSUME IInv, NEW w \in Names, StartPod(w)
    PROVE  TypeOK' /\ World' /\ OldInstances /\ UNCHANGED Requesting
<1> USE BoundsNat, NoneIsNothingElse DEF IInv, Uids, Workflows
<1>0. started + 1 \in Uids /\ started \in Nat /\ workflow[w] \in Workflows
    BY DEF StartPod, TypeOK
<1>1. TypeOK'
    BY <1>0 DEF StartPod, TypeOK, locals
<1>2. World'
    BY <1>0 DEF StartPod, TypeOK, World
<1>3. OldInstances
    BY <1>0 DEF StartPod, TypeOK, World, OldInstances
<1> QED BY <1>1, <1>2, <1>3 DEF StartPod, Requesting

LEMMA StopStep ==
    ASSUME IInv, NEW w \in Names, StopPod(w)
    PROVE  TypeOK' /\ World' /\ OldInstances /\ UNCHANGED Requesting
<1> USE BoundsNat, NoneIsNothingElse DEF IInv, Uids, Workflows
<1>1. TypeOK'
    BY DEF StopPod, TypeOK, locals
<1>2. World'
    BY DEF StopPod, TypeOK, World
<1>3. OldInstances
    BY DEF StopPod, TypeOK, World, OldInstances
<1> QED BY <1>1, <1>2, <1>3 DEF StopPod, Requesting

LEMMA CreatorKept ==
    ASSUME IInv, OldInstances, NEW u \in Uids, u <= started
    PROVE  CreatorOf(u)' = CreatorOf(u)
BY DEF OldInstances, CreatorOf

LEMMA ClusterStep ==
    ASSUME IInv, Cluster
    PROVE  IInv'
<1>1. TypeOK' /\ World' /\ OldInstances /\ UNCHANGED Requesting
    BY SubmitStep, DeleteStep, StartStep, StopStep DEF Cluster
<1>2. Cached'
  <2> SUFFICES ASSUME NEW w \in Names, NEW u \in Uids, subject_cache[<<w, u>>] # None
               PROVE  u <= started' /\ (u \notin mixed => subject_cache[<<w, u>>] = CreatorOf(u)')
      BY <1>1 DEF Cached, Requesting
  <2>1. u <= started /\ (u \notin mixed => subject_cache[<<w, u>>] = CreatorOf(u))
      BY DEF IInv, Cached
  <2>2. u <= started'
      BY <1>1, <2>1, BoundsNat DEF OldInstances, IInv, TypeOK, Uids
  <2> QED BY <1>1, <2>1, <2>2, CreatorKept
<1>3. Handling'
  <2> SUFFICES ASSUME NEW r \in Requests
               PROVE  /\ pc[r] \in HasSender => SenderKnown(r)'
                      /\ pc[r] \in HasPod => PodKnown(r)'
                      /\ pc[r] \in HasSubject => SubjectKnown(r)'
      BY <1>1 DEF Handling, Requesting, HasSender, HasPod, HasSubject
  <2>0. /\ pc[r] \in HasSender => SenderKnown(r)
        /\ pc[r] \in HasPod => PodKnown(r)
        /\ pc[r] \in HasSubject => SubjectKnown(r)
      BY DEF IInv, Handling
  <2>a. started \in Nat /\ started' \in Nat /\ started <= started'
      BY <1>1 DEF IInv, TypeOK, OldInstances
  <2>1. ASSUME pc[r] \in HasSender PROVE SenderKnown(r)'
      BY <1>1, <2>0, <2>1, <2>a, BoundsNat
      DEF SenderKnown, OldInstances, Requesting, locals, Uids
  <2>2. ASSUME pc[r] \in HasPod PROVE PodKnown(r)'
    <3>1. pc[r] \in HasSender
        BY <2>2 DEF HasPod, HasSender
    <3> QED
        BY <1>1, <2>0, <2>2, <2>a, <3>1, BoundsNat
        DEF SenderKnown, PodKnown, OldInstances, Requesting, locals, Uids
  <2>3. ASSUME pc[r] \in HasSubject PROVE SubjectKnown(r)'
    <3>1. pc[r] \in HasPod
        BY <2>3 DEF HasPod, HasSubject
    <3>2. CreatorOf(seen[r])' = CreatorOf(seen[r])
        BY <1>1, <2>0, <3>1, CreatorKept DEF PodKnown, Requesting, locals, CreatorOf, OldInstances
    <3> QED
        BY <1>1, <2>0, <2>3, <3>2 DEF SubjectKnown, Requesting, locals
  <2> QED BY <2>1, <2>2, <2>3
<1> QED BY <1>1, <1>2, <1>3 DEF IInv

(***************************************************************************)
(* Steps of a request r.  They leave the cluster and the other requests    *)
(* alone, and mixed only grows.                                            *)
(***************************************************************************)

LocalStep(r) ==
    /\ UNCHANGED cluster
    /\ mixed \subseteq mixed'
    /\ \A q \in Requests \ {r} :
         /\ pc'[q] = pc[q]
         /\ sender'[q] = sender[q] /\ carries'[q] = carries[q]
         /\ seen'[q] = seen[q] /\ subject'[q] = subject[q] /\ wasAlive'[q] = wasAlive[q]

Known(r) ==
    /\ pc[r] \in HasSender => SenderKnown(r)
    /\ pc[r] \in HasPod => PodKnown(r)
    /\ pc[r] \in HasSubject => SubjectKnown(r)

LEMMA RequestFrame ==
    ASSUME IInv, NEW r \in Requests, LocalStep(r), TypeOK', Cached', Known(r)'
    PROVE  IInv'
<1>1. World'
    BY DEF IInv, LocalStep, World, cluster
<1>2. Handling'
  <2> SUFFICES ASSUME NEW q \in Requests PROVE Known(q)'
      BY DEF Handling, Known
  <2>1. CASE q = r
      BY <2>1
  <2>2. CASE q # r
    <3>1. Known(q)
        BY DEF IInv, Handling, Known
    <3>2. SenderKnown(q) /\ pc[q] \in HasSender => SenderKnown(q)'
        BY <2>2 DEF LocalStep, cluster, SenderKnown
    <3>3. PodKnown(q) => PodKnown(q)'
        BY <2>2 DEF LocalStep, cluster, PodKnown
    <3>4. SubjectKnown(q) => SubjectKnown(q)'
        BY <2>2 DEF LocalStep, cluster, SubjectKnown, CreatorOf
    <3> QED BY <2>2, <3>1, <3>2, <3>3, <3>4 DEF LocalStep, Known
  <2> QED BY <2>1, <2>2
<1> QED BY <1>1, <1>2 DEF IInv

LEMMA CacheFrame ==
    ASSUME IInv, UNCHANGED <<cluster, subject_cache>>, mixed \subseteq mixed'
    PROVE  Cached'
BY DEF IInv, Cached, cluster, CreatorOf

LEMMA ReviewStep ==
    ASSUME IInv, NEW r \in Requests, NEW u \in Uids, NEW c \in BOOLEAN, Review(r, u, c)
    PROVE  IInv'
<1>1. TypeOK' /\ LocalStep(r)
  <2>1. (pod[podName[u]] = u) \in BOOLEAN
      OBVIOUS
  <2> QED BY <2>1 DEF IInv, TypeOK, Review, Goto, cluster, LocalStep, Places
<1>2. Cached'
    BY CacheFrame DEF Review
<1>3. Known(r)'
    BY DEF IInv, TypeOK, Review, Goto, cluster, Known, SenderKnown, HasSender, HasPod, HasSubject
<1> QED BY <1>1, <1>2, <1>3, RequestFrame

LEMMA ReviewFailsStep ==
    ASSUME IInv, NEW r \in Requests, ReviewFails(r)
    PROVE  IInv'
<1>1. TypeOK' /\ LocalStep(r)
    BY DEF IInv, TypeOK, ReviewFails, Goto, cluster, LocalStep, Places, Answered
<1>2. Cached'
    BY CacheFrame DEF ReviewFails
<1>3. Known(r)'
    BY DEF IInv, TypeOK, ReviewFails, Goto, Known, HasSender, HasPod, HasSubject
<1> QED BY <1>1, <1>2, <1>3, RequestFrame

LEMMA GetPodStep ==
    ASSUME IInv, NEW r \in Requests, GetPod(r)
    PROVE  IInv'
<1>0. SenderKnown(r) /\ pc[r] = "pod"
    BY DEF IInv, Handling, GetPod, HasSender
<1>a. podName[sender[r]] \in Names
    BY <1>0 DEF IInv, World, SenderKnown
<1>b. pod[podName[sender[r]]] \in Uids /\ podName[pod[podName[sender[r]]]] = podName[sender[r]]
      /\ pod[podName[sender[r]]] <= started
    BY <1>0, <1>a DEF GetPod, UidMatches, IInv, World, TypeOK
<1>1. TypeOK' /\ LocalStep(r)
    BY <1>b DEF IInv, TypeOK, GetPod, Goto, cluster, LocalStep, Places
<1>2. Cached'
    BY CacheFrame DEF GetPod
<1>3. Known(r)'
  <2>1. pc'[r] = "cached" /\ seen'[r] = pod[podName[sender[r]]]
      BY DEF IInv, TypeOK, GetPod, Goto
  <2>2. SenderKnown(r)'
      BY <1>0, <2>1 DEF GetPod, cluster, SenderKnown
  <2>3. PodKnown(r)'
      BY <1>0, <1>b, <2>1 DEF GetPod, UidMatches, cluster, SenderKnown, PodKnown
  <2> QED BY <2>1, <2>2, <2>3 DEF Known, HasSubject
<1> QED BY <1>1, <1>2, <1>3, RequestFrame

LEMMA GetCachedSubjectStep ==
    ASSUME IInv, NEW r \in Requests, GetCachedSubject(r)
    PROVE  IInv'
<1>0. SenderKnown(r) /\ PodKnown(r)
    BY DEF IInv, Handling, GetCachedSubject, HasSender, HasPod
<1>a. podName[sender[r]] \in Names /\ seen[r] \in Uids
    BY <1>0 DEF IInv, World, SenderKnown, PodKnown
<1>b. PodKey(r) = <<podName[sender[r]], seen[r]>> /\ PodKey(r) \in Names \X Uids
    BY <1>a DEF PodKey
<1>1. TypeOK' /\ LocalStep(r)
  <2>1. subject_cache[PodKey(r)] \in Subjects \cup {None}
      BY <1>b DEF IInv, TypeOK
  <2> QED BY <2>1 DEF IInv, TypeOK, GetCachedSubject, Goto, cluster, LocalStep, Places
<1>2. Cached'
    BY CacheFrame DEF GetCachedSubject
<1>3. Known(r)'
  <2>1. SenderKnown(r)' /\ PodKnown(r)'
      BY <1>0 DEF GetCachedSubject, Goto, cluster, SenderKnown, PodKnown, IInv, TypeOK
  <2>2. ASSUME pc'[r] \in HasSubject PROVE SubjectKnown(r)'
    <3>1. subject_cache[PodKey(r)] # None
        BY <2>2 DEF GetCachedSubject, Goto, HasSubject, IInv, TypeOK
    <3>2. subject'[r] = subject_cache[PodKey(r)]
        BY DEF GetCachedSubject, IInv, TypeOK
    <3>3. seen[r] \notin mixed => subject_cache[PodKey(r)] = CreatorOf(seen[r])
        BY <1>a, <1>b, <3>1 DEF IInv, Cached
    <3>4. subject_cache[PodKey(r)] \in Subjects
        BY <1>b, <3>1 DEF IInv, TypeOK
    <3> QED BY <3>2, <3>3, <3>4 DEF SubjectKnown, GetCachedSubject, CreatorOf, cluster
  <2> QED BY <2>1, <2>2 DEF Known
<1> QED BY <1>1, <1>2, <1>3, RequestFrame

LEMMA ResolveStep ==
    ASSUME IInv, NEW r \in Requests, ResolveSubject(r)
    PROVE  IInv'
<1> DEFINE w == podName[seen[r]]
<1>0. SenderKnown(r) /\ PodKnown(r)
    BY DEF IInv, Handling, ResolveSubject, HasSender, HasPod
<1>a. w \in Names /\ workflow[w] \in Workflows /\ creator[workflow[w]] \in Subjects
    BY <1>0 DEF IInv, World, PodKnown, ResolveSubject, TypeOK
<1>1. TypeOK' /\ LocalStep(r)
    BY <1>0, <1>a DEF IInv, TypeOK, PodKnown, ResolveSubject, Goto, cluster, LocalStep, Places
<1>2. Cached'
    BY CacheFrame DEF ResolveSubject
<1>3. Known(r)'
  <2>1. SenderKnown(r)' /\ PodKnown(r)'
      BY <1>0 DEF ResolveSubject, Goto, cluster, SenderKnown, PodKnown, IInv, TypeOK
  <2>2. SubjectKnown(r)'
      BY <1>a DEF ResolveSubject, SubjectKnown, CreatorOf, cluster, IInv, TypeOK
  <2> QED BY <2>1, <2>2 DEF Known
<1> QED BY <1>1, <1>2, <1>3, RequestFrame

LEMMA SetCachedSubjectStep ==
    ASSUME IInv, NEW r \in Requests, SetCachedSubject(r)
    PROVE  IInv'
<1>0. SenderKnown(r) /\ PodKnown(r) /\ SubjectKnown(r)
    BY DEF IInv, Handling, SetCachedSubject, HasSender, HasPod, HasSubject
<1>a. podName[sender[r]] \in Names /\ seen[r] \in Uids
    BY <1>0 DEF IInv, World, SenderKnown, PodKnown
<1>b. PodKey(r) = <<podName[sender[r]], seen[r]>> /\ PodKey(r) \in Names \X Uids
    BY <1>a DEF PodKey
<1>1. TypeOK' /\ LocalStep(r)
    BY <1>0, <1>b DEF IInv, TypeOK, SubjectKnown, SetCachedSubject, Goto, cluster, locals, LocalStep, Places
<1>2. Cached'
  <2> SUFFICES ASSUME NEW w \in Names, NEW u \in Uids, subject_cache'[<<w, u>>] # None
               PROVE  u <= started /\ (u \notin mixed => subject_cache'[<<w, u>>] = CreatorOf(u))
      BY DEF Cached, SetCachedSubject, cluster, CreatorOf
  <2>1. CASE <<w, u>> = PodKey(r)
    <3>1. u = seen[r] /\ subject_cache'[<<w, u>>] = subject[r]
        BY <1>b, <2>1 DEF SetCachedSubject, IInv, TypeOK
    <3> QED BY <1>0, <3>1 DEF PodKnown, SubjectKnown
  <2>2. CASE <<w, u>> # PodKey(r)
    <3>1. subject_cache'[<<w, u>>] = subject_cache[<<w, u>>]
        BY <2>2 DEF SetCachedSubject, IInv, TypeOK
    <3> QED BY <3>1 DEF IInv, Cached
  <2> QED BY <2>1, <2>2
<1>3. Known(r)'
    BY <1>0 DEF SetCachedSubject, Goto, cluster, locals, Known, SenderKnown, PodKnown,
                SubjectKnown, CreatorOf, IInv, TypeOK
<1> QED BY <1>1, <1>2, <1>3, RequestFrame

LEMMA AnswerStep ==
    ASSUME IInv, NEW r \in Requests, NEW p \in Answered, Answer(r, p),
           p = "ok" => pc[r] = "token"
    PROVE  IInv'
<1>1. TypeOK' /\ LocalStep(r)
    BY DEF IInv, TypeOK, Answer, Goto, cluster, locals, LocalStep, Places
<1>2. Cached'
    BY CacheFrame DEF Answer
<1>3. Known(r)'
  <2>1. pc'[r] = p
      BY DEF Answer, Goto, IInv, TypeOK
  <2>2. CASE p = "ok"
    <3>1. SenderKnown(r) /\ PodKnown(r) /\ SubjectKnown(r)
        BY <2>2 DEF IInv, Handling, HasSender, HasPod, HasSubject
    <3> QED BY <2>1, <2>2, <3>1 DEF Answer, cluster, locals, Known, SenderKnown, PodKnown, SubjectKnown, CreatorOf
  <2>3. CASE p # "ok"
      BY <2>1, <2>3 DEF Known, Answered, HasSender, HasPod, HasSubject
  <2> QED BY <2>2, <2>3
<1> QED BY <1>1, <1>2, <1>3, RequestFrame

LEMMA EvictStep ==
    ASSUME IInv, NEW k \in Names \X Uids, EvictSubject(k)
    PROVE  IInv'
<1>1. TypeOK'
    BY DEF IInv, TypeOK, EvictSubject, cluster, locals
<1>2. World'
    BY DEF IInv, World, EvictSubject, cluster
<1>3. Cached'
    BY DEF IInv, Cached, TypeOK, EvictSubject, cluster, CreatorOf
<1>4. Handling'
    BY DEF IInv, Handling, EvictSubject, cluster, locals, SenderKnown, PodKnown, SubjectKnown, CreatorOf
<1> QED BY <1>1, <1>2, <1>3, <1>4 DEF IInv

LEMMA StepInv == IInv /\ [Next]_vars => IInv'
<1> SUFFICES ASSUME IInv, [Next]_vars PROVE IInv'
    OBVIOUS
<1>1. CASE Cluster
    BY <1>1, ClusterStep
<1>2. ASSUME NEW r \in Requests, Handle(r) PROVE IInv'
  <2>1. CASE \E u \in Uids, c \in BOOLEAN : Review(r, u, c)
      BY <2>1, ReviewStep
  <2>2. CASE PodRefused(r) \/ ResolveFails(r)
      BY <2>2, AnswerStep DEF PodRefused, ResolveFails, Answered
  <2>3. CASE TokenReturned(r) \/ TokenFails(r)
      BY <2>3, AnswerStep DEF TokenReturned, TokenFails, Answered
  <2> QED BY <1>2, <2>1, <2>2, <2>3, ReviewFailsStep, GetPodStep, GetCachedSubjectStep,
             ResolveStep, SetCachedSubjectStep DEF Handle
<1>3. ASSUME NEW k \in Names \X Uids, EvictSubject(k) PROVE IInv'
    BY <1>3, EvictStep
<1>4. CASE UNCHANGED vars
  <2>1. TypeOK' /\ World' /\ Cached'
      BY <1>4 DEF IInv, vars, cluster, locals, TypeOK, World, Cached, CreatorOf
  <2>2. Handling'
      BY <1>4 DEF IInv, vars, cluster, locals, Handling, SenderKnown, PodKnown, SubjectKnown, CreatorOf
  <2> QED BY <2>1, <2>2 DEF IInv
<1> QED BY <1>1, <1>2, <1>3, <1>4 DEF Next

LEMMA Invariance == Spec => []IInv
BY InitInv, StepInv, PTL DEF Spec

(***************************************************************************)
(* Theorems.                                                               *)
(***************************************************************************)

\* authorize_request keeps every variable within its type.
THEOREM TypeCorrect == Spec => []TypeOK
<1>1. IInv => TypeOK
    BY DEF IInv
<1> QED BY <1>1, Invariance, PTL

\* Whatever the cluster does between the awaits of authorize_request, a request
\* that succeeds carries the token of its own pod's workflow creator.
THEOREM BearerForCreatorHolds == Spec => []BearerForCreator
<1>1. IInv => BearerForCreator
    BY DEF IInv, Handling, HasPod, HasSubject, PodKnown, SubjectKnown, BearerForCreator, Claimed
<1> QED BY <1>1, Invariance, PTL

\* A token of a pod that had ended before the request arrived is refused.
THEOREM EndedPodRefusedHolds == Spec => []EndedPodRefused
<1>1. IInv => EndedPodRefused
    BY DEF IInv, Handling, HasPod, PodKnown, EndedPodRefused
<1> QED BY <1>1, Invariance, PTL

\* Entries of the subject cache never go stale while they live.
THEOREM CachedSubjectTrueHolds == Spec => []CachedSubjectTrue
<1>1. IInv => CachedSubjectTrue
    BY DEF IInv, Cached, CachedSubjectTrue
<1> QED BY <1>1, Invariance, PTL
=============================================================================

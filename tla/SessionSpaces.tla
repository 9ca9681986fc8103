--------------------------- MODULE SessionSpaces ----------------------------
(***************************************************************************)
(* The sessionspaces controller (sessionspaces/src/main.rs): every tick it *)
(* fetches the sessions from ISPyB and LDAP, merges the static ones, and   *)
(* brings namespaces and their ConfigMap in line with what changed since   *)
(* the sessions it remembers (current_sessions, in memory only).           *)
(*                                                                         *)
(* Abstractions.  A session is its ISPyB row (with its members) and what   *)
(* LDAP knows of it; the fields are copied into the ConfigMap unchanged.   *)
(* The names are visited in any order (the code: in name order).           *)
(***************************************************************************)
EXTENDS SourceBounds, Naturals

CONSTANTS
    Names,        \* session names, which are the namespaces' names
    StaticNames,  \* sessions of the static sessions file
    Rows,         \* what ISPyB may say of a session
    Groups,       \* what LDAP may say of a session
    MaxRestarts   \* bound: restarts of the controller

ASSUME StaticAreNames == StaticNames \subseteq Names
ASSUME BoundsNat == MaxChanges \in Nat /\ MaxFaults \in Nat /\ MaxRestarts \in Nat
ASSUME NoneIsNoRow == None \notin Rows /\ None \notin Names

VARIABLES
    ispyb,     \* ispyb[n]: the row of session n, or None
    ldap,      \* ldap[n]: the group of session n
    ns,        \* ns[n]: "absent", "active" or "terminating"
    cm,        \* cm[n]: the session the ConfigMap of namespace n describes
    current,   \* current_sessions
    new,       \* new_sessions of this round
    rows,      \* the rows read by this round's fetch
    todo,      \* to_update: names this round has still to visit
    at,        \* the name update_sessionspace is working on, or None
    pc,        \* the await the controller is suspended at
    restarts,  \* counter for the bound
    missing,   \* history: names ISPyB lacked at some moment since the last tick
    damaged    \* history: names a fault or a race left in doubt

sources == <<ispyb, ldap, changes>>
cluster == <<ns, cm>>
round == <<new, rows, todo, at, pc>>
counters == <<faults, restarts>>
vars == <<sources, cluster, current, round, counters, missing, damaged>>

Session(r, g) == [row |-> r, group |-> g]
StaticSession == Session("static", "static")
Sessions == [row: Rows, group: Groups] \cup {StaticSession}

ASSUME NoneIsNoSession == None \notin Sessions

\* Every variable has its type.
TypeOK ==
    /\ ispyb \in [Names -> Rows \cup {None}]
    /\ ldap \in [Names -> Groups]
    /\ ns \in [Names -> {"absent", "active", "terminating"}]
    /\ cm \in [Names -> Sessions \cup {None}]
    /\ current \in [Names -> Sessions \cup {None}]
    /\ new \in [Names -> Sessions \cup {None}]
    /\ rows \in [Names -> Rows \cup {None}]
    /\ todo \in SUBSET Names
    /\ at \in Names \cup {None}
    /\ pc \in {"sleep", "ispyb", "ldap", "update", "delete", "create", "configure"}
    /\ changes \in Nat /\ faults \in Nat /\ restarts \in Nat
    /\ missing \in SUBSET Names /\ damaged \in SUBSET Names

(***************************************************************************)
(* A round: tick, fetch, update.                                           *)
(***************************************************************************)

Tick ==
    /\ pc = "sleep"
    /\ pc' = "ispyb"
    /\ missing' = {n \in Names : ispyb[n] = None}
    /\ UNCHANGED <<sources, cluster, current, new, rows, todo, at, counters, damaged>>

\* BasicInfo, DirectSubjects and ProposalSubjects.
FetchIspyb ==
    /\ pc = "ispyb"
    /\ rows' = ispyb
    /\ pc' = "ldap"
    /\ UNCHANGED <<sources, cluster, current, new, todo, at, counters, missing, damaged>>

\* Mutant: a session without row is built all the same.
WantedUnchecked(n) == Session(rows[n], ldap[n])

\* Mutant: static sessions are left out.
FetchedOnly(n) == IF rows[n] = None THEN None ELSE Session(rows[n], ldap[n])

\* Sessions::new, then merge_into: an ISPyB session takes precedence.
Wanted(n) ==
    IF rows[n] # None THEN Session(rows[n], ldap[n])
    ELSE IF n \in StaticNames THEN StaticSession ELSE None

\* InstrumentSubjects and SessionPosixAttributes; then update_sessionspaces.
FetchLdap ==
    /\ pc = "ldap"
    /\ new' = [n \in Names |-> Wanted(n)]
    /\ todo' = {n \in Names : current[n] # None \/ Wanted(n) # None}
    /\ pc' = "update"
    /\ UNCHANGED <<sources, cluster, current, rows, at, counters, missing, damaged>>

\* Mutant: a failed fetch passes for an empty one.
FetchFailsEmpty ==
    /\ pc \in {"ispyb", "ldap"}
    /\ faults < MaxFaults
    /\ faults' = faults + 1
    /\ new' = [n \in Names |-> None]
    /\ todo' = {n \in Names : current[n] # None}
    /\ pc' = "update"
    /\ UNCHANGED <<sources, cluster, current, rows, at, restarts, missing, damaged>>

\* A failed fetch is logged, and nothing changes until the next tick.
FetchFails ==
    /\ pc \in {"ispyb", "ldap"}
    /\ faults < MaxFaults
    /\ faults' = faults + 1
    /\ pc' = "sleep"
    /\ UNCHANGED <<sources, cluster, current, new, rows, todo, at, restarts, missing, damaged>>

\* Mutant: a change of a session is not recognised as one.
NeverConfigure(n) ==
    IF new[n] = None THEN "delete" ELSE IF current[n] = None THEN "create" ELSE "update"

\* The match of update_sessionspace: what is to be done for n.
Todo(n) ==
    CASE current[n] # None /\ new[n] = None -> "delete"
      [] current[n] = None /\ new[n] # None -> "create"
      [] current[n] # None /\ new[n] # None /\ current[n] # new[n] -> "configure"
      [] OTHER -> "update"

UpdateSessionspace(n) ==
    /\ pc = "update"
    /\ n \in todo
    /\ todo' = todo \ {n}
    /\ pc' = Todo(n)
    /\ at' = IF Todo(n) = "update" THEN None ELSE n
    /\ UNCHANGED <<sources, cluster, current, new, rows, counters, missing, damaged>>

RoundEnds ==
    /\ pc = "update" /\ todo = {}
    /\ pc' = "sleep"
    /\ UNCHANGED <<sources, cluster, current, new, rows, todo, at, counters, missing, damaged>>

(***************************************************************************)
(* The requests, each applied by the API server or not.                    *)
(***************************************************************************)

\* DELETE starts the termination of a namespace that is there.
Terminated(n) == IF ns[n] = "active" THEN "terminating" ELSE ns[n]

\* delete_namespace: a namespace that does not exist is fine.
DeleteNamespace ==
    /\ pc = "delete"
    /\ ns' = [ns EXCEPT ![at] = Terminated(at)]
    /\ current' = [current EXCEPT ![at] = None]
    /\ damaged' = damaged \ {at}
    /\ pc' = "update" /\ at' = None
    /\ UNCHANGED <<sources, cm, new, rows, todo, counters, missing>>

\* create_namespace: server-side apply, also on a namespace that terminates.
CreateNamespace ==
    /\ pc = "create"
    /\ ns' = [ns EXCEPT ![at] = IF @ = "absent" THEN "active" ELSE @]
    /\ pc' = "configure"
    /\ UNCHANGED <<sources, cm, current, new, rows, todo, at, counters, missing, damaged>>

\* A terminating namespace takes changes of what it has, and nothing new.
Configurable(n) == ns[n] = "active" \/ (ns[n] = "terminating" /\ cm[n] # None)

\* create_configmap, and the session is remembered.
CreateConfigmap ==
    /\ pc = "configure"
    /\ Configurable(at)
    /\ cm' = [cm EXCEPT ![at] = new[at]]
    /\ current' = [current EXCEPT ![at] = new[at]]
    /\ damaged' = IF ns[at] = "active" THEN damaged \ {at} ELSE damaged \cup {at}
    /\ pc' = "update" /\ at' = None
    /\ UNCHANGED <<sources, ns, new, rows, todo, counters, missing>>

\* Mutant: memory is brought up to date before the requests succeed.
GiveUpAndForget ==
    /\ current' = [current EXCEPT ![at] = new[at]]
    /\ pc' = "update" /\ at' = None
    /\ UNCHANGED <<sources, new, rows, todo, restarts, missing>>

\* An error ends the work on this name; current_sessions keeps its old entry.
GiveUp ==
    /\ pc' = "update" /\ at' = None
    /\ UNCHANGED <<sources, current, new, rows, todo, restarts, missing>>

\* The API server refuses the ConfigMap: its namespace is gone or going.
ConfigmapRefused ==
    /\ pc = "configure"
    /\ ~Configurable(at)
    /\ GiveUp
    /\ UNCHANGED <<cluster, faults, damaged>>

\* A request fails, having been applied or not.
RequestFails ==
    /\ pc \in {"delete", "create", "configure"}
    /\ faults < MaxFaults
    /\ faults' = faults + 1
    /\ \/ UNCHANGED cluster
       \/ pc = "delete" /\ ns' = [ns EXCEPT ![at] = Terminated(at)] /\ UNCHANGED cm
       \/ pc = "create" /\ ns' = [ns EXCEPT ![at] = IF @ = "absent" THEN "active" ELSE @] /\ UNCHANGED cm
       \/ pc = "configure" /\ Configurable(at) /\ cm' = [cm EXCEPT ![at] = new[at]] /\ UNCHANGED ns
    /\ damaged' = IF pc = "configure" \/ cluster' # cluster THEN damaged \cup {at} ELSE damaged
    /\ GiveUp

(***************************************************************************)
(* Everything else that moves.                                             *)
(***************************************************************************)

\* The namespace controller removes the content, then the namespace.
ContentGone(n) ==
    /\ ns[n] = "terminating" /\ cm[n] # None
    /\ cm' = [cm EXCEPT ![n] = None]
    /\ UNCHANGED <<sources, ns, current, round, counters, missing, damaged>>

NamespaceGone(n) ==
    /\ ns[n] = "terminating" /\ cm[n] = None
    /\ ns' = [ns EXCEPT ![n] = "absent"]
    /\ UNCHANGED <<sources, cm, current, round, counters, missing, damaged>>

SourceChanges(n) ==
    /\ changes < MaxChanges
    /\ changes' = changes + 1
    /\ \/ /\ \E r \in Rows \cup {None} : r # ispyb[n] /\ ispyb' = [ispyb EXCEPT ![n] = r]
          /\ missing' = IF ispyb'[n] = None THEN missing \cup {n} ELSE missing
          /\ UNCHANGED ldap
       \/ /\ \E g \in Groups : g # ldap[n] /\ ldap' = [ldap EXCEPT ![n] = g]
          /\ UNCHANGED <<ispyb, missing>>
    /\ UNCHANGED <<cluster, current, round, counters, damaged>>

\* The process starts again and remembers nothing.
Restart ==
    /\ restarts < MaxRestarts
    /\ restarts' = restarts + 1
    /\ current' = [n \in Names |-> None]
    /\ new' = [n \in Names |-> None]
    /\ rows' = [n \in Names |-> None]
    /\ todo' = {} /\ at' = None /\ pc' = "sleep"
    /\ damaged' = damaged \cup {n \in Names : ns[n] = "active"}
    /\ UNCHANGED <<sources, cluster, faults, missing>>

Init ==
    /\ ispyb = [n \in Names |-> None]
    /\ ldap \in [Names -> Groups]
    /\ ns = [n \in Names |-> "absent"]
    /\ cm = [n \in Names |-> None]
    /\ current = [n \in Names |-> None]
    /\ new = [n \in Names |-> None]
    /\ rows = [n \in Names |-> None]
    /\ todo = {} /\ at = None /\ pc = "sleep"
    /\ changes = 0 /\ faults = 0 /\ restarts = 0
    /\ missing = {} /\ damaged = {}

Controller ==
    \/ Tick \/ FetchIspyb \/ FetchLdap \/ RoundEnds
    \/ \E n \in Names : UpdateSessionspace(n)
    \/ DeleteNamespace \/ CreateNamespace \/ CreateConfigmap \/ ConfigmapRefused

Garbage(n) == ContentGone(n) \/ NamespaceGone(n)

Next ==
    \/ Controller \/ FetchFails \/ RequestFails \/ Restart
    \/ \E n \in Names : Garbage(n) \/ SourceChanges(n)

Spec == Init /\ [][Next]_vars

\* The loop runs on (tokio's interval fires, requests end), and the cluster
\* finishes what it began to delete.
FairSpec == Spec /\ WF_vars(Controller) /\ \A n \in Names : WF_vars(Garbage(n))

(***************************************************************************)
(* Properties.                                                             *)
(***************************************************************************)

\* What the sources ask for now.
Desired(n) ==
    IF ispyb[n] # None THEN Session(ispyb[n], ldap[n])
    ELSE IF n \in StaticNames THEN StaticSession ELSE None

InSync(n) ==
    IF Desired(n) = None THEN ns[n] = "absent"
    ELSE ns[n] = "active" /\ cm[n] = Desired(n)

\* The memory the next round's decisions rest on is true: a remembered session
\* has its namespace and exactly that ConfigMap, and any other name has no
\* namespace, except while n is being worked on and where a failed request, a
\* patch of a terminating namespace or a restart has left n in doubt.
MemoryTrue ==
    \A n \in Names : n # at /\ n \notin damaged =>
        IF current[n] = None THEN ns[n] # "active"
        ELSE ns[n] = "active" /\ cm[n] = current[n]

\* A namespace is deleted only if ISPyB lacked its session at some moment since
\* the round began, and never if the session is static: not because a fetch
\* failed, a restart forgot, or a name was visited late.
DeletedOnlyIfGone ==
    [][\A n \in Names : ns[n] = "active" /\ ns'[n] # "active" =>
          n \in missing /\ n \notin StaticNames]_vars

\* "static sessions to always be present" (main.rs): once there, a static
\* session's namespace stays and never loses its ConfigMap, whatever ISPyB does.
StaticStays ==
    [][\A n \in StaticNames : ns[n] = "active" /\ cm[n] # None =>
          ns'[n] = "active" /\ cm'[n] # None]_vars

\* Once sources and faults are quiet, every name not left in doubt gets the
\* namespace and the ConfigMap its session asks for, or loses them.
Converges == <>[](\A n \in Names : n \in damaged \/ InSync(n))

\* What the README promises: "Creates, deletes, or updates namespaces with the
\* session names derived from the ISPyB tables", periodically, "to maintain an
\* up-to-date session namespaces".
Reconciled == <>[](\A n \in Names : InSync(n))
=============================================================================

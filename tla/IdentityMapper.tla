--------------------------- MODULE IdentityMapper ---------------------------
(***************************************************************************)
(* identity-mapper (identity_mapper/*.py): a CronJob that makes the        *)
(* cluster's UserIdentity objects say what LDAP says.  One pass at a time; *)
(* a pass that raises is started again.                                    *)
(***************************************************************************)
EXTENDS Ldap

\* "No value" is not a UserIdentity, and there are groups to be primary.
ASSUME NoneIsNoIdentity == None \notin [gid: GroupNames, supplementalGroups: SUBSET GroupNames]
ASSUME SomeGroup == GroupNames # {}

VARIABLES
    identities,  \* identities[s]: the UserIdentity of s, or None
    pass         \* the pass under way

Identity(primary, supplemental) == [gid |-> primary, supplementalGroups |-> supplemental]

\* The identity of s from its people entry and the groups of the second search;
\* the primary group is not repeated.
LdapIdentity(s, users, gs) ==
    Identity(users[s], {g \in DOMAIN gs : gs[g] # None /\ s \in gs[g] /\ g # users[s]})

NoUsers == [s \in Subjects |-> None]
Asleep == [step |-> "asleep"]
Absent == [s \in Subjects |-> people[s] = None]    \* history: who was not there
Returned(entries, found) == [k \in DOMAIN entries |-> IF k \in found THEN entries[k] ELSE None]
Fault == faults < MaxFaults /\ faults' = faults + 1

\* The first search.  ldap3 does not raise if the server refuses or stops at its
\* size limit: no entries, or some.
SearchPeople ==
    /\ pass.step = "asleep"
    /\ \/ pass' = [step |-> "groups", users |-> people, gone |-> Absent, answered |-> TRUE] /\ UNCHANGED faults
       \/ /\ Fault
          /\ \E found \in SUBSET Subjects :
               pass' = [step |-> "groups", users |-> Returned(people, found), gone |-> Absent, answered |-> FALSE]
    /\ UNCHANGED <<ldapEntries, changes, identities>>

\* The second search, left out if the first found nobody.
SearchGroups ==
    /\ pass.step = "groups"
    /\ \E found \in SUBSET GroupNames :
         /\ IF found = GroupNames \/ pass.users = NoUsers THEN UNCHANGED faults ELSE Fault
         /\ pass' = [step |-> "list", users |-> pass.users, gone |-> pass.gone, answered |-> pass.answered,
                     data |-> [s \in Subjects |-> IF pass.users[s] = None THEN None
                                                  ELSE LdapIdentity(s, pass.users, Returned(groups, found))]]
    /\ UNCHANGED <<ldapEntries, changes, identities>>

\* Mutant: an object that is there is taken to be right.
NeverStale(s) == FALSE

\* to_update.
Stale(s) == pass.data[s] # None /\ identities[s] # None /\ pass.data[s] # identities[s]

\* lookup_identities_in_kubernetes, and the three sets of the sync.
ListIdentities ==
    /\ pass.step = "list"
    /\ pass' = [step |-> "create", users |-> pass.users, gone |-> pass.gone, answered |-> pass.answered, data |-> pass.data,
                todo |-> [create |-> {s \in Subjects : pass.data[s] # None /\ identities[s] = None},
                          delete |-> {s \in Subjects : pass.data[s] = None /\ identities[s] # None},
                          update |-> {s \in Subjects : Stale(s)}]]
    /\ UNCHANGED <<ldapEntries, changes, identities, faults>>

\* Mutant: what differs is deleted, to be made again by the next pass.
DeleteStale(s) == IF pass.step = "update" THEN None ELSE pass.data[s]

\* The object s gets from the pass: created, deleted (None) or patched.
Applied(s) == pass.data[s]

\* One request of the sync: creates, then deletes, then updates.
Sync(s) ==
    /\ pass.step \in {"create", "delete", "update"} /\ s \in pass.todo[pass.step]
    /\ identities' = [identities EXCEPT ![s] = Applied(s)]
    /\ pass' = [pass EXCEPT !.todo[pass.step] = @ \ {s}]
    /\ UNCHANGED <<ldapEntries, changes, faults>>

SyncStep ==
    /\ pass.step \in {"create", "delete", "update"} /\ pass.todo[pass.step] = {}
    /\ pass' = CASE pass.step = "create" -> [pass EXCEPT !.step = "delete"]
                 [] pass.step = "delete" -> [pass EXCEPT !.step = "update"]
                 [] OTHER -> Asleep
    /\ UNCHANGED <<ldapEntries, changes, identities, faults>>

\* A request fails, applied or not: the exception ends the pass.
PassFails ==
    /\ pass.step \in {"list", "create", "delete", "update"}
    /\ Fault
    /\ \/ UNCHANGED identities
       \/ \E s \in Subjects : /\ pass.step # "list" /\ s \in pass.todo[pass.step]
                              /\ identities' = [identities EXCEPT ![s] = Applied(s)]
    /\ pass' = Asleep
    /\ UNCHANGED <<ldapEntries, changes>>

Pass == SearchPeople \/ SearchGroups \/ ListIdentities \/ SyncStep \/ \E s \in Subjects : Sync(s)

\* A UserIdentity goes away only if the search did not return its person; if it was
\* answered in full, that is because the person was not there at that moment.
IdentitiesKept ==
    [][\A s \in Subjects : identities[s] # None /\ identities'[s] = None =>
          pass.users[s] = None /\ (pass.answered => pass.gone[s])]_<<identities, pass>>
=============================================================================

----------------------------- MODULE Directory ------------------------------
(***************************************************************************)
(* sessionspaces' fetch and identity-mapper on one LDAP directory.         *)
(* Neither writes what the other reads: a behaviour has one of the two.    *)
(***************************************************************************)
EXTENDS Permissionables, IdentityMapper

directoryVars == <<ispybTables, ldapEntries, changes, fetch, hist, identities, pass, faults>>
mapper == <<identities, pass, faults>>

Off == [step |-> "off"]

DirectoryInit ==
    /\ people \in [Subjects -> {None, CHOOSE g \in GroupNames : TRUE}]
    /\ groups \in [GroupNames -> {None, {}, Subjects}]
    /\ changes = 0
    /\ blSession = [i \in Ids |-> [proposal |-> CHOOSE p \in Proposals : TRUE, instrument |-> <<"i15", 1>>,
                                   usable |-> TRUE]]
    /\ direct = [i \in Ids |-> {}] /\ onProposal = [p \in Proposals |-> {}]
    /\ hist = NoHistory
    /\ identities = NoUsers /\ faults = 0
    /\ \/ fetch = Idle /\ pass = Off
       \/ fetch = Off /\ pass = Asleep

SourcesChange ==
    /\ \/ LdapChanges /\ UNCHANGED ispybTables
       \/ fetch # Off /\ IspybChanges /\ UNCHANGED ldapEntries
    /\ Noted
    /\ UNCHANGED <<fetch, mapper>>

DirectoryNext ==
    \/ fetch # Off /\ Fetch /\ UNCHANGED mapper
    \/ (Pass \/ PassFails) /\ UNCHANGED <<ispybTables, fetch, hist>>
    \/ SourcesChange

\* The CronJob starts a pass every half hour, and again one that raised.
DirectorySpec ==
    /\ DirectoryInit /\ [][DirectoryNext]_directoryVars
    /\ WF_directoryVars(Pass /\ UNCHANGED <<ispybTables, fetch, hist>>)

\* Once LDAP is quiet and nothing fails, the objects say what it says.
Synced == <>[](pass = Off \/ \A s \in Subjects :
                  identities[s] = IF people[s] = None THEN None ELSE LdapIdentity(s, people, groups))
=============================================================================

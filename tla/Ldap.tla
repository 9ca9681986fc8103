------------------------------- MODULE Ldap ---------------------------------
(***************************************************************************)
(* The LDAP directory (external) as sessionspaces and identity-mapper      *)
(* read it: people with their primary group, groups with their members.    *)
(* It changes while they read, one entry at a time.                        *)
(***************************************************************************)
EXTENDS SourceBounds, Instruments, FiniteSets

CONSTANTS
    Subjects,    \* logins
    GroupNames   \* groups: of instruments, and <<"session", c>>: a session's, its name written with c

ASSUME MaxChangesNat == MaxChanges \in Nat

VARIABLES
    people,   \* people[s]: the primary group of s, or None
    groups    \* groups[g]: the members of g, or None

ldapEntries == <<people, groups>>

Change == changes < MaxChanges /\ changes' = changes + 1

\* A person comes, goes or gets another primary group.
PersonChanges(s) ==
    /\ Change
    /\ \E p \in {None} \cup GroupNames : p # people[s] /\ people' = [people EXCEPT ![s] = p]
    /\ UNCHANGED groups

\* Somebody joins or leaves a group.
MembershipChanges(g, s) ==
    /\ Change
    /\ groups[g] # None
    /\ groups' = [groups EXCEPT ![g] = IF s \in @ THEN @ \ {s} ELSE @ \cup {s}]
    /\ UNCHANGED people

LdapChanges == \E s \in Subjects : PersonChanges(s) \/ \E g \in GroupNames : MembershipChanges(g, s)
=============================================================================

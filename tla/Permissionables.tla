-------------------------- MODULE Permissionables ---------------------------
(***************************************************************************)
(* What a session is and who may enter it (sessionspaces/src/              *)
(* permissionables/*.rs): Sessions::fetch asks ISPyB three questions and   *)
(* LDAP two, one after the other, while both change, and Sessions::new     *)
(* puts the answers together.                                              *)
(*                                                                         *)
(* Abstractions.  A session's name stands for its id.  A row is its        *)
(* proposal, its instrument and whether its other fields are usable.       *)
(***************************************************************************)
EXTENDS Ldap, Sequences, Functions

CONSTANTS
    Ids,           \* sessions
    Proposals,     \* proposals
    StaticEntries  \* the static sessions file: a sequence of [visits, members]

VARIABLES
    blSession,  \* blSession[i]: the row of session i, or None
    direct,     \* direct[i]: the people of session i (Session_has_Person)
    onProposal, \* onProposal[p]: the people of proposal p (ProposalHasPerson)
    fetch,      \* the fetch under way, or its result
    hist        \* history: what was the case during the fetch

ispybTables == <<blSession, direct, onProposal>>

\* BasicInfo::try_from: a row with a field that is missing, zero or malformed is
\* left out.
BasicInfo(rows) == [i \in {j \in Ids : rows[j] # None /\ rows[j].usable} |-> rows[i]]

\* InstrumentSubjects::fetch: groups of other names are skipped.
InstrumentSubjects(i) ==
    UNION {groups[g] : g \in {h \in GroupNames \cap InstrumentGroup : groups[h] # None /\ i \in AllowedInstruments(h)}}

\* SessionPosixAttributes::fetch: the names written with _ and with - are one; of
\* two groups of one name the last in the answer counts.
PosixAttributes == {g \in GroupNames : g[1] = "session" /\ groups[g] # None}

\* Mutant: people of the proposal that has the number of the session.
MembersById(info, i, d, p, ins) == d[i] \cup p[i] \cup ins[info[i].instrument]

\* Sessions::new: the union of the three ways to be a member.
Members(info, i, d, p, ins) == d[i] \cup p[info[i].proposal] \cup ins[info[i].instrument]

\* StaticSessions::from_path: one session for each visit of each entry; a later
\* entry replaces an earlier one.
FromPath ==
    LET listed == UNION {StaticEntries[k].visits : k \in DOMAIN StaticEntries}
        last(i) == CHOOSE k \in DOMAIN StaticEntries :
                      /\ i \in StaticEntries[k].visits
                      /\ \A l \in DOMAIN StaticEntries : i \in StaticEntries[l].visits => l <= k
    IN  [i \in listed |-> [members |-> StaticEntries[last(i)].members, gid |-> None, directory |-> TRUE]]

\* Mutant: static sessions take precedence.
StaticFirst(sessions) == [i \in DOMAIN sessions \cup DOMAIN FromPath |->
                             IF i \in DOMAIN FromPath THEN FromPath[i] ELSE sessions[i]]

\* merge_into.
MergeInto(sessions) == [i \in DOMAIN sessions \cup DOMAIN FromPath |->
                           IF i \in DOMAIN sessions THEN sessions[i] ELSE FromPath[i]]

(***************************************************************************)
(* The fetch.                                                              *)
(***************************************************************************)

Ways == {"direct", "proposal", "staff"}

\* The ways in which s is entitled to session i now.
WaysOf(i, s) ==
    IF blSession[i] = None THEN {}
    ELSE {w \in Ways : CASE w = "direct" -> s \in direct[i]
                         [] w = "proposal" -> s \in onProposal[blSession[i].proposal]
                         [] OTHER -> s \in InstrumentSubjects(blSession[i].instrument)}

WaysNow == [i \in Ids |-> [s \in Subjects |-> WaysOf(i, s)]]

Idle == [step |-> "idle"]
NoHistory == [ever |-> <<>>, always |-> <<>>, moved |-> {}]

FetchBasicInfo ==
    /\ fetch.step = "idle"
    /\ fetch' = [step |-> "direct", info |-> BasicInfo(blSession)]
    /\ hist' = [ever |-> WaysNow, always |-> WaysNow, moved |-> {}]
    /\ UNCHANGED <<ispybTables, ldapEntries, changes>>

FetchDirect ==
    /\ fetch.step = "direct"
    /\ fetch' = [step |-> "proposal", info |-> fetch.info, direct |-> direct]
    /\ UNCHANGED <<ispybTables, ldapEntries, changes, hist>>

FetchProposal ==
    /\ fetch.step = "proposal"
    /\ fetch' = [step |-> "instrument", info |-> fetch.info, direct |-> fetch.direct, proposal |-> onProposal]
    /\ UNCHANGED <<ispybTables, ldapEntries, changes, hist>>

\* Of the answer only the instruments of the sessions matter.
FetchInstrument ==
    /\ fetch.step = "instrument"
    /\ LET ins == [x \in {fetch.info[i].instrument : i \in DOMAIN fetch.info} |-> InstrumentSubjects(x)] IN
       fetch' = [step |-> "posix", info |-> fetch.info,
                 members |-> [i \in DOMAIN fetch.info |->
                                 Members(fetch.info, i, fetch.direct, fetch.proposal, ins)]]
    /\ UNCHANGED <<ispybTables, ldapEntries, changes, hist>>

\* The last answer; then Sessions::new and the static sessions.
FetchPosix ==
    /\ fetch.step = "posix"
    /\ \E gid \in IF PosixAttributes = {} THEN {None} ELSE PosixAttributes :
         fetch' = [step |-> "done", info |-> fetch.info,
                   sessions |-> MergeInto([i \in DOMAIN fetch.info |->
                                              [members |-> fetch.members[i], gid |-> gid,
                                               directory |-> HasDirectory(fetch.info[i].instrument)]])]
    /\ UNCHANGED <<ispybTables, ldapEntries, changes, hist>>

\* A question that fails ends the fetch; otherwise its result is used up.
FetchOver ==
    /\ fetch.step # "idle"
    /\ fetch' = Idle /\ hist' = NoHistory
    /\ UNCHANGED <<ispybTables, ldapEntries, changes>>

Fetch == FetchBasicInfo \/ FetchDirect \/ FetchProposal \/ FetchInstrument \/ FetchPosix \/ FetchOver

\* ISPyB (external): a row changes; somebody joins or leaves.
RowChanges(i) ==
    /\ Change
    /\ \E r \in {None} \cup [proposal: Proposals, instrument: {<<"i15", 1>>, <<"b01", 0>>}, usable: BOOLEAN] :
         r # blSession[i] /\ blSession' = [blSession EXCEPT ![i] = r]
    /\ UNCHANGED <<direct, onProposal>>

PeopleChange(s) ==
    /\ Change
    /\ \/ /\ \E i \in Ids : direct' = [direct EXCEPT ![i] = IF s \in @ THEN @ \ {s} ELSE @ \cup {s}]
          /\ UNCHANGED onProposal
       \/ /\ \E p \in Proposals : onProposal' = [onProposal EXCEPT ![p] = IF s \in @ THEN @ \ {s} ELSE @ \cup {s}]
          /\ UNCHANGED direct
    /\ UNCHANGED blSession

IspybChanges == (\E i \in Ids : RowChanges(i)) \/ \E s \in Subjects : PeopleChange(s)

\* History of a fetch under way, after a change of the sources.
Noted ==
    hist' = IF fetch.step \in {"off", "idle", "done"} THEN hist
            ELSE [ever |-> [i \in Ids |-> [s \in Subjects |-> hist.ever[i][s] \cup WaysNow'[i][s]]],
                  always |-> [i \in Ids |-> [s \in Subjects |-> hist.always[i][s] \cap WaysNow'[i][s]]],
                  moved |-> hist.moved \cup {i \in Ids : blSession'[i] # blSession[i]}]

\* Five questions, one membership.  Of a session whose row stayed the same during
\* the fetch: nobody is a member who was not entitled at some moment of it, and
\* everybody is who was entitled throughout in one way.  (Somebody handed over
\* from one way to another between two questions can be missed; a session that
\* moved can be given people who were never entitled to it.)  A static session of
\* the name does not count.
MembershipSound ==
    fetch.step = "done" => \A i \in DOMAIN fetch.info \ hist.moved : \A s \in Subjects :
        /\ s \in fetch.sessions[i].members => hist.ever[i][s] # {}
        /\ hist.always[i][s] # {} => s \in fetch.sessions[i].members
=============================================================================

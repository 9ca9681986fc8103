-------------------------- MODULE Sessions_proofs ---------------------------
(***************************************************************************)
(* Safety of sessionspaces and of identity-mapper for any sessions, rows,  *)
(* people, groups and bounds: first the loop that keeps the namespaces     *)
(* (SessionSpaces), then what the fetch and identity-mapper make of        *)
(* sources that change while they read (Directory).                        *)
(*                                                                         *)
(* SessionSpaces.  None of the properties is inductive.  What a round may  *)
(* do to a name was decided when its rows were read and when the name was  *)
(* visited, so the invariant carries those decisions along: Working says   *)
(* what the match of update_sessionspace has established about the name in *)
(* hand, Fetched ties the rows and sessions of the round to the moments    *)
(* ISPyB lacked them, and AtWork is MemoryTrue for the name in hand, which *)
(* MemoryTrue itself leaves out.                                           *)
(*                                                                         *)
(* Directory.  MembershipSound speaks of the end of a fetch.  The          *)
(* invariant says at each of its questions what the answers so far have to *)
(* do with the history: what is the case now lies between "always" and     *)
(* "ever" (Now), a session that did not move still has the row that was    *)
(* read (RowsKept), and each answer, of its own way to be a member, lies   *)
(* between them as well (DirectAnswer, ProposalAnswer, AllAnswers).  For   *)
(* IdentitiesKept a pass carries along that whoever it has no data of was  *)
(* not found.                                                              *)
(***************************************************************************)
EXTENDS SessionSpaces, Directory, TLAPS

\* The awaits between the start of a round's updates and its end.
Updating == {"update", "delete", "create", "configure"}

\* What is known of the name in hand at each await.
Working ==
    /\ pc \notin {"delete", "create", "configure"} => at = None
    /\ pc \in {"delete", "create", "configure"} => at \in Names
    /\ pc = "delete" => new[at] = None
    /\ pc \in {"create", "configure"} => new[at] # None

\* A name without row, and without session, was missing from ISPyB at some moment
\* of the round.
Fetched ==
    /\ pc # "sleep" => \A n \in Names : ispyb[n] = None => n \in missing
    /\ pc = "ldap" => \A n \in Names : rows[n] = None => n \in missing
    /\ pc \in Updating => \A n \in Names : new[n] = None => n \in missing /\ n \notin StaticNames

\* The memory of one name is true.
Recalled(n) ==
    IF current[n] = None THEN ns[n] # "active"
    ELSE ns[n] = "active" /\ cm[n] = current[n]

\* The name in hand: its memory is true up to the creation of its namespace.
AtWork ==
    /\ pc \in {"delete", "create"} /\ at \notin damaged => Recalled(at)
    /\ pc = "configure" /\ at \notin damaged /\ current[at] # None => Recalled(at)
    /\ pc = "create" => current[at] = None

IInv == TypeOK /\ Working /\ Fetched /\ AtWork /\ MemoryTrue

-----------------------------------------------------------------------------

\* Sessions::new and merge_into build a session or none: none only where ISPyB had
\* no row, and never of a static name.
LEMMA WantedType ==
    ASSUME TypeOK, NEW n \in Names
    PROVE  /\ Wanted(n) \in Sessions \cup {None}
           /\ Wanted(n) = None => rows[n] = None /\ n \notin StaticNames
  BY NoneIsNoSession DEF TypeOK, Wanted, Session, Sessions, StaticSession

\* What the match of update_sessionspace makes of a name.
LEMMA TodoCases ==
    ASSUME NEW n
    PROVE  \/ Todo(n) = "update"
           \/ Todo(n) = "delete" /\ current[n] # None /\ new[n] = None
           \/ Todo(n) = "create" /\ current[n] = None /\ new[n] # None
           \/ Todo(n) = "configure" /\ current[n] # None /\ new[n] # None
  BY DEF Todo

\* The invariant holds initially.
LEMMA InitInv == Init => IInv
  BY StaticAreNames, BoundsNat DEF Init, IInv, TypeOK, Working, Fetched, AtWork, MemoryTrue, Updating, Sessions

\* A type-correct state keeps its type.
LEMMA TypeStep ==
    ASSUME TypeOK, Working, [Next]_vars
    PROVE  TypeOK'
  <1> USE DEF TypeOK, sources, cluster, round, counters
  <1>1. CASE Tick
    BY <1>1 DEF Tick
  <1>2. CASE FetchIspyb
    BY <1>2 DEF FetchIspyb
  <1>3. CASE FetchLdap
    BY <1>3, WantedType DEF FetchLdap
  <1>4. CASE RoundEnds
    BY <1>4 DEF RoundEnds
  <1>5. ASSUME NEW n \in Names, UpdateSessionspace(n) PROVE TypeOK'
    BY <1>5, TodoCases DEF UpdateSessionspace
  <1>6. CASE DeleteNamespace
    BY <1>6 DEF DeleteNamespace, Terminated, Working
  <1>7. CASE CreateNamespace
    BY <1>7 DEF CreateNamespace, Working
  <1>8. CASE CreateConfigmap
    BY <1>8 DEF CreateConfigmap, Working
  <1>9. CASE ConfigmapRefused
    BY <1>9 DEF ConfigmapRefused, GiveUp
  <1>10. CASE FetchFails
    BY <1>10 DEF FetchFails
  <1>11. CASE RequestFails
    BY <1>11 DEF RequestFails, GiveUp, Terminated, Working
  <1>12. CASE Restart
    BY <1>12 DEF Restart
  <1>13. ASSUME NEW n \in Names, Garbage(n) PROVE TypeOK'
    BY <1>13 DEF Garbage, ContentGone, NamespaceGone
  <1>14. ASSUME NEW n \in Names, SourceChanges(n) PROVE TypeOK'
    BY <1>14 DEF SourceChanges
  <1>15. CASE UNCHANGED vars
    BY <1>15 DEF vars
  <1> QED
    BY <1>1, <1>2, <1>3, <1>4, <1>5, <1>6, <1>7, <1>8, <1>9, <1>10, <1>11, <1>12, <1>13, <1>14, <1>15
    DEF Next, Controller

\* Working and Fetched: a round remembers what it decided, and why.
LEMMA RoundStep ==
    ASSUME TypeOK, Working, Fetched, [Next]_vars
    PROVE  Working' /\ Fetched'
  <1> USE NoneIsNoRow DEF Working, Fetched, Updating, sources, cluster, round, counters
  <1>1. CASE Tick
    BY <1>1 DEF Tick
  <1>2. CASE FetchIspyb
    BY <1>2 DEF FetchIspyb
  <1>3. CASE FetchLdap
    BY <1>3, WantedType DEF FetchLdap
  <1>4. CASE RoundEnds
    BY <1>4 DEF RoundEnds
  <1>5. ASSUME NEW n \in Names, UpdateSessionspace(n) PROVE Working' /\ Fetched'
    BY <1>5, TodoCases DEF UpdateSessionspace
  <1>6. CASE DeleteNamespace
    BY <1>6 DEF DeleteNamespace
  <1>7. CASE CreateNamespace
    BY <1>7 DEF CreateNamespace
  <1>8. CASE CreateConfigmap
    BY <1>8 DEF CreateConfigmap
  <1>9. CASE ConfigmapRefused \/ RequestFails
    BY <1>9 DEF ConfigmapRefused, RequestFails, GiveUp
  <1>10. CASE FetchFails
    BY <1>10 DEF FetchFails
  <1>11. CASE Restart
    BY <1>11 DEF Restart
  <1>12. ASSUME NEW n \in Names, Garbage(n) PROVE Working' /\ Fetched'
    BY <1>12 DEF Garbage, ContentGone, NamespaceGone
  <1>13. ASSUME NEW n \in Names, SourceChanges(n) PROVE Working' /\ Fetched'
    BY <1>13 DEF SourceChanges, TypeOK
  <1>14. CASE UNCHANGED vars
    BY <1>14 DEF vars
  <1> QED
    BY <1>1, <1>2, <1>3, <1>4, <1>5, <1>6, <1>7, <1>8, <1>9, <1>10, <1>11, <1>12, <1>13, <1>14
    DEF Next, Controller

\* A step that leaves cluster, memory and the name in hand alone keeps the memory
\* true.
LEMMA MemoryUntouched ==
    ASSUME MemoryTrue, UNCHANGED <<ns, cm, current, at, damaged>>
    PROVE  MemoryTrue'
  BY DEF MemoryTrue

\* The memory of every name, the one in hand included.
LEMMA MemoryStep ==
    ASSUME IInv, [Next]_vars
    PROVE  AtWork' /\ MemoryTrue'
  <1> USE NoneIsNoRow DEF IInv, Working, AtWork, Recalled, sources, cluster, round, counters
  <1>1. CASE Tick \/ FetchIspyb \/ FetchLdap \/ RoundEnds \/ FetchFails
    BY <1>1, MemoryUntouched DEF Tick, FetchIspyb, FetchLdap, RoundEnds, FetchFails
  <1>2. ASSUME NEW n \in Names, UpdateSessionspace(n) PROVE AtWork' /\ MemoryTrue'
    BY <1>2, TodoCases DEF UpdateSessionspace, MemoryTrue
  <1>3. CASE DeleteNamespace
    BY <1>3 DEF DeleteNamespace, Terminated, TypeOK, MemoryTrue
  <1>4. CASE CreateNamespace
    BY <1>4 DEF CreateNamespace, TypeOK, MemoryTrue
  <1>5. CASE CreateConfigmap
    BY <1>5 DEF CreateConfigmap, TypeOK, MemoryTrue
  <1>6. CASE ConfigmapRefused
    BY <1>6 DEF ConfigmapRefused, Configurable, GiveUp, TypeOK, MemoryTrue
  <1>7. CASE RequestFails
    BY <1>7 DEF RequestFails, GiveUp, Terminated, TypeOK, MemoryTrue
  <1>8. CASE Restart
    BY <1>8 DEF Restart, TypeOK, MemoryTrue
  <1>9. ASSUME NEW n \in Names, Garbage(n) PROVE AtWork' /\ MemoryTrue'
    BY <1>9 DEF Garbage, ContentGone, NamespaceGone, TypeOK, MemoryTrue
  <1>10. ASSUME NEW n \in Names, SourceChanges(n) PROVE AtWork' /\ MemoryTrue'
    BY <1>10, MemoryUntouched DEF SourceChanges
  <1>11. CASE UNCHANGED vars
    BY <1>11, MemoryUntouched DEF vars
  <1> QED
    BY <1>1, <1>2, <1>3, <1>4, <1>5, <1>6, <1>7, <1>8, <1>9, <1>10, <1>11 DEF Next, Controller

\* The inductive invariant.
LEMMA Invariant == Spec => []IInv
  <1>1. IInv /\ [Next]_vars => IInv'
    BY TypeStep, RoundStep, MemoryStep DEF IInv
  <1> QED
    BY <1>1, InitInv, PTL DEF Spec

-----------------------------------------------------------------------------

\* Every variable of the controller keeps its type (main.rs).
THEOREM TypeCorrect == Spec => []TypeOK
  BY Invariant, PTL DEF IInv

\* For any number of sessions, faults, restarts and changes: what current_sessions
\* says is so (update_sessionspace), except where a failed request, a patch of a
\* terminating namespace or a restart has left a name in doubt.
THEOREM MemoryTrueHolds == Spec => []MemoryTrue
  BY Invariant, PTL DEF IInv

\* Which step can take a namespace away: a deletion, of the name in hand.
LEMMA DeletionStep ==
    ASSUME IInv, [Next]_vars, NEW n \in Names, ns[n] = "active", ns'[n] # "active"
    PROVE  pc = "delete" /\ n = at
  <1> USE DEF IInv, Working, TypeOK, sources, cluster, round, counters
  <1>1. CASE Tick \/ FetchIspyb \/ FetchLdap \/ RoundEnds \/ FetchFails \/ Restart
    BY <1>1 DEF Tick, FetchIspyb, FetchLdap, RoundEnds, FetchFails, Restart
  <1>2. CASE DeleteNamespace \/ CreateNamespace
    BY <1>2 DEF DeleteNamespace, CreateNamespace, Terminated
  <1>3. CASE CreateConfigmap \/ ConfigmapRefused \/ RequestFails
    BY <1>3 DEF CreateConfigmap, ConfigmapRefused, RequestFails
  <1>4. CASE \E m \in Names : UpdateSessionspace(m) \/ Garbage(m) \/ SourceChanges(m)
    BY <1>4 DEF UpdateSessionspace, Garbage, ContentGone, NamespaceGone, SourceChanges
  <1> QED
    BY <1>1, <1>2, <1>3, <1>4 DEF Next, Controller, vars

\* Which step can take a ConfigMap away: the removal of a terminating namespace.
LEMMA ConfigMapStep ==
    ASSUME IInv, [Next]_vars, NEW n \in Names, cm[n] # None, cm'[n] = None
    PROVE  ns[n] = "terminating"
  <1> USE DEF IInv, Working, TypeOK, sources, cluster, round, counters
  <1>1. CASE Tick \/ FetchIspyb \/ FetchLdap \/ RoundEnds \/ FetchFails \/ Restart
    BY <1>1 DEF Tick, FetchIspyb, FetchLdap, RoundEnds, FetchFails, Restart
  <1>2. CASE DeleteNamespace \/ CreateNamespace
    BY <1>2 DEF DeleteNamespace, CreateNamespace
  <1>3. CASE CreateConfigmap \/ ConfigmapRefused \/ RequestFails
    BY <1>3 DEF CreateConfigmap, ConfigmapRefused, RequestFails
  <1>4. CASE \E m \in Names : UpdateSessionspace(m) \/ Garbage(m) \/ SourceChanges(m)
    BY <1>4 DEF UpdateSessionspace, Garbage, ContentGone, NamespaceGone, SourceChanges
  <1> QED
    BY <1>1, <1>2, <1>3, <1>4 DEF Next, Controller, vars

\* No failed fetch, restart or late visit makes update_sessionspace delete a
\* namespace: ISPyB lacked its session during the round, and it is not static.
THEOREM DeletedOnlyIfGoneHolds == Spec => DeletedOnlyIfGone
  <1>1. IInv /\ [Next]_vars =>
          \A n \in Names : ns[n] = "active" /\ ns'[n] # "active" => n \in missing /\ n \notin StaticNames
    BY DeletionStep DEF IInv, Working, Fetched, Updating
  <1> QED
    BY <1>1, Invariant, PTL DEF Spec, DeletedOnlyIfGone

\* merge_into: a static session's namespace, once it is complete, stays complete.
THEOREM StaticStaysHolds == Spec => StaticStays
  <1>1. IInv /\ [Next]_vars =>
          \A n \in StaticNames : ns[n] = "active" /\ cm[n] # None => ns'[n] = "active" /\ cm'[n] # None
    BY DeletionStep, ConfigMapStep, StaticAreNames DEF IInv, Working, Fetched, Updating
  <1> QED
    BY <1>1, Invariant, PTL DEF Spec, StaticStays

(***************************************************************************)
(* The fetch and identity-mapper.                                          *)
(***************************************************************************)

UnderWay == {"direct", "proposal", "instrument", "posix"}
Steps == UnderWay \cup {"off", "idle", "done"}

\* The history is of the sessions and the people.
HistoryOK ==
    /\ fetch.step \in Steps
    /\ fetch.step \in UnderWay =>
         /\ hist.ever \in [Ids -> [Subjects -> SUBSET Ways]]
         /\ hist.always \in [Ids -> [Subjects -> SUBSET Ways]]

\* What holds now has held at some moment; what has always held holds now.
Now ==
    fetch.step \in UnderWay => \A i \in Ids : \A s \in Subjects :
        /\ WaysOf(i, s) \subseteq hist.ever[i][s]
        /\ hist.always[i][s] \subseteq WaysOf(i, s)

\* A session that did not move has the row the fetch has read.
RowsKept ==
    fetch.step \in UnderWay =>
        /\ DOMAIN fetch.info \subseteq Ids
        /\ \A i \in DOMAIN fetch.info \ hist.moved : blSession[i] = fetch.info[i] /\ blSession[i] # None

\* A set of members that has the people of one way between "always" and "ever".
Between(w, i, s, isMember) ==
    /\ isMember => w \in hist.ever[i][s]
    /\ w \in hist.always[i][s] => isMember

\* The answer to the second question.
DirectAnswer ==
    fetch.step \in {"proposal", "instrument"} =>
        \A i \in DOMAIN fetch.info \ hist.moved : \A s \in Subjects :
            Between("direct", i, s, s \in fetch.direct[i])

\* The answer to the third.
ProposalAnswer ==
    fetch.step = "instrument" =>
        \A i \in DOMAIN fetch.info \ hist.moved : \A s \in Subjects :
            Between("proposal", i, s, s \in fetch.proposal[fetch.info[i].proposal])

\* The three put together.
AllAnswers ==
    fetch.step = "posix" =>
        \A i \in DOMAIN fetch.info \ hist.moved : \A s \in Subjects :
            /\ s \in fetch.members[i] => hist.ever[i][s] # {}
            /\ hist.always[i][s] # {} => s \in fetch.members[i]

FetchInv ==
    /\ HistoryOK /\ Now /\ RowsKept
    /\ DirectAnswer /\ ProposalAnswer /\ AllAnswers
    /\ MembershipSound

-----------------------------------------------------------------------------

\* The ways to be a member are the three, and each is what its source says.
LEMMA WaysMeaning ==
    ASSUME NEW i, NEW s
    PROVE  /\ WaysOf(i, s) \subseteq Ways
           /\ blSession[i] # None =>
                /\ "direct" \in WaysOf(i, s) <=> s \in direct[i]
                /\ "proposal" \in WaysOf(i, s) <=> s \in onProposal[blSession[i].proposal]
                /\ "staff" \in WaysOf(i, s) <=> s \in InstrumentSubjects(blSession[i].instrument)
  BY DEF WaysOf, Ways

\* Nobody's ways change while the sources do not.
LEMMA WaysUnchanged ==
    ASSUME UNCHANGED <<ispybTables, groups>>, NEW i, NEW s
    PROVE  WaysOf(i, s)' = WaysOf(i, s)
  BY DEF WaysOf, ispybTables, InstrumentSubjects, Ways

\* WaysNow tabulates WaysOf.
LEMMA WaysTable ==
    /\ WaysNow \in [Ids -> [Subjects -> SUBSET Ways]]
    /\ \A i \in Ids : \A s \in Subjects : WaysNow[i][s] = WaysOf(i, s)
  BY WaysMeaning DEF WaysNow

-----------------------------------------------------------------------------

\* No fetch has anything to show for yet.
LEMMA InitFetch == DirectoryInit => FetchInv
  BY DEF DirectoryInit, FetchInv, HistoryOK, Now, RowsKept, DirectAnswer, ProposalAnswer, AllAnswers, MembershipSound,
         Idle, Off, UnderWay, Steps

\* The first question: the history begins with what is the case.
LEMMA BasicInfoStep ==
    ASSUME FetchInv, FetchBasicInfo
    PROVE  FetchInv'
  <1>1. /\ fetch'.step = "direct" /\ fetch'.info = BasicInfo(blSession)
        /\ hist'.ever = WaysNow /\ hist'.always = WaysNow /\ hist'.moved = {}
        /\ blSession' = blSession
    BY DEF FetchBasicInfo, ispybTables
  <1>2. \A i \in Ids : \A s \in Subjects : WaysOf(i, s)' = WaysOf(i, s)
    BY WaysUnchanged DEF FetchBasicInfo, ldapEntries
  <1>3. HistoryOK'
    BY <1>1, WaysTable DEF HistoryOK, Steps, UnderWay
  <1>4. Now'
    BY <1>1, <1>2, WaysTable DEF Now
  <1>5. RowsKept'
    BY <1>1 DEF RowsKept, BasicInfo
  <1>6. QED
    BY <1>1, <1>3, <1>4, <1>5 DEF FetchInv, DirectAnswer, ProposalAnswer, AllAnswers, MembershipSound

\* The second: who is on the session now is so in the direct way.
LEMMA DirectStep ==
    ASSUME FetchInv, FetchDirect
    PROVE  FetchInv'
  <1>1. /\ fetch.step = "direct"
        /\ fetch'.step = "proposal" /\ fetch'.info = fetch.info /\ fetch'.direct = direct
        /\ hist' = hist /\ blSession' = blSession
    BY DEF FetchDirect, ispybTables
  <1>2. \A i \in Ids : \A s \in Subjects : WaysOf(i, s)' = WaysOf(i, s)
    BY WaysUnchanged DEF FetchDirect, ldapEntries
  <1>3. HistoryOK' /\ Now' /\ RowsKept'
    BY <1>1, <1>2 DEF FetchInv, HistoryOK, Now, RowsKept, Steps, UnderWay
  <1>4. DirectAnswer'
    <2> SUFFICES ASSUME NEW i \in DOMAIN fetch.info \ hist.moved, NEW s \in Subjects
                 PROVE  /\ s \in direct[i] => "direct" \in hist.ever[i][s]
                        /\ "direct" \in hist.always[i][s] => s \in direct[i]
      BY <1>1 DEF DirectAnswer, Between
    <2>1. i \in Ids /\ blSession[i] # None
      BY <1>1 DEF FetchInv, RowsKept, UnderWay
    <2>2. WaysOf(i, s) \subseteq hist.ever[i][s] /\ hist.always[i][s] \subseteq WaysOf(i, s)
      BY <1>1, <2>1 DEF FetchInv, Now, UnderWay
    <2>3. QED
      BY <2>1, <2>2, WaysMeaning
  <1>5. QED
    BY <1>1, <1>3, <1>4 DEF FetchInv, ProposalAnswer, AllAnswers, MembershipSound

\* The third: who is on the proposal of the row that was read, which is still the
\* session's if it did not move.
LEMMA ProposalStep ==
    ASSUME FetchInv, FetchProposal
    PROVE  FetchInv'
  <1>1. /\ fetch.step = "proposal"
        /\ fetch'.step = "instrument" /\ fetch'.info = fetch.info
        /\ fetch'.direct = fetch.direct /\ fetch'.proposal = onProposal
        /\ hist' = hist /\ blSession' = blSession
    BY DEF FetchProposal, ispybTables
  <1>2. \A i \in Ids : \A s \in Subjects : WaysOf(i, s)' = WaysOf(i, s)
    BY WaysUnchanged DEF FetchProposal, ldapEntries
  <1>3. HistoryOK' /\ Now' /\ RowsKept' /\ DirectAnswer'
    BY <1>1, <1>2 DEF FetchInv, HistoryOK, Now, RowsKept, DirectAnswer, Between, Steps, UnderWay
  <1>4. ProposalAnswer'
    <2> SUFFICES ASSUME NEW i \in DOMAIN fetch.info \ hist.moved, NEW s \in Subjects
                 PROVE  /\ s \in onProposal[fetch.info[i].proposal] => "proposal" \in hist.ever[i][s]
                        /\ "proposal" \in hist.always[i][s] => s \in onProposal[fetch.info[i].proposal]
      BY <1>1 DEF ProposalAnswer, Between
    <2>1. i \in Ids /\ blSession[i] = fetch.info[i] /\ blSession[i] # None
      BY <1>1 DEF FetchInv, RowsKept, UnderWay
    <2>2. WaysOf(i, s) \subseteq hist.ever[i][s] /\ hist.always[i][s] \subseteq WaysOf(i, s)
      BY <1>1, <2>1 DEF FetchInv, Now, UnderWay
    <2>3. QED
      BY <2>1, <2>2, WaysMeaning
  <1>5. QED
    BY <1>1, <1>3, <1>4 DEF FetchInv, AllAnswers, MembershipSound

\* The fourth: the staff of the row's instrument, and the union of the three.
LEMMA InstrumentStep ==
    ASSUME FetchInv, FetchInstrument
    PROVE  FetchInv'
  <1> DEFINE ins == [x \in {fetch.info[i].instrument : i \in DOMAIN fetch.info} |-> InstrumentSubjects(x)]
             mem == [i \in DOMAIN fetch.info |-> Members(fetch.info, i, fetch.direct, fetch.proposal, ins)]
  <1>1. /\ fetch.step = "instrument"
        /\ fetch'.step = "posix" /\ fetch'.info = fetch.info /\ fetch'.members = mem
        /\ hist' = hist /\ blSession' = blSession
    BY DEF FetchInstrument, ispybTables
  <1>2. \A i \in Ids : \A s \in Subjects : WaysOf(i, s)' = WaysOf(i, s)
    BY WaysUnchanged DEF FetchInstrument, ldapEntries
  <1>3. \A i \in DOMAIN fetch.info : mem[i] = fetch.direct[i] \cup fetch.proposal[fetch.info[i].proposal]
                                                \cup InstrumentSubjects(fetch.info[i].instrument)
    BY DEF Members
  <1> HIDE DEF mem, ins
  <1>4. HistoryOK' /\ Now' /\ RowsKept'
    BY <1>1, <1>2 DEF FetchInv, HistoryOK, Now, RowsKept, Steps, UnderWay
  <1>5. AllAnswers'
    <2> SUFFICES ASSUME NEW i \in DOMAIN fetch.info \ hist.moved, NEW s \in Subjects
                 PROVE  /\ s \in mem[i] => hist.ever[i][s] # {}
                        /\ hist.always[i][s] # {} => s \in mem[i]
      BY <1>1 DEF AllAnswers
    <2>1. i \in Ids /\ blSession[i] = fetch.info[i] /\ blSession[i] # None
      BY <1>1 DEF FetchInv, RowsKept, UnderWay
    <2>2. WaysOf(i, s) \subseteq hist.ever[i][s] /\ hist.always[i][s] \subseteq WaysOf(i, s)
      BY <1>1, <2>1 DEF FetchInv, Now, UnderWay
    <2>3. Between("direct", i, s, s \in fetch.direct[i])
      BY <1>1 DEF FetchInv, DirectAnswer
    <2>4. Between("proposal", i, s, s \in fetch.proposal[fetch.info[i].proposal])
      BY <1>1 DEF FetchInv, ProposalAnswer
    <2>5. "staff" \in WaysOf(i, s) <=> s \in InstrumentSubjects(fetch.info[i].instrument)
      BY <2>1, WaysMeaning
    <2>6. hist.always[i][s] \subseteq {"direct", "proposal", "staff"}
      BY <2>2, WaysMeaning DEF Ways
    <2>7. QED
      BY <1>3, <2>2, <2>3, <2>4, <2>5, <2>6 DEF Between
  <1>6. QED
    BY <1>1, <1>4, <1>5 DEF FetchInv, DirectAnswer, ProposalAnswer, MembershipSound

\* The fifth: a session that ISPyB has keeps its members, whatever the static
\* sessions file says of the name.
LEMMA PosixStep ==
    ASSUME FetchInv, FetchPosix
    PROVE  FetchInv'
  <1>1. PICK gid : fetch' = [step |-> "done", info |-> fetch.info,
                   sessions |-> MergeInto([i \in DOMAIN fetch.info |->
                                              [members |-> fetch.members[i], gid |-> gid,
                                               directory |-> HasDirectory(fetch.info[i].instrument)]])]
    BY DEF FetchPosix
  <1>2. fetch.step = "posix" /\ fetch'.step = "done" /\ fetch'.info = fetch.info /\ hist' = hist
    BY <1>1 DEF FetchPosix
  <1>3. \A i \in DOMAIN fetch.info : fetch'.sessions[i].members = fetch.members[i]
    BY <1>1 DEF MergeInto
  <1>4. MembershipSound'
    BY <1>2, <1>3 DEF FetchInv, AllAnswers, MembershipSound
  <1>5. QED
    BY <1>2, <1>4 DEF FetchInv, HistoryOK, Now, RowsKept, DirectAnswer, ProposalAnswer, AllAnswers, Steps, UnderWay

\* A fetch that is over has nothing to show.
LEMMA OverStep ==
    ASSUME FetchInv, FetchOver
    PROVE  FetchInv'
  BY DEF FetchOver, Idle, FetchInv, HistoryOK, Now, RowsKept, DirectAnswer, ProposalAnswer, AllAnswers,
         MembershipSound, Steps, UnderWay

\* A change of the sources during a fetch: "ever" grows by what is the case then,
\* "always" shrinks to it, and a session whose row changed has moved.
LEMMA SourcesStep ==
    ASSUME FetchInv, SourcesChange
    PROVE  FetchInv'
  <1>1. fetch' = fetch
    BY DEF SourcesChange
  <1>2. CASE fetch.step \notin UnderWay
    <2>1. hist' = hist
      BY <1>2 DEF SourcesChange, Noted, FetchInv, HistoryOK, Steps
    <2>2. QED
      BY <1>1, <1>2, <2>1 DEF FetchInv, HistoryOK, Now, RowsKept, DirectAnswer, ProposalAnswer, AllAnswers,
         MembershipSound, Steps, UnderWay
  <1>3. CASE fetch.step \in UnderWay
    <2> DEFINE W == WaysNow'
    <2>1. /\ hist'.ever = [i \in Ids |-> [s \in Subjects |-> hist.ever[i][s] \cup W[i][s]]]
          /\ hist'.always = [i \in Ids |-> [s \in Subjects |-> hist.always[i][s] \cap W[i][s]]]
          /\ hist'.moved = hist.moved \cup {i \in Ids : blSession'[i] # blSession[i]}
      BY <1>3 DEF SourcesChange, Noted, UnderWay
    <2>2. W = [i \in Ids |-> [s \in Subjects |-> WaysOf(i, s)']]
      BY DEF WaysNow
    <2>3. \A i, s : WaysOf(i, s)' \subseteq Ways
      BY DEF WaysOf, Ways
    <2> HIDE DEF W
    <2>4. \A i \in Ids : \A s \in Subjects :
              /\ hist'.ever[i][s] = hist.ever[i][s] \cup W[i][s]
              /\ hist'.always[i][s] = hist.always[i][s] \cap W[i][s]
      BY <2>1
    <2>5. HistoryOK'
      <3>1. /\ hist.ever \in [Ids -> [Subjects -> SUBSET Ways]]
            /\ hist.always \in [Ids -> [Subjects -> SUBSET Ways]]
        BY <1>3 DEF FetchInv, HistoryOK
      <3>2. \A i \in Ids : \A s \in Subjects :
                /\ hist.ever[i][s] \cup W[i][s] \in SUBSET Ways
                /\ hist.always[i][s] \cap W[i][s] \in SUBSET Ways
        BY <3>1, <2>2, <2>3
      <3>3. /\ hist'.ever \in [Ids -> [Subjects -> SUBSET Ways]]
            /\ hist'.always \in [Ids -> [Subjects -> SUBSET Ways]]
        BY <3>2, <2>1
      <3>4. QED
        BY <3>3, <1>1 DEF FetchInv, HistoryOK, Ways
    <2>6. Now'
      <3> SUFFICES ASSUME NEW i \in Ids, NEW s \in Subjects
                   PROVE  /\ WaysOf(i, s)' \subseteq hist'.ever[i][s]
                          /\ hist'.always[i][s] \subseteq WaysOf(i, s)'
        BY DEF Now
      <3> QED
        BY <2>2, <2>4
    <2>7. RowsKept'
      BY <1>1, <1>3, <2>1 DEF FetchInv, RowsKept
    <2>8. \A i \in DOMAIN fetch.info \ hist'.moved : i \in Ids /\ i \in DOMAIN fetch.info \ hist.moved
      BY <1>3, <2>1 DEF FetchInv, RowsKept
    <2>9. DirectAnswer'
      BY <1>1, <2>4, <2>8 DEF FetchInv, DirectAnswer, Between
    <2>10. ProposalAnswer'
      BY <1>1, <2>4, <2>8 DEF FetchInv, ProposalAnswer, Between
    <2>11. AllAnswers'
      BY <1>1, <2>4, <2>8 DEF FetchInv, AllAnswers
    <2>12. MembershipSound'
      BY <1>1, <1>3 DEF MembershipSound, UnderWay
    <2>13. QED
      BY <2>5, <2>6, <2>7, <2>9, <2>10, <2>11, <2>12 DEF FetchInv
  <1>4. QED
    BY <1>2, <1>3

\* identity-mapper touches neither the sources nor the fetch.
LEMMA QuietStep ==
    ASSUME FetchInv, UNCHANGED <<ispybTables, groups, fetch, hist>>
    PROVE  FetchInv'
  <1>1. \A i \in Ids : \A s \in Subjects : WaysOf(i, s)' = WaysOf(i, s)
    BY WaysUnchanged
  <1>2. fetch' = fetch /\ hist' = hist /\ blSession' = blSession
    BY DEF ispybTables
  <1>3. QED
    BY <1>1, <1>2 DEF FetchInv, HistoryOK, Now, RowsKept, DirectAnswer, ProposalAnswer, AllAnswers, Between,
                      MembershipSound, Steps, UnderWay, Ways

\* Every step keeps the invariant.
LEMMA FetchStep ==
    ASSUME FetchInv, [DirectoryNext]_directoryVars
    PROVE  FetchInv'
  <1>1. CASE Fetch
    BY <1>1, BasicInfoStep, DirectStep, ProposalStep, InstrumentStep, PosixStep, OverStep DEF Fetch
  <1>2. CASE (Pass \/ PassFails) /\ UNCHANGED <<ispybTables, fetch, hist>>
    <2>1. UNCHANGED groups
      BY <1>2 DEF Pass, PassFails, SearchPeople, SearchGroups, ListIdentities, SyncStep, Sync, ldapEntries
    <2>2. QED
      BY <1>2, <2>1, QuietStep
  <1>3. CASE SourcesChange
    BY <1>3, SourcesStep
  <1>4. CASE UNCHANGED directoryVars
    BY <1>4, QuietStep DEF directoryVars, ldapEntries
  <1>5. QED
    BY <1>1, <1>2, <1>3, <1>4 DEF DirectoryNext

\* Sessions::fetch asks five questions while ISPyB and LDAP change: of a session
\* whose row stayed, nobody becomes a member who was not entitled at some moment
\* of the fetch, and everybody does who was entitled throughout in one way.
THEOREM MembershipSoundHolds == DirectorySpec => []MembershipSound
  <1>1. DirectoryInit => FetchInv
    BY InitFetch
  <1>2. FetchInv /\ [DirectoryNext]_directoryVars => FetchInv'
    BY FetchStep
  <1>3. FetchInv => MembershipSound
    BY DEF FetchInv
  <1>4. QED
    BY <1>1, <1>2, <1>3, PTL DEF DirectorySpec

-----------------------------------------------------------------------------

UserIdentities == [gid: GroupNames, supplementalGroups: SUBSET GroupNames]

\* The steps of a pass that know their people, those that have their data, and
\* those that have something to do.
Searched == {"groups", "list", "create", "delete", "update"}
Prepared == {"list", "create", "delete", "update"}
Syncing == {"create", "delete", "update"}

\* Types of the directory's people and of the objects.
MapperOK ==
    /\ people \in [Subjects -> {None} \cup GroupNames] /\ DOMAIN groups = GroupNames
    /\ identities \in [Subjects -> {None} \cup UserIdentities]
    /\ pass.step \in {"off", "asleep"} \cup Searched
    /\ pass.step \in Searched => pass.users \in [Subjects -> {None} \cup GroupNames]
    /\ pass.step \in Prepared => pass.data \in [Subjects -> {None} \cup UserIdentities]
    /\ pass.step \in Syncing => DOMAIN pass = {"step", "users", "gone", "answered", "data", "todo"}

\* Whom an answered search did not find was not there.
NotFound ==
    pass.step \in Searched /\ pass.answered => \A s \in Subjects : pass.users[s] = None => pass.gone[s]

\* A pass without data of somebody has not found them.
NoData ==
    pass.step \in Prepared => \A s \in Subjects : pass.data[s] = None => pass.users[s] = None

PassInv == MapperOK /\ NotFound /\ NoData

\* An identity built from an entry is a UserIdentity, and not "no value".
LEMMA IdentityType ==
    ASSUME NEW s \in Subjects, NEW users \in [Subjects -> {None} \cup GroupNames], users[s] # None,
           NEW gs, DOMAIN gs = GroupNames
    PROVE  LdapIdentity(s, users, gs) \in UserIdentities /\ LdapIdentity(s, users, gs) # None
  BY NoneIsNoIdentity DEF LdapIdentity, Identity, UserIdentities

\* The pass sleeps or is off.
LEMMA InitPass == DirectoryInit => PassInv
  BY SomeGroup DEF DirectoryInit, PassInv, MapperOK, NotFound, NoData, NoUsers, Asleep, Off, Searched, Prepared, Syncing

\* The first search: not answered in full, it returns some of the people.
LEMMA SearchPeopleStep ==
    ASSUME PassInv, SearchPeople
    PROVE  PassInv'
  <1>1. /\ people' = people /\ groups' = groups /\ identities' = identities
        /\ pass'.step = "groups"
        /\ pass'.gone = [s \in Subjects |-> people[s] = None]
        /\ \/ pass'.users = people
           \/ pass'.answered = FALSE /\ \E found \in SUBSET Subjects : pass'.users = Returned(people, found)
    BY DEF SearchPeople, Absent, ldapEntries
  <1>2. \A found \in SUBSET Subjects : Returned(people, found) \in [Subjects -> {None} \cup GroupNames]
    BY DEF Returned, PassInv, MapperOK
  <1>3. pass'.users \in [Subjects -> {None} \cup GroupNames]
    BY <1>1, <1>2 DEF PassInv, MapperOK
  <1>4. MapperOK'
    BY <1>1, <1>3 DEF PassInv, MapperOK, Searched, Prepared, Syncing
  <1>5. NotFound' /\ NoData'
    BY <1>1 DEF NotFound, NoData, Prepared
  <1>6. QED
    BY <1>4, <1>5 DEF PassInv

\* The second search: there is data of everybody who was found, whatever groups
\* it finds.
LEMMA SearchGroupsStep ==
    ASSUME PassInv, SearchGroups
    PROVE  PassInv'
  <1>1. PICK found \in SUBSET GroupNames :
            pass' = [step |-> "list", users |-> pass.users, gone |-> pass.gone, answered |-> pass.answered,
                     data |-> [s \in Subjects |-> IF pass.users[s] = None THEN None
                                                  ELSE LdapIdentity(s, pass.users, Returned(groups, found))]]
    BY DEF SearchGroups
  <1> DEFINE gs == Returned(groups, found)
  <1>2. DOMAIN gs = GroupNames
    BY DEF PassInv, MapperOK, Returned
  <1>3. /\ pass.step = "groups" /\ people' = people /\ groups' = groups /\ identities' = identities
        /\ pass'.step = "list" /\ pass'.users = pass.users
        /\ pass'.gone = pass.gone /\ pass'.answered = pass.answered
    BY <1>1 DEF SearchGroups, ldapEntries
  <1> HIDE DEF gs
  <1>4. pass.users \in [Subjects -> {None} \cup GroupNames]
    BY <1>3 DEF PassInv, MapperOK, Searched
  <1>5. \A s \in Subjects : pass.users[s] # None =>
            LdapIdentity(s, pass.users, gs) \in UserIdentities /\ LdapIdentity(s, pass.users, gs) # None
    BY <1>2, <1>4, IdentityType
  <1>6. /\ pass'.data \in [Subjects -> {None} \cup UserIdentities]
        /\ \A s \in Subjects : pass'.data[s] = None => pass.users[s] = None
    BY <1>1, <1>5 DEF gs
  <1>7. QED
    BY <1>3, <1>4, <1>6 DEF PassInv, MapperOK, NotFound, NoData, Searched, Prepared, Syncing, UserIdentities

\* A step that keeps what the pass has found, or ends it, and gives nobody an object
\* but the one it has data for.
LEMMA SyncingStep ==
    ASSUME PassInv, people' = people, groups' = groups,
           identities' \in [Subjects -> {None} \cup UserIdentities],
           \/ pass' = Asleep
           \/ /\ pass.step \in Prepared /\ pass'.step \in Prepared
              /\ pass'.users = pass.users /\ pass'.data = pass.data
              /\ pass'.gone = pass.gone /\ pass'.answered = pass.answered
              /\ DOMAIN pass' = {"step", "users", "gone", "answered", "data", "todo"}
    PROVE  PassInv'
  <1>1. CASE pass' = Asleep
    BY <1>1 DEF Asleep, PassInv, MapperOK, NotFound, NoData, Searched, Prepared, Syncing, UserIdentities
  <1>2. CASE pass' # Asleep
    BY <1>2 DEF PassInv, MapperOK, NotFound, NoData, Searched, Prepared, Syncing, UserIdentities
  <1>3. QED
    BY <1>1, <1>2

\* What a request does to the objects: one of them becomes what the data says.
LEMMA AppliedType ==
    ASSUME PassInv, pass.step \in Prepared, NEW s \in Subjects,
           identities' = [identities EXCEPT ![s] = Applied(s)]
    PROVE  /\ identities' \in [Subjects -> {None} \cup UserIdentities]
           /\ \A r \in Subjects : identities[r] # None /\ identities'[r] = None =>
                  pass.users[r] = None /\ (pass.answered => pass.gone[r])
  <1>1. /\ identities \in [Subjects -> {None} \cup UserIdentities]
        /\ pass.data[s] \in {None} \cup UserIdentities
    BY DEF PassInv, MapperOK
  <1>2. pass.data[s] = None => pass.users[s] = None /\ (pass.answered => pass.gone[s])
    BY DEF PassInv, NotFound, NoData, Searched, Prepared, Syncing
  <1>3. QED
    BY <1>1, <1>2 DEF Applied

\* The pass keeps what it found when a request or a phase is done.
LEMMA SyncKeeps ==
    ASSUME PassInv, pass.step \in Syncing
    PROVE  \A p : \/ \E s : p = [pass EXCEPT !.todo[pass.step] = @ \ {s}]
                  \/ \E t \in Syncing : p = [pass EXCEPT !.step = t]
              => /\ p.step \in Prepared /\ p.users = pass.users /\ p.data = pass.data
                 /\ p.gone = pass.gone /\ p.answered = pass.answered
                 /\ DOMAIN p = {"step", "users", "gone", "answered", "data", "todo"}
  <1>1. DOMAIN pass = {"step", "users", "gone", "answered", "data", "todo"}
    BY DEF PassInv, MapperOK
  <1>2. QED
    BY <1>1 DEF Syncing, Prepared

\* A UserIdentity that goes away in a step.
Vanish == \A s \in Subjects : identities[s] # None /\ identities'[s] = None => pass.users[s] = None /\ (pass.answered => pass.gone[s])

\* Every step keeps the invariant and takes away nobody's identity without reason.
LEMMA PassStep ==
    ASSUME PassInv, [DirectoryNext]_directoryVars
    PROVE  PassInv' /\ Vanish
  <1>1. CASE SearchPeople
    BY <1>1, SearchPeopleStep DEF SearchPeople, Vanish
  <1>2. CASE SearchGroups
    BY <1>2, SearchGroupsStep DEF SearchGroups, Vanish
  <1>3. CASE ListIdentities
    <2>1. /\ people' = people /\ groups' = groups /\ identities' = identities
          /\ pass.step \in Prepared /\ pass'.step \in Prepared
          /\ pass'.users = pass.users /\ pass'.data = pass.data
          /\ pass'.gone = pass.gone /\ pass'.answered = pass.answered
      BY <1>3 DEF ListIdentities, ldapEntries, Prepared
    <2>2. DOMAIN pass' = {"step", "users", "gone", "answered", "data", "todo"}
      BY <1>3 DEF ListIdentities
    <2>3. identities' \in [Subjects -> {None} \cup UserIdentities]
      BY <2>1 DEF PassInv, MapperOK
    <2>4. QED
      BY <2>1, <2>2, <2>3, SyncingStep DEF Vanish
  <1>4. ASSUME NEW s \in Subjects, Sync(s)
        PROVE  PassInv' /\ Vanish
    <2>1. /\ people' = people /\ groups' = groups /\ pass.step \in Syncing /\ pass.step \in Prepared
          /\ identities' = [identities EXCEPT ![s] = Applied(s)]
          /\ pass' = [pass EXCEPT !.todo[pass.step] = @ \ {s}]
      BY <1>4 DEF Sync, ldapEntries, Syncing, Prepared
    <2>2. QED
      BY <2>1, SyncKeeps, AppliedType, SyncingStep DEF Vanish
  <1>5. CASE SyncStep
    <2>1. /\ people' = people /\ groups' = groups /\ identities' = identities
          /\ pass.step \in Syncing /\ pass.step \in Prepared
          /\ \/ \E t \in Syncing : pass' = [pass EXCEPT !.step = t]
             \/ pass' = Asleep
      BY <1>5 DEF SyncStep, ldapEntries, Syncing, Prepared
    <2>2. identities' \in [Subjects -> {None} \cup UserIdentities]
      BY <2>1 DEF PassInv, MapperOK
    <2>3. QED
      BY <2>1, <2>2, SyncKeeps, SyncingStep DEF Vanish
  <1>6. CASE PassFails
    <2>1. /\ people' = people /\ groups' = groups /\ pass.step \in Prepared /\ pass' = Asleep
          /\ \/ identities' = identities
             \/ \E s \in Subjects : identities' = [identities EXCEPT ![s] = Applied(s)]
      BY <1>6 DEF PassFails, ldapEntries, Prepared
    <2>2. identities \in [Subjects -> {None} \cup UserIdentities]
      BY DEF PassInv, MapperOK
    <2>3. QED
      BY <2>1, <2>2, AppliedType, SyncingStep DEF Vanish
  <1>7. CASE UNCHANGED <<ldapEntries, mapper>>
    BY <1>7 DEF ldapEntries, mapper, PassInv, MapperOK, NotFound, NoData, Vanish
  <1>8. CASE SourcesChange
    <2>1. identities' = identities /\ pass' = pass
      BY <1>8 DEF SourcesChange, mapper
    <2>2. people' \in [Subjects -> {None} \cup GroupNames] /\ DOMAIN groups' = GroupNames
      BY <1>8 DEF SourcesChange, LdapChanges, PersonChanges, MembershipChanges, ldapEntries, PassInv, MapperOK
    <2>3. QED
      BY <2>1, <2>2 DEF PassInv, MapperOK, NotFound, NoData, Vanish
  <1>9. CASE Fetch /\ UNCHANGED mapper
    BY <1>7, <1>9 DEF Fetch, FetchBasicInfo, FetchDirect, FetchProposal, FetchInstrument, FetchPosix, FetchOver
  <1>10. CASE UNCHANGED directoryVars
    BY <1>7, <1>10 DEF directoryVars, mapper
  <1>11. QED
    BY <1>1, <1>2, <1>3, <1>4, <1>5, <1>6, <1>8, <1>9, <1>10 DEF DirectoryNext, Pass

\* identity-mapper deletes a UserIdentity only if its search did not return the
\* person, who was then not in LDAP at that moment if it was answered in full;
\* whichever request of a pass fails, and however LDAP changes under it.
THEOREM IdentitiesKeptHolds == DirectorySpec => IdentitiesKept
  <1>1. DirectoryInit => PassInv
    BY InitPass
  <1>2. PassInv /\ [DirectoryNext]_directoryVars => PassInv' /\ Vanish
    BY PassStep
  <1>3. Vanish => [\A s \in Subjects : identities[s] # None /\ identities'[s] = None =>
                       pass.users[s] = None /\ (pass.answered => pass.gone[s])]_<<identities, pass>>
    BY DEF Vanish
  <1>4. QED
    BY <1>1, <1>2, <1>3, PTL DEF DirectorySpec, IdentitiesKept
=============================================================================

------------------------ MODULE WorkflowsCli_proofs -------------------------
(***************************************************************************)
(* workflows-cli for any number of processes, charts and logins.           *)
(*                                                                         *)
(* LintsOwn speaks of the end of a lint.  The invariant says what a lint   *)
(* that has the folder to itself finds there at each of its steps (Finds), *)
(* what it has reported so far in terms of the charts done and the files   *)
(* of this one that are handled (Reported), and that two lints in the      *)
(* folder know of each other (Exclusive), so that nobody else changes what *)
(* one that does not found there.                                          *)
(*                                                                         *)
(* LoginKept: unless a login has raced with it or an answer came without a *)
(* refresh token, one process at most writes the file, and writes the      *)
(* latest token (OneWriter), and until it has done so nobody holds a token *)
(* that the provider would still take (Spent).                             *)
(***************************************************************************)
EXTENDS WorkflowsCli, FiniteSetTheorems, SequenceTheorems, TLAPS

\* The awaits of a lint; while it is at one of InFolder it uses the folder.
InFolder == {"clean", "write", "fill", "list", "name", "argo", "labels"}
LintAt == InFolder \cup {"helm"}
Writing == {"open", "save"}

LintRecs ==
    [at: LintAt, kind: {"lint", "lint-config"}, charts: Seq(DOMAIN Charts), all: Seq(DOMAIN Charts),
     errors: BOOLEAN, old: SUBSET Files, next: Nat, linted: Seq(Templates), shared: BOOLEAN]
Linting(s) == s \in LintRecs /\ (s.at \in InFolder => s.charts # <<>>)
LoginRecs == [at: {"exchange"}, refresh: Nat] \cup [at: Writing, answer: Nat \cup {None}]
Asking(s) == "at" \in DOMAIN s /\ s.at = "ask"
OtherAt == {"idle", "exited", "token", "query"}

\* A process is at an await of one of the commands, with what that await needs.
ProcOK(s) ==
    \/ Linting(s) \/ s \in LoginRecs \/ Asking(s)
    \/ s.at \in OtherAt

Contents == Templates \cup {None, Unparsed}

TypeOK ==
    /\ proc = [p \in Procs |-> proc[p]]
    /\ \A p \in Procs : ProcOK(proc[p])
    /\ folder \in [Files -> Contents]
    /\ issued \in Nat
    /\ cache \in [refresh: 0..issued \cup {None}] \cup {None}

-----------------------------------------------------------------------------

\* Charts hold templates.
LEMMA ChartTemplates ==
    ASSUME NEW c \in DOMAIN Charts
    PROVE  /\ Charts[c] \in Seq(Templates) /\ Len(Charts[c]) \in Nat /\ Len(Charts[c]) <= MaxFiles
           /\ \A i \in 1..Len(Charts[c]) : i \in Files /\ Charts[c][i] \in Templates
  BY ChartsAreLists, BoundsNat DEF Files

\* A record of a lint, a login or a question has the awaits of its command.
LEMMA WhereFrom ==
    ASSUME NEW s, ProcOK(s)
    PROVE  /\ s.at \in LintAt => Linting(s)
           /\ s.at \in Writing => s \in [at: Writing, answer: Nat \cup {None}]
           /\ s.at = "exchange" => s \in [at: {"exchange"}, refresh: Nat]
           /\ s.at = "ask" => Asking(s)
  BY DEF ProcOK, Linting, LintRecs, LoginRecs, Asking, OtherAt, LintAt, InFolder, Writing

\* One process goes to an await, the others stay where they are.
LEMMA Going ==
    ASSUME TypeOK, NEW p \in Procs, NEW s, Goes(p, s), ProcOK(s)
    PROVE  /\ proc' = [q \in Procs |-> proc'[q]]
           /\ proc'[p] = s
           /\ \A q \in Procs \ {p} : proc'[q] = proc[q]
           /\ \A q \in Procs : ProcOK(proc'[q])
  BY DEF TypeOK, Goes

\* A file's content.
LEMMA FolderType ==
    ASSUME TypeOK
    PROVE  DOMAIN folder = Files /\ \A i \in Files : folder[i] \in Contents
  BY DEF TypeOK

\* The exit of a command.
LEMMA Exits == \A n : ProcOK(Exit(n)) /\ Exit(n).at = "exited" /\ "linted" \notin DOMAIN Exit(n)
  BY DEF Exit, ProcOK, OtherAt

\* What is known of a command that has just started.
Started(s) ==
    /\ s.at \in {"helm", "exited", "token", "ask"}
    /\ s.at = "exited" => "linted" \notin DOMAIN s
    /\ s.at = "helm" =>
         \E kind \in {"lint", "lint-config"}, charts \in Seq(DOMAIN Charts) :
             /\ Len(charts) \in {1, 2}
             /\ s = [at |-> "helm", kind |-> kind, charts |-> charts, all |-> charts, errors |-> FALSE,
                     old |-> {}, next |-> 1, linted |-> <<>>, shared |-> FALSE]

LEMMA Starting ==
    ASSUME TypeOK, NEW p \in Procs, Command(p)
    PROVE  /\ TypeOK' /\ UNCHANGED <<folder, cache, login>>
           /\ \A q \in Procs \ {p} : proc'[q] = proc[q]
           /\ Started(proc'[p])
  <1> DEFINE Start(kind, charts) ==
               [at |-> "helm", kind |-> kind, charts |-> charts, all |-> charts, errors |-> FALSE,
                old |-> {}, next |-> 1, linted |-> <<>>, shared |-> FALSE]
  <1>1. ASSUME NEW kind \in {"lint", "lint-config"}, NEW charts \in Seq(DOMAIN Charts), Len(charts) \in {1, 2},
               Lint(p, kind, charts)
        PROVE  /\ TypeOK' /\ UNCHANGED <<folder, cache, login>>
               /\ \A q \in Procs \ {p} : proc'[q] = proc[q]
               /\ Started(proc'[p])
    <2>1. Linting(Start(kind, charts))
      BY DEF Linting, LintRecs, LintAt, InFolder
    <2>2. Goes(p, Start(kind, charts)) /\ UNCHANGED <<folder, cache, login>>
      BY <1>1 DEF Lint, Starts, files
    <2>3. proc'[p] = Start(kind, charts) /\ TypeOK' /\ \A q \in Procs \ {p} : proc'[q] = proc[q]
      BY <2>1, <2>2, Going DEF ProcOK, TypeOK, login
    <2>4. Start(kind, charts).at = "helm"
      OBVIOUS
    <2> HIDE DEF Start
    <2>5. Started(Start(kind, charts))
      BY <1>1, <2>4 DEF Started, Start
    <2> QED
      BY <2>2, <2>3, <2>5
  <1>2. ASSUME NEW s, Starts(p, s), UNCHANGED <<folder, cache, login>>, ProcOK(s), s.at \in {"exited", "token", "ask"},
               s.at = "exited" => "linted" \notin DOMAIN s
        PROVE  /\ TypeOK' /\ UNCHANGED <<folder, cache, login>>
               /\ \A q \in Procs \ {p} : proc'[q] = proc[q]
               /\ Started(proc'[p])
    BY <1>2, Going DEF TypeOK, Starts, login, Started
  <1>3. ASSUME NEW c \in DOMAIN Charts, Lint(p, "lint", <<c>>)
        PROVE  \E kind \in {"lint", "lint-config"}, charts \in Seq(DOMAIN Charts) :
                 Len(charts) \in {1, 2} /\ Lint(p, kind, charts)
    <2>1. <<c>> \in Seq(DOMAIN Charts) /\ Len(<<c>>) = 1
      OBVIOUS
    <2> QED
      BY <1>3, <2>1
  <1>4. ASSUME NEW c \in DOMAIN Charts, NEW d \in DOMAIN Charts, Lint(p, "lint-config", <<c, d>>)
        PROVE  \E kind \in {"lint", "lint-config"}, charts \in Seq(DOMAIN Charts) :
                 Len(charts) \in {1, 2} /\ Lint(p, kind, charts)
    <2>1. <<c, d>> \in Seq(DOMAIN Charts) /\ Len(<<c, d>>) = 2
      OBVIOUS
    <2> QED
      BY <1>4, <2>1
  <1>5. ASSUME NEW c \in DOMAIN Charts, LintManifests(p, Charts[c]) \/ Submit(p, c)
        PROVE  \E n : Starts(p, Exit(n)) /\ UNCHANGED <<folder, cache, login>>
    BY <1>5 DEF LintManifests, Submit, files
  <1>6. CASE TriggerCreate(p)
    <2>1. Starts(p, [at |-> "token"]) /\ UNCHANGED <<folder, cache, login>>
      BY <1>6 DEF TriggerCreate, files
    <2>2. ProcOK([at |-> "token"])
      BY DEF ProcOK, OtherAt
    <2>3. proc'[p] = [at |-> "token"] /\ TypeOK' /\ \A q \in Procs \ {p} : proc'[q] = proc[q]
      BY <2>1, <2>2, Going DEF TypeOK, Starts, login
    <2> QED
      BY <2>1, <2>3 DEF Started
  <1>7. ASSUME NEW flags \in SUBSET ToSet(Parts), Create(p, flags)
        PROVE  \E s : /\ Starts(p, s) /\ UNCHANGED <<folder, cache, login>>
                      /\ ProcOK(s) /\ s.at \in {"exited", "ask"} /\ (s.at = "exited" => "linted" \notin DOMAIN s)
    <2>1. CASE Starts(p, Exit(1))
      BY <2>1, <1>7, Exits DEF Create
    <2>2. CASE Starts(p, [at |-> "ask", rest |-> Parts, flags |-> flags, typed |-> FALSE])
      <3> DEFINE s == [at |-> "ask", rest |-> Parts, flags |-> flags, typed |-> FALSE]
      <3>1. Asking(s) /\ s.at = "ask"
        BY DEF Asking
      <3>2. UNCHANGED <<folder, cache, login>>
        BY <1>7 DEF Create
      <3> HIDE DEF s
      <3> QED
        BY <2>2, <3>1, <3>2 DEF ProcOK, s
    <2> QED
      BY <1>7, <2>1, <2>2 DEF Create
  <1> QED
    BY <1>1, <1>2, <1>3, <1>4, <1>5, <1>6, <1>7, Exits DEF Command

\* The steps of a lint.
LintStep(p) ==
    \/ HelmToManifest(p) \/ CleanFolder(p) \/ WriteManifest(p) \/ ListFolder(p)
    \/ \E i \in DOMAIN folder : LintPath(p, i)
    \/ LintDone(p)

\* The process in hand.
LEMMA LintRec ==
    ASSUME TypeOK, NEW p \in Procs, proc[p].at \in LintAt
    PROVE  /\ Linting(proc[p])
           /\ proc[p] = [at |-> proc[p].at, kind |-> proc[p].kind, charts |-> proc[p].charts, all |-> proc[p].all,
                         errors |-> proc[p].errors, old |-> proc[p].old, next |-> proc[p].next,
                         linted |-> proc[p].linted, shared |-> proc[p].shared]
           /\ proc[p].kind \in {"lint", "lint-config"} /\ proc[p].charts \in Seq(DOMAIN Charts)
           /\ proc[p].all \in Seq(DOMAIN Charts) /\ proc[p].errors \in BOOLEAN
           /\ proc[p].old \in SUBSET Files /\ proc[p].next \in Nat
           /\ proc[p].linted \in Seq(Templates) /\ proc[p].shared \in BOOLEAN
           /\ proc[p].at \in InFolder => proc[p].charts # <<>> /\ Head(proc[p].charts) \in DOMAIN Charts
  <1>1. Linting(proc[p])
    BY WhereFrom DEF TypeOK
  <1>2. proc[p] \in LintRecs
    BY <1>1 DEF Linting
  <1>3. /\ proc[p] = [at |-> proc[p].at, kind |-> proc[p].kind, charts |-> proc[p].charts, all |-> proc[p].all,
                      errors |-> proc[p].errors, old |-> proc[p].old, next |-> proc[p].next,
                      linted |-> proc[p].linted, shared |-> proc[p].shared]
        /\ proc[p].kind \in {"lint", "lint-config"} /\ proc[p].charts \in Seq(DOMAIN Charts)
        /\ proc[p].all \in Seq(DOMAIN Charts) /\ proc[p].errors \in BOOLEAN
        /\ proc[p].old \in SUBSET Files /\ proc[p].next \in Nat
        /\ proc[p].linted \in Seq(Templates) /\ proc[p].shared \in BOOLEAN
    BY <1>2 DEF LintRecs
  <1> QED
    BY <1>1, <1>3 DEF Linting

\* What a lint leaves alone, and that it stays one or ends.
LEMMA LintTypes ==
    ASSUME TypeOK, NEW p \in Procs, LintStep(p)
    PROVE  /\ proc[p].at \in LintAt
           /\ TypeOK' /\ UNCHANGED <<cache, login>>
           /\ \A q \in Procs : proc'[q].at \in LintAt \cup {"exited"} \/ proc'[q] = proc[q]
  <1> DEFINE s == proc[p]
  <1>1. CASE HelmToManifest(p)
    <2>1. s.at = "helm" /\ UNCHANGED <<folder, cache, login>>
      BY <1>1 DEF HelmToManifest, files
    <2>2. Linting(s) /\ s.charts \in Seq(DOMAIN Charts)
      BY <2>1, LintRec DEF LintAt
    <2>3. ASSUME NEW r, Goes(p, r), r.at = "exited"
          PROVE  TypeOK' /\ \A q \in Procs : proc'[q].at \in LintAt \cup {"exited"} \/ proc'[q] = proc[q]
      BY <2>1, <2>3, Going DEF ProcOK, OtherAt, TypeOK, login
    <2>4. CASE s.charts = <<>>
      BY <1>1, <2>4, <2>1, <2>3 DEF HelmToManifest, LintAt
    <2>5. CASE s.charts # <<>> /\ Charts[Head(s.charts)] = <<>>
      BY <1>1, <2>5, <2>1, <2>3, Exits DEF HelmToManifest, LintAt, LintFails
    <2>6. CASE s.charts # <<>> /\ Charts[Head(s.charts)] # <<>>
      <3> DEFINE mine == [s EXCEPT !.at = "clean", !.shared = @ \/ Overlap(p), !.next = 1,
                                   !.old = {i \in DOMAIN folder : folder[i] # None}]
                 other(q) == IF UsesFolder(proc[q]) THEN [proc[q] EXCEPT !.shared = TRUE] ELSE proc[q]
      <3>1. proc' = [q \in Procs |-> IF q = p THEN mine ELSE other(q)]
        BY <1>1, <2>6 DEF HelmToManifest
      <3>2. Linting(mine)
        BY <2>1, <2>2, <2>6, FolderType, LintRec DEF Linting, LintRecs, LintAt, InFolder
      <3>3. ASSUME NEW q \in Procs
            PROVE  ProcOK(other(q)) /\ (other(q).at \in LintAt \/ other(q) = proc[q])
        <4>1. CASE UsesFolder(proc[q])
          <5>1. proc[q].at \in InFolder /\ proc[q].at \in LintAt
            BY <4>1 DEF UsesFolder, LintAt, InFolder
          <5>2. Linting([proc[q] EXCEPT !.shared = TRUE])
            BY <5>1, LintRec DEF Linting, LintRecs
          <5>3. [proc[q] EXCEPT !.shared = TRUE].at \in LintAt
            BY <5>2 DEF Linting, LintRecs
          <5> QED
            BY <4>1, <5>2, <5>3 DEF ProcOK
        <4>2. CASE ~UsesFolder(proc[q])
          BY <4>2 DEF TypeOK
        <4> QED
          BY <4>1, <4>2
      <3>4. mine.at \in LintAt
        BY <3>2 DEF Linting, LintRecs
      <3> HIDE DEF mine, other
      <3>5. /\ proc' = [q \in Procs |-> proc'[q]] /\ \A q \in Procs : ProcOK(proc'[q])
            /\ \A q \in Procs : proc'[q].at \in LintAt \/ proc'[q] = proc[q]
        BY <3>1, <3>2, <3>3, <3>4 DEF ProcOK
      <3> QED
        BY <3>5, <2>1 DEF TypeOK, login, LintAt
    <2> QED
      BY <2>4, <2>5, <2>6
  <1>2. ASSUME s.at \in InFolder, NEW r, Goes(p, r), Linting(r) \/ r.at = "exited",
               folder' \in [Files -> Contents], UNCHANGED <<cache, login>>
        PROVE  /\ proc[p].at \in LintAt /\ TypeOK'
               /\ \A q \in Procs : proc'[q].at \in LintAt \cup {"exited"} \/ proc'[q] = proc[q]
    <2>1. ProcOK(r) /\ r.at \in LintAt \cup {"exited"}
      BY <1>2 DEF ProcOK, OtherAt, Linting, LintRecs
    <2> QED
      BY <1>2, <2>1, Going DEF TypeOK, login, LintAt
  <1>3. ASSUME s.at \in InFolder
        PROVE  /\ \A a \in LintAt : Linting([s EXCEPT !.at = a])
               /\ \A a \in LintAt, o \in SUBSET Files : Linting([s EXCEPT !.at = a, !.old = o])
               /\ \A a \in LintAt, n \in Nat : Linting([s EXCEPT !.at = a, !.next = n])
               /\ \A o \in SUBSET Files : Linting([s EXCEPT !.old = o])
    BY <1>3, LintRec DEF Linting, LintRecs, LintAt, InFolder
  <1>4. CASE CleanFolder(p)
    <2>1. s.at \in InFolder /\ s.old \in SUBSET Files /\ UNCHANGED <<cache, login>>
      BY <1>4, LintRec DEF CleanFolder, InFolder, LintAt
    <2>2. CASE s.old = {}
      BY <1>2, <1>3, <1>4, <2>1, <2>2 DEF CleanFolder, LintAt, InFolder, TypeOK
    <2>3. CASE s.old # {}
      <3>1. PICK i \in s.old :
              folder' = [folder EXCEPT ![i] = None] /\ Goes(p, [s EXCEPT !.old = @ \ {i}])
        BY <1>4, <2>3 DEF CleanFolder
      <3>2. folder' \in [Files -> Contents]
        BY <3>1, <2>1 DEF TypeOK, Contents
      <3>3. Linting([s EXCEPT !.old = s.old \ {i}])
        BY <1>3, <2>1
      <3> QED
        BY <1>2, <2>1, <3>1, <3>2, <3>3
    <2> QED
      BY <2>2, <2>3
  <1>5. CASE WriteManifest(p)
    <2> DEFINE manifests == Charts[Head(s.charts)]
    <2>1. s.at \in InFolder /\ s.next \in Nat /\ UNCHANGED <<cache, login>> /\ Head(s.charts) \in DOMAIN Charts
      BY <1>5, LintRec DEF WriteManifest, InFolder, LintAt
    <2>2. CASE s.next > Len(manifests)
      BY <1>2, <1>3, <1>5, <2>1, <2>2 DEF WriteManifest, LintAt, InFolder, TypeOK
    <2>3. CASE ~(s.next > Len(manifests)) /\ s.at = "write"
      <3>1. folder' = [folder EXCEPT ![s.next] = Unparsed] /\ Goes(p, [s EXCEPT !.at = "fill"])
        BY <1>5, <2>3 DEF WriteManifest
      <3> QED
        BY <1>2, <1>3, <2>1, <3>1 DEF LintAt, InFolder, TypeOK, Contents
    <2>4. CASE ~(s.next > Len(manifests)) /\ s.at # "write"
      <3>1. PICK content \in {manifests[s.next]} \cup (IF s.shared THEN {folder[s.next], Unparsed} ELSE {}) :
               folder' = [folder EXCEPT ![s.next] = IF @ = None THEN None ELSE content]
        BY <1>5, <2>4 DEF WriteManifest
      <3>2. Goes(p, [s EXCEPT !.at = "write", !.next = s.next + 1])
        BY <1>5, <2>4 DEF WriteManifest
      <3>3. s.next \in Files => content \in Contents
        <4>1. CASE s.next \in Files
          <5>1. folder[s.next] \in Contents
            BY <4>1 DEF TypeOK
          <5>2. manifests[s.next] \in Templates
            BY <2>1, <2>4, <4>1, ChartTemplates, BoundsNat DEF Files
          <5> QED
            BY <5>1, <5>2, <3>1 DEF Contents
        <4> QED
          BY <4>1
      <3>4. folder' \in [Files -> Contents]
        BY <3>1, <3>3 DEF TypeOK, Contents
      <3>5. Linting([s EXCEPT !.at = "write", !.next = s.next + 1])
        <4>1. s.next + 1 \in Nat /\ "write" \in LintAt
          BY <2>1 DEF LintAt, InFolder
        <4> QED
          BY <1>3, <2>1, <4>1
      <3> QED
        BY <1>2, <2>1, <3>2, <3>4, <3>5
    <2> QED
      BY <2>2, <2>3, <2>4
  <1>6. CASE ListFolder(p)
    BY <1>2, <1>3, <1>6, FolderType DEF ListFolder, LintAt, InFolder, TypeOK, files
  <1>7. ASSUME NEW i \in DOMAIN folder, LintPath(p, i)
        PROVE  s.at \in InFolder /\ UNCHANGED <<cache, login, folder>> /\ \E r : Goes(p, r) /\ Linting(r)
    <2>1. s.at \in InFolder /\ UNCHANGED <<cache, login, folder>>
      BY <1>7 DEF LintPath, InFolder, files
    <2>2. Linting(s) /\ s.charts # <<>>
      BY <2>1, LintRec DEF LintAt
    <2>3. i \in Files /\ folder[i] \in Contents
      BY FolderType
    <2> DEFINE over == [s EXCEPT !.at = "name", !.old = @ \ {i}]
               bad == [over EXCEPT !.errors = TRUE]
    <2>4. Linting(over) /\ Linting(bad) /\ Linting([s EXCEPT !.at = "argo", !.next = i])
      <3>1. i \in Nat /\ s.old \ {i} \in SUBSET Files /\ {"name", "argo"} \subseteq LintAt
        <4>1. i \in Nat
          BY <2>3, BoundsNat DEF Files
        <4>2. s.old \in SUBSET Files
          BY <2>1, LintRec DEF LintAt
        <4> QED
          BY <4>1, <4>2 DEF LintAt, InFolder
      <3>2. Linting(over) /\ Linting([s EXCEPT !.at = "argo", !.next = i])
        BY <1>3, <2>1, <3>1
      <3>3. over.charts # <<>>
        BY <3>1, <2>1, <2>2, LintRec DEF LintAt
      <3>4. Linting(bad)
        BY <3>2, <3>3 DEF Linting, LintRecs
      <3> QED
        BY <3>2, <3>4
    <2>5. Linting([s EXCEPT !.at = "labels", !.errors = @ \/ Unreadable(i) \/ ArgoErrors(folder[i])])
      BY <2>1, <2>2, LintRec DEF Linting, LintRecs, LintAt, InFolder
    <2>6. ~Unreadable(i) => Linting([over EXCEPT !.linted = Append(@, folder[i])])
      <3>1. SUFFICES ASSUME ~Unreadable(i) PROVE Linting([over EXCEPT !.linted = Append(@, folder[i])])
        OBVIOUS
      <3>2. folder[i] \in Templates
        BY <3>1, <2>3 DEF Unreadable, Contents
      <3>3. over \in LintRecs /\ over.charts # <<>> /\ over.linted \in Seq(Templates)
        BY <2>1, <2>2, <2>4, LintRec DEF Linting, LintRecs, LintAt
      <3>4. Append(over.linted, folder[i]) \in Seq(Templates)
        BY <3>2, <3>3
      <3> HIDE DEF over
      <3> QED
        BY <3>3, <3>4 DEF Linting, LintRecs
    <2> HIDE DEF over, bad
    <2> QED
      BY <1>7, <2>1, <2>4, <2>5, <2>6 DEF LintPath, over, bad
  <1>8. CASE LintDone(p)
    <2>1. s.at \in InFolder /\ UNCHANGED <<cache, login, folder>> /\ s.charts # <<>>
      BY <1>8, LintRec DEF LintDone, InFolder, files, LintAt
    <2>2. Linting([s EXCEPT !.at = "helm", !.charts = Tail(@)])
      <3>1. s.charts \in Seq(DOMAIN Charts)
        BY <2>1, LintRec DEF LintAt
      <3>2. Tail(s.charts) \in Seq(DOMAIN Charts)
        BY <2>1, <3>1, HeadTailProperties
      <3>3. "helm" \in LintAt /\ "helm" \notin InFolder
        BY DEF LintAt, InFolder
      <3>4. \A cs \in Seq(DOMAIN Charts) : Linting([s EXCEPT !.at = "helm", !.charts = cs])
        BY <2>1, <3>3, LintRec DEF Linting, LintRecs, LintAt
      <3> QED
        BY <3>2, <3>4
    <2> QED
      BY <1>2, <1>8, <2>1, <2>2 DEF LintDone, TypeOK
  <1> QED
    BY <1>1, <1>2, <1>4, <1>5, <1>6, <1>7, <1>8 DEF LintStep, HelmToManifest, LintAt, TypeOK

-----------------------------------------------------------------------------

\* A step of one process after which it neither lints nor logs in.
Aside(p) ==
    /\ TypeOK' /\ UNCHANGED <<folder, cache, issued, doubt>>
    /\ \A q \in Procs \ {p} : proc'[q] = proc[q]
    /\ proc'[p].at \in {"exited", "idle", "ask"}
    /\ proc'[p].at = "exited" => "linted" \notin DOMAIN proc'[p]

\* The steps of `create`, the end of a query, a failure of the file system and a kill.
LEMMA AsideSteps ==
    ASSUME TypeOK, NEW p \in Procs,
           Query(p) \/ CopyDirectory(p) \/ FileFails(p) \/ Killed(p) \/ \E line \in {"y", "n", "what"} : Prompt(p, line)
    PROVE  Aside(p)
  <1> DEFINE s == proc[p]
  <1>1. ASSUME NEW r, Goes(p, r), UNCHANGED <<folder, cache, login>>,
               r.at = "idle" \/ (r.at = "exited" /\ "linted" \notin DOMAIN r) \/ Asking(r)
        PROVE  Aside(p)
    BY <1>1, Going DEF Aside, TypeOK, ProcOK, OtherAt, Asking, login
  <1>2. ASSUME Asking(s) PROVE (PartDone(s).at = "exited" /\ "linted" \notin DOMAIN PartDone(s)) \/ Asking(PartDone(s))
    <2>1. CASE Len(s.rest) = 1
      BY <2>1, Exits DEF PartDone
    <2>2. CASE Len(s.rest) # 1
      BY <2>2, <1>2 DEF PartDone, Asking
    <2> QED
      BY <2>1, <2>2
  <1>3. CASE Query(p)
    BY <1>1, <1>3, Exits DEF Query, files
  <1>4. CASE CopyDirectory(p)
    <2>1. Asking(s)
      BY <1>4, WhereFrom DEF CopyDirectory, TypeOK
    <2> QED
      BY <1>1, <1>2, <1>4, <2>1 DEF CopyDirectory
  <1>5. CASE Killed(p)
    <2>1. Idle.at = "idle"
      BY DEF Idle
    <2> QED
      BY <1>1, <1>5, <2>1 DEF Killed, files
  <1>6. ASSUME NEW line, Prompt(p, line) PROVE Aside(p)
    <2>1. Asking(s)
      BY <1>6, WhereFrom DEF Prompt, Asks, TypeOK
    <2>2. Asking([s EXCEPT !.typed = TRUE]) /\ Asking([s EXCEPT !.flags = @ \cup {Head(s.rest)}])
      BY <2>1 DEF Asking
    <2>3. Goes(p, [s EXCEPT !.typed = TRUE]) \/ Goes(p, PartDone(s)) \/ Goes(p, [s EXCEPT !.flags = @ \cup {Head(s.rest)}])
      BY <1>6 DEF Prompt
    <2>4. UNCHANGED <<folder, cache, login>>
      BY <1>6 DEF Prompt, files
    <2> QED
      BY <1>1, <1>2, <2>1, <2>2, <2>3, <2>4
  <1>7. CASE FileFails(p)
    BY <1>1, <1>7, Exits DEF FileFails, LintFails, files
  <1> QED
    BY <1>3, <1>4, <1>5, <1>6, <1>7

(***************************************************************************)
(* The login.                                                              *)
(***************************************************************************)

\* A token that is being exchanged or about to be written is one that was issued.
TokensIssued ==
    \A p \in Procs :
        /\ proc[p].at = "exchange" => proc[p].refresh <= issued
        /\ proc[p].at \in Writing /\ proc[p].answer # None => proc[p].answer <= issued

\* What takes away the order of the writes: the writer's own token need not be the
\* latest one, or the old one may still be good.
Unordered == "raced" \in doubt \/ "omitted" \in doubt

\* Otherwise one process at most writes the file, says so, and writes the latest
\* token.
OneWriter ==
    ~Unordered => \A p \in Procs : proc[p].at \in Writing =>
        /\ "writing" \in doubt
        /\ proc[p].answer = issued
        /\ \A q \in Procs : proc[q].at \in Writing => q = p

\* Until it has written, nobody holds the token that would let it answer again.
Spent ==
    "writing" \in doubt /\ ~Unordered =>
        /\ cache = None \/ cache.refresh # issued
        /\ \A p \in Procs : proc[p].at = "exchange" => proc[p].refresh # issued

LoginInv == TokensIssued /\ OneWriter /\ Spent /\ LoginKept

\* A step that has nothing to do with the login keeps it.
LEMMA LoginElsewhere ==
    ASSUME LoginInv, UNCHANGED <<cache, issued, doubt>>,
           \A q \in Procs : proc'[q].at \notin Writing \cup {"exchange"} \/ proc'[q] = proc[q]
    PROVE  LoginInv'
  <1> USE DEF Writing
  <1>1. TokensIssued'
    BY DEF LoginInv, TokensIssued
  <1>2. OneWriter'
    BY DEF LoginInv, OneWriter, Unordered
  <1>3. Spent'
    BY DEF LoginInv, Spent, Unordered
  <1>4. LoginKept'
    BY DEF LoginInv, LoginKept
  <1> QED
    BY <1>1, <1>2, <1>3, <1>4 DEF LoginInv

\* What the file holds.
LEMMA Cached ==
    ASSUME TypeOK, cache # None
    PROVE  cache.refresh = None \/ (cache.refresh \in Nat /\ cache.refresh <= issued)
  BY DEF TypeOK

\* A record of tokens is not the mark for none.
LEMMA Tokens ==
    ASSUME NEW n \in Nat, NEW r \in 0..n \cup {None}
    PROVE  [refresh |-> r] # None /\ [refresh |-> r] \in [refresh: 0..n \cup {None}]
  <1>1. r \in Nat \cup {None}
    OBVIOUS
  <1>2. [refresh |-> r] \in [refresh: Nat \cup {None}]
    BY <1>1
  <1> QED
    BY <1>2, MarksAreMarks

\* What a step of a login does to its process.
Trying(p) ==
    /\ TypeOK' /\ UNCHANGED folder
    /\ \A q \in Procs \ {p} : proc'[q] = proc[q]
    /\ proc'[p].at \in {"exited", "query", "exchange", "open", "save"}
    /\ proc'[p].at = "exited" => "linted" \notin DOMAIN proc'[p]

\* get_auth_token reads the file.
LEMMA GetAuthTokenStep ==
    ASSUME TypeOK, LoginInv, NEW p \in Procs, GetAuthToken(p)
    PROVE  Trying(p) /\ LoginInv'
  <1>1. UNCHANGED <<folder, cache, issued, doubt>>
    BY DEF GetAuthToken, files, login
  <1>2. CASE Goes(p, Exit(0))
    <2>1. Trying(p)
      BY <1>1, <1>2, Going, Exits DEF Trying, TypeOK
    <2> QED
      BY <1>1, <1>2, <2>1, LoginElsewhere, Going, Exits DEF Writing
  <1>3. CASE Goes(p, [at |-> "query"])
    <2>1. ProcOK([at |-> "query"])
      BY DEF ProcOK, OtherAt
    <2>2. Trying(p) /\ proc'[p].at = "query"
      BY <1>1, <1>3, <2>1, Going DEF Trying, TypeOK
    <2> QED
      BY <1>1, <2>2, LoginElsewhere DEF Trying, Writing
  <1>4. CASE cache # None /\ cache.refresh # None /\ Goes(p, [at |-> "exchange", refresh |-> cache.refresh])
    <2> DEFINE r == cache.refresh
    <2>1. r \in Nat /\ r <= issued
      BY <1>4, Cached
    <2>2. [at |-> "exchange", refresh |-> r] \in LoginRecs
      BY <2>1 DEF LoginRecs
    <2>3. /\ proc'[p] = [at |-> "exchange", refresh |-> r]
          /\ proc' = [q \in Procs |-> proc'[q]]
          /\ \A q \in Procs \ {p} : proc'[q] = proc[q]
          /\ \A q \in Procs : ProcOK(proc'[q])
      BY <1>4, <2>2, Going DEF ProcOK
    <2>4. Trying(p)
      BY <1>1, <2>3 DEF Trying, TypeOK
    <2>5. TokensIssued'
      BY <1>1, <2>1, <2>3 DEF LoginInv, TokensIssued, Writing
    <2>6. OneWriter'
      BY <1>1, <2>3 DEF LoginInv, OneWriter, Writing, Unordered
    <2>7. Spent'
      BY <1>1, <1>4, <2>3 DEF LoginInv, Spent, Unordered
    <2>8. LoginKept'
      BY <1>1 DEF LoginInv, LoginKept
    <2> QED
      BY <2>4, <2>5, <2>6, <2>7, <2>8 DEF LoginInv
  <1> QED
    BY <1>2, <1>3, <1>4 DEF GetAuthToken

\* The exchange: the provider does nothing, or spends the token in hand, whatever
\* becomes of the answer.
LEMMA ExchangeStep ==
    ASSUME TypeOK, LoginInv, NEW p \in Procs, Exchange(p)
    PROVE  Trying(p) /\ LoginInv'
  <1>1. proc[p].at = "exchange" /\ UNCHANGED <<folder, cache>> /\ issued \in Nat
    BY DEF Exchange, files, TypeOK
  <1>2. ASSUME NEW n, Goes(p, Exit(n)), UNCHANGED <<issued, doubt>>
        PROVE  Trying(p) /\ LoginInv'
    <2>1. Trying(p) /\ proc'[p].at = "exited"
      BY <1>1, <1>2, Going, Exits DEF Trying, TypeOK
    <2> QED
      BY <1>1, <1>2, <2>1, LoginElsewhere DEF Trying, Writing
  <1>3. ASSUME proc[p].refresh = issued, issued' \in {issued, issued + 1}, NEW r, Goes(p, r), ProcOK(r),
               \/ /\ r.at = "exited" /\ "linted" \notin DOMAIN r
                  /\ issued' = issued + 1 /\ doubt' = doubt \cup {"lost"}
               \/ /\ r.at = "open" /\ r.answer = issued + 1
                  /\ issued' = issued + 1 /\ doubt' = doubt \cup {"writing"}
               \/ /\ r.at = "open" /\ r.answer = None
                  /\ doubt' = doubt \cup {"writing", "omitted"}
        PROVE  Trying(p) /\ LoginInv'
    <2>1. issued' \in Nat /\ cache' \in [refresh: 0..issued' \cup {None}] \cup {None}
      BY <1>1, <1>3 DEF TypeOK
    <2>2. ASSUME issued' = issued + 1 PROVE cache' = None \/ cache'.refresh # issued'
      BY <1>1, <2>2, Cached, MarksAreMarks
    <2>3. \A q \in Procs : proc[q].at = "exchange" => proc[q].refresh \in Nat /\ proc[q].refresh <= issued
      <3>1. ASSUME NEW q \in Procs, proc[q].at = "exchange" PROVE proc[q].refresh \in Nat
        <4>1. proc[q] \in [at: {"exchange"}, refresh: Nat]
          BY <3>1, WhereFrom DEF TypeOK
        <4> QED
          BY <4>1
      <3> QED
        BY <3>1 DEF LoginInv, TokensIssued
    <2>4. \A q \in Procs : proc[q].at \in Writing => Unordered
      BY <1>1, <1>3 DEF LoginInv, OneWriter, Spent
    <2>5. \A q \in Procs : proc[q].at \in Writing => proc[q].answer \in Nat \cup {None}
      <3>1. ASSUME NEW q \in Procs, proc[q].at \in Writing PROVE proc[q].answer \in Nat \cup {None}
        <4>1. proc[q] \in [at: Writing, answer: Nat \cup {None}]
          BY <3>1, WhereFrom DEF TypeOK
        <4> QED
          BY <4>1
      <3> QED
        BY <3>1
    <2>6. /\ proc'[p] = r
          /\ proc' = [q \in Procs |-> proc'[q]]
          /\ \A q \in Procs \ {p} : proc'[q] = proc[q]
          /\ \A q \in Procs : ProcOK(proc'[q])
      BY <1>3, Going
    <2>7. Trying(p)
      BY <1>1, <1>3, <2>1, <2>6 DEF Trying, TypeOK
    <2>8. TokensIssued'
      <3>1. ASSUME NEW q \in Procs \ {p}
            PROVE  /\ proc'[q].at = "exchange" => proc'[q].refresh <= issued'
                   /\ proc'[q].at \in Writing /\ proc'[q].answer # None => proc'[q].answer <= issued'
        BY <1>1, <1>3, <2>3, <2>5, <2>6 DEF LoginInv, TokensIssued
      <3>2. /\ r.at # "exchange"
            /\ r.at \in Writing /\ r.answer # None => r.answer <= issued'
        BY <1>1, <1>3 DEF Writing
      <3> QED
        BY <2>6, <3>1, <3>2 DEF TokensIssued
    <2>9. Unordered => Unordered'
      BY <1>3 DEF Unordered
    <2>10. ~Unordered' => issued' = issued + 1
      BY <1>3 DEF Unordered
    <2>11. OneWriter'
      BY <1>3, <2>4, <2>6, <2>9, <2>10 DEF OneWriter, Writing, Unordered
    <2>12. Spent'
      <3>1. issued' = issued + 1 => \A q \in Procs : proc'[q].at = "exchange" => proc'[q].refresh # issued'
        BY <1>1, <1>3, <2>3, <2>6
      <3> QED
        BY <2>2, <2>10, <3>1 DEF Spent
    <2>13. LoginKept'
      BY <1>3 DEF LoginKept
    <2> QED
      BY <2>7, <2>8, <2>11, <2>12, <2>13 DEF LoginInv
  <1>4. ASSUME NEW a \in Nat \cup {None}
        PROVE  /\ ProcOK([at |-> "open", answer |-> a])
               /\ [at |-> "open", answer |-> a].at = "open" /\ [at |-> "open", answer |-> a].answer = a
    <2>1. [at |-> "open", answer |-> a] \in LoginRecs
      BY DEF LoginRecs, Writing
    <2> QED
      BY <2>1 DEF ProcOK
  <1>5. CASE (\E status \in {0, 101} : Goes(p, Exit(status))) /\ UNCHANGED <<issued, doubt>>
    BY <1>2, <1>5
  <1>6. CASE /\ proc[p].refresh = issued /\ issued' = issued + 1
             /\ Goes(p, [at |-> "open", answer |-> issued + 1]) /\ doubt' = doubt \cup {"writing"}
    <2>1. issued + 1 \in Nat \cup {None}
      BY <1>1
    <2> QED
      BY <1>3, <1>4, <1>6, <2>1
  <1>7. CASE /\ proc[p].refresh = issued /\ issued' = issued + 1
             /\ Goes(p, Exit(0)) /\ doubt' = doubt \cup {"lost"}
    BY <1>3, <1>7, Exits
  <1>8. CASE /\ proc[p].refresh = issued /\ issued' \in {issued, issued + 1}
             /\ Goes(p, [at |-> "open", answer |-> None]) /\ doubt' = doubt \cup {"writing", "omitted"}
    BY <1>3, <1>4, <1>8
  <1> QED
    BY <1>5, <1>6, <1>7, <1>8 DEF Exchange

\* fs::write empties the file ...
LEMMA OpenCacheStep ==
    ASSUME TypeOK, LoginInv, NEW p \in Procs, OpenCache(p)
    PROVE  Trying(p) /\ LoginInv'
  <1> DEFINE r == [proc[p] EXCEPT !.at = "save"]
  <1>1. proc[p].at \in Writing /\ UNCHANGED <<folder, issued, doubt>> /\ cache' = None /\ Goes(p, r)
    BY DEF OpenCache, Writing, login
  <1>2. proc[p] \in [at: Writing, answer: Nat \cup {None}]
    BY <1>1, WhereFrom DEF TypeOK
  <1>3. r \in LoginRecs /\ r.at = "save" /\ r.answer = proc[p].answer
    BY <1>2 DEF LoginRecs, Writing
  <1> HIDE DEF r
  <1>4. /\ proc'[p] = r
        /\ proc' = [q \in Procs |-> proc'[q]]
        /\ \A q \in Procs \ {p} : proc'[q] = proc[q]
        /\ \A q \in Procs : ProcOK(proc'[q])
    BY <1>1, <1>3, Going DEF ProcOK
  <1>5. Trying(p)
    BY <1>1, <1>3, <1>4 DEF Trying, TypeOK
  <1>6. TokensIssued'
    BY <1>1, <1>3, <1>4 DEF LoginInv, TokensIssued, Writing
  <1>7. OneWriter'
    BY <1>1, <1>3, <1>4 DEF LoginInv, OneWriter, Writing, Unordered
  <1>8. Spent'
    BY <1>1, <1>3, <1>4 DEF LoginInv, Spent, Unordered
  <1>9. LoginKept'
    BY <1>1 DEF LoginInv, OneWriter, LoginKept, Unordered
  <1> QED
    BY <1>5, <1>6, <1>7, <1>8, <1>9 DEF LoginInv

\* ... and fills it.
LEMMA SaveCacheStep ==
    ASSUME TypeOK, LoginInv, NEW p \in Procs, SaveCache(p)
    PROVE  Trying(p) /\ LoginInv'
  <1> DEFINE a == proc[p].answer
  <1>1. /\ proc[p].at \in Writing /\ UNCHANGED <<folder, issued>> /\ issued \in Nat
        /\ cache' = [refresh |-> a] /\ Goes(p, [at |-> "query"])
        /\ doubt' = doubt \ {"writing"}
    BY DEF SaveCache, NewCachedTokens, Writing, TypeOK
  <1>2. proc[p] \in [at: Writing, answer: Nat \cup {None}]
    BY <1>1, WhereFrom DEF TypeOK
  <1>3. a \in 0..issued \cup {None}
    BY <1>1, <1>2 DEF LoginInv, TokensIssued
  <1>4. cache' # None /\ cache' \in [refresh: 0..issued \cup {None}] /\ cache'.refresh = a
    BY <1>1, <1>3, Tokens
  <1>5. ProcOK([at |-> "query"])
    BY DEF ProcOK, OtherAt
  <1>6. /\ proc'[p].at = "query"
        /\ proc' = [q \in Procs |-> proc'[q]]
        /\ \A q \in Procs \ {p} : proc'[q] = proc[q]
        /\ \A q \in Procs : ProcOK(proc'[q])
    BY <1>1, <1>5, Going
  <1>7. Trying(p)
    BY <1>1, <1>4, <1>6 DEF Trying, TypeOK
  <1>8. TokensIssued'
    BY <1>1, <1>6 DEF LoginInv, TokensIssued, Writing
  <1>9. ~Unordered' => ~Unordered
    BY <1>1 DEF Unordered
  <1>10. OneWriter'
    BY <1>1, <1>6, <1>9 DEF LoginInv, OneWriter, Writing
  <1>11. "writing" \notin doubt'
    BY <1>1
  <1>12. Spent'
    BY <1>11 DEF Spent
  <1>13. LoginKept'
    BY <1>1, <1>4, <1>9 DEF LoginInv, OneWriter, LoginKept, Unordered
  <1> QED
    BY <1>7, <1>8, <1>10, <1>12, <1>13 DEF LoginInv

\* The user logs in again.
LEMMA UserLogin ==
    ASSUME TypeOK, LoginInv, Login
    PROVE  TypeOK' /\ LoginInv' /\ UNCHANGED <<proc, folder>>
  <1>1. /\ issued \in Nat /\ issued' = issued + 1 /\ cache' = [refresh |-> issued + 1] /\ UNCHANGED <<proc, folder>>
        /\ doubt' = IF \E p \in Procs : proc[p].at \in Writing THEN {"raced"} ELSE {}
    BY DEF Login, TypeOK, Writing
  <1>2. cache' # None /\ cache' \in [refresh: 0..issued' \cup {None}] /\ cache'.refresh = issued'
    BY <1>1, Tokens
  <1>3. TypeOK'
    BY <1>1, <1>2 DEF TypeOK
  <1>4. TokensIssued'
    <2>1. ASSUME NEW p \in Procs
          PROVE  /\ proc[p].at = "exchange" => proc[p].refresh \in Nat
                 /\ proc[p].at \in Writing => proc[p].answer \in Nat \cup {None}
      <3>1. /\ proc[p].at = "exchange" => proc[p] \in [at: {"exchange"}, refresh: Nat]
            /\ proc[p].at \in Writing => proc[p] \in [at: Writing, answer: Nat \cup {None}]
        BY WhereFrom DEF TypeOK
      <3> QED
        BY <3>1
    <2> QED
      BY <1>1, <2>1 DEF LoginInv, TokensIssued, Writing
  <1>5. OneWriter'
    BY <1>1 DEF OneWriter, Unordered
  <1>6. Spent'
    BY <1>1 DEF Spent
  <1>7. LoginKept'
    BY <1>2 DEF LoginKept
  <1> QED
    BY <1>1, <1>3, <1>4, <1>5, <1>6, <1>7 DEF LoginInv

(***************************************************************************)
(* The folder.                                                             *)
(***************************************************************************)

\* The chart a lint is at, how many it has done, and the files of this one it has
\* reported on.
Mine(s) == Charts[Head(s.charts)]
Done(s) == Len(s.all) - Len(s.charts)
Handled(s) == IF s.at \in {"name", "argo", "labels"} THEN (1..Len(Mine(s))) \ s.old ELSE {}
Before(s) == FirstTemplates(s.all, Done(s))

\* What is left of the charts is the end of all of them.
Way(s) ==
    /\ Len(s.all) \in {1, 2} /\ Done(s) >= 0
    /\ \A j \in 1..Len(s.charts) : s.charts[j] = s.all[Done(s) + j]

\* What has been reported is about the templates of the charts done and of the
\* files handled.
Reported(s) ==
    /\ s.errors <=> \/ \E t \in ToSet(Before(s)) : Bad(t)
                    \/ \E i \in Handled(s) : Bad(Mine(s)[i])
                    \/ s.at = "labels" /\ ArgoErrors(Mine(s)[s.next])
    /\ \A t \in ToSet(s.linted) : t \in ToSet(Before(s)) \/ \E i \in Handled(s) : t = Mine(s)[i]
    /\ ~s.errors => Len(s.linted) = Len(Before(s)) + Cardinality(Handled(s))

\* What a lint that has the folder to itself finds there.
Finds(s, f) ==
    /\ s.at = "clean" => s.next = 1 /\ \A i \in Files : f[i] # None => i \in s.old
    /\ s.at = "write" => /\ s.next \in 1..(Len(Mine(s)) + 1)
                         /\ \A i \in Files : f[i] = IF i < s.next THEN Mine(s)[i] ELSE None
    /\ s.at = "fill" => /\ s.next \in 1..Len(Mine(s))
                        /\ \A i \in Files : i # s.next => f[i] = IF i < s.next THEN Mine(s)[i] ELSE None
                        /\ f[s.next] = Unparsed
    /\ s.at \in {"list", "name", "argo", "labels"} =>
         \A i \in Files : f[i] = IF i <= Len(Mine(s)) THEN Mine(s)[i] ELSE None
    /\ s.at \in {"name", "argo", "labels"} => s.old \subseteq 1..Len(Mine(s))
    /\ s.at \in {"argo", "labels"} => s.next \in s.old /\ Mine(s)[s.next].named

LintOK(s, f) ==
    s.at \in LintAt =>
        /\ Way(s)
        /\ ~s.shared => Reported(s) /\ (s.at \in InFolder => Finds(s, f))

\* The end of a lint: LintsOwn of one process.
Ended(s) ==
    s.at = "exited" /\ "linted" \in DOMAIN s /\ ~s.shared =>
        LET own == AllTemplates(s.all)
            bad == {t \in ToSet(own) : Bad(t)}
        IN  /\ s.status = 1 <=> bad # {}
            /\ \A t \in ToSet(s.linted) : t \in ToSet(own)
            /\ bad = {} => Len(s.linted) = Len(own)

\* Two lints in the folder know of each other.
Exclusive ==
    \A p, q \in Procs : p # q /\ proc[p].at \in InFolder /\ proc[q].at \in InFolder => proc[p].shared

LintInv ==
    /\ Exclusive
    /\ \A p \in Procs : LintOK(proc[p], folder) /\ Ended(proc[p])

\* Processes that do something else do not matter.
LEMMA LintElsewhere ==
    ASSUME LintInv, UNCHANGED folder,
           \A q \in Procs : \/ proc'[q] = proc[q]
                            \/ /\ proc'[q].at \notin LintAt
                               /\ proc'[q].at = "exited" => "linted" \notin DOMAIN proc'[q]
    PROVE  LintInv'
  <1>1. Exclusive'
    BY DEF LintInv, Exclusive, LintAt
  <1>2. ASSUME NEW q \in Procs PROVE LintOK(proc'[q], folder') /\ Ended(proc'[q])
    <2>1. CASE proc'[q] = proc[q]
      BY <2>1 DEF LintInv
    <2>2. CASE proc'[q].at \notin LintAt /\ (proc'[q].at = "exited" => "linted" \notin DOMAIN proc'[q])
      BY <2>2 DEF LintOK, Ended
    <2> QED
      BY <2>1, <2>2
  <1> QED
    BY <1>1, <1>2 DEF LintInv

\* A step of a lint in the folder: it is enough that it keeps its own part.
LEMMA InFolderStep ==
    ASSUME TypeOK, LintInv, NEW p \in Procs, proc[p].at \in InFolder, NEW r, Goes(p, r), ProcOK(r),
           r.at \in LintAt => r.shared = proc[p].shared,
           LintOK(r, folder'), Ended(r)
    PROVE  LintInv'
  <1>1. proc'[p] = r /\ \A q \in Procs \ {p} : proc'[q] = proc[q]
    BY Going
  <1>2. ASSUME NEW q \in Procs \ {p} PROVE LintOK(proc[q], folder') /\ Ended(proc[q])
    <2>1. LintOK(proc[q], folder) /\ Ended(proc[q])
      BY DEF LintInv
    <2>2. proc[q].at \in InFolder => proc[q].shared
      BY DEF LintInv, Exclusive
    <2> QED
      BY <2>1, <2>2 DEF LintOK
  <1>3. Exclusive'
    BY <1>1 DEF LintInv, Exclusive, LintAt
  <1> QED
    BY <1>1, <1>2, <1>3 DEF LintInv

\* The templates of the first charts, and of one more.
LEMMA OneMoreChart ==
    ASSUME NEW all \in Seq(DOMAIN Charts), Len(all) \in {1, 2}, NEW d \in 0..(Len(all) - 1)
    PROVE  /\ FirstTemplates(all, d) \in Seq(Templates)
           /\ FirstTemplates(all, d + 1) \in Seq(Templates)
           /\ all[d + 1] \in DOMAIN Charts
           /\ FirstTemplates(all, d + 1) = FirstTemplates(all, d) \o Charts[all[d + 1]]
  <1>1. all[1] \in DOMAIN Charts /\ (Len(all) = 2 => all[2] \in DOMAIN Charts)
    OBVIOUS
  <1>2. Charts[all[1]] \in Seq(Templates) /\ (Len(all) = 2 => Charts[all[2]] \in Seq(Templates))
    BY <1>1, ChartTemplates
  <1>3. CASE d = 0
    <2>1. FirstTemplates(all, d) = <<>> /\ FirstTemplates(all, d + 1) = Charts[all[1]]
      BY <1>3 DEF FirstTemplates
    <2>2. <<>> \o Charts[all[1]] = Charts[all[1]]
      BY <1>2, ConcatEmptySeq
    <2>3. d + 1 = 1 /\ <<>> \in Seq(Templates)
      BY <1>3
    <2> QED
      BY <1>1, <1>2, <2>1, <2>2, <2>3
  <1>4. CASE d = 1 /\ Len(all) = 2
    <2>1. FirstTemplates(all, d) = Charts[all[1]] /\ FirstTemplates(all, d + 1) = Charts[all[1]] \o Charts[all[2]]
      BY <1>4 DEF FirstTemplates
    <2>2. Charts[all[1]] \o Charts[all[2]] \in Seq(Templates)
      BY <1>2, <1>4, ConcatProperties
    <2>3. d + 1 = 2
      BY <1>4
    <2> QED
      BY <1>1, <1>2, <1>4, <2>1, <2>2, <2>3
  <1> QED
    BY <1>3, <1>4

\* What a sequence put together from two holds.
LEMMA JoinedSet ==
    ASSUME NEW s \in Seq(Templates), NEW t \in Seq(Templates)
    PROVE  /\ Len(s \o t) = Len(s) + Len(t)
           /\ ToSet(s \o t) = ToSet(s) \cup {t[i] : i \in 1..Len(t)}
  <1>1. /\ s \o t \in Seq(Templates) /\ Len(s \o t) = Len(s) + Len(t)
        /\ \A i \in 1..(Len(s) + Len(t)) : (s \o t)[i] = IF i <= Len(s) THEN s[i] ELSE t[i - Len(s)]
    BY ConcatProperties
  <1>2. DOMAIN (s \o t) = 1..(Len(s) + Len(t)) /\ DOMAIN s = 1..Len(s) /\ Len(s) \in Nat /\ Len(t) \in Nat
    BY <1>1
  <1>3. ASSUME NEW i \in 1..Len(s) PROVE s[i] \in ToSet(s \o t)
    <2>1. i \in 1..(Len(s) + Len(t)) /\ i <= Len(s)
      BY <1>2
    <2> QED
      BY <2>1, <1>1, <1>2 DEF ToSet
  <1>4. ASSUME NEW i \in 1..Len(t) PROVE t[i] \in ToSet(s \o t)
    <2>1. i + Len(s) \in 1..(Len(s) + Len(t)) /\ ~(i + Len(s) <= Len(s)) /\ (i + Len(s)) - Len(s) = i
      BY <1>2
    <2>2. (s \o t)[i + Len(s)] = t[i]
      BY <2>1, <1>1
    <2> QED
      BY <2>1, <2>2, <1>2 DEF ToSet
  <1>5. ASSUME NEW i \in 1..(Len(s) + Len(t)) PROVE (s \o t)[i] \in ToSet(s) \cup {t[j] : j \in 1..Len(t)}
    <2>1. CASE i <= Len(s)
      <3>1. i \in DOMAIN s /\ (s \o t)[i] = s[i]
        BY <2>1, <1>1, <1>2
      <3> QED
        BY <3>1 DEF ToSet
    <2>2. CASE ~(i <= Len(s))
      <3>1. i - Len(s) \in 1..Len(t) /\ (s \o t)[i] = t[i - Len(s)]
        BY <2>2, <1>1, <1>2
      <3> QED
        BY <3>1
    <2> QED
      BY <2>1, <2>2
  <1>6. ToSet(s \o t) \subseteq ToSet(s) \cup {t[i] : i \in 1..Len(t)}
    BY <1>2, <1>5 DEF ToSet
  <1>7. ToSet(s) \cup {t[i] : i \in 1..Len(t)} \subseteq ToSet(s \o t)
    BY <1>2, <1>3, <1>4 DEF ToSet
  <1> QED
    BY <1>1, <1>6, <1>7

\* What has been reported does not depend on where the lint is.
LEMMA SameReport ==
    ASSUME NEW s, NEW r, Reported(s), s.at # "labels", r.at # "labels", Handled(r) = Handled(s),
           r.errors = s.errors, r.linted = s.linted, r.all = s.all, r.charts = s.charts
    PROVE  Reported(r)
  <1>1. Before(r) = Before(s) /\ Mine(r) = Mine(s)
    BY DEF Before, Done, Mine
  <1> QED
    BY <1>1 DEF Reported

LEMMA SameWay ==
    ASSUME NEW s, NEW r, Way(s), r.all = s.all, r.charts = s.charts
    PROVE  Way(r)
  BY DEF Way, Done

\* A lint in the folder.
LEMMA LintFacts ==
    ASSUME TypeOK, LintInv, NEW p \in Procs, proc[p].at \in InFolder
    PROVE  /\ Way(proc[p]) /\ (~proc[p].shared => Reported(proc[p]) /\ Finds(proc[p], folder))
           /\ Mine(proc[p]) \in Seq(Templates) /\ Len(Mine(proc[p])) \in Nat
           /\ \A i \in 1..Len(Mine(proc[p])) : i \in Files /\ Mine(proc[p])[i] \in Templates
  <1>1. Head(proc[p].charts) \in DOMAIN Charts
    BY LintRec DEF LintAt
  <1>2. LintOK(proc[p], folder)
    BY DEF LintInv
  <1> QED
    BY <1>1, <1>2, ChartTemplates DEF LintOK, LintAt, Mine

\* write_to_clean_folder removes what is there ...
LEMMA CleanFolderStep ==
    ASSUME TypeOK, LintInv, NEW p \in Procs, CleanFolder(p)
    PROVE  LintInv'
  <1> DEFINE s == proc[p]
             r == [s EXCEPT !.at = "write"]
             x(i) == [s EXCEPT !.old = s.old \ {i}]
  <1>1. s.at = "clean" /\ s.at \in InFolder /\ s.at \in LintAt
    BY DEF CleanFolder, InFolder, LintAt
  <1>2. /\ Way(s) /\ (~s.shared => Reported(s) /\ Finds(s, folder))
        /\ Linting(s) /\ s.old \in SUBSET Files /\ s.next \in Nat
        /\ s = [at |-> s.at, kind |-> s.kind, charts |-> s.charts, all |-> s.all,
                errors |-> s.errors, old |-> s.old, next |-> s.next, linted |-> s.linted, shared |-> s.shared]
    BY <1>1, LintFacts, LintRec
  <1>3. CASE s.old = {}
    <2>1. Goes(p, r) /\ UNCHANGED folder
      BY <1>3 DEF CleanFolder
    <2>2. /\ r.at = "write" /\ r.charts = s.charts /\ r.all = s.all /\ r.errors = s.errors /\ r.next = s.next
          /\ r.linted = s.linted /\ r.shared = s.shared
      BY <1>2
    <2>3. Linting(r)
      BY <1>1, <1>2 DEF Linting, LintRecs, LintAt, InFolder
    <2> HIDE DEF r
    <2>4. Way(r) /\ (~s.shared => Reported(r))
      BY <1>1, <1>2, <2>2, SameReport, SameWay DEF Handled
    <2>5. ~s.shared => Finds(r, folder)
      <3>1. SUFFICES ASSUME ~s.shared PROVE Finds(r, folder)
        OBVIOUS
      <3>2. s.next = 1 /\ \A i \in Files : folder[i] = None
        BY <1>1, <1>2, <1>3, <3>1 DEF Finds
      <3>3. Len(Mine(r)) \in Nat
        BY <1>1, <2>2, LintFacts DEF Mine
      <3>4. \A i \in Files : ~(i < 1)
        BY BoundsNat DEF Files
      <3> QED
        BY <2>2, <3>2, <3>3, <3>4 DEF Finds
    <2>6. LintOK(r, folder') /\ Ended(r)
      BY <2>1, <2>2, <2>4, <2>5 DEF LintOK, Ended
    <2> QED
      BY <1>1, <2>1, <2>2, <2>3, <2>6, InFolderStep DEF ProcOK
  <1>4. CASE s.old # {}
    <2>1. PICK i \in s.old : folder' = [folder EXCEPT ![i] = None] /\ Goes(p, x(i))
      BY <1>4 DEF CleanFolder
    <2>2. /\ x(i).at = "clean" /\ x(i).charts = s.charts /\ x(i).all = s.all /\ x(i).errors = s.errors
          /\ x(i).next = s.next /\ x(i).linted = s.linted /\ x(i).shared = s.shared /\ x(i).old = s.old \ {i}
      BY <1>1, <1>2
    <2>3. Linting(x(i))
      BY <1>1, <1>2 DEF Linting, LintRecs, LintAt, InFolder
    <2> HIDE DEF x
    <2>4. Way(x(i)) /\ (~s.shared => Reported(x(i)))
      BY <1>1, <1>2, <2>2, SameReport, SameWay DEF Handled
    <2>5. i \in Files /\ DOMAIN folder = Files
      BY <1>2, FolderType
    <2>6. \A j \in Files : folder'[j] # None => j # i /\ folder[j] # None
      BY <2>1, <2>5
    <2>7. ~s.shared => Finds(x(i), folder')
      BY <1>1, <1>2, <2>2, <2>6 DEF Finds
    <2>8. LintOK(x(i), folder') /\ Ended(x(i))
      BY <2>2, <2>4, <2>7 DEF LintOK, Ended
    <2> QED
      BY <1>1, <2>1, <2>2, <2>3, <2>8, InFolderStep DEF ProcOK
  <1> QED
    BY <1>3, <1>4

\* ... and fills the folder.
LEMMA WriteManifestStep ==
    ASSUME TypeOK, LintInv, NEW p \in Procs, WriteManifest(p)
    PROVE  LintInv'
  <1> DEFINE s == proc[p]
             m == Mine(s)
  <1>1. s.at \in {"write", "fill"} /\ s.at \in InFolder /\ s.at \in LintAt
    BY DEF WriteManifest, InFolder, LintAt
  <1>2. /\ Way(s) /\ (~s.shared => Reported(s) /\ Finds(s, folder))
        /\ Linting(s) /\ s.next \in Nat
        /\ s = [at |-> s.at, kind |-> s.kind, charts |-> s.charts, all |-> s.all,
                errors |-> s.errors, old |-> s.old, next |-> s.next, linted |-> s.linted, shared |-> s.shared]
    BY <1>1, LintFacts, LintRec
  <1>3. Len(m) \in Nat /\ \A i \in 1..Len(m) : i \in Files /\ m[i] \in Templates
    BY <1>1, LintFacts
  <1>4. DOMAIN folder = Files /\ \A i \in Files : i \in Nat /\ i >= 1
    BY FolderType, BoundsNat DEF Files
  \* Whatever is written, the report is what it was; what has to be shown is what
  \* is in the folder then.
  <1>5. ASSUME NEW r, Goes(p, r), Linting(r), r.at \in {"write", "fill", "list"},
               r.charts = s.charts, r.all = s.all, r.errors = s.errors, r.linted = s.linted, r.shared = s.shared,
               ~s.shared => Finds(r, folder')
        PROVE  LintInv'
    <2>1. Way(r) /\ (~s.shared => Reported(r))
      <3>1. Handled(r) = Handled(s) /\ s.at # "labels" /\ r.at # "labels"
        BY <1>1, <1>5 DEF Handled
      <3> QED
        BY <1>2, <1>5, <3>1, SameReport, SameWay
    <2>2. LintOK(r, folder') /\ Ended(r)
      BY <1>5, <2>1 DEF LintOK, Ended
    <2> QED
      BY <1>1, <1>5, <2>2, InFolderStep DEF ProcOK
  <1>6. CASE s.next > Len(m)
    <2> DEFINE r == [s EXCEPT !.at = "list"]
    <2>1. Goes(p, r) /\ UNCHANGED folder
      BY <1>6 DEF WriteManifest, Mine
    <2>2. /\ r.at = "list" /\ r.charts = s.charts /\ r.all = s.all /\ r.errors = s.errors
          /\ r.linted = s.linted /\ r.shared = s.shared
      BY <1>2
    <2>3. Linting(r)
      BY <1>1, <1>2 DEF Linting, LintRecs, LintAt, InFolder
    <2> HIDE DEF r
    <2>4. ~s.shared => Finds(r, folder')
      <3>1. SUFFICES ASSUME ~s.shared PROVE Finds(r, folder')
        OBVIOUS
      <3>2. s.at = "write"
        BY <1>1, <1>2, <1>3, <1>6, <3>1 DEF Finds
      <3>3. s.next = Len(m) + 1 /\ \A i \in Files : folder[i] = IF i < s.next THEN m[i] ELSE None
        BY <1>2, <1>3, <1>6, <3>1, <3>2 DEF Finds
      <3>4. \A i \in Files : folder[i] = IF i <= Len(m) THEN m[i] ELSE None
        BY <1>3, <1>4, <3>3
      <3>5. Mine(r) = m
        BY <2>2 DEF Mine
      <3> QED
        BY <2>1, <2>2, <3>4, <3>5 DEF Finds
    <2> QED
      BY <1>5, <2>1, <2>2, <2>3, <2>4
  <1>7. CASE ~(s.next > Len(m)) /\ s.at = "write"
    <2> DEFINE r == [s EXCEPT !.at = "fill"]
    <2>1. Goes(p, r) /\ folder' = [folder EXCEPT ![s.next] = Unparsed]
      BY <1>7 DEF WriteManifest, Mine
    <2>2. /\ r.at = "fill" /\ r.charts = s.charts /\ r.all = s.all /\ r.errors = s.errors
          /\ r.linted = s.linted /\ r.shared = s.shared /\ r.next = s.next
      BY <1>2
    <2>3. Linting(r)
      BY <1>1, <1>2 DEF Linting, LintRecs, LintAt, InFolder
    <2> HIDE DEF r
    <2>4. ~s.shared => Finds(r, folder')
      <3>1. SUFFICES ASSUME ~s.shared PROVE Finds(r, folder')
        OBVIOUS
      <3>2. s.next \in 1..(Len(m) + 1) /\ \A i \in Files : folder[i] = IF i < s.next THEN m[i] ELSE None
        BY <1>2, <1>7, <3>1 DEF Finds
      <3>3. s.next \in 1..Len(m) /\ s.next \in Files
        BY <1>3, <1>7, <3>2
      <3>4. folder'[s.next] = Unparsed /\ \A i \in Files : i # s.next => folder'[i] = folder[i]
        BY <1>4, <2>1, <3>3
      <3>5. Mine(r) = m
        BY <2>2 DEF Mine
      <3> QED
        BY <2>2, <3>2, <3>3, <3>4, <3>5 DEF Finds
    <2> QED
      BY <1>5, <2>1, <2>2, <2>3, <2>4
  <1>8. CASE ~(s.next > Len(m)) /\ s.at = "fill"
    <2> DEFINE r == [s EXCEPT !.at = "write", !.next = s.next + 1]
    <2>1. Goes(p, r)
      BY <1>8 DEF WriteManifest, Mine
    <2>2. \E content \in {m[s.next]} \cup (IF s.shared THEN {folder[s.next], Unparsed} ELSE {}) :
             folder' = [folder EXCEPT ![s.next] = IF @ = None THEN None ELSE content]
      BY <1>8 DEF WriteManifest, Mine
    <2>3. /\ r.at = "write" /\ r.charts = s.charts /\ r.all = s.all /\ r.errors = s.errors
          /\ r.linted = s.linted /\ r.shared = s.shared /\ r.next = s.next + 1
      BY <1>2
    <2>4. Linting(r)
      <3>1. s.next + 1 \in Nat
        BY <1>2
      <3>2. \A n \in Nat : Linting([s EXCEPT !.at = "write", !.next = n])
        BY <1>1, <1>2 DEF Linting, LintRecs, LintAt, InFolder
      <3> QED
        BY <3>1, <3>2
    <2> HIDE DEF r
    <2>5. ~s.shared => Finds(r, folder')
      <3>1. SUFFICES ASSUME ~s.shared PROVE Finds(r, folder')
        OBVIOUS
      <3>2. /\ s.next \in 1..Len(m) /\ folder[s.next] = Unparsed
            /\ \A i \in Files : i # s.next => folder[i] = IF i < s.next THEN m[i] ELSE None
        BY <1>2, <1>8, <3>1 DEF Finds
      <3>3. folder' = [folder EXCEPT ![s.next] = m[s.next]]
        BY <2>2, <3>1, <3>2, MarksAreMarks
      <3>4. s.next \in Files
        BY <1>3, <3>2
      <3>5. folder'[s.next] = m[s.next] /\ \A i \in Files : i # s.next => folder'[i] = folder[i]
        BY <1>4, <3>3, <3>4
      <3>6. \A i \in Files : folder'[i] = IF i < s.next + 1 THEN m[i] ELSE None
        <4>1. ASSUME NEW i \in Files PROVE folder'[i] = IF i < s.next + 1 THEN m[i] ELSE None
          <5>1. i \in Nat /\ s.next \in Nat
            BY <1>2, <1>4
          <5>2. CASE i = s.next
            BY <5>1, <5>2, <3>5
          <5>3. CASE i # s.next
            <6>1. i < s.next + 1 <=> i < s.next
              BY <5>1, <5>3
            <6> QED
              BY <5>3, <6>1, <3>2, <3>5
          <5> QED
            BY <5>2, <5>3
        <4> QED
          BY <4>1
      <3>7. r.next \in 1..(Len(m) + 1)
        BY <1>2, <1>3, <2>3, <3>2
      <3>8. Mine(r) = m
        BY <2>3 DEF Mine
      <3> QED
        BY <2>3, <3>6, <3>7, <3>8 DEF Finds
    <2> QED
      BY <1>5, <2>1, <2>3, <2>4, <2>5
  <1> QED
    BY <1>1, <1>6, <1>7, <1>8

\* How far a lint is.
LEMMA BeforeType ==
    ASSUME TypeOK, NEW p \in Procs, proc[p].at \in LintAt, Way(proc[p])
    PROVE  /\ Done(proc[p]) \in 0..Len(proc[p].all)
           /\ Before(proc[p]) \in Seq(Templates) /\ Len(Before(proc[p])) \in Nat
           /\ proc[p].charts # <<>> => Done(proc[p]) \in 0..(Len(proc[p].all) - 1)
           /\ proc[p].charts = <<>> => Done(proc[p]) = Len(proc[p].all)
  <1> DEFINE s == proc[p]
  <1>1. s.charts \in Seq(DOMAIN Charts) /\ s.all \in Seq(DOMAIN Charts)
    BY LintRec
  <1>2. /\ Len(s.all) \in {1, 2} /\ Len(s.charts) \in Nat /\ Len(s.all) - Len(s.charts) >= 0
        /\ s.charts = <<>> <=> Len(s.charts) = 0
    BY <1>1 DEF Way, Done
  <1>3. /\ Len(s.all) - Len(s.charts) \in 0..Len(s.all)
        /\ s.charts # <<>> => Len(s.all) - Len(s.charts) \in 0..(Len(s.all) - 1)
        /\ s.charts = <<>> => Len(s.all) - Len(s.charts) = Len(s.all)
    <2>1. ASSUME NEW n \in {1, 2}, NEW c \in Nat, n - c >= 0
          PROVE  /\ n - c \in 0..n
                 /\ c # 0 => n - c \in 0..(n - 1)
                 /\ c = 0 => n - c = n
      BY <2>1
    <2> QED
      BY <1>2, <2>1
  <1>4. ASSUME NEW d \in 0..(Len(s.all) - 1) PROVE FirstTemplates(s.all, d) \in Seq(Templates)
    BY <1>1, <1>2, OneMoreChart
  <1>5. FirstTemplates(s.all, Len(s.all)) \in Seq(Templates)
    <2>1. Len(s.all) - 1 \in 0..(Len(s.all) - 1) /\ (Len(s.all) - 1) + 1 = Len(s.all)
      <3>1. \A n \in {1, 2} : n - 1 \in 0..(n - 1) /\ (n - 1) + 1 = n
        OBVIOUS
      <3> QED
        BY <1>2, <3>1
    <2> DEFINE d == Len(s.all) - 1
    <2>2. FirstTemplates(s.all, d + 1) \in Seq(Templates)
      BY <1>1, <1>2, <2>1, OneMoreChart
    <2> QED
      BY <2>1, <2>2
  <1>6. Before(s) \in Seq(Templates)
    <2>1. CASE s.charts = <<>>
      BY <1>3, <1>5, <2>1 DEF Before, Done
    <2>2. CASE s.charts # <<>>
      BY <1>3, <1>4, <2>2 DEF Before, Done
    <2> QED
      BY <2>1, <2>2
  <1>7. Len(Before(s)) \in Nat
    BY <1>6
  <1> QED
    BY <1>3, <1>6, <1>7 DEF Done

\* The folder is listed: it holds the manifests of this chart, and nothing else.
LEMMA ListFolderStep ==
    ASSUME TypeOK, LintInv, NEW p \in Procs, ListFolder(p)
    PROVE  LintInv'
  <1> DEFINE s == proc[p]
             m == Mine(s)
             o == {i \in DOMAIN folder : folder[i] # None}
             r == [s EXCEPT !.at = "name", !.old = o]
  <1>1. s.at = "list" /\ s.at \in InFolder /\ s.at \in LintAt /\ Goes(p, r) /\ UNCHANGED folder
    BY DEF ListFolder, InFolder, LintAt, files
  <1>2. /\ Way(s) /\ (~s.shared => Reported(s) /\ Finds(s, folder))
        /\ Linting(s) /\ o \in SUBSET Files
        /\ s = [at |-> s.at, kind |-> s.kind, charts |-> s.charts, all |-> s.all,
                errors |-> s.errors, old |-> s.old, next |-> s.next, linted |-> s.linted, shared |-> s.shared]
    BY <1>1, LintFacts, LintRec, FolderType
  <1>3. Len(m) \in Nat /\ \A i \in 1..Len(m) : i \in Files /\ m[i] \in Templates
    BY <1>1, LintFacts
  <1> HIDE DEF o
  <1>4. /\ r.at = "name" /\ r.charts = s.charts /\ r.all = s.all /\ r.errors = s.errors
        /\ r.linted = s.linted /\ r.shared = s.shared /\ r.old = o
    BY <1>2
  <1>5. Linting(r)
    BY <1>1, <1>2 DEF Linting, LintRecs, LintAt, InFolder
  <1> HIDE DEF r
  <1>6. Mine(r) = m
    BY <1>4 DEF Mine
  <1>7. ~s.shared => Reported(r) /\ Finds(r, folder')
    <2>1. SUFFICES ASSUME ~s.shared PROVE Reported(r) /\ Finds(r, folder')
      OBVIOUS
    <2>2. \A i \in Files : folder[i] = IF i <= Len(m) THEN m[i] ELSE None
      BY <1>1, <1>2, <2>1 DEF Finds
    <2>3. \A i \in Files : i \in Nat /\ i >= 1
      BY BoundsNat DEF Files
    <2>4. o = 1..Len(m)
      <3>1. ASSUME NEW i \in 1..Len(m) PROVE i \in o
        <4>1. i \in Files /\ m[i] \in Templates /\ i <= Len(m)
          BY <1>3
        <4> QED
          BY <4>1, <2>2, FolderType, MarksAreMarks DEF o
      <3>2. ASSUME NEW i \in o PROVE i \in 1..Len(m)
        <4>1. i \in Files /\ folder[i] # None
          BY FolderType DEF o
        <4> QED
          BY <4>1, <1>3, <2>2, <2>3
      <3> QED
        BY <3>1, <3>2
    <2>5. Handled(r) = {} /\ Handled(s) = {}
      BY <1>1, <1>4, <1>6, <2>4 DEF Handled
    <2>6. Reported(r)
      BY <1>1, <1>2, <1>4, <2>1, <2>5, SameReport
    <2> QED
      BY <1>1, <1>4, <1>6, <2>2, <2>4, <2>6 DEF Finds
  <1>8. LintOK(r, folder') /\ Ended(r)
    BY <1>2, <1>4, <1>7, SameWay DEF LintOK, Ended
  <1> QED
    BY <1>1, <1>4, <1>5, <1>8, InFolderStep DEF ProcOK

\* One more file is handled.
LEMMA OneMoreFile ==
    ASSUME NEW n \in Nat, NEW old \in SUBSET (1..n), NEW i \in old
    PROVE  /\ (1..n) \ (old \ {i}) = ((1..n) \ old) \cup {i}
           /\ Cardinality((1..n) \ old) \in Nat
           /\ Cardinality((1..n) \ (old \ {i})) = Cardinality((1..n) \ old) + 1
  <1>1. (1..n) \ (old \ {i}) = ((1..n) \ old) \cup {i}
    OBVIOUS
  <1>2. IsFiniteSet(1..n)
    BY FS_Interval
  <1>3. (1..n) \ old \in SUBSET (1..n)
    OBVIOUS
  <1>4. IsFiniteSet((1..n) \ old)
    BY <1>2, <1>3, FS_Subset
  <1>5. Cardinality((1..n) \ old) \in Nat
    BY <1>4, FS_CardinalityType
  <1>6. i \notin (1..n) \ old
    OBVIOUS
  <1> QED
    BY <1>1, <1>4, <1>5, <1>6, FS_AddElement

\* lint_path: one file is found, and reported on.
LEMMA LintPathStep ==
    ASSUME TypeOK, LintInv, NEW p \in Procs, NEW i \in DOMAIN folder, LintPath(p, i)
    PROVE  LintInv'
  <1> DEFINE s == proc[p]
             m == Mine(s)
             over == [s EXCEPT !.at = "name", !.old = @ \ {i}]
             bad == [over EXCEPT !.errors = TRUE]
             toArgo == [s EXCEPT !.at = "argo", !.next = i]
             toLabels == [s EXCEPT !.at = "labels", !.errors = @ \/ Unreadable(i) \/ ArgoErrors(folder[i])]
             fine == [over EXCEPT !.linted = Append(@, folder[i])]
  <1>1. /\ s.at \in {"name", "argo", "labels"} /\ s.at \in InFolder /\ s.at \in LintAt /\ UNCHANGED folder
        /\ i \in s.old /\ (s.at # "name" => s.next = i)
    BY DEF LintPath, InFolder, LintAt, files
  <1>2. /\ Way(s) /\ (~s.shared => Reported(s) /\ Finds(s, folder))
        /\ Linting(s) /\ s.next \in Nat /\ s.linted \in Seq(Templates) /\ s.old \in SUBSET Files
        /\ s.shared \in BOOLEAN
        /\ s = [at |-> s.at, kind |-> s.kind, charts |-> s.charts, all |-> s.all,
                errors |-> s.errors, old |-> s.old, next |-> s.next, linted |-> s.linted, shared |-> s.shared]
    BY <1>1, LintFacts, LintRec
  <1>3. Len(m) \in Nat /\ \A j \in 1..Len(m) : j \in Files /\ m[j] \in Templates
    BY <1>1, LintFacts
  <1>4. /\ over.at = "name" /\ over.charts = s.charts /\ over.all = s.all /\ over.errors = s.errors
        /\ over.linted = s.linted /\ over.shared = s.shared /\ over.old = s.old \ {i} /\ over.next = s.next
    BY <1>2
  <1>5. /\ bad.at = "name" /\ bad.charts = s.charts /\ bad.all = s.all /\ bad.errors = TRUE
        /\ bad.linted = s.linted /\ bad.shared = s.shared /\ bad.old = s.old \ {i} /\ bad.next = s.next
    BY <1>2
  <1>6. /\ toArgo.at = "argo" /\ toArgo.charts = s.charts /\ toArgo.all = s.all /\ toArgo.errors = s.errors
        /\ toArgo.linted = s.linted /\ toArgo.shared = s.shared /\ toArgo.old = s.old /\ toArgo.next = i
    BY <1>2
  <1>7. /\ toLabels.at = "labels" /\ toLabels.charts = s.charts /\ toLabels.all = s.all
        /\ toLabels.errors = (s.errors \/ Unreadable(i) \/ ArgoErrors(folder[i]))
        /\ toLabels.linted = s.linted /\ toLabels.shared = s.shared /\ toLabels.old = s.old /\ toLabels.next = s.next
    BY <1>2
  <1>8. /\ fine.at = "name" /\ fine.charts = s.charts /\ fine.all = s.all /\ fine.errors = s.errors
        /\ fine.linted = Append(s.linted, folder[i]) /\ fine.shared = s.shared /\ fine.old = s.old \ {i}
        /\ fine.next = s.next
    BY <1>2
  <1>9. /\ s.at = "name" => Goes(p, IF Unreadable(i) \/ ~folder[i].named THEN bad ELSE toArgo)
        /\ s.at = "argo" => Goes(p, toLabels)
        /\ s.at = "labels" => Goes(p, IF Unreadable(i) \/ LabelErrors(folder[i]) THEN bad ELSE fine)
    BY DEF LintPath
  <1> HIDE DEF over, bad, toArgo, toLabels, fine
  \* The process keeps its own part, and what is to be shown is what it reports if
  \* it has the folder to itself.
  <1>10. ASSUME NEW r, Goes(p, r), r.at \in {"name", "argo", "labels"}, r.charts = s.charts, r.all = s.all,
                r.shared = s.shared, ~s.shared => Reported(r) /\ Finds(r, folder)
         PROVE  LintInv'
    <2>1. \E q \in Procs : LintStep(q) /\ q = p
      BY DEF LintStep
    <2>2. TypeOK' /\ proc'[p] = r
      BY <1>10, <2>1, LintTypes DEF Goes, TypeOK
    <2>3. ProcOK(r)
      BY <2>2 DEF TypeOK
    <2>4. LintOK(r, folder') /\ Ended(r)
      BY <1>1, <1>2, <1>10, SameWay DEF LintOK, Ended
    <2> QED
      BY <1>1, <1>10, <2>3, <2>4, InFolderStep
  <1>11. CASE s.shared
    BY <1>1, <1>4, <1>5, <1>6, <1>7, <1>8, <1>9, <1>10, <1>11
  <1>12. CASE ~s.shared
    <2>1. /\ \A j \in Files : folder[j] = IF j <= Len(m) THEN m[j] ELSE None
          /\ s.old \subseteq 1..Len(m)
      BY <1>1, <1>2, <1>12 DEF Finds
    <2>2. i \in 1..Len(m) /\ i \in Files /\ folder[i] = m[i] /\ m[i] \in Templates
      BY <1>1, <1>3, <2>1
    <2>3. ~Unreadable(i)
      BY <2>2, MarksAreMarks DEF Unreadable
    <2>4. Reported(s)
      BY <1>2, <1>12
    <2>5. Handled(s) = (1..Len(m)) \ s.old
      BY <1>1 DEF Handled
    <2>6. /\ (1..Len(m)) \ (s.old \ {i}) = Handled(s) \cup {i} /\ Cardinality(Handled(s)) \in Nat
          /\ Cardinality((1..Len(m)) \ (s.old \ {i})) = Cardinality(Handled(s)) + 1
      <3>1. s.old \in SUBSET (1..Len(m)) /\ i \in s.old /\ Len(m) \in Nat
        BY <1>1, <1>3, <2>1
      <3>2. /\ (1..Len(m)) \ (s.old \ {i}) = ((1..Len(m)) \ s.old) \cup {i}
            /\ Cardinality((1..Len(m)) \ s.old) \in Nat
            /\ Cardinality((1..Len(m)) \ (s.old \ {i})) = Cardinality((1..Len(m)) \ s.old) + 1
        BY <3>1, OneMoreFile
      <3> QED
        BY <2>5, <3>2
    <2>7. Bad(m[i]) => Reported(bad) /\ Finds(bad, folder)
      <3>1. SUFFICES ASSUME Bad(m[i]) PROVE Reported(bad) /\ Finds(bad, folder)
        OBVIOUS
      <3>2. Mine(bad) = m /\ Before(bad) = Before(s) /\ Handled(bad) = Handled(s) \cup {i}
        BY <1>5, <2>6 DEF Mine, Before, Done, Handled
      <3>3. Reported(bad)
        BY <1>5, <2>4, <3>1, <3>2 DEF Reported
      <3>4. Finds(bad, folder)
        BY <1>5, <2>1, <3>2 DEF Finds
      <3> QED
        BY <3>3, <3>4
    <2>8. CASE s.at = "name"
      <3>1. CASE ~m[i].named
        <4>1. Bad(m[i])
          BY <3>1 DEF Bad
        <4> QED
          BY <1>5, <1>9, <1>10, <2>2, <2>7, <2>8, <3>1, <4>1
      <3>2. CASE m[i].named
        <4>1. Mine(toArgo) = m /\ Handled(toArgo) = Handled(s)
          BY <1>6, <2>5 DEF Mine, Handled
        <4>2. Reported(toArgo)
          BY <1>6, <2>4, <2>8, <4>1, SameReport
        <4>3. Finds(toArgo, folder)
          BY <1>1, <1>6, <2>1, <3>2, <4>1 DEF Finds
        <4> QED
          BY <1>6, <1>9, <1>10, <2>2, <2>3, <2>8, <3>2, <4>2, <4>3
      <3> QED
        BY <3>1, <3>2
    <2>9. CASE s.at = "argo"
      <3>1. Mine(toLabels) = m /\ Handled(toLabels) = Handled(s) /\ Before(toLabels) = Before(s)
        BY <1>7, <2>5 DEF Mine, Handled, Before, Done
      <3>2. toLabels.errors <=> s.errors \/ ArgoErrors(m[i])
        BY <1>7, <2>2, <2>3
      <3>3. s.next = i
        BY <1>1, <2>9
      <3>4. Reported(toLabels)
        BY <1>7, <2>4, <2>9, <3>1, <3>2, <3>3 DEF Reported
      <3>5. Finds(toLabels, folder)
        <4>1. m[s.next].named
          BY <1>2, <1>12, <2>9 DEF Finds
        <4> QED
          BY <1>1, <1>7, <2>1, <3>1, <3>3, <4>1 DEF Finds
      <3> QED
        BY <1>7, <1>9, <1>10, <2>9, <3>4, <3>5
    <2>10. CASE s.at = "labels"
      <3>1. s.next = i
        BY <1>1, <2>10
      <3>2. CASE LabelErrors(m[i])
        <4>1. Bad(m[i])
          BY <3>2 DEF Bad
        <4> QED
          BY <1>5, <1>9, <1>10, <2>2, <2>7, <2>10, <3>2, <4>1
      <3>3. CASE ~LabelErrors(m[i])
        <4>1. /\ Mine(fine) = m /\ Before(fine) = Before(s)
              /\ Handled(fine) = Handled(s) \cup {i} /\ Cardinality(Handled(fine)) = Cardinality(Handled(s)) + 1
          BY <1>8, <2>6 DEF Mine, Before, Done, Handled
        <4>2. Bad(m[i]) <=> ArgoErrors(m[i])
          <5>1. m[i].named
            BY <1>2, <1>12, <2>10, <3>1 DEF Finds
          <5> QED
            BY <3>3, <5>1 DEF Bad
        <4>3. /\ Len(fine.linted) = Len(s.linted) + 1 /\ Len(s.linted) \in Nat
              /\ ToSet(fine.linted) = ToSet(s.linted) \cup {m[i]}
          <5>1. /\ s.linted \in Seq(Templates) /\ fine.linted = Append(s.linted, m[i])
                /\ fine.linted \in Seq(Templates) /\ Len(fine.linted) = Len(s.linted) + 1
            BY <1>2, <1>8, <2>2, AppendProperties
          <5>2. \A k \in 1..Len(s.linted) : fine.linted[k] = s.linted[k]
            BY <5>1, AppendProperties
          <5>3. fine.linted[Len(s.linted) + 1] = m[i]
            BY <5>1, AppendProperties
          <5>4. DOMAIN fine.linted = 1..(Len(s.linted) + 1) /\ DOMAIN s.linted = 1..Len(s.linted) /\ Len(s.linted) \in Nat
            BY <5>1
          <5>5. 1..(Len(s.linted) + 1) = (1..Len(s.linted)) \cup {Len(s.linted) + 1}
            BY <5>4
          <5>6. ToSet(fine.linted) = ToSet(s.linted) \cup {m[i]}
            <6>1. ToSet(fine.linted) = {fine.linted[k] : k \in 1..(Len(s.linted) + 1)}
              BY <5>4 DEF ToSet
            <6>2. ToSet(s.linted) = {s.linted[k] : k \in 1..Len(s.linted)}
              BY <5>4 DEF ToSet
            <6>3. {fine.linted[k] : k \in 1..(Len(s.linted) + 1)}
                    = {fine.linted[k] : k \in 1..Len(s.linted)} \cup {fine.linted[Len(s.linted) + 1]}
              BY <5>5
            <6>4. {fine.linted[k] : k \in 1..Len(s.linted)} = {s.linted[k] : k \in 1..Len(s.linted)}
              BY <5>2
            <6> QED
              BY <5>3, <6>1, <6>2, <6>3, <6>4
          <5> QED
            BY <5>1, <5>4, <5>6
        <4>4. Reported(fine)
          <5>1. fine.errors <=> \/ \E t \in ToSet(Before(fine)) : Bad(t)
                                \/ \E j \in Handled(fine) : Bad(Mine(fine)[j])
                                \/ fine.at = "labels" /\ ArgoErrors(Mine(fine)[fine.next])
            BY <1>8, <2>4, <2>10, <3>1, <4>1, <4>2 DEF Reported
          <5>2. \A t \in ToSet(fine.linted) :
                   t \in ToSet(Before(fine)) \/ \E j \in Handled(fine) : t = Mine(fine)[j]
            BY <2>4, <4>1, <4>3 DEF Reported
          <5>3. ~fine.errors => Len(fine.linted) = Len(Before(fine)) + Cardinality(Handled(fine))
            <6>1. SUFFICES ASSUME ~fine.errors
                           PROVE  Len(fine.linted) = Len(Before(fine)) + Cardinality(Handled(fine))
              OBVIOUS
            <6>2. Len(s.linted) = Len(Before(s)) + Cardinality(Handled(s))
              BY <6>1, <1>8, <2>4 DEF Reported
            <6>3. Len(Before(s)) \in Nat
              BY <1>1, <1>2, BeforeType
            <6> QED
              BY <6>2, <6>3, <2>6, <4>1, <4>3
          <5> QED
            BY <5>1, <5>2, <5>3 DEF Reported
        <4>5. Finds(fine, folder)
          BY <1>8, <2>1, <4>1 DEF Finds
        <4> QED
          BY <1>8, <1>9, <1>10, <2>2, <2>3, <2>10, <3>3, <4>4, <4>5
      <3> QED
        BY <3>2, <3>3
    <2> QED
      BY <1>1, <2>8, <2>9, <2>10
  <1> QED
    BY <1>2, <1>11, <1>12

\* The chart is done: its templates are among those before.
LEMMA LintDoneStep ==
    ASSUME TypeOK, LintInv, NEW p \in Procs, LintDone(p)
    PROVE  LintInv'
  <1> DEFINE s == proc[p]
             m == Mine(s)
             r == [s EXCEPT !.at = "helm", !.charts = Tail(@)]
             d == Done(s)
  <1>1. s.at = "name" /\ s.at \in InFolder /\ s.at \in LintAt /\ s.old = {} /\ Goes(p, r) /\ UNCHANGED folder
    BY DEF LintDone, InFolder, LintAt, files
  <1>2. /\ Way(s) /\ (~s.shared => Reported(s))
        /\ s.charts \in Seq(DOMAIN Charts) /\ s.charts # <<>> /\ s.all \in Seq(DOMAIN Charts)
        /\ s = [at |-> s.at, kind |-> s.kind, charts |-> s.charts, all |-> s.all,
                errors |-> s.errors, old |-> s.old, next |-> s.next, linted |-> s.linted, shared |-> s.shared]
    BY <1>1, LintFacts, LintRec
  <1>3. m \in Seq(Templates) /\ Len(m) \in Nat
    BY <1>1, LintFacts
  <1>4. /\ r.at = "helm" /\ r.charts = Tail(s.charts) /\ r.all = s.all /\ r.errors = s.errors
        /\ r.linted = s.linted /\ r.shared = s.shared
    BY <1>2
  <1> HIDE DEF r
  <1>5. /\ Len(r.charts) = Len(s.charts) - 1 /\ Len(s.charts) \in Nat /\ Len(r.charts) \in Nat
        /\ \A j \in 1..Len(r.charts) : r.charts[j] = s.charts[j + 1]
    BY <1>2, <1>4, HeadTailProperties
  <1>6. d \in 0..(Len(s.all) - 1) /\ Before(s) \in Seq(Templates) /\ Len(s.all) \in {1, 2} /\ Len(s.all) \in Nat
    BY <1>1, <1>2, BeforeType DEF Way
  <1>7. Done(r) = d + 1
    <2>1. \A a, b \in Nat : a - (b - 1) = (a - b) + 1
      OBVIOUS
    <2>2. Done(r) = Len(s.all) - (Len(s.charts) - 1) /\ d = Len(s.all) - Len(s.charts)
      BY <1>4, <1>5 DEF Done
    <2> QED
      BY <1>5, <1>6, <2>1, <2>2
  <1>8. Way(r)
    <2>1. Done(r) >= 0
      BY <1>6, <1>7
    <2>2. ASSUME NEW j \in 1..Len(r.charts) PROVE r.charts[j] = r.all[Done(r) + j]
      <3>1. j + 1 \in 1..Len(s.charts) /\ d + (j + 1) = Done(r) + j
        <4>1. ASSUME NEW a \in Nat, NEW b \in Nat, NEW k \in 1..(b - 1)
              PROVE  k + 1 \in 1..b /\ a + (k + 1) = (a + 1) + k
          OBVIOUS
        <4>2. d \in Nat /\ Len(s.charts) \in Nat /\ j \in 1..(Len(s.charts) - 1)
          BY <1>5, <1>6
        <4> QED
          BY <1>7, <4>1, <4>2
      <3>2. s.charts[j + 1] = s.all[d + (j + 1)]
        BY <1>2, <3>1 DEF Way
      <3> QED
        BY <1>4, <1>5, <3>1, <3>2
    <2> QED
      BY <1>4, <1>6, <2>1, <2>2 DEF Way
  <1>9. ~s.shared => Reported(r)
    <2>1. SUFFICES ASSUME ~s.shared PROVE Reported(r)
      OBVIOUS
    <2>2. Head(s.charts) = s.all[d + 1]
      <3>1. 1 \in 1..Len(s.charts) /\ Head(s.charts) = s.charts[1]
        BY <1>2
      <3> QED
        BY <3>1, <1>2 DEF Way
    <2>3. Before(r) = Before(s) \o m
      BY <1>2, <1>4, <1>6, <1>7, <2>2, OneMoreChart DEF Before, Mine
    <2>4. Len(Before(r)) = Len(Before(s)) + Len(m) /\ ToSet(Before(r)) = ToSet(Before(s)) \cup {m[i] : i \in 1..Len(m)}
      BY <1>3, <1>6, <2>3, JoinedSet
    <2>5. Handled(s) = 1..Len(m) /\ Handled(r) = {}
      BY <1>1, <1>4 DEF Handled
    <2>6. Cardinality(1..Len(m)) = Len(m) /\ Cardinality({}) = 0
      BY <1>3, FS_Interval, FS_EmptySet
    <2>7. r.errors <=> \E t \in ToSet(Before(r)) : Bad(t)
      BY <1>1, <1>2, <1>4, <2>1, <2>4, <2>5 DEF Reported
    <2>8. \A t \in ToSet(r.linted) : t \in ToSet(Before(r))
      BY <1>2, <1>4, <2>1, <2>4, <2>5 DEF Reported
    <2>9. ~r.errors => Len(r.linted) = Len(Before(r)) + Cardinality(Handled(r))
      <3>1. ~r.errors => Len(r.linted) = Len(Before(s)) + Len(m)
        BY <1>2, <1>4, <2>1, <2>5, <2>6 DEF Reported
      <3>2. Len(Before(s)) \in Nat
        BY <1>6
      <3> QED
        BY <1>3, <2>4, <2>5, <2>6, <3>1, <3>2
    <2> QED
      BY <1>4, <2>5, <2>7, <2>8, <2>9 DEF Reported
  <1>10. LintOK(r, folder') /\ Ended(r)
    BY <1>4, <1>8, <1>9 DEF LintOK, Ended, InFolder
  <1>11. ProcOK(r)
    <2>1. TypeOK' /\ proc'[p] = r
      BY <1>1, LintTypes DEF LintStep, Goes, TypeOK
    <2> QED
      BY <2>1 DEF TypeOK
  <1> QED
    BY <1>1, <1>4, <1>10, <1>11, InFolderStep

\* helm_to_manifest: the end of a lint, an error, or the next chart.
LEMMA HelmStep ==
    ASSUME TypeOK, LintInv, NEW p \in Procs, HelmToManifest(p)
    PROVE  LintInv'
  <1> DEFINE s == proc[p]
  <1>1. s.at = "helm" /\ s.at \in LintAt /\ UNCHANGED folder
    BY DEF HelmToManifest, LintAt, files
  <1>2. /\ LintOK(s, folder)
        /\ s = [at |-> s.at, kind |-> s.kind, charts |-> s.charts, all |-> s.all,
                errors |-> s.errors, old |-> s.old, next |-> s.next, linted |-> s.linted, shared |-> s.shared]
        /\ s.shared \in BOOLEAN /\ s.errors \in BOOLEAN
    BY <1>1, LintRec DEF LintInv
  <1>3. Way(s) /\ (~s.shared => Reported(s))
    BY <1>1, <1>2 DEF LintOK
  <1>4. ASSUME NEW r, Goes(p, r), r.at = "exited", Ended(r) PROVE LintInv'
    <2>1. ProcOK(r)
      BY <1>4 DEF ProcOK, OtherAt
    <2>2. proc'[p] = r /\ \A q \in Procs \ {p} : proc'[q] = proc[q]
      BY <1>4, <2>1, Going
    <2>3. LintOK(r, folder')
      BY <1>4 DEF LintOK, LintAt, InFolder
    <2>4. Exclusive'
      BY <1>4, <2>2 DEF LintInv, Exclusive, InFolder
    <2> QED
      BY <1>1, <1>4, <2>2, <2>3, <2>4 DEF LintInv
  <1>5. CASE s.charts = <<>>
    <2> DEFINE r == [at |-> "exited", status |-> IF s.errors THEN 1 ELSE 0, shared |-> s.shared,
                     all |-> s.all, linted |-> s.linted]
    <2>1. Goes(p, r)
      BY <1>5 DEF HelmToManifest
    <2>2. /\ r.at = "exited" /\ r.shared = s.shared /\ r.all = s.all /\ r.linted = s.linted
          /\ r.status = 1 <=> s.errors
      BY <1>2
    <2> HIDE DEF r
    <2>3. ASSUME ~s.shared
          PROVE  /\ r.status = 1 <=> {t \in ToSet(AllTemplates(r.all)) : Bad(t)} # {}
                 /\ \A t \in ToSet(r.linted) : t \in ToSet(AllTemplates(r.all))
                 /\ {t \in ToSet(AllTemplates(r.all)) : Bad(t)} = {} => Len(r.linted) = Len(AllTemplates(r.all))
      <3>1. Before(s) = AllTemplates(r.all) /\ Len(Before(s)) \in Nat
        BY <1>1, <1>3, <1>5, <2>2, BeforeType DEF Before, AllTemplates
      <3>2. Handled(s) = {} /\ Cardinality({}) = 0
        BY <1>1, FS_EmptySet DEF Handled
      <3>3. s.errors <=> \E t \in ToSet(Before(s)) : Bad(t)
        BY <1>1, <1>3, <2>3, <3>2 DEF Reported
      <3>4. \A t \in ToSet(s.linted) : t \in ToSet(Before(s))
        BY <1>3, <2>3, <3>2 DEF Reported
      <3>5. ~s.errors => Len(s.linted) = Len(Before(s))
        BY <1>3, <2>3, <3>1, <3>2 DEF Reported
      <3> QED
        BY <2>2, <3>1, <3>3, <3>4, <3>5
    <2>4. Ended(r)
      BY <2>2, <2>3 DEF Ended
    <2> QED
      BY <1>4, <2>1, <2>2, <2>4
  <1>6. CASE s.charts # <<>> /\ Charts[Head(s.charts)] = <<>>
    <2>1. Goes(p, LintFails(s.kind))
      BY <1>6 DEF HelmToManifest
    <2>2. LintFails(s.kind).at = "exited" /\ Ended(LintFails(s.kind))
      BY Exits DEF LintFails, Ended
    <2> QED
      BY <1>4, <2>1, <2>2
  <1>7. CASE s.charts # <<>> /\ Charts[Head(s.charts)] # <<>>
    <2> DEFINE mine == [s EXCEPT !.at = "clean", !.shared = @ \/ Overlap(p), !.next = 1,
                                 !.old = {i \in DOMAIN folder : folder[i] # None}]
               warned(q) == [proc[q] EXCEPT !.shared = TRUE]
    <2>1. proc' = [q \in Procs |-> IF q = p THEN mine
                                   ELSE IF UsesFolder(proc[q]) THEN warned(q) ELSE proc[q]]
      BY <1>7 DEF HelmToManifest
    <2>2. /\ mine.at = "clean" /\ mine.charts = s.charts /\ mine.all = s.all /\ mine.errors = s.errors
          /\ mine.linted = s.linted /\ mine.next = 1 /\ mine.old = {i \in DOMAIN folder : folder[i] # None}
          /\ mine.shared = (s.shared \/ Overlap(p))
      BY <1>2
    <2>3. \A q \in Procs : UsesFolder(proc[q]) <=> proc[q].at \in InFolder
      BY DEF UsesFolder, InFolder
    <2>4. ASSUME NEW q \in Procs, proc[q].at \in InFolder
          PROVE  /\ warned(q).shared = TRUE /\ warned(q).at = proc[q].at
                 /\ LintOK(warned(q), folder') /\ Ended(warned(q))
      <3>1. /\ proc[q] = [at |-> proc[q].at, kind |-> proc[q].kind, charts |-> proc[q].charts, all |-> proc[q].all,
                          errors |-> proc[q].errors, old |-> proc[q].old, next |-> proc[q].next,
                          linted |-> proc[q].linted, shared |-> proc[q].shared]
            /\ Way(proc[q])
        BY <2>4, LintRec, LintFacts DEF LintAt
      <3>2. /\ warned(q).shared = TRUE /\ warned(q).at = proc[q].at
            /\ warned(q).charts = proc[q].charts /\ warned(q).all = proc[q].all
        BY <3>1
      <3> HIDE DEF warned
      <3> QED
        BY <2>4, <3>1, <3>2, SameWay DEF LintOK, Ended, InFolder
    <2> HIDE DEF mine, warned
    <2>5. proc'[p] = mine /\ \A q \in Procs \ {p} : proc'[q] = IF proc[q].at \in InFolder THEN warned(q) ELSE proc[q]
      BY <2>1, <2>3
    <2>6. Exclusive'
      <3>1. ASSUME NEW a \in Procs, NEW b \in Procs, a # b, proc'[a].at \in InFolder, proc'[b].at \in InFolder
            PROVE  proc'[a].shared
        <4>1. CASE a # p
          BY <2>4, <2>5, <3>1, <4>1
        <4>2. CASE a = p
          <5>1. b \in Procs \ {p} /\ proc[b].at \in InFolder
            BY <2>4, <2>5, <3>1, <4>2
          <5>2. Overlap(p)
            BY <2>3, <5>1 DEF Overlap
          <5> QED
            BY <2>2, <2>5, <4>2, <5>2
        <4> QED
          BY <4>1, <4>2
      <3> QED
        BY <3>1 DEF Exclusive
    <2>7. LintOK(mine, folder') /\ Ended(mine)
      <3>1. Way(mine)
        BY <1>3, <2>2, SameWay
      <3>2. ~mine.shared => Reported(mine)
        <4>1. Handled(mine) = Handled(s)
          BY <1>1, <2>2 DEF Handled
        <4> QED
          BY <1>1, <1>3, <2>2, <4>1, SameReport
      <3>3. Finds(mine, folder')
        BY <1>1, <2>2, FolderType DEF Finds
      <3> QED
        BY <2>2, <3>1, <3>2, <3>3 DEF LintOK, Ended
    <2>8. ASSUME NEW q \in Procs PROVE LintOK(proc'[q], folder') /\ Ended(proc'[q])
      <3>1. CASE q = p
        BY <2>5, <2>7, <3>1
      <3>2. CASE q # p /\ proc[q].at \in InFolder
        BY <2>4, <2>5, <3>2
      <3>3. CASE q # p /\ proc[q].at \notin InFolder
        BY <1>1, <2>5, <3>3 DEF LintInv
      <3> QED
        BY <3>1, <3>2, <3>3
    <2> QED
      BY <2>6, <2>8 DEF LintInv
  <1> QED
    BY <1>5, <1>6, <1>7

-----------------------------------------------------------------------------

IInv == TypeOK /\ LoginInv /\ LintInv

\* A lint that starts has reported on nothing.
LEMMA LintStarts ==
    ASSUME NEW f, NEW kind, NEW charts \in Seq(DOMAIN Charts), Len(charts) \in {1, 2}
    PROVE  LintOK([at |-> "helm", kind |-> kind, charts |-> charts, all |-> charts, errors |-> FALSE,
                   old |-> {}, next |-> 1, linted |-> <<>>, shared |-> FALSE], f)
  <1> DEFINE s == [at |-> "helm", kind |-> kind, charts |-> charts, all |-> charts, errors |-> FALSE,
                   old |-> {}, next |-> 1, linted |-> <<>>, shared |-> FALSE]
  <1>1. s.at = "helm" /\ s.charts = charts /\ s.all = charts /\ s.errors = FALSE /\ s.linted = <<>>
    OBVIOUS
  <1> HIDE DEF s
  <1>2. Done(s) = 0 /\ Before(s) = <<>> /\ Handled(s) = {}
    <2>1. Len(charts) - Len(charts) = 0
      OBVIOUS
    <2> QED
      BY <1>1, <2>1 DEF Done, Before, Handled, FirstTemplates
  <1>3. Way(s)
    <2>1. \A j \in 1..Len(charts) : 0 + j = j
      OBVIOUS
    <2> QED
      BY <1>1, <1>2, <2>1 DEF Way
  <1>4. Len(<<>>) = 0 /\ Cardinality({}) = 0 /\ ToSet(<<>>) = {}
    BY FS_EmptySet DEF ToSet
  <1>5. Reported(s)
    BY <1>1, <1>2, <1>4 DEF Reported
  <1> QED
    BY <1>1, <1>3, <1>5 DEF LintOK, InFolder, s

\* A command that starts.
LEMMA StartStep ==
    ASSUME IInv, NEW p \in Procs, Command(p)
    PROVE  IInv'
  <1>1. /\ TypeOK' /\ UNCHANGED <<folder, cache, login>>
        /\ \A q \in Procs \ {p} : proc'[q] = proc[q]
        /\ Started(proc'[p])
    BY Starting DEF IInv
  <1>2. LoginInv'
    <2>1. \A q \in Procs : proc'[q].at \notin Writing \cup {"exchange"} \/ proc'[q] = proc[q]
      BY <1>1 DEF Started, Writing
    <2> QED
      BY <1>1, <2>1, LoginElsewhere DEF IInv, login
  <1>3. LintInv'
    <2>1. CASE proc'[p].at # "helm"
      <3>1. proc'[p].at \notin LintAt
        BY <1>1, <2>1 DEF Started, LintAt, InFolder
      <3> QED
        BY <1>1, <3>1, LintElsewhere DEF IInv, Started
    <2>2. CASE proc'[p].at = "helm"
      <3>1. LintOK(proc'[p], folder')
        <4>1. PICK kind \in {"lint", "lint-config"}, charts \in Seq(DOMAIN Charts) :
                 /\ Len(charts) \in {1, 2}
                 /\ proc'[p] = [at |-> "helm", kind |-> kind, charts |-> charts, all |-> charts, errors |-> FALSE,
                                old |-> {}, next |-> 1, linted |-> <<>>, shared |-> FALSE]
          BY <1>1, <2>2 DEF Started
        <4> QED
          BY <4>1, LintStarts
      <3>2. Ended(proc'[p])
        BY <2>2 DEF Ended
      <3>3. Exclusive'
        BY <1>1, <2>2 DEF IInv, LintInv, Exclusive, InFolder
      <3> QED
        BY <1>1, <3>1, <3>2, <3>3 DEF IInv, LintInv
    <2> QED
      BY <2>1, <2>2
  <1> QED
    BY <1>1, <1>2, <1>3 DEF IInv

\* A step that ends or asks, and one of a login, has nothing to do with the folder.
LEMMA OtherStep ==
    ASSUME IInv, NEW p \in Procs
    PROVE  /\ Aside(p) => IInv'
           /\ Trying(p) => LintInv'
  <1>1. ASSUME Aside(p) PROVE IInv'
    <2>1. \A q \in Procs : proc'[q].at \notin Writing \cup {"exchange"} \/ proc'[q] = proc[q]
      BY <1>1 DEF Aside, Writing
    <2>2. LoginInv'
      BY <1>1, <2>1, LoginElsewhere DEF Aside, IInv
    <2>3. LintInv'
      BY <1>1, LintElsewhere DEF Aside, IInv, LintAt, InFolder
    <2> QED
      BY <1>1, <2>2, <2>3 DEF Aside, IInv
  <1>2. ASSUME Trying(p) PROVE LintInv'
    BY <1>2, LintElsewhere DEF Trying, IInv, LintAt, InFolder
  <1> QED
    BY <1>1, <1>2

\* A step of a lint.
LEMMA LintKeeps ==
    ASSUME IInv, NEW p \in Procs, LintStep(p)
    PROVE  IInv'
  <1>1. LintInv'
    BY HelmStep, CleanFolderStep, WriteManifestStep, ListFolderStep, LintPathStep, LintDoneStep
    DEF LintStep, IInv
  <1>2. /\ TypeOK' /\ UNCHANGED <<cache, login>>
        /\ \A q \in Procs : proc'[q].at \in LintAt \cup {"exited"} \/ proc'[q] = proc[q]
    BY LintTypes DEF IInv
  <1>3. \A q \in Procs : proc'[q].at \notin Writing \cup {"exchange"} \/ proc'[q] = proc[q]
    BY <1>2 DEF LintAt, InFolder, Writing
  <1>4. LoginInv'
    BY <1>2, <1>3, LoginElsewhere DEF IInv, login
  <1> QED
    BY <1>1, <1>2, <1>4 DEF IInv

LEMMA InitInv == Init => IInv
  <1> SUFFICES ASSUME Init PROVE IInv
    OBVIOUS
  <1>1. \A p \in Procs : proc[p].at = "idle"
    BY DEF Init, Idle
  <1>2. cache # None /\ cache \in [refresh: 0..1 \cup {None}] /\ cache.refresh = 1
    <2>1. 1 \in Nat /\ 1 \in 0..1 \cup {None}
      OBVIOUS
    <2> QED
      BY <2>1, Tokens DEF Init
  <1>3. TypeOK
    <2>1. proc = [p \in Procs |-> proc[p]] /\ \A p \in Procs : ProcOK(proc[p])
      BY <1>1 DEF Init, ProcOK, OtherAt
    <2> QED
      BY <1>2, <2>1 DEF Init, TypeOK, Contents
  <1>4. LoginInv
    BY <1>1, <1>2 DEF Init, LoginInv, TokensIssued, OneWriter, Spent, LoginKept, Writing
  <1>5. LintInv
    BY <1>1 DEF LintInv, Exclusive, LintOK, Ended, LintAt, InFolder
  <1> QED
    BY <1>3, <1>4, <1>5 DEF IInv

LEMMA NextInv == IInv /\ [Next]_vars => IInv'
  <1> SUFFICES ASSUME IInv, [Next]_vars PROVE IInv'
    OBVIOUS
  <1>1. ASSUME NEW p \in Procs, Step(p) PROVE IInv'
    <2>1. CASE LintStep(p)
      BY <2>1, LintKeeps
    <2>2. CASE GetAuthToken(p) \/ Exchange(p) \/ OpenCache(p) \/ SaveCache(p)
      <3>1. Trying(p) /\ LoginInv'
        BY <2>2, GetAuthTokenStep, ExchangeStep, OpenCacheStep, SaveCacheStep DEF IInv
      <3> QED
        BY <3>1, OtherStep DEF IInv, Trying
    <2>3. CASE Query(p) \/ CopyDirectory(p) \/ FileFails(p)
      BY <2>3, AsideSteps, OtherStep DEF IInv
    <2> QED
      BY <1>1, <2>1, <2>2, <2>3 DEF Step, LintStep
  <1>2. ASSUME NEW p \in Procs, Killed(p) \/ \E line \in {"y", "n", "what"} : Prompt(p, line) PROVE IInv'
    BY <1>2, AsideSteps, OtherStep DEF IInv
  <1>3. CASE AccessExpires \/ UNCHANGED vars
    <2>1. UNCHANGED <<proc, folder, cache, issued, doubt>>
      BY <1>3 DEF AccessExpires, vars, files
    <2>2. TypeOK'
      BY <2>1 DEF IInv, TypeOK
    <2>3. LoginInv' /\ LintInv'
      BY <2>1, LoginElsewhere, LintElsewhere DEF IInv
    <2> QED
      BY <2>2, <2>3 DEF IInv
  <1>4. CASE Login
    <2>1. TypeOK' /\ LoginInv' /\ UNCHANGED <<proc, folder>>
      BY <1>4, UserLogin DEF IInv
    <2> QED
      BY <2>1, LintElsewhere DEF IInv
  <1> QED
    BY <1>1, <1>2, <1>3, <1>4, StartStep DEF Next

LEMMA Invariant == Spec => []IInv
  BY InitInv, NextInv, PTL DEF Spec

\* For any number of processes, charts and templates: a lint that had the folder
\* to itself reports on the templates of its charts and nothing else
\* (write_to_clean_folder, lint_path, lint_from_config).
THEOREM LintsOwnHolds == Spec => []LintsOwn
  <1>1. IInv => LintsOwn
    BY DEF IInv, LintInv, Ended, LintsOwn
  <1> QED
    BY <1>1, Invariant, PTL

\* For any number of processes and logins: the file keeps the refresh token the
\* provider will take next, with the exceptions LoginKept names
\* (use_refresh_token).
THEOREM LoginKeptHolds == Spec => []LoginKept
  BY Invariant, PTL DEF IInv, LoginInv
=============================================================================

---------------------------- MODULE WorkflowsCli ----------------------------
(***************************************************************************)
(* workflows-cli (workflows-cli/src): several processes on one machine,    *)
(* which share the folder /tmp/argo-lint (linter/helm.rs) and the cached   *)
(* token file of the cluster login (auth.rs).                              *)
(*                                                                         *)
(* External: helm and argo, the identity provider, the file system.        *)
(*                                                                         *)
(* Abstractions.  A template is what the linters tell apart.  File i of    *)
(* the folder is workflow_i.yaml.  Access and refresh tokens of one answer *)
(* have one number.                                                        *)
(***************************************************************************)
EXTENDS Naturals, Sequences, FiniteSets, SequencesExt

CONSTANTS
    None,
    Unparsed,   \* the content of a file that is created and not, or not properly, written
    Procs,      \* processes
    Charts,     \* Charts[c]: the templates helm renders for chart c; <<>> if helm fails
    Rules,      \* the critical rules of .workflow_metadata_ruleset.yaml
    MaxFiles,   \* bound: manifests of one chart
    MaxTokens,  \* bound: answers of the provider
    MaxRuns     \* bound: commands started

ASSUME BoundsNat == MaxFiles \in Nat /\ MaxTokens \in Nat /\ MaxRuns \in Nat

Files == 1..MaxFiles
Templates == UNION {ToSet(Charts[c]) : c \in DOMAIN Charts}

\* A chart is a list of templates, and the two marks of a file and of a token that
\* is not there are neither templates nor tokens.
ASSUME ChartsAreLists == \A c \in DOMAIN Charts : Charts[c] \in Seq(Templates) /\ Len(Charts[c]) <= MaxFiles
ASSUME MarksAreMarks ==
    /\ None # Unparsed /\ {None, Unparsed} \cap Templates = {}
    /\ None \notin Nat /\ None \notin [refresh: Nat \cup {None}]

VARIABLES
    proc,     \* proc[p]: the command p runs
    folder,   \* folder[i]: the content of file i, or None
    cache,    \* the cached token file: its tokens, or None while it is being written
    issued,   \* answers of the provider so far; the latest refresh token is valid
    expired,  \* the access token in the file has expired
    repo,     \* the template repository of `create`
    runs,     \* counter for the bound
    doubt     \* history: why the cached login may be lost

vars == <<proc, folder, cache, issued, expired, repo, runs, doubt>>
files == <<folder, cache, repo>>
login == <<issued, expired, doubt>>

Idle == [at |-> "idle"]
Exit(status) == [at |-> "exited", status |-> status]

Goes(p, s) == proc' = [proc EXCEPT ![p] = s]

\* A command starts; ensure_cli has found helm and argo.
Starts(p, s) == proc[p].at \in {"idle", "exited"} /\ runs < MaxRuns /\ runs' = runs + 1 /\ Goes(p, s)

(***************************************************************************)
(* The rules.                                                              *)
(***************************************************************************)

\* RequiredKey::check.
HasKey(r, t) == r.key \in DOMAIN t[r.location]

\* Stem::check: one of the options at least, and each that is there is a boolean.
HasStem(r, t) ==
    LET there == {o \in r.options : o \in DOMAIN t[r.location]}
    IN  there # {} /\ \A o \in there : t[r.location][o] \in {"true", "false"}

Check(r, t) == IF r.type = "requiredKey" THEN HasKey(r, t) ELSE HasStem(r, t)

\* LabelChecker::lint: missing labels or annotations are an error of their own.
LabelErrors(t) == t.labels = None \/ t.annotations = None \/ \E r \in Rules : ~Check(r, t)

\* ArgoCLI::lint: the lines argo prints; its exit status is not looked at.
ArgoErrors(t) == ~t.valid

\* What lint_path reports on: a template without a name, and what the linters find.
Bad(t) == ~t.named \/ ArgoErrors(t) \/ LabelErrors(t)

(***************************************************************************)
(* lint and lint-config.                                                   *)
(***************************************************************************)

\* History: this process and another one use the folder at the same time.
UsesFolder(s) == s.at \in {"clean", "write", "fill", "list", "name", "argo", "labels"}
Overlap(p) == \E q \in Procs \ {p} : UsesFolder(proc[q])

\* A lint error that is not about a template: `lint` prints it and exits with 0,
\* `lint-config` with 1.
LintFails(kind) == Exit(IF kind = "lint" THEN 0 ELSE 1)

Lint(p, kind, charts) ==
    /\ Starts(p, [at |-> "helm", kind |-> kind, charts |-> charts, all |-> charts, errors |-> FALSE,
                  old |-> {}, next |-> 1, linted |-> <<>>, shared |-> FALSE])
    /\ UNCHANGED <<files, login>>

\* Manifests of the user's own directory are linted where they are.
LintManifests(p, ts) ==
    /\ Starts(p, Exit(IF \E t \in ToSet(ts) : Bad(t) THEN 1 ELSE 0))
    /\ UNCHANGED <<files, login>>

\* helm_to_manifest; no output at all is an error, whatever helm's exit status.
HelmToManifest(p) ==
    LET s == proc[p] IN
    /\ s.at = "helm"
    /\ IF s.charts = <<>>
       THEN Goes(p, [at |-> "exited", status |-> IF s.errors THEN 1 ELSE 0, shared |-> s.shared,
                     all |-> s.all, linted |-> s.linted])
       ELSE IF Charts[Head(s.charts)] = <<>> THEN Goes(p, LintFails(s.kind))
       ELSE proc' = [q \in Procs |->
              IF q = p THEN [s EXCEPT !.at = "clean", !.shared = @ \/ Overlap(p), !.next = 1,
                                      !.old = {i \in DOMAIN folder : folder[i] # None}]
              ELSE IF UsesFolder(proc[q]) THEN [proc[q] EXCEPT !.shared = TRUE] ELSE proc[q]]
    /\ UNCHANGED <<files, login, runs>>

\* Mutant: what is in the folder is overwritten and not removed.
CleanNothing(p) ==
    LET s == proc[p] IN
    /\ s.at = "clean"
    /\ Goes(p, [s EXCEPT !.at = "write"])
    /\ UNCHANGED <<files, login, runs>>

\* write_to_clean_folder: every file listed before is removed; one that somebody
\* else has removed meanwhile is skipped.
CleanFolder(p) ==
    LET s == proc[p] IN
    /\ s.at = "clean"
    /\ IF s.old = {} THEN Goes(p, [s EXCEPT !.at = "write"]) /\ UNCHANGED folder
       ELSE \E i \in s.old : folder' = [folder EXCEPT ![i] = None] /\ Goes(p, [s EXCEPT !.old = @ \ {i}])
    /\ UNCHANGED <<cache, repo, login, runs>>

\* ... and the manifests are written, each by creating its file and filling it; of
\* two writers of one file each may spoil what the other wrote, and what is written
\* to a file that has been removed meanwhile is lost.
WriteManifest(p) ==
    LET s == proc[p]
        manifests == Charts[Head(s.charts)]
    IN  /\ s.at \in {"write", "fill"}
        /\ IF s.next > Len(manifests) THEN Goes(p, [s EXCEPT !.at = "list"]) /\ UNCHANGED folder
           ELSE IF s.at = "write"
           THEN folder' = [folder EXCEPT ![s.next] = Unparsed] /\ Goes(p, [s EXCEPT !.at = "fill"])
           ELSE /\ \E content \in {manifests[s.next]}
                              \cup (IF s.shared THEN {folder[s.next], Unparsed} ELSE {}) :
                      folder' = [folder EXCEPT ![s.next] = IF @ = None THEN None ELSE content]
                /\ Goes(p, [s EXCEPT !.at = "write", !.next = @ + 1])
        /\ UNCHANGED <<cache, repo, login, runs>>

\* lint_from_manifest: every file that is in the folder now.
ListFolder(p) ==
    LET s == proc[p] IN
    /\ s.at = "list"
    /\ Goes(p, [s EXCEPT !.at = "name", !.old = {i \in DOMAIN folder : folder[i] # None}])
    /\ UNCHANGED <<files, login, runs>>

Unreadable(i) == folder[i] = None \/ folder[i] = Unparsed

\* lint_path, one file: its name, argo, the labels.  The file is opened for each;
\* what cannot be read or has no name ends the path with an error, except under
\* argo, which prints one.
LintPath(p, i) ==
    LET s == proc[p]
        over == [s EXCEPT !.at = "name", !.old = @ \ {i}]
        bad == [over EXCEPT !.errors = TRUE]
    IN  /\ s.at \in {"name", "argo", "labels"} /\ i \in s.old
        /\ s.at # "name" => s.next = i
        /\ Goes(p, CASE s.at = "name" -> IF Unreadable(i) \/ ~folder[i].named THEN bad
                                         ELSE [s EXCEPT !.at = "argo", !.next = i]
                     [] s.at = "argo" -> [s EXCEPT !.at = "labels",
                                                   !.errors = @ \/ Unreadable(i) \/ ArgoErrors(folder[i])]
                     [] OTHER -> IF Unreadable(i) \/ LabelErrors(folder[i]) THEN bad
                                 ELSE [over EXCEPT !.linted = Append(@, folder[i])])
        /\ UNCHANGED <<files, login, runs>>

\* The next chart of a config, or the end: print_and_exit.
LintDone(p) ==
    LET s == proc[p] IN
    /\ s.at = "name" /\ s.old = {}
    /\ Goes(p, [s EXCEPT !.at = "helm", !.charts = Tail(@)])
    /\ UNCHANGED <<files, login, runs>>

(***************************************************************************)
(* trigger-create: a token from the cache, refreshed if need be.           *)
(***************************************************************************)

TriggerCreate(p) == Starts(p, [at |-> "token"]) /\ UNCHANGED <<files, login>>

\* get_auth_token.
GetAuthToken(p) ==
    /\ proc[p].at = "token"
    /\ Goes(p, IF cache = None THEN Exit(0)
               ELSE IF expired /\ cache.refresh = None THEN Exit(0)
               ELSE IF ~expired THEN [at |-> "query"]
               ELSE [at |-> "exchange", refresh |-> cache.refresh])
    /\ UNCHANGED <<files, login, runs>>

\* create_oidc_client and exchange_refresh_token.  A provider that cannot be reached
\* (a panic while the client is made, status 101) or that refuses leaves the tokens
\* as they are; a rotated one may be lost with its answer; an answer without a
\* refresh token may or may not have rotated it.
Exchange(p) ==
    /\ proc[p].at = "exchange"
    /\ \/ (\E status \in {0, 101} : Goes(p, Exit(status))) /\ UNCHANGED <<issued, doubt>>
       \/ /\ proc[p].refresh = issued /\ issued < MaxTokens
          /\ \/ /\ issued' = issued + 1
                /\ \/ Goes(p, [at |-> "open", answer |-> issued + 1]) /\ doubt' = doubt \cup {"writing"}
                   \/ Goes(p, Exit(0)) /\ doubt' = doubt \cup {"lost"}
             \/ /\ issued' \in {issued, issued + 1}
                /\ Goes(p, [at |-> "open", answer |-> None]) /\ doubt' = doubt \cup {"writing", "omitted"}
    /\ UNCHANGED <<files, expired, runs>>

\* Mutant: the refresh token that was cached is kept.
KeepCached(answer) == [refresh |-> issued - 1]

\* The tokens that are written: those of the answer, as they are.
NewCachedTokens(answer) == [refresh |-> answer]

\* fs::write: the file is emptied, then filled.
OpenCache(p) ==
    /\ proc[p].at = "open"
    /\ cache' = None /\ Goes(p, [proc[p] EXCEPT !.at = "save"])
    /\ UNCHANGED <<folder, repo, login, runs>>

SaveCache(p) ==
    /\ proc[p].at = "save"
    /\ cache' = NewCachedTokens(proc[p].answer) /\ expired' = FALSE
    /\ doubt' = doubt \ {"writing"}
    /\ Goes(p, [at |-> "query"])
    /\ UNCHANGED <<folder, repo, issued, runs>>

\* What can fail of the file system: removing, creating and writing a manifest,
\* listing the folder, reading and writing the token file.
FileFails(p) ==
    /\ \/ proc[p].at \in {"clean", "write", "fill", "list"} /\ Goes(p, LintFails(proc[p].kind))
       \/ proc[p].at \in {"token", "open", "save"} /\ Goes(p, Exit(0))
    /\ UNCHANGED <<files, login, runs>>

\* submit_graph_query and its answer, an error included: exit status 0.
Query(p) == proc[p].at = "query" /\ Goes(p, Exit(0)) /\ UNCHANGED <<files, login, runs>>

AccessExpires == ~expired /\ expired' = TRUE /\ UNCHANGED <<proc, files, issued, runs, doubt>>

\* The user logs in again with kubectl, which writes the same file, perhaps just
\* before a process that has not saved its answer yet.
Login ==
    /\ issued < MaxTokens
    /\ issued' = issued + 1 /\ cache' = [refresh |-> issued + 1] /\ expired' = FALSE
    /\ doubt' = IF \E p \in Procs : proc[p].at \in {"open", "save"} THEN {"raced"} ELSE {}
    /\ UNCHANGED <<proc, folder, repo, runs>>

\* A process is killed.
Killed(p) ==
    /\ proc[p].at \notin {"idle", "exited"}
    /\ Goes(p, Idle)
    /\ UNCHANGED <<files, login, runs>>

(***************************************************************************)
(* submit and create.                                                      *)
(***************************************************************************)

\* submit: one manifest, turned into a Workflow with a generated name; argo may
\* refuse it.
Submit(p, c) ==
    /\ \E argo \in BOOLEAN : Starts(p, Exit(IF Len(Charts[c]) = 1 /\ argo THEN 0 ELSE 1))
    /\ UNCHANGED <<files, login>>

Parts == <<"manifest", "helm">>

\* create: the repository must be new.  Then, part by part, its folder is copied if
\* a flag asks for it, or the user does.
Create(p, flags) ==
    /\ IF repo # None THEN Starts(p, Exit(1)) /\ UNCHANGED repo
       ELSE Starts(p, [at |-> "ask", rest |-> Parts, flags |-> flags, typed |-> FALSE]) /\ repo' = {}
    /\ UNCHANGED <<folder, cache, login>>

Asks(p) == proc[p].at = "ask" /\ Head(proc[p].rest) \notin proc[p].flags

\* The next part, or the end.
PartDone(s) == IF Len(s.rest) = 1 THEN Exit(0) ELSE [s EXCEPT !.rest = Tail(@)]

\* prompt: the lines of one question are added to one buffer, so that after a line
\* that is no answer none ever is.
Prompt(p, line) ==
    LET s == proc[p] IN
    /\ Asks(p)
    /\ Goes(p, CASE s.typed \/ line \notin {"y", "n"} -> [s EXCEPT !.typed = TRUE]
                 [] line = "n" -> PartDone(s)
                 [] OTHER -> [s EXCEPT !.flags = @ \cup {Head(s.rest)}])
    /\ UNCHANGED <<files, login, runs>>

\* copy_directory: what cannot be copied is reported and left out.
CopyDirectory(p) ==
    /\ proc[p].at = "ask" /\ ~Asks(p)
    /\ \E copied \in SUBSET {Head(proc[p].rest)} : repo' = repo \cup copied
    /\ Goes(p, PartDone(proc[p]))
    /\ UNCHANGED <<folder, cache, login, runs>>

Init ==
    /\ proc = [p \in Procs |-> Idle]
    /\ folder = [i \in Files |-> None]
    /\ cache = [refresh |-> 1] /\ issued = 1 /\ expired = FALSE
    /\ repo = None /\ runs = 0 /\ doubt = {}

Step(p) ==
    \/ HelmToManifest(p) \/ CleanFolder(p) \/ WriteManifest(p) \/ ListFolder(p)
    \/ \E i \in DOMAIN folder : LintPath(p, i)
    \/ LintDone(p)
    \/ GetAuthToken(p) \/ Exchange(p) \/ OpenCache(p) \/ SaveCache(p) \/ Query(p)
    \/ CopyDirectory(p) \/ FileFails(p)

Command(p) ==
    \/ \E c \in DOMAIN Charts : Lint(p, "lint", <<c>>) \/ LintManifests(p, Charts[c]) \/ Submit(p, c)
    \/ \E c, d \in DOMAIN Charts : c # d /\ Lint(p, "lint-config", <<c, d>>)
    \/ TriggerCreate(p)
    \/ \E flags \in SUBSET ToSet(Parts) : Create(p, flags)

Next ==
    \/ \E p \in Procs : Command(p) \/ Step(p) \/ Killed(p)
    \/ \E p \in Procs, line \in {"y", "n", "what"} : Prompt(p, line)
    \/ AccessExpires \/ Login

Spec == Init /\ [][Next]_vars

(***************************************************************************)
(* Properties.                                                             *)
(***************************************************************************)

\* The templates of the first n of some charts (of one with `lint`, of two with
\* `lint-config`).
FirstTemplates(charts, n) ==
    IF n = 0 THEN <<>> ELSE IF n = 1 THEN Charts[charts[1]] ELSE Charts[charts[1]] \o Charts[charts[2]]

AllTemplates(charts) == FirstTemplates(charts, Len(charts))

\* A lint that had /tmp/argo-lint to itself reports on exactly the templates of its
\* own charts, whatever earlier lints left there, and its status says whether one
\* of them is bad.  (With another lint at work at the same time it can report on
\* the other's templates, or fail on files that come and go.)
LintsOwn ==
    \A p \in Procs : LET s == proc[p] IN
        s.at = "exited" /\ "linted" \in DOMAIN s /\ ~s.shared =>
            LET own == AllTemplates(s.all)
                bad == {t \in ToSet(own) : Bad(t)}
            IN  /\ s.status = 1 <=> bad # {}
                /\ \A t \in ToSet(s.linted) : t \in ToSet(own)
                /\ bad = {} => Len(s.linted) = Len(own)

\* The login outlives the processes that use it: the file holds the refresh token
\* the provider will accept next, unless since the last login a process was writing
\* it (and perhaps died), an answer was lost, an answer came without one, or that
\* login itself raced with a process.
LoginKept == doubt = {} => cache # None /\ cache.refresh = issued
=============================================================================

# TLA+ models of the Diamond Workflows platform

This directory holds a verification project for the programs of this
repository: TLA+ modules translated from the code, TLC configurations that
check them on small instances, and theorems checked by TLAPS. `PROJECT.json` is
the index: components, runs, mutants, the map from definitions to source lines,
findings, hazards and theorems.

## 1. The system

| Component | State it keeps | Operations | Talks to |
|---|---|---|---|
| auth-core (`backend/auth-core`) | table `oidc_tokens`: one row per subject with an encrypted refresh token and `expires_at` | read, write (upsert, 30 days), delete, exists; `exchange_refresh_token`; middleware `inject_token_with` | Postgres, OIDC provider |
| auth-broker (`backend/auth-broker`) | token cache, subject cache, map of per-subject refresh locks | `get_or_refresh_token`, lock cleaner, `authorize_request` | table, provider, Kubernetes API |
| auth-gateway (`backend/auth-gateway`) | browser sessions in memory (pending login, token) | login, callback, logout, status, userinfo, proxied requests | table, provider, graph-proxy |
| auth-daemon (`backend/auth-daemon`) | one token in memory, read from the table at start | proxied requests with refresh and retry | table, provider, graph-proxy |
| sessionspaces (`backend/sessionspaces`) | `current_sessions`, in memory | periodic fetch, create / configure / delete namespaces | ISPyB, LDAP, Kubernetes API |
| events: STOMP source (`charts/events/generic-servers`) | expiring dictionary of start messages, queue | `on_message`, `StartEventSource` | STOMP broker, Argo Events |
| events: trigger controller (`charts/events/hooks/sync.py`) | none (a hook) | sync, customize | metacontroller |
| identity-mapper (`backend/identity-mapper`) | `UserIdentity` objects in the cluster | one reconciliation pass per run | LDAP, Kubernetes API |
| graph-proxy (`backend/graph-proxy`) | the provider's keys, fetched once; open websockets | GraphQL queries, mutations, subscriptions | Argo server, S3, provider |
| frontend (`frontend/*`) | Relay store, UI state | live workflow views, submission forms | auth-gateway, graph-proxy |
| workflows-cli (`workflows-cli`) | cached token file, `/tmp/argo-lint` | submit, lint, create, triggers | provider, graph-proxy, local programs |
| telemetry, argo-workflows-openapi, Helm charts | none of their own | configuration, generated types | |

How they meet. A user logs in at the gateway, which stores a refresh token in
the table. A workflow pod reaches the graph either through an auth-daemon
sidecar, which copied the token once, or through a proxy that asks the broker
(`authorize_request`) for a bearer token of the workflow's creator. Gateway,
daemon and broker all exchange the refresh token and overwrite the same row,
and depending on the realm the provider keeps, rotates or revokes the token
they used. sessionspaces and identity-mapper are controllers that bring cluster
objects in line with external sources. The STOMP source turns messages of the
beamlines into events, from which sensors start workflows.

What is hard here, and what correctness means:

* **token refresh**: concurrent refreshes, rotation, a failure between exchange
  and write. Correct: a user's stored token is never lost without a fault, one
  refresh at a time, locks given back, calls answered.
* **authorization**: pod and workflow names are used again while requests run
  and answers are cached. Correct: a pod gets its own creator's token or none.
* **sessions and logout**: three writers and no coordination. Correct: nobody
  holds a token the table has not seen, and the row's token is one the provider
  takes, or its successor is on its way.
* **reconciliation**: failed and unacknowledged requests, namespaces that
  terminate slowly, restarts. Correct: memory is true, deletion only when the
  source really dropped the session, convergence.
* **event matching**: redelivery, capacity; a Sensor that follows triggers
  people edit. Correct: order kept, a start merged once, a recent start found,
  an event starts the workflows meant for it and no others.
* **membership and identities**: several queries to sources that change in
  between; passes that stop midway. Correct: nobody is a member who never was
  entitled, identities end up as LDAP says.
* **the graph**: offsets into lists that move, names used again, mutations that
  are retried, tokens and keys that grow old while a connection stays open, logs
  cut anywhere. Correct: pages add up, tasks belong to their workflow, nothing is
  submitted twice without a lost answer, no data after a token's end.
* **the command line tool**: processes that share a folder and a login. Correct:
  a lint reports on its own charts, a login outlives the processes that use it.

The hazards, each at its line, are listed in `PROJECT.json`.

## 2. Modules

    TokenStore ─┬─ TokenBroker ── TokenBroker_proofs, MC_TokenBroker
                │      └─ implements SingleFlight
                └─ InjectToken ── AuthGateway ── AuthSystem ── AuthSystem_proofs, MC_AuthSystem
    ExtAuthz ── ExtAuthz_proofs, MC_ExtAuthz
    SourceBounds ── SessionSpaces ──────────────┬─ Sessions_proofs
    SourceBounds, Instruments ── Ldap           │
      Ldap ─┬─ Permissionables ─┬─ Directory ───┘  (MC_Directory)
            └─ IdentityMapper ──┘
    StompEvents ─┬─ Events ── Events_proofs, MC_Events
    TriggerSync ─┘
    GraphFilters ── GraphTemplates ── GraphQueries ── GraphQueries_proofs, MC_GraphQueries
    GraphStream ── GraphStream_proofs, MC_GraphStream
    WorkflowsCli ── WorkflowsCli_proofs, MC_WorkflowsCli

An action is the code between two awaits. Every error return has an action of
its own or a disjunct, and a request to another service can fail before it has
acted, or act and fail to say so. Variables named *history* in their
declarations are not in the code; they record what a property speaks of.
Operators introduced by "Mutant:" are plausible wrong versions of the definition
that follows; no specification uses them.

**TokenStore** (`auth-core/src/database.rs`, `oidc.rs`). `db[s]` is the row of
subject `s`, with `fresh` for "`expires_at` not passed"; `issued` and `live` are
the provider's side: which refresh tokens exist and which it accepts. `Grant` is
the refresh grant with the three things a provider may do.

**TokenBroker** (`auth-broker/src/state.rs`). `pc[c]` is the await at which call
`c` stands: `check` (first cache look-up), `getlock`, `wait`, `recheck`, `read`,
`exchange`, `write`, `insert`. `holder` is the owner of each mutex,
`refresh_locks` the DashMap, `todo` and `stale` the cleaner's scan. `Drop` is a
future dropped at an await. `split` records subjects whose lock the cleaner
removed while a call used it, which the code allows: `SingleRefresh` and
`NoRedundantRefresh` hold up to that, `RefreshTokenKept` holds even then. The
cleaner's scan takes the keys present when it wakes.

**InjectToken** (`auth-core/src/middleware/inject_token.rs` with the stores of
gateway and daemon). A request loads its copy of the token, may refresh, calls
upstream, may refresh and retry once. The gateway's copy is the session record,
stored as a whole when the response is ready and is not a server error; the
daemon's is stored by `save_token` at once.

**AuthGateway** (`auth-gateway/src/{login,callback,main}.rs`): login, callback
and logout, each step of each handler, on a copy of the session record.

**AuthSystem** composes these with the broker (reduced to read, exchange, write
of one call at a time; its locks are TokenBroker's subject) and the daemon's
start and stop around one table.

**ExtAuthz** (`auth-broker/src/ext_authz`): `authorize_request_inner`, step by
step, in a cluster in which workflows and pods come, go and reuse names. Pod
instances are numbered, and a pod's number is its uid. `carries[r]` says whether
the service account token names the pod's uid, which the code treats as
optional. `mixed` records pods whose workflow was looked up after the workflow's
name had been used again: the look-up is by name only. There are two ways to
another creator's token, that one and a token that carries no pod uid, whose pod is
looked up by name only; the properties except both (`Claimed`).

**SessionSpaces** (`sessionspaces/src`): the loop of `main`, fetch from ISPyB,
then from LDAP, the match of `update_sessionspace`, its requests, and the
cluster's own behaviour with terminating namespaces. `damaged` records names
that a failed configure request, a patch of a terminating namespace, an
unacknowledged request or a restart left in doubt. **SourceBounds** declares the
bounds that this model and the next share.

**StompEvents** (`charts/events/generic-servers/stomp-server.py`): listener
thread, dictionary, queue and servicer. `ExpirySeconds` is the code's
expression `60^2 * 24` as Python evaluates it, with `^` the exclusive or `Xor`,
a recursive function on naturals. ExpiringDict is a library and is modelled
by what its operations that the server uses do: an assignment to a full dictionary forgets
the oldest key, or the key itself if it is there, and both if that one is past its
age; `pop` returns a value without comparing ages. So the age limit, 12 seconds,
has no effect but in that corner, and a stop finds its start however late it comes.

**TriggerSync** (`charts/events/hooks/sync.py`): `Customize` and `Sync` are the
two hooks, `answer` what metacontroller is applying, `sensor` the dependencies of
the Sensor it keeps. **Events** puts the Sensor behind the STOMP source: an event
that the servicer yields is delivered to it, and `log` records what it started
and which triggers the Sensor had been made from. A stop carries what a workflow
needs only if the listener merged its start into it. `Fires` is what can be relied
on: the workflows of triggers meant for the visit, beamline and source, of no
others, and all of those whose `triggerOnMessageType` is this one or not given. That
others start too is the finding `TypeAsked`.

**SingleFlight** is what `get_or_refresh_token` promises, without its machinery: a
caller is served from the cache or becomes the one that refreshes, only that one
can fail, and only it fills the cache. `TokenBroker` implements it with `pc`
mapped by `Seen`, `sub` for who asked and `split` for the subjects for which the
promise is given up; that is `RefreshIsShared`.

**Instruments, Ldap, Permissionables** (`sessionspaces/src/permissionables`,
`instruments.rs`): the tables of instruments and staff groups, and a fetch as it
is, five queries in a row, followed by `Sessions::new` and the static sessions.
`hist` records in which ways a person was entitled at some moment of the fetch
and throughout it. **IdentityMapper** (`identity-mapper`): both LDAP searches
(ldap3 does not raise when the server refuses or stops at its size limit: no
entries, or some, `Returned`), the list of UserIdentities,
then creates, deletes and updates one by one. The CronJob forbids concurrent
passes and restarts one that raised (`charts/identity-mapper`). **Directory** puts
the two on one directory; since neither writes what the other reads, a behaviour
has one of them.

**GraphFilters, GraphTemplates** (`graph-proxy/src/graphql/filters.rs`,
`parameter_schema.rs`, `workflow_templates.rs`): what a filter sends to the API,
the form derived from a template and the parameters made from a filled-in form,
as operators; a schema annotation that is not JSON (`Malformed`) gives an error and no
form. `Pick(s, P)`, the elements of a list at certain places in their
order, stands for the filters of the code. **GraphQueries** (`workflows.rs`, `workflow_templates.rs`,
`triggers.rs`): `argo` is the visit's workflows as the Argo API lists them,
`triggers` those of Kubernetes, `client` what one client is doing: a walk through
a list, a workflow and then its tasks, a submission that auth-daemon may retry.
The API is modelled as the code uses it: offsets for workflows and templates,
snapshot tokens for triggers. Three things the properties except, because the
code does them: an API error other than "Unauthorized" becomes an empty page
(`swallowed`), the filter by creator does not find accounts without a preferred
username (`odd`), and the tasks of a workflow submitted by hand under a name used
before can be those of its namesake.

**GraphStream** (`validate_token.rs`, `auth_guard.rs`,
`subscription_integration.rs`, `subscription.rs`): `jwks` are the keys the proxy
fetched when it started; `conn` is the client's HTTP request or websocket with the
verdict on its token, which is reached once, at connection_init, and the one
stream it carries. The body of a log is a sequence of bytes of which the kind matters:
plain characters, blanks, newlines and the two bytes of a longer character; `Results`
and `Bare` are the stretches that are JSON, with a result and without. A chunk ends
anywhere (`LogChunk`); each of its lines, and the piece before its end, is converted
(`from_utf8_lossy`: half a character is replaced), parsed, and otherwise trimmed
(`LogItem`). `cuts` records where chunks ended.

**WorkflowsCli** (`workflows-cli/src`): `proc[p]` is the command process `p` runs.
Lints clean, fill and list the shared `folder` of at most `MaxFiles` files;
`trigger-create` uses and rewrites `cache`, the login file, which `fs::write` empties
before it fills; any of these can fail (`FileFails`); `create` asks its questions. `doubt` records why a login may be lost: an answer on its way to
the file, lost, or without a refresh token, or a new login that raced with a
process.

## 3. Runs

| Run | Instance | Checks | Result |
|---|---|---|---|
| `broker` | 1 subject, 2 calls, 3 locks, 2 refresh tokens, clock 0..1 | `TypeOK`, `SingleRefresh`, `NoRedundantRefresh`, `RefreshTokenKept`, `LocksReleased`, `EveryCallAnswered`, `RefreshIsShared` | pass, 115 thousand states |
| `auth_system` | 1 subject, 1 browser, daemon, broker, 2 requests, 1 handler, 3 refresh tokens, 1 login | `TypeOK`, `StoredTokenUsable`, `PersistedFirst` | pass, 1.4 million states |
| `ext_authz` | 1 name, 2 subjects, 2 requests, 2 workflows, 2 pods | `TypeOK`, `BearerForCreator`, `EndedPodRefused`, `CachedSubjectTrue` | pass, 420 thousand states |
| `sessionspaces` | 2 names (1 static), 3 changes, 2 faults, 1 restart | `TypeOK`, `MemoryTrue`, `DeletedOnlyIfGone`, `StaticStays`, `Converges` | pass, 235 thousand states |
| `stomp` | 3 runs, capacity 2, 5 messages, pauses of 11 and 3600 s; or 2 messages and 2 triggers, 2 edits | `InOrder`, `MergedOnce`, `RecentStartFound`, `Fires` | pass, 805 thousand states |
| `graph_queries` | 3 workflows, 2 triggers, 4 templates, 5 filters, page sizes 1, 31, none | `TypeOK`, `WalkComplete`, `WalkDrift`, `TasksFaithful`, `SubmittedOnce`, `FormFaithful` | pass, 562 thousand states |
| `graph_stream` | 1 connection, 3 keys, clock 0..2, a log of 11 bytes in 3 lines | `TypeOK`, `VerdictsOld`, `NoDataAfterExpiry`, `LogIntact`, `LogEnds` | pass, 343 thousand states |
| `directory` | 2 people, 3 groups, 1 session, 2 proposals, 2 static entries, 2 changes, 1 fault | `MembershipSound`, `IdentitiesKept`, `Synced` | pass, 1.1 million states |
| `cli` | 2 processes, 2 commands, 4 charts, 3 answers of the provider | `LintsOwn`, `LoginKept` | pass, 2.6 million states |
| `logout_violation` | as `auth_system` | `LogoutStays` | violated |
| `reconciled_violation` | 1 name, 2 changes, 1 restart, no faults | `Reconciled` | violated |
| `type_asked_violation` | 1 run, 2 messages, 1 trigger | `TypeAsked` | violated |

Why the bounds are enough for the questions asked. *broker*: two calls show
every race for one lock; three lock objects let each call hold one that the
cleaner has removed while a third is registered; two tokens are a login and one
rotation; with a lifetime of 2, a grace period of 1 and a clock of 0..1, a token
is servable when issued and not one tick later. Subjects share nothing but
memory, so one is enough for TLC; the proofs have any number. *auth_system*:
three tokens are a login and two rotations, so two parties can rotate past each
other; two requests race each other, the handler and the broker. One login means
re-login after a logout is not explored here. *ext_authz*: two workflows and two pods
under one name are the shortest reuse. *sessionspaces*: three changes are enough
for a session to appear, disappear and come back, two faults for a failure
during the repair of a failure. *stomp*: with three runs a dictionary of two
overflows; 11 seconds is just below what the expression evaluates to and 3600
far above. Once there are triggers a behaviour has two messages
(`MaxMixed`): a start and its stop, or two of either; two edits make two triggers,
or one that is changed. *graph_queries*: with pages of one, three workflows give a
walk that can lose or repeat an item while another enters or leaves; 31 is the
first size that is refused; the filters use every operator and one that panics; a
diamond of four nodes has a task with two parents. No request looks at workflows
and triggers both, so the constraint `OneList` leaves out states with both.
*graph_stream*: three keys are one before the proxy's start, one it knows and one
after; a token that expires when it is issued, a leeway of 1 and a clock of 0..2 have
a moment before expiry, one within the leeway and one beyond. The three lines of the
log are a JSON line with a result, whose inside is JSON without one; a text with a
blank and a two-byte character; and a JSON line without a result. Chunks end at every
byte, so a line is cut into as many pieces as it has bytes. *directory*: two
changes move a person from one way of being entitled to another between two
queries; the session's group exists in both spellings. *cli*: two commands at once
or one after the other; three answers are a login and two rotations. Lints share
no state with the login and with `create`, and `Unmixed` leaves out their mixtures.

Requests, workflow creators, run uids, triggers and processes are
interchangeable, so `auth_system`, `ext_authz`, `stomp` and `cli` use symmetry; the
runs with liveness properties do not. `CHECK_DEADLOCK FALSE` stands where the
instance comes to an end with its bounds: `stomp` and `type_asked_violation`
(messages), `directory` (a fetch that waits for its next round after the last
change) and `cli` (commands).

### Findings

* `LogoutStays`. The comment on `logout` says it deletes the token "so workflows
  can't use it". It deletes the row once; a daemon that holds the token, a
  request in flight or a broker call writes the row again with its next refresh.
* `Reconciled`. The README of sessionspaces promises namespaces that follow the
  ISPyB tables. `current_sessions` is lost with the process, and a namespace
  whose session is gone by the first fetch after a restart is never visited.
  What does hold is `Converges`, which excepts such names.
* `TypeAsked`. The example triggers have source `message-bus` and
  `triggerOnMessageType: stop`. `sync` adds the filter on the type for the source
  label `generic` only, while `customize` selects these triggers by `message-bus`:
  the start message starts the workflow as well.

Two disagreements that need no run. `60^2 * 24`, meant as a day, is 12 in Python; as
`pop` compares no ages it shows only when the dictionary is full (see `Room`). And
`subscription.rs` calls a log entry "a single log line streamed from a pod": where a
chunk ends inside a line the entry is a part of one; `LogIntact` says what holds.

### Fairness

*broker*: weak fairness of every step of a call (tokio polls a woken task;
requests to the database and the provider end, well or badly) and strong
fairness of taking the mutex (tokio's mutex is first come, first served). None
for the cleaner, for time or for dropped futures. *sessionspaces*: weak fairness
of the loop (tokio's interval fires, requests end) and of the cluster's
namespace controller. *graph_stream*: weak fairness of reading a stream that has a
chunk or has ended (the executor polls a stream whose response is ready); none for
the pod, the client or time. *directory*: weak fairness of the mapper's steps (the
CronJob starts a pass every half hour, requests end). Faults, changes and restarts are never fair and are
bounded by name (`MaxFaults`, `MaxChanges`, `MaxRestarts`). The other
specifications state no fairness and have no liveness property.

## 4. Proofs

TLAPS proves the following for every value of the constants, under the named
ASSUMEs of the modules (bounds are naturals, `None` is none of the other
values); TLC evaluates the same assumptions in the runs.

`TokenBroker_proofs`: `TypeCorrect`, `LocksReleasedHolds`, `SingleRefreshHolds`,
`NoRedundantRefreshHolds`, `RefreshTokenKeptHolds`. None of the last four is
inductive. The invariant `IInv` adds:
* `LocalsOK`: where a call stands determines which of its locals are set;
* `SharedLock`: a call that uses a lock of a subject outside `split` uses the
  registered one, so that mutual exclusion on the mutex (`LocksReleased`) is
  mutual exclusion on the subject;
* `Owned` and `Private`: a token on its way to the table belongs to its call's
  subject, is accepted by the provider, and is known to no other call and not to
  the table. Only a call that knows a token can have it revoked, so whatever is
  written last is still accepted, even when two refreshes run under split locks.

`ExtAuthz_proofs`: `TypeCorrect`, `BearerForCreatorHolds`,
`EndedPodRefusedHolds`, `CachedSubjectTrueHolds`. The invariant `IInv` adds
`World` (numbers of workflows and pods grow; what an old instance was never
changes), `Cached` (the cache, keyed by uid, is true) and `Handling` (what a
request has seen so far, by where it stands). `OldInstances` is the frame fact
that every step of the cluster leaves the instances already created alone.

`RefreshIsSharedHolds`, in the same module: `TokenBroker` implements
`SingleFlight`. Initial states map to initial states; every action of the broker
maps to one abstract action or to a stutter, one lemma step per action. The mapping
needs facts about reachable states from the invariant above: that a call in its
critical section is the only one for its subject outside `split` makes the step
from `recheck` to `read` an abstract `Begin`, and that the token a call inserts was
issued to its subject makes `InsertCache` a `Finish`.

`AuthSystem_proofs`: `TypeCorrect`, `StoredTokenUsableHolds`,
`PersistedFirstHolds`, for any number of subjects,
browsers, requests and handlers. The invariant divides the tokens that processes
hold into public ones, which have been in the table (`TablePublic`,
`RequestPublic`, `HandlerPublic`, `BrokerPublic`), and private ones, fresh from an
exchange or a login and not yet written (`Private`), each in one pair of hands
(`Apart`). Every exchange is of a public token, so no exchange can revoke a private
one, and what is written is accepted when it is written; that the row's own token
was revoked by a party whose successor is on its way is what `StoredTokenUsable`
says. `Unrevoked` covers providers that do not revoke, `Locals` the locals at each
await.

`Sessions_proofs`, of SessionSpaces: `TypeCorrect`, `MemoryTrueHolds`, and the
action properties `DeletedOnlyIfGoneHolds` and `StaticStaysHolds`. The invariant adds `Working` (the
name in hand, and what the match found for it), `Fetched` (a name without a row,
without a session, was missing from ISPyB at some moment of this round) and
`AtWork` (the memory of the name in hand, which `MemoryTrue` leaves out, is true up
to the creation of its namespace).

`Events_proofs`: `InOrderHolds`, `MergedOnceHolds` and the action property
`RecentStartFoundHolds` for StompEvents, any capacity and any number of messages;
`EventsImplementSource`, that the composition `EventsSpec` only takes steps of
StompEvents, so that the three hold of it too; and `FiresHolds`. `MergedOnce` needs
`Remembered`: for every key of the dictionary a start has come since the last stop
that took one, and `since` knows its age (`Dated`); and `Once`: a run has one key.
`RecentStartFound` needs `Recent`: a start with fewer than `Room` others after it is
that near the young end of the dictionary, where making room does not reach. `Room` is
`MaxLen`, or one fewer after an assignment that may have removed two keys. `Fires` needs `SyncOK` (the Sensor is
what the hooks make of the triggers it was made from) and, per event delivered,
`Judged`. It assumes that `generic` is the only source type, as the chart deploys
it (`StompSource`), that visits and triggers have names (`Namespaced`), that the mark
for "no Sensor" is not a set of dependencies (`NilIsNoSensor`), and that the age limit,
which TLC computes, is a natural number (`ExpiryNat`).

`Sessions_proofs`, of Directory: `MembershipSoundHolds` and the action property
`IdentitiesKeptHolds`. A fetch asks five questions while the sources change; the
invariant says of each answer that it lies between what was true throughout and
what was true at some moment (`DirectAnswer`, `ProposalAnswer`, `AllAnswers`), that
the present does too (`Now`), and that a session that did not move still has the
row that was read (`RowsKept`). For the mapper, whoever a pass has no data of was
not found (`NoData`), and whoever a search that was answered in full did not find
was absent (`NotFound`).

`GraphStream_proofs`: `TypeCorrect`, `VerdictsOldHolds`, `NoDataAfterExpiryHolds`,
`LogIntactHolds`.
`NoDataAfterExpiry` rests on `OpenedInTime` (Argo accepts a stream only before the
token expires) and `RefusedSilent` (a refused stream carries errors only). `LogIntact`
is proved for any body in UTF-8 (`TextUtf8`), any stretches of it that are JSON and any
chunks. `LogInv` adds where reading can stand, which is the beginning, after a newline
or where a chunk ended (`ReadsAt`), and that no entry is about bytes not read yet
(`Bounded`). From these follow that the next line of a chunk is a line of the body or
was cut (`LineFound`), and that what the conversion takes from it belongs to a
character that was cut (`LostSplit`), so the entry made of it keeps the three parts of
`LogIntact`.

`GraphQueries_proofs`: `TypeCorrect`, `TasksFaithfulHolds`, `SubmittedOnceHolds`,
`FormFaithfulHolds`, `WalkCompleteHolds`, `WalkDriftHolds`.
Tasks are fetched by name, although the client holds a workflow of a certain uid.
`NamesOK` says that a generated name is as good as the uid, and `Held` that whoever
has the uid of the workflow in hand continues it, so the tasks found by a generated
name are that workflow's. `Counted` follows auth-daemon's two attempts at a
submission: as many workflows were made as answers were lost, plus one if the
submission succeeded. `FormFaithful` needs only that what is being submitted was
filled into the form of a template of the catalog (`FormInv`); the rest is about the
operators, that a JSON value comes back from its text (`FormIsJson`) and that names
of parameters are looked up as they were listed.

The walks: an Argo list falls in uid (`Falling`), so an element's place is its rank,
the number of uids at least as great, and two falling lists with the same elements
are equal (`Rank`, `PickFalling`). `WalkInv` says, for a walk of pages of any size
through a list that others change: while nothing has left the selection, every
workflow to be found that stands before the cursor has been seen; while nothing has
entered it, what was seen stands before the cursor and was seen once; while neither,
the list up to the cursor is what was seen (`SeenTo`). A creation moves everything
behind it one place on, a deletion one place back, which is why each half needs the
absence of the other change. Walks through triggers go through a snapshot, and what
was asked for is what was seen followed by the rest of the snapshot. Assumed are that
lists are lists (`CatalogIsList`), that filters name existing phases and operators
(`FiltersTyped`), and that trigger limits are naturals (`TriggerLimits`), as their
GraphQL types make them.

`WorkflowsCli_proofs`: `LintsOwnHolds`, `LoginKeptHolds`, for any processes, charts
and numbers of commands. `LintsOwn` is a statement about the end of a lint. Its
invariant says what a lint without company finds in the folder at each step
(`Finds`), and what it has reported in terms of the charts done and the files
handled (`Reported`); `Exclusive` says that two lints in the folder at once both know
of it, so nobody changes what one that does not know of another has found. `LoginKept`
rests on `OneWriter` (unless a login raced or an answer came without a token, one
process at most is about to write the file, and what it writes is the newest token) and `Spent` (until it has,
nobody holds a token the provider would still take, so nobody else becomes a writer).
Assumed are that charts are lists of at most `MaxFiles` templates (`ChartsAreLists`) and
that the marks for "no file", "unreadable" and "no token" are none of the other
values (`MarksAreMarks`).

The prover cannot instantiate the library's induction theorems. What filters over
lists give is therefore proved without them: `Pick` and `Nth` are defined by the
cardinality of what comes before, and facts about them follow from those on finite
sets and from the least element of a set of naturals (`WFMin`).

With this every invariant and every action property that a run checks is also a
theorem, and so is the refinement. Only model-checked are the liveness properties
(`EveryCallAnswered`, `Converges`, `LogEnds`, `Synced`), since the prover does not
reason about fairness, and the three violations.

## 5. Not modelled

* Encryption of the stored token, connection set-up, migrations, configuration and
  command line parsing; formatting of headers and of error answers.
* auth-gateway's `status`, `userinfo` (both only read) and the check of `return_to`.
* The shard locks inside the broker's DashMap and the runtime's worker threads.
* graph-proxy: artifacts and their presigned S3 links, `ui_schema`, metrics, and
  the introspection method of token validation, which nothing constructs.
* The text of a label, a visit or an id, except where a property tells them apart;
  single fields of ISPyB rows (a row is usable or not).
* Argo Events' own treatment of two dependencies of one name: triggers have
  distinct names here.
* The frontend: React components over a Relay store. What they keep is the state of
  forms and views; what they show comes from graph-proxy.
* Helm charts, policies, telemetry and the generated API client have no logic of
  their own to model; the schedule of the identity-mapper and the event sources
  are taken from the charts.

## 6. Plan

What is left, in order:

1. SingleFlight in place of the broker inside AuthSystem.
2. frontend: the live updates of a workflow view against the order of the
   subscription's events.

To check one module: `tlc -config MC_TokenBroker.cfg MC_TokenBroker`, and
`tlapm TokenBroker_proofs.tla` for its proofs.

---------------------------- MODULE TokenBroker -----------------------------
(***************************************************************************)
(* AuthBrokerState (auth-broker/src/state.rs): concurrent calls of         *)
(* get_or_refresh_token(subject), the token cache, the per-subject refresh *)
(* locks, and the background task that discards locks nobody needs.        *)
(*                                                                         *)
(* One action per stretch of code between two awaits.  A call's future can *)
(* be dropped at any await (the proxy gave up), which releases its lock    *)
(* guard and nothing else.  Time is a bounded clock in arbitrary units.    *)
(***************************************************************************)
EXTENDS TokenStore

CONSTANTS
    Calls,             \* concurrent callers of get_or_refresh_token
    LockIds,           \* identities of the Arc<Mutex<()>> allocations
    Grace,             \* TOKEN_GRACE_PERIOD_SECS
    Lifetimes,         \* expires_in values of access tokens (or the default)
    MaxNow             \* bound on the clock

ASSUME TimesNat == Grace \in Nat /\ MaxNow \in Nat /\ Lifetimes \subseteq Nat
ASSUME NoneIsNoLock == None \notin LockIds
ASSUME NoneIsNoCall == None \notin Calls

VARIABLES
    now,            \* the clock
    cache,          \* token_cache: cache[s] is an access token or None
    refresh_locks,  \* refresh_locks[s]: the registered lock of s, or None
    holder,         \* holder[l]: the call that holds mutex l, or None
    pc,             \* pc[c]: the await at which call c is suspended
    sub,            \* sub[c]: its subject
    lock,           \* lock[c]: its clone of the lock
    token,          \* token[c]: refresh token read, then the one to write
    exp,            \* exp[c]: expires_at of the access token it obtained
    todo,           \* cleaner: keys its scan has still to visit
    stale,          \* cleaner: keys it has decided to remove
    split,          \* history: subjects whose lock was removed while in use
    lost            \* history: subjects a fault may have cost their refresh token

locals == <<sub, lock, token, exp>>
callVars == <<pc, locals, holder>>
cleanerVars == <<todo, stale>>
brokerVars == <<now, cache, refresh_locks, callVars, cleanerVars, split, lost>>
vars == <<storeVars, brokerVars>>

\* A cached access token is the subject it was issued to and its expires_at.
Token == [sub: Subjects, exp: Nat]
ASSUME NoneIsNoEntry == None \notin Token

Answered == {"ok", "err"}
Critical == {"recheck", "read", "exchange", "write", "insert"}
Refreshing == {"read", "exchange", "write", "insert"}
UsingLock == {"wait"} \cup Critical
Busy == {"check", "getlock"} \cup UsingLock

BrokerTypeOK ==
    /\ now \in Nat
    /\ cache \in [Subjects -> Token \cup {None}]
    /\ refresh_locks \in [Subjects -> LockIds \cup {None}]
    /\ holder \in [LockIds -> Calls \cup {None}]
    /\ pc \in [Calls -> {"idle"} \cup Busy \cup Answered]
    /\ sub \in [Calls -> Subjects \cup {None}]
    /\ lock \in [Calls -> LockIds \cup {None}]
    /\ token \in [Calls -> RefreshToken \cup {None}]
    /\ exp \in [Calls -> Nat]
    /\ todo \in SUBSET Subjects
    /\ stale \in SUBSET Subjects
    /\ split \in SUBSET Subjects
    /\ lost \in SUBSET Subjects

\* Every variable has its type.
TypeOK == StoreTypeOK /\ BrokerTypeOK

(***************************************************************************)
(* Helpers.                                                                *)
(***************************************************************************)

\* token_cache.get(s) is Some.
CacheHit(s) == cache[s] # None

\* ... and the token outlives the grace period: it is served without a refresh.
Servable(s) == CacheHit(s) /\ cache[s].exp > now + Grace

Goto(c, p) == pc' = [pc EXCEPT ![c] = p]

\* Mutant: an early return that leaks the guard.
GuardLeaked(c) == holder

\* Dropping the MutexGuard of c, if it has one.
GuardDropped(c) == [l \in LockIds |-> IF holder[l] = c THEN None ELSE holder[l]]

\* The call returns: its locals go, and its guard with them.
Answer(c, p) ==
    /\ Goto(c, p)
    /\ sub' = [sub EXCEPT ![c] = None]
    /\ lock' = [lock EXCEPT ![c] = None]
    /\ token' = [token EXCEPT ![c] = None]
    /\ exp' = [exp EXCEPT ![c] = 0]
    /\ holder' = GuardDropped(c)

\* Lock objects somebody still has a reference to.
Referenced == {refresh_locks[s] : s \in Subjects} \cup {lock[c] : c \in Calls}

\* A lock object nobody references: Arc::new(Mutex::new(())).
NewLock == IF LockIds \subseteq Referenced THEN None
           ELSE CHOOSE l \in LockIds : l \notin Referenced

\* Mutant: insert in place of or_insert_with.
LockAlwaysNew(s) == NewLock

\* refresh_locks.entry(s).or_insert_with(..)
LockFor(s) == IF refresh_locks[s] = None THEN NewLock ELSE refresh_locks[s]

\* Mutants: persist what the provider did not send; never persist.
AlwaysWrite(rt) == "write"
NeverWrite(rt) == "insert"

\* A response without refresh token leaves the table alone.
AfterGrant(rt) == IF rt = None THEN "insert" ELSE "write"

(***************************************************************************)
(* get_or_refresh_token.                                                   *)
(***************************************************************************)

Call(c, s) ==
    /\ pc[c] \in {"idle"} \cup Answered
    /\ Goto(c, "check")
    /\ sub' = [sub EXCEPT ![c] = s]
    /\ UNCHANGED <<storeVars, now, cache, refresh_locks, holder, lock, token, exp, cleanerVars, split, lost>>

CheckCache(c) ==
    /\ pc[c] = "check"
    /\ \/ Servable(sub[c]) /\ Answer(c, "ok")
       \/ ~Servable(sub[c]) /\ Goto(c, "getlock") /\ UNCHANGED <<locals, holder>>
    /\ UNCHANGED <<storeVars, now, cache, refresh_locks, cleanerVars, split, lost>>

\* refresh_locks.entry(subject).or_insert_with(..).clone()
GetLock(c) ==
    /\ pc[c] = "getlock"
    /\ LockFor(sub[c]) # None
    /\ refresh_locks' = [refresh_locks EXCEPT ![sub[c]] = LockFor(sub[c])]
    /\ lock' = [lock EXCEPT ![c] = LockFor(sub[c])]
    /\ Goto(c, "wait")
    /\ UNCHANGED <<storeVars, now, cache, holder, sub, token, exp, cleanerVars, split, lost>>

\* lock.lock().await
Acquire(c) ==
    /\ pc[c] = "wait"
    /\ holder[lock[c]] = None
    /\ holder' = [holder EXCEPT ![lock[c]] = c]
    /\ Goto(c, "recheck")
    /\ UNCHANGED <<storeVars, now, cache, refresh_locks, locals, cleanerVars, split, lost>>

\* Mutant: no second look at the cache once the lock is held.
NoRecheck(c) ==
    /\ pc[c] = "recheck"
    /\ Goto(c, "read")
    /\ UNCHANGED <<storeVars, now, cache, refresh_locks, locals, holder, cleanerVars, split, lost>>

RecheckCache(c) ==
    /\ pc[c] = "recheck"
    /\ \/ Servable(sub[c]) /\ Answer(c, "ok")
       \/ ~Servable(sub[c]) /\ Goto(c, "read") /\ UNCHANGED <<locals, holder>>
    /\ UNCHANGED <<storeVars, now, cache, refresh_locks, cleanerVars, split, lost>>

ReadDatabase(c) ==
    /\ pc[c] = "read"
    /\ Readable(sub[c])
    /\ token' = [token EXCEPT ![c] = db[sub[c]].token]
    /\ Goto(c, "exchange")
    /\ UNCHANGED <<storeVars, now, cache, refresh_locks, holder, sub, lock, exp, cleanerVars, split, lost>>

\* No row, an expired row, or the database is unreachable.
ReadFails(c) ==
    /\ pc[c] = "read"
    /\ Answer(c, "err")
    /\ UNCHANGED <<storeVars, now, cache, refresh_locks, cleanerVars, split, lost>>

\* The provider answers; a response without refresh token skips the write.
Exchange(c) ==
    /\ pc[c] = "exchange"
    /\ \E life \in Lifetimes : exp' = [exp EXCEPT ![c] = now + life]
    /\ \E rt \in {None, NextToken(sub[c])} :
         /\ Grant(token[c], rt)
         /\ token' = [token EXCEPT ![c] = rt]
         /\ Goto(c, AfterGrant(rt))
    /\ UNCHANGED <<db, now, cache, refresh_locks, holder, sub, lock, cleanerVars, split, lost>>

\* The provider refuses, or is unreachable before it acted.
ExchangeFails(c) ==
    /\ pc[c] = "exchange"
    /\ Answer(c, "err")
    /\ UNCHANGED <<storeVars, now, cache, refresh_locks, cleanerVars, split, lost>>

\* The provider acted, and its answer is lost on the way or is not usable: the
\* returns between the exchange and the write.
ExchangeAnswerLost(c) ==
    /\ pc[c] = "exchange"
    /\ Grant(token[c], NextToken(sub[c]))
    /\ Answer(c, "err")
    /\ lost' = lost \cup {sub[c]}
    /\ UNCHANGED <<db, now, cache, refresh_locks, cleanerVars, split>>

WriteDatabase(c) ==
    /\ pc[c] = "write"
    /\ db' = Written(sub[c], token[c])
    /\ Goto(c, "insert")
    /\ UNCHANGED <<issued, live, now, cache, refresh_locks, holder, locals, cleanerVars, split, lost>>

\* The write is refused, or was applied and not acknowledged: `?` returns early.
WriteFails(c) ==
    /\ pc[c] = "write"
    /\ db' = db \/ db' = Written(sub[c], token[c])
    /\ Answer(c, "err")
    /\ lost' = lost \cup {sub[c]}
    /\ UNCHANGED <<issued, live, now, cache, refresh_locks, cleanerVars, split>>

InsertCache(c) ==
    /\ pc[c] = "insert"
    /\ cache' = [cache EXCEPT ![sub[c]] = [sub |-> sub[c], exp |-> exp[c]]]
    /\ Answer(c, "ok")
    /\ UNCHANGED <<storeVars, now, refresh_locks, cleanerVars, split, lost>>

\* The future is dropped at an await: the guard goes, the work is abandoned.
Drop(c) ==
    /\ pc[c] \in Busy
    /\ Answer(c, "idle")
    /\ lost' = IF pc[c] = "write" THEN lost \cup {sub[c]} ELSE lost
    /\ UNCHANGED <<storeVars, now, cache, refresh_locks, cleanerVars, split>>

(***************************************************************************)
(* The cleanup task spawned by with_k8s_and_db: every minute, collect the  *)
(* keys whose token is not cached, then remove them one by one.            *)
(***************************************************************************)

CleanerWakes ==
    /\ todo = {} /\ stale = {}
    /\ todo' = {s \in Subjects : refresh_locks[s] # None}
    /\ UNCHANGED <<storeVars, now, cache, refresh_locks, callVars, stale, split, lost>>

CleanerScans(s) ==
    /\ s \in todo
    /\ todo' = todo \ {s}
    /\ stale' = IF CacheHit(s) THEN stale ELSE stale \cup {s}
    /\ UNCHANGED <<storeVars, now, cache, refresh_locks, callVars, split, lost>>

\* Some call holds a clone of the lock of s, or waits for it.
InUse(s) == \E c \in Calls : sub[c] = s /\ pc[c] \in UsingLock

CleanerRemoves(s) ==
    /\ todo = {} /\ s \in stale
    /\ stale' = stale \ {s}
    /\ refresh_locks' = [refresh_locks EXCEPT ![s] = None]
    /\ split' = IF InUse(s) THEN split \cup {s} ELSE split
    /\ UNCHANGED <<storeVars, now, cache, callVars, todo, lost>>

(***************************************************************************)
(* Environment.                                                            *)
(***************************************************************************)

Tick ==
    /\ now < MaxNow
    /\ now' = now + 1
    /\ UNCHANGED <<storeVars, cache, refresh_locks, callVars, cleanerVars, split, lost>>

\* An entry leaves the cache: its time to live (TOKEN_CACHE_TTL_SECS) is over,
\* or the cache is over TOKEN_CACHE_MAX_CAPACITY.
Evict(s) ==
    /\ cache[s] # None
    /\ cache' = [cache EXCEPT ![s] = None]
    /\ UNCHANGED <<storeVars, now, refresh_locks, callVars, cleanerVars, split, lost>>

\* auth-gateway's callback: a login stores a new refresh token.
Login(s) ==
    /\ GrantLogin(s, NextToken(s))
    /\ db' = Written(s, NextToken(s))
    /\ lost' = lost \ {s}
    /\ UNCHANGED <<now, cache, refresh_locks, callVars, cleanerVars, split>>

Expire(s) == RowExpires(s) /\ UNCHANGED brokerVars

Init ==
    /\ db = [s \in Subjects |-> None]
    /\ issued = [s \in Subjects |-> 0]
    /\ live = {}
    /\ now = 0
    /\ cache = [s \in Subjects |-> None]
    /\ refresh_locks = [s \in Subjects |-> None]
    /\ holder = [l \in LockIds |-> None]
    /\ pc = [c \in Calls |-> "idle"]
    /\ sub = [c \in Calls |-> None]
    /\ lock = [c \in Calls |-> None]
    /\ token = [c \in Calls |-> None]
    /\ exp = [c \in Calls |-> 0]
    /\ todo = {} /\ stale = {} /\ split = {} /\ lost = {}

\* What the runtime drives once a call is in flight.
Step(c) ==
    \/ CheckCache(c) \/ GetLock(c) \/ Acquire(c) \/ RecheckCache(c)
    \/ ReadDatabase(c) \/ ReadFails(c)
    \/ Exchange(c) \/ ExchangeFails(c) \/ ExchangeAnswerLost(c)
    \/ WriteDatabase(c) \/ WriteFails(c) \/ InsertCache(c)

Cleaner ==
    \/ CleanerWakes
    \/ \E s \in Subjects : CleanerScans(s) \/ CleanerRemoves(s)

Environment ==
    \/ Tick
    \/ \E s \in Subjects : Evict(s) \/ Login(s) \/ Expire(s)

Next ==
    \/ \E c \in Calls : Step(c) \/ Drop(c) \/ \E s \in Subjects : Call(c, s)
    \/ Cleaner
    \/ Environment

Spec == Init /\ [][Next]_vars

\* tokio polls every woken task, and its Mutex queues waiters in FIFO order, so
\* a waiter that finds the mutex free again and again gets it.
FairSpec == Spec /\ \A c \in Calls : WF_vars(Step(c)) /\ SF_vars(Acquire(c))

(***************************************************************************)
(* Properties.                                                             *)
(***************************************************************************)

\* The refresh locks do their work: unless the cleaner removed the lock of a
\* subject while calls were using it, at most one call at a time talks to the
\* database and the provider for that subject.
SingleRefresh ==
    \A c, d \in Calls :
        /\ c # d
        /\ pc[c] \in Critical /\ pc[d] \in Critical
        /\ sub[c] = sub[d]
        => sub[c] \in split

\* The second look at the cache pays off: while a call refreshes, the cache
\* holds no token that could have been served instead (same proviso).
NoRedundantRefresh ==
    \A c \in Calls :
        pc[c] \in Refreshing /\ sub[c] \notin split => ~Servable(sub[c])

\* No interleaving of calls, logins, cleaner and expiry loses a user's refresh
\* token: the stored token is one the provider accepts, or a call still carries
\* its successor to the database, unless a fault hit exactly between the
\* provider's answer and the write (or the provider's answer was lost).
RefreshTokenKept ==
    \A s \in Subjects :
        db[s] # None /\ s \notin lost =>
            \/ db[s].token \in live
            \/ \E c \in Calls : pc[c] = "write" /\ sub[c] = s /\ token[c] \in live

\* A mutex is held exactly by a call inside its critical section: every return,
\* error and dropped future gives the lock back.
LocksReleased ==
    \A c \in Calls, l \in LockIds :
        holder[l] = c <=> pc[c] \in Critical /\ lock[c] = l

\* What a caller sees of a call.
Seen(p) ==
    IF p \in Refreshing THEN "refreshing" ELSE IF p \in Busy THEN "waiting" ELSE p

seen == [c \in Calls |-> Seen(pc[c])]

Flight == INSTANCE SingleFlight WITH at <- seen, asked <- sub, broken <- split

\* get_or_refresh_token implements the promise of SingleFlight: with the database,
\* the provider, the locks and the cleaner hidden, calls share one refresh per
\* subject, a call that has not tried to refresh does not fail, and the cache
\* changes only with the answer of the call that refreshed, or by forgetting.
RefreshIsShared == Flight!Spec

\* Every call is answered, whatever the other calls and the cleaner do.
EveryCallAnswered ==
    \A c \in Calls : pc[c] \in Busy ~> pc[c] \notin Busy
=============================================================================

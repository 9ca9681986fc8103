------------------------- MODULE TokenBroker_proofs -------------------------
(***************************************************************************)
(* Safety of get_or_refresh_token for every number of subjects, callers,   *)
(* locks and tokens.  The properties of TokenBroker are not inductive: the *)
(* lock argument needs to know that every user of a lock whose subject is  *)
(* not split uses the registered one (SharedLock), the refresh-token one   *)
(* that a token on its way to the database is known to nobody else         *)
(* (Private), and both need what the locals mean (LocalsOK, Owned).        *)
(***************************************************************************)
EXTENDS TokenBroker, TLAPS

LocalsOK ==
    \A c \in Calls :
        /\ pc[c] \in Busy => sub[c] \in Subjects
        /\ pc[c] \in UsingLock => lock[c] \in LockIds
        /\ pc[c] \in {"exchange", "write"} => token[c] \in RefreshToken

SharedLock ==
    \A c \in Calls :
        pc[c] \in UsingLock /\ sub[c] \notin split => refresh_locks[sub[c]] = lock[c]

\* Tokens belong to the subject they are kept for, and were issued.
Owned ==
    /\ \A s \in Subjects :
         db[s] # None => db[s].token.sub = s /\ db[s].token.n <= issued[s]
    /\ \A c \in Calls :
         pc[c] \in {"exchange", "write"} =>
             token[c].sub = sub[c] /\ token[c].n <= issued[sub[c]]
    /\ \A t \in live : t.n <= issued[t.sub]

\* A rotated token not yet written is live, and only the call knows it.
Private ==
    \A c \in Calls : pc[c] = "write" =>
        /\ token[c] \in live
        /\ \A s \in Subjects : db[s] # None => db[s].token # token[c]
        /\ \A d \in Calls :
             d # c /\ pc[d] \in {"exchange", "write"} => token[d] # token[c]

\* Part one: locks and cache.  Part two: refresh tokens.
LockInv == LocksReleased /\ SharedLock /\ NoRedundantRefresh
TokenInv == Owned /\ Private /\ RefreshTokenKept
IInv == TypeOK /\ LocalsOK /\ LockInv /\ TokenInv

-----------------------------------------------------------------------------

(***************************************************************************)
(* Type correctness.                                                       *)
(***************************************************************************)

\* A new lock object is a lock object, or there is none left.
LEMMA NewLockType == NewLock \in LockIds \cup {None}
  BY DEF NewLock

\* or_insert_with keeps a registered lock.
LEMMA LockForType ==
    ASSUME BrokerTypeOK, NEW s \in Subjects
    PROVE  /\ LockFor(s) \in LockIds \cup {None}
           /\ refresh_locks[s] \in {LockFor(s), None}
  BY NewLockType DEF LockFor, BrokerTypeOK

\* The types of the variables that belong to the calls.
CallsOK ==
    /\ holder \in [LockIds -> Calls \cup {None}]
    /\ pc \in [Calls -> {"idle"} \cup Busy \cup Answered]
    /\ sub \in [Calls -> Subjects \cup {None}]
    /\ lock \in [Calls -> LockIds \cup {None}]
    /\ token \in [Calls -> RefreshToken \cup {None}]
    /\ exp \in [Calls -> Nat]

\* What a return of a call does to the types and the locals.
LEMMA AnswerStep ==
    ASSUME CallsOK, LocalsOK,
           NEW c \in Calls, NEW p \in {"idle"} \cup Answered, Answer(c, p)
    PROVE  CallsOK' /\ LocalsOK'
  BY DEF CallsOK, LocalsOK, Answer, GuardDropped, Goto, Answered, Busy, UsingLock, Critical

\* The next token of a subject that may still be issued one is a refresh token.
LEMMA NextTokenType ==
    ASSUME StoreTypeOK, NEW s \in Subjects, CanIssue(s)
    PROVE  /\ NextToken(s) \in RefreshToken
           /\ NextToken(s).sub = s /\ NextToken(s).n = issued[s] + 1
           /\ [issued EXCEPT ![s] = @ + 1] \in [Subjects -> 0..MaxRefreshTokens]
  BY MaxRefreshTokensNat DEF StoreTypeOK, CanIssue, NextToken, RefreshToken

\* A provider's grant keeps the store's types.
LEMMA GrantType ==
    ASSUME StoreTypeOK, NEW t \in RefreshToken, NEW rt, Grant(t, rt)
    PROVE  /\ rt \in RefreshToken \cup {None}
           /\ issued' \in [Subjects -> 0..MaxRefreshTokens]
           /\ live' \in SUBSET RefreshToken
  <1>1. t.sub \in Subjects
    BY DEF RefreshToken
  <1>2. CASE rt = None /\ UNCHANGED <<issued, live>>
    BY <1>2 DEF StoreTypeOK
  <1>3. CASE CanIssue(t.sub) /\ rt = NextToken(t.sub) /\ Issue(t.sub)
             /\ (live' = live \cup {rt} \/ live' = (live \cup {rt}) \ {t})
    BY <1>1, <1>3, NextTokenType DEF StoreTypeOK, Issue
  <1> QED
    BY <1>2, <1>3 DEF Grant

\* Storing a refresh token keeps the table's type.
LEMMA WrittenType ==
    ASSUME StoreTypeOK, NEW s \in Subjects, NEW t \in RefreshToken
    PROVE  Written(s, t) \in [Subjects -> Row \cup {None}]
  BY DEF StoreTypeOK, Written, Row

\* Inductive step of the type invariant: what a call's locals hold at each of
\* its await points is part of it.
LEMMA TypeStep == TypeOK /\ LocalsOK /\ [Next]_vars => TypeOK' /\ LocalsOK'
  <1> SUFFICES ASSUME TypeOK, LocalsOK, [Next]_vars PROVE TypeOK' /\ LocalsOK'
    OBVIOUS
  <1> USE DEF TypeOK, BrokerTypeOK
  <1>a. CallsOK
    BY DEF CallsOK
  <1>b. CallsOK' => /\ holder' \in [LockIds -> Calls \cup {None}]
                    /\ pc' \in [Calls -> {"idle"} \cup Busy \cup Answered]
                    /\ sub' \in [Calls -> Subjects \cup {None}]
                    /\ lock' \in [Calls -> LockIds \cup {None}]
                    /\ token' \in [Calls -> RefreshToken \cup {None}]
                    /\ exp' \in [Calls -> Nat]
    BY DEF CallsOK
  <1>1. ASSUME NEW c \in Calls, Step(c) PROVE TypeOK' /\ LocalsOK'
    <2>0. ASSUME Answer(c, "ok") \/ Answer(c, "err") PROVE CallsOK' /\ LocalsOK'
      BY <1>a, <2>0, AnswerStep DEF Answered
    <2> USE DEF Goto, locals, storeVars, cleanerVars
    <2>1. CASE CheckCache(c)
      <3>1. CASE Answer(c, "ok")
        BY <1>b, <2>0, <2>1, <3>1 DEF CheckCache, StoreTypeOK
      <3>2. CASE Goto(c, "getlock") /\ UNCHANGED <<locals, holder>>
        BY <2>1, <3>2 DEF CheckCache, StoreTypeOK, LocalsOK, Answered, Busy, UsingLock, Critical
      <3> QED
        BY <2>1, <3>1, <3>2 DEF CheckCache
    <2>2. CASE GetLock(c)
      <3>1. PICK l \in LockIds \cup {None} :
              /\ l # None
              /\ refresh_locks' = [refresh_locks EXCEPT ![sub[c]] = l]
              /\ lock' = [lock EXCEPT ![c] = l]
        BY <2>2, LockForType DEF GetLock, LocalsOK, Busy
      <3> QED
        BY <2>2, <3>1 DEF GetLock, StoreTypeOK, LocalsOK, Answered, Busy, UsingLock, Critical
    <2>3. CASE Acquire(c)
      BY <2>3 DEF Acquire, StoreTypeOK, LocalsOK, Answered, Busy, UsingLock, Critical
    <2>4. CASE RecheckCache(c)
      <3>1. CASE Answer(c, "ok")
        BY <1>b, <2>0, <2>4, <3>1 DEF RecheckCache, StoreTypeOK
      <3>2. CASE Goto(c, "read") /\ UNCHANGED <<locals, holder>>
        BY <2>4, <3>2 DEF RecheckCache, StoreTypeOK, LocalsOK, Answered, Busy, UsingLock, Critical
      <3> QED
        BY <2>4, <3>1, <3>2 DEF RecheckCache
    <2>5. CASE ReadDatabase(c)
      <3>1. sub[c] \in Subjects
        BY <2>5 DEF ReadDatabase, LocalsOK, Busy, UsingLock, Critical
      <3>2. db[sub[c]] \in Row
        BY <2>5, <3>1 DEF ReadDatabase, Readable, StoreTypeOK
      <3>3. db[sub[c]].token \in RefreshToken
        BY <3>2 DEF Row
      <3> QED
        BY <2>5, <3>3 DEF ReadDatabase, StoreTypeOK, LocalsOK, Answered, Busy, UsingLock, Critical
    <2>6. CASE ReadFails(c)
      BY <1>b, <2>0, <2>6 DEF ReadFails, StoreTypeOK
    <2>7. CASE Exchange(c)
      <3>1. PICK rt \in {None, NextToken(sub[c])} :
              /\ Grant(token[c], rt)
              /\ token' = [token EXCEPT ![c] = rt]
              /\ Goto(c, AfterGrant(rt))
        BY <2>7 DEF Exchange
      <3>2. token[c] \in RefreshToken
        BY <2>7 DEF Exchange, LocalsOK
      <3>3. /\ rt \in RefreshToken \cup {None}
            /\ issued' \in [Subjects -> 0..MaxRefreshTokens]
            /\ live' \in SUBSET RefreshToken
        BY <3>1, <3>2, GrantType
      <3>4. exp' \in [Calls -> Nat]
        BY <2>7, TimesNat DEF Exchange
      <3>5. TypeOK'
        BY <2>7, <3>1, <3>3, <3>4 DEF Exchange, AfterGrant, StoreTypeOK, Answered, Busy, UsingLock, Critical
      <3>6. LocalsOK'
        BY <2>7, <3>1, <3>3 DEF Exchange, AfterGrant, LocalsOK, Answered, Busy, UsingLock, Critical
      <3> QED
        BY <3>5, <3>6
    <2>8. CASE ExchangeFails(c)
      BY <1>b, <2>0, <2>8 DEF ExchangeFails, StoreTypeOK
    <2>9. CASE ExchangeAnswerLost(c)
      <3>1. token[c] \in RefreshToken /\ sub[c] \in Subjects
        BY <2>9 DEF ExchangeAnswerLost, LocalsOK, Busy, UsingLock, Critical
      <3>2. issued' \in [Subjects -> 0..MaxRefreshTokens] /\ live' \in SUBSET RefreshToken
        BY <2>9, <3>1, GrantType DEF ExchangeAnswerLost
      <3> QED
        BY <1>b, <2>0, <2>9, <3>1, <3>2 DEF ExchangeAnswerLost, StoreTypeOK
    <2>10. CASE WriteDatabase(c)
      <3>1. token[c] \in RefreshToken /\ sub[c] \in Subjects
        BY <2>10 DEF WriteDatabase, LocalsOK, Busy, UsingLock, Critical
      <3> QED
        BY <2>10, <3>1, WrittenType
        DEF WriteDatabase, StoreTypeOK, LocalsOK, Answered, Busy, UsingLock, Critical
    <2>11. CASE WriteFails(c)
      <3>1. token[c] \in RefreshToken /\ sub[c] \in Subjects
        BY <2>11 DEF WriteFails, LocalsOK, Busy, UsingLock, Critical
      <3> QED
        BY <1>b, <2>0, <2>11, <3>1, WrittenType DEF WriteFails, StoreTypeOK
    <2>12. CASE InsertCache(c)
      <3>1. sub[c] \in Subjects /\ exp[c] \in Nat
        BY <2>12 DEF InsertCache, LocalsOK, Busy, UsingLock, Critical
      <3>2. cache' \in [Subjects -> Token \cup {None}]
        BY <2>12, <3>1 DEF InsertCache, Token
      <3> QED
        BY <1>b, <2>0, <2>12, <3>2 DEF InsertCache, StoreTypeOK
    <2> QED
      BY <1>1, <2>1, <2>2, <2>3, <2>4, <2>5, <2>6, <2>7, <2>8, <2>9, <2>10, <2>11, <2>12 DEF Step
  <1>2. ASSUME NEW c \in Calls, Drop(c) PROVE TypeOK' /\ LocalsOK'
    <2>1. CallsOK' /\ LocalsOK'
      BY <1>a, <1>2, AnswerStep DEF Drop
    <2>2. lost' \in SUBSET Subjects
      BY <1>2 DEF Drop, LocalsOK, Busy, UsingLock, Critical
    <2> QED
      BY <1>b, <1>2, <2>1, <2>2 DEF Drop, StoreTypeOK, storeVars, cleanerVars
  <1>3. ASSUME NEW c \in Calls, NEW s \in Subjects, Call(c, s) PROVE TypeOK' /\ LocalsOK'
    BY <1>3 DEF Call, Goto, StoreTypeOK, LocalsOK, Busy, UsingLock, Critical, storeVars, cleanerVars
  <1>4. CASE Cleaner
    BY <1>4 DEF Cleaner, CleanerWakes, CleanerScans, CleanerRemoves,
                StoreTypeOK, LocalsOK, storeVars, callVars, locals
  <1>5. CASE Environment
    <2> USE DEF LocalsOK, storeVars, callVars, locals, cleanerVars
    <2>1. CASE Tick
      BY <2>1 DEF Tick, StoreTypeOK
    <2>2. ASSUME NEW s \in Subjects, Evict(s) PROVE TypeOK' /\ LocalsOK'
      BY <2>2 DEF Evict, StoreTypeOK
    <2>3. ASSUME NEW s \in Subjects, Login(s) PROVE TypeOK' /\ LocalsOK'
      BY <2>3, NextTokenType, WrittenType DEF Login, GrantLogin, Issue, StoreTypeOK
    <2>4. ASSUME NEW s \in Subjects, Expire(s) PROVE TypeOK' /\ LocalsOK'
      BY <2>4 DEF Expire, RowExpires, Row, brokerVars, StoreTypeOK
    <2> QED
      BY <1>5, <2>1, <2>2, <2>3, <2>4 DEF Environment
  <1>6. CASE UNCHANGED vars
    BY <1>6 DEF vars, storeVars, brokerVars, callVars, locals, cleanerVars, StoreTypeOK, LocalsOK
  <1> QED
    BY <1>1, <1>2, <1>3, <1>4, <1>5, <1>6 DEF Next

\* The broker's state and the token table keep their types.
THEOREM TypeCorrect == Spec => []TypeOK
  <1>1. Init => TypeOK /\ LocalsOK
    BY MaxRefreshTokensNat
    DEF Init, TypeOK, StoreTypeOK, BrokerTypeOK, LocalsOK, Busy, UsingLock, Critical
  <1> QED
    BY <1>1, TypeStep, PTL DEF Spec

-----------------------------------------------------------------------------

(***************************************************************************)
(* Locks and cache.                                                        *)
(***************************************************************************)

\* Two calls in the critical section of a subject that is not split would hold
\* the same mutex.
LEMMA Exclusion == TypeOK /\ LocalsOK /\ LockInv => SingleRefresh
  <1> SUFFICES ASSUME TypeOK, LocalsOK, LockInv,
                      NEW c \in Calls, NEW d \in Calls, c # d,
                      pc[c] \in Critical, pc[d] \in Critical,
                      sub[c] = sub[d], sub[c] \notin split
               PROVE  FALSE
    BY DEF SingleRefresh
  <1>1. lock[c] = lock[d] /\ lock[c] \in LockIds
    BY DEF LockInv, SharedLock, LocalsOK, UsingLock
  <1>2. holder[lock[c]] = c /\ holder[lock[d]] = d
    BY <1>1 DEF LockInv, LocksReleased
  <1> QED
    BY <1>1, <1>2

\* A call that returns gives up its mutex and disturbs nobody else.
LEMMA AnswerLocks ==
    ASSUME TypeOK, LocalsOK, LockInv,
           NEW c \in Calls, NEW p \in {"idle"} \cup Answered, Answer(c, p),
           UNCHANGED <<refresh_locks, split, now>>,
           \/ cache' = cache
           \/ /\ pc[c] = "insert"
              /\ \A s \in Subjects : s # sub[c] => cache'[s] = cache[s]
    PROVE  LockInv'
  <1> USE DEF TypeOK, BrokerTypeOK, Answered, UsingLock, Critical, Refreshing
  <1>0. /\ pc' = [pc EXCEPT ![c] = p] /\ sub' = [sub EXCEPT ![c] = None]
        /\ lock' = [lock EXCEPT ![c] = None]
        /\ holder' = [l \in LockIds |-> IF holder[l] = c THEN None ELSE holder[l]]
    BY DEF Answer, GuardDropped, Goto
  <1>1. LocksReleased'
    BY <1>0, NoneIsNoCall DEF LockInv, LocksReleased
  <1>2. SharedLock'
    BY <1>0 DEF LockInv, SharedLock
  <1>3. NoRedundantRefresh'
    <2> SUFFICES ASSUME NEW d \in Calls, pc'[d] \in Refreshing, sub'[d] \notin split
                 PROVE  (~Servable(sub[d]))'
      BY <1>0 DEF NoRedundantRefresh
    <2>1. d # c /\ pc[d] \in Refreshing /\ sub'[d] = sub[d]
      BY <1>0
    <2>2. ~Servable(sub[d])
      BY <2>1 DEF LockInv, NoRedundantRefresh
    <2>3. cache'[sub[d]] = cache[sub[d]]
      <3>1. CASE cache' = cache
        BY <3>1
      <3>2. CASE pc[c] = "insert" /\ \A s \in Subjects : s # sub[c] => cache'[s] = cache[s]
        BY <1>0, <2>1, <3>2, Exclusion DEF SingleRefresh, LocalsOK, Busy
      <3> QED
        BY <3>1, <3>2
    <2> QED
      BY <2>1, <2>2, <2>3 DEF Servable, CacheHit
  <1> QED
    BY <1>1, <1>2, <1>3 DEF LockInv

\* Steps that move a call inside the code it is in, cache and locks untouched.
LEMMA MoveLocks ==
    ASSUME TypeOK, LocalsOK, LockInv,
           NEW c \in Calls, NEW p, pc' = [pc EXCEPT ![c] = p],
           UNCHANGED <<cache, refresh_locks, holder, sub, lock, split, now>>,
           \/ pc[c] = "check" /\ p = "getlock"
           \/ pc[c] = "recheck" /\ p = "read" /\ ~Servable(sub[c])
           \/ pc[c] \in Refreshing /\ p \in Refreshing
    PROVE  LockInv'
  <1> USE DEF TypeOK, BrokerTypeOK, UsingLock, Critical, Refreshing
  <1>1. LocksReleased'
    BY DEF LockInv, LocksReleased
  <1>2. SharedLock'
    BY DEF LockInv, SharedLock
  <1>3. NoRedundantRefresh'
    BY DEF LockInv, NoRedundantRefresh, Servable, CacheHit
  <1> QED
    BY <1>1, <1>2, <1>3 DEF LockInv

\* Inductive step of the lock and cache part.
LEMMA LockStep == TypeOK /\ LocalsOK /\ LockInv /\ [Next]_vars => LockInv'
  <1> SUFFICES ASSUME TypeOK, LocalsOK, LockInv, [Next]_vars PROVE LockInv'
    OBVIOUS
  <1> USE DEF Answered, Refreshing, locals, cleanerVars
  <1>1. ASSUME NEW c \in Calls, Step(c) PROVE LockInv'
    <2>1. CASE CheckCache(c)
      BY <2>1, AnswerLocks, MoveLocks DEF CheckCache, Goto
    <2>2. CASE GetLock(c)
      <3>1. PICK l \in LockIds \cup {None} :
              /\ l # None
              /\ refresh_locks[sub[c]] \in {l, None}
              /\ refresh_locks' = [refresh_locks EXCEPT ![sub[c]] = l]
              /\ lock' = [lock EXCEPT ![c] = l]
        BY <2>2, LockForType DEF GetLock, LocalsOK, Busy, TypeOK, BrokerTypeOK
      <3>2. sub[c] \in Subjects
        BY <2>2 DEF GetLock, LocalsOK, Busy
      <3> USE DEF TypeOK, BrokerTypeOK, UsingLock, Critical
      <3>3. LocksReleased'
        BY <2>2, <3>1 DEF GetLock, Goto, LockInv, LocksReleased
      <3>4. SharedLock'
        BY <2>2, <3>1, <3>2, NoneIsNoLock
        DEF GetLock, Goto, LockInv, SharedLock, LocalsOK, Busy
      <3>5. NoRedundantRefresh'
        BY <2>2 DEF GetLock, Goto, LockInv, NoRedundantRefresh, Servable, CacheHit
      <3> QED
        BY <3>3, <3>4, <3>5 DEF LockInv
    <2>3. CASE Acquire(c)
      <3> USE DEF TypeOK, BrokerTypeOK, UsingLock, Critical
      <3>1. LocksReleased'
        BY <2>3, NoneIsNoCall DEF Acquire, Goto, LockInv, LocksReleased, LocalsOK
      <3>2. SharedLock'
        BY <2>3 DEF Acquire, Goto, LockInv, SharedLock
      <3>3. NoRedundantRefresh'
        BY <2>3 DEF Acquire, Goto, LockInv, NoRedundantRefresh, Servable, CacheHit
      <3> QED
        BY <3>1, <3>2, <3>3 DEF LockInv
    <2>4. CASE RecheckCache(c)
      BY <2>4, AnswerLocks, MoveLocks DEF RecheckCache, Goto
    <2>5. CASE ReadDatabase(c)
      BY <2>5, MoveLocks DEF ReadDatabase, Goto
    <2>6. CASE ReadFails(c)
      BY <2>6, AnswerLocks DEF ReadFails
    <2>7. CASE Exchange(c)
      <3>1. PICK p \in {"insert", "write"} : pc' = [pc EXCEPT ![c] = p]
        BY <2>7 DEF Exchange, Goto, AfterGrant
      <3> QED
        BY <2>7, <3>1, MoveLocks DEF Exchange
    <2>8. CASE ExchangeFails(c)
      BY <2>8, AnswerLocks DEF ExchangeFails
    <2>9. CASE ExchangeAnswerLost(c)
      BY <2>9, AnswerLocks DEF ExchangeAnswerLost
    <2>10. CASE WriteDatabase(c)
      BY <2>10, MoveLocks DEF WriteDatabase, Goto
    <2>11. CASE WriteFails(c)
      BY <2>11, AnswerLocks DEF WriteFails
    <2>12. CASE InsertCache(c)
      <3>1. \A s \in Subjects : s # sub[c] => cache'[s] = cache[s]
        BY <2>12 DEF InsertCache, TypeOK, BrokerTypeOK
      <3> QED
        BY <2>12, <3>1, AnswerLocks DEF InsertCache
    <2> QED
      BY <1>1, <2>1, <2>2, <2>3, <2>4, <2>5, <2>6, <2>7, <2>8, <2>9, <2>10, <2>11, <2>12 DEF Step
  <1>2. ASSUME NEW c \in Calls, Drop(c) PROVE LockInv'
    BY <1>2, AnswerLocks DEF Drop
  <1>3. ASSUME NEW c \in Calls, NEW s \in Subjects, Call(c, s) PROVE LockInv'
    BY <1>3 DEF Call, Goto, LockInv, LocksReleased, SharedLock, NoRedundantRefresh,
                Servable, CacheHit, TypeOK, BrokerTypeOK, UsingLock, Critical
  <1>4. CASE Cleaner
    <2> USE DEF TypeOK, BrokerTypeOK, callVars
    <2>1. ASSUME NEW s \in Subjects, CleanerRemoves(s) PROVE LockInv'
      <3>1. LocksReleased' /\ NoRedundantRefresh'
        BY <2>1 DEF CleanerRemoves, LockInv, LocksReleased, NoRedundantRefresh, Servable, CacheHit
      <3>2. SharedLock'
        BY <2>1 DEF CleanerRemoves, InUse, LockInv, SharedLock
      <3> QED
        BY <3>1, <3>2 DEF LockInv
    <2>2. CASE CleanerWakes \/ \E s \in Subjects : CleanerScans(s)
      BY <2>2 DEF CleanerWakes, CleanerScans, LockInv, LocksReleased, SharedLock,
                  NoRedundantRefresh, Servable, CacheHit
    <2> QED
      BY <1>4, <2>1, <2>2 DEF Cleaner
  <1>5. CASE Environment
    <2> USE DEF callVars, brokerVars, LockInv, LocksReleased, SharedLock
    <2>1. CASE Tick
      <3>1. ASSUME NEW s \in Subjects, ~Servable(s) PROVE ~Servable(s)'
        BY <2>1, <3>1, TimesNat DEF Tick, Servable, CacheHit, TypeOK, BrokerTypeOK, Token
      <3>2. NoRedundantRefresh'
        BY <2>1, <3>1 DEF Tick, NoRedundantRefresh, LocalsOK, Busy, UsingLock, Critical
      <3> QED
        BY <2>1, <3>2 DEF Tick
    <2>2. ASSUME NEW s \in Subjects, Evict(s) PROVE LockInv'
      BY <2>2 DEF Evict, NoRedundantRefresh, Servable, CacheHit, TypeOK, BrokerTypeOK,
                  LocalsOK, Busy, UsingLock, Critical
    <2>3. ASSUME NEW s \in Subjects, Login(s) \/ Expire(s) PROVE LockInv'
      BY <2>3 DEF Login, Expire, NoRedundantRefresh, Servable, CacheHit
    <2> QED
      BY <1>5, <2>1, <2>2, <2>3 DEF Environment
  <1>6. CASE UNCHANGED vars
    BY <1>6 DEF vars, brokerVars, callVars, LockInv, LocksReleased, SharedLock,
                NoRedundantRefresh, Servable, CacheHit
  <1> QED
    BY <1>1, <1>2, <1>3, <1>4, <1>5, <1>6 DEF Next

\* The lock part of the inductive invariant holds throughout.
LEMMA LockInvariant == Spec => [](TypeOK /\ LocalsOK /\ LockInv)
  <1>1. Init => TypeOK /\ LocalsOK
    BY MaxRefreshTokensNat
    DEF Init, TypeOK, StoreTypeOK, BrokerTypeOK, LocalsOK, Busy, UsingLock, Critical
  <1>2. Init => LockInv
    BY NoneIsNoCall DEF Init, LockInv, LocksReleased, SharedLock, NoRedundantRefresh,
       UsingLock, Critical, Refreshing
  <1> QED
    BY <1>1, <1>2, TypeStep, LockStep, PTL DEF Spec

\* Unless the cleaner removed a lock in use, calls for one subject refresh one
\* at a time (the point of refresh_locks).
THEOREM SingleRefreshHolds == Spec => []SingleRefresh
  BY LockInvariant, Exclusion, PTL

\* Under the same proviso a call never refreshes while the cache holds a token
\* it could serve (the point of the second cache lookup).
THEOREM NoRedundantRefreshHolds == Spec => []NoRedundantRefresh
  <1>1. LockInv => NoRedundantRefresh
    BY DEF LockInv
  <1> QED
    BY <1>1, LockInvariant, PTL

\* A mutex is held exactly while its holder is in the critical section.
THEOREM LocksReleasedHolds == Spec => []LocksReleased
  <1>1. LockInv => LocksReleased
    BY DEF LockInv
  <1> QED
    BY <1>1, LockInvariant, PTL

-----------------------------------------------------------------------------

(***************************************************************************)
(* Refresh tokens.                                                         *)
(***************************************************************************)

\* A return of a call that only leaves the others' tokens alone.
LEMMA AnswerTokens ==
    ASSUME TypeOK, LocalsOK, TokenInv,
           NEW c \in Calls, NEW p \in {"idle"} \cup Answered, Answer(c, p),
           UNCHANGED <<db, issued, live>>,
           \/ pc[c] # "write" /\ lost' = lost
           \/ lost' = lost \cup {sub[c]}
    PROVE  TokenInv'
  <1> USE DEF TypeOK, BrokerTypeOK, Answered
  <1>0. /\ pc' = [pc EXCEPT ![c] = p] /\ sub' = [sub EXCEPT ![c] = None]
        /\ token' = [token EXCEPT ![c] = None]
    BY DEF Answer, Goto
  <1>1. Owned'
    BY <1>0 DEF TokenInv, Owned
  <1>2. Private'
    BY <1>0 DEF TokenInv, Private
  <1>3. RefreshTokenKept'
    <2> SUFFICES ASSUME NEW s \in Subjects, db[s] # None, s \notin lost',
                        db[s].token \notin live
                 PROVE  \E d \in Calls :
                          pc'[d] = "write" /\ sub'[d] = s /\ token'[d] \in live
      BY DEF RefreshTokenKept
    <2>1. PICK d \in Calls : pc[d] = "write" /\ sub[d] = s /\ token[d] \in live
      BY DEF TokenInv, RefreshTokenKept
    <2>2. d # c
      BY <2>1
    <2> QED
      BY <1>0, <2>1, <2>2
  <1> QED
    BY <1>1, <1>2, <1>3 DEF TokenInv

\* Steps that leave the store and every token in hand alone.
LEMMA SameTokens ==
    ASSUME TypeOK, LocalsOK, TokenInv,
           NEW c \in Calls, NEW p, pc' = [pc EXCEPT ![c] = p],
           pc[c] \notin {"exchange", "write"}, p \notin {"exchange", "write"},
           \A d \in Calls : d # c => sub'[d] = sub[d] /\ token'[d] = token[d],
           UNCHANGED <<db, issued, live, lost>>
    PROVE  TokenInv'
  <1> USE DEF TypeOK, BrokerTypeOK
  <1>1. Owned'
    BY DEF TokenInv, Owned
  <1>2. Private'
    BY DEF TokenInv, Private
  <1>3. RefreshTokenKept'
    BY DEF TokenInv, RefreshTokenKept
  <1> QED
    BY <1>1, <1>2, <1>3 DEF TokenInv

\* What a rotating grant to a call does: the new token is new to everybody, is
\* live, and the only token that may stop being live is the call's own.
LEMMA GrantEffect ==
    ASSUME TypeOK, LocalsOK, TokenInv,
           NEW c \in Calls, pc[c] = "exchange",
           NEW rt, rt # None, Grant(token[c], rt)
    PROVE  /\ rt = NextToken(sub[c]) /\ rt \in RefreshToken
           /\ rt.sub = sub[c] /\ rt.n = issued[sub[c]] + 1
           /\ issued' = [issued EXCEPT ![sub[c]] = @ + 1]
           /\ rt \in live' /\ live' \subseteq live \cup {rt}
           /\ \A t \in live : t # token[c] => t \in live'
           /\ \A s \in Subjects : db[s] # None => db[s].token # rt
           /\ \A d \in Calls : pc[d] \in {"exchange", "write"} => token[d] # rt
  <1>1. token[c].sub = sub[c] /\ sub[c] \in Subjects /\ token[c] \in RefreshToken
    BY DEF TokenInv, Owned, LocalsOK, Busy, UsingLock, Critical
  <1>2. /\ CanIssue(sub[c]) /\ rt = NextToken(sub[c])
        /\ issued' = [issued EXCEPT ![sub[c]] = @ + 1]
        /\ live' = live \cup {rt} \/ live' = (live \cup {rt}) \ {token[c]}
    BY <1>1 DEF Grant, Issue
  <1>3. rt \in RefreshToken /\ rt.sub = sub[c] /\ rt.n = issued[sub[c]] + 1
    BY <1>1, <1>2, NextTokenType DEF TypeOK
  <1>4. issued[sub[c]] \in Nat
    BY <1>1, MaxRefreshTokensNat DEF TypeOK, StoreTypeOK
  <1>5. \A s \in Subjects : db[s] # None => db[s].token # rt
    BY <1>3, <1>4 DEF TokenInv, Owned
  <1>6. \A d \in Calls : pc[d] \in {"exchange", "write"} => token[d] # rt
    BY <1>3, <1>4 DEF TokenInv, Owned
  <1>7. rt # token[c]
    BY <1>6
  <1> QED
    BY <1>2, <1>3, <1>5, <1>6, <1>7

\* Issuing more tokens keeps every bound by the number issued.
LEMMA IssuedGrows ==
    ASSUME TypeOK, NEW s \in Subjects, issued' = [issued EXCEPT ![s] = @ + 1]
    PROVE  \A x \in Subjects : issued[x] \in Nat /\ issued'[x] \in Nat /\ issued[x] <= issued'[x]
  BY MaxRefreshTokensNat DEF TypeOK, StoreTypeOK

\* Bounds by the number issued survive an issue.
LEMMA OwnedGrows ==
    ASSUME TypeOK, NEW s \in Subjects, issued' = [issued EXCEPT ![s] = @ + 1],
           NEW t \in RefreshToken, t.n <= issued[t.sub]
    PROVE  t.n <= issued'[t.sub]
  <1>1. t.sub \in Subjects /\ t.n \in Nat
    BY MaxRefreshTokensNat DEF RefreshToken
  <1>2. issued[t.sub] \in Nat /\ issued'[t.sub] \in Nat /\ issued[t.sub] <= issued'[t.sub]
    BY <1>1, IssuedGrows
  <1> QED
    BY <1>1, <1>2

\* The new token reaches the table, and the call stops carrying it.
LEMMA WriteTokens ==
    ASSUME TypeOK, LocalsOK, TokenInv,
           NEW c \in Calls, pc[c] = "write",
           NEW p, p \notin {"exchange", "write"}, pc' = [pc EXCEPT ![c] = p],
           db' = [db EXCEPT ![sub[c]] = [token |-> token[c], fresh |-> TRUE]],
           \A d \in Calls : d # c => sub'[d] = sub[d] /\ token'[d] = token[d],
           UNCHANGED <<issued, live>>, lost \subseteq lost'
    PROVE  TokenInv'
  <1> USE DEF TypeOK, BrokerTypeOK, StoreTypeOK
  <1>0. sub[c] \in Subjects
    BY DEF LocalsOK, Busy, UsingLock, Critical
  <1>1. \A s \in Subjects : db'[s] # None =>
           IF s = sub[c] THEN db'[s].token = token[c] ELSE db[s] # None /\ db'[s].token = db[s].token
    BY <1>0
  <1>2. Owned'
    BY <1>0, <1>1 DEF TokenInv, Owned
  <1>3. Private'
    BY <1>1 DEF TokenInv, Private
  <1>4. RefreshTokenKept'
    <2> SUFFICES ASSUME NEW s \in Subjects, db'[s] # None, s \notin lost',
                        db'[s].token \notin live
                 PROVE  \E d \in Calls :
                          pc'[d] = "write" /\ sub'[d] = s /\ token'[d] \in live
      BY DEF RefreshTokenKept
    <2>1. s # sub[c]
      BY <1>1 DEF TokenInv, Private
    <2>2. PICK d \in Calls : pc[d] = "write" /\ sub[d] = s /\ token[d] \in live
      BY <1>1, <2>1 DEF TokenInv, RefreshTokenKept
    <2> QED
      BY <2>1, <2>2
  <1> QED
    BY <1>2, <1>3, <1>4 DEF TokenInv

\* Inductive step of the refresh-token part.
LEMMA TokenStep == TypeOK /\ LocalsOK /\ TokenInv /\ [Next]_vars => TokenInv'
  <1> SUFFICES ASSUME TypeOK, LocalsOK, TokenInv, [Next]_vars PROVE TokenInv'
    OBVIOUS
  <1> USE DEF Answered, locals, storeVars
  <1>d. \A s \in Subjects : db[s] # None => db[s].token \in RefreshToken
    <2> SUFFICES ASSUME NEW s \in Subjects, db[s] # None PROVE db[s].token \in RefreshToken
      OBVIOUS
    <2>1. db[s] \in Row
      BY DEF TypeOK, StoreTypeOK
    <2> QED
      BY <2>1 DEF Row
  <1>1. ASSUME NEW c \in Calls, Step(c) PROVE TokenInv'
    <2>1. CASE CheckCache(c)
      BY <2>1, AnswerTokens, SameTokens DEF CheckCache, Goto
    <2>2. CASE GetLock(c)
      <3>1. /\ pc[c] = "getlock" /\ pc' = [pc EXCEPT ![c] = "wait"]
            /\ UNCHANGED <<sub, token, db, issued, live, lost>>
        BY <2>2 DEF GetLock, Goto
      <3> QED
        BY <3>1, SameTokens
    <2>3. CASE Acquire(c)
      BY <2>3, SameTokens DEF Acquire, Goto
    <2>4. CASE RecheckCache(c)
      <3>1. CASE Answer(c, "ok")
        BY <2>4, <3>1, AnswerTokens DEF RecheckCache
      <3>2. CASE Goto(c, "read") /\ UNCHANGED <<locals, holder>>
        BY <2>4, <3>2, SameTokens DEF RecheckCache, Goto
      <3> QED
        BY <2>4, <3>1, <3>2 DEF RecheckCache
    <2>5. CASE ReadDatabase(c)
      <3>1. sub[c] \in Subjects /\ db[sub[c]] # None
        BY <2>5 DEF ReadDatabase, Readable, LocalsOK, Busy, UsingLock, Critical
      <3> USE DEF TypeOK, BrokerTypeOK
      <3>2. Owned'
        BY <2>5, <3>1 DEF ReadDatabase, Goto, TokenInv, Owned
      <3>3. Private'
        BY <2>5, <3>1 DEF ReadDatabase, Goto, TokenInv, Private
      <3>4. RefreshTokenKept'
        BY <2>5, <3>1 DEF ReadDatabase, Goto, TokenInv, RefreshTokenKept
      <3> QED
        BY <3>2, <3>3, <3>4 DEF TokenInv
    <2>6. CASE ReadFails(c)
      BY <2>6, AnswerTokens DEF ReadFails
    <2>7. CASE Exchange(c)
      <3>1. PICK rt : /\ Grant(token[c], rt)
                      /\ token' = [token EXCEPT ![c] = rt]
                      /\ Goto(c, AfterGrant(rt))
        BY <2>7 DEF Exchange
      <3> USE DEF TypeOK, BrokerTypeOK
      <3>2. CASE rt = None
        <4>1. pc' = [pc EXCEPT ![c] = "insert"] /\ UNCHANGED <<issued, live, db, lost, sub>>
          BY <2>7, <3>1, <3>2, NoneIsNoToken, NextTokenType
          DEF Exchange, Goto, AfterGrant, Grant, LocalsOK, RefreshToken
        <4>2. Owned'
          BY <3>1, <4>1 DEF TokenInv, Owned
        <4>3. Private'
          BY <2>7, <3>1, <4>1 DEF Exchange, TokenInv, Private
        <4>4. RefreshTokenKept'
          BY <2>7, <3>1, <4>1 DEF Exchange, TokenInv, RefreshTokenKept
        <4> QED
          BY <4>2, <4>3, <4>4 DEF TokenInv
      <3>3. CASE rt # None
        <4>0. /\ pc[c] = "exchange" /\ pc' = [pc EXCEPT ![c] = "write"]
              /\ token' = [token EXCEPT ![c] = rt] /\ UNCHANGED <<db, lost, sub>>
          BY <2>7, <3>1, <3>3 DEF Exchange, Goto, AfterGrant
        <4>1. /\ rt \in RefreshToken /\ rt.sub = sub[c] /\ rt.n = issued[sub[c]] + 1
              /\ issued' = [issued EXCEPT ![sub[c]] = @ + 1]
              /\ rt \in live' /\ live' \subseteq live \cup {rt}
              /\ \A t \in live : t # token[c] => t \in live'
              /\ \A s \in Subjects : db[s] # None => db[s].token # rt
              /\ \A d \in Calls : pc[d] \in {"exchange", "write"} => token[d] # rt
          BY <3>1, <3>3, <4>0, GrantEffect
        <4>2. sub[c] \in Subjects /\ token[c].sub = sub[c]
          BY <4>0 DEF TokenInv, Owned, LocalsOK, Busy, UsingLock, Critical
        <4>3. rt.n <= issued'[sub[c]]
          BY <4>1, <4>2, IssuedGrows DEF StoreTypeOK
        <4>4. Owned'
          <5>1. ASSUME NEW s \in Subjects, db[s] # None
                PROVE  db[s].token.sub = s /\ db[s].token.n <= issued'[s]
            BY <1>d, <4>1, <4>2, <5>1, OwnedGrows DEF TokenInv, Owned
          <5>2. ASSUME NEW d \in Calls, pc'[d] \in {"exchange", "write"}
                PROVE  token'[d].sub = sub[d] /\ token'[d].n <= issued'[sub[d]]
            <6>1. CASE d = c
              BY <4>0, <4>1, <4>3, <6>1
            <6>2. CASE d # c
              BY <4>0, <4>1, <4>2, <5>2, <6>2, OwnedGrows DEF TokenInv, Owned, LocalsOK
            <6> QED
              BY <6>1, <6>2
          <5>3. ASSUME NEW t \in live' PROVE t.n <= issued'[t.sub]
            <6>1. CASE t = rt
              BY <4>1, <4>3, <6>1
            <6>2. CASE t \in live
              BY <4>1, <4>2, <6>2, OwnedGrows DEF TokenInv, Owned, StoreTypeOK
            <6> QED
              BY <4>1, <6>1, <6>2
          <5> QED
            BY <4>0, <5>1, <5>2, <5>3 DEF Owned
        <4>5. Private'
          BY <4>0, <4>1 DEF TokenInv, Private
        <4>6. RefreshTokenKept'
          <5> SUFFICES ASSUME NEW s \in Subjects, db[s] # None, s \notin lost,
                              db[s].token \notin live'
                       PROVE  \E d \in Calls :
                                pc'[d] = "write" /\ sub[d] = s /\ token'[d] \in live'
            BY <4>0 DEF RefreshTokenKept
          <5>1. CASE db[s].token \in live
            <6>1. db[s].token = token[c] /\ sub[c] = s
              BY <4>1, <4>2, <5>1 DEF TokenInv, Owned
            <6> QED
              BY <4>0, <4>1, <6>1
          <5>2. CASE db[s].token \notin live
            <6>1. PICK d \in Calls : pc[d] = "write" /\ sub[d] = s /\ token[d] \in live
              BY <5>2 DEF TokenInv, RefreshTokenKept
            <6>2. d # c /\ token[d] # token[c]
              BY <4>0, <6>1 DEF TokenInv, Private
            <6> QED
              BY <4>0, <4>1, <6>1, <6>2
          <5> QED
            BY <5>1, <5>2
        <4> QED
          BY <4>4, <4>5, <4>6 DEF TokenInv
      <3> QED
        BY <3>2, <3>3
    <2>8. CASE ExchangeFails(c)
      BY <2>8, AnswerTokens DEF ExchangeFails
    <2>9. CASE ExchangeAnswerLost(c)
      <3> DEFINE rt == NextToken(sub[c])
      <3>0. /\ pc[c] = "exchange" /\ Grant(token[c], rt) /\ rt # None
            /\ pc' = [pc EXCEPT ![c] = "err"] /\ sub' = [sub EXCEPT ![c] = None]
            /\ token' = [token EXCEPT ![c] = None] /\ db' = db /\ lost' = lost \cup {sub[c]}
        <4>1. pc[c] = "exchange" /\ Grant(token[c], rt)
          BY <2>9 DEF ExchangeAnswerLost
        <4>2. token[c] \in RefreshToken /\ token[c].sub = sub[c] /\ sub[c] \in Subjects
          BY <4>1 DEF TokenInv, Owned, LocalsOK, Busy, UsingLock, Critical
        <4>3. rt # None
          BY <4>2, NoneIsNoToken, MaxRefreshTokensNat DEF NextToken, TypeOK, StoreTypeOK
        <4> QED
          BY <2>9, <4>1, <4>3 DEF ExchangeAnswerLost, Answer, Goto
      <3> HIDE DEF rt
      <3> USE DEF TypeOK, BrokerTypeOK
      <3>1. /\ rt \in RefreshToken /\ rt.sub = sub[c] /\ rt.n = issued[sub[c]] + 1
            /\ issued' = [issued EXCEPT ![sub[c]] = @ + 1]
            /\ rt \in live' /\ live' \subseteq live \cup {rt}
            /\ \A t \in live : t # token[c] => t \in live'
        BY <3>0, GrantEffect
      <3>2. sub[c] \in Subjects /\ token[c].sub = sub[c]
        BY <3>0 DEF TokenInv, Owned, LocalsOK, Busy, UsingLock, Critical
      <3>3. rt.n <= issued'[sub[c]]
        BY <3>1, <3>2, IssuedGrows DEF StoreTypeOK
      <3>4. Owned'
        <4>1. ASSUME NEW s \in Subjects, db[s] # None
              PROVE  db[s].token.sub = s /\ db[s].token.n <= issued'[s]
          BY <1>d, <3>1, <3>2, <4>1, OwnedGrows DEF TokenInv, Owned
        <4>2. ASSUME NEW d \in Calls, pc'[d] \in {"exchange", "write"}
              PROVE  token'[d].sub = sub'[d] /\ token'[d].n <= issued'[sub'[d]]
          BY <3>0, <3>1, <3>2, <4>2, OwnedGrows DEF TokenInv, Owned, LocalsOK
        <4>3. ASSUME NEW t \in live' PROVE t.n <= issued'[t.sub]
          <5>1. CASE t = rt
            BY <3>1, <3>3, <5>1
          <5>2. CASE t \in live
            BY <3>1, <3>2, <5>2, OwnedGrows DEF TokenInv, Owned, StoreTypeOK
          <5> QED
            BY <3>1, <5>1, <5>2
        <4> QED
          BY <3>0, <4>1, <4>2, <4>3 DEF Owned
      <3>5. Private'
        BY <3>0, <3>1 DEF TokenInv, Private
      <3>6. RefreshTokenKept'
        <4> SUFFICES ASSUME NEW s \in Subjects, db[s] # None, s \notin lost, s # sub[c],
                            db[s].token \notin live'
                     PROVE  \E d \in Calls :
                              pc'[d] = "write" /\ sub'[d] = s /\ token'[d] \in live'
          BY <3>0 DEF RefreshTokenKept
        <4>1. db[s].token # token[c]
          BY <3>2 DEF TokenInv, Owned
        <4>2. PICK d \in Calls : pc[d] = "write" /\ sub[d] = s /\ token[d] \in live
          BY <3>1, <4>1 DEF TokenInv, RefreshTokenKept
        <4>3. d # c /\ token[d] # token[c]
          BY <3>0, <4>2 DEF TokenInv, Private
        <4> QED
          BY <3>0, <3>1, <4>2, <4>3
      <3> QED
        BY <3>4, <3>5, <3>6 DEF TokenInv
    <2>10. CASE WriteDatabase(c)
      <3>0. /\ pc[c] = "write" /\ pc' = [pc EXCEPT ![c] = "insert"]
            /\ db' = [db EXCEPT ![sub[c]] = [token |-> token[c], fresh |-> TRUE]]
            /\ UNCHANGED <<issued, live, lost, sub, token>>
        BY <2>10 DEF WriteDatabase, Goto, Written
      <3> QED
        BY <3>0, WriteTokens
    <2>11. CASE WriteFails(c)
      <3>1. CASE db' = db
        BY <2>11, <3>1, AnswerTokens DEF WriteFails
      <3>2. CASE db' = Written(sub[c], token[c])
        <4>0. /\ pc[c] = "write" /\ pc' = [pc EXCEPT ![c] = "err"]
              /\ db' = [db EXCEPT ![sub[c]] = [token |-> token[c], fresh |-> TRUE]]
              /\ \A d \in Calls : d # c => sub'[d] = sub[d] /\ token'[d] = token[d]
              /\ UNCHANGED <<issued, live>> /\ lost \subseteq lost'
          BY <2>11, <3>2 DEF WriteFails, Answer, Goto, Written, TypeOK, BrokerTypeOK
        <4> QED
          BY <4>0, WriteTokens
      <3> QED
        BY <2>11, <3>1, <3>2 DEF WriteFails
    <2>12. CASE InsertCache(c)
      BY <2>12, AnswerTokens DEF InsertCache
    <2> QED
      BY <1>1, <2>1, <2>2, <2>3, <2>4, <2>5, <2>6, <2>7, <2>8, <2>9, <2>10, <2>11, <2>12 DEF Step
  <1>2. ASSUME NEW c \in Calls, Drop(c) PROVE TokenInv'
    BY <1>2, AnswerTokens DEF Drop
  <1>3. ASSUME NEW c \in Calls, NEW s \in Subjects, Call(c, s) PROVE TokenInv'
    BY <1>3, SameTokens DEF Call, Goto, TypeOK, BrokerTypeOK
  <1>4. CASE Cleaner
    BY <1>4 DEF Cleaner, CleanerWakes, CleanerScans, CleanerRemoves, callVars,
                TokenInv, Owned, Private, RefreshTokenKept
  <1>5. CASE Environment
    <2>1. CASE Tick \/ \E s \in Subjects : Evict(s)
      BY <2>1 DEF Tick, Evict, callVars, TokenInv, Owned, Private, RefreshTokenKept
    <2>2. ASSUME NEW s \in Subjects, Login(s) PROVE TokenInv'
      <3> DEFINE rt == NextToken(s)
      <3>0. /\ CanIssue(s) /\ issued' = [issued EXCEPT ![s] = @ + 1] /\ live' = live \cup {rt}
            /\ db' = [db EXCEPT ![s] = [token |-> rt, fresh |-> TRUE]]
            /\ lost' = lost \ {s} /\ UNCHANGED <<pc, sub, token>>
        BY <2>2 DEF Login, GrantLogin, Issue, Written, callVars
      <3>1. /\ rt \in RefreshToken /\ rt.sub = s /\ rt.n = issued[s] + 1
            /\ issued[s] \in Nat /\ rt.n <= issued'[s]
        BY <3>0, NextTokenType, IssuedGrows DEF TypeOK, StoreTypeOK
      <3> HIDE DEF rt
      <3> USE DEF TypeOK, BrokerTypeOK, StoreTypeOK
      <3>2. Owned'
        <4>1. ASSUME NEW x \in Subjects, db'[x] # None
              PROVE  db'[x].token.sub = x /\ db'[x].token.n <= issued'[x]
          <5>1. CASE x = s
            BY <3>0, <3>1, <5>1
          <5>2. CASE x # s
            BY <1>d, <3>0, <4>1, <5>2, OwnedGrows DEF TokenInv, Owned
          <5> QED
            BY <5>1, <5>2
        <4>2. ASSUME NEW d \in Calls, pc[d] \in {"exchange", "write"}
              PROVE  token[d].sub = sub[d] /\ token[d].n <= issued'[sub[d]]
          BY <3>0, <4>2, OwnedGrows DEF TokenInv, Owned, LocalsOK
        <4>3. ASSUME NEW t \in live' PROVE t.n <= issued'[t.sub]
          BY <3>0, <3>1, OwnedGrows DEF TokenInv, Owned
        <4> QED
          BY <3>0, <4>1, <4>2, <4>3 DEF Owned
      <3>3. Private'
        <4> SUFFICES ASSUME NEW c \in Calls, pc[c] = "write"
                     PROVE  /\ token[c] \in live'
                            /\ \A x \in Subjects : db'[x] # None => db'[x].token # token[c]
                            /\ \A d \in Calls : d # c /\ pc[d] \in {"exchange", "write"}
                                  => token[d] # token[c]
          BY <3>0 DEF Private
        <4>1. token[c] # rt
          BY <3>1 DEF TokenInv, Owned
        <4> QED
          BY <3>0, <4>1 DEF TokenInv, Private
      <3>4. RefreshTokenKept'
        BY <3>0 DEF TokenInv, RefreshTokenKept
      <3> QED
        BY <3>2, <3>3, <3>4 DEF TokenInv
    <2>3. ASSUME NEW s \in Subjects, Expire(s) PROVE TokenInv'
      <3>0. /\ db[s] # None /\ db' = [db EXCEPT ![s] = [token |-> db[s].token, fresh |-> FALSE]]
            /\ UNCHANGED <<issued, live, lost, pc, sub, token>>
        BY <2>3 DEF Expire, RowExpires, brokerVars, callVars
      <3>1. \A x \in Subjects : db'[x] # None => db[x] # None /\ db'[x].token = db[x].token
        BY <3>0 DEF TypeOK, StoreTypeOK
      <3> QED
        BY <3>0, <3>1 DEF TokenInv, Owned, Private, RefreshTokenKept
    <2> QED
      BY <1>5, <2>1, <2>2, <2>3 DEF Environment
  <1>6. CASE UNCHANGED vars
    BY <1>6 DEF vars, brokerVars, callVars, TokenInv, Owned, Private, RefreshTokenKept
  <1> QED
    BY <1>1, <1>2, <1>3, <1>4, <1>5, <1>6 DEF Next

\* No interleaving of calls, logins, the cleaner and expiry loses a refresh
\* token; only a fault between the provider's answer and the write can.
THEOREM RefreshTokenKeptHolds == Spec => []RefreshTokenKept
  <1>1. Init => TokenInv
    BY DEF Init, TokenInv, Owned, Private, RefreshTokenKept
  <1>2. TokenInv => RefreshTokenKept
    BY DEF TokenInv
  <1>3. Spec => [](TypeOK /\ LocalsOK)
    BY LockInvariant, PTL
  <1> QED
    BY <1>1, <1>2, <1>3, TokenStep, PTL DEF Spec

(***************************************************************************)
(* The refinement: get_or_refresh_token implements SingleFlight, for every *)
(* number of subjects, callers and locks.  Steps of a call before it       *)
(* refreshes, and those between its exchange and its last cache insert,    *)
(* are stutters; the step into the refresh needs the lock invariant.       *)
(***************************************************************************)

\* A call that moves on is seen to move on, and no other.
LEMMA SeenMove ==
    ASSUME TypeOK, NEW c \in Calls, NEW p, Goto(c, p)
    PROVE  seen' = [seen EXCEPT ![c] = Seen(p)]
  BY DEF Goto, seen, TypeOK, BrokerTypeOK

\* What is seen of a call at each await.
LEMMA SeenAt ==
    /\ \A p \in Refreshing : Seen(p) = "refreshing"
    /\ \A p \in {"check", "getlock", "wait", "recheck"} : Seen(p) = "waiting"
    /\ \A p \in {"idle"} \cup Answered : Seen(p) = p
  BY DEF Seen, Refreshing, Busy, UsingLock, Critical, Answered

\* A call that stays within one seen state, its subject and the cache untouched,
\* stutters.
LEMMA Stutter ==
    ASSUME TypeOK, NEW c \in Calls, NEW p, Goto(c, p), Seen(p) = Seen(pc[c]),
           UNCHANGED <<now, cache, sub, split>>
    PROVE  UNCHANGED Flight!vars
  <1>1. seen' = [seen EXCEPT ![c] = Seen(p)]
    BY SeenMove
  <1>2. seen[c] = Seen(p) /\ seen = [d \in Calls |-> seen[d]]
    BY DEF seen
  <1> QED
    BY <1>1, <1>2 DEF Flight!vars

\* A return ends the call it belongs to.
LEMMA Ends ==
    ASSUME TypeOK, NEW c \in Calls, NEW p \in {"idle"} \cup Answered, Answer(c, p)
    PROVE  Flight!Ends(c, p)
  BY SeenMove, SeenAt DEF Answer, Flight!Ends

\* The initial states.
LEMMA InitRefines == Init => Flight!Init
  BY DEF Init, Flight!Init, seen, Seen, Refreshing, Busy, UsingLock, Critical

\* Every step of get_or_refresh_token is one of SingleFlight, or a stutter.
LEMMA CallRefines ==
    ASSUME TypeOK, LocalsOK, LockInv, NEW c \in Calls, Step(c)
    PROVE  [Flight!Next]_(Flight!vars)
  <1> USE DEF locals, cleanerVars, storeVars
  <1>0. /\ \A d \in Calls : seen[d] = Seen(pc[d])
        /\ pc[c] \in Busy => sub[c] \in Subjects
    BY DEF seen, LocalsOK
  <1>s. (\A s \in Subjects : Servable(s) <=> Flight!Good(s))
    BY DEF Servable, CacheHit, Flight!Good
  <1>1. CASE CheckCache(c)
    <2>1. CASE Servable(sub[c]) /\ Answer(c, "ok")
      <3>1. Flight!Serve(c)
        BY <1>0, <1>1, <1>s, <2>1, SeenAt, Ends DEF CheckCache, Flight!Serve, Answered, Busy
      <3> QED
        BY <3>1 DEF Flight!Next
    <2>2. CASE Goto(c, "getlock") /\ UNCHANGED <<locals, holder>>
      BY <1>1, <2>2, SeenAt, Stutter DEF CheckCache
    <2> QED
      BY <1>1, <2>1, <2>2 DEF CheckCache
  <1>2. CASE GetLock(c)
    BY <1>2, SeenAt, Stutter DEF GetLock
  <1>3. CASE Acquire(c)
    BY <1>3, SeenAt, Stutter DEF Acquire
  <1>4. CASE RecheckCache(c)
    <2>1. CASE Servable(sub[c]) /\ Answer(c, "ok")
      <3>1. Flight!Serve(c)
        BY <1>0, <1>4, <1>s, <2>1, SeenAt, Ends
        DEF RecheckCache, Flight!Serve, Answered, Busy, UsingLock, Critical
      <3> QED
        BY <3>1 DEF Flight!Next
    <2>2. CASE ~Servable(sub[c]) /\ Goto(c, "read") /\ UNCHANGED <<locals, holder>>
      <3>1. sub[c] \in split \/ \A d \in Calls : seen[d] = "refreshing" => sub[d] # sub[c]
        <4> SUFFICES ASSUME sub[c] \notin split, NEW d \in Calls,
                            seen[d] = "refreshing", sub[d] = sub[c]
                     PROVE  FALSE
          OBVIOUS
        <4>1. pc[d] \in Refreshing
          BY <1>0 DEF Seen, TypeOK, BrokerTypeOK, Answered, Busy, UsingLock, Critical, Refreshing
        <4> QED
          BY <1>4, <4>1, Exclusion DEF RecheckCache, SingleRefresh, Critical, Refreshing
      <3>2. seen[c] = "waiting" /\ seen' = [seen EXCEPT ![c] = "refreshing"]
        BY <1>0, <1>4, <2>2, SeenAt, SeenMove DEF RecheckCache, Refreshing
      <3>3. ~Flight!Good(sub[c])
        BY <1>0, <1>4, <1>s, <2>2 DEF RecheckCache, Busy, UsingLock, Critical
      <3>4. Flight!Begin(c)
        BY <1>4, <2>2, <3>1, <3>2, <3>3 DEF RecheckCache, Flight!Begin
      <3> QED
        BY <3>4 DEF Flight!Next
    <2> QED
      BY <1>4, <2>1, <2>2 DEF RecheckCache
  <1>5. CASE ReadDatabase(c)
    BY <1>5, SeenAt, Stutter DEF ReadDatabase, Refreshing
  <1>6. CASE ReadFails(c) \/ ExchangeFails(c) \/ ExchangeAnswerLost(c) \/ WriteFails(c)
    <2>1. Flight!Fail(c)
      BY <1>0, <1>6, SeenAt, Ends DEF ReadFails, ExchangeFails, ExchangeAnswerLost, WriteFails,
         Flight!Fail, Refreshing, Answered
    <2> QED
      BY <2>1 DEF Flight!Next
  <1>7. CASE Exchange(c)
    <2>1. PICK rt : Goto(c, AfterGrant(rt))
      BY <1>7 DEF Exchange
    <2>2. AfterGrant(rt) \in Refreshing /\ pc[c] \in Refreshing
      BY <1>7 DEF Exchange, AfterGrant, Refreshing
    <2> QED
      BY <1>7, <2>1, <2>2, SeenAt, Stutter DEF Exchange
  <1>8. CASE WriteDatabase(c)
    BY <1>8, SeenAt, Stutter DEF WriteDatabase, Refreshing
  <1>9. CASE InsertCache(c)
    <2> DEFINE new == [sub |-> sub[c], exp |-> exp[c]]
    <2>1. sub[c] \in Subjects /\ exp[c] \in Nat /\ seen[c] = "refreshing"
      BY <1>0, <1>9, SeenAt DEF InsertCache, Busy, UsingLock, Critical, Refreshing, TypeOK, BrokerTypeOK
    <2>2. cache' = [cache EXCEPT ![sub[c]] = new] /\ cache'[sub[c]] = new
      BY <1>9, <2>1 DEF InsertCache, TypeOK, BrokerTypeOK
    <2>3. new # None /\ new.sub = sub[c]
      BY <2>1, NoneIsNoEntry DEF Token
    <2>4. Flight!Ends(c, "ok") /\ UNCHANGED <<now, split>>
      BY <1>9, Ends DEF InsertCache, Answered
    <2>5. Flight!Finish(c)
      BY <2>1, <2>2, <2>3, <2>4 DEF Flight!Finish
    <2> QED
      BY <2>5 DEF Flight!Next
  <1> QED
    BY <1>1, <1>2, <1>3, <1>4, <1>5, <1>6, <1>7, <1>8, <1>9 DEF Step

\* Every other step, too.
LEMMA StepRefines ==
    ASSUME TypeOK, LocalsOK, LockInv, [Next]_vars
    PROVE  [Flight!Next]_(Flight!vars)
  <1> USE DEF locals, cleanerVars, callVars
  <1>1. CASE \E c \in Calls : Step(c)
    BY <1>1, CallRefines
  <1>2. ASSUME NEW c \in Calls, Drop(c) PROVE Flight!Next
    <2>1. Flight!InProgress(c)
      BY <1>2, SeenAt DEF Drop, Flight!InProgress, seen, Busy, UsingLock, Critical, Refreshing
    <2>2. Flight!Leave(c)
      BY <1>2, <2>1, Ends DEF Drop, Flight!Leave
    <2> QED
      BY <2>2 DEF Flight!Next
  <1>3. ASSUME NEW c \in Calls, NEW s \in Subjects, Call(c, s) PROVE Flight!Next
    <2>1. ~Flight!InProgress(c)
      BY <1>3, SeenAt DEF Call, Flight!InProgress, seen, Answered
    <2>2. seen' = [seen EXCEPT ![c] = "waiting"]
      BY <1>3, SeenMove, SeenAt DEF Call
    <2>3. Flight!Ask(c, s)
      BY <1>3, <2>1, <2>2 DEF Call, Flight!Ask
    <2> QED
      BY <2>3 DEF Flight!Next
  <1>4. ASSUME NEW s \in Subjects, CleanerRemoves(s) PROVE [Flight!Next]_(Flight!vars)
    <2>1. UNCHANGED <<now, cache, seen, sub>>
      BY <1>4 DEF CleanerRemoves, seen
    <2>2. CASE InUse(s)
      <3>1. \E c \in Calls : Flight!InProgress(c) /\ sub[c] = s
        BY <2>2, SeenAt DEF InUse, Flight!InProgress, seen, UsingLock, Critical, Refreshing
      <3>2. Flight!Break(s)
        BY <1>4, <2>1, <2>2, <3>1 DEF CleanerRemoves, Flight!Break
      <3> QED
        BY <3>2 DEF Flight!Next
    <2>3. CASE ~InUse(s)
      BY <1>4, <2>1, <2>3 DEF CleanerRemoves, Flight!vars
    <2> QED
      BY <2>2, <2>3
  <1>5. CASE CleanerWakes \/ \E s \in Subjects : CleanerScans(s)
    BY <1>5 DEF CleanerWakes, CleanerScans, Flight!vars, seen
  <1>6. ASSUME Tick PROVE Flight!Next
    BY <1>6 DEF Tick, seen, Flight!Pass, Flight!Next
  <1>7. ASSUME NEW s \in Subjects, Evict(s) PROVE Flight!Next
    BY <1>7 DEF Evict, seen, Flight!Forget, Flight!Next
  <1>8. ASSUME NEW s \in Subjects, Login(s) \/ Expire(s) PROVE UNCHANGED Flight!vars
    BY <1>8 DEF Login, Expire, brokerVars, seen, Flight!vars
  <1>9. CASE UNCHANGED vars
    BY <1>9 DEF vars, brokerVars, seen, Flight!vars
  <1> QED
    BY <1>1, <1>2, <1>3, <1>4, <1>5, <1>6, <1>7, <1>8, <1>9 DEF Next, Cleaner, Environment

\* Every behaviour of the broker, its database, provider, locks and cleaner hidden,
\* is one of SingleFlight (the promise of get_or_refresh_token).
THEOREM RefreshIsSharedHolds == Spec => RefreshIsShared
  <1>1. TypeOK /\ LocalsOK /\ LockInv /\ [Next]_vars => [Flight!Next]_(Flight!vars)
    BY StepRefines
  <1> QED
    BY <1>1, InitRefines, LockInvariant, PTL DEF Spec, RefreshIsShared, Flight!Spec
=============================================================================

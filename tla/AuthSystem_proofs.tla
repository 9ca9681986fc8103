-------------------------- MODULE AuthSystem_proofs -------------------------
(***************************************************************************)
(* Safety of gateway, daemon and broker on one oidc_tokens table, for any  *)
(* browsers, requests, handlers, subjects and provider policy.             *)
(*                                                                         *)
(* The argument rests on one distinction: a refresh token is public once   *)
(* the table has held it (persisted), and private while the process that   *)
(* got it from the provider is on its way to the table.  Everything a      *)
(* process exchanges is public (RequestPublic ...), so what is private stays *)
(* accepted until it is written (Private); and where tokens are not        *)
(* revoked, what is public stays accepted too (Unrevoked).                 *)
(***************************************************************************)
EXTENDS AuthSystem, TLAPS

\* What the locals hold at each await.
RequestLocals ==
    \A r \in Requests :
        /\ ppc[r] # "idle" => rec[r].token \in RefreshToken /\ origin[r] \in Browsers \cup {Daemon}
        /\ ppc[r] \in {"write", "save"} => new[r] \in RefreshToken /\ new[r].sub = rec[r].token.sub
HandlerLocals ==
    \A h \in Handlers :
        /\ hpc[h] # "idle" => hb[h] \in Browsers
        /\ hpc[h] = "login" => hrec[h].csrf # 0
        /\ hpc[h] \in {"store", "session"} => hnew[h] \in RefreshToken
BrokerLocals == bpc # "idle" => btoken \in RefreshToken
Locals == RequestLocals /\ HandlerLocals /\ BrokerLocals

\* A row is its subject's.
Owned == \A s \in Subjects : db[s] # None => db[s].token.sub = s

\* What the provider accepts, and what the table has held, was issued.
Issued ==
    /\ \A t \in live : t.n <= issued[t.sub]
    /\ \A t \in persisted : t.n <= issued[t.sub]

\* Everything held by a process, once out of refresh_and_persist, the callback's
\* write and the broker's, has been in the table.
TablePublic == \A s \in Subjects : db[s] # None => db[s].token \in persisted
RequestPublic ==
    \A r \in Requests :
        /\ rec[r].token # None => rec[r].token \in persisted
        /\ ppc[r] = "save" \/ (ppc[r] = "write" /\ policy = "keep") => new[r] \in persisted
HandlerPublic ==
    \A h \in Handlers :
        /\ hrec[h].token # None => hrec[h].token \in persisted
        /\ hpc[h] = "session" => hnew[h] \in persisted
BrokerPublic == bpc = "exchange" => btoken \in persisted

\* The private tokens: those in the hands of a request, a callback, the broker.
Rotated(r) == ppc[r] = "write" /\ policy # "keep"
Private ==
    /\ \A r \in Requests : Rotated(r) => new[r] \in live \ persisted
    /\ \A h \in Handlers : hpc[h] = "store" => hnew[h] \in live \ persisted
    /\ bpc = "write" => btoken \in live \ persisted

\* Each is in one pair of hands.
Apart ==
    /\ \A r, q \in Requests : r # q /\ Rotated(r) /\ Rotated(q) => new[r] # new[q]
    /\ \A h, k \in Handlers : h # k /\ hpc[h] = "store" /\ hpc[k] = "store" => hnew[h] # hnew[k]
    /\ \A r \in Requests, h \in Handlers : Rotated(r) /\ hpc[h] = "store" => new[r] # hnew[h]
    /\ \A r \in Requests : Rotated(r) /\ bpc = "write" => new[r] # btoken
    /\ \A h \in Handlers : hpc[h] = "store" /\ bpc = "write" => hnew[h] # btoken

Unrevoked == policy # "revoke" => persisted \subseteq live

\* What the table and the provider promise, and what is in whose hands.
StoreInv == Owned /\ Issued /\ TablePublic /\ Unrevoked
HandsInv == RequestPublic /\ HandlerPublic /\ BrokerPublic /\ Private /\ Apart
TokenInv == StoreInv /\ HandsInv
IInv == TypeOK /\ Locals /\ TokenInv /\ PersistedFirst /\ StoredTokenUsable

-----------------------------------------------------------------------------

(***************************************************************************)
(* The operators the steps are made of.                                    *)
(***************************************************************************)

\* "No value" is no token and no row.
LEMMA NoneIsNothing == None \notin RefreshToken /\ None \notin Row
  BY NoneIsNoToken, MaxRefreshTokensNat DEF RefreshToken

\* An empty session record is one.
LEMMA EmptyIsSession == EmptySession \in SessionRecord /\ EmptySession.token = None
  BY MaxLoginsNat DEF EmptySession, Session, SessionRecord

\* The fields of a session record.
LEMMA SessionFields ==
    ASSUME NEW c \in 0..MaxLogins, NEW t \in RefreshToken \cup {None}
    PROVE  /\ Session(c, t) \in SessionRecord
           /\ Session(c, t).csrf = c /\ Session(c, t).token = t
  BY DEF Session, SessionRecord

\* The provider's answer to a login: a token nobody has.
LEMMA LoginEffect ==
    ASSUME StoreTypeOK, Issued, persisted \in SUBSET RefreshToken,
           NEW s \in Subjects, GrantLogin(s, NextToken(s))
    PROVE  /\ NextToken(s) \in RefreshToken /\ NextToken(s).sub = s
           /\ NextToken(s) \notin live /\ NextToken(s) \notin persisted
           /\ live' = live \cup {NextToken(s)} /\ live' \in SUBSET RefreshToken
           /\ issued' \in [Subjects -> 0..MaxRefreshTokens]
           /\ \A q \in Subjects : issued[q] <= issued'[q]
           /\ NextToken(s).n <= issued'[s]
  <1>1. issued[s] \in Nat /\ issued[s] < MaxRefreshTokens /\ MaxRefreshTokens \in Nat
    BY MaxRefreshTokensNat DEF GrantLogin, CanIssue, StoreTypeOK
  <1>2. NextToken(s) \in RefreshToken /\ NextToken(s).sub = s /\ NextToken(s).n = issued[s] + 1
    BY <1>1 DEF NextToken, RefreshToken
  <1>3. NextToken(s) \notin live /\ NextToken(s) \notin persisted
    BY <1>1, <1>2 DEF Issued
  <1>4. issued' = [issued EXCEPT ![s] = issued[s] + 1]
    BY DEF GrantLogin, Issue
  <1> QED
    BY <1>1, <1>2, <1>3, <1>4 DEF GrantLogin, StoreTypeOK

\* The provider's answer to a refresh of t: no new token and nothing changes, or one
\* that nobody has; only t can be revoked, and only if the policy says so.
LEMMA RefreshEffect ==
    ASSUME StoreTypeOK, Issued, persisted \in SUBSET RefreshToken, policy \in Policies,
           NEW t \in RefreshToken, NEW rt \in {None, NextToken(t.sub)}, GrantUnderPolicy(t, rt)
    PROVE  /\ t \in live
           /\ live' \in SUBSET RefreshToken
           /\ issued' \in [Subjects -> 0..MaxRefreshTokens]
           /\ \A q \in Subjects : issued[q] <= issued'[q]
           /\ policy = "keep" => rt = None /\ UNCHANGED <<issued, live>>
           /\ policy # "keep" =>
                /\ rt \in RefreshToken /\ rt.sub = t.sub /\ rt # t
                /\ rt \notin live /\ rt \notin persisted /\ rt \in live'
                /\ live' \subseteq live \cup {rt}
                /\ live \ {t} \subseteq live'
                /\ rt.n <= issued'[rt.sub]
           /\ policy # "revoke" => live \subseteq live'
  <1>1. t.sub \in Subjects /\ t \in live
    BY DEF RefreshToken, GrantUnderPolicy, Grant
  <1>2. CASE rt = None
    <2>1. policy = "keep"
      BY <1>2 DEF GrantUnderPolicy
    <2>2. UNCHANGED <<issued, live>>
      <3>1. NextToken(t.sub) # None
        BY <1>1, NoneIsNoToken DEF NextToken, StoreTypeOK
      <3> QED
        BY <1>2, <3>1 DEF GrantUnderPolicy, Grant
    <2> QED
      BY <1>1, <1>2, <2>1, <2>2 DEF StoreTypeOK
  <1>3. CASE rt # None
    <2>1. rt = NextToken(t.sub) /\ policy # "keep"
      BY <1>3 DEF GrantUnderPolicy
    <2>2. /\ CanIssue(t.sub) /\ Issue(t.sub)
          /\ live' = live \cup {rt} \/ live' = (live \cup {rt}) \ {t}
      BY <1>3 DEF GrantUnderPolicy, Grant
    <2>3. issued[t.sub] \in Nat /\ issued[t.sub] < MaxRefreshTokens /\ MaxRefreshTokens \in Nat
      BY <1>1, <2>2, MaxRefreshTokensNat DEF CanIssue, StoreTypeOK
    <2>4. rt \in RefreshToken /\ rt.sub = t.sub /\ rt.n = issued[t.sub] + 1
      BY <1>1, <2>1, <2>3 DEF NextToken, RefreshToken
    <2>5. rt \notin live /\ rt \notin persisted
      BY <2>3, <2>4 DEF Issued
    <2>6. issued' = [issued EXCEPT ![t.sub] = issued[t.sub] + 1]
      BY <2>2 DEF Issue
    <2>7. issued' \in [Subjects -> 0..MaxRefreshTokens] /\ \A q \in Subjects : issued[q] <= issued'[q]
      BY <1>1, <2>3, <2>6 DEF StoreTypeOK
    <2>8. rt.n <= issued'[rt.sub]
      BY <1>1, <2>3, <2>4, <2>6 DEF StoreTypeOK
    <2>9. policy # "revoke" => live \subseteq live'
      BY <2>1, <2>2 DEF GrantUnderPolicy, Policies
    <2> QED
      BY <1>1, <2>1, <2>2, <2>4, <2>5, <2>7, <2>8, <2>9 DEF StoreTypeOK
  <1> QED
    BY <1>2, <1>3

\* write_token_to_database, delete_token_from_database and the expiry of a row.
LEMMA TableEffect ==
    ASSUME StoreTypeOK, NEW s \in Subjects, NEW t \in RefreshToken
    PROVE  /\ Written(s, t) \in [Subjects -> Row \cup {None}]
           /\ Written(s, t)[s] # None /\ Written(s, t)[s].token = t
           /\ \A q \in Subjects : q # s => Written(s, t)[q] = db[q]
           /\ Deleted(s) \in [Subjects -> Row \cup {None}]
           /\ \A q \in Subjects : Deleted(s)[q] \in {db[q], None}
  <1> DEFINE row == [token |-> t, fresh |-> TRUE]
  <1>0. row \in Row /\ row.token = t
    BY DEF Row
  <1>1. row \in Row /\ row # None /\ row.token = t
    BY <1>0, NoneIsNothing
  <1> HIDE DEF row
  <1>2. Written(s, t) = [db EXCEPT ![s] = row]
    BY DEF Written, row
  <1> QED
    BY <1>1, <1>2 DEF StoreTypeOK, Deleted

\* persisted collects what the table holds.
LEMMA Collected ==
    ASSUME NEW rows \in [Subjects -> Row \cup {None}]
    PROVE  TableTokens(rows) \in SUBSET RefreshToken
  BY DEF TableTokens, Row

(***************************************************************************)
(* Type correctness, and what the locals hold.                             *)
(***************************************************************************)

\* TypeOK by component.
StoresOK == policy \in Policies /\ memory \in RefreshToken \cup {None} /\ warm \in BOOLEAN /\ lost \in SUBSET Subjects
SessionsOK == sess \in [Browsers -> SessionRecord]
RequestsOK ==
    /\ ppc \in [Requests -> {"idle", "exchange", "write", "save", "upstream"}]
    /\ origin \in [Requests -> Browsers \cup {Daemon, None}]
    /\ rec \in [Requests -> SessionRecord]
    /\ new \in [Requests -> RefreshToken \cup {None}]
    /\ retried \in [Requests -> BOOLEAN] /\ dirty \in [Requests -> BOOLEAN]
HandlersOK ==
    /\ hpc \in [Handlers -> {"idle", "login", "code", "store", "session", "delete", "flush"}]
    /\ hb \in [Handlers -> Browsers \cup {None}]
    /\ hrec \in [Handlers -> SessionRecord]
    /\ hnew \in [Handlers -> RefreshToken \cup {None}]
LoginsOK == attempts \in 0..MaxLogins /\ codes \in SUBSET (1..MaxLogins) /\ loggedOut \in SUBSET Subjects
BrokerOK == bpc \in {"idle", "exchange", "write"} /\ btoken \in RefreshToken \cup {None}

Typed ==
    /\ StoreTypeOK /\ StoresOK /\ SessionsOK /\ RequestsOK /\ HandlersOK /\ LoginsOK /\ BrokerOK
    /\ persisted \in SUBSET RefreshToken

\* TypeOK is the conjunction of these parts.
LEMMA TypedIsTypeOK == TypeOK <=> Typed
  BY DEF TypeOK, Typed, StoresOK, SessionsOK, RequestsOK, HandlersOK, LoginsOK, BrokerOK

\* A request that ends leaves its locals empty.
LEMMA RequestEnds ==
    ASSUME RequestsOK, RequestLocals, NEW r \in Requests, PEnd(r)
    PROVE  RequestsOK' /\ RequestLocals'
  BY EmptyIsSession DEF PEnd, PGoto, RequestsOK, RequestLocals

\* A handler that ends, too.
LEMMA HandlerEnds ==
    ASSUME HandlersOK, HandlerLocals, NEW h \in Handlers, HEnd(h)
    PROVE  HandlersOK' /\ HandlerLocals'
  BY EmptyIsSession DEF HEnd, HGoto, HandlersOK, HandlerLocals

\* A session's token, or the daemon's.
LEMMA StoredType ==
    ASSUME StoresOK, SessionsOK, NEW b \in Browsers \cup {Daemon}
    PROVE  Stored(b) \in SessionRecord /\ Stored(b).token \in RefreshToken \cup {None}
  BY SessionFields, MaxLoginsNat DEF Stored, StoresOK, SessionsOK, SessionRecord

\* A request's step keeps the types.
LEMMA RequestType ==
    ASSUME Typed, Locals, Issued, NEW r \in Requests, ProxyStep(r)
    PROVE  StoreTypeOK' /\ StoresOK' /\ SessionsOK' /\ RequestsOK' /\ RequestLocals'
  <1> USE DEF Typed, Locals, storeVars, proxyLocals
  <1>0. /\ ppc[r] # "idle" => rec[r].token \in RefreshToken /\ rec[r].token.sub \in Subjects
        /\ rec[r].csrf \in 0..MaxLogins
    BY DEF RequestLocals, RefreshToken, RequestsOK, SessionRecord
  <1>1. ASSUME NEW b \in Browsers \cup {Daemon}, LoadToken(r, b)
        PROVE  StoreTypeOK' /\ StoresOK' /\ SessionsOK' /\ RequestsOK' /\ RequestLocals'
    BY <1>1, StoredType DEF LoadToken, PGoto, StoreTypeOK, StoresOK, SessionsOK, RequestsOK, RequestLocals
  <1>2. CASE RefreshExchange(r)
    <2>1. PICK rt \in {None, NextToken(rec[r].token.sub)} :
            /\ GrantUnderPolicy(rec[r].token, rt)
            /\ new' = [new EXCEPT ![r] = UpdatedToken(rec[r].token, rt)]
      BY <1>2 DEF RefreshExchange
    <2>2. /\ UpdatedToken(rec[r].token, rt) \in RefreshToken
          /\ UpdatedToken(rec[r].token, rt).sub = rec[r].token.sub
      BY <1>0, <1>2, <2>1, RefreshEffect DEF RefreshExchange, UpdatedToken, StoresOK, Policies
    <2>3. StoreTypeOK'
      BY <1>0, <1>2, <2>1, RefreshEffect DEF RefreshExchange, StoresOK, StoreTypeOK
    <2> QED
      BY <1>2, <2>1, <2>2, <2>3 DEF RefreshExchange, PGoto, StoresOK, SessionsOK, RequestsOK, RequestLocals
  <1>3. CASE RefreshFails(r) \/ RespondServerError(r) \/ Disconnect(r)
    BY <1>3, RequestEnds DEF RefreshFails, RespondServerError, Disconnect, StoreTypeOK, StoresOK, SessionsOK
  <1>4. CASE RefreshAnswerLost(r)
    <2>1. StoreTypeOK'
      BY <1>0, <1>4, RefreshEffect DEF RefreshAnswerLost, StoresOK, StoreTypeOK
    <2> QED
      BY <1>0, <1>4, <2>1, RequestEnds DEF RefreshAnswerLost, StoresOK, SessionsOK
  <1>5. CASE RefreshWrite(r)
    <2>1. StoreTypeOK'
      BY <1>0, <1>5, TableEffect DEF RefreshWrite, RequestLocals, StoreTypeOK
    <2> QED
      BY <1>5, <2>1 DEF RefreshWrite, PGoto, StoresOK, SessionsOK, RequestsOK, RequestLocals
  <1>6. CASE RefreshWriteFails(r)
    <2>1. StoreTypeOK'
      BY <1>0, <1>6, TableEffect DEF RefreshWriteFails, RequestLocals, StoreTypeOK
    <2> QED
      BY <1>0, <1>6, <2>1, RequestEnds DEF RefreshWriteFails, StoresOK, SessionsOK
  <1>7. CASE SaveToken(r)
    <2>1. new[r] \in RefreshToken
      BY <1>7 DEF SaveToken, RequestLocals
    <2>2. Session(rec[r].csrf, new[r]) \in SessionRecord /\ Session(rec[r].csrf, new[r]).token = new[r]
      BY <1>0, <2>1, SessionFields
    <2> QED
      BY <1>7, <2>1, <2>2 DEF SaveToken, PGoto, StoreTypeOK, StoresOK, SessionsOK, RequestsOK, RequestLocals
  <1>8. CASE Retry(r)
    BY <1>8 DEF Retry, PGoto, StoreTypeOK, StoresOK, SessionsOK, RequestsOK, RequestLocals
  <1>9. CASE Respond(r)
    <2>1. SessionsOK'
      BY <1>9 DEF Respond, SessionsOK, RequestsOK, RequestLocals
    <2> QED
      BY <1>9, <2>1, RequestEnds DEF Respond, StoreTypeOK, StoresOK
  <1> QED
    BY <1>1, <1>2, <1>3, <1>4, <1>5, <1>6, <1>7, <1>8, <1>9 DEF ProxyStep

\* A handler's step, and the end of a session.
LEMMA HandlerType ==
    ASSUME Typed, Locals, Issued, NEW h \in Handlers, HandlerStep(h)
    PROVE  /\ StoreTypeOK' /\ StoresOK' /\ SessionsOK' /\ RequestsOK' /\ RequestLocals'
           /\ HandlersOK' /\ HandlerLocals' /\ LoginsOK'
  <1> USE DEF Typed, Locals, storeVars, proxyVars, proxyLocals, handlerLocals
  <1>0. /\ hpc[h] \in {"store", "session"} => hnew[h] \in RefreshToken /\ hnew[h].sub \in Subjects
        /\ hrec[h].token # None => hrec[h].token.sub \in Subjects
        /\ hrec[h].csrf \in 0..MaxLogins
        /\ hrec[h] \in SessionRecord
    BY DEF HandlerLocals, RefreshToken, HandlersOK, SessionRecord
  <1>a. RequestsOK' /\ RequestLocals'
    <2>1. UNCHANGED <<origin, rec, new, retried, dirty, ppc>>
      BY DEF HandlerStep, LoginStart, LogoutStart, CallbackStart, Begin, CodeExchange, LoginSave, CallbackWrite,
             CallbackSave, CallbackFails, LogoutDelete, LogoutFlush, LogoutFails
    <2> QED
      BY <2>1 DEF RequestsOK, RequestLocals
  <1> SUFFICES StoreTypeOK' /\ StoresOK' /\ SessionsOK' /\ HandlersOK' /\ HandlerLocals' /\ LoginsOK'
    BY <1>a
  <1>1. ASSUME NEW b \in Browsers, LoginStart(h, b)
        PROVE  /\ StoreTypeOK' /\ StoresOK' /\ SessionsOK' /\ HandlersOK' /\ HandlerLocals' /\ LoginsOK'
    <2>1. attempts + 1 \in 0..MaxLogins /\ attempts + 1 # 0
      BY <1>1, MaxLoginsNat DEF LoginStart, LoginsOK
    <2>2. sess[b].token \in RefreshToken \cup {None}
      BY DEF SessionsOK, SessionRecord
    <2>3. /\ Session(attempts + 1, sess[b].token) \in SessionRecord
          /\ Session(attempts + 1, sess[b].token).csrf = attempts + 1
      BY <2>1, <2>2, SessionFields
    <2> QED
      BY <1>1, <2>1, <2>3
      DEF LoginStart, Begin, HGoto, StoreTypeOK, StoresOK, SessionsOK, HandlersOK, HandlerLocals, LoginsOK
  <1>2. ASSUME NEW b \in Browsers, NEW n \in 1..MaxLogins, CallbackStart(h, b, n)
        PROVE  /\ StoreTypeOK' /\ StoresOK' /\ SessionsOK' /\ HandlersOK' /\ HandlerLocals' /\ LoginsOK'
    BY <1>2 DEF CallbackStart, Begin, HGoto, StoreTypeOK, StoresOK, SessionsOK, HandlersOK, HandlerLocals, LoginsOK
  <1>3. ASSUME NEW b \in Browsers, LogoutStart(h, b)
        PROVE  /\ StoreTypeOK' /\ StoresOK' /\ SessionsOK' /\ HandlersOK' /\ HandlerLocals' /\ LoginsOK'
    BY <1>3 DEF LogoutStart, Begin, HGoto, StoreTypeOK, StoresOK, SessionsOK, HandlersOK, HandlerLocals, LoginsOK
  <1>4. ASSUME NEW s \in Subjects, CodeExchange(h, s)
        PROVE  /\ StoreTypeOK' /\ StoresOK' /\ SessionsOK' /\ HandlersOK' /\ HandlerLocals' /\ LoginsOK'
    <2>1. NextToken(s) \in RefreshToken /\ StoreTypeOK'
      BY <1>4, LoginEffect DEF CodeExchange, StoreTypeOK
    <2> QED
      BY <1>4, <2>1 DEF CodeExchange, HGoto, StoresOK, SessionsOK, HandlersOK, HandlerLocals, LoginsOK
  <1>5. CASE LoginSave(h)
    <2>1. hrec[h].csrf \in 1..MaxLogins /\ hb[h] \in Browsers
      BY <1>0, <1>5, MaxLoginsNat DEF LoginSave, HandlerLocals
    <2> QED
      BY <1>0, <1>5, <2>1, HandlerEnds DEF LoginSave, StoreTypeOK, StoresOK, SessionsOK, LoginsOK
  <1>6. CASE CallbackWrite(h)
    <2>1. StoreTypeOK'
      BY <1>0, <1>6, TableEffect DEF CallbackWrite, StoreTypeOK
    <2> QED
      BY <1>6, <2>1 DEF CallbackWrite, HGoto, StoresOK, SessionsOK, HandlersOK, HandlerLocals, LoginsOK
  <1>7. CASE CallbackSave(h)
    <2>1. Session(0, hnew[h]) \in SessionRecord
      BY <1>0, <1>7, SessionFields, MaxLoginsNat DEF CallbackSave
    <2> QED
      BY <1>7, <2>1, HandlerEnds DEF CallbackSave, StoreTypeOK, StoresOK, SessionsOK, LoginsOK
  <1>8. CASE CallbackFails(h)
    <2>1. StoreTypeOK'
      BY <1>0, <1>8, TableEffect DEF CallbackFails, StoreTypeOK
    <2> QED
      BY <1>8, <2>1, HandlerEnds DEF CallbackFails, StoresOK, SessionsOK, LoginsOK
  <1>9. AfterLogout(h) \in [Subjects -> Row \cup {None}]
    BY <1>0 DEF AfterLogout, Deleted, StoreTypeOK
  <1>10. CASE LogoutDelete(h)
    BY <1>9, <1>10 DEF LogoutDelete, HGoto, StoreTypeOK, StoresOK, SessionsOK, HandlersOK, HandlerLocals, LoginsOK
  <1>11. CASE LogoutFlush(h)
    BY <1>0, <1>11, HandlerEnds, EmptyIsSession DEF LogoutFlush, StoreTypeOK, StoresOK, SessionsOK, LoginsOK
  <1>12. CASE LogoutFails(h)
    BY <1>9, <1>12, HandlerEnds DEF LogoutFails, StoreTypeOK, StoresOK, SessionsOK, LoginsOK
  <1> QED
    BY <1>1, <1>2, <1>3, <1>4, <1>5, <1>6, <1>7, <1>8, <1>10, <1>11, <1>12 DEF HandlerStep

\* The broker's step.
LEMMA BrokerType ==
    ASSUME Typed, Locals, Issued, BrokerStep
    PROVE  /\ StoreTypeOK' /\ StoresOK' /\ BrokerOK' /\ BrokerLocals'
  <1> USE DEF Typed, Locals, BrokerLocals, BrokerOK, storeVars, proxyVars, proxyLocals
  <1>0. bpc # "idle" => btoken \in RefreshToken /\ btoken.sub \in Subjects
    BY DEF RefreshToken
  <1>1. ASSUME NEW s \in Subjects, BrokerReads(s) PROVE StoreTypeOK' /\ StoresOK' /\ BrokerOK' /\ BrokerLocals'
    <2>1. db[s].token \in RefreshToken
      BY <1>1 DEF BrokerReads, Readable, StoreTypeOK, Row
    <2> QED
      BY <1>1, <2>1 DEF BrokerReads, StoreTypeOK, StoresOK
  <1>2. CASE BrokerExchanges
    <2>1. PICK rt \in {None, NextToken(btoken.sub)} :
            GrantUnderPolicy(btoken, rt) /\ btoken' = rt /\ bpc' = IF rt = None THEN "idle" ELSE "write"
      BY <1>2 DEF BrokerExchanges
    <2>2. rt \in RefreshToken \cup {None} /\ StoreTypeOK'
      BY <1>0, <1>2, <2>1, RefreshEffect DEF BrokerExchanges, StoresOK, StoreTypeOK
    <2> QED
      BY <1>2, <2>1, <2>2 DEF BrokerExchanges, StoresOK
  <1>3. CASE BrokerWrites
    <2>1. StoreTypeOK'
      BY <1>0, <1>3, TableEffect DEF BrokerWrites, StoreTypeOK
    <2> QED
      BY <1>3, <2>1 DEF BrokerWrites, StoresOK
  <1>4. CASE BrokerStops
    <2>1. StoreTypeOK'
      <3>1. CASE UNCHANGED storeVars
        BY <3>1 DEF StoreTypeOK
      <3>2. CASE bpc = "exchange" /\ GrantUnderPolicy(btoken, NextToken(btoken.sub)) /\ UNCHANGED db
        BY <1>0, <3>2, RefreshEffect DEF StoresOK, StoreTypeOK
      <3>3. CASE bpc = "write" /\ db' = Written(btoken.sub, btoken) /\ UNCHANGED <<issued, live>>
        BY <1>0, <3>3, TableEffect DEF StoreTypeOK
      <3> QED
        BY <1>4, <3>1, <3>2, <3>3 DEF BrokerStops
    <2>2. lost' \in SUBSET Subjects
      BY <1>0, <1>4 DEF BrokerStops, StoresOK
    <2> QED
      BY <1>4, <2>1, <2>2 DEF BrokerStops, StoresOK
  <1> QED
    BY <1>1, <1>2, <1>3, <1>4 DEF BrokerStep

\* Every step keeps the types, and what the locals hold.
LEMMA TypeStep ==
    ASSUME TypeOK, Locals, Issued, [Next]_vars
    PROVE  TypeOK' /\ Locals'
  <1> USE DEF storeVars, proxyVars, proxyLocals, gatewayVars, handlerLocals, brokerVars
  <1>0. Typed
    BY TypedIsTypeOK
  <1> SUFFICES ASSUME Typed
               PROVE  Typed' /\ Locals'
    BY <1>0, TypedIsTypeOK DEF TypeOK, Typed, StoresOK, SessionsOK, RequestsOK, HandlersOK, LoginsOK, BrokerOK, StoreTypeOK
  <1>1. CASE UNCHANGED vars
    BY <1>1 DEF vars, Typed, Locals, StoreTypeOK, StoresOK, SessionsOK, RequestsOK, RequestLocals, HandlersOK,
                HandlerLocals, LoginsOK, BrokerOK, BrokerLocals
  <1>2. CASE Next
    <2>1. SUFFICES /\ StoreTypeOK' /\ StoresOK' /\ SessionsOK' /\ RequestsOK' /\ HandlersOK' /\ LoginsOK' /\ BrokerOK'
                   /\ RequestLocals' /\ HandlerLocals' /\ BrokerLocals'
      BY <1>2, Collected DEF Next, Typed, Locals, StoreTypeOK
    <2>2. CASE RequestStep
      BY <2>2, RequestType DEF RequestStep, Typed, Locals, HandlersOK, HandlerLocals, LoginsOK, BrokerOK, BrokerLocals
    <2>3. CASE \E h \in Handlers : HandlerStep(h) /\ UNCHANGED brokerVars
      BY <2>3, HandlerType DEF Typed, Locals, BrokerOK, BrokerLocals
    <2>4. CASE \E b \in Browsers : SessionExpires(b) /\ UNCHANGED brokerVars
      BY <2>4, EmptyIsSession
      DEF SessionExpires, Typed, Locals, StoreTypeOK, StoresOK, SessionsOK, RequestsOK, RequestLocals, HandlersOK,
          HandlerLocals, LoginsOK, BrokerOK, BrokerLocals
    <2>5. CASE BrokerStep
      <3>1. UNCHANGED <<sess, ppc, proxyLocals, gatewayVars>>
        BY <2>5 DEF BrokerStep, BrokerReads, BrokerExchanges, BrokerWrites, BrokerStops
      <3> QED
        BY <2>5, <3>1, BrokerType
        DEF Typed, Locals, SessionsOK, RequestsOK, RequestLocals, HandlersOK, HandlerLocals, LoginsOK
    <2>6. CASE DaemonStep
      <3>1. /\ UNCHANGED <<storeVars, policy, sess, ppc, proxyLocals, lost, gatewayVars, brokerVars>>
            /\ memory' \in RefreshToken \cup {None} /\ warm' \in BOOLEAN
        BY <2>6 DEF DaemonStep, DaemonStart, DaemonStop, Readable, Typed, StoreTypeOK, Row
      <3> QED
        BY <3>1 DEF Typed, Locals, StoreTypeOK, StoresOK, SessionsOK, RequestsOK, RequestLocals, HandlersOK,
                    HandlerLocals, LoginsOK, BrokerOK, BrokerLocals
    <2>7. CASE RowStep
      <3>1. UNCHANGED <<issued, live, proxyVars, gatewayVars, brokerVars>> /\ db' \in [Subjects -> Row \cup {None}]
        BY <2>7 DEF RowStep, RowExpires, Typed, StoreTypeOK, Row
      <3> QED
        BY <3>1 DEF Typed, Locals, StoreTypeOK, StoresOK, SessionsOK, RequestsOK, RequestLocals, HandlersOK,
                    HandlerLocals, LoginsOK, BrokerOK, BrokerLocals
    <2> QED
      BY <1>2, <2>2, <2>3, <2>4, <2>5, <2>6, <2>7 DEF Next, GatewayStep
  <1> QED
    BY <1>1, <1>2

(***************************************************************************)
(* What a step does to the table and the provider.                         *)
(***************************************************************************)

\* The history variable follows the table.
Collects == persisted' = persisted \cup TableTokens(db')

\* A row that loses its freshness, or is deleted, brings nothing new.
LEMMA TableQuiet ==
    ASSUME Typed, StoreInv, StoreTypeOK', Collects, UNCHANGED <<issued, live, policy>>,
           \A q \in Subjects : db'[q] # None => db[q] # None /\ db'[q].token = db[q].token
    PROVE  persisted' = persisted /\ StoreInv'
  <1>1. TableTokens(db') \subseteq persisted
    BY DEF TableTokens, StoreInv, TablePublic
  <1>2. persisted' = persisted
    BY <1>1 DEF Collects
  <1> QED
    BY <1>2 DEF StoreInv, Owned, Issued, TablePublic, Unrevoked

\* A write of a token that the provider accepts.
LEMMA TableWritten ==
    ASSUME Typed, StoreInv, StoreTypeOK', Collects, UNCHANGED <<issued, live, policy>>,
           NEW t \in RefreshToken, t \in live, db' = Written(t.sub, t)
    PROVE  /\ persisted' = persisted \cup {t} /\ StoreInv'
           /\ t.sub \in Subjects /\ db'[t.sub] # None /\ db'[t.sub].token = t
           /\ \A q \in Subjects : q # t.sub => db'[q] = db[q]
  <1>1. /\ t.sub \in Subjects /\ db'[t.sub] # None /\ db'[t.sub].token = t
        /\ \A q \in Subjects : q # t.sub => db'[q] = db[q]
    <2>1. t.sub \in Subjects
      BY DEF RefreshToken
    <2> QED
      BY <2>1, TableEffect DEF Typed
  <1>2. TableTokens(db') \subseteq persisted \cup {t} /\ t \in TableTokens(db')
    BY <1>1 DEF TableTokens, StoreInv, TablePublic
  <1>3. persisted' = persisted \cup {t}
    BY <1>2 DEF Collects
  <1>4. Owned' /\ TablePublic'
    BY <1>1, <1>3 DEF StoreInv, Owned, TablePublic
  <1>5. Issued'
    BY <1>3 DEF StoreInv, Issued
  <1> QED
    BY <1>1, <1>3, <1>4, <1>5 DEF StoreInv, Unrevoked

\* A grant: issued grows, live changes and the table does not.
LEMMA TableGranted ==
    ASSUME Typed, StoreInv, Collects, UNCHANGED <<db, policy>>,
           live' \in SUBSET RefreshToken, issued' \in [Subjects -> 0..MaxRefreshTokens],
           \A q \in Subjects : issued[q] <= issued'[q],
           NEW rt, \A t \in live' : t \in live \/ (t = rt /\ rt.n <= issued'[rt.sub]),
           policy # "revoke" => live \subseteq live'
    PROVE  persisted' = persisted /\ StoreInv'
  <1>1. TableTokens(db') \subseteq persisted
    BY DEF TableTokens, StoreInv, TablePublic
  <1>2. persisted' = persisted
    BY <1>1 DEF Collects
  <1>3. \A t \in RefreshToken : t.n \in Nat /\ t.sub \in Subjects
    BY MaxRefreshTokensNat DEF RefreshToken
  <1>4. \A q \in Subjects : issued[q] \in Nat /\ issued'[q] \in Nat
    BY MaxRefreshTokensNat DEF Typed, StoreTypeOK
  <1>5. Issued'
    <2>1. ASSUME NEW t \in persisted PROVE t.n <= issued'[t.sub]
      BY <1>3, <1>4 DEF Typed, StoreInv, Issued
    <2>2. ASSUME NEW t \in live' PROVE t.n <= issued'[t.sub]
      BY <1>3, <1>4 DEF StoreInv, Issued
    <2> QED
      BY <1>2, <2>1, <2>2 DEF Issued
  <1> QED
    BY <1>2, <1>5 DEF StoreInv, Owned, TablePublic, Unrevoked

\* A refresh of a public token.
LEMMA TableRefreshed ==
    ASSUME Typed, StoreInv, Collects, UNCHANGED <<db, policy>>,
           NEW t \in RefreshToken, NEW rt \in {None, NextToken(t.sub)}, GrantUnderPolicy(t, rt)
    PROVE  persisted' = persisted /\ StoreInv'
  <1>1. StoreTypeOK /\ Issued /\ persisted \in SUBSET RefreshToken /\ policy \in Policies
    BY DEF Typed, StoreInv, StoresOK
  <1>2. /\ live' \in SUBSET RefreshToken
        /\ issued' \in [Subjects -> 0..MaxRefreshTokens]
        /\ \A q \in Subjects : issued[q] <= issued'[q]
        /\ \A u \in live' : u \in live \/ (u = rt /\ rt.n <= issued'[rt.sub])
        /\ policy # "revoke" => live \subseteq live'
    BY <1>1, RefreshEffect
  <1> QED
    BY <1>2, TableGranted

(***************************************************************************)
(* What a step does to the tokens in hands.                                *)
(***************************************************************************)

\* A private token stays in the hands it is in.
Stays(r) == Rotated(r)' => Rotated(r) /\ new'[r] = new[r]
Remains(h) == hpc'[h] = "store" => hpc[h] = "store" /\ hnew'[h] = hnew[h]
BrokerRemains == bpc' = "write" => bpc = "write" /\ btoken' = btoken

\* Nobody gets a private token, and only public ones are revoked.
LEMMA PrivateKept ==
    ASSUME Private, Apart, persisted' = persisted, live \ persisted \subseteq live',
           \A r \in Requests : Stays(r), \A h \in Handlers : Remains(h), BrokerRemains
    PROVE  Private' /\ Apart'
  <1>1. Private'
    BY DEF Private, Stays, Remains, BrokerRemains
  <1>2. Apart'
    BY DEF Apart, Stays, Remains, BrokerRemains
  <1> QED
    BY <1>1, <1>2

\* One of them, t, becomes public; nobody else has it.
LEMMA PrivatePublished ==
    ASSUME Private, Apart, UNCHANGED live, NEW t, persisted' = persisted \cup {t},
           \A r \in Requests : Stays(r) /\ (Rotated(r)' => new[r] # t),
           \A h \in Handlers : Remains(h) /\ (hpc'[h] = "store" => hnew[h] # t),
           BrokerRemains /\ (bpc' = "write" => btoken # t)
    PROVE  Private' /\ Apart'
  <1>1. Private'
    BY DEF Private, Stays, Remains, BrokerRemains
  <1>2. Apart'
    BY DEF Apart, Stays, Remains, BrokerRemains
  <1> QED
    BY <1>1, <1>2

\* What is in others' hands stays public.
LEMMA PublicKept ==
    ASSUME persisted \subseteq persisted', UNCHANGED policy
    PROVE  /\ RequestPublic /\ UNCHANGED <<ppc, rec, new>> => RequestPublic'
           /\ HandlerPublic /\ UNCHANGED <<hpc, hrec, hnew>> => HandlerPublic'
           /\ BrokerPublic /\ UNCHANGED <<bpc, btoken>> => BrokerPublic'
  BY DEF RequestPublic, HandlerPublic, BrokerPublic
\* A request's step keeps the tokens in order.
LEMMA RequestTokens ==
    ASSUME Typed, Locals, TokenInv, PersistedFirst, StoreTypeOK', Collects, NEW r \in Requests, ProxyStep(r),
           UNCHANGED <<gatewayVars, brokerVars>>
    PROVE  TokenInv'
  <1> USE DEF storeVars, proxyLocals, gatewayVars, handlerLocals, brokerVars, TokenInv, HandsInv
  <1>0. /\ UNCHANGED policy
        /\ ppc[r] # "idle" => rec[r].token \in RefreshToken /\ rec[r].token # None /\ rec[r].token \in persisted
        /\ ppc \in [Requests -> {"idle", "exchange", "write", "save", "upstream"}]
        /\ rec \in [Requests -> SessionRecord] /\ new \in [Requests -> RefreshToken \cup {None}]
    <2>1. UNCHANGED policy
      BY DEF ProxyStep, LoadToken, RefreshExchange, RefreshFails, RefreshAnswerLost, RefreshWrite, RefreshWriteFails,
             SaveToken, Retry, Respond, RespondServerError, Disconnect
    <2> QED
      BY <2>1, NoneIsNothing DEF Typed, RequestsOK, Locals, RequestLocals, RequestPublic
  <1>a. persisted \subseteq persisted'
    BY DEF Collects
  <1>b. HandlerPublic' /\ BrokerPublic'
    BY <1>0, <1>a, PublicKept
  \* A request that stores nothing.
  <1>1. CASE /\ UNCHANGED storeVars
             /\ \A q \in Requests : q # r => ppc'[q] = ppc[q] /\ rec'[q] = rec[q] /\ new'[q] = new[q]
             /\ rec'[r].token # None => rec'[r].token \in persisted
             /\ ppc'[r] \notin {"write", "save"}
    <2>1. persisted' = persisted /\ StoreInv'
      BY <1>0, <1>1, TableQuiet
    <2>2. RequestPublic'
      BY <1>0, <1>1, <2>1 DEF RequestPublic
    <2>3. Private' /\ Apart'
      <3>1. \A q \in Requests : Stays(q)
        BY <1>0, <1>1 DEF Stays, Rotated
      <3>2. BrokerRemains /\ \A h \in Handlers : Remains(h)
        BY DEF Remains, BrokerRemains
      <3> QED
        BY <1>1, <2>1, <3>1, <3>2, PrivateKept
    <2> QED
      BY <1>b, <2>1, <2>2, <2>3
  <1>2. ASSUME NEW b \in Browsers \cup {Daemon}, LoadToken(r, b) PROVE TokenInv'
    <2>1. Stored(b).token # None => Stored(b).token \in persisted
      BY <1>2, MaxLoginsNat DEF Stored, Session, PersistedFirst
    <2> QED
      BY <1>0, <1>1, <1>2, <2>1 DEF LoadToken, PGoto
  <1>3. CASE RefreshFails(r) \/ RespondServerError(r) \/ Disconnect(r) \/ Respond(r)
    BY <1>0, <1>1, <1>3, EmptyIsSession DEF RefreshFails, RespondServerError, Disconnect, Respond, PEnd, PGoto
  <1>4. CASE Retry(r)
    BY <1>0, <1>1, <1>4 DEF Retry, PGoto, RequestPublic
  <1>5. CASE SaveToken(r)
    <2>1. Session(rec[r].csrf, new[r]).token \in persisted
      BY <1>5 DEF SaveToken, Session, RequestPublic
    <2> QED
      BY <1>0, <1>1, <1>5, <2>1 DEF SaveToken, PGoto
  <1>c. BrokerRemains /\ \A h \in Handlers : Remains(h)
    BY DEF Remains, BrokerRemains
  \* The provider answers.
  <1>6. CASE RefreshExchange(r)
    <2>1. PICK rt \in {None, NextToken(rec[r].token.sub)} :
            /\ GrantUnderPolicy(rec[r].token, rt)
            /\ new' = [new EXCEPT ![r] = UpdatedToken(rec[r].token, rt)]
      BY <1>6 DEF RefreshExchange
    <2>2. persisted' = persisted /\ StoreInv'
      BY <1>0, <1>6, <2>1, TableRefreshed DEF RefreshExchange
    <2>3. /\ policy = "keep" => rt = None /\ UNCHANGED live
          /\ policy # "keep" => rt \in RefreshToken /\ rt \notin live /\ rt \notin persisted /\ rt \in live'
                                /\ live \ {rec[r].token} \subseteq live'
      BY <1>0, <1>6, <2>1, RefreshEffect DEF RefreshExchange, Typed, StoresOK, StoreInv
    <2>4. /\ ppc' = [ppc EXCEPT ![r] = "write"] /\ UNCHANGED rec
          /\ new'[r] = IF policy = "keep" THEN rec[r].token ELSE rt
          /\ \A q \in Requests : q # r => new'[q] = new[q]
          /\ rec[r].token \in persisted
      BY <1>0, <1>6, <2>1, <2>3, NoneIsNothing DEF RefreshExchange, PGoto, UpdatedToken
    <2>5. RequestPublic'
      BY <1>0, <2>2, <2>4 DEF RequestPublic
    <2>6. Private'
      BY <1>0, <2>2, <2>3, <2>4 DEF Private, Rotated
    <2>7. Apart'
      BY <1>0, <2>2, <2>3, <2>4 DEF Private, Apart, Rotated
    <2> QED
      BY <1>b, <2>2, <2>5, <2>6, <2>7
  <1>d. ASSUME PEnd(r), persisted' = persisted, live \ persisted \subseteq live'
        PROVE  RequestPublic' /\ Private' /\ Apart'
    <2>1. RequestPublic'
      BY <1>0, <1>d, EmptyIsSession DEF RequestPublic, PEnd, PGoto
    <2>2. \A q \in Requests : Stays(q)
      BY <1>0, <1>d DEF Stays, Rotated, PEnd, PGoto
    <2> QED
      BY <1>c, <1>d, <2>1, <2>2, PrivateKept
  <1>7. CASE RefreshAnswerLost(r)
    <2>1. persisted' = persisted /\ StoreInv'
      BY <1>0, <1>7, TableRefreshed DEF RefreshAnswerLost
    <2>2. live \ {rec[r].token} \subseteq live'
      BY <1>0, <1>7, RefreshEffect DEF RefreshAnswerLost, Typed, StoresOK, StoreInv
    <2> QED
      BY <1>0, <1>b, <1>d, <1>7, <2>1, <2>2 DEF RefreshAnswerLost
  \* The row is written: new[r] is public from here on.
  <1>e. ASSUME ppc[r] = "write", db' = Written(rec[r].token.sub, new[r]), UNCHANGED <<issued, live>>,
               \A q \in Requests : q # r => ppc'[q] = ppc[q] /\ rec'[q] = rec[q] /\ new'[q] = new[q],
               ppc'[r] # "write", ppc'[r] = "save" => new'[r] = new[r], rec'[r].token \in {None, rec[r].token}
        PROVE  TokenInv'
    <2>1. new[r] \in RefreshToken /\ new[r] \in live /\ new[r].sub = rec[r].token.sub
      BY <1>0, <1>e DEF Locals, RequestLocals, RequestPublic, Private, Rotated, StoreInv, Unrevoked
    <2>2. persisted' = persisted \cup {new[r]} /\ StoreInv'
      BY <1>0, <1>e, <2>1, TableWritten
    <2>3. RequestPublic'
      BY <1>0, <1>e, <2>2 DEF RequestPublic
    <2>4. CASE policy = "keep"
      <3>1. persisted' = persisted
        BY <1>e, <2>2, <2>4 DEF RequestPublic
      <3>2. \A q \in Requests : Stays(q)
        BY <1>0, <1>e DEF Stays, Rotated
      <3> QED
        BY <1>b, <1>c, <1>e, <2>2, <2>3, <3>1, <3>2, PrivateKept
    <2>5. CASE policy # "keep"
      <3>1. \A q \in Requests : Stays(q) /\ (Rotated(q)' => new[q] # new[r])
        BY <1>0, <1>e, <2>5 DEF Stays, Rotated, Apart
      <3>2. \A h \in Handlers : Remains(h) /\ (hpc'[h] = "store" => hnew[h] # new[r])
        BY <1>e, <2>5, <1>c DEF Apart, Rotated
      <3>3. BrokerRemains /\ (bpc' = "write" => btoken # new[r])
        BY <1>e, <2>5, <1>c DEF Apart, Rotated
      <3> QED
        BY <1>b, <1>e, <2>2, <2>3, <3>1, <3>2, <3>3, PrivatePublished
    <2> QED
      BY <2>4, <2>5
  <1>8. CASE RefreshWrite(r)
    BY <1>0, <1>8, <1>e DEF RefreshWrite, PGoto
  <1>9. CASE RefreshWriteFails(r)
    <2>1. CASE db' = db
      BY <1>0, <1>1, <1>9, <2>1, EmptyIsSession DEF RefreshWriteFails, PEnd, PGoto
    <2>2. CASE db' = Written(rec[r].token.sub, new[r])
      BY <1>0, <1>e, <1>9, <2>2, EmptyIsSession DEF RefreshWriteFails, PEnd, PGoto
    <2> QED
      BY <1>9, <2>1, <2>2 DEF RefreshWriteFails
  <1> QED
    BY <1>2, <1>3, <1>4, <1>5, <1>6, <1>7, <1>8, <1>9 DEF ProxyStep
\* A handler's step, too.
LEMMA HandlerTokens ==
    ASSUME Typed, Locals, TokenInv, PersistedFirst, StoreTypeOK', Collects, NEW h \in Handlers, HandlerStep(h),
           UNCHANGED brokerVars
    PROVE  TokenInv'
  <1> USE DEF storeVars, proxyVars, proxyLocals, handlerLocals, brokerVars, TokenInv, HandsInv
  <1>0. /\ UNCHANGED <<policy, ppc, rec, new, bpc, btoken>>
        /\ hpc \in [Handlers -> {"idle", "login", "code", "store", "session", "delete", "flush"}]
        /\ hrec \in [Handlers -> SessionRecord] /\ hnew \in [Handlers -> RefreshToken \cup {None}]
    <2>1. UNCHANGED <<policy, ppc, rec, new, bpc, btoken>>
      BY DEF HandlerStep, LoginStart, LogoutStart, CallbackStart, Begin, CodeExchange, LoginSave, CallbackWrite,
             CallbackSave, CallbackFails, LogoutDelete, LogoutFlush, LogoutFails
    <2> QED
      BY <2>1 DEF Typed, HandlersOK
  <1>a. persisted \subseteq persisted'
    BY DEF Collects
  <1>b. RequestPublic' /\ BrokerPublic'
    BY <1>0, <1>a, PublicKept
  <1>c. BrokerRemains /\ \A r \in Requests : Stays(r) /\ (Rotated(r)' <=> Rotated(r))
    BY <1>0 DEF Stays, Rotated, BrokerRemains
  \* A handler that brings no token to the table.
  <1>1. CASE /\ UNCHANGED <<issued, live>>
             /\ \A q \in Subjects : db'[q] \in {db[q], None}
             /\ \A k \in Handlers : k # h => hpc'[k] = hpc[k] /\ hrec'[k] = hrec[k] /\ hnew'[k] = hnew[k]
             /\ hrec'[h].token # None => hrec'[h].token \in persisted
             /\ hpc'[h] \notin {"store", "session"}
    <2>1. persisted' = persisted /\ StoreInv'
      BY <1>0, <1>1, TableQuiet
    <2>2. HandlerPublic'
      BY <1>0, <1>1, <2>1 DEF HandlerPublic
    <2>3. Private' /\ Apart'
      <3>1. \A k \in Handlers : Remains(k)
        BY <1>0, <1>1 DEF Remains
      <3> QED
        BY <1>c, <1>1, <2>1, <3>1, PrivateKept
    <2> QED
      BY <1>b, <2>1, <2>2, <2>3
  <1>2. ASSUME NEW b \in Browsers, LoginStart(h, b) \/ LogoutStart(h, b) \/ \E n \in 1..MaxLogins : CallbackStart(h, b, n)
        PROVE  TokenInv'
    <2>1. hrec'[h].token = sess[b].token
      BY <1>0, <1>2 DEF LoginStart, LogoutStart, CallbackStart, Begin, Session
    <2>2. sess[b].token # None => sess[b].token \in persisted
      BY DEF PersistedFirst
    <2> QED
      BY <1>0, <1>1, <1>2, <2>1, <2>2 DEF LoginStart, LogoutStart, CallbackStart, Begin, HGoto
  <1>3. CASE LoginSave(h) \/ CallbackSave(h) \/ LogoutFlush(h)
    BY <1>0, <1>1, <1>3, EmptyIsSession DEF LoginSave, CallbackSave, LogoutFlush, HEnd, HGoto
  <1>d. \A q \in Subjects : AfterLogout(h)[q] \in {db[q], None}
    BY DEF AfterLogout, Deleted, Typed, StoreTypeOK
  <1>4. CASE LogoutDelete(h)
    BY <1>0, <1>1, <1>d, <1>4 DEF LogoutDelete, HGoto, HandlerPublic
  <1>5. CASE LogoutFails(h)
    BY <1>0, <1>1, <1>d, <1>5, EmptyIsSession DEF LogoutFails, HEnd, HGoto
  \* exchange_code: a token nobody has.
  <1>6. ASSUME NEW s \in Subjects, CodeExchange(h, s) PROVE TokenInv'
    <2>1. /\ NextToken(s) \in RefreshToken /\ NextToken(s).sub = s
          /\ NextToken(s) \notin live /\ NextToken(s) \notin persisted
          /\ live' = live \cup {NextToken(s)} /\ live' \in SUBSET RefreshToken
          /\ issued' \in [Subjects -> 0..MaxRefreshTokens]
          /\ \A q \in Subjects : issued[q] <= issued'[q]
          /\ NextToken(s).n <= issued'[s]
      BY <1>6, LoginEffect DEF CodeExchange, Typed, StoreInv
    <2>2. persisted' = persisted /\ StoreInv'
      BY <1>0, <1>6, <2>1, TableGranted DEF CodeExchange
    <2>3. /\ UNCHANGED hrec /\ hpc' = [hpc EXCEPT ![h] = "store"]
          /\ hnew' = [hnew EXCEPT ![h] = NextToken(s)]
      BY <1>6 DEF CodeExchange, HGoto
    <2>4. HandlerPublic'
      BY <1>0, <2>2, <2>3 DEF HandlerPublic
    <2>5. Private'
      BY <1>0, <2>1, <2>2, <2>3 DEF Private, Rotated
    <2>6. Apart'
      BY <1>0, <2>1, <2>2, <2>3 DEF Private, Apart, Rotated
    <2> QED
      BY <1>b, <2>2, <2>4, <2>5, <2>6
  \* The row is written: hnew[h] is public from here on.
  <1>e. ASSUME hpc[h] = "store", db' = Written(hnew[h].sub, hnew[h]), UNCHANGED <<issued, live>>,
               \A k \in Handlers : k # h => hpc'[k] = hpc[k] /\ hrec'[k] = hrec[k] /\ hnew'[k] = hnew[k],
               hpc'[h] # "store", hpc'[h] = "session" => hnew'[h] = hnew[h], hrec'[h].token \in {None, hrec[h].token}
        PROVE  TokenInv'
    <2>1. hnew[h] \in RefreshToken /\ hnew[h] \in live
      BY <1>e DEF Locals, HandlerLocals, Private
    <2>2. persisted' = persisted \cup {hnew[h]} /\ StoreInv'
      BY <1>0, <1>e, <2>1, TableWritten
    <2>3. HandlerPublic'
      BY <1>0, <1>e, <2>2 DEF HandlerPublic
    <2>4. \A k \in Handlers : Remains(k) /\ (hpc'[k] = "store" => hnew[k] # hnew[h])
      BY <1>0, <1>e DEF Remains, Apart
    <2>5. \A r \in Requests : Stays(r) /\ (Rotated(r)' => new[r] # hnew[h])
      BY <1>c, <1>e DEF Apart
    <2>6. BrokerRemains /\ (bpc' = "write" => btoken # hnew[h])
      BY <1>0, <1>c, <1>e DEF Apart
    <2> QED
      BY <1>b, <1>e, <2>2, <2>3, <2>4, <2>5, <2>6, PrivatePublished
  <1>7. CASE CallbackWrite(h)
    BY <1>0, <1>7, <1>e DEF CallbackWrite, HGoto
  <1>8. CASE CallbackFails(h)
    <2>1. CASE db' = db
      BY <1>0, <1>1, <1>8, <2>1, EmptyIsSession DEF CallbackFails, HEnd, HGoto
    <2>2. CASE hpc[h] = "store" /\ db' = Written(hnew[h].sub, hnew[h])
      BY <1>0, <1>e, <1>8, <2>2, EmptyIsSession DEF CallbackFails, HEnd, HGoto
    <2> QED
      BY <1>8, <2>1, <2>2 DEF CallbackFails
  <1> QED
    BY <1>2, <1>3, <1>4, <1>5, <1>6, <1>7, <1>8 DEF HandlerStep

\* And the broker's.
LEMMA BrokerTokens ==
    ASSUME Typed, Locals, TokenInv, StoreTypeOK', Collects, BrokerStep
    PROVE  TokenInv'
  <1> USE DEF storeVars, proxyVars, proxyLocals, gatewayVars, handlerLocals, TokenInv, HandsInv
  <1>0. UNCHANGED <<policy, ppc, rec, new, hpc, hrec, hnew>>
    BY DEF BrokerStep, BrokerReads, BrokerExchanges, BrokerWrites, BrokerStops
  <1>a. persisted \subseteq persisted'
    BY DEF Collects
  <1>b. RequestPublic' /\ HandlerPublic'
    BY <1>0, <1>a, PublicKept
  <1>c. /\ \A r \in Requests : Stays(r) /\ (Rotated(r)' <=> Rotated(r))
        /\ \A h \in Handlers : Remains(h)
    BY <1>0 DEF Stays, Rotated, Remains
  <1>d. bpc # "idle" => btoken \in RefreshToken /\ btoken # None
    BY NoneIsNothing DEF Locals, BrokerLocals
  <1>1. CASE UNCHANGED storeVars /\ bpc' # "write" /\ (bpc' = "exchange" => btoken' \in persisted)
    <2>1. persisted' = persisted /\ StoreInv'
      BY <1>0, <1>1, TableQuiet
    <2>2. BrokerRemains /\ BrokerPublic'
      BY <1>1, <2>1 DEF BrokerRemains, BrokerPublic
    <2> QED
      BY <1>b, <1>c, <1>1, <2>1, <2>2, PrivateKept
  <1>2. ASSUME NEW s \in Subjects, BrokerReads(s) PROVE TokenInv'
    BY <1>1, <1>2 DEF BrokerReads, Readable, StoreInv, TablePublic
  <1>e. ASSUME bpc = "exchange", NEW rt \in {None, NextToken(btoken.sub)}, GrantUnderPolicy(btoken, rt), UNCHANGED db,
               bpc' = "idle" \/ (bpc' = "write" /\ btoken' = rt /\ rt # None)
        PROVE  TokenInv'
    <2>1. persisted' = persisted /\ StoreInv'
      BY <1>0, <1>d, <1>e, TableRefreshed
    <2>2. /\ policy = "keep" => rt = None /\ UNCHANGED live
          /\ policy # "keep" => rt \notin live /\ rt \notin persisted /\ rt \in live'
                                /\ live \ {btoken} \subseteq live'
      BY <1>d, <1>e, RefreshEffect DEF Typed, StoresOK, StoreInv
    <2>3. btoken \in persisted
      BY <1>e DEF BrokerPublic
    <2>4. BrokerPublic'
      BY <1>e DEF BrokerPublic
    <2>5. Private'
      BY <1>0, <1>e, <2>1, <2>2, <2>3 DEF Private, Rotated
    <2>6. Apart'
      BY <1>0, <1>e, <2>1, <2>2, <2>3 DEF Private, Apart, Rotated
    <2> QED
      BY <1>b, <2>1, <2>4, <2>5, <2>6
  <1>3. CASE BrokerExchanges
    BY <1>3, <1>e DEF BrokerExchanges
  <1>f. ASSUME bpc = "write", db' = Written(btoken.sub, btoken), UNCHANGED <<issued, live>>, bpc' = "idle"
        PROVE  TokenInv'
    <2>1. btoken \in live
      BY <1>f DEF Private
    <2>2. persisted' = persisted \cup {btoken} /\ StoreInv'
      BY <1>0, <1>d, <1>f, <2>1, TableWritten
    <2>3. BrokerPublic' /\ BrokerRemains /\ bpc' # "write"
      BY <1>f DEF BrokerPublic, BrokerRemains
    <2>4. \A r \in Requests : Stays(r) /\ (Rotated(r)' => new[r] # btoken)
      BY <1>c, <1>f DEF Apart
    <2>5. \A h \in Handlers : Remains(h) /\ (hpc'[h] = "store" => hnew[h] # btoken)
      BY <1>0, <1>c, <1>f DEF Apart
    <2> QED
      BY <1>b, <1>f, <2>2, <2>3, <2>4, <2>5, PrivatePublished
  <1>4. CASE BrokerWrites
    BY <1>4, <1>f DEF BrokerWrites
  <1>5. CASE BrokerStops
    <2>1. CASE UNCHANGED storeVars
      BY <1>1, <1>5, <2>1 DEF BrokerStops
    <2>2. CASE bpc = "exchange" /\ GrantUnderPolicy(btoken, NextToken(btoken.sub)) /\ UNCHANGED db
      BY <1>e, <1>5, <2>2 DEF BrokerStops
    <2>3. CASE bpc = "write" /\ db' = Written(btoken.sub, btoken) /\ UNCHANGED <<issued, live>>
      BY <1>f, <1>5, <2>3 DEF BrokerStops
    <2> QED
      BY <1>5, <2>1, <2>2, <2>3 DEF BrokerStops
  <1> QED
    BY <1>2, <1>3, <1>4, <1>5 DEF BrokerStep

\* Every step keeps the tokens in order.
LEMMA TokenStep ==
    ASSUME Typed, Locals, TokenInv, PersistedFirst, StoreTypeOK', [Next]_vars
    PROVE  TokenInv'
  <1> USE DEF storeVars, proxyVars, proxyLocals, gatewayVars, handlerLocals, brokerVars
  <1>1. CASE UNCHANGED vars
    BY <1>1 DEF vars, TokenInv, StoreInv, HandsInv, Owned, Issued, TablePublic, Unrevoked, RequestPublic,
                HandlerPublic, BrokerPublic, Private, Apart, Rotated
  <1>2. CASE RequestStep /\ Collects
    BY <1>2, RequestTokens DEF RequestStep
  <1>3. CASE BrokerStep /\ Collects
    BY <1>3, BrokerTokens
  <1>4. CASE (\E h \in Handlers : HandlerStep(h)) /\ UNCHANGED brokerVars /\ Collects
    BY <1>4, HandlerTokens
  \* Nobody's hands change.
  <1>5. CASE /\ Collects
             /\ UNCHANGED <<issued, live, policy, ppc, proxyLocals, gatewayVars, brokerVars>>
             /\ \A q \in Subjects : db'[q] # None => db[q] # None /\ db'[q].token = db[q].token
    <2>1. persisted' = persisted /\ StoreInv'
      BY <1>5, TableQuiet DEF TokenInv
    <2>2. HandsInv'
      BY <1>5, <2>1 DEF TokenInv, HandsInv, RequestPublic, HandlerPublic, BrokerPublic, Private, Apart, Rotated
    <2> QED
      BY <2>1, <2>2 DEF TokenInv
  <1>6. CASE (\E b \in Browsers : SessionExpires(b)) /\ UNCHANGED brokerVars /\ Collects
    BY <1>5, <1>6 DEF SessionExpires
  <1>7. CASE DaemonStep /\ Collects
    BY <1>5, <1>7 DEF DaemonStep, DaemonStart, DaemonStop
  <1>8. CASE RowStep /\ Collects
    <2>1. \A q \in Subjects : db'[q] # None => db[q] # None /\ db'[q].token = db[q].token
      BY <1>8 DEF RowStep, RowExpires, Typed, StoreTypeOK
    <2> QED
      BY <1>5, <1>8, <2>1 DEF RowStep, RowExpires
  <1> QED
    BY <1>1, <1>2, <1>3, <1>4, <1>6, <1>7, <1>8 DEF Next, GatewayStep, Collects
(***************************************************************************)
(* PersistedFirst.                                                         *)
(***************************************************************************)

\* Sessions and the daemon's memory are filled with public tokens only.
LEMMA PersistedStep ==
    ASSUME Typed, Locals, TokenInv, PersistedFirst, [Next]_vars
    PROVE  PersistedFirst'
  <1> USE DEF storeVars, proxyVars, proxyLocals, gatewayVars, handlerLocals, brokerVars, TokenInv, HandsInv
  <1>1. CASE UNCHANGED <<sess, memory, persisted>>
    BY <1>1 DEF PersistedFirst
  <1>2. CASE Next
    <2>0. persisted \subseteq persisted'
      BY <1>2 DEF Next
    <2>a. sess \in [Browsers -> SessionRecord]
      BY DEF Typed, SessionsOK
    <2>1. CASE UNCHANGED <<sess, memory>>
      BY <2>0, <2>1 DEF PersistedFirst
    \* One session is stored.
    <2>2. ASSUME NEW b \in Browsers, NEW e, sess' = [sess EXCEPT ![b] = e], UNCHANGED memory,
                 e.token # None => e.token \in persisted
          PROVE  PersistedFirst'
      BY <2>0, <2>a, <2>2 DEF PersistedFirst
    <2>3. ASSUME NEW r \in Requests, ProxyStep(r) PROVE PersistedFirst'
      <3>1. CASE SaveToken(r)
        BY <2>0, <3>1 DEF SaveToken, PersistedFirst, RequestPublic
      <3>2. CASE Respond(r)
        <4>1. CASE dirty[r] /\ origin[r] # Daemon
          <5>1. origin[r] \in Browsers
            BY <3>2, <4>1 DEF Respond, Locals, RequestLocals
          <5> QED
            BY <2>2, <3>2, <4>1, <5>1 DEF Respond, RequestPublic
        <4> QED
          BY <2>1, <3>2, <4>1 DEF Respond
      <3> QED
        BY <2>1, <2>3, <3>1, <3>2
        DEF ProxyStep, LoadToken, RefreshExchange, RefreshFails, RefreshAnswerLost, RefreshWrite, RefreshWriteFails,
            Retry, RespondServerError, Disconnect
    <2>4. ASSUME NEW h \in Handlers, HandlerStep(h) PROVE PersistedFirst'
      <3>0. hpc[h] # "idle" => hb[h] \in Browsers
        BY DEF Locals, HandlerLocals
      <3>1. CASE LoginSave(h)
        BY <2>2, <3>0, <3>1 DEF LoginSave, HandlerPublic
      <3>2. CASE CallbackSave(h)
        <4>1. Session(0, hnew[h]).token \in persisted
          BY <3>2 DEF CallbackSave, Session, HandlerPublic
        <4> QED
          BY <2>2, <3>0, <3>2, <4>1 DEF CallbackSave
      <3>3. CASE LogoutFlush(h)
        BY <2>2, <3>0, <3>3, EmptyIsSession DEF LogoutFlush
      <3> QED
        BY <2>1, <2>4, <3>1, <3>2, <3>3
        DEF HandlerStep, LoginStart, LogoutStart, CallbackStart, Begin, CodeExchange, CallbackWrite, CallbackFails,
            LogoutDelete, LogoutFails
    <2>5. ASSUME NEW b \in Browsers, SessionExpires(b) PROVE PersistedFirst'
      BY <2>2, <2>5, EmptyIsSession DEF SessionExpires
    <2>6. CASE BrokerStep \/ RowStep
      BY <2>1, <2>6 DEF BrokerStep, BrokerReads, BrokerExchanges, BrokerWrites, BrokerStops, RowStep
    <2>7. CASE DaemonStep
      <3>1. memory' # None => memory' \in persisted
        BY <2>7 DEF DaemonStep, DaemonStart, DaemonStop, Readable, StoreInv, TablePublic
      <3>2. UNCHANGED sess
        BY <2>7 DEF DaemonStep, DaemonStart, DaemonStop
      <3> QED
        BY <2>0, <3>1, <3>2 DEF PersistedFirst
    <2> QED
      BY <1>2, <2>3, <2>4, <2>5, <2>6, <2>7 DEF Next, GatewayStep, RequestStep
  <1> QED
    BY <1>1, <1>2 DEF vars

(***************************************************************************)
(* StoredTokenUsable.                                                      *)
(***************************************************************************)

\* A row of s keeps its token, goes, or gets one that is accepted.
RowKept(s) ==
    db'[s] # None => \/ db'[s].token \in live'
                     \/ db[s] # None /\ db'[s].token = db[s].token /\ (s \in lost => s \in lost')

\* No successor is needed.
Excused(s) == s \in lost' \/ (db'[s] # None => db'[s].token \in live')

\* Nothing is revoked, and nobody drops a token that is needed.
LEMMA UsableKept ==
    ASSUME StoredTokenUsable, live \subseteq live', \A s \in Subjects : RowKept(s),
           \A r \in Requests : ppc[r] = "write" => (ppc'[r] = "write" /\ new'[r] = new[r]) \/ Excused(new[r].sub),
           bpc = "write" => (bpc' = "write" /\ btoken' = btoken) \/ Excused(btoken.sub)
    PROVE  StoredTokenUsable'
  <1> USE DEF RowKept, Excused
  <1> SUFFICES ASSUME NEW s \in Subjects, db'[s] # None, s \notin lost', db'[s].token \notin live'
               PROVE  SuccessorPending(s)'
    BY DEF StoredTokenUsable
  <1>1. db[s] # None /\ s \notin lost /\ db[s].token \notin live
    OBVIOUS
  <1>2. SuccessorPending(s)
    BY <1>1 DEF StoredTokenUsable
  <1>3. CASE bpc = "write" /\ btoken.sub = s /\ btoken \in live
    BY <1>3 DEF SuccessorPending
  <1>4. ASSUME NEW r \in Requests, ppc[r] = "write", new[r].sub = s, new[r] \in live
        PROVE  SuccessorPending(s)'
    BY <1>4 DEF SuccessorPending
  <1> QED
    BY <1>2, <1>3, <1>4 DEF SuccessorPending

\* A grant can revoke the token t that it is for: who got the successor is about to
\* write it, or t's subject is lost.
LEMMA UsableGranted ==
    ASSUME Typed, TokenInv, StoredTokenUsable, NEW t \in RefreshToken, t \in persisted,
           NEW rt \in {None, NextToken(t.sub)}, GrantUnderPolicy(t, rt), UNCHANGED db,
           \A r \in Requests : ppc[r] = "write" => ppc'[r] = "write" /\ new'[r] = new[r],
           bpc = "write" => bpc' = "write" /\ btoken' = btoken,
           lost \subseteq lost',
           policy # "keep" => \A s \in Subjects : s = t.sub => s \in lost' \/ SuccessorPending(s)'
    PROVE  StoredTokenUsable'
  <1> USE DEF TokenInv, HandsInv
  <1>0. /\ policy = "keep" => UNCHANGED live
        /\ policy # "keep" => live \ {t} \subseteq live'
    BY RefreshEffect DEF Typed, StoresOK, StoreInv
  <1>1. CASE policy = "keep"
    BY <1>0, <1>1 DEF StoredTokenUsable, SuccessorPending
  <1>2. CASE policy # "keep"
    <2> SUFFICES ASSUME NEW s \in Subjects, db[s] # None, s \notin lost', s # t.sub
                 PROVE  db[s].token \in live' \/ SuccessorPending(s)'
      BY <1>2 DEF StoredTokenUsable
    <2>1. CASE db[s].token \in live
      BY <1>0, <1>2, <2>1 DEF StoreInv, Owned
    <2>2. CASE SuccessorPending(s)
      BY <1>0, <1>2, <2>2 DEF SuccessorPending
    <2> QED
      BY <2>1, <2>2 DEF StoredTokenUsable
  <1> QED
    BY <1>1, <1>2
\* Every step keeps the stored tokens usable.
LEMMA UsableStep ==
    ASSUME Typed, Locals, TokenInv, StoredTokenUsable, [Next]_vars
    PROVE  StoredTokenUsable'
  <1> USE DEF storeVars, proxyVars, proxyLocals, gatewayVars, handlerLocals, brokerVars, TokenInv, HandsInv
  <1>1. CASE UNCHANGED <<db, live, lost, ppc, new, bpc, btoken>>
    BY <1>1 DEF StoredTokenUsable, SuccessorPending
  <1>2. ASSUME NEW r \in Requests, ProxyStep(r), UNCHANGED brokerVars PROVE StoredTokenUsable'
    <2>0. /\ ppc[r] # "idle" => /\ rec[r].token \in RefreshToken /\ rec[r].token # None
                                /\ rec[r].token.sub \in Subjects /\ rec[r].token \in persisted
          /\ ppc \in [Requests -> {"idle", "exchange", "write", "save", "upstream"}]
          /\ new \in [Requests -> RefreshToken \cup {None}]
      BY NoneIsNothing DEF Typed, RequestsOK, Locals, RequestLocals, RequestPublic, RefreshToken
    <2>1. CASE /\ UNCHANGED <<storeVars, lost>> /\ ppc[r] # "write"
               /\ \A q \in Requests : q # r => ppc'[q] = ppc[q] /\ new'[q] = new[q]
      BY <1>2, <2>1, UsableKept DEF RowKept
    <2>2. CASE RefreshExchange(r)
      <3>1. PICK rt \in {None, NextToken(rec[r].token.sub)} :
              /\ GrantUnderPolicy(rec[r].token, rt)
              /\ new' = [new EXCEPT ![r] = UpdatedToken(rec[r].token, rt)]
        BY <2>2 DEF RefreshExchange
      <3>2. /\ ppc' = [ppc EXCEPT ![r] = "write"] /\ ppc[r] = "exchange"
            /\ UNCHANGED <<db, lost>>
        BY <2>2 DEF RefreshExchange, PGoto
      <3>3. policy # "keep" => \A s \in Subjects : s = rec[r].token.sub => SuccessorPending(s)'
        <4>1. policy # "keep" => rt \in RefreshToken /\ rt.sub = rec[r].token.sub /\ rt \in live'
          BY <2>0, <3>1, <3>2, RefreshEffect DEF Typed, StoresOK, StoreInv
        <4>2. policy # "keep" => new'[r] = rt /\ ppc'[r] = "write"
          BY <2>0, <3>1, <3>2, <4>1, NoneIsNothing DEF UpdatedToken
        <4> QED
          BY <4>1, <4>2 DEF SuccessorPending
      <3>4. \A q \in Requests : ppc[q] = "write" => ppc'[q] = "write" /\ new'[q] = new[q]
        BY <2>0, <3>1, <3>2
      <3> QED
        BY <1>2, <2>0, <3>1, <3>2, <3>3, <3>4, UsableGranted
    <2>3. CASE RefreshAnswerLost(r)
      <3>1. \A q \in Requests : ppc[q] = "write" => ppc'[q] = "write" /\ new'[q] = new[q]
        BY <2>0, <2>3 DEF RefreshAnswerLost, PEnd, PGoto
      <3> QED
        BY <1>2, <2>0, <2>3, <3>1, UsableGranted DEF RefreshAnswerLost
    <2>4. /\ ppc[r] = "write" => new[r] \in RefreshToken /\ new[r] \in live /\ new[r].sub = rec[r].token.sub
          /\ ppc[r] = "write" => LET rows == Written(rec[r].token.sub, new[r])
                                  IN  \A s \in Subjects : IF s = rec[r].token.sub THEN rows[s].token = new[r]
                                                                                 ELSE rows[s] = db[s]
      <3>1. ppc[r] = "write" => new[r] \in RefreshToken /\ new[r] \in live /\ new[r].sub = rec[r].token.sub
        BY DEF Locals, RequestLocals, RequestPublic, Private, Rotated, StoreInv, Unrevoked
      <3> QED
        BY <2>0, <3>1, TableEffect DEF Typed
    <2>5. CASE RefreshWrite(r)
      <3>1. \A q \in Requests : q # r => ppc'[q] = ppc[q] /\ new'[q] = new[q]
        BY <2>0, <2>5 DEF RefreshWrite, PGoto
      <3>2. (\A s \in Subjects : RowKept(s)) /\ Excused(new[r].sub) /\ live \subseteq live'
        BY <2>0, <2>4, <2>5 DEF RefreshWrite, RowKept, Excused
      <3> QED
        BY <1>2, <3>1, <3>2, UsableKept
    <2>6. CASE RefreshWriteFails(r)
      <3>1. \A q \in Requests : q # r => ppc'[q] = ppc[q] /\ new'[q] = new[q]
        BY <2>0, <2>6 DEF RefreshWriteFails, PEnd, PGoto
      <3>2. (\A s \in Subjects : RowKept(s)) /\ Excused(new[r].sub) /\ live \subseteq live'
        BY <2>0, <2>4, <2>6 DEF RefreshWriteFails, RowKept, Excused
      <3> QED
        BY <1>2, <3>1, <3>2, UsableKept
    <2> QED
      BY <1>2, <2>0, <2>1, <2>2, <2>3, <2>5, <2>6
      DEF ProxyStep, LoadToken, RefreshFails, SaveToken, Retry, Respond, RespondServerError, Disconnect, PEnd, PGoto
  <1>3. ASSUME NEW h \in Handlers, HandlerStep(h), UNCHANGED brokerVars PROVE StoredTokenUsable'
    <2>0. UNCHANGED <<ppc, new>>
      BY <1>3 DEF HandlerStep, LoginStart, LogoutStart, CallbackStart, Begin, CodeExchange, LoginSave, CallbackWrite,
                  CallbackSave, CallbackFails, LogoutDelete, LogoutFlush, LogoutFails
    <2>1. CASE UNCHANGED <<live, lost>> /\ \A s \in Subjects : db'[s] \in {db[s], None}
      BY <1>3, <2>0, <2>1, UsableKept DEF RowKept
    <2>2. ASSUME NEW s \in Subjects, CodeExchange(h, s) PROVE StoredTokenUsable'
      BY <1>3, <2>0, <2>2, UsableKept DEF CodeExchange, GrantLogin, RowKept
    <2>3. CASE hpc[h] = "store" /\ db' = Written(hnew[h].sub, hnew[h]) /\ UNCHANGED live /\ lost \ {hnew[h].sub} \subseteq lost'
      <3>1. hnew[h] \in RefreshToken /\ hnew[h] \in live /\ hnew[h].sub \in Subjects
        BY <2>3 DEF Locals, HandlerLocals, Private, RefreshToken
      <3>2. \A s \in Subjects : IF s = hnew[h].sub THEN db'[s].token = hnew[h] ELSE db'[s] = db[s]
        BY <2>3, <3>1, TableEffect DEF Typed
      <3> QED
        BY <1>3, <2>0, <2>3, <3>1, <3>2, UsableKept DEF RowKept
    <2>4. \A q \in Subjects : AfterLogout(h)[q] \in {db[q], None}
      BY DEF AfterLogout, Deleted, Typed, StoreTypeOK
    <2>5. CASE CallbackWrite(h)
      BY <2>3, <2>5 DEF CallbackWrite
    <2>6. CASE CallbackFails(h)
      BY <2>1, <2>3, <2>6 DEF CallbackFails
    <2>7. CASE LogoutDelete(h) \/ LogoutFails(h)
      BY <2>1, <2>4, <2>7 DEF LogoutDelete, LogoutFails
    <2> QED
      BY <1>3, <2>1, <2>2, <2>5, <2>6, <2>7
      DEF HandlerStep, LoginStart, LogoutStart, CallbackStart, Begin, LoginSave, CallbackSave, LogoutFlush
  <1>4. CASE BrokerStep
    <2>0. /\ UNCHANGED <<ppc, new>>
          /\ bpc # "idle" => btoken \in RefreshToken /\ btoken.sub \in Subjects
          /\ bpc = "exchange" => btoken \in persisted
          /\ bpc = "write" => btoken \in live
      BY <1>4 DEF BrokerStep, BrokerReads, BrokerExchanges, BrokerWrites, BrokerStops, Locals, BrokerLocals,
                  RefreshToken, BrokerPublic, Private
    <2>1. CASE UNCHANGED <<storeVars, lost>> /\ bpc # "write"
      BY <2>0, <2>1, UsableKept DEF RowKept
    <2>2. CASE BrokerExchanges
      <3>1. PICK rt \in {None, NextToken(btoken.sub)} :
              GrantUnderPolicy(btoken, rt) /\ btoken' = rt /\ bpc' = IF rt = None THEN "idle" ELSE "write"
        BY <2>2 DEF BrokerExchanges
      <3>2. policy # "keep" => rt \in RefreshToken /\ rt.sub = btoken.sub /\ rt \in live'
        BY <2>0, <2>2, <3>1, RefreshEffect DEF BrokerExchanges, Typed, StoresOK, StoreInv
      <3>3. policy # "keep" => \A s \in Subjects : s = btoken.sub => SuccessorPending(s)'
        BY <3>1, <3>2, NoneIsNothing DEF SuccessorPending
      <3> QED
        BY <2>0, <2>2, <3>1, <3>3, UsableGranted DEF BrokerExchanges
    <2>3. bpc = "write" => LET rows == Written(btoken.sub, btoken)
                           IN  \A s \in Subjects : IF s = btoken.sub THEN rows[s].token = btoken ELSE rows[s] = db[s]
      BY <2>0, TableEffect DEF Typed
    <2>4. CASE BrokerWrites
      <3>1. (\A s \in Subjects : RowKept(s)) /\ Excused(btoken.sub) /\ live \subseteq live'
        BY <2>0, <2>3, <2>4 DEF BrokerWrites, RowKept, Excused
      <3> QED
        BY <2>0, <3>1, UsableKept
    <2>5. CASE BrokerStops
      <3>1. CASE bpc = "exchange" /\ UNCHANGED <<storeVars, lost>>
        BY <2>1, <3>1
      <3>2. CASE bpc = "exchange" /\ GrantUnderPolicy(btoken, NextToken(btoken.sub)) /\ UNCHANGED db
                 /\ lost' = lost \cup {btoken.sub}
        BY <2>0, <3>2, UsableGranted
      <3>3. CASE bpc = "write" /\ (db' = db \/ db' = Written(btoken.sub, btoken)) /\ UNCHANGED <<issued, live>>
                 /\ lost' = lost \cup {btoken.sub}
        <4>1. (\A s \in Subjects : RowKept(s)) /\ Excused(btoken.sub) /\ live \subseteq live'
          BY <2>0, <2>3, <3>3 DEF RowKept, Excused
        <4> QED
          BY <2>0, <4>1, UsableKept
      <3> QED
        BY <2>5, <3>1, <3>2, <3>3 DEF BrokerStops
    <2> QED
      BY <1>4, <2>1, <2>2, <2>4, <2>5 DEF BrokerStep, BrokerReads
  <1>5. CASE DaemonStep \/ ((\E b \in Browsers : SessionExpires(b)) /\ UNCHANGED brokerVars)
    BY <1>1, <1>5 DEF DaemonStep, DaemonStart, DaemonStop, SessionExpires
  <1>6. CASE RowStep
    <2>1. \A q \in Subjects : db'[q] # None => db[q] # None /\ db'[q].token = db[q].token
      BY <1>6 DEF RowStep, RowExpires, Typed, StoreTypeOK
    <2> QED
      BY <1>6, <2>1, UsableKept DEF RowStep, RowExpires, RowKept
  <1> QED
    BY <1>1, <1>2, <1>3, <1>4, <1>5, <1>6 DEF Next, GatewayStep, RequestStep, vars

(***************************************************************************)
(* The theorems.                                                           *)
(***************************************************************************)

\* The initial states satisfy the invariant.
LEMMA InitInv == Init => IInv
  <1> SUFFICES ASSUME Init PROVE IInv
    OBVIOUS
  <1> USE DEF Init, ProxyInit, GatewayInit
  <1>1. TypeOK
    <2>1. StoreTypeOK
      BY MaxRefreshTokensNat DEF StoreTypeOK
    <2>2. StoresOK /\ SessionsOK /\ RequestsOK /\ HandlersOK
      BY EmptyIsSession DEF StoresOK, SessionsOK, RequestsOK, HandlersOK
    <2>3. LoginsOK /\ BrokerOK /\ persisted \in SUBSET RefreshToken
      BY MaxLoginsNat DEF LoginsOK, BrokerOK
    <2> QED
      BY <2>1, <2>2, <2>3, TypedIsTypeOK DEF Typed
  <1>2. Locals
    BY DEF Locals, RequestLocals, HandlerLocals, BrokerLocals
  <1>3. TokenInv
    BY EmptyIsSession
    DEF TokenInv, StoreInv, HandsInv, Owned, Issued, TablePublic, Unrevoked, RequestPublic, HandlerPublic,
        BrokerPublic, Private, Apart, Rotated
  <1>4. PersistedFirst /\ StoredTokenUsable
    BY EmptyIsSession DEF PersistedFirst, StoredTokenUsable
  <1> QED
    BY <1>1, <1>2, <1>3, <1>4 DEF IInv

\* Every step preserves it.
LEMMA NextInv == IInv /\ [Next]_vars => IInv'
  <1> SUFFICES ASSUME IInv, [Next]_vars PROVE IInv'
    OBVIOUS
  <1>1. TypeOK /\ Typed /\ Locals /\ TokenInv /\ PersistedFirst /\ StoredTokenUsable /\ Issued
    BY TypedIsTypeOK DEF IInv, TokenInv, StoreInv
  <1>2. TypeOK' /\ Locals'
    BY <1>1, TypeStep
  <1>3. TokenInv'
    BY <1>1, <1>2, TokenStep DEF TypeOK
  <1>4. PersistedFirst'
    BY <1>1, PersistedStep
  <1>5. StoredTokenUsable'
    BY <1>1, UsableStep
  <1> QED
    BY <1>2, <1>3, <1>4, <1>5 DEF IInv

\* The invariant holds in every reachable state.
LEMMA InvHolds == Spec => []IInv
  BY InitInv, NextInv, PTL DEF Spec

\* TypeOK: sessions, daemon, requests, handlers, broker, table and provider keep
\* their types through every interleaving.
THEOREM TypeCorrect == Spec => []TypeOK
  <1>1. IInv => TypeOK
    BY DEF IInv
  <1> QED
    BY <1>1, InvHolds, PTL

\* StoredTokenUsable: whatever gateway, daemon and broker write over each other's
\* rows, a row holds a token the provider accepts or the successor is on its way,
\* unless a fault came between exchange and write.
THEOREM StoredTokenUsableHolds == Spec => []StoredTokenUsable
  <1>1. IInv => StoredTokenUsable
    BY DEF IInv
  <1> QED
    BY <1>1, InvHolds, PTL

\* PersistedFirst: refresh_and_persist and the callback write the table before the
\* session or the daemon's memory.
THEOREM PersistedFirstHolds == Spec => []PersistedFirst
  <1>1. IInv => PersistedFirst
    BY DEF IInv
  <1> QED
    BY <1>1, InvHolds, PTL
=============================================================================

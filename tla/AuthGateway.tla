---------------------------- MODULE AuthGateway -----------------------------
(***************************************************************************)
(* auth-gateway's own handlers: login, callback, logout                    *)
(* (auth-gateway/src/{login,callback,main}.rs).  Each works on its copy of *)
(* the session record; on an error (500) the session layer stores nothing, *)
(* so what a failed callback removed from its copy stays in the session.   *)
(***************************************************************************)
EXTENDS InjectToken

CONSTANTS
    Handlers,    \* handler invocations in flight
    MaxLogins    \* bound: authorization attempts (CSRF tokens) over a behaviour

ASSUME MaxLoginsNat == MaxLogins \in Nat

VARIABLES
    hpc,       \* hpc[h]: where handler h is
    hb,        \* hb[h]: the browser it serves
    hrec,      \* hrec[h]: its copy of the session record
    hnew,      \* hnew[h]: refresh token of the code exchange
    attempts,  \* authorization attempts so far; the n-th has CSRF token n
    codes,     \* attempts whose authorization code is not redeemed
    loggedOut  \* history: subjects whose last completed act is a logout

handlerLocals == <<hb, hrec, hnew>>
gatewayVars == <<hpc, handlerLocals, attempts, codes, loggedOut>>

HGoto(h, p) == hpc' = [hpc EXCEPT ![h] = p]

HEnd(h) ==
    /\ HGoto(h, "idle")
    /\ hb' = [hb EXCEPT ![h] = None]
    /\ hrec' = [hrec EXCEPT ![h] = EmptySession]
    /\ hnew' = [hnew EXCEPT ![h] = None]

\* A handler starts with the record r of browser b's session.
Begin(h, b, r, p) ==
    /\ hpc[h] = "idle"
    /\ hb' = [hb EXCEPT ![h] = b]
    /\ hrec' = [hrec EXCEPT ![h] = r]
    /\ HGoto(h, p)
    /\ UNCHANGED <<storeVars, proxyVars, hnew, codes, loggedOut>>

\* GET /auth/login: a new CSRF token goes into the session ...
LoginStart(h, b) ==
    /\ attempts < MaxLogins
    /\ attempts' = attempts + 1
    /\ Begin(h, b, Session(attempts + 1, sess[b].token), "login")

\* ... and the redirect goes out once the session is stored.
LoginSave(h) ==
    /\ hpc[h] = "login"
    /\ codes' = codes \cup {hrec[h].csrf}
    /\ sess' = [sess EXCEPT ![hb[h]] = hrec[h]]
    /\ HEnd(h)
    /\ UNCHANGED <<storeVars, policy, memory, warm, ppc, proxyLocals, lost, attempts, loggedOut>>

\* The pending login of the session is the one the redirect belongs to.
StateMatches(b, n) == sess[b].csrf # 0 /\ sess[b].csrf = n

\* GET /auth/callback?state=n; "session expired" and "invalid state" answer 500.
CallbackStart(h, b, n) ==
    /\ StateMatches(b, n)
    /\ Begin(h, b, sess[b], "code")
    /\ UNCHANGED attempts

\* exchange_code and the checks of the ID token; a code is redeemed once.
CodeExchange(h, s) ==
    /\ hpc[h] = "code"
    /\ hrec[h].csrf \in codes
    /\ codes' = codes \ {hrec[h].csrf}
    /\ GrantLogin(s, NextToken(s))
    /\ hnew' = [hnew EXCEPT ![h] = NextToken(s)]
    /\ HGoto(h, "store")
    /\ UNCHANGED <<db, proxyVars, hb, hrec, attempts, loggedOut>>

\* An error on the way; the write may have been applied and not acknowledged.
CallbackFails(h) ==
    /\ hpc[h] \in {"code", "store", "session"}
    /\ \/ db' = db
       \/ hpc[h] = "store" /\ db' = Written(hnew[h].sub, hnew[h])
    /\ HEnd(h)
    /\ UNCHANGED <<issued, live, proxyVars, attempts, codes, loggedOut>>

\* Mutant: the callback fills the session and forgets the table.
CallbackWithoutRow(h) ==
    /\ hpc[h] = "store"
    /\ HGoto(h, "session")
    /\ UNCHANGED <<storeVars, proxyVars, handlerLocals, attempts, codes, loggedOut>>

\* write_token_to_database comes first ...
CallbackWrite(h) ==
    /\ hpc[h] = "store"
    /\ db' = Written(hnew[h].sub, hnew[h])
    /\ loggedOut' = loggedOut \ {hnew[h].sub}
    /\ lost' = lost \ {hnew[h].sub}
    /\ HGoto(h, "session")
    /\ UNCHANGED <<issued, live, policy, sess, memory, warm, ppc, proxyLocals, handlerLocals, attempts, codes>>

\* ... then the session: the pending login is gone, the token is there.
CallbackSave(h) ==
    /\ hpc[h] = "session"
    /\ sess' = [sess EXCEPT ![hb[h]] = Session(0, hnew[h])]
    /\ HEnd(h)
    /\ UNCHANGED <<storeVars, policy, memory, warm, ppc, proxyLocals, lost, attempts, codes, loggedOut>>

\* delete_token_from_database, for a session that has a token.
AfterLogout(h) == IF hrec[h].token = None THEN db ELSE Deleted(hrec[h].token.sub)

\* POST /auth/logout: the row first ...
LogoutStart(h, b) == Begin(h, b, sess[b], "delete") /\ UNCHANGED attempts

LogoutDelete(h) ==
    /\ hpc[h] = "delete"
    /\ db' = AfterLogout(h)
    /\ HGoto(h, "flush")
    /\ UNCHANGED <<issued, live, proxyVars, handlerLocals, attempts, codes, loggedOut>>

\* An error on the way; the row may be gone all the same.
LogoutFails(h) ==
    /\ \/ hpc[h] \in {"delete", "flush"} /\ db' = db
       \/ hpc[h] = "delete" /\ db' = AfterLogout(h)
    /\ HEnd(h)
    /\ UNCHANGED <<issued, live, proxyVars, attempts, codes, loggedOut>>

\* ... then the whole session.
LogoutFlush(h) ==
    /\ hpc[h] = "flush"
    /\ sess' = [sess EXCEPT ![hb[h]] = EmptySession]
    /\ loggedOut' = loggedOut \cup
         (IF hrec[h].token = None THEN {} ELSE {hrec[h].token.sub})
    /\ HEnd(h)
    /\ UNCHANGED <<storeVars, policy, memory, warm, ppc, proxyLocals, lost, attempts, codes>>

\* Ten minutes without activity, or a restart of the gateway (MemoryStore).
SessionExpires(b) ==
    /\ sess[b] # EmptySession
    /\ sess' = [sess EXCEPT ![b] = EmptySession]
    /\ UNCHANGED <<storeVars, policy, memory, warm, ppc, proxyLocals, lost, gatewayVars>>

HandlerStep(h) ==
    \/ \E b \in Browsers : LoginStart(h, b) \/ LogoutStart(h, b)
    \/ \E b \in Browsers, n \in 1..MaxLogins : CallbackStart(h, b, n)
    \/ \E s \in Subjects : CodeExchange(h, s)
    \/ LoginSave(h) \/ CallbackWrite(h) \/ CallbackSave(h) \/ CallbackFails(h)
    \/ LogoutDelete(h) \/ LogoutFlush(h) \/ LogoutFails(h)

GatewayInit ==
    /\ hpc = [h \in Handlers |-> "idle"]
    /\ hb = [h \in Handlers |-> None]
    /\ hrec = [h \in Handlers |-> EmptySession]
    /\ hnew = [h \in Handlers |-> None]
    /\ attempts = 0
    /\ codes = {}
    /\ loggedOut = {}
=============================================================================

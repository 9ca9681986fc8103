---------------------------- MODULE InjectToken -----------------------------
(***************************************************************************)
(* inject_token_with (auth-core/src/middleware/inject_token.rs), the       *)
(* middleware through which auth-gateway and auth-daemon forward requests  *)
(* to the graph: load the token, refresh it if expired, call upstream,     *)
(* refresh and retry once if the answer asks for it.                       *)
(*                                                                         *)
(* The two stores behind it differ.  The gateway's is the browser's        *)
(* session: a request works on a copy of the session record, which the     *)
(* session layer writes back as a whole once the response is ready, if it  *)
(* was modified and the response is not a server error.  The daemon's is   *)
(* one token in memory behind a RwLock, replaced inside                    *)
(* refresh_and_persist.  Whether an access token has expired when it is    *)
(* loaded is an input.                                                     *)
(***************************************************************************)
EXTENDS TokenStore

CONSTANTS
    Browsers,  \* browser sessions of the gateway
    Daemon,    \* the auth-daemon process of a workflow pod
    Requests   \* requests in flight through the middleware

ASSUME DaemonIsNoBrowser == Daemon \notin Browsers

VARIABLES
    policy,  \* what the provider does with refresh tokens (fixed)
    sess,    \* sess[b]: the stored session record of browser b
    memory,  \* the daemon's refresh token (RouterState.token), None: not running
    warm,    \* the daemon has an access token too
    ppc,     \* ppc[r]: where request r is
    origin,  \* origin[r]: whose store it uses
    rec,     \* rec[r]: its copy of the session record (or of the daemon's token)
    new,     \* new[r]: refresh token obtained and not yet persisted
    retried, \* retried[r]: the one retry is spent
    dirty,   \* dirty[r]: the session copy was modified
    lost     \* history: subjects a fault may have cost their refresh token

proxyLocals == <<origin, rec, new, retried, dirty>>
proxyVars == <<policy, sess, memory, warm, ppc, proxyLocals, lost>>

\* A session record: pending login (its CSRF token), and the user's token.
Session(c, t) == [csrf |-> c, token |-> t]
EmptySession == Session(0, None)

Policies == {"keep", "rotate", "revoke"}

\* The provider grants a refresh of t, as its configuration says.
GrantUnderPolicy(t, rt) ==
    /\ Grant(t, rt)
    /\ policy = "keep" <=> rt = None
    /\ policy = "rotate" => t \in live'
    /\ policy = "revoke" => t \notin live'

\* load_token of the store behind b.
Stored(b) == IF b = Daemon THEN Session(0, memory) ELSE sess[b]

PGoto(r, p) == ppc' = [ppc EXCEPT ![r] = p]

\* The response is out, or the future was dropped.
PEnd(r) ==
    /\ PGoto(r, "idle")
    /\ origin' = [origin EXCEPT ![r] = None]
    /\ rec' = [rec EXCEPT ![r] = EmptySession]
    /\ new' = [new EXCEPT ![r] = None]
    /\ retried' = [retried EXCEPT ![r] = FALSE]
    /\ dirty' = [dirty EXCEPT ![r] = FALSE]

\* load_token; with no token the middleware answers 401 itself.
LoadToken(r, b) ==
    /\ ppc[r] = "idle"
    /\ Stored(b).token # None
    /\ origin' = [origin EXCEPT ![r] = b]
    /\ rec' = [rec EXCEPT ![r] = Stored(b)]
    /\ \E expired \in BOOLEAN :
         /\ b = Daemon /\ ~warm => expired
         /\ PGoto(r, IF expired THEN "exchange" ELSE "upstream")
    /\ UNCHANGED <<storeVars, policy, sess, memory, warm, new, retried, dirty, lost>>

\* Mutant: the response's refresh token is taken even if there is none.
ResponseToken(old, rt) == rt

\* update_tokens: a response without refresh token keeps the old one.
UpdatedToken(old, rt) == IF rt = None THEN old ELSE rt

\* refresh_and_persist, first await: the provider.
RefreshExchange(r) ==
    /\ ppc[r] = "exchange"
    /\ \E rt \in {None, NextToken(rec[r].token.sub)} :
         /\ GrantUnderPolicy(rec[r].token, rt)
         /\ new' = [new EXCEPT ![r] = UpdatedToken(rec[r].token, rt)]
    /\ PGoto(r, "write")
    /\ UNCHANGED <<db, policy, sess, memory, warm, origin, rec, retried, dirty, lost>>

\* The provider refuses or cannot be reached: 500.
RefreshFails(r) ==
    /\ ppc[r] = "exchange"
    /\ PEnd(r)
    /\ UNCHANGED <<storeVars, policy, sess, memory, warm, lost>>

\* The provider acts and its answer is lost on the way: 500 as well.
RefreshAnswerLost(r) ==
    /\ ppc[r] = "exchange"
    /\ GrantUnderPolicy(rec[r].token, NextToken(rec[r].token.sub))
    /\ lost' = lost \cup {rec[r].token.sub}
    /\ PEnd(r)
    /\ UNCHANGED <<db, policy, sess, memory, warm>>

\* Mutant: the session is updated and the row is not.
SessionOnly(r) ==
    /\ ppc[r] = "write"
    /\ PGoto(r, "save")
    /\ UNCHANGED <<storeVars, policy, sess, memory, warm, proxyLocals, lost>>

\* refresh_and_persist, second await: the database.
RefreshWrite(r) ==
    /\ ppc[r] = "write"
    /\ db' = Written(rec[r].token.sub, new[r])
    /\ PGoto(r, "save")
    /\ UNCHANGED <<issued, live, policy, sess, memory, warm, proxyLocals, lost>>

\* The write fails, is applied and not acknowledged, or the client went away.
RefreshWriteFails(r) ==
    /\ ppc[r] = "write"
    /\ db' = db \/ db' = Written(rec[r].token.sub, new[r])
    /\ lost' = lost \cup {rec[r].token.sub}
    /\ PEnd(r)
    /\ UNCHANGED <<issued, live, policy, sess, memory, warm>>

\* save_token: the daemon's memory at once, the session copy until the end.
SaveToken(r) ==
    /\ ppc[r] = "save"
    /\ rec' = [rec EXCEPT ![r] = Session(rec[r].csrf, new[r])]
    /\ new' = [new EXCEPT ![r] = None]
    /\ memory' = IF origin[r] = Daemon THEN new[r] ELSE memory
    /\ warm' = (warm \/ origin[r] = Daemon)
    /\ dirty' = [dirty EXCEPT ![r] = TRUE]
    /\ PGoto(r, "upstream")
    /\ UNCHANGED <<storeVars, policy, sess, origin, retried, lost>>

\* should_retry: refresh and try once more.
Retry(r) ==
    /\ ppc[r] = "upstream"
    /\ ~retried[r]
    /\ retried' = [retried EXCEPT ![r] = TRUE]
    /\ PGoto(r, "exchange")
    /\ UNCHANGED <<storeVars, policy, sess, memory, warm, origin, rec, new, dirty, lost>>

\* The response goes back; the session layer stores the modified record.
Respond(r) ==
    /\ ppc[r] = "upstream"
    /\ sess' = IF dirty[r] /\ origin[r] # Daemon
               THEN [sess EXCEPT ![origin[r]] = rec[r]] ELSE sess
    /\ PEnd(r)
    /\ UNCHANGED <<storeVars, policy, memory, warm, lost>>

\* A server error goes back: the session layer stores nothing.  The daemon
\* gets here only after its retry, which every failure triggers.
RespondServerError(r) ==
    /\ ppc[r] = "upstream"
    /\ origin[r] = Daemon => retried[r]
    /\ PEnd(r)
    /\ UNCHANGED <<storeVars, policy, sess, memory, warm, lost>>

\* The client disconnects: the future is dropped, nothing is stored.
Disconnect(r) ==
    /\ ppc[r] \in {"exchange", "save", "upstream"}
    /\ PEnd(r)
    /\ UNCHANGED <<storeVars, policy, sess, memory, warm, lost>>

ProxyStep(r) ==
    \/ \E b \in Browsers \cup {Daemon} : LoadToken(r, b)
    \/ RefreshExchange(r) \/ RefreshFails(r) \/ RefreshAnswerLost(r) \/ RefreshWrite(r) \/ RefreshWriteFails(r)
    \/ SaveToken(r) \/ Retry(r) \/ Respond(r) \/ RespondServerError(r) \/ Disconnect(r)

ProxyInit ==
    /\ policy \in Policies
    /\ sess = [b \in Browsers |-> EmptySession]
    /\ memory = None /\ warm = FALSE
    /\ ppc = [r \in Requests |-> "idle"]
    /\ origin = [r \in Requests |-> None]
    /\ rec = [r \in Requests |-> EmptySession]
    /\ new = [r \in Requests |-> None]
    /\ retried = [r \in Requests |-> FALSE]
    /\ dirty = [r \in Requests |-> FALSE]
    /\ lost = {}
=============================================================================

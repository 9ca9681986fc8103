----------------------------- MODULE AuthSystem -----------------------------
(***************************************************************************)
(* The auth services around one oidc_tokens table: auth-gateway (browser   *)
(* sessions), auth-daemon (a sidecar that copied the token once) and       *)
(* auth-broker.  All three exchange and rewrite the same row, and none of  *)
(* them sees what the others hold.                                         *)
(*                                                                         *)
(* Of the broker only what it does to the table is kept: read, exchange,   *)
(* write, by one call at a time; TokenBroker has its cache and its locks.  *)
(***************************************************************************)
EXTENDS AuthGateway

VARIABLES
    bpc,       \* where the broker's refresh is: "idle", "exchange" or "write"
    btoken,    \* the refresh token it read, then the one to write
    persisted  \* history: every refresh token the table has held

brokerVars == <<bpc, btoken>>
vars == <<storeVars, proxyVars, gatewayVars, brokerVars, persisted>>

(***************************************************************************)
(* auth-broker.                                                            *)
(***************************************************************************)

BrokerReads(s) ==
    /\ bpc = "idle"
    /\ Readable(s)
    /\ bpc' = "exchange"
    /\ btoken' = db[s].token
    /\ UNCHANGED <<storeVars, proxyVars, gatewayVars>>

\* Without a new refresh token in the answer there is nothing to write.
BrokerExchanges ==
    /\ bpc = "exchange"
    /\ \E rt \in {None, NextToken(btoken.sub)} :
         /\ GrantUnderPolicy(btoken, rt)
         /\ btoken' = rt
         /\ bpc' = IF rt = None THEN "idle" ELSE "write"
    /\ UNCHANGED <<db, proxyVars, gatewayVars>>

BrokerWrites ==
    /\ bpc = "write"
    /\ db' = Written(btoken.sub, btoken)
    /\ bpc' = "idle"
    /\ btoken' = None
    /\ UNCHANGED <<issued, live, proxyVars, gatewayVars>>

\* An error, a lost answer, or the call was dropped.
BrokerStops ==
    /\ \/ bpc = "exchange" /\ UNCHANGED <<storeVars, lost>>
       \/ /\ bpc = "exchange"
          /\ GrantUnderPolicy(btoken, NextToken(btoken.sub))
          /\ lost' = lost \cup {btoken.sub}
          /\ UNCHANGED db
       \/ /\ bpc = "write"
          /\ db' = db \/ db' = Written(btoken.sub, btoken)
          /\ lost' = lost \cup {btoken.sub}
          /\ UNCHANGED <<issued, live>>
    /\ bpc' = "idle"
    /\ btoken' = None
    /\ UNCHANGED <<policy, sess, memory, warm, ppc, proxyLocals, gatewayVars>>

(***************************************************************************)
(* auth-daemon's process.                                                  *)
(***************************************************************************)

\* RouterState::with_database: the row is read once, at start.
DaemonStart(s) ==
    /\ memory = None
    /\ Readable(s)
    /\ memory' = db[s].token
    /\ warm' = FALSE
    /\ UNCHANGED <<storeVars, policy, sess, ppc, proxyLocals, lost, gatewayVars, brokerVars>>

\* The workflow's pod ends: shutdown_signal exits at once, which is each request
\* under way cut off (Disconnect, RefreshWriteFails), then this.
DaemonStop ==
    /\ memory # None
    /\ \A r \in Requests : origin[r] # Daemon
    /\ memory' = None
    /\ warm' = FALSE
    /\ UNCHANGED <<storeVars, policy, sess, ppc, proxyLocals, lost, gatewayVars, brokerVars>>

Init ==
    /\ db = [s \in Subjects |-> None]
    /\ issued = [s \in Subjects |-> 0]
    /\ live = {}
    /\ ProxyInit
    /\ GatewayInit
    /\ bpc = "idle" /\ btoken = None
    /\ persisted = {}

GatewayStep ==
    /\ \/ \E h \in Handlers : HandlerStep(h)
       \/ \E b \in Browsers : SessionExpires(b)
    /\ UNCHANGED brokerVars

RequestStep == \E r \in Requests : ProxyStep(r) /\ UNCHANGED <<gatewayVars, brokerVars>>

BrokerStep == (\E s \in Subjects : BrokerReads(s)) \/ BrokerExchanges \/ BrokerWrites \/ BrokerStops

DaemonStep == (\E s \in Subjects : DaemonStart(s)) \/ DaemonStop

RowStep == \E s \in Subjects : RowExpires(s) /\ UNCHANGED <<proxyVars, gatewayVars, brokerVars>>

\* The tokens in the table; persisted collects them.
TableTokens(rows) == {rows[s].token : s \in {q \in Subjects : rows[q] # None}}

Next ==
    /\ GatewayStep \/ RequestStep \/ BrokerStep \/ DaemonStep \/ RowStep
    /\ persisted' = persisted \cup TableTokens(db')

Spec == Init /\ [][Next]_vars

(***************************************************************************)
(* Properties.                                                             *)
(***************************************************************************)

SessionRecord == [csrf: 0..MaxLogins, token: RefreshToken \cup {None}]

\* Every variable has its type.
TypeOK ==
    /\ StoreTypeOK
    /\ policy \in Policies
    /\ sess \in [Browsers -> SessionRecord]
    /\ memory \in RefreshToken \cup {None} /\ warm \in BOOLEAN
    /\ ppc \in [Requests -> {"idle", "exchange", "write", "save", "upstream"}]
    /\ origin \in [Requests -> Browsers \cup {Daemon, None}]
    /\ rec \in [Requests -> SessionRecord]
    /\ new \in [Requests -> RefreshToken \cup {None}]
    /\ retried \in [Requests -> BOOLEAN] /\ dirty \in [Requests -> BOOLEAN]
    /\ lost \in SUBSET Subjects /\ loggedOut \in SUBSET Subjects
    /\ hpc \in [Handlers -> {"idle", "login", "code", "store", "session", "delete", "flush"}]
    /\ hb \in [Handlers -> Browsers \cup {None}]
    /\ hrec \in [Handlers -> SessionRecord]
    /\ hnew \in [Handlers -> RefreshToken \cup {None}]
    /\ attempts \in 0..MaxLogins /\ codes \in SUBSET (1..MaxLogins)
    /\ bpc \in {"idle", "exchange", "write"} /\ btoken \in RefreshToken \cup {None}
    /\ persisted \in SUBSET RefreshToken

\* Somebody is about to write a refresh token of s that the provider accepts.
SuccessorPending(s) ==
    \/ \E r \in Requests : ppc[r] = "write" /\ new[r].sub = s /\ new[r] \in live
    \/ bpc = "write" /\ btoken.sub = s /\ btoken \in live

\* However gateway, daemon and broker overwrite each other's row, the row of a
\* subject holds a token the provider accepts, or the successor is on its way,
\* unless a write failed right after the provider had rotated the token.
StoredTokenUsable ==
    \A s \in Subjects : db[s] # None /\ s \notin lost =>
        db[s].token \in live \/ SuccessorPending(s)

\* No process keeps a refresh token to itself: what a session or a daemon holds
\* was in the table first, so a restart in between loses no session's token.
PersistedFirst ==
    /\ memory # None => memory \in persisted
    /\ \A b \in Browsers : sess[b].token # None => sess[b].token \in persisted

\* What the doc comment of logout promises: "Deletes the token from the database
\* (so workflows can't use it)".  After a logout the row is gone until a login.
LogoutStays == \A s \in loggedOut : db[s] = None
=============================================================================

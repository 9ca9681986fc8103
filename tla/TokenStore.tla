----------------------------- MODULE TokenStore -----------------------------
(***************************************************************************)
(* The two things every auth service of this repository shares: the        *)
(* oidc_tokens table (auth-core/src/database.rs), one row per subject, and *)
(* the OIDC provider whose refresh tokens that table holds.                *)
(*                                                                         *)
(* Abstractions.  A refresh token is its subject and a serial number; the  *)
(* sealed box around it is left out (seal and open are inverse while the   *)
(* key pair is the same).  A row's expires_at is the flag "fresh": it is   *)
(* set by every write (now + 30 days) and cleared when those days pass.    *)
(***************************************************************************)
EXTENDS Naturals, FiniteSets

CONSTANTS
    Subjects,           \* OIDC subjects, the table's primary key
    MaxRefreshTokens,   \* bound: refresh tokens the provider issues per subject
    None                \* "no value": no row, no token, no lock, no owner

ASSUME MaxRefreshTokensNat == MaxRefreshTokens \in Nat \ {0}
ASSUME NoneIsNoSubject == None \notin Subjects

VARIABLES
    db,      \* db[s]: the row of s, or None
    issued,  \* issued[s]: how many refresh tokens the provider has issued to s
    live     \* the refresh tokens the provider still accepts

storeVars == <<db, issued, live>>

RefreshToken == [sub: Subjects, n: 1..MaxRefreshTokens]
Row == [token: RefreshToken, fresh: BOOLEAN]

ASSUME NoneIsNoToken == None \notin [sub: Subjects, n: Nat] /\ None \notin Row

StoreTypeOK ==
    /\ db \in [Subjects -> Row \cup {None}]
    /\ issued \in [Subjects -> 0..MaxRefreshTokens]
    /\ live \in SUBSET RefreshToken

(***************************************************************************)
(* The table.                                                              *)
(***************************************************************************)

\* read_token_from_database succeeds: a row, not expired.
Readable(s) == db[s] # None /\ db[s].fresh

\* write_token_to_database: upsert on the subject, expiry pushed 30 days out.
Written(s, t) == [db EXCEPT ![s] = [token |-> t, fresh |-> TRUE]]

\* delete_token_from_database.
Deleted(s) == [db EXCEPT ![s] = None]

\* Thirty days pass without a write.
RowExpires(s) ==
    /\ db[s] # None
    /\ db[s].fresh
    /\ db' = [db EXCEPT ![s] = [token |-> db[s].token, fresh |-> FALSE]]
    /\ UNCHANGED <<issued, live>>

(***************************************************************************)
(* The provider (external).  On a refresh it answers with no refresh token *)
(* ("keep"), with a new one beside the old ("rotate"), or with a new one   *)
(* in place of the old ("revoke"); which one is the realm's configuration. *)
(***************************************************************************)

CanIssue(s) == issued[s] < MaxRefreshTokens
NextToken(s) == [sub |-> s, n |-> issued[s] + 1]

Issue(s) == issued' = [issued EXCEPT ![s] = @ + 1]

\* The provider accepts t; the answer carries the refresh token rt (None: none).
Grant(t, rt) ==
    /\ t \in live
    /\ \/ /\ rt = None
          /\ UNCHANGED <<issued, live>>
       \/ /\ CanIssue(t.sub)
          /\ rt = NextToken(t.sub)
          /\ Issue(t.sub)
          /\ \/ live' = live \cup {rt}
             \/ live' = (live \cup {rt}) \ {t}

\* A user goes through the provider's login page.
GrantLogin(s, rt) ==
    /\ CanIssue(s)
    /\ rt = NextToken(s)
    /\ Issue(s)
    /\ live' = live \cup {rt}
=============================================================================

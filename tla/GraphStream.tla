----------------------------- MODULE GraphStream ----------------------------
(***************************************************************************)
(* graph-proxy's authentication and subscriptions: the token validator     *)
(* (validate_token.rs), the guard (graphql/auth_guard.rs), the HTTP        *)
(* handler (graphql/mod.rs), the websocket                                 *)
(* (graphql/subscription_integration.rs) and the log and event streams it  *)
(* carries (graphql/subscription.rs).                                      *)
(*                                                                         *)
(* External: the identity provider, which issues tokens and rotates its    *)
(* keys; async_graphql's websocket protocol; the Argo server, which        *)
(* checks the token itself when a stream is opened, with the keys of that  *)
(* moment, and sends a pod's log in chunks cut anywhere, inside a line and *)
(* inside a character too.                                                 *)
(*                                                                         *)
(* Abstractions.  Time is a counter.  The body of the log is a sequence of *)
(* bytes, of which only the kind matters (a character has one byte or two; *)
(* blanks are what trim drops), and which of its stretches are JSON.       *)
(***************************************************************************)
EXTENDS Integers, Sequences, SequencesExt

CONSTANTS
    None,
    Lifetime,  \* of a token
    Leeway,    \* jwt_validation.leeway
    Broken,    \* the provider's keys that DecodingKey::from_jwk cannot read
    Text,      \* the body of the pod's log, byte by byte
    Results,   \* <<i, j>>: its bytes i..j are a LogResponse with a result
    Bare,      \* they are JSON and a LogResponse without one
    MaxTime,   \* bound: the clock
    MaxKey,    \* bound: keys the provider makes
    MaxItems   \* bound: events of a workflow, chunks of a refusal

\* There is a key to sign with from the start.
ASSUME Bounds ==
    /\ Lifetime \in Nat /\ Leeway \in Nat
    /\ MaxTime \in Nat /\ MaxKey \in Nat \ {0} /\ MaxItems \in Nat

\* The body as it is sent is UTF-8.
ASSUME TextUtf8 ==
    /\ Text \in Seq({"char", "blank", "newline", "head", "tail"})
    /\ \A p \in 1..Len(Text) : Text[p] = "tail" => p > 1 /\ Text[p - 1] = "head"
    /\ \A p \in 1..Len(Text) : Text[p] = "head" => p < Len(Text) /\ Text[p + 1] = "tail"

VARIABLES
    clock,
    keys,      \* the keys the provider publishes; it signs with the latest
    token,     \* the token the client holds, or None
    jwks,      \* json_web_key_set, or None: the proxy is down
    conn,      \* the client's HTTP request or websocket
    written,   \* bytes of its log the pod has written
    podDone    \* the pod has finished

vars == <<clock, keys, token, jwks, conn, written, podDone>>
env == <<clock, keys, token, written, podDone>>

(***************************************************************************)
(* TokenValidator.                                                         *)
(***************************************************************************)

Expired(t, now) == t.exp + Leeway < now

\* Mutant: the claims are checked, whichever key signed them.
AnyKeyVerdict(t) ==
    IF t = None THEN "missing" ELSE IF t.kid = None \/ Expired(t, clock) \/ ~t.aud THEN "invalid" ELSE "valid"

\* validate_token with ValidationMethod::Jwt.  There is no kid in a token that
\* cannot be decoded.
ValidateToken(t) ==
    IF t = None THEN "missing"
    ELSE IF t.kid = None \/ t.kid \notin jwks THEN "invalid"
    ELSE IF t.kid \in Broken THEN "failed"
    ELSE IF Expired(t, clock) \/ ~t.aud THEN "invalid"
    ELSE "valid"

\* AuthGuard::check.
GuardPasses(verdict) == verdict = "valid"

NoConn == [at |-> "closed"]

\* main, TokenValidator::new: the keys are fetched once, when the proxy starts;
\* it cannot start while the provider is down.
Start ==
    /\ jwks = None
    /\ jwks' = keys
    /\ UNCHANGED <<env, conn>>

Crash ==
    /\ jwks # None
    /\ jwks' = None
    /\ conn' = NoConn
    /\ UNCHANGED env

\* graphql_handler: every request is validated anew.  The guard, a document that
\* does not parse and a subscription all make it an error.
HttpRequest(t, document) ==
    /\ jwks # None /\ conn = NoConn
    /\ LET verdict == ValidateToken(t) IN
       conn' = [at |-> "answered", token |-> t, verdict |-> verdict, since |-> clock,
                ok |-> GuardPasses(verdict) /\ document \in {"query", "mutation"}]
    /\ UNCHANGED <<env, jwks>>

(***************************************************************************)
(* GraphQLSubscription::call and the websocket.                            *)
(***************************************************************************)

\* The upgrade, refused without a known protocol; the header is kept.
WsUpgrade(protocol, header) ==
    /\ jwks # None /\ conn = NoConn
    /\ conn' = IF protocol THEN [at |-> "upgraded", header |-> header] ELSE NoConn
    /\ UNCHANGED <<env, jwks>>

\* Mutant: only the payload of connection_init is looked at.
PayloadOnly(payload, header) == payload

\* on_connection_init: the payload's bearer token, else the header's.
AuthHeader(payload, header) == IF payload # None THEN payload ELSE header

\* Mutant: a client without a token is let in.
InitAnyway(payload) ==
    /\ conn.at = "upgraded"
    /\ LET t == AuthHeader(payload, conn.header) IN
       conn' = [at |-> "ready", token |-> t, verdict |-> ValidateToken(t), since |-> clock, sub |-> None]
    /\ UNCHANGED <<env, jwks>>

\* Without either the connection is refused.  With one it is acknowledged, and
\* the verdict, whatever it is, becomes the connection's data.
WsConnectionInit(payload) ==
    /\ conn.at = "upgraded"
    /\ LET t == AuthHeader(payload, conn.header) IN
       conn' = IF t = None THEN [at |-> "refused", header |-> conn.header, payload |-> payload]
               ELSE [at |-> "ready", token |-> t, verdict |-> ValidateToken(t), since |-> clock, sub |-> None]
    /\ UNCHANGED <<env, jwks>>

\* The Argo server's own check.
ArgoAccepts(t) == t.kid \in keys /\ t.aud /\ clock <= t.exp

\* logs, workflow: the guard, then the request to Argo.  Its status is kept by
\* `logs` and not looked at by `workflow`.  A request that cannot be sent leaves no
\* stream behind.
WsSubscribe(kind) ==
    /\ conn.at = "ready" /\ conn.sub = None
    /\ GuardPasses(conn.verdict)
    /\ conn' = [conn EXCEPT !.sub = [kind |-> kind, success |-> ArgoAccepts(conn.token), opened |-> clock,
                                     from |-> 1, read |-> 0, upto |-> 0, cuts |-> {},
                                     got |-> <<>>, done |-> FALSE]]
    /\ UNCHANGED <<env, jwks>>

(***************************************************************************)
(* The streams.                                                            *)
(***************************************************************************)

\* An item of a stream: what the bytes `at` became, and which of them it carries.
Entry(kind, at, carried) == [kind |-> kind, at |-> at, carried |-> carried]
Error == Entry("error", <<0, 0>>, {})

\* String::from_utf8_lossy of the bytes a..b: half a character is replaced.
Lost(p, a, b) == (Text[p] = "tail" /\ p = a) \/ (Text[p] = "head" /\ p = b)

\* trim: the blanks at either end of i..j.
Edge(p, i, j) == (\A k \in i..p : Text[k] = "blank") \/ (\A k \in p..j : Text[k] = "blank")

\* serde_json::from_str::<LogResponse>: a result, none, or the text is no such thing.
Parsed(i, j) == IF <<i, j>> \in Results THEN "line" ELSE IF <<i, j>> \in Bare THEN "failed" ELSE "text"

\* What is passed on of i..j: the result, the text without the blanks around it, or
\* "Missing result in log response".
Carried(kind, i, j) ==
    CASE kind = "line" -> i..j
      [] kind = "text" -> {p \in i..j : ~Edge(p, i, j)}
      [] OTHER -> {}

\* The item for the line i..j of the chunk a..b.
LogItem(i, j, a, b) ==
    Entry(Parsed(i, j), <<i, j>>, {p \in Carried(Parsed(i, j), i, j) : ~Lost(p, a, b)})

\* text.lines() of what is left of a chunk, i..b: its first line is i..j.
FirstLine(i, j, b) ==
    /\ i - 1 <= j /\ j <= b
    /\ \A p \in i..j : Text[p] # "newline"
    /\ j = b \/ Text[j + 1] = "newline"

Live(kind) == conn.at = "ready" /\ conn.sub # None /\ conn.sub.kind = kind /\ ~conn.sub.done

\* Every line of the last chunk has been yielded.
ChunkUsed == conn.sub.read = conn.sub.upto

\* Mutant: the status is not looked at.
AnyStatus(sub) == TRUE

\* status.is_success()
Readable(sub) == sub.success

\* A chunk arrives: any part of what the pod has written.
LogChunk(b) ==
    /\ Live("logs") /\ Readable(conn.sub) /\ ChunkUsed
    /\ conn.sub.read < b /\ b <= written
    /\ conn' = [conn EXCEPT !.sub.from = conn.sub.read + 1, !.sub.upto = b,
                            !.sub.cuts = @ \cup {b}]    \* history: where chunks ended
    /\ UNCHANGED <<env, jwks>>

\* Or the next of the body that says why Argo refused.
RefusedChunk ==
    /\ Live("logs") /\ ~Readable(conn.sub) /\ Len(conn.sub.got) < MaxItems
    /\ conn' = [conn EXCEPT !.sub.got = Append(@, Error)]
    /\ UNCHANGED <<env, jwks>>

\* Mutant: what is no LogResponse is skipped.
OnlyParsed(got, item) == IF item.kind = "text" THEN got ELSE Append(got, item)

Yielded(got, item) == Append(got, item)

\* The next line of the chunk, up to its byte j; a piece of a line is one too.
LogLine(j) ==
    /\ Live("logs") /\ Readable(conn.sub) /\ ~ChunkUsed
    /\ LET sub == conn.sub IN
         /\ FirstLine(sub.read + 1, j, sub.upto)
         /\ conn' = [conn EXCEPT !.sub.read = IF j = sub.upto THEN j ELSE j + 1,
                                 !.sub.got = Yielded(@, LogItem(sub.read + 1, j, sub.from, sub.upto))]
    /\ UNCHANGED <<env, jwks>>

\* The connection to Argo breaks: an error, after which reqwest's body has no more.
LogBreaks ==
    /\ Live("logs") /\ ChunkUsed
    /\ conn' = [conn EXCEPT !.sub.got = Append(@, Error), !.sub.done = TRUE]
    /\ UNCHANGED <<env, jwks>>

\* What an event of the workflow stream becomes: an object, or one of the errors.
WatchItem(hasResult, hasError, hasObject) ==
    IF hasResult /\ ~hasError /\ hasObject THEN Entry("workflow", <<0, 0>>, {}) ELSE Error

\* An event; one that cannot be parsed or read is like one with neither part.
WatchEvent(r, e, o) ==
    /\ Live("workflow") /\ conn.sub.success /\ Len(conn.sub.got) < MaxItems
    /\ conn' = [conn EXCEPT !.sub.got = Append(@, WatchItem(r, e, o))]
    /\ UNCHANGED <<env, jwks>>

\* Mutant: the end of a log is not passed on.
EventsEnd ==
    /\ Live("workflow")
    /\ conn' = [conn EXCEPT !.sub.done = TRUE]
    /\ UNCHANGED <<env, jwks>>

\* The stream ends: the log with its pod, or with the body of a refusal; events
\* whenever Argo likes.
StreamEnds ==
    /\ \/ Live("logs") /\ (Readable(conn.sub) => podDone /\ conn.sub.read = written)
       \/ Live("workflow")
    /\ conn' = [conn EXCEPT !.sub.done = TRUE]
    /\ UNCHANGED <<env, jwks>>

\* The client leaves, or sending to it fails: serve returns and the streams go.
WsClose ==
    /\ conn # NoConn
    /\ conn' = NoConn
    /\ UNCHANGED <<env, jwks>>

(***************************************************************************)
(* Everything else.                                                        *)
(***************************************************************************)

Latest == CHOOSE k \in keys : \A l \in keys : l <= k

Tick == clock < MaxTime /\ clock' = clock + 1 /\ UNCHANGED <<keys, token, jwks, conn, written, podDone>>

Rotate ==
    /\ \/ Latest < MaxKey /\ keys' = keys \cup {Latest + 1}
       \/ \E k \in keys \ {Latest} : keys' = keys \ {k}
    /\ UNCHANGED <<clock, token, jwks, conn, written, podDone>>

\* A token, possibly for somebody else's audience, before the client connects.
LogIn(aud) ==
    /\ conn = NoConn
    /\ token' = [kid |-> Latest, exp |-> clock + Lifetime, aud |-> aud]
    /\ UNCHANGED <<clock, keys, jwks, conn, written, podDone>>

\* The pod writes a line, or ends.
PodWrites ==
    /\ ~podDone
    /\ \/ \E n \in (written + 1)..Len(Text) : FirstLine(written + 1, n - 1, Len(Text)) /\ written' = n /\ UNCHANGED podDone
       \/ podDone' = TRUE /\ UNCHANGED written
    /\ UNCHANGED <<clock, keys, token, jwks, conn>>

Init ==
    /\ clock = 0 /\ keys = {1} /\ token = None /\ jwks = None
    /\ conn = NoConn /\ written = 0 /\ podDone = FALSE

Garbled == [kid |-> None, exp |-> MaxTime, aud |-> TRUE]
Presented == {None, token, Garbled}
Documents == {"query", "mutation", "subscription", "unparseable"}

Streams ==
    \/ \E b \in 1..Len(Text) : LogChunk(b)
    \/ \E j \in 0..Len(Text) : LogLine(j)
    \/ RefusedChunk \/ StreamEnds

Next ==
    \/ Start \/ Crash
    \/ \E t \in Presented, d \in Documents : HttpRequest(t, d)
    \/ \E p \in BOOLEAN, t \in Presented : WsUpgrade(p, t)
    \/ \E t \in Presented : WsConnectionInit(t)
    \/ \E kind \in {"logs", "workflow"} : WsSubscribe(kind)
    \/ Streams \/ LogBreaks \/ WsClose
    \/ \E r, e, o \in BOOLEAN : WatchEvent(r, e, o)
    \/ Tick \/ Rotate \/ (\E aud \in BOOLEAN : LogIn(aud)) \/ PodWrites

\* The executor keeps polling a stream whose response has something to read.
Spec == Init /\ [][Next]_vars /\ WF_vars(Streams)

(***************************************************************************)
(* Properties.                                                             *)
(***************************************************************************)

\* Types; and nothing is open while the proxy is down.
TypeOK ==
    /\ clock \in 0..MaxTime /\ keys \in SUBSET (1..MaxKey) /\ keys # {}
    /\ jwks # None => jwks \in SUBSET (1..MaxKey)
    /\ written \in 0..Len(Text) /\ podDone \in BOOLEAN
    /\ conn.at \in {"closed", "answered", "upgraded", "refused", "ready"}
    /\ conn.at = "ready" => conn.verdict \in {"valid", "invalid", "failed"}
    /\ jwks = None => conn = NoConn

\* The keys are as old as the process.  A token is accepted only if it was signed
\* with a key published when the proxy started and is at most the leeway past its
\* expiry; and one that is good is refused only if its key is newer than that (or
\* unreadable), or if it was put where nobody looked.
VerdictsOld ==
    /\ conn.at \in {"answered", "ready"} =>
         LET t == conn.token
             good == t # None /\ t.kid # None /\ t.aud /\ conn.since <= t.exp + Leeway
         IN  IF conn.verdict = "valid" THEN good /\ t.kid \in jwks
             ELSE good => t.kid \in Broken \/ t.kid \notin jwks
    /\ conn.at = "refused" => conn.header = None /\ conn.payload = None

Kinds(got) == {e.kind : e \in ToSet(got)}

\* The connection's verdict never changes while its token grows old.  Still, a
\* subscription opened with a token that has expired carries no data: it ends with
\* an error (logs) or in silence (events).
NoDataAfterExpiry ==
    conn.at = "ready" /\ conn.sub # None =>
        /\ conn.sub.opened > conn.token.exp => Kinds(conn.sub.got) \subseteq {"error"}
        /\ ~conn.sub.success /\ conn.sub.kind = "workflow" => conn.sub.got = <<>>

\* A line of the body: what stands between newlines.
IsLine(i, j) ==
    /\ i \in 1..Len(Text) /\ j + 1 \in i..Len(Text) /\ Text[j + 1] = "newline"
    /\ i = 1 \/ Text[i - 1] = "newline"
    /\ \A p \in i..j : Text[p] # "newline"

\* A byte of a character that a chunk's end cut in two.
Split(p, cuts) == (Text[p] = "head" /\ p \in cuts) \/ (Text[p] = "tail" /\ p - 1 \in cuts)

\* Entry e carries byte p, or it is one of the blanks around e's text, or e is the
\* error for bytes that are JSON by themselves and have no result.
Accounts(e, p) ==
    /\ p \in e.at[1]..e.at[2]
    /\ p \in e.carried \/ e.kind = "failed" \/ (e.kind = "text" /\ Edge(p, e.at[1], e.at[2]))

\* The log of a pod, in chunks cut anywhere.  A line no chunk ended in is one entry
\* and whole: its result, the error for a line without one, or the line as it is if
\* it is not JSON.  Entries follow the order of the body and repeat nothing.  And of
\* a line that was cut, any number of times, every byte reaches the client except
\* the two of a character that was cut itself, blanks where the pieces were trimmed,
\* and pieces that pass for a response without a result.
LogIntact ==
    conn.at = "ready" /\ conn.sub # None /\ conn.sub.kind = "logs" /\ conn.sub.success =>
        LET got == conn.sub.got IN
        /\ \A j \in 0..(conn.sub.read - 1) : \A i \in 1..(j + 1) :
              IsLine(i, j) /\ conn.sub.cuts \cap (i..j) = {} =>
                \E k \in DOMAIN got : /\ got[k] = Entry(Parsed(i, j), <<i, j>>, Carried(Parsed(i, j), i, j))
                                     /\ \A l \in DOMAIN got : got[l].at[1] \in i..(j + 1) => l = k
        /\ \A k, l \in DOMAIN got : k < l => \A p \in got[k].carried, q \in got[l].carried : p < q
        /\ \A p \in 1..conn.sub.read :
              Text[p] = "newline" \/ Split(p, conn.sub.cuts) \/ \E k \in DOMAIN got : Accounts(got[k], p)

\* A client that follows the log of a pod that has finished comes to its end.
LogEnds == (podDone /\ Live("logs")) ~> ~Live("logs")
=============================================================================

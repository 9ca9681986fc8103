------------------------- MODULE GraphStream_proofs -------------------------
(***************************************************************************)
(* What graph-proxy's verdicts on tokens and its streams guarantee, for    *)
(* any lifetimes, leeway, key rotations and logs.                          *)
(*                                                                         *)
(* The verdict of a connection is as old as the connection, and the keys   *)
(* it was made with as old as the process.  The invariant says what a      *)
(* connection holds at each of its stages (ConnOK), that Argo's answer     *)
(* was given for a token that had not expired when the stream was opened   *)
(* (OpenedInTime), and that a stream Argo refused has carried nothing but  *)
(* errors (RefusedSilent).                                                 *)
(*                                                                         *)
(* LogIntact needs more (LogInv): where reading can stand, which is after  *)
(* a newline or where a chunk ended (ReadsAt), and that no entry is about  *)
(* bytes not read yet (Bounded).  Then the next line of a chunk is a line  *)
(* of the body or was cut (LineFound), and what the lossy conversion takes *)
(* from it belongs to a character that was cut (LostSplit).                *)
(***************************************************************************)
EXTENDS GraphStream, WellFoundedInduction, TLAPS

Tokens == [kid: {None} \cup 1..MaxKey, exp: Nat, aud: BOOLEAN]

\* The fields of a connection that is ready, and of its stream.
ReadyFields == {"at", "token", "verdict", "since", "sub"}
StreamFields == {"kind", "success", "opened", "from", "read", "upto", "cuts", "got", "done"}

\* What a connection holds.
ConnOK ==
    /\ token \in {None} \cup Tokens
    /\ conn.at = "closed" => conn = NoConn
    /\ conn.at \in {"answered", "ready"} => conn.token \in {None} \cup Tokens
    /\ conn.at = "upgraded" => conn.header \in {None} \cup Tokens
    /\ conn.at = "ready" =>
         /\ DOMAIN conn = ReadyFields
         /\ conn.token # None
         /\ conn.sub # None =>
              /\ DOMAIN conn.sub = StreamFields
              /\ conn.sub.success \in BOOLEAN /\ conn.sub.opened \in Nat

\* A stream Argo accepted was opened before its token expired.
OpenedInTime ==
    conn.at = "ready" /\ conn.sub # None /\ conn.sub.success => conn.sub.opened <= conn.token.exp

\* A stream Argo refused has carried errors only, and one of events nothing.
RefusedSilent ==
    conn.at = "ready" /\ conn.sub # None /\ ~conn.sub.success =>
        /\ conn.sub.got \in Seq({Error})
        /\ conn.sub.kind = "workflow" => conn.sub.got = <<>>

IInv == TypeOK /\ ConnOK /\ VerdictsOld /\ OpenedInTime /\ RefusedSilent

-----------------------------------------------------------------------------

\* A nonempty bounded set of naturals has a greatest element.
LEMMA Greatest ==
    ASSUME NEW n \in Nat, NEW S \in SUBSET (1..n), S # {}
    PROVE  \E k \in S : \A l \in S : l <= k
  <1> DEFINE R == OpToRel(<, Nat)
             T == {u \in Nat : \A l \in S : l <= u}
  <1>1. IsWellFoundedOn(R, Nat)
    BY NatLessThanWellFounded, Zenon
  <1>2. n \in T
    OBVIOUS
  <1>3. T \subseteq Nat /\ T # {}
    BY <1>2
  <1>4. \A x, y \in Nat : y < x => <<y, x>> \in R
    BY DEF OpToRel
  <1> HIDE DEF R, T
  <1>5. PICK u \in T : \A y \in T : ~ (<<y, u>> \in R)
    BY <1>1, <1>3, WFMin
  <1> USE DEF T
  <1>6. u \in Nat /\ \A l \in S : l \in Nat /\ 1 <= l /\ l <= u
    BY <1>5
  <1>7. PICK m \in S : TRUE
    OBVIOUS
  <1>8. u - 1 \in Nat /\ u - 1 < u
    BY <1>6, <1>7
  <1>9. u - 1 \notin T
    BY <1>4, <1>5, <1>6, <1>8
  <1>10. PICK l \in S : ~(l <= u - 1)
    BY <1>8, <1>9
  <1>11. l = u
    BY <1>6, <1>8, <1>10
  <1>12. QED
    BY <1>6, <1>10, <1>11

\* The provider always has a key to sign with.
LEMMA LatestKey ==
    ASSUME TypeOK
    PROVE  Latest \in keys /\ Latest \in 1..MaxKey
  <1>1. keys \in SUBSET (1..MaxKey) /\ keys # {} /\ MaxKey \in Nat
    BY Bounds DEF TypeOK
  <1>2. \E k \in keys : \A l \in keys : l <= k
    BY <1>1, Greatest
  <1>3. QED
    BY <1>1, <1>2 DEF Latest

\* A token that cannot be decoded has the shape of one; so has every token a client
\* presents.
LEMMA PresentedType ==
    ASSUME IInv, NEW t \in Presented
    PROVE  t \in {None} \cup Tokens
  <1>1. Garbled \in Tokens
    BY Bounds DEF Garbled, Tokens
  <1>2. QED
    BY <1>1 DEF IInv, ConnOK, Presented

\* What a verdict says, and does not say, of a token.
LEMMA VerdictMeaning ==
    ASSUME TypeOK, NEW t \in {None} \cup Tokens
    PROVE  /\ ValidateToken(t) \in {"missing", "invalid", "failed", "valid"}
           /\ ValidateToken(t) = "missing" <=> t = None
           /\ ValidateToken(t) = "valid" =>
                t # None /\ t.kid # None /\ t.aud /\ clock <= t.exp + Leeway /\ t.kid \in jwks
           /\ ValidateToken(t) # "valid" /\ t # None /\ t.kid # None /\ t.aud /\ clock <= t.exp + Leeway =>
                t.kid \in Broken \/ t.kid \notin jwks
  <1>1. CASE t = None
    BY <1>1 DEF ValidateToken
  <1>2. CASE t # None
    <2>1. t.exp \in Nat /\ t.aud \in BOOLEAN /\ Leeway \in Nat /\ clock \in Nat
      BY <1>2, Bounds DEF Tokens, TypeOK
    <2>2. Expired(t, clock) <=> ~(clock <= t.exp + Leeway)
      BY <2>1 DEF Expired
    <2>3. QED
      BY <1>2, <2>1, <2>2 DEF ValidateToken
  <1>3. QED
    BY <1>1, <1>2

-----------------------------------------------------------------------------

\* Nothing is open: the stages of a connection ask for nothing.
LEMMA ClosedInv ==
    ASSUME TypeOK, conn = NoConn, token \in {None} \cup Tokens
    PROVE  IInv
  BY DEF NoConn, IInv, ConnOK, VerdictsOld, OpenedInTime, RefusedSilent

\* The proxy is down and nobody is connected.
LEMMA InitInv == Init => IInv
  <1> SUFFICES ASSUME Init PROVE IInv
    OBVIOUS
  <1>1. keys = {1} /\ 1 \in 1..MaxKey
    BY Bounds DEF Init
  <1>2. clock \in 0..MaxTime /\ written \in 0..Len(Text)
    BY Bounds, TextUtf8 DEF Init
  <1>3. TypeOK
    BY <1>1, <1>2 DEF Init, TypeOK, NoConn
  <1>4. QED
    BY <1>3, ClosedInv DEF Init

\* What the invariant says besides the connection.
PartsOK ==
    /\ clock \in 0..MaxTime /\ keys \in SUBSET (1..MaxKey) /\ keys # {}
    /\ jwks # None => jwks \in SUBSET (1..MaxKey)
    /\ written \in 0..Len(Text) /\ podDone \in BOOLEAN

\* A step that closes the connection, or leaves none.
LEMMA ClosingStep ==
    ASSUME IInv, PartsOK', conn' = NoConn, token' \in {None} \cup Tokens
    PROVE  IInv'
  <1>1. TypeOK'
    BY DEF TypeOK, PartsOK, NoConn
  <1>2. QED
    BY <1>1 DEF NoConn, IInv, ConnOK, VerdictsOld, OpenedInTime, RefusedSilent, Tokens

\* A step of the surroundings that leaves the process and its connection alone.
LEMMA SurroundingsStep ==
    ASSUME IInv, PartsOK', UNCHANGED <<token, jwks, conn>>
    PROVE  IInv'
  BY DEF IInv, TypeOK, PartsOK, ConnOK, VerdictsOld, OpenedInTime, RefusedSilent, Tokens,
         ReadyFields, StreamFields, NoConn, Error, Entry

\* An HTTP request: the verdict is of this moment.
LEMMA HttpStep ==
    ASSUME IInv, NEW t \in Presented, NEW d, HttpRequest(t, d)
    PROVE  IInv'
  <1>1. t \in {None} \cup Tokens
    BY PresentedType
  <1>2. /\ conn'.at = "answered" /\ conn'.token = t /\ conn'.verdict = ValidateToken(t) /\ conn'.since = clock
        /\ jwks # None /\ UNCHANGED <<clock, keys, token, written, podDone, jwks>>
    BY DEF HttpRequest, env
  <1>3. TypeOK'
    BY <1>2 DEF IInv, TypeOK
  <1>4. ConnOK' /\ OpenedInTime' /\ RefusedSilent'
    BY <1>1, <1>2 DEF IInv, ConnOK, OpenedInTime, RefusedSilent, Tokens
  <1>5. VerdictsOld'
    BY <1>1, <1>2, VerdictMeaning DEF IInv, VerdictsOld
  <1>6. QED
    BY <1>3, <1>4, <1>5 DEF IInv

\* The upgrade keeps the header.
LEMMA UpgradeStep ==
    ASSUME IInv, NEW p \in BOOLEAN, NEW t \in Presented, WsUpgrade(p, t)
    PROVE  IInv'
  <1>1. t \in {None} \cup Tokens
    BY PresentedType
  <1>2. jwks # None /\ UNCHANGED <<clock, keys, token, written, podDone, jwks>>
    BY DEF WsUpgrade, env
  <1>3. CASE p
    <2>1. conn'.at = "upgraded" /\ conn'.header = t
      BY <1>3 DEF WsUpgrade
    <2>2. TypeOK'
      BY <1>2, <2>1 DEF IInv, TypeOK
    <2>3. QED
      BY <1>1, <1>2, <2>1, <2>2 DEF IInv, ConnOK, VerdictsOld, OpenedInTime, RefusedSilent, Tokens
  <1>4. CASE ~p
    BY <1>2, <1>4, ClosingStep DEF WsUpgrade, PartsOK, IInv, TypeOK, ConnOK
  <1>5. QED
    BY <1>3, <1>4

\* connection_init: refused without a token; otherwise the verdict is of this
\* moment and no stream is open.
LEMMA ConnectionInitStep ==
    ASSUME IInv, NEW t \in Presented, WsConnectionInit(t)
    PROVE  IInv'
  <1> DEFINE u == AuthHeader(t, conn.header)
  <1>1. /\ conn.at = "upgraded" /\ jwks # None /\ UNCHANGED <<clock, keys, token, written, podDone, jwks>>
    BY DEF WsConnectionInit, env, IInv, TypeOK, NoConn
  <1>2. u \in {None} \cup Tokens /\ (u = None => t = None /\ conn.header = None)
    BY <1>1, PresentedType DEF IInv, ConnOK, AuthHeader
  <1>3. conn' = IF u = None THEN [at |-> "refused", header |-> conn.header, payload |-> t]
                ELSE [at |-> "ready", token |-> u, verdict |-> ValidateToken(u), since |-> clock, sub |-> None]
    BY DEF WsConnectionInit
  <1> HIDE DEF u
  <1>4. CASE u = None
    <2>1. conn'.at = "refused" /\ conn'.header = None /\ conn'.payload = None
      BY <1>2, <1>3, <1>4
    <2>2. TypeOK'
      BY <1>1, <2>1 DEF IInv, TypeOK
    <2>3. QED
      BY <1>1, <2>1, <2>2 DEF IInv, ConnOK, VerdictsOld, OpenedInTime, RefusedSilent, Tokens
  <1>5. CASE u # None
    <2>1. /\ conn'.at = "ready" /\ conn'.token = u /\ conn'.verdict = ValidateToken(u) /\ conn'.since = clock
          /\ conn'.sub = None
      BY <1>3, <1>5
    <2>2. DOMAIN conn' = ReadyFields
      BY <1>3, <1>5 DEF ReadyFields
    <2>3. ValidateToken(u) \in {"valid", "invalid", "failed"}
      BY <1>2, <1>5, VerdictMeaning DEF IInv
    <2>4. TypeOK'
      BY <1>1, <2>1, <2>3 DEF IInv, TypeOK
    <2>5. ConnOK' /\ OpenedInTime' /\ RefusedSilent'
      BY <1>1, <1>2, <1>5, <2>1, <2>2 DEF IInv, ConnOK, OpenedInTime, RefusedSilent, Tokens, ReadyFields
    <2>6. VerdictsOld'
      BY <1>1, <1>2, <2>1, VerdictMeaning DEF IInv, VerdictsOld
    <2>7. QED
      BY <2>4, <2>5, <2>6 DEF IInv
  <1>6. QED
    BY <1>4, <1>5

\* The rest of a connection stays while its stream becomes c.
SubBecomes(c) ==
    /\ conn.at = "ready" /\ UNCHANGED <<env, jwks>>
    /\ conn'.at = "ready" /\ conn'.token = conn.token /\ conn'.verdict = conn.verdict
    /\ conn'.since = conn.since /\ conn'.sub = c /\ DOMAIN conn' = ReadyFields

\* A step of the stream of a connection: what the new stream has to satisfy.
LEMMA StreamStep ==
    ASSUME IInv, NEW c, SubBecomes(c),
           DOMAIN c = StreamFields, c.success \in BOOLEAN, c.opened \in Nat,
           c.success => c.opened <= conn.token.exp,
           ~c.success => c.got \in Seq({Error}) /\ (c.kind = "workflow" => c.got = <<>>)
    PROVE  IInv'
  <1>1. jwks # None
    BY DEF SubBecomes, IInv, TypeOK, NoConn
  <1>2. TypeOK'
    BY <1>1 DEF SubBecomes, env, IInv, TypeOK
  <1>3. ConnOK'
    BY DEF SubBecomes, env, IInv, ConnOK, Tokens, ReadyFields, StreamFields
  <1>4. VerdictsOld'
    BY DEF SubBecomes, env, IInv, VerdictsOld
  <1>5. OpenedInTime' /\ RefusedSilent'
    BY DEF SubBecomes, OpenedInTime, RefusedSilent, Error, Entry
  <1>6. QED
    BY <1>2, <1>3, <1>4, <1>5 DEF IInv

\* A subscription: Argo looks at the token's expiry when it opens the stream.
LEMMA SubscribeStep ==
    ASSUME IInv, NEW kind, WsSubscribe(kind)
    PROVE  IInv'
  <1> DEFINE c == [kind |-> kind, success |-> ArgoAccepts(conn.token), opened |-> clock,
                   from |-> 1, read |-> 0, upto |-> 0, cuts |-> {}, got |-> <<>>, done |-> FALSE]
  <1>1. conn.at = "ready" /\ conn' = [conn EXCEPT !.sub = c] /\ UNCHANGED <<env, jwks>>
    BY DEF WsSubscribe
  <1>2. DOMAIN conn = ReadyFields /\ conn.token \in Tokens
    BY <1>1 DEF IInv, ConnOK
  <1>3. SubBecomes(c)
    <2> HIDE DEF c
    <2> QED
      BY <1>1, <1>2 DEF SubBecomes, ReadyFields
  <1>4. DOMAIN c = StreamFields
    BY DEF StreamFields
  <1>5. c.success = ArgoAccepts(conn.token) /\ c.opened = clock /\ c.got = <<>>
    OBVIOUS
  <1>6. ArgoAccepts(conn.token) \in BOOLEAN /\ (ArgoAccepts(conn.token) => clock <= conn.token.exp)
    BY <1>2 DEF ArgoAccepts, Tokens
  <1>7. clock \in Nat /\ <<>> \in Seq({Error})
    BY Bounds DEF IInv, TypeOK
  <1> HIDE DEF c
  <1>8. QED
    BY <1>3, <1>4, <1>5, <1>6, <1>7, StreamStep

\* The stream a step finds, and what remains of it where the step changes only
\* how far it has been read, what it has carried and whether it is done.
LEMMA StreamKept ==
    ASSUME IInv, conn.at = "ready", conn.sub # None, UNCHANGED <<env, jwks>>,
           NEW c, conn' = [conn EXCEPT !.sub = c],
           DOMAIN c = DOMAIN conn.sub, c.kind = conn.sub.kind, c.success = conn.sub.success, c.opened = conn.sub.opened,
           ~c.success => c.got \in Seq({Error}) /\ (c.kind = "workflow" => c.got = <<>>)
    PROVE  IInv'
  <1>1. /\ DOMAIN conn = ReadyFields /\ DOMAIN conn.sub = StreamFields
        /\ conn.sub.success \in BOOLEAN /\ conn.sub.opened \in Nat
    BY DEF IInv, ConnOK
  <1>2. SubBecomes(c)
    BY <1>1 DEF SubBecomes, ReadyFields
  <1>3. conn.sub.success => conn.sub.opened <= conn.token.exp
    BY DEF IInv, OpenedInTime
  <1>4. QED
    BY <1>1, <1>2, <1>3, StreamStep

\* A chunk, or a line of it: only a log Argo accepted is read.
LEMMA LogChunkStep ==
    ASSUME IInv, NEW b, LogChunk(b)
    PROVE  IInv'
  <1> DEFINE c == [conn.sub EXCEPT !.from = conn.sub.read + 1, !.upto = b, !.cuts = @ \cup {b}]
  <1>1. conn.at = "ready" /\ conn.sub # None /\ conn.sub.success /\ UNCHANGED <<env, jwks>>
    BY DEF LogChunk, Live, Readable
  <1>2. DOMAIN conn = ReadyFields /\ DOMAIN conn.sub = StreamFields
    BY <1>1 DEF IInv, ConnOK
  <1>3. conn' = [conn EXCEPT !.sub = c]
    BY <1>1, <1>2 DEF LogChunk, ReadyFields, StreamFields
  <1>4. /\ DOMAIN c = DOMAIN conn.sub /\ c.kind = conn.sub.kind /\ c.success = conn.sub.success
        /\ c.opened = conn.sub.opened
    BY <1>1, <1>2 DEF StreamFields
  <1> HIDE DEF c
  <1>5. QED
    BY <1>1, <1>3, <1>4, StreamKept

LEMMA LogLineStep ==
    ASSUME IInv, NEW j, LogLine(j)
    PROVE  IInv'
  <1> DEFINE e == LogItem(conn.sub.read + 1, j, conn.sub.from, conn.sub.upto)
             m == IF j = conn.sub.upto THEN j ELSE j + 1
             c == [conn.sub EXCEPT !.read = m, !.got = Yielded(@, e)]
  <1>1. conn.at = "ready" /\ conn.sub # None /\ conn.sub.success /\ UNCHANGED <<env, jwks>>
    BY DEF LogLine, Live, Readable
  <1>2. DOMAIN conn = ReadyFields /\ DOMAIN conn.sub = StreamFields
    BY <1>1 DEF IInv, ConnOK
  <1>3. conn' = [conn EXCEPT !.sub = c]
    <2>1. conn' = [conn EXCEPT !.sub.read = m, !.sub.got = Yielded(@, e)]
      BY DEF LogLine
    <2> HIDE DEF e, m
    <2>2. QED
      BY <1>1, <1>2, <2>1 DEF ReadyFields, StreamFields
  <1> HIDE DEF e, m
  <1>4. /\ DOMAIN c = DOMAIN conn.sub /\ c.kind = conn.sub.kind /\ c.success = conn.sub.success
        /\ c.opened = conn.sub.opened
    BY <1>1, <1>2 DEF StreamFields
  <1> HIDE DEF c
  <1>5. QED
    BY <1>1, <1>3, <1>4, StreamKept

\* A chunk of a refusal: an error.
LEMMA RefusedChunkStep ==
    ASSUME IInv, RefusedChunk
    PROVE  IInv'
  <1> DEFINE c == [conn.sub EXCEPT !.got = Append(@, Error)]
  <1>1. /\ conn.at = "ready" /\ conn.sub # None /\ conn.sub.kind = "logs"
        /\ UNCHANGED <<env, jwks>>
    BY DEF RefusedChunk, Live
  <1>2. DOMAIN conn = ReadyFields /\ DOMAIN conn.sub = StreamFields
    BY <1>1 DEF IInv, ConnOK
  <1>3. conn' = [conn EXCEPT !.sub = c]
    BY <1>1, <1>2 DEF RefusedChunk, ReadyFields, StreamFields
  <1>4. /\ DOMAIN c = DOMAIN conn.sub /\ c.kind = "logs" /\ c.success = conn.sub.success
        /\ c.opened = conn.sub.opened /\ c.got = Append(conn.sub.got, Error)
    BY <1>1, <1>2 DEF StreamFields
  <1> HIDE DEF c
  <1>5. ~c.success => c.got \in Seq({Error})
    BY <1>1, <1>4 DEF IInv, RefusedSilent
  <1>6. QED
    BY <1>1, <1>3, <1>4, <1>5, StreamKept

\* The connection to Argo breaks: one more error, and the end.
LEMMA LogBreaksStep ==
    ASSUME IInv, LogBreaks
    PROVE  IInv'
  <1> DEFINE c == [conn.sub EXCEPT !.got = Append(@, Error), !.done = TRUE]
  <1>1. /\ conn.at = "ready" /\ conn.sub # None /\ conn.sub.kind = "logs"
        /\ UNCHANGED <<env, jwks>>
    BY DEF LogBreaks, Live
  <1>2. DOMAIN conn = ReadyFields /\ DOMAIN conn.sub = StreamFields
    BY <1>1 DEF IInv, ConnOK
  <1>3. conn' = [conn EXCEPT !.sub = c]
    BY <1>1, <1>2 DEF LogBreaks, ReadyFields, StreamFields
  <1>4. /\ DOMAIN c = DOMAIN conn.sub /\ c.kind = "logs" /\ c.success = conn.sub.success
        /\ c.opened = conn.sub.opened /\ c.got = Append(conn.sub.got, Error)
    BY <1>1, <1>2 DEF StreamFields
  <1> HIDE DEF c
  <1>5. ~c.success => c.got \in Seq({Error})
    BY <1>1, <1>4 DEF IInv, RefusedSilent
  <1>6. QED
    BY <1>1, <1>3, <1>4, <1>5, StreamKept

\* An event: only a stream Argo accepted has any.
LEMMA WatchEventStep ==
    ASSUME IInv, NEW r, NEW e, NEW o, WatchEvent(r, e, o)
    PROVE  IInv'
  <1> DEFINE c == [conn.sub EXCEPT !.got = Append(@, WatchItem(r, e, o))]
  <1>1. /\ conn.at = "ready" /\ conn.sub # None /\ conn.sub.success
        /\ UNCHANGED <<env, jwks>>
    BY DEF WatchEvent, Live
  <1>2. DOMAIN conn = ReadyFields /\ DOMAIN conn.sub = StreamFields
    BY <1>1 DEF IInv, ConnOK
  <1>3. conn' = [conn EXCEPT !.sub = c]
    BY <1>1, <1>2 DEF WatchEvent, ReadyFields, StreamFields
  <1>4. /\ DOMAIN c = DOMAIN conn.sub /\ c.kind = conn.sub.kind /\ c.success = conn.sub.success
        /\ c.opened = conn.sub.opened
    BY <1>1, <1>2 DEF StreamFields
  <1> HIDE DEF c
  <1>5. QED
    BY <1>1, <1>3, <1>4, StreamKept

\* The end of a stream.
LEMMA StreamEndsStep ==
    ASSUME IInv, StreamEnds
    PROVE  IInv'
  <1> DEFINE c == [conn.sub EXCEPT !.done = TRUE]
  <1>1. /\ conn.at = "ready" /\ conn.sub # None
        /\ UNCHANGED <<env, jwks>>
    BY DEF StreamEnds, Live
  <1>2. DOMAIN conn = ReadyFields /\ DOMAIN conn.sub = StreamFields
    BY <1>1 DEF IInv, ConnOK
  <1>3. conn' = [conn EXCEPT !.sub = c]
    BY <1>1, <1>2 DEF StreamEnds, ReadyFields, StreamFields
  <1>4. /\ DOMAIN c = DOMAIN conn.sub /\ c.kind = conn.sub.kind /\ c.success = conn.sub.success
        /\ c.opened = conn.sub.opened /\ c.got = conn.sub.got
    BY <1>1, <1>2 DEF StreamFields
  <1> HIDE DEF c
  <1>5. ~c.success => c.got \in Seq({Error}) /\ (c.kind = "workflow" => c.got = <<>>)
    BY <1>1, <1>4 DEF IInv, RefusedSilent
  <1>6. QED
    BY <1>1, <1>3, <1>4, <1>5, StreamKept

\* Start and crash of the proxy, the client that leaves, a login: no connection
\* afterwards.
LEMMA ProcessStep ==
    ASSUME IInv, Start \/ Crash \/ WsClose \/ \E aud \in BOOLEAN : LogIn(aud)
    PROVE  IInv'
  <1>1. conn' = NoConn
    BY DEF Start, Crash, WsClose, LogIn, IInv, TypeOK
  <1>2. PartsOK'
    BY DEF Start, Crash, WsClose, LogIn, env, IInv, TypeOK, PartsOK
  <1>3. token' \in {None} \cup Tokens
    <2>1. CASE token' = token
      BY <2>1 DEF IInv, ConnOK
    <2>2. ASSUME NEW aud \in BOOLEAN, LogIn(aud)
          PROVE  token' \in Tokens
      <3>1. Latest \in 1..MaxKey
        BY LatestKey DEF IInv
      <3>2. clock + Lifetime \in Nat
        BY Bounds DEF IInv, TypeOK
      <3>3. QED
        BY <2>2, <3>1, <3>2 DEF LogIn, Tokens
    <2>3. QED
      BY <2>1, <2>2 DEF Start, Crash, WsClose, env
  <1>4. QED
    BY <1>1, <1>2, <1>3, ClosingStep

\* Time, the provider's keys and the pod.
LEMMA OutsideStep ==
    ASSUME IInv, Tick \/ Rotate \/ PodWrites
    PROVE  IInv'
  <1>1. UNCHANGED <<token, jwks, conn>>
    BY DEF Tick, Rotate, PodWrites
  <1>2. CASE Tick
    BY <1>1, <1>2, Bounds, SurroundingsStep DEF Tick, IInv, TypeOK, PartsOK
  <1>3. CASE Rotate
    <2>1. Latest \in keys /\ Latest \in 1..MaxKey
      BY LatestKey DEF IInv
    <2>2. ASSUME Latest < MaxKey, keys' = keys \cup {Latest + 1}
          PROVE  keys' \in SUBSET (1..MaxKey) /\ keys' # {}
      <3>1. Latest + 1 \in 1..MaxKey
        BY <2>1, <2>2, Bounds
      <3>2. QED
        BY <2>2, <3>1 DEF IInv, TypeOK
    <2>3. ASSUME \E k \in keys \ {Latest} : keys' = keys \ {k}
          PROVE  keys' \in SUBSET (1..MaxKey) /\ keys' # {}
      BY <2>1, <2>3 DEF IInv, TypeOK
    <2>4. PartsOK'
      BY <1>3, <2>2, <2>3 DEF Rotate, IInv, TypeOK, PartsOK
    <2>5. QED
      BY <1>1, <2>4, SurroundingsStep
  <1>4. CASE PodWrites
    <2>1. Len(Text) \in Nat /\ written \in 0..Len(Text)
      BY TextUtf8 DEF IInv, TypeOK
    <2>2. written' = written \/ written' \in (written + 1)..Len(Text)
      BY <1>4 DEF PodWrites
    <2>3. written' \in 0..Len(Text)
      BY <2>1, <2>2
    <2>4. podDone' \in BOOLEAN
      BY <1>4 DEF PodWrites, IInv, TypeOK
    <2>5. PartsOK'
      BY <1>4, <2>3, <2>4 DEF PodWrites, IInv, TypeOK, PartsOK
    <2>6. QED
      BY <1>1, <2>5, SurroundingsStep
  <1>5. QED
    BY <1>2, <1>3, <1>4

\* Every step keeps the invariant.
LEMMA InvStep ==
    ASSUME IInv, [Next]_vars
    PROVE  IInv'
  <1>1. CASE UNCHANGED vars
    BY <1>1, SurroundingsStep DEF vars, IInv, TypeOK, PartsOK
  <1>2. QED
    BY <1>1, HttpStep, UpgradeStep, ConnectionInitStep, SubscribeStep, LogChunkStep, LogLineStep,
       RefusedChunkStep, LogBreaksStep, WatchEventStep, StreamEndsStep, ProcessStep, OutsideStep DEF Next, Streams

-----------------------------------------------------------------------------

\* The invariant holds in every reachable state.
THEOREM Invariant == Spec => []IInv
  <1>1. IInv /\ [Next]_vars => IInv'
    BY InvStep
  <1>2. QED
    BY InitInv, <1>1, PTL DEF Spec

\* The types of the proxy's state, and that nothing is open while it is down.
THEOREM TypeCorrect == Spec => []TypeOK
  <1>1. IInv => TypeOK
    BY DEF IInv
  <1>2. QED
    BY Invariant, <1>1, PTL

\* TokenValidator, the guard and on_connection_init: a token is accepted only if
\* its key was published when the proxy started and it was within the leeway of its
\* expiry when it was looked at; a good one is refused only for its key.
THEOREM VerdictsOldHolds == Spec => []VerdictsOld
  <1>1. IInv => VerdictsOld
    BY DEF IInv
  <1>2. QED
    BY Invariant, <1>1, PTL

\* What RefusedSilent says of the kinds of a sequence of errors.
LEMMA ErrorKinds ==
    ASSUME NEW got \in Seq({Error})
    PROVE  Kinds(got) \subseteq {"error"}
  <1>1. \A e \in ToSet(got) : e = Error
    BY DEF ToSet
  <1>2. Error.kind = "error"
    BY DEF Error, Entry
  <1>3. QED
    BY <1>1, <1>2 DEF Kinds

\* A websocket's verdict outlives its token; still, a subscription opened after the
\* token's expiry carries errors only, and one of events nothing.
THEOREM NoDataAfterExpiryHolds == Spec => []NoDataAfterExpiry
  <1>1. IInv => NoDataAfterExpiry
    <2> SUFFICES ASSUME IInv, conn.at = "ready", conn.sub # None
                 PROVE  /\ conn.sub.opened > conn.token.exp => Kinds(conn.sub.got) \subseteq {"error"}
                        /\ ~conn.sub.success /\ conn.sub.kind = "workflow" => conn.sub.got = <<>>
      BY DEF NoDataAfterExpiry
    <2>1. /\ conn.sub.success \in BOOLEAN /\ conn.sub.opened \in Nat /\ conn.token \in Tokens
      BY DEF IInv, ConnOK
    <2>2. conn.token.exp \in Nat
      BY <2>1 DEF Tokens
    <2>3. conn.sub.opened > conn.token.exp => ~conn.sub.success
      BY <2>1, <2>2 DEF IInv, OpenedInTime
    <2>4. ~conn.sub.success =>
             conn.sub.got \in Seq({Error}) /\ (conn.sub.kind = "workflow" => conn.sub.got = <<>>)
      BY DEF IInv, RefusedSilent
    <2>5. QED
      BY <2>3, <2>4, ErrorKinds
  <1>2. QED
    BY Invariant, <1>1, PTL

-----------------------------------------------------------------------------

\* The stream of a log Argo accepted.
LogStream == conn.at = "ready" /\ conn.sub # None /\ conn.sub.kind = "logs" /\ conn.sub.success

Entries == [kind: {"line", "failed", "text", "error"}, at: Nat \X Nat, carried: SUBSET Nat]

\* Reading stands in the chunk from..upto, which began and ended where chunks do;
\* the bytes up to n have been read, and n is the end of a line or of a chunk.
ReadsAt(n, from, upto, cuts) ==
    /\ n \in Nat /\ from \in Nat \ {0} /\ upto \in Nat
    /\ from - 1 <= n /\ n <= upto /\ upto <= Len(Text)
    /\ upto \in cuts \/ upto = 0
    /\ from - 1 \in cuts \/ from = 1
    /\ n = 0 \/ n \in cuts \/ Text[n] = "newline"

\* No entry is about a byte after n.
Bounded(got, n) == \A k \in DOMAIN got : got[k].at[1] \in 0..n /\ got[k].carried \subseteq 1..n

\* The three parts of LogIntact.
OneEntry(got, i, j) ==
    \E k \in DOMAIN got : /\ got[k] = Entry(Parsed(i, j), <<i, j>>, Carried(Parsed(i, j), i, j))
                          /\ \A l \in DOMAIN got : got[l].at[1] \in i..(j + 1) => l = k

Whole(got, n, cuts) ==
    \A j \in 0..(n - 1) : \A i \in 1..(j + 1) : IsLine(i, j) /\ cuts \cap (i..j) = {} => OneEntry(got, i, j)

Ordered(got) == \A k, l \in DOMAIN got : k < l => \A p \in got[k].carried, q \in got[l].carried : p < q

Covered(got, n, cuts) ==
    \A p \in 1..n : Text[p] = "newline" \/ Split(p, cuts) \/ \E k \in DOMAIN got : Accounts(got[k], p)

\* What holds of the entries got for the bytes up to n.
LogOK(got, n, cuts) ==
    /\ got \in Seq(Entries)
    /\ Bounded(got, n) /\ Whole(got, n, cuts) /\ Ordered(got) /\ Covered(got, n, cuts)

LogInv == LogStream => /\ ReadsAt(conn.sub.read, conn.sub.from, conn.sub.upto, conn.sub.cuts)
                       /\ LogOK(conn.sub.got, conn.sub.read, conn.sub.cuts)

\* text.lines() of a chunk finds a line of the body whole, if no chunk ended in it:
\* between the last line read and the next no other line ends.
LEMMA LineFound ==
    ASSUME NEW n, NEW from, NEW upto, NEW cuts, ReadsAt(n, from, upto, cuts), n < upto,
           NEW j \in Nat, FirstLine(n + 1, j, upto),
           NEW h \in Nat, n <= h, h < IF j = upto THEN j ELSE j + 1,
           NEW i \in 1..(h + 1), IsLine(i, h), cuts \cap (i..h) = {}
    PROVE  i = n + 1 /\ h = j
  <1>1. /\ n \in Nat /\ upto \in Nat /\ n <= j /\ j <= upto /\ i \in Nat /\ 1 <= i /\ i <= h + 1
        /\ \A p \in (n + 1)..j : Text[p] # "newline"
    BY DEF ReadsAt, FirstLine
  <1>2. /\ Text[h + 1] = "newline" /\ (i = 1 \/ Text[i - 1] = "newline")
        /\ \A p \in i..h : Text[p] # "newline"
    BY DEF IsLine
  <1>3. h = j
    <2>1. h + 1 \notin (n + 1)..j
      BY <1>1, <1>2
    <2>2. QED
      BY <1>1, <2>1
  <1>4. ~(i <= n)
    <2> SUFFICES ASSUME i <= n PROVE FALSE
      OBVIOUS
    <2>1. n \in i..h /\ n # 0
      BY <1>1
    <2>2. n \notin cuts /\ Text[n] # "newline"
      BY <1>2, <2>1
    <2>3. QED
      BY <2>1, <2>2 DEF ReadsAt
  <1>5. ~(n + 1 < i)
    <2> SUFFICES ASSUME n + 1 < i PROVE FALSE
      OBVIOUS
    <2>1. i # 1 /\ i - 1 \in (n + 1)..j
      BY <1>1, <1>3
    <2>2. QED
      BY <1>1, <1>2, <2>1
  <1>6. QED
    BY <1>1, <1>3, <1>4, <1>5

\* from_utf8_lossy of a chunk: what it replaces is half of a character that was cut.
LEMMA LostSplit ==
    ASSUME NEW n, NEW from, NEW upto, NEW cuts, ReadsAt(n, from, upto, cuts), n < upto,
           NEW p \in (n + 1)..upto, Lost(p, from, upto)
    PROVE  Split(p, cuts)
  <1>1. n \in Nat /\ upto \in Nat /\ from \in Nat /\ Len(Text) \in Nat /\ upto <= Len(Text) /\ p \in 1..Len(Text)
    BY TextUtf8 DEF ReadsAt
  <1>2. CASE Text[p] = "head" /\ p = upto
    BY <1>1, <1>2 DEF ReadsAt, Split
  <1>3. CASE Text[p] = "tail" /\ p = from
    <2>1. p > 1
      BY <1>1, <1>3, TextUtf8
    <2>2. p - 1 \in cuts
      BY <1>1, <1>3, <2>1 DEF ReadsAt
    <2>3. QED
      BY <1>3, <2>2 DEF Split
  <1>4. QED
    BY <1>2, <1>3 DEF Lost

\* It takes nothing from a line no chunk ended in.
LEMMA NothingLost ==
    ASSUME NEW n, NEW from, NEW upto, NEW cuts, ReadsAt(n, from, upto, cuts), n < upto,
           NEW j \in Nat, j <= upto, IsLine(n + 1, j), cuts \cap ((n + 1)..j) = {},
           NEW p \in (n + 1)..j
    PROVE  ~Lost(p, from, upto)
  <1>1. n \in Nat /\ upto \in Nat /\ from \in Nat /\ Len(Text) \in Nat /\ upto <= Len(Text) /\ p \in 1..Len(Text)
    BY TextUtf8 DEF ReadsAt
  <1>2. ~(Text[p] = "head" /\ p = upto)
    BY <1>1 DEF ReadsAt
  <1>3. ~(Text[p] = "tail" /\ p = from)
    <2> SUFFICES ASSUME Text[p] = "tail", p = from PROVE FALSE
      OBVIOUS
    <2>1. p > 1 /\ Text[p - 1] = "head"
      BY <1>1, TextUtf8
    <2>2. p = n + 1
      BY <1>1 DEF ReadsAt
    <2>3. n + 1 = 1 \/ Text[(n + 1) - 1] = "newline"
      BY Zenon DEF IsLine
    <2>4. QED
      BY <1>1, <2>1, <2>2, <2>3
  <1>4. QED
    BY <1>2, <1>3 DEF Lost

\* The entry for a line of a chunk, and what it makes of each byte.
LEMMA ItemMade ==
    ASSUME NEW i \in Nat \ {0}, NEW j \in Nat, NEW a, NEW b
    PROVE  LET e == LogItem(i, j, a, b) IN
           /\ e \in Entries /\ e.at = <<i, j>> /\ e.carried \subseteq i..j
           /\ \A p \in i..j : Accounts(e, p) \/ Lost(p, a, b)
           /\ (\A p \in i..j : ~Lost(p, a, b)) => e = Entry(Parsed(i, j), <<i, j>>, Carried(Parsed(i, j), i, j))
  <1> DEFINE kind == Parsed(i, j)
             all == Carried(kind, i, j)
             kept == {p \in all : ~Lost(p, a, b)}
             e == LogItem(i, j, a, b)
  <1>1. kind \in {"line", "failed", "text"}
    BY DEF Parsed
  <1>2. all \subseteq i..j
    BY <1>1 DEF Carried
  <1>3. \A p \in i..j : p \in all \/ kind = "failed" \/ (kind = "text" /\ Edge(p, i, j))
    BY <1>1 DEF Carried
  <1>4. e = Entry(kind, <<i, j>>, kept)
    BY DEF LogItem
  <1> HIDE DEF kind, all, e
  <1>5. e.kind = kind /\ e.at = <<i, j>> /\ e.carried = kept
    BY <1>4 DEF Entry
  <1>6. e \in Entries
    <2>1. kept \in SUBSET Nat
      <3>1. \A p \in i..j : p \in Nat
        OBVIOUS
      <3>2. \A p \in kept : p \in Nat
        BY <1>2, <3>1
      <3>3. QED
        BY <3>2
    <2>2. <<i, j>> \in Nat \X Nat
      OBVIOUS
    <2> HIDE DEF kept
    <2>3. QED
      BY <1>1, <1>4, <2>1, <2>2 DEF Entries, Entry
  <1>7. ASSUME NEW p \in i..j
        PROVE  Accounts(e, p) \/ Lost(p, a, b)
    <2>1. e.at[1] = i /\ e.at[2] = j
      BY <1>5
    <2>2. p \in kept \/ kind = "failed" \/ (kind = "text" /\ Edge(p, i, j)) \/ Lost(p, a, b)
      BY <1>3
    <2>3. QED
      BY <1>5, <2>1, <2>2 DEF Accounts
  <1>8. (\A p \in i..j : ~Lost(p, a, b)) => kept = all
    BY <1>2
  <1>9. QED
    BY <1>2, <1>4, <1>5, <1>6, <1>7, <1>8 DEF e, kind, all

\* One entry more: where it stands, and that the others stay.
LEMMA Appended ==
    ASSUME NEW got \in Seq(Entries), NEW e \in Entries
    PROVE  LET all == Append(got, e)
               m == Len(got) + 1
           IN  /\ all \in Seq(Entries) /\ m \in DOMAIN all /\ all[m] = e
               /\ \A k \in DOMAIN got : k \in DOMAIN all /\ all[k] = got[k] /\ k < m
               /\ \A k \in DOMAIN all : k = m \/ k \in DOMAIN got
               /\ \A k \in DOMAIN all : k \in Nat
  <1> HIDE DEF Entries
  <1> QED
    OBVIOUS

\* Entries found once stay the only ones if a later entry is about later bytes.
LEMMA OneEntryKept ==
    ASSUME NEW got \in Seq(Entries), NEW e \in Entries, NEW i, NEW j,
           OneEntry(got, i, j), e.at[1] \notin i..(j + 1)
    PROVE  OneEntry(Append(got, e), i, j)
  <1> DEFINE all == Append(got, e)
             m == Len(got) + 1
  <1>1. /\ all[m] = e
        /\ \A k \in DOMAIN got : k \in DOMAIN all /\ all[k] = got[k] /\ k < m
        /\ \A k \in DOMAIN all : k = m \/ k \in DOMAIN got
    BY Appended
  <1> HIDE DEF all, m
  <1>2. PICK k \in DOMAIN got :
          /\ got[k] = Entry(Parsed(i, j), <<i, j>>, Carried(Parsed(i, j), i, j))
          /\ \A l \in DOMAIN got : got[l].at[1] \in i..(j + 1) => l = k
    BY DEF OneEntry
  <1>3. \A l \in DOMAIN all : all[l].at[1] \in i..(j + 1) => l = k
    BY <1>1, <1>2
  <1>4. k \in DOMAIN all /\ all[k] = got[k]
    BY <1>1
  <1>5. OneEntry(all, i, j)
    BY <1>2, <1>3, <1>4 DEF OneEntry
  <1>6. QED
    BY <1>5 DEF all

\* What an entry about the bytes after n leaves as it was.
LEMMA EntryAdded ==
    ASSUME NEW n \in Nat, NEW m \in Nat, n <= m, NEW cuts,
           NEW got, LogOK(got, n, cuts), NEW e \in Entries,
           e = Error \/ (e.at[1] = n + 1 /\ n < m), e.carried \subseteq (n + 1)..m
    PROVE  LET all == Append(got, e) IN
           /\ all \in Seq(Entries) /\ Bounded(all, m) /\ Ordered(all)
           /\ Whole(all, n, cuts) /\ Covered(all, n, cuts)
  <1> DEFINE all == Append(got, e)
             z == Len(got) + 1
  <1>1. got \in Seq(Entries) /\ Bounded(got, n) /\ Whole(got, n, cuts) /\ Ordered(got) /\ Covered(got, n, cuts)
    BY DEF LogOK
  <1>2. /\ all \in Seq(Entries) /\ z \in DOMAIN all /\ all[z] = e
        /\ \A k \in DOMAIN got : k \in DOMAIN all /\ all[k] = got[k] /\ k < z
        /\ \A k \in DOMAIN all : k = z \/ k \in DOMAIN got
        /\ \A k \in DOMAIN all : k \in Nat
    BY <1>1, Appended
  <1>3. e.at[1] = 0 \/ (e.at[1] = n + 1 /\ n < m)
    BY DEF Error, Entry
  <1>4. Whole(all, n, cuts)
    <2> SUFFICES ASSUME NEW j \in 0..(n - 1), NEW i \in 1..(j + 1), OneEntry(got, i, j)
                 PROVE  OneEntry(all, i, j)
      BY <1>1 DEF Whole
    <2>1. e.at[1] \notin i..(j + 1)
      BY <1>3
    <2>2. QED
      BY <1>1, <2>1, OneEntryKept
  <1> HIDE DEF all, z
  <1>5. Bounded(all, m)
    <2> SUFFICES ASSUME NEW k \in DOMAIN all
                 PROVE  all[k].at[1] \in 0..m /\ all[k].carried \subseteq 1..m
      BY DEF Bounded
    <2>1. CASE k = z
      BY <1>2, <1>3, <2>1
    <2>2. CASE k \in DOMAIN got
      <3>1. got[k].at[1] \in 0..n /\ got[k].carried \subseteq 1..n
        BY <1>1, <2>2 DEF Bounded
      <3>2. QED
        BY <1>2, <2>2, <3>1
    <2>3. QED
      BY <1>2, <2>1, <2>2
  <1>6. Ordered(all)
    <2> SUFFICES ASSUME NEW k \in DOMAIN all, NEW l \in DOMAIN all, k < l,
                        NEW p \in all[k].carried, NEW q \in all[l].carried
                 PROVE  p < q
      BY DEF Ordered
    <2>1. k \in DOMAIN got
      BY <1>2
    <2>2. all[k] = got[k]
      BY <1>2, <2>1
    <2>3. CASE l = z
      <3>1. p \in 1..n
        BY <1>1, <2>1, <2>2 DEF Bounded
      <3>2. q \in (n + 1)..m
        BY <1>2, <2>3
      <3>3. QED
        BY <3>1, <3>2
    <2>4. CASE l \in DOMAIN got
      <3>1. all[l] = got[l]
        BY <1>2, <2>4
      <3>2. QED
        BY <1>1, <2>1, <2>2, <2>4, <3>1 DEF Ordered
    <2>5. QED
      BY <1>2, <2>3, <2>4
  <1>7. Covered(all, n, cuts)
    <2> SUFFICES ASSUME NEW p \in 1..n
                 PROVE  Text[p] = "newline" \/ Split(p, cuts) \/ \E k \in DOMAIN all : Accounts(all[k], p)
      BY DEF Covered
    <2>1. Text[p] = "newline" \/ Split(p, cuts) \/ \E k \in DOMAIN got : Accounts(got[k], p)
      BY <1>1 DEF Covered
    <2>2. QED
      BY <1>2, <2>1
  <1>8. QED
    BY <1>2, <1>4, <1>5, <1>6, <1>7 DEF all

\* An error carries nothing.
LEMMA ErrorAdded ==
    ASSUME NEW n \in Nat, NEW cuts, NEW got, LogOK(got, n, cuts)
    PROVE  LogOK(Append(got, Error), n, cuts)
  <1>1. Error \in Entries /\ Error.carried \subseteq (n + 1)..n
    BY DEF Error, Entry, Entries
  <1> HIDE DEF Error
  <1> DEFINE all == Append(got, Error)
  <1>2. /\ all \in Seq(Entries) /\ Bounded(all, n) /\ Ordered(all)
        /\ Whole(all, n, cuts) /\ Covered(all, n, cuts)
    BY <1>1, EntryAdded
  <1>3. QED
    BY <1>2 DEF LogOK

\* The next line of a chunk.
LEMMA LineAdded ==
    ASSUME NEW n, NEW from, NEW upto, NEW cuts, ReadsAt(n, from, upto, cuts), n < upto,
           NEW j \in Nat, FirstLine(n + 1, j, upto), NEW got, LogOK(got, n, cuts)
    PROVE  LET m == IF j = upto THEN j ELSE j + 1
               all == Append(got, LogItem(n + 1, j, from, upto))
           IN  ReadsAt(m, from, upto, cuts) /\ LogOK(all, m, cuts)
  <1> DEFINE m == IF j = upto THEN j ELSE j + 1
             e == LogItem(n + 1, j, from, upto)
             all == Append(got, e)
  <1>1. n \in Nat /\ from \in Nat /\ upto \in Nat /\ n <= j /\ j <= upto
    BY DEF ReadsAt, FirstLine
  <1>2. m \in Nat /\ n < m /\ j <= m /\ m <= upto
    BY <1>1
  <1>3. m = upto \/ Text[m] = "newline"
    BY DEF FirstLine
  <1>4. \A p \in (j + 1)..m : Text[p] = "newline"
    BY <1>1 DEF FirstLine
  <1>5. \A h \in Nat : \A i \in 1..(h + 1) :
          n <= h /\ h < m /\ IsLine(i, h) /\ cuts \cap (i..h) = {} => i = n + 1 /\ h = j
    BY LineFound
  <1> HIDE DEF m
  <1>6. ReadsAt(m, from, upto, cuts)
    BY <1>1, <1>2, <1>3 DEF ReadsAt
  <1>7. n + 1 \in Nat \ {0}
    BY <1>1
  <1>8. /\ e \in Entries /\ e.at = <<n + 1, j>> /\ e.carried \subseteq (n + 1)..j
        /\ \A p \in (n + 1)..j : Accounts(e, p) \/ Lost(p, from, upto)
        /\ (\A p \in (n + 1)..j : ~Lost(p, from, upto)) =>
              e = Entry(Parsed(n + 1, j), <<n + 1, j>>, Carried(Parsed(n + 1, j), n + 1, j))
    BY <1>7, ItemMade
  <1> HIDE DEF e
  <1>9. e.at[1] = n + 1 /\ e.carried \subseteq (n + 1)..m
    BY <1>1, <1>2, <1>8
  <1>10. /\ all \in Seq(Entries) /\ Bounded(all, m) /\ Ordered(all)
         /\ Whole(all, n, cuts) /\ Covered(all, n, cuts)
    BY <1>1, <1>2, <1>8, <1>9, EntryAdded
  <1>11. got \in Seq(Entries) /\ Bounded(got, n)
    BY DEF LogOK
  <1> DEFINE z == Len(got) + 1
  <1>12. /\ z \in DOMAIN all /\ all[z] = e
         /\ \A k \in DOMAIN got : all[k] = got[k]
         /\ \A k \in DOMAIN all : k = z \/ k \in DOMAIN got
    BY <1>8, <1>11, Appended
  <1> HIDE DEF all, z
  <1>13. Whole(all, m, cuts)
    <2> SUFFICES ASSUME NEW h \in 0..(m - 1), NEW i \in 1..(h + 1), IsLine(i, h), cuts \cap (i..h) = {}
                 PROVE  OneEntry(all, i, h)
      BY DEF Whole
    <2>1. CASE h < n
      <3>1. h \in 0..(n - 1)
        BY <1>1, <2>1
      <3>2. QED
        BY <1>10, <3>1 DEF Whole
    <2>2. CASE n <= h
      <3>1. h \in Nat /\ h < m
        BY <1>2
      <3>2. i = n + 1 /\ h = j
        BY <1>5, <2>2, <3>1
      <3>3. \A p \in (n + 1)..j : ~Lost(p, from, upto)
        BY <1>1, <3>2, NothingLost
      <3>4. all[z] = Entry(Parsed(i, h), <<i, h>>, Carried(Parsed(i, h), i, h))
        BY <1>8, <1>12, <3>2, <3>3
      <3>5. ASSUME NEW l \in DOMAIN all, all[l].at[1] \in i..(h + 1)
            PROVE  l = z
        <4> SUFFICES ASSUME l \in DOMAIN got PROVE FALSE
          BY <1>12
        <4>1. all[l].at[1] \in 0..n
          BY <1>11, <1>12 DEF Bounded
        <4>2. QED
          BY <1>1, <3>2, <3>5, <4>1
      <3>6. QED
        BY <1>12, <3>4, <3>5 DEF OneEntry
    <2>3. QED
      BY <1>1, <2>1, <2>2
  <1>14. Covered(all, m, cuts)
    <2> SUFFICES ASSUME NEW p \in 1..m
                 PROVE  Text[p] = "newline" \/ Split(p, cuts) \/ \E k \in DOMAIN all : Accounts(all[k], p)
      BY DEF Covered
    <2>1. p \in 1..n \/ p \in (n + 1)..j \/ p \in (j + 1)..m
      BY <1>1, <1>2
    <2>2. CASE p \in (n + 1)..j
      <3>1. Accounts(e, p) \/ Lost(p, from, upto)
        BY <1>8, <2>2
      <3>2. p \in (n + 1)..upto
        BY <1>1, <2>2
      <3>3. QED
        BY <1>12, <3>1, <3>2, LostSplit
    <2>3. QED
      BY <1>4, <1>10, <2>1, <2>2 DEF Covered
  <1>15. LogOK(all, m, cuts)
    BY <1>10, <1>13, <1>14 DEF LogOK
  <1>16. QED
    BY <1>6, <1>15 DEF m, all, e

\* A chunk more: fewer lines are free of cuts, and more characters may be cut.
LEMMA CutAdded ==
    ASSUME NEW n, NEW from, NEW cuts, ReadsAt(n, from, n, cuts),
           NEW b \in Nat, n < b, b <= Len(Text), NEW got, LogOK(got, n, cuts)
    PROVE  ReadsAt(n, n + 1, b, cuts \cup {b}) /\ LogOK(got, n, cuts \cup {b})
  <1>1. ReadsAt(n, n + 1, b, cuts \cup {b})
    BY DEF ReadsAt
  <1>2. \A p : Split(p, cuts) => Split(p, cuts \cup {b})
    BY DEF Split
  <1>3. \A i, j : (cuts \cup {b}) \cap (i..j) = {} => cuts \cap (i..j) = {}
    OBVIOUS
  <1>4. Whole(got, n, cuts \cup {b})
    BY <1>3 DEF LogOK, Whole
  <1>5. Covered(got, n, cuts \cup {b})
    BY <1>2 DEF LogOK, Covered
  <1>6. QED
    BY <1>1, <1>4, <1>5 DEF LogOK

-----------------------------------------------------------------------------

\* What LogInv asks of the stream c.
StreamOK(c) == ReadsAt(c.read, c.from, c.upto, c.cuts) /\ LogOK(c.got, c.read, c.cuts)

\* The stream an action of a log finds, and the one it leaves.
LEMMA StreamLeft ==
    ASSUME conn.at = "ready", DOMAIN conn = ReadyFields, NEW c, conn' = [conn EXCEPT !.sub = c],
           c.kind = "logs" /\ c.success => StreamOK(c)
    PROVE  LogInv'
  <1>1. conn'.sub = c
    BY DEF ReadyFields
  <1>2. QED
    BY <1>1 DEF LogInv, LogStream, StreamOK

\* A chunk arrives.
LEMMA LogChunkIntact ==
    ASSUME IInv, LogInv, NEW b \in 1..Len(Text), LogChunk(b)
    PROVE  LogInv'
  <1> DEFINE c == [conn.sub EXCEPT !.from = conn.sub.read + 1, !.upto = b, !.cuts = @ \cup {b}]
  <1>1. /\ conn.at = "ready" /\ conn.sub # None /\ conn.sub.kind = "logs" /\ conn.sub.success
        /\ conn.sub.read = conn.sub.upto /\ conn.sub.read < b
    BY DEF LogChunk, Live, Readable, ChunkUsed
  <1>2. DOMAIN conn = ReadyFields /\ DOMAIN conn.sub = StreamFields
    BY <1>1 DEF IInv, ConnOK
  <1>3. conn' = [conn EXCEPT !.sub = c]
    BY <1>1, <1>2 DEF LogChunk, ReadyFields, StreamFields
  <1>4. /\ c.read = conn.sub.read /\ c.from = conn.sub.read + 1 /\ c.upto = b /\ c.cuts = conn.sub.cuts \cup {b}
        /\ c.got = conn.sub.got
    BY <1>2 DEF StreamFields
  <1> HIDE DEF c
  <1>5. /\ ReadsAt(conn.sub.read, conn.sub.from, conn.sub.read, conn.sub.cuts)
        /\ LogOK(conn.sub.got, conn.sub.read, conn.sub.cuts)
    BY <1>1 DEF LogInv, LogStream
  <1>6. b \in Nat /\ b <= Len(Text)
    BY TextUtf8
  <1>7. StreamOK(c)
    BY <1>1, <1>4, <1>5, <1>6, CutAdded DEF StreamOK
  <1>8. QED
    BY <1>1, <1>2, <1>3, <1>7, StreamLeft

\* A line of it is yielded.
LEMMA LogLineIntact ==
    ASSUME IInv, LogInv, NEW j \in 0..Len(Text), LogLine(j)
    PROVE  LogInv'
  <1> DEFINE e == LogItem(conn.sub.read + 1, j, conn.sub.from, conn.sub.upto)
             m == IF j = conn.sub.upto THEN j ELSE j + 1
             c == [conn.sub EXCEPT !.read = m, !.got = Append(@, e)]
  <1>1. /\ conn.at = "ready" /\ conn.sub # None /\ conn.sub.kind = "logs" /\ conn.sub.success
        /\ conn.sub.read # conn.sub.upto /\ FirstLine(conn.sub.read + 1, j, conn.sub.upto)
    BY DEF LogLine, Live, Readable, ChunkUsed
  <1>2. DOMAIN conn = ReadyFields /\ DOMAIN conn.sub = StreamFields
    BY <1>1 DEF IInv, ConnOK
  <1>3. conn' = [conn EXCEPT !.sub = c]
    <2>1. conn' = [conn EXCEPT !.sub.read = m, !.sub.got = Append(@, e)]
      BY DEF LogLine, Yielded
    <2> HIDE DEF e, m
    <2>2. QED
      BY <1>1, <1>2, <2>1 DEF ReadyFields, StreamFields
  <1>4. /\ ReadsAt(conn.sub.read, conn.sub.from, conn.sub.upto, conn.sub.cuts)
        /\ LogOK(conn.sub.got, conn.sub.read, conn.sub.cuts)
    BY <1>1 DEF LogInv, LogStream
  <1>5. conn.sub.read < conn.sub.upto
    BY <1>1, <1>4 DEF ReadsAt
  <1>6. j \in Nat
    BY TextUtf8
  <1>7. ReadsAt(m, conn.sub.from, conn.sub.upto, conn.sub.cuts) /\ LogOK(Append(conn.sub.got, e), m, conn.sub.cuts)
    BY <1>1, <1>4, <1>5, <1>6, LineAdded
  <1> HIDE DEF e, m
  <1>8. /\ c.read = m /\ c.from = conn.sub.from /\ c.upto = conn.sub.upto /\ c.cuts = conn.sub.cuts
        /\ c.got = Append(conn.sub.got, e)
    BY <1>2 DEF StreamFields
  <1> HIDE DEF c
  <1>9. StreamOK(c)
    BY <1>7, <1>8 DEF StreamOK
  <1>10. QED
    BY <1>1, <1>2, <1>3, <1>9, StreamLeft

\* The connection to Argo breaks.
LEMMA LogBreaksIntact ==
    ASSUME IInv, LogInv, LogBreaks
    PROVE  LogInv'
  <1> DEFINE c == [conn.sub EXCEPT !.got = Append(@, Error), !.done = TRUE]
  <1>1. conn.at = "ready" /\ conn.sub # None /\ conn.sub.kind = "logs"
    BY DEF LogBreaks, Live
  <1>2. DOMAIN conn = ReadyFields /\ DOMAIN conn.sub = StreamFields
    BY <1>1 DEF IInv, ConnOK
  <1>3. conn' = [conn EXCEPT !.sub = c]
    BY <1>1, <1>2 DEF LogBreaks, ReadyFields, StreamFields
  <1>4. /\ c.success = conn.sub.success /\ c.read = conn.sub.read /\ c.from = conn.sub.from
        /\ c.upto = conn.sub.upto /\ c.cuts = conn.sub.cuts /\ c.got = Append(conn.sub.got, Error)
    BY <1>2 DEF StreamFields
  <1> HIDE DEF c
  <1>5. ASSUME conn.sub.success PROVE StreamOK(c)
    <2>1. /\ ReadsAt(conn.sub.read, conn.sub.from, conn.sub.upto, conn.sub.cuts)
          /\ LogOK(conn.sub.got, conn.sub.read, conn.sub.cuts)
      BY <1>1, <1>5 DEF LogInv, LogStream
    <2>2. conn.sub.read \in Nat
      BY <2>1 DEF ReadsAt
    <2>3. LogOK(Append(conn.sub.got, Error), conn.sub.read, conn.sub.cuts)
      BY <2>1, <2>2, ErrorAdded
    <2>4. QED
      BY <1>4, <2>1, <2>3 DEF StreamOK
  <1>6. QED
    BY <1>1, <1>2, <1>3, <1>4, <1>5, StreamLeft

\* The stream ends.
LEMMA StreamEndsIntact ==
    ASSUME IInv, LogInv, StreamEnds
    PROVE  LogInv'
  <1> DEFINE c == [conn.sub EXCEPT !.done = TRUE]
  <1>1. conn.at = "ready" /\ conn.sub # None
    BY DEF StreamEnds, Live
  <1>2. DOMAIN conn = ReadyFields /\ DOMAIN conn.sub = StreamFields
    BY <1>1 DEF IInv, ConnOK
  <1>3. conn' = [conn EXCEPT !.sub = c]
    BY <1>1, <1>2 DEF StreamEnds, ReadyFields, StreamFields
  <1>4. /\ c.kind = conn.sub.kind /\ c.success = conn.sub.success /\ c.read = conn.sub.read
        /\ c.from = conn.sub.from /\ c.upto = conn.sub.upto /\ c.cuts = conn.sub.cuts /\ c.got = conn.sub.got
    BY <1>2 DEF StreamFields
  <1> HIDE DEF c
  <1>5. QED
    BY <1>1, <1>2, <1>3, <1>4, StreamLeft DEF LogInv, LogStream, StreamOK

\* A new stream has read nothing.
LEMMA SubscribeIntact ==
    ASSUME IInv, NEW kind, WsSubscribe(kind)
    PROVE  LogInv'
  <1> DEFINE c == [kind |-> kind, success |-> ArgoAccepts(conn.token), opened |-> clock,
                   from |-> 1, read |-> 0, upto |-> 0, cuts |-> {}, got |-> <<>>, done |-> FALSE]
  <1>1. conn.at = "ready" /\ DOMAIN conn = ReadyFields /\ conn' = [conn EXCEPT !.sub = c]
    BY DEF WsSubscribe, IInv, ConnOK
  <1>2. c.from = 1 /\ c.read = 0 /\ c.upto = 0 /\ c.cuts = {} /\ c.got = <<>>
    OBVIOUS
  <1> HIDE DEF c
  <1>3. Len(Text) \in Nat
    BY TextUtf8
  <1>4. ReadsAt(0, 1, 0, {})
    BY <1>3 DEF ReadsAt
  <1>5. <<>> \in Seq(Entries) /\ DOMAIN <<>> = {}
    OBVIOUS
  <1>6. Bounded(<<>>, 0) /\ Ordered(<<>>)
    BY <1>5 DEF Bounded, Ordered
  <1>7. Whole(<<>>, 0, {}) /\ Covered(<<>>, 0, {})
    <2>1. 0..(0 - 1) = {} /\ 1..0 = {}
      OBVIOUS
    <2>2. QED
      BY <2>1 DEF Whole, Covered
  <1>8. StreamOK(c)
    BY <1>2, <1>4, <1>5, <1>6, <1>7 DEF StreamOK, LogOK
  <1>9. QED
    BY <1>1, <1>8, StreamLeft

\* A refusal, and events, are no log that is read.
LEMMA OthersIntact ==
    ASSUME IInv, RefusedChunk \/ (\E r, e, o \in BOOLEAN : WatchEvent(r, e, o))
    PROVE  LogInv'
  <1>1. PICK i : /\ conn.at = "ready" /\ conn.sub # None /\ ~(conn.sub.kind = "logs" /\ conn.sub.success)
                 /\ conn' = [conn EXCEPT !.sub.got = Append(@, i)]
    BY DEF RefusedChunk, WatchEvent, Live, Readable
  <1> DEFINE c == [conn.sub EXCEPT !.got = Append(@, i)]
  <1>2. DOMAIN conn = ReadyFields /\ DOMAIN conn.sub = StreamFields
    BY <1>1 DEF IInv, ConnOK
  <1>3. conn' = [conn EXCEPT !.sub = c]
    BY <1>1, <1>2 DEF ReadyFields, StreamFields
  <1>4. c.kind = conn.sub.kind /\ c.success = conn.sub.success
    BY <1>2 DEF StreamFields
  <1> HIDE DEF c
  <1>5. QED
    BY <1>1, <1>2, <1>3, <1>4, StreamLeft

\* Every step keeps what is known of the log's entries.
LEMMA LogInvStep ==
    ASSUME IInv, LogInv, [Next]_vars
    PROVE  LogInv'
  <1>1. CASE UNCHANGED conn
    BY <1>1 DEF LogInv, LogStream
  <1>2. CASE conn'.at = "ready" => conn'.sub = None
    BY <1>2 DEF LogInv, LogStream
  <1>3. ASSUME Start \/ Crash \/ WsClose \/ Tick \/ Rotate \/ PodWrites \/ \E aud \in BOOLEAN : LogIn(aud)
        PROVE  LogInv'
    BY <1>1, <1>2, <1>3 DEF Start, Crash, WsClose, Tick, Rotate, PodWrites, LogIn, NoConn
  <1>4. ASSUME NEW t \in Presented, NEW d \in Documents, HttpRequest(t, d)
        PROVE  LogInv'
    <2>1. conn'.at = "answered"
      BY <1>4 DEF HttpRequest
    <2>2. QED
      BY <1>2, <2>1
  <1>5. ASSUME NEW p \in BOOLEAN, NEW t \in Presented, WsUpgrade(p, t)
        PROVE  LogInv'
    <2>1. conn'.at # "ready"
      BY <1>5 DEF WsUpgrade, NoConn
    <2>2. QED
      BY <1>2, <2>1
  <1>6. ASSUME NEW t \in Presented, WsConnectionInit(t)
        PROVE  LogInv'
    <2>1. conn'.at = "refused" \/ conn'.sub = None
      BY <1>6 DEF WsConnectionInit
    <2>2. QED
      BY <1>2, <2>1
  <1>7. CASE UNCHANGED vars
    BY <1>1, <1>7 DEF vars
  <1>8. QED
    BY <1>3, <1>4, <1>5, <1>6, <1>7, SubscribeIntact, LogChunkIntact, LogLineIntact, LogBreaksIntact,
       StreamEndsIntact, OthersIntact DEF Next, Streams

\* logs: from_utf8_lossy and text.lines() of each chunk, serde_json and trim of each
\* line.  However the chunks cut the body, a line none of them ended in is one entry
\* and whole, entries keep the order of the body, and of the other lines nothing is
\* missing but characters that were cut, blanks, and pieces taken for responses
\* without a result.
THEOREM LogIntactHolds == Spec => []LogIntact
  <1>1. Init => LogInv
    BY DEF Init, NoConn, LogInv, LogStream
  <1>2. IInv /\ LogInv /\ [Next]_vars => LogInv'
    BY LogInvStep
  <1>3. LogInv => LogIntact
    BY DEF LogInv, LogStream, LogOK, Whole, OneEntry, Ordered, Covered, LogIntact
  <1>4. QED
    BY Invariant, <1>1, <1>2, <1>3, PTL DEF Spec
=============================================================================

---------------------------- MODULE SingleFlight ----------------------------
(***************************************************************************)
(* What get_or_refresh_token promises its callers, without database,       *)
(* provider, locks or cleaner: a call is answered with a cached token that *)
(* outlives the grace period, or becomes the one call that refreshes the   *)
(* token of its subject; only that call can fail, and only its answer puts *)
(* a token into the cache.  The promise of being the only one is given up  *)
(* for the subjects in "broken".                                           *)
(***************************************************************************)
EXTENDS Naturals

CONSTANTS Subjects, Calls, Grace, None

VARIABLES
    now,     \* the clock
    cache,   \* cache[s]: a token, with the subject it was issued to, or None
    at,      \* at[c]: idle, waiting, refreshing, ok or err
    asked,   \* asked[c]: the subject of a call in progress, or None
    broken   \* subjects with a lock that was discarded while in use

vars == <<now, cache, at, asked, broken>>

Good(s) == cache[s] # None /\ cache[s].exp > now + Grace

InProgress(c) == at[c] \in {"waiting", "refreshing"}

Ends(c, how) ==
    /\ at' = [at EXCEPT ![c] = how]
    /\ asked' = [asked EXCEPT ![c] = None]

Ask(c, s) ==
    /\ ~InProgress(c)
    /\ at' = [at EXCEPT ![c] = "waiting"]
    /\ asked' = [asked EXCEPT ![c] = s]
    /\ UNCHANGED <<now, cache, broken>>

Serve(c) ==
    /\ at[c] = "waiting" /\ Good(asked[c])
    /\ Ends(c, "ok")
    /\ UNCHANGED <<now, cache, broken>>

Begin(c) ==
    /\ at[c] = "waiting" /\ ~Good(asked[c])
    /\ asked[c] \in broken \/ \A d \in Calls : at[d] = "refreshing" => asked[d] # asked[c]
    /\ at' = [at EXCEPT ![c] = "refreshing"]
    /\ UNCHANGED <<now, cache, asked, broken>>

Finish(c) ==
    /\ at[c] = "refreshing"
    /\ cache'[asked[c]] # None /\ cache'[asked[c]].sub = asked[c]
    /\ cache' = [cache EXCEPT ![asked[c]] = cache'[asked[c]]]
    /\ Ends(c, "ok")
    /\ UNCHANGED <<now, broken>>

Fail(c) ==
    /\ at[c] = "refreshing"
    /\ Ends(c, "err")
    /\ UNCHANGED <<now, cache, broken>>

Leave(c) ==
    /\ InProgress(c)
    /\ Ends(c, "idle")
    /\ UNCHANGED <<now, cache, broken>>

Forget(s) ==
    /\ cache' = [cache EXCEPT ![s] = None]
    /\ UNCHANGED <<now, at, asked, broken>>

Pass == now' = now + 1 /\ UNCHANGED <<cache, at, asked, broken>>

Break(s) ==
    /\ \E c \in Calls : InProgress(c) /\ asked[c] = s
    /\ broken' = broken \cup {s}
    /\ UNCHANGED <<now, cache, at, asked>>

Init ==
    /\ now = 0
    /\ cache = [s \in Subjects |-> None]
    /\ at = [c \in Calls |-> "idle"]
    /\ asked = [c \in Calls |-> None]
    /\ broken = {}

Next ==
    \/ \E c \in Calls : Serve(c) \/ Begin(c) \/ Finish(c) \/ Fail(c) \/ Leave(c)
    \/ \E c \in Calls, s \in Subjects : Ask(c, s)
    \/ \E s \in Subjects : Forget(s) \/ Break(s)
    \/ Pass

Spec == Init /\ [][Next]_vars
=============================================================================

---------------------------- MODULE StompEvents -----------------------------
(***************************************************************************)
(* The STOMP event source of charts/events (generic-servers/               *)
(* stomp-server.py): a listener thread that remembers the "start" message  *)
(* of every run, merges it into the run's "stop" message and queues events *)
(* for the thread that serves StartEventSource.                            *)
(*                                                                         *)
(* ExpiringDict (external) is an ordered dictionary that makes room by     *)
(* forgetting its oldest key; an existing key keeps its place unless the   *)
(* dictionary is full.  Only its tests and look-ups compare ages: pop      *)
(* returns a value however old it is.  Messages of other types are only    *)
(* logged, and left out.                                                   *)
(***************************************************************************)
EXTENDS Integers, Sequences, SequencesExt

CONSTANTS
    Uids,         \* uids of runs (the field "uid" of start, "run_start" of stop)
    None,         \* a missing field, no value
    MaxLen,       \* capacity of the dictionary (100 in the code)
    Pauses,       \* seconds that may pass between two messages
    MaxMessages   \* bound: messages of the broker

ASSUME BoundsNat == MaxLen \in Nat \ {0} /\ MaxMessages \in Nat /\ Pauses \subseteq Nat
ASSUME NoneIsNoUid == None \notin Uids /\ None \notin [secs: Nat, others: Nat, late: BOOLEAN]

VARIABLES
    start_messages,  \* the dictionary, oldest key first: uid and age
    q,               \* events queued by the listener
    yielded,         \* events the servicer has yielded
    connected,       \* the STOMP connection is up
    paused,          \* time has passed since the last message
    received,        \* history: start and stop messages, in order of arrival
    since            \* history: since[u] is None, or what happened since run u's
                     \* first start that no stop has taken: the seconds since its
                     \* last one, other starts, and whether one of those was late

vars == <<start_messages, q, yielded, connected, paused, received, since>>

\* Exclusive or, bit by bit: Python's ^ on natural numbers.
Xor[a \in Nat, b \in Nat] ==
    IF a = 0 /\ b = 0 THEN 0 ELSE ((a + b) % 2) + 2 * Xor[a \div 2, b \div 2]

\* ExpiringDict(100, 60^2 * 24): ^ binds weaker than *.
ExpirySeconds == Xor[60, 2 * 24]

\* It is a number (12): no parameter is involved, TLC computes it.
ASSUME ExpiryNat == ExpirySeconds \in Nat

\* Ages past the limit are all alike.
Older(a, d) == IF a + d > ExpirySeconds THEN ExpirySeconds ELSE a + d
Expired(age) == age >= ExpirySeconds

\* An event: the message it came from, and whether a start is merged into it.
Event(m, merged) == [msg |-> m, merged |-> merged]

(***************************************************************************)
(* ExpiringDict (external).                                                *)
(***************************************************************************)

Place(d, u) == SelectInSeq(d, LAMBDA e : e.uid = u)

\* Mutants: get in place of pop; pop of the oldest entry.
NotPopped(d, u) == d
OldestPopped(d, u) == IF d = <<>> THEN d ELSE Tail(d)

\* d.pop(u, None): the entry goes and is returned, however old.
Popped(d, u) == IF Place(d, u) = 0 THEN d ELSE RemoveAt(d, Place(d, u))
Found(d, u) == Place(d, u) # 0

WithoutOldest(d) == IF d = <<>> THEN d ELSE Tail(d)

\* d[u] = message.  A full dictionary makes room: by u's own entry, if "u in d" finds
\* one that is young enough; if it is too old the test itself deletes it, and then, as
\* if u had not been there, the oldest entry goes too.
Assigned(d, u) ==
    LET e == [uid |-> u, age |-> 0]
        i == Place(d, u)
    IN CASE Len(d) < MaxLen /\ i # 0 -> ReplaceAt(d, i, e)
         [] Len(d) < MaxLen /\ i = 0 -> Append(d, e)
         [] Len(d) = MaxLen /\ i # 0 /\ ~Expired(d[i].age) -> Append(Popped(d, u), e)
         [] OTHER -> Append(WithoutOldest(Popped(d, u)), e)

(***************************************************************************)
(* _StompListener.                                                         *)
(***************************************************************************)

CanReceive == connected /\ Len(received) < MaxMessages

\* A start of u sets u's clock to zero; if an earlier start still waits for its
\* stop, the other starts since that one go on counting.  To the other runs it is a
\* late one if that earlier start is past the age limit.
Restarted(u) ==
    [v \in Uids |->
        IF v = u THEN IF since[v] = None THEN [secs |-> 0, others |-> 0, late |-> FALSE]
                      ELSE [secs |-> 0, others |-> since[v].others, late |-> since[v].late]
        ELSE IF since[v] = None THEN None
        ELSE [secs |-> since[v].secs, others |-> since[v].others + 1,
              late |-> since[v].late \/ (since[u] # None /\ Expired(since[u].secs))]]

\* on_message, "start": _add_start_message, then the message is queued as it is.
OnStart(u) ==
    /\ CanReceive
    /\ LET m == [name |-> "start", uid |-> u] IN
         /\ q' = Append(q, Event(m, FALSE))
         /\ received' = Append(received, m)
    /\ IF u = None THEN UNCHANGED <<start_messages, since>>
       ELSE /\ start_messages' = Assigned(start_messages, u)
            /\ since' = Restarted(u)
    /\ paused' = FALSE
    /\ UNCHANGED <<yielded, connected>>

\* Mutant: a stop without its start is dropped.
OnlyMerged(queue, m, merged) == IF merged THEN Append(queue, Event(m, TRUE)) ELSE queue

\* The merged message, or the stop message as it came, is queued.
Queued(queue, m, merged) == Append(queue, Event(m, merged))

\* on_message, "stop": _merge_stop_with_start.
OnStop(u) ==
    /\ CanReceive
    /\ LET m == [name |-> "stop", uid |-> u] IN
         /\ q' = Queued(q, m, u # None /\ Found(start_messages, u))
         /\ received' = Append(received, m)
    /\ IF u = None THEN UNCHANGED <<start_messages, since>>
       ELSE /\ start_messages' = Popped(start_messages, u)
            /\ since' = [since EXCEPT ![u] = None]
    /\ paused' = FALSE
    /\ UNCHANGED <<yielded, connected>>

\* Time passes.
Pause(d) ==
    /\ CanReceive
    /\ ~paused
    /\ paused' = TRUE
    /\ start_messages' = [i \in DOMAIN start_messages |->
         [uid |-> start_messages[i].uid, age |-> Older(start_messages[i].age, d)]]
    /\ since' = [u \in Uids |-> IF since[u] = None THEN None
         ELSE [secs |-> Older(since[u].secs, d), others |-> since[u].others, late |-> since[u].late]]
    /\ UNCHANGED <<q, yielded, connected, received>>

\* on_disconnected only logs: nothing connects again.
OnDisconnected ==
    /\ connected
    /\ connected' = FALSE
    /\ UNCHANGED <<start_messages, q, yielded, paused, received, since>>

\* StartEventSource: the servicer takes the next event; it waits on when empty.
Yield ==
    /\ q # <<>>
    /\ q' = Tail(q)
    /\ yielded' = Append(yielded, Head(q))
    /\ UNCHANGED <<start_messages, connected, paused, received, since>>

Init ==
    /\ start_messages = <<>>
    /\ q = <<>> /\ yielded = <<>> /\ received = <<>>
    /\ connected = TRUE /\ paused = FALSE
    /\ since = [u \in Uids |-> None]

Next ==
    \/ \E u \in Uids \cup {None} : OnStart(u) \/ OnStop(u)
    \/ \E d \in Pauses : Pause(d)
    \/ OnDisconnected
    \/ Yield

Spec == Init /\ [][Next]_vars

(***************************************************************************)
(* Properties.                                                             *)
(***************************************************************************)

Events == yielded \o q

\* No message is lost, repeated or overtaken between the broker and the event
\* bus, merged or not.
InOrder ==
    /\ Len(Events) = Len(received)
    /\ \A i \in DOMAIN received : Events[i].msg = received[i]

\* A start is merged into one stop only, and only into a stop of its own run
\* that came after it, however starts and stops are redelivered.
MergedOnce ==
    \A i, k \in DOMAIN Events :
        /\ i <= k /\ Events[i].merged /\ Events[k].merged
        /\ Events[i].msg.uid = Events[k].msg.uid
        => \E j \in 1..k-1 :
              Events[j].msg = [name |-> "start", uid |-> Events[k].msg.uid] /\ (i < k => i < j)

\* The stop of u that arrives carries u's start.
StopMerged(u) == received' = Append(received, [name |-> "stop", uid |-> u]) => Last(q').merged

\* How many other starts a run's entry survives: a late one makes room twice.
Room(u) == IF since[u].late THEN MaxLen - 1 ELSE MaxLen

\* A run's stop carries its start, however late the stop comes and whatever is
\* redelivered, as long as fewer other starts than the dictionary holds came in
\* between (one fewer, if one of these was of a run whose earlier start was past the
\* age limit of ExpirySeconds when the dictionary was full).
RecentStartFound ==
    [][\A u \in Uids : since[u] # None /\ since[u].others < Room(u) => StopMerged(u)]_vars
=============================================================================

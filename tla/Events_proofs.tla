--------------------------- MODULE Events_proofs ----------------------------
(***************************************************************************)
(* Safety of the event source for any runs, any capacity of the dictionary *)
(* and any pauses; and of the way to a workflow, for any triggers.         *)
(*                                                                         *)
(* Two facts about the dictionary carry the proof.  A uid is in it once,   *)
(* and while it is there a start of that run has come since the last stop  *)
(* that took one (Waiting); so no start is merged twice.  And while fewer  *)
(* other starts than Room have come since a run's start, its entry is at   *)
(* most that far from the young end (Recent): making room cannot have      *)
(* reached it, whatever the age of the entry.                              *)
(***************************************************************************)
EXTENDS Events, SequenceTheorems, TLAPS

Message == [name: {"start", "stop"}, uid: Uids \cup {None}]
BusEvent == [msg: Message, merged: BOOLEAN]
Entry == [uid: Uids, age: Nat]
Elapsed == [secs: Nat, others: Nat, late: BOOLEAN]

SourceOK ==
    /\ start_messages \in Seq(Entry) /\ Len(start_messages) <= MaxLen
    /\ q \in Seq(BusEvent) /\ yielded \in Seq(BusEvent) /\ received \in Seq(Message)
    /\ since \in [Uids -> Elapsed \cup {None}]

\* A uid has one place in the dictionary d.
Once(d) == \A i, k \in 1..Len(d) : d[i].uid = d[k].uid => i = k

\* A start of u came since the last stop of u that took one.
Waiting(u) ==
    \E j \in 1..Len(Events) :
        /\ Events[j].msg = [name |-> "start", uid |-> u]
        /\ \A k \in 1..Len(Events) : Events[k].merged /\ Events[k].msg.uid = u => k < j

\* since goes with an entry of the dictionary.
Dated(e) == since[e.uid] # None /\ since[e.uid].secs = e.age

Remembered == \A i \in 1..Len(start_messages) : Waiting(start_messages[i].uid) /\ Dated(start_messages[i])

\* The entry of u is young: at most n are younger.
Young(d, u, age, n) == \E i \in 1..Len(d) : d[i].uid = u /\ d[i].age = age /\ Len(d) - i <= n

\* The dictionary holds an entry of u that is past the age limit.
Stale(d, u) == \E i \in 1..Len(d) : d[i].uid = u /\ Expired(d[i].age)

\* An entry with at most n younger ones survives a start of u.
Safe(d, u, n) == n + 1 < MaxLen /\ (Stale(d, u) => n + 2 < MaxLen)

Recent ==
    \A u \in Uids : since[u] # None /\ since[u].others < Room(u) =>
        Young(start_messages, u, since[u].secs, since[u].others)

DictInv == Once(start_messages) /\ Remembered /\ Recent
SourceInv == SourceOK /\ DictInv /\ InOrder /\ MergedOnce

-----------------------------------------------------------------------------

(***************************************************************************)
(* The dictionary.                                                         *)
(***************************************************************************)

\* Place finds the entry of u, if there is one.
LEMMA PlaceIs ==
    ASSUME NEW d \in Seq(Entry), Once(d), NEW u
    PROVE  /\ Place(d, u) \in 0..Len(d)
           /\ Place(d, u) = 0 => \A i \in 1..Len(d) : d[i].uid # u
           /\ Place(d, u) # 0 => d[Place(d, u)].uid = u
  <1> DEFINE I == {i \in 1..Len(d) : d[i].uid = u}
  <1>1. Place(d, u) = IF I # {} THEN Min(I) ELSE 0
    BY DEF Place, SelectInSeq
  <1>2. Len(d) \in Nat
    OBVIOUS
  <1>3. CASE I = {}
    BY <1>1, <1>2, <1>3
  <1>4. CASE I # {}
    <2>1. PICK i \in 1..Len(d) : d[i].uid = u
      BY <1>4
    <2>2. I = {i}
      BY <2>1 DEF Once
    <2>3. Min(I) = i
      BY <1>2, <2>2 DEF Min
    <2> QED
      BY <1>1, <1>2, <1>4, <2>1, <2>3
  <1> QED
    BY <1>3, <1>4

\* RemoveAt closes the gap.
LEMMA RemoveAtIs ==
    ASSUME NEW d \in Seq(Entry), NEW i \in 1..Len(d)
    PROVE  /\ RemoveAt(d, i) \in Seq(Entry)
           /\ Len(RemoveAt(d, i)) = Len(d) - 1
           /\ \A k \in 1..(Len(d) - 1) : RemoveAt(d, i)[k] = IF k < i THEN d[k] ELSE d[k + 1]
  <1> DEFINE a == SubSeq(d, 1, i - 1)
             b == SubSeq(d, i + 1, Len(d))
  <1>0. Len(d) \in Nat /\ i \in Nat /\ \A k \in 1..Len(d) : d[k] \in Entry
    BY ElementOfSeq
  <1>1. /\ a \in Seq(Entry) /\ Len(a) = i - 1
        /\ \A k \in 1..(i - 1) : a[k] = d[k]
    <2>1. \A k \in 1..(i - 1) : d[k] \in Entry
      BY <1>0
    <2>2. Len(a) = IF 1 <= i - 1 THEN i - 1 - 1 + 1 ELSE 0
      BY <1>0, <2>1, SubSeqProperties
    <2> QED
      BY <1>0, <2>1, <2>2, SubSeqProperties
  <1>2. /\ b \in Seq(Entry) /\ Len(b) = Len(d) - i
        /\ \A k \in 1..(Len(d) - i) : b[k] = d[i + k]
    <2>1. \A k \in (i + 1)..Len(d) : d[k] \in Entry
      BY <1>0
    <2>2. Len(b) = IF i + 1 <= Len(d) THEN Len(d) - (i + 1) + 1 ELSE 0
      BY <1>0, <2>1, SubSeqProperties
    <2> QED
      BY <1>0, <2>1, <2>2, SubSeqProperties
  <1> HIDE DEF a, b
  <1>3. RemoveAt(d, i) = a \o b
    BY DEF RemoveAt, a, b
  <1>4. /\ a \o b \in Seq(Entry) /\ Len(a \o b) = Len(a) + Len(b)
        /\ \A k \in 1..(Len(a) + Len(b)) : (a \o b)[k] = IF k <= Len(a) THEN a[k] ELSE b[k - Len(a)]
    BY <1>1, <1>2, ConcatProperties
  <1>5. Len(a) + Len(b) = Len(d) - 1
    BY <1>0, <1>1, <1>2
  <1>6. ASSUME NEW k \in 1..(Len(d) - 1) PROVE (a \o b)[k] = IF k < i THEN d[k] ELSE d[k + 1]
    <2>1. (a \o b)[k] = IF k <= i - 1 THEN a[k] ELSE b[k - (i - 1)]
      BY <1>1, <1>4, <1>5
    <2>2. CASE k < i
      BY <1>0, <1>1, <2>1, <2>2
    <2>3. CASE i <= k
      <3>1. k - (i - 1) \in 1..(Len(d) - i) /\ i + (k - (i - 1)) = k + 1
        BY <1>0, <2>3
      <3> QED
        BY <1>0, <1>2, <2>1, <2>3, <3>1
    <2>4. k < i \/ i <= k
      BY <1>0
    <2> QED
      BY <2>2, <2>3, <2>4
  <1> QED
    BY <1>3, <1>4, <1>5, <1>6

\* What d.pop(u, None) leaves: the others, in their order.
LEMMA PoppedIs ==
    ASSUME NEW d \in Seq(Entry), Once(d), NEW u
    PROVE  /\ Popped(d, u) \in Seq(Entry) /\ Len(Popped(d, u)) <= Len(d) /\ Once(Popped(d, u))
           /\ \A j \in 1..Len(Popped(d, u)) : Popped(d, u)[j].uid # u /\ \E k \in 1..Len(d) : Popped(d, u)[j] = d[k]
           /\ \A v, age, n : v # u /\ n \in Nat /\ Young(d, v, age, n) => Young(Popped(d, u), v, age, n)
  <1> DEFINE i == Place(d, u)
             r == Popped(d, u)
  <1>0. Len(d) \in Nat /\ i \in 0..Len(d)
    BY PlaceIs
  <1>1. CASE i = 0
    <2>1. r = d /\ \A k \in 1..Len(d) : d[k].uid # u
      BY <1>1, PlaceIs DEF Popped
    <2> QED
      BY <2>1
  <1>2. CASE i # 0
    <2>1. i \in 1..Len(d) /\ d[i].uid = u /\ r = RemoveAt(d, i)
      BY <1>0, <1>2, PlaceIs DEF Popped
    <2>2. /\ r \in Seq(Entry) /\ Len(r) = Len(d) - 1
          /\ \A k \in 1..(Len(d) - 1) : r[k] = IF k < i THEN d[k] ELSE d[k + 1]
      BY <2>1, RemoveAtIs
    <2> HIDE DEF i, r
    <2>3. Once(r)
      <3> SUFFICES ASSUME NEW j \in 1..Len(r), NEW k \in 1..Len(r), r[j].uid = r[k].uid PROVE j = k
        BY DEF Once
      <3> DEFINE old(x) == IF x < i THEN x ELSE x + 1
      <3>1. old(j) \in 1..Len(d) /\ old(k) \in 1..Len(d) /\ r[j] = d[old(j)] /\ r[k] = d[old(k)]
        BY <1>0, <2>1, <2>2
      <3>2. old(j) = old(k)
        BY <3>1 DEF Once
      <3> QED
        BY <1>0, <2>1, <2>2, <3>2
    <2>4. \A j \in 1..Len(r) : r[j].uid # u /\ \E k \in 1..Len(d) : r[j] = d[k]
      BY <1>0, <2>1, <2>2 DEF Once
    <2>5. ASSUME NEW v, NEW age, NEW n \in Nat, v # u, Young(d, v, age, n) PROVE Young(r, v, age, n)
      <3>1. PICK k \in 1..Len(d) : d[k].uid = v /\ d[k].age = age /\ Len(d) - k <= n
        BY <2>5 DEF Young
      <3>2. CASE k < i
        <4>1. k \in 1..Len(r) /\ r[k] = d[k] /\ Len(r) - k <= n
          BY <1>0, <2>1, <2>2, <3>1, <3>2
        <4> QED
          BY <3>1, <4>1 DEF Young
      <3>3. CASE i < k
        <4>1. k - 1 \in 1..Len(r) /\ r[k - 1] = d[k] /\ Len(r) - (k - 1) <= n
          BY <1>0, <2>1, <2>2, <3>1, <3>3
        <4> QED
          BY <3>1, <4>1 DEF Young
      <3>4. k # i
        BY <2>1, <2>5, <3>1
      <3> QED
        BY <1>0, <3>2, <3>3, <3>4
    <2> QED
      BY <1>0, <2>2, <2>3, <2>4, <2>5 DEF r
  <1> QED
    BY <1>1, <1>2
\* A new entry at the young end.
LEMMA AppendedIs ==
    ASSUME NEW m \in Seq(Entry), Once(m), NEW u \in Uids, \A j \in 1..Len(m) : m[j].uid # u,
           NEW e \in Entry, e.uid = u, e.age = 0
    PROVE  LET r == Append(m, e) IN
           /\ r \in Seq(Entry) /\ Len(r) = Len(m) + 1 /\ Once(r)
           /\ \A j \in 1..Len(r) : r[j].uid = u \/ \E k \in 1..Len(m) : r[j] = m[k]
           /\ \A n \in Nat : Young(r, u, 0, n)
           /\ \A v, age : \A n \in Nat : Young(m, v, age, n) => Young(r, v, age, n + 1)
  <1> DEFINE r == Append(m, e)
  <1>1. /\ r \in Seq(Entry) /\ Len(r) = Len(m) + 1 /\ Len(m) \in Nat
        /\ \A j \in 1..Len(m) : r[j] = m[j]
        /\ r[Len(m) + 1] = e
    BY AppendProperties
  <1> HIDE DEF r
  <1>2. Once(r)
    BY <1>1 DEF Once
  <1>3. \A j \in 1..Len(r) : r[j].uid = u \/ \E k \in 1..Len(m) : r[j] = m[k]
    BY <1>1
  <1>4. ASSUME NEW n \in Nat PROVE Young(r, u, 0, n)
    <2>1. Len(r) \in 1..Len(r) /\ r[Len(r)] = e /\ Len(r) - Len(r) <= n
      BY <1>1
    <2> QED
      BY <2>1 DEF Young
  <1>5. ASSUME NEW v, NEW age, NEW n \in Nat, Young(m, v, age, n) PROVE Young(r, v, age, n + 1)
    <2>1. PICK k \in 1..Len(m) : m[k].uid = v /\ m[k].age = age /\ Len(m) - k <= n
      BY <1>5 DEF Young
    <2>2. k \in 1..Len(r) /\ r[k] = m[k] /\ Len(r) - k <= n + 1
      BY <1>1, <2>1
    <2> QED
      BY <2>1, <2>2 DEF Young
  <1> QED
    BY <1>1, <1>2, <1>3, <1>4, <1>5 DEF r

\* Making room: the oldest entry goes.
LEMMA TailIs ==
    ASSUME NEW d \in Seq(Entry), Once(d), d # <<>>
    PROVE  /\ Tail(d) \in Seq(Entry) /\ Len(Tail(d)) = Len(d) - 1 /\ Once(Tail(d))
           /\ \A j \in 1..Len(Tail(d)) : \E k \in 1..Len(d) : Tail(d)[j] = d[k]
           /\ \A v, age : \A n \in Nat : n + 1 < Len(d) /\ Young(d, v, age, n) => Young(Tail(d), v, age, n)
  <1> DEFINE r == Tail(d)
  <1>1. /\ r \in Seq(Entry) /\ Len(r) = Len(d) - 1 /\ Len(d) \in Nat
        /\ \A j \in 1..Len(r) : r[j] = d[j + 1]
    BY HeadTailProperties
  <1> HIDE DEF r
  <1>2. Once(r)
    BY <1>1 DEF Once
  <1>3. \A j \in 1..Len(r) : j + 1 \in 1..Len(d)
    BY <1>1
  <1>4. ASSUME NEW v, NEW age, NEW n \in Nat, n + 1 < Len(d), Young(d, v, age, n) PROVE Young(r, v, age, n)
    <2>1. PICK k \in 1..Len(d) : d[k].uid = v /\ d[k].age = age /\ Len(d) - k <= n
      BY <1>4 DEF Young
    <2>2. k - 1 \in 1..Len(r) /\ r[k - 1] = d[k] /\ Len(r) - (k - 1) <= n
      BY <1>1, <1>4, <2>1
    <2> QED
      BY <2>1, <2>2 DEF Young
  <1> QED
    BY <1>1, <1>2, <1>3, <1>4 DEF r

\* What d[u] = message leaves.  u's entry is new and no older than it was; the others
\* keep their order, with at most one more that is younger; and the oldest goes only
\* if the dictionary is full, as does the next one if u's entry was stale.
LEMMA AssignedIs ==
    ASSUME NEW d \in Seq(Entry), Len(d) <= MaxLen, Once(d), NEW u \in Uids
    PROVE  LET r == Assigned(d, u) IN
           /\ r \in Seq(Entry) /\ Len(r) <= MaxLen /\ Once(r)
           /\ \A j \in 1..Len(r) : r[j].uid = u \/ \E k \in 1..Len(d) : r[j] = d[k]
           /\ \A n \in Nat : (\A k \in 1..Len(d) : d[k].uid = u => Len(d) - k <= n) => Young(r, u, 0, n)
           /\ \A v, age : \A n \in Nat : v # u /\ Safe(d, u, n) /\ Young(d, v, age, n) => Young(r, v, age, n + 1)
  <1> DEFINE e == [uid |-> u, age |-> 0]
             i == Place(d, u)
             r == Assigned(d, u)
             Goal == /\ r \in Seq(Entry) /\ Len(r) <= MaxLen /\ Once(r)
                     /\ \A j \in 1..Len(r) : r[j].uid = u \/ \E k \in 1..Len(d) : r[j] = d[k]
                     /\ \A n \in Nat : (\A k \in 1..Len(d) : d[k].uid = u => Len(d) - k <= n) => Young(r, u, 0, n)
                     /\ \A v, age : \A n \in Nat : v # u /\ Safe(d, u, n) /\ Young(d, v, age, n) => Young(r, v, age, n + 1)
  <1>0. /\ Len(d) \in Nat /\ i \in 0..Len(d) /\ MaxLen \in Nat \ {0}
        /\ i = 0 => \A k \in 1..Len(d) : d[k].uid # u
        /\ i # 0 => d[i].uid = u
    BY PlaceIs, BoundsNat
  <1>a. e \in Entry /\ e.uid = u /\ e.age = 0
    BY DEF Entry
  <1>b. \A k \in 1..Len(d) : d[k] \in Entry
    BY ElementOfSeq
  <1> SUFFICES Goal
    OBVIOUS
  <1> HIDE DEF e, Goal
  <1>1. CASE i # 0 /\ Len(d) < MaxLen
    <2>1. r = [d EXCEPT ![i] = e]
      BY <1>0, <1>1 DEF Assigned, ReplaceAt, e
    <2>2. /\ r \in Seq(Entry) /\ Len(r) = Len(d)
          /\ \A j \in 1..Len(d) : r[j] = IF j = i THEN e ELSE d[j]
      BY <1>0, <1>a, <1>1, <2>1, ExceptSeq
    <2> HIDE DEF i, r
    <2>3. Once(r)
      BY <1>0, <1>a, <1>1, <2>2 DEF Once
    <2>4. \A j \in 1..Len(r) : r[j].uid = u \/ \E k \in 1..Len(d) : r[j] = d[k]
      BY <1>a, <2>2
    <2>5. ASSUME NEW n \in Nat, \A k \in 1..Len(d) : d[k].uid = u => Len(d) - k <= n PROVE Young(r, u, 0, n)
      <3>1. i \in 1..Len(r) /\ r[i] = e /\ Len(r) - i <= n
        BY <1>0, <1>1, <2>2, <2>5
      <3> QED
        BY <1>a, <3>1 DEF Young
    <2>6. ASSUME NEW v, NEW age, NEW n \in Nat, v # u, Young(d, v, age, n) PROVE Young(r, v, age, n + 1)
      <3>1. PICK k \in 1..Len(d) : d[k].uid = v /\ d[k].age = age /\ Len(d) - k <= n
        BY <2>6 DEF Young
      <3>2. k \in 1..Len(r) /\ r[k] = d[k] /\ Len(r) - k <= n + 1
        BY <1>0, <1>1, <2>2, <2>6, <3>1
      <3> QED
        BY <3>1, <3>2 DEF Young
    <2> QED
      BY <1>0, <2>2, <2>3, <2>4, <2>5, <2>6 DEF Goal
  <1>2. ASSUME NEW m \in Seq(Entry), r = Append(m, e), Once(m), Len(m) < MaxLen,
               \A j \in 1..Len(m) : m[j].uid # u /\ \E k \in 1..Len(d) : m[j] = d[k],
               \A v, age : \A n \in Nat : v # u /\ Safe(d, u, n) /\ Young(d, v, age, n) => Young(m, v, age, n)
        PROVE  Goal
    <2> HIDE DEF i, r
    <2>1. /\ r \in Seq(Entry) /\ Len(r) = Len(m) + 1 /\ Once(r)
          /\ \A j \in 1..Len(r) : r[j].uid = u \/ \E k \in 1..Len(m) : r[j] = m[k]
          /\ \A n \in Nat : Young(r, u, 0, n)
          /\ \A v, age : \A n \in Nat : Young(m, v, age, n) => Young(r, v, age, n + 1)
      BY <1>2, <1>a, AppendedIs
    <2>2. Len(m) \in Nat
      OBVIOUS
    <2>3. Len(r) <= MaxLen
      BY <1>0, <1>2, <2>1, <2>2
    <2>4. \A j \in 1..Len(r) : r[j].uid = u \/ \E k \in 1..Len(d) : r[j] = d[k]
      BY <1>2, <2>1
    <2> QED
      BY <1>2, <2>1, <2>3, <2>4 DEF Goal
  <1>3. CASE i # 0 /\ Len(d) = MaxLen
    <2>1. /\ ~Expired(d[i].age) => r = Append(RemoveAt(d, i), e)
          /\ Expired(d[i].age) => r = Append(WithoutOldest(RemoveAt(d, i)), e)
          /\ Popped(d, u) = RemoveAt(d, i)
      BY <1>0, <1>3 DEF Assigned, Popped, e
    <2>2. Len(RemoveAt(d, i)) = Len(d) - 1
      BY <1>0, <1>3, RemoveAtIs
    <2>3. /\ Popped(d, u) \in Seq(Entry) /\ Once(Popped(d, u))
          /\ \A j \in 1..Len(Popped(d, u)) : Popped(d, u)[j].uid # u /\ \E k \in 1..Len(d) : Popped(d, u)[j] = d[k]
          /\ \A v, age, n : v # u /\ n \in Nat /\ Young(d, v, age, n) => Young(Popped(d, u), v, age, n)
      BY PoppedIs
    <2>4. Len(Popped(d, u)) = MaxLen - 1
      BY <1>0, <1>3, <2>1, <2>2
    <2> DEFINE p == Popped(d, u)
    <2>5. Expired(d[i].age) => Stale(d, u)
      BY <1>0, <1>3 DEF Stale
    <2>9. /\ p \in Seq(Entry) /\ Once(p) /\ Len(p) < MaxLen
          /\ \A j \in 1..Len(p) : p[j].uid # u /\ \E k \in 1..Len(d) : p[j] = d[k]
          /\ \A v, age : \A n \in Nat : v # u /\ Safe(d, u, n) /\ Young(d, v, age, n) => Young(p, v, age, n)
      <3>1. Len(p) < MaxLen
        BY <1>0, <2>4
      <3> QED
        BY <2>3, <3>1
    <2>10. ~Expired(d[i].age) => r = Append(p, e)
      BY <2>1
    <2> HIDE DEF i, r, p
    <2>6. CASE ~Expired(d[i].age)
      BY <1>2, <2>6, <2>9, <2>10
    <2>7. CASE Expired(d[i].age) /\ p = <<>>
      <3>1. r = Append(p, e)
        BY <2>1, <2>7 DEF WithoutOldest, p
      <3> QED
        BY <1>2, <2>9, <3>1
    <2>8. CASE Expired(d[i].age) /\ p # <<>>
      <3>0. p \in Seq(Entry) /\ Once(p) /\ Len(p) = MaxLen - 1
        BY <2>3, <2>4 DEF p
      <3>1. r = Append(Tail(p), e)
        BY <2>1, <2>8 DEF WithoutOldest, p
      <3>2. /\ Tail(p) \in Seq(Entry) /\ Len(Tail(p)) = Len(p) - 1 /\ Once(Tail(p))
            /\ \A j \in 1..Len(Tail(p)) : \E k \in 1..Len(p) : Tail(p)[j] = p[k]
            /\ \A v, age : \A n \in Nat : n + 1 < Len(p) /\ Young(p, v, age, n) => Young(Tail(p), v, age, n)
        BY <2>8, <3>0, TailIs
      <3>3. Len(Tail(p)) < MaxLen
        BY <1>0, <3>0, <3>2
      <3>4. \A j \in 1..Len(Tail(p)) : Tail(p)[j].uid # u /\ \E k \in 1..Len(d) : Tail(p)[j] = d[k]
        BY <2>3, <3>2 DEF p
      <3>5. ASSUME NEW v, NEW age, NEW n \in Nat, v # u, Safe(d, u, n), Young(d, v, age, n)
            PROVE  Young(Tail(p), v, age, n)
        <4>1. n + 2 < MaxLen
          BY <2>5, <2>8, <3>5 DEF Safe
        <4>2. n + 1 < Len(p)
          BY <1>0, <3>0, <4>1
        <4>3. Young(p, v, age, n)
          BY <2>3, <3>5 DEF p
        <4> QED
          BY <3>2, <4>2, <4>3
      <3> QED
        BY <1>2, <3>1, <3>2, <3>3, <3>4, <3>5
    <2> QED
      BY <2>6, <2>7, <2>8
  <1>4. CASE i = 0 /\ Len(d) < MaxLen
    <2>1. r = Append(d, e)
      BY <1>0, <1>4 DEF Assigned, e
    <2> HIDE DEF r
    <2> QED
      BY <1>0, <1>2, <1>4, <2>1
  <1>5. CASE i = 0 /\ Len(d) = MaxLen
    <2>1. r = Append(Tail(d), e) /\ d # <<>>
      <3>1. d # <<>> /\ Popped(d, u) = d
        BY <1>0, <1>5 DEF Popped
      <3> QED
        BY <1>0, <1>5, <3>1 DEF Assigned, WithoutOldest, e
    <2>2. /\ Tail(d) \in Seq(Entry) /\ Len(Tail(d)) = Len(d) - 1 /\ Once(Tail(d))
          /\ \A j \in 1..Len(Tail(d)) : \E k \in 1..Len(d) : Tail(d)[j] = d[k]
          /\ \A v, age : \A n \in Nat : n + 1 < Len(d) /\ Young(d, v, age, n) => Young(Tail(d), v, age, n)
      BY <2>1, TailIs
    <2>3. Len(Tail(d)) < MaxLen
      BY <1>0, <1>5, <2>2
    <2>4. \A j \in 1..Len(Tail(d)) : Tail(d)[j].uid # u
      BY <1>0, <1>5, <2>2
    <2> HIDE DEF i, r
    <2>5. \A n : Safe(d, u, n) => n + 1 < Len(d)
      BY <1>5 DEF Safe
    <2> QED
      BY <1>2, <1>5, <2>1, <2>2, <2>3, <2>4, <2>5
  <1>6. (i = 0 \/ i # 0) /\ (Len(d) < MaxLen \/ Len(d) = MaxLen)
    BY <1>0
  <1> QED
    BY <1>1, <1>3, <1>4, <1>5, <1>6
(***************************************************************************)
(* The queue and the events.                                               *)
(***************************************************************************)

\* Queueing an event adds it to the events.
LEMMA EventsQueued ==
    ASSUME SourceOK, NEW e \in BusEvent, q' = Append(q, e), UNCHANGED yielded
    PROVE  /\ Events \in Seq(BusEvent) /\ Len(Events) \in Nat
           /\ Events' \in Seq(BusEvent) /\ Len(Events') = Len(Events) + 1
           /\ Events'[Len(Events) + 1] = e
           /\ \A i \in 1..Len(Events) : Events'[i] = Events[i]
           /\ Last(q') = e
  <1>1. /\ q \in Seq(BusEvent) /\ yielded \in Seq(BusEvent)
        /\ Len(q) \in Nat /\ Len(yielded) \in Nat
    BY DEF SourceOK
  <1>2. /\ q' \in Seq(BusEvent) /\ Len(q') = Len(q) + 1
        /\ \A i \in 1..Len(q) : q'[i] = q[i]
        /\ q'[Len(q) + 1] = e
    BY <1>1, AppendProperties
  <1>3. /\ Events \in Seq(BusEvent) /\ Len(Events) = Len(yielded) + Len(q)
        /\ \A i \in 1..(Len(yielded) + Len(q)) : Events[i] = IF i <= Len(yielded) THEN yielded[i] ELSE q[i - Len(yielded)]
    BY <1>1, ConcatProperties DEF Events
  <1>4. Events' = yielded \o q'
    BY DEF Events
  <1>5. /\ Events' \in Seq(BusEvent) /\ Len(Events') = Len(yielded) + Len(q')
        /\ \A i \in 1..(Len(yielded) + Len(q')) : Events'[i] = IF i <= Len(yielded) THEN yielded[i] ELSE q'[i - Len(yielded)]
    BY <1>1, <1>2, <1>4, ConcatProperties
  <1>6. Events'[Len(Events) + 1] = e
    <2>1. /\ Len(Events) + 1 \in 1..(Len(yielded) + Len(q')) /\ ~(Len(Events) + 1 <= Len(yielded))
          /\ Len(Events) + 1 - Len(yielded) = Len(q) + 1
      BY <1>1, <1>2, <1>3
    <2> QED
      BY <1>2, <1>5, <2>1
  <1>7. ASSUME NEW i \in 1..Len(Events) PROVE Events'[i] = Events[i]
    <2>1. i \in 1..(Len(yielded) + Len(q')) /\ i \in 1..(Len(yielded) + Len(q))
      BY <1>1, <1>2, <1>3
    <2>2. ~(i <= Len(yielded)) => q'[i - Len(yielded)] = q[i - Len(yielded)]
      BY <1>1, <1>2, <1>3
    <2> QED
      BY <1>3, <1>5, <2>1, <2>2
  <1>8. Last(q') = e
    BY <1>1, <1>2 DEF Last
  <1> QED
    BY <1>1, <1>2, <1>3, <1>5, <1>6, <1>7, <1>8

\* The servicer takes an event: the events are the same.
LEMMA EventsYielded ==
    ASSUME SourceOK, Yield
    PROVE  q' \in Seq(BusEvent) /\ yielded' \in Seq(BusEvent) /\ Events' = Events
  <1>1. /\ q \in Seq(BusEvent) /\ yielded \in Seq(BusEvent) /\ q # <<>>
        /\ Len(q) \in Nat /\ Len(yielded) \in Nat
    BY DEF SourceOK, Yield
  <1>2. q' = Tail(q) /\ yielded' = Append(yielded, Head(q))
    BY DEF Yield
  <1>3. q' \in Seq(BusEvent) /\ Head(q) \in BusEvent /\ <<Head(q)>> \in Seq(BusEvent)
    BY <1>1, <1>2, HeadTailProperties
  <1>4. yielded' = yielded \o <<Head(q)>> /\ yielded' \in Seq(BusEvent)
    BY <1>1, <1>2, <1>3, AppendIsConcat, AppendProperties
  <1>5. (yielded \o <<Head(q)>>) \o q' = yielded \o (<<Head(q)>> \o q')
    BY <1>1, <1>3, ConcatAssociative
  <1>6. <<Head(q)>> \o q' = q
    <2>1. /\ Len(<<Head(q)>>) = 1 /\ <<Head(q)>>[1] = q[1]
          /\ Len(q') = Len(q) - 1 /\ \A i \in 1..Len(q') : q'[i] = q[i + 1]
      BY <1>1, <1>2, HeadTailProperties
    <2>2. /\ <<Head(q)>> \o q' \in Seq(BusEvent) /\ Len(<<Head(q)>> \o q') = 1 + Len(q')
          /\ \A i \in 1..(1 + Len(q')) : (<<Head(q)>> \o q')[i] = IF i <= 1 THEN <<Head(q)>>[i] ELSE q'[i - 1]
      BY <1>3, <2>1, ConcatProperties
    <2>3. \A i \in 1..Len(q) : (<<Head(q)>> \o q')[i] = q[i]
      BY <1>1, <2>1, <2>2
    <2> QED
      <3>1. Len(<<Head(q)>> \o q') = Len(q)
        BY <1>1, <2>1, <2>2
      <3> QED
        BY <1>1, <2>2, <2>3, <3>1, SeqEqual
  <1> QED
    BY <1>3, <1>4, <1>5, <1>6 DEF Events

\* A message arrives and is queued with its event: the order is kept.
LEMMA OrderKept ==
    ASSUME SourceOK, InOrder, NEW e \in BusEvent, q' = Append(q, e), UNCHANGED yielded,
           received' = Append(received, e.msg)
    PROVE  InOrder' /\ q' \in Seq(BusEvent) /\ received' \in Seq(Message)
  <1>1. /\ Len(Events) \in Nat /\ Len(Events') = Len(Events) + 1
        /\ Events'[Len(Events) + 1] = e
        /\ \A i \in 1..Len(Events) : Events'[i] = Events[i]
    BY EventsQueued
  <1>2. e.msg \in Message /\ received \in Seq(Message) /\ q \in Seq(BusEvent)
    BY DEF BusEvent, SourceOK
  <1>3. /\ received' \in Seq(Message) /\ Len(received') = Len(received) + 1
        /\ \A i \in 1..Len(received) : received'[i] = received[i]
        /\ received'[Len(received) + 1] = e.msg
    BY <1>2, AppendProperties
  <1>4. q' \in Seq(BusEvent)
    BY <1>2, AppendProperties
  <1>5. DOMAIN received = 1..Len(received) /\ DOMAIN received' = 1..Len(received')
    BY <1>2, <1>3, LenProperties
  <1>6. /\ Len(Events) = Len(received)
        /\ \A i \in 1..Len(received) : Events[i].msg = received[i]
    BY <1>5 DEF InOrder
  <1>7. /\ Len(Events') = Len(received')
        /\ \A i \in 1..Len(received') : Events'[i].msg = received'[i]
    BY <1>1, <1>3, <1>6
  <1> QED
    BY <1>3, <1>4, <1>5, <1>7 DEF InOrder
\* What a new event does to the starts that wait for a stop.
LEMMA WaitingKept ==
    ASSUME SourceOK, NEW e \in BusEvent, q' = Append(q, e), UNCHANGED yielded, NEW u
    PROVE  /\ Waiting(u) /\ ~(e.merged /\ e.msg.uid = u) => Waiting(u)'
           /\ e.msg = [name |-> "start", uid |-> u] /\ ~e.merged => Waiting(u)'
  <1>1. /\ Len(Events) \in Nat /\ Len(Events') = Len(Events) + 1
        /\ Events'[Len(Events) + 1] = e
        /\ \A i \in 1..Len(Events) : Events'[i] = Events[i]
    BY EventsQueued
  <1>2. ASSUME Waiting(u), ~(e.merged /\ e.msg.uid = u) PROVE Waiting(u)'
    <2>1. PICK j \in 1..Len(Events) :
            /\ Events[j].msg = [name |-> "start", uid |-> u]
            /\ \A k \in 1..Len(Events) : Events[k].merged /\ Events[k].msg.uid = u => k < j
      BY <1>2 DEF Waiting
    <2>2. j \in 1..Len(Events') /\ Events'[j].msg = [name |-> "start", uid |-> u]
      BY <1>1, <2>1
    <2>3. ASSUME NEW k \in 1..Len(Events'), Events'[k].merged, Events'[k].msg.uid = u PROVE k < j
      <3>1. k # Len(Events) + 1
        BY <1>1, <1>2, <2>3
      <3>2. k \in 1..Len(Events) /\ Events'[k] = Events[k]
        BY <1>1, <3>1
      <3> QED
        BY <2>1, <2>3, <3>2
    <2> QED
      BY <2>2, <2>3 DEF Waiting
  <1>3. ASSUME e.msg = [name |-> "start", uid |-> u], ~e.merged PROVE Waiting(u)'
    <2>1. Len(Events') \in 1..Len(Events') /\ Events'[Len(Events')].msg = [name |-> "start", uid |-> u]
      BY <1>1, <1>3
    <2>2. \A k \in 1..Len(Events') : Events'[k].merged /\ Events'[k].msg.uid = u => k < Len(Events')
      BY <1>1, <1>3
    <2> QED
      BY <2>1, <2>2 DEF Waiting
  <1> QED
    BY <1>2, <1>3

\* A stop takes a start that waits for it: no start is taken twice.
LEMMA MergedKept ==
    ASSUME SourceOK, MergedOnce, NEW e \in BusEvent, q' = Append(q, e), UNCHANGED yielded,
           e.merged => Waiting(e.msg.uid)
    PROVE  MergedOnce'
  <1>1. /\ Len(Events) \in Nat /\ Len(Events') = Len(Events) + 1
        /\ Events'[Len(Events) + 1] = e
        /\ \A i \in 1..Len(Events) : Events'[i] = Events[i]
        /\ DOMAIN Events = 1..Len(Events) /\ DOMAIN Events' = 1..Len(Events')
    BY EventsQueued, LenProperties
  <1> SUFFICES ASSUME NEW i \in 1..Len(Events'), NEW k \in 1..Len(Events'), i <= k,
                      Events'[i].merged, Events'[k].merged, Events'[i].msg.uid = Events'[k].msg.uid
               PROVE  \E j \in 1..(k - 1) :
                        Events'[j].msg = [name |-> "start", uid |-> Events'[k].msg.uid] /\ (i < k => i < j)
    BY <1>1 DEF MergedOnce
  <1>2. CASE k <= Len(Events)
    <2>1. i \in 1..Len(Events) /\ k \in 1..Len(Events) /\ Events'[i] = Events[i] /\ Events'[k] = Events[k]
      BY <1>1, <1>2
    <2>2. PICK j \in 1..(k - 1) :
            Events[j].msg = [name |-> "start", uid |-> Events[k].msg.uid] /\ (i < k => i < j)
      BY <1>1, <2>1 DEF MergedOnce
    <2>3. Events'[j] = Events[j]
      BY <1>1, <2>1
    <2> QED
      BY <2>1, <2>2, <2>3
  <1>3. CASE k = Len(Events) + 1
    <2>1. PICK j \in 1..Len(Events) :
            /\ Events[j].msg = [name |-> "start", uid |-> e.msg.uid]
            /\ \A m \in 1..Len(Events) : Events[m].merged /\ Events[m].msg.uid = e.msg.uid => m < j
      BY <1>1, <1>3 DEF Waiting
    <2>2. j \in 1..(k - 1) /\ Events'[j] = Events[j] /\ Events'[k] = e
      BY <1>1, <1>3
    <2>3. i < k => i < j
      BY <1>1, <1>3, <2>1, <2>2
    <2> QED
      BY <2>1, <2>2, <2>3
  <1> QED
    BY <1>1, <1>2, <1>3

(***************************************************************************)
(* The invariant of the event source.                                      *)
(***************************************************************************)

\* It holds initially.
LEMMA SourceInit == Init => SourceInv
  <1> SUFFICES ASSUME Init PROVE SourceInv
    OBVIOUS
  <1>1. start_messages = <<>> /\ q = <<>> /\ yielded = <<>> /\ received = <<>> /\ since = [u \in Uids |-> None]
    BY DEF Init
  <1>2. SourceOK
    BY <1>1, BoundsNat DEF SourceOK
  <1>3. Events = <<>>
    BY <1>1 DEF Events
  <1>4. DictInv
    BY <1>1 DEF DictInv, Once, Remembered, Recent
  <1>5. InOrder /\ MergedOnce
    BY <1>1, <1>3 DEF InOrder, MergedOnce
  <1> QED
    BY <1>2, <1>4, <1>5 DEF SourceInv

\* on_message of a start.
LEMMA StartStep ==
    ASSUME SourceInv, NEW u \in Uids \cup {None}, OnStart(u)
    PROVE  SourceInv'
  <1> USE DEF SourceInv, DictInv
  <1> DEFINE m == [name |-> "start", uid |-> u]
             e == Event(m, FALSE)
             d == start_messages
  <1>1. e \in BusEvent /\ e.msg = m /\ ~e.merged /\ m.uid = u /\ m = [name |-> "start", uid |-> u]
    BY DEF Event, BusEvent, Message
  <1>2. q' = Append(q, e) /\ received' = Append(received, m) /\ UNCHANGED yielded
    BY DEF OnStart
  <1> HIDE DEF m, e
  <1>3. InOrder' /\ q' \in Seq(BusEvent) /\ received' \in Seq(Message) /\ yielded' \in Seq(BusEvent)
    BY <1>1, <1>2, OrderKept DEF SourceOK
  <1>4. MergedOnce'
    BY <1>1, <1>2, MergedKept
  <1>5. Waiting(u)' /\ \A v : Waiting(v) => Waiting(v)'
    BY <1>1, <1>2, WaitingKept
  <1>6. CASE u = None
    <2>1. UNCHANGED <<start_messages, since>>
      BY <1>6 DEF OnStart
    <2>2. Once(start_messages)' /\ Recent' /\ SourceOK'
      BY <1>3, <2>1 DEF Recent, Room, SourceOK
    <2>3. Remembered'
      BY <1>5, <2>1 DEF Remembered, Dated
    <2> QED
      BY <1>3, <1>4, <2>2, <2>3
  <1>7. CASE u # None
    <2>0. u \in Uids /\ start_messages' = Assigned(d, u) /\ since' = Restarted(u)
      BY <1>7 DEF OnStart
    <2> DEFINE r == Assigned(d, u)
    <2>1. /\ r \in Seq(Entry) /\ Len(r) <= MaxLen /\ Once(r)
          /\ \A j \in 1..Len(r) : r[j].uid = u \/ \E k \in 1..Len(d) : r[j] = d[k]
          /\ \A n \in Nat : (\A k \in 1..Len(d) : d[k].uid = u => Len(d) - k <= n) => Young(r, u, 0, n)
          /\ \A v, age : \A n \in Nat : v # u /\ Safe(d, u, n) /\ Young(d, v, age, n) => Young(r, v, age, n + 1)
      BY <2>0, AssignedIs DEF SourceOK
    <2> HIDE DEF r
    <2>a. start_messages' = r
      BY <2>0 DEF r
    <2> DEFINE late == since[u] # None /\ Expired(since[u].secs)
               Again == [secs |-> 0, others |-> since[u].others, late |-> since[u].late]
               First == [secs |-> 0, others |-> 0, late |-> FALSE]
               Other(v) == [secs |-> since[v].secs, others |-> since[v].others + 1, late |-> since[v].late \/ late]
    <2>b. late \in BOOLEAN /\ \A v \in Uids : since[v] # None => since[v] \in Elapsed
      BY DEF Expired, SourceOK
    <2>c. None \notin Elapsed
      BY NoneIsNoUid DEF Elapsed
    <2>d. First \in Elapsed /\ First.secs = 0 /\ First.others = 0 /\ First.late = FALSE
      BY DEF Elapsed
    <2>e. since[u] # None => /\ Again \in Elapsed
                             /\ Again.secs = 0 /\ Again.others = since[u].others /\ Again.late = since[u].late
      BY <2>0, <2>b DEF Elapsed
    <2>f. ASSUME NEW v \in Uids, since[v] # None
          PROVE  /\ Other(v) \in Elapsed
                 /\ Other(v).secs = since[v].secs /\ Other(v).others = since[v].others + 1
                 /\ Other(v).late = (since[v].late \/ late)
      <3>1. since[v] \in Elapsed
        BY <2>b, <2>f
      <3>2. since[v].secs \in Nat /\ since[v].others \in Nat /\ since[v].late \in BOOLEAN
        BY <3>1 DEF Elapsed
      <3>3. since[v].others + 1 \in Nat /\ (since[v].late \/ late) \in BOOLEAN
        BY <3>2
      <3> QED
        BY <3>2, <3>3 DEF Elapsed
    <2>g. since' = [v \in Uids |-> IF v = u THEN IF since[v] = None THEN First ELSE Again
                                   ELSE IF since[v] = None THEN None ELSE Other(v)]
      BY <2>0 DEF Restarted
    <2> HIDE DEF First, Again, Other, late
    <2>h. since'[u] = IF since[u] = None THEN First ELSE Again
      BY <2>0, <2>g
    <2>i. \A v \in Uids : v # u => since'[v] = IF since[v] = None THEN None ELSE Other(v)
      BY <2>g
    <2>2. /\ since' \in [Uids -> Elapsed \cup {None}] /\ since'[u] # None /\ since'[u].secs = 0
          /\ \A v \in Uids : v # u => (since[v] = None <=> since'[v] = None)
          /\ \A v \in Uids : v # u /\ since[v] # None => since'[v].secs = since[v].secs
      <3>1. \A v \in Uids : since'[v] \in Elapsed \cup {None}
        BY <2>d, <2>e, <2>f, <2>h, <2>i
      <3>2. since' \in [Uids -> Elapsed \cup {None}]
        BY <2>g, <3>1
      <3> QED
        BY <2>c, <2>d, <2>e, <2>f, <2>h, <2>i, <3>2
    <2>3. SourceOK' /\ Once(start_messages)'
      BY <1>3, <2>a, <2>1, <2>2 DEF SourceOK
    <2>4. Remembered'
      <3> SUFFICES ASSUME NEW j \in 1..Len(r), NEW v, v = r[j].uid
                   PROVE  Waiting(v)' /\ since'[v] # None /\ since'[v].secs = r[j].age
        BY <2>a DEF Remembered, Dated
      <3>1. CASE v = u
        <4>1. Len(d) \in Nat /\ \A k \in 1..Len(d) : Len(d) - k <= Len(d)
          BY DEF SourceOK
        <4>2. Young(r, u, 0, Len(d))
          BY <2>1, <4>1
        <4>3. PICK k \in 1..Len(r) : r[k].uid = u /\ r[k].age = 0
          BY <4>2 DEF Young
        <4>4. k = j
          BY <2>1, <3>1, <4>3 DEF Once
        <4> QED
          BY <1>5, <2>2, <3>1, <4>3, <4>4
      <3>2. ASSUME NEW k \in 1..Len(d), r[j] = d[k], v # u
            PROVE  Waiting(v)' /\ since'[v] # None /\ since'[v].secs = r[j].age
        <4>0. d[k] \in Entry /\ v = d[k].uid
          BY <3>2, ElementOfSeq DEF SourceOK
        <4>1. v \in Uids /\ Waiting(v) /\ since[v] # None /\ since[v].secs = d[k].age
          BY <4>0 DEF Remembered, Entry, Dated
        <4> QED
          BY <1>5, <2>2, <3>2, <4>1
      <3> QED
        BY <2>1, <3>1, <3>2
    <2>5. Recent'
      <3> SUFFICES ASSUME NEW v \in Uids, since'[v] # None,
                          since'[v].others < IF since'[v].late THEN MaxLen - 1 ELSE MaxLen
                   PROVE  Young(r, v, since'[v].secs, since'[v].others)
        BY <2>a DEF Recent, Room
      <3>0. /\ \A w \in Uids : since[w] # None => since[w].others \in Nat /\ since[w].late \in BOOLEAN
            /\ MaxLen \in Nat /\ Len(d) \in Nat
        BY BoundsNat DEF SourceOK, Elapsed
      <3>1. CASE v # u
        <4>1. /\ since[v] # None /\ since[v].others \in Nat /\ since[v].late \in BOOLEAN
              /\ since'[v].others = since[v].others + 1 /\ since'[v].late = (since[v].late \/ late)
          BY <2>2, <2>f, <2>i, <3>0, <3>1
        <4>2. /\ since[v].others + 1 < MaxLen
              /\ since[v].late \/ late => since[v].others + 2 < MaxLen
          <5>1. CASE since'[v].late
            <6>1. since[v].others + 1 < MaxLen - 1
              BY <4>1, <5>1
            <6> QED
              BY <3>0, <4>1, <6>1
          <5>2. CASE ~since'[v].late
            <6>1. since[v].others + 1 < MaxLen
              BY <4>1, <5>2
            <6>2. ~(since[v].late \/ late)
              BY <4>1, <5>2
            <6> QED
              BY <6>1, <6>2
          <5> QED
            BY <5>1, <5>2
        <4>3. Stale(d, u) => late
          BY DEF Stale, late, Remembered, Dated
        <4>4. Safe(d, u, since[v].others)
          BY <4>2, <4>3 DEF Safe
        <4>5. since[v].others < Room(v)
          BY <3>0, <4>1, <4>2 DEF Room
        <4>6. Young(d, v, since[v].secs, since[v].others)
          BY <4>1, <4>5 DEF Recent
        <4>7. Young(r, v, since[v].secs, since[v].others + 1)
          BY <2>1, <3>1, <4>1, <4>4, <4>6
        <4> QED
          BY <2>2, <3>1, <4>1, <4>7
      <3>2. CASE v = u /\ since[u] = None
        <4>1. \A k \in 1..Len(d) : d[k].uid # u
          BY <3>2 DEF Remembered, Dated
        <4>2. Young(r, u, 0, 0)
          BY <2>1, <4>1
        <4> QED
          BY <2>2, <2>d, <2>h, <3>2, <4>2
      <3>3. CASE v = u /\ since[u] # None
        <4>1. since'[u].others = since[u].others /\ since'[u].late = since[u].late /\ since[u].others \in Nat
          BY <2>0, <2>e, <2>h, <3>0, <3>3
        <4>2. since[u].others < Room(u)
          BY <3>3, <4>1 DEF Room
        <4>a. PICK i \in 1..Len(d) : d[i].uid = u /\ Len(d) - i <= since[u].others
          BY <2>0, <3>3, <4>2 DEF Recent, Young
        <4>3. \A k \in 1..Len(d) : d[k].uid = u => Len(d) - k <= since[u].others
          BY <4>a DEF Once
        <4>4. Young(r, u, 0, since[u].others)
          BY <2>1, <4>1, <4>3
        <4> QED
          BY <2>2, <3>3, <4>1, <4>4
      <3> QED
        BY <3>1, <3>2, <3>3
    <2> QED
      BY <1>3, <1>4, <2>3, <2>4, <2>5
  <1> QED
    BY <1>6, <1>7
\* on_message of a stop.
LEMMA StopStep ==
    ASSUME SourceInv, NEW u \in Uids \cup {None}, OnStop(u)
    PROVE  SourceInv'
  <1> USE DEF SourceInv, DictInv
  <1> DEFINE m == [name |-> "stop", uid |-> u]
             found == u # None /\ Found(start_messages, u)
             e == Event(m, found)
             d == start_messages
  <1>0. d \in Seq(Entry) /\ Once(d) /\ Len(d) \in Nat /\ MaxLen \in Nat /\ Len(d) <= MaxLen
    BY BoundsNat DEF SourceOK
  <1>1. e \in BusEvent /\ e.msg = m /\ e.merged = found /\ m.uid = u
    <2>1. found \in BOOLEAN
      BY DEF Found
    <2> QED
      BY <2>1 DEF Event, BusEvent, Message
  <1>2. q' = Append(q, e) /\ received' = Append(received, m) /\ UNCHANGED yielded
    BY DEF OnStop, Queued
  <1>a. found => Waiting(u)
    <2> SUFFICES ASSUME found PROVE Waiting(u)
      OBVIOUS
    <2>1. Place(d, u) \in 1..Len(d) /\ d[Place(d, u)].uid = u
      BY <1>0, PlaceIs DEF Found
    <2> QED
      BY <2>1 DEF Remembered
  <1> HIDE DEF m, e, found
  <1>3. InOrder' /\ q' \in Seq(BusEvent) /\ received' \in Seq(Message) /\ yielded' \in Seq(BusEvent)
    BY <1>1, <1>2, OrderKept DEF SourceOK
  <1>4. MergedOnce'
    BY <1>1, <1>2, <1>a, MergedKept
  <1>5. \A v : v # u /\ Waiting(v) => Waiting(v)'
    BY <1>1, <1>2, WaitingKept
  <1>6. CASE u = None
    <2>1. UNCHANGED <<start_messages, since>>
      BY <1>6 DEF OnStop
    <2>2. Once(start_messages)' /\ Recent' /\ SourceOK'
      BY <1>3, <2>1 DEF Recent, Room, SourceOK
    <2>3. Remembered'
      <3> SUFFICES ASSUME NEW j \in 1..Len(d), NEW v, v = d[j].uid
                   PROVE  Waiting(v)' /\ Dated(d[j])
        BY <2>1 DEF Remembered, Dated
      <3>1. d[j] \in Entry
        BY <1>0, ElementOfSeq
      <3>2. v # u
        BY <1>6, <3>1, NoneIsNoUid DEF Entry
      <3> QED
        BY <1>5, <3>2 DEF Remembered
    <2> QED
      BY <1>3, <1>4, <2>2, <2>3
  <1>7. CASE u # None
    <2>0. u \in Uids /\ start_messages' = Popped(d, u) /\ since' = [since EXCEPT ![u] = None]
      BY <1>7 DEF OnStop
    <2> DEFINE r == Popped(d, u)
    <2>1. /\ r \in Seq(Entry) /\ Len(r) <= Len(d) /\ Once(r)
          /\ \A j \in 1..Len(r) : r[j].uid # u /\ \E k \in 1..Len(d) : r[j] = d[k]
          /\ \A v, age, n : v # u /\ n \in Nat /\ Young(d, v, age, n) => Young(r, v, age, n)
      BY <1>0, PoppedIs
    <2> HIDE DEF r
    <2>a. start_messages' = r
      BY <2>0 DEF r
    <2>2. /\ since' \in [Uids -> Elapsed \cup {None}]
          /\ since'[u] = None
          /\ \A v \in Uids : v # u => since'[v] = since[v]
      BY <2>0 DEF SourceOK
    <2>3. SourceOK' /\ Once(start_messages)'
      <3>1. Len(r) <= MaxLen
        BY <1>0, <2>1
      <3> QED
        BY <1>3, <2>a, <2>1, <2>2, <3>1 DEF SourceOK
    <2>4. Remembered'
      <3> SUFFICES ASSUME NEW j \in 1..Len(r), NEW v, v = r[j].uid
                   PROVE  Waiting(v)' /\ since'[v] # None /\ since'[v].secs = r[j].age
        BY <2>a DEF Remembered, Dated
      <3>1. PICK k \in 1..Len(d) : r[j] = d[k]
        BY <2>1
      <3>2. d[k] \in Entry /\ v = d[k].uid /\ v # u
        BY <1>0, <2>1, <3>1, ElementOfSeq
      <3>3. v \in Uids /\ Waiting(v) /\ since[v] # None /\ since[v].secs = d[k].age
        BY <3>2 DEF Remembered, Entry, Dated
      <3> QED
        BY <1>5, <2>2, <3>1, <3>2, <3>3
    <2>5. Recent'
      <3> SUFFICES ASSUME NEW v \in Uids, since'[v] # None, since'[v].others < Room(v)'
                   PROVE  Young(r, v, since'[v].secs, since'[v].others)
        BY <2>a DEF Recent
      <3>1. v # u /\ since'[v] = since[v] /\ since[v] # None /\ since[v].others < Room(v)
        BY <2>2 DEF Room
      <3>2. since[v].others \in Nat
        BY <3>1 DEF SourceOK, Elapsed
      <3> QED
        BY <2>1, <3>1, <3>2 DEF Recent
    <2> QED
      BY <1>3, <1>4, <2>3, <2>4, <2>5
  <1> QED
    BY <1>6, <1>7

\* Time passes.
LEMMA PauseStep ==
    ASSUME SourceInv, NEW p \in Pauses, Pause(p)
    PROVE  SourceInv'
  <1> USE DEF SourceInv, DictInv
  <1> DEFINE d == start_messages
             r == [i \in DOMAIN d |-> [uid |-> d[i].uid, age |-> Older(d[i].age, p)]]
             Later(u) == [secs |-> Older(since[u].secs, p), others |-> since[u].others, late |-> since[u].late]
  <1>0. d \in Seq(Entry) /\ Once(d) /\ Len(d) \in Nat /\ DOMAIN d = 1..Len(d) /\ p \in Nat /\ Len(d) <= MaxLen
    BY BoundsNat, LenProperties DEF SourceOK
  <1>1. /\ start_messages' = r
        /\ since' = [u \in Uids |-> IF since[u] = None THEN None ELSE Later(u)]
        /\ UNCHANGED <<q, yielded, received>>
    BY DEF Pause
  <1>2. \A a \in Nat : Older(a, p) \in Nat
    BY <1>0, ExpiryNat DEF Older
  <1>3. \A i \in 1..Len(d) : [uid |-> d[i].uid, age |-> Older(d[i].age, p)] \in Entry
    <2> SUFFICES ASSUME NEW i \in 1..Len(d) PROVE [uid |-> d[i].uid, age |-> Older(d[i].age, p)] \in Entry
      OBVIOUS
    <2>1. d[i] \in Entry
      BY <1>0, ElementOfSeq
    <2> QED
      BY <1>2, <2>1 DEF Entry
  <1>4. /\ r \in Seq(Entry) /\ Len(r) = Len(d)
        /\ \A i \in 1..Len(d) : r[i].uid = d[i].uid /\ r[i].age = Older(d[i].age, p)
    <2>1. r \in [1..Len(d) -> Entry]
      BY <1>0, <1>3
    <2>2. r \in Seq(Entry)
      BY <1>0, <2>1, SeqDef
    <2>3. Len(r) = Len(d)
      BY <1>0, <2>1, <2>2
    <2> QED
      BY <1>0, <2>2, <2>3
  <1> HIDE DEF r
  <1>5. /\ since' \in [Uids -> Elapsed \cup {None}]
        /\ \A u \in Uids : since[u] = None <=> since'[u] = None
        /\ \A u \in Uids : since[u] # None =>
              /\ since'[u].secs = Older(since[u].secs, p)
              /\ since'[u].others = since[u].others /\ since'[u].late = since[u].late
    <2>1. \A u \in Uids : since[u] # None => since[u] \in Elapsed
      BY DEF SourceOK
    <2>2. ASSUME NEW u \in Uids, since[u] # None
          PROVE  /\ Later(u) \in Elapsed /\ Later(u).secs = Older(since[u].secs, p)
                 /\ Later(u).others = since[u].others /\ Later(u).late = since[u].late
      <3>1. since[u].secs \in Nat /\ since[u].others \in Nat /\ since[u].late \in BOOLEAN
        BY <2>1, <2>2 DEF Elapsed
      <3> QED
        BY <1>2, <3>1 DEF Elapsed
    <2> HIDE DEF Later
    <2>3. None \notin Elapsed
      BY NoneIsNoUid DEF Elapsed
    <2>4. ASSUME NEW u \in Uids, since[u] # None
          PROVE  /\ since'[u] \in Elapsed /\ since'[u].secs = Older(since[u].secs, p)
                 /\ since'[u].others = since[u].others /\ since'[u].late = since[u].late
      BY <1>1, <2>2, <2>4
    <2>5. ASSUME NEW u \in Uids, since[u] = None PROVE since'[u] = None
      BY <1>1, <2>5
    <2>6. \A u \in Uids : since'[u] \in Elapsed \cup {None}
      BY <2>4, <2>5
    <2>7. since' \in [Uids -> Elapsed \cup {None}]
      BY <1>1, <2>6
    <2> QED
      BY <2>3, <2>4, <2>5, <2>7
  <1>6. SourceOK'
    BY <1>0, <1>1, <1>4, <1>5 DEF SourceOK
  <1>7. Events' = Events
    BY <1>1 DEF Events
  <1>8. InOrder' /\ MergedOnce' /\ \A v : Waiting(v)' <=> Waiting(v)
    BY <1>1, <1>7 DEF InOrder, MergedOnce, Waiting
  <1>9. Once(start_messages)'
    BY <1>0, <1>1, <1>4 DEF Once
  <1>10. Remembered'
    <2> SUFFICES ASSUME NEW j \in 1..Len(r), NEW v, v = r[j].uid
                 PROVE  Waiting(v)' /\ since'[v] # None /\ since'[v].secs = r[j].age
      BY <1>1 DEF Remembered, Dated
    <2>1. d[j] \in Entry /\ v = d[j].uid /\ j \in 1..Len(d) /\ r[j].age = Older(d[j].age, p)
      BY <1>0, <1>4, ElementOfSeq
    <2>2. v \in Uids /\ Waiting(v) /\ since[v] # None /\ since[v].secs = d[j].age
      BY <2>1 DEF Remembered, Dated, Entry
    <2> QED
      BY <1>5, <1>8, <2>1, <2>2
  <1>11. Recent'
    <2> SUFFICES ASSUME NEW u \in Uids, since'[u] # None, since'[u].others < Room(u)'
                 PROVE  Young(r, u, since'[u].secs, since'[u].others)
      BY <1>1 DEF Recent
    <2>0. since[u] # None /\ since[u].others < Room(u)
      BY <1>5 DEF Room
    <2>1. PICK i \in 1..Len(d) : d[i].uid = u /\ d[i].age = since[u].secs /\ Len(d) - i <= since[u].others
      BY <2>0 DEF Recent, Young
    <2> QED
      BY <1>4, <1>5, <2>1 DEF Young
  <1> QED
    BY <1>6, <1>8, <1>9, <1>10, <1>11

\* Nothing the invariant is about changes.
LEMMA QuietStep ==
    ASSUME SourceInv, UNCHANGED <<start_messages, received, since>>,
           Yield \/ UNCHANGED <<q, yielded>>
    PROVE  SourceInv'
  <1> USE DEF SourceInv, DictInv
  <1>1. SourceOK' /\ Events' = Events
    <2>1. CASE Yield
      BY <2>1, EventsYielded DEF SourceOK
    <2>2. CASE UNCHANGED <<q, yielded>>
      BY <2>2 DEF SourceOK, Events
    <2> QED
      BY <2>1, <2>2
  <1>2. InOrder' /\ MergedOnce' /\ \A v : Waiting(v)' <=> Waiting(v)
    BY <1>1 DEF InOrder, MergedOnce, Waiting
  <1>3. Once(start_messages)' /\ Recent'
    BY DEF Recent, Room
  <1>4. Remembered'
    BY <1>2 DEF Remembered, Dated
  <1> QED
    BY <1>1, <1>2, <1>3, <1>4

\* Every step preserves the invariant of the event source.
LEMMA SourceStep == SourceInv /\ [Next]_vars => SourceInv'
  <1> SUFFICES ASSUME SourceInv, [Next]_vars PROVE SourceInv'
    OBVIOUS
  <1>1. CASE UNCHANGED vars \/ OnDisconnected \/ Yield
    BY <1>1, QuietStep DEF vars, OnDisconnected, Yield
  <1> QED
    BY <1>1, StartStep, StopStep, PauseStep DEF Next

\* And it holds in every reachable state.
LEMMA SourceHolds == Spec => []SourceInv
  BY SourceInit, SourceStep, PTL DEF Spec

\* InOrder: listener and servicer lose, repeat and overtake no message.
THEOREM InOrderHolds == Spec => []InOrder
  <1>1. SourceInv => InOrder
    BY DEF SourceInv
  <1> QED
    BY <1>1, SourceHolds, PTL

\* MergedOnce: _merge_stop_with_start takes a start once, for a later stop of its own
\* run, whatever is redelivered and whatever the dictionary forgets.
THEOREM MergedOnceHolds == Spec => []MergedOnce
  <1>1. SourceInv => MergedOnce
    BY DEF SourceInv
  <1> QED
    BY <1>1, SourceHolds, PTL

\* The arrival of a stop of u is OnStop(u).
LEMMA StopArrives ==
    ASSUME SourceOK, [Next]_vars, NEW u \in Uids, received' = Append(received, [name |-> "stop", uid |-> u])
    PROVE  OnStop(u)
  <1> DEFINE m == [name |-> "stop", uid |-> u]
  <1>0. received \in Seq(Message) /\ m \in Message /\ m.name = "stop" /\ m.uid = u
    BY DEF SourceOK, Message
  <1>1. received' # received
    <2>1. Len(received) \in Nat /\ Len(received') = Len(received) + 1
      BY <1>0, AppendProperties
    <2> QED
      BY <2>1
  <1>2. PICK v \in Uids \cup {None} : OnStart(v) \/ OnStop(v)
    BY <1>1 DEF Next, vars, Pause, OnDisconnected, Yield
  <1>3. CASE OnStart(v)
    <2> DEFINE w == [name |-> "start", uid |-> v]
    <2>1. received' = Append(received, w) /\ w \in Message /\ w.name = "start"
      BY <1>3 DEF OnStart, Message
    <2> HIDE DEF m, w
    <2>2. w = m
      BY <1>0, <2>1, AppendInjective DEF m
    <2> QED
      BY <1>0, <2>1, <2>2
  <1>4. CASE OnStop(v)
    <2> DEFINE w == [name |-> "stop", uid |-> v]
    <2>1. received' = Append(received, w) /\ w \in Message /\ w.uid = v
      BY <1>4 DEF OnStop, Message
    <2> HIDE DEF m, w
    <2>2. w = m
      BY <1>0, <2>1, AppendInjective DEF m
    <2> QED
      BY <1>0, <1>4, <2>1, <2>2
  <1> QED
    BY <1>2, <1>3, <1>4

\* A stop finds its start while the dictionary's capacity allows.
LEMMA StopFinds ==
    ASSUME SourceInv, [Next]_vars
    PROVE  \A u \in Uids : since[u] # None /\ since[u].others < Room(u) => StopMerged(u)
  <1> SUFFICES ASSUME NEW u \in Uids, since[u] # None, since[u].others < Room(u),
                      received' = Append(received, [name |-> "stop", uid |-> u])
               PROVE  Last(q').merged
    BY DEF StopMerged
  <1> DEFINE d == start_messages
             m == [name |-> "stop", uid |-> u]
             found == u # None /\ Found(d, u)
  <1>0. SourceOK /\ d \in Seq(Entry) /\ Once(d) /\ Recent
    BY DEF SourceInv, DictInv, SourceOK
  <1>1. OnStop(u)
    BY <1>0, StopArrives
  <1>2. q' = Append(q, Event(m, found)) /\ UNCHANGED yielded
    BY <1>1 DEF OnStop, Queued
  <1>3. found
    <2>1. PICK i \in 1..Len(d) : d[i].uid = u
      BY <1>0 DEF Recent, Young
    <2>2. Place(d, u) # 0
      BY <1>0, <2>1, PlaceIs
    <2> QED
      BY <2>2, NoneIsNoUid DEF Found
  <1>4. Event(m, found) \in BusEvent /\ Event(m, found).merged = found
    <2>1. found \in BOOLEAN
      BY DEF Found
    <2> QED
      BY <2>1 DEF Event, BusEvent, Message
  <1> HIDE DEF m, found
  <1> QED
    BY <1>0, <1>2, <1>3, <1>4, EventsQueued

\* RecentStartFound: making room for other runs never costs a run its start before
\* the dictionary's other places are taken, redeliveries do not count against it, and
\* pop never asks how old it is.
THEOREM RecentStartFoundHolds == Spec => RecentStartFound
  <1>1. SourceInv /\ [Next]_vars =>
           [\A u \in Uids : since[u] # None /\ since[u].others < Room(u) => StopMerged(u)]_vars
    BY StopFinds
  <1> QED
    BY <1>1, SourceHolds, PTL DEF Spec, RecentStartFound

(***************************************************************************)
(* From the event to the workflow.                                         *)
(***************************************************************************)

\* The event source in the composition is the event source.
THEOREM EventsImplementSource == EventsSpec => Spec
  <1>1. EventsInit => Init
    BY DEF EventsInit
  <1>2. [EventsNext]_all_vars => [Next]_vars
    BY DEF EventsNext, Source, Deliver, Controller, all_vars, vars, Next
  <1> QED
    BY <1>1, <1>2, PTL DEF EventsSpec, Spec

Table == [TriggerNames -> TriggerSpecs \cup {Nil}]

\* The Sensor is what the hooks make of the triggers it was made from.
SyncOK ==
    /\ triggers \in Table /\ basis \in Table
    /\ answer # Nil => answer.from \in Table /\ answer.child = Sync(answer.from)
    /\ sensor = Sync(basis) \/ (sensor = Nil /\ basis = NoTriggers)

AnyBroken(ts) == \E n \in TriggerNames : Broken(ts[n])
MeantIn(ts) == {n \in TriggerNames : Meant(ts[n])}
Carries(e) == e.msg.name = "start" \/ e.merged

\* What the log says of the event e.
Right(l, e) ==
    /\ l.started \subseteq MeantIn(l.basis)
    /\ ~Carries(e) => l.started = {}
    /\ Carries(e) => MeantIn(l.basis) \subseteq l.started \/ AnyBroken(l.basis)

Verdict == [basis: Table, started: SUBSET TriggerNames]
Judged ==
    /\ log \in Seq(Verdict) /\ Len(log) = Len(yielded)
    /\ \A i \in 1..Len(log) : Right(log[i], yielded[i])

FiresInv == SourceInv /\ SyncOK /\ Judged

\* customize selects the triggers of the beamline's message bus.
LEMMA RelatedIs ==
    ASSUME NEW ts
    PROVE  Related(ts) = {n \in TriggerNames : ts[n] # Nil /\ ts[n].beamline = Beamline /\ ts[n].source = "message-bus"}
  <1>1. Customize.beamline = {Beamline} /\ Customize.source = {"message-bus"}
    BY StompSource DEF Customize
  <1> QED
    BY <1>1 DEF Related

\* The Sensor starts the right workflows for an event.
LEMMA StartedIs ==
    ASSUME SyncOK, NEW e \in BusEvent
    PROVE  LET l == [basis |-> basis, started |-> Started(e)]
           IN  l \in Verdict /\ Right(l, e)
  <1> DEFINE l == [basis |-> basis, started |-> Started(e)]
             R == {n \in TriggerNames : basis[n] # Nil /\ basis[n].beamline = Beamline /\ basis[n].source = "message-bus"}
  <1>1. Related(basis) = R
    BY RelatedIs
  <1>2. sensor # Nil => /\ \A n \in R : basis[n].valid
                        /\ sensor = {Dependency(n, basis[n]) : n \in {k \in R : basis[k].enabled}}
    BY <1>1 DEF SyncOK, Sync
  <1>3. ASSUME NEW n \in R
        PROVE  /\ Dependency(n, basis[n]).name = n
               /\ Passes(Dependency(n, basis[n]), e) <=> Carries(e) /\ basis[n].namespace \in {EventsNamespace, Visit}
    <2>1. basis[n] \in TriggerSpecs /\ basis[n].source # "generic"
      BY DEF SyncOK, Table
    <2>2. basis[n].namespace # Nil /\ Visit # Nil
      BY <2>1, Namespaced
    <2>3. /\ Dependency(n, basis[n]).name = n /\ Dependency(n, basis[n]).type = Nil
          /\ Dependency(n, basis[n]).session = IF basis[n].namespace = EventsNamespace THEN Nil ELSE basis[n].namespace
      BY <2>1 DEF Dependency
    <2>4. Session(e) = IF Carries(e) THEN Visit ELSE Nil
      BY DEF Session, Carries
    <2> QED
      BY <2>2, <2>3, <2>4 DEF Passes
  <1>5. sensor # Nil => Started(e) = {n \in R : basis[n].enabled /\ Carries(e) /\ basis[n].namespace \in {EventsNamespace, Visit}}
    BY <1>2, <1>3 DEF Started
  <1>6. sensor = Nil => Started(e) = {}
    BY DEF Started
  <1>7. MeantIn(basis) = {n \in R : basis[n].valid /\ basis[n].enabled /\ basis[n].namespace \in {EventsNamespace, Visit}}
    BY DEF MeantIn, Meant
  <1>8. sensor = Nil => AnyBroken(basis) \/ MeantIn(basis) = {}
    <2>1. CASE basis = NoTriggers
      BY <2>1 DEF MeantIn, Meant, NoTriggers
    <2>2. CASE sensor = Sync(basis) /\ \E n \in R : ~basis[n].valid
      BY <2>2 DEF AnyBroken, Broken
    <2>3. CASE sensor = Sync(basis) /\ (\A n \in R : basis[n].valid) /\ sensor = Nil
      <3> DEFINE D == {Dependency(n, basis[n]) : n \in {k \in R : basis[k].enabled}}
                 All == {Dependency(n, t) : n \in TriggerNames, t \in TriggerSpecs}
      <3>1. Nil = D
        BY <1>1, <2>3 DEF Sync
      <3>2. \A n \in R : n \in TriggerNames /\ basis[n] \in TriggerSpecs
        BY DEF SyncOK, Table
      <3>3. D \subseteq All
        BY <3>2
      <3>4. \A ds \in SUBSET All : ds # Nil
        BY NilIsNoSensor
      <3> HIDE DEF D, All
      <3> QED
        BY <3>1, <3>3, <3>4
    <2> QED
      BY <2>1, <2>2, <2>3 DEF SyncOK
  <1>9. Started(e) \subseteq TriggerNames
    BY <1>5, <1>6
  <1>10. l \in Verdict /\ l.basis = basis /\ l.started = Started(e)
    BY <1>9 DEF Verdict, SyncOK
  <1>11. /\ Started(e) \subseteq MeantIn(basis)
         /\ ~Carries(e) => Started(e) = {}
         /\ Carries(e) => MeantIn(basis) \subseteq Started(e) \/ AnyBroken(basis)
    BY <1>2, <1>5, <1>6, <1>7, <1>8
  <1> HIDE DEF l
  <1>12. Right(l, e)
    BY <1>10, <1>11 DEF Right
  <1> QED
    BY <1>10, <1>12 DEF l
\* The invariant of the composition holds initially ...
LEMMA FiresInit == EventsInit => FiresInv
  <1> SUFFICES ASSUME EventsInit PROVE FiresInv
    OBVIOUS
  <1>1. SourceInv
    BY SourceInit DEF EventsInit
  <1>2. SyncOK
    BY DEF EventsInit, SyncInit, SyncOK, Table, NoTriggers
  <1>3. Judged
    BY DEF EventsInit, Init, Judged
  <1> QED
    BY <1>1, <1>2, <1>3 DEF FiresInv

\* ... and every step preserves it.
LEMMA FiresStep == FiresInv /\ [EventsNext]_all_vars => FiresInv'
  <1> SUFFICES ASSUME FiresInv, [EventsNext]_all_vars PROVE FiresInv'
    OBVIOUS
  <1>0. SourceInv /\ SourceOK /\ SyncOK /\ Judged
    BY DEF FiresInv, SourceInv
  <1>1. SourceInv'
    <2>1. [Next]_vars
      BY DEF EventsNext, Source, Deliver, Controller, all_vars, vars, Next
    <2> QED
      BY <1>0, <2>1, SourceStep
  <1>2. SyncOK'
    <2>1. CASE UNCHANGED sync_vars
      BY <1>0, <2>1 DEF sync_vars, SyncOK
    <2>2. CASE CallHooks
      BY <1>0, <2>2 DEF CallHooks, SyncOK
    <2>3. CASE ApplyChildren
      <3>1. /\ answer.from \in Table /\ answer.child = Sync(answer.from)
            /\ triggers \in Table /\ basis \in Table /\ UNCHANGED triggers /\ answer' = Nil
            /\ sensor = Sync(basis) \/ (sensor = Nil /\ basis = NoTriggers)
        BY <1>0, <2>3 DEF ApplyChildren, SyncOK
      <3>2. CASE sensor' = answer.child /\ basis' = answer.from
        BY <3>1, <3>2 DEF SyncOK
      <3>3. CASE UNCHANGED <<sensor, basis>>
        BY <3>1, <3>3 DEF SyncOK
      <3> QED
        BY <2>3, <3>2, <3>3 DEF ApplyChildren
    <2>4. ASSUME NEW n \in TriggerNames, NEW t \in TriggerSpecs \cup {Nil}, TriggerEdited(n, t) PROVE SyncOK'
      BY <1>0, <2>4 DEF TriggerEdited, SyncOK, Table
    <2> QED
      BY <2>1, <2>2, <2>3, <2>4 DEF EventsNext, Source, Deliver, Controller, all_vars
  <1>3. Judged'
    <2>1. CASE UNCHANGED <<log, yielded>>
      BY <1>0, <2>1 DEF Judged
    <2>2. CASE Deliver
      <3> DEFINE e == Head(q)
                 l == [basis |-> basis, started |-> Started(e)]
      <3>1. /\ e \in BusEvent /\ yielded \in Seq(BusEvent)
            /\ yielded' = Append(yielded, e) /\ log' = Append(log, l)
        BY <1>0, <2>2, HeadTailProperties DEF SourceOK, Deliver, Yield
      <3>2. l \in Verdict /\ Right(l, e)
        BY <1>0, <3>1, StartedIs
      <3> HIDE DEF l, e
      <3>3. /\ yielded' \in Seq(BusEvent) /\ Len(yielded') = Len(yielded) + 1
            /\ \A i \in 1..Len(yielded) : yielded'[i] = yielded[i]
            /\ yielded'[Len(yielded) + 1] = e
        BY <3>1, AppendProperties
      <3>4. /\ log' \in Seq(Verdict) /\ Len(log') = Len(log) + 1 /\ Len(log) \in Nat
            /\ \A i \in 1..Len(log) : log'[i] = log[i]
            /\ log'[Len(log) + 1] = l
        BY <1>0, <3>1, <3>2, AppendProperties DEF Judged
      <3>5. ASSUME NEW i \in 1..Len(log') PROVE Right(log'[i], yielded'[i])
        <4>1. CASE i = Len(log) + 1
          BY <1>0, <3>2, <3>3, <3>4, <4>1 DEF Judged
        <4>2. CASE i \in 1..Len(log)
          BY <1>0, <3>3, <3>4, <4>2 DEF Judged
        <4> QED
          BY <3>4, <4>1, <4>2
      <3> QED
        BY <1>0, <3>3, <3>4, <3>5 DEF Judged
    <2> QED
      BY <2>1, <2>2 DEF EventsNext, Source, Controller, OnStart, OnStop, Pause, OnDisconnected, all_vars, vars
  <1> QED
    BY <1>1, <1>2, <1>3 DEF FiresInv

\* The log is right about every event; and a stop that carries its start was preceded
\* by it on the bus.
LEMMA FiresFollows == FiresInv => Fires
  <1> SUFFICES ASSUME FiresInv, NEW i \in DOMAIN log
               PROVE  LET e == yielded[i]
                          told == e.msg.name = "start" \/ \E j \in 1..(i - 1) : yielded[j].msg = [name |-> "start", uid |-> e.msg.uid]
                          meant == {n \in TriggerNames : Meant(log[i].basis[n])}
                          asked == {n \in meant : log[i].basis[n].triggerOnMessageType \in {Nil, e.msg.name}}
                      IN  /\ log[i].started \subseteq IF told THEN meant ELSE {}
                          /\ e.msg.name = "start" \/ e.merged =>
                                asked \subseteq log[i].started \/ \E n \in TriggerNames : Broken(log[i].basis[n])
    BY DEF Fires
  <1> DEFINE e == yielded[i]
             told == e.msg.name = "start" \/ \E j \in 1..(i - 1) : yielded[j].msg = [name |-> "start", uid |-> e.msg.uid]
  <1>1. i \in 1..Len(log) /\ Right(log[i], e) /\ Len(log) = Len(yielded)
    BY LenProperties DEF FiresInv, Judged
  <1>2. e.merged => told
    <2>1. q \in Seq(BusEvent) /\ yielded \in Seq(BusEvent) /\ Len(q) \in Nat /\ Len(yielded) \in Nat
      BY DEF FiresInv, SourceInv, SourceOK
    <2>2. /\ Events \in Seq(BusEvent) /\ Len(Events) = Len(yielded) + Len(q)
          /\ \A k \in 1..(Len(yielded) + Len(q)) : Events[k] = IF k <= Len(yielded) THEN yielded[k] ELSE q[k - Len(yielded)]
      BY <2>1, ConcatProperties DEF Events
    <2>3. i \in DOMAIN Events /\ \A k \in 1..Len(yielded) : Events[k] = yielded[k]
      BY <1>1, <2>1, <2>2, LenProperties
    <2>4. e.merged => \E j \in 1..(i - 1) : Events[j].msg = [name |-> "start", uid |-> Events[i].msg.uid]
      BY <1>1, <2>1, <2>3 DEF FiresInv, SourceInv, MergedOnce
    <2>5. \A j \in 1..(i - 1) : Events[j] = yielded[j]
      BY <1>1, <2>1, <2>3
    <2> QED
      BY <1>1, <2>3, <2>4, <2>5
  <1>3. Carries(e) => told
    BY <1>2 DEF Carries
  <1> QED
    BY <1>1, <1>3 DEF Right, AnyBroken, MeantIn, Carries

\* Fires: a start, and a stop that found its start, start the workflows of triggers
\* meant for them when the controller last looked, of every one that asks for a message
\* of this type unless one of the beamline cannot be parsed, and of no other trigger.
THEOREM FiresHolds == EventsSpec => []Fires
  <1>1. EventsSpec => []FiresInv
    BY FiresInit, FiresStep, PTL DEF EventsSpec
  <1> QED
    BY <1>1, FiresFollows, PTL
=============================================================================

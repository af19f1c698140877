--------------------------- MODULE LinkListProofs ---------------------------
(***************************************************************************)
(* link.List for any number of writers, readers, destinations and packets  *)
(* and any capacity.                                                       *)
(***************************************************************************)
EXTENDS LinkList, SequenceTheorems, FiniteSetTheorems, TLAPS

\* A queue with the element at place i taken out.
Out(q, i) == SubSeq(q, 1, i - 1) \o SubSeq(q, i + 1, Len(q))

\* The elements behind the gap move up by one place.
LEMMA TakenOut ==
  ASSUME NEW S, NEW q \in Seq(S), NEW i \in 1..Len(q)
  PROVE  /\ Out(q, i) \in Seq(S) /\ Len(Out(q, i)) = Len(q) - 1
         /\ \A j \in 1..(Len(q) - 1) : Out(q, i)[j] = IF j < i THEN q[j] ELSE q[j + 1]
<1> DEFINE u == SubSeq(q, 1, i - 1)
           v == SubSeq(q, i + 1, Len(q))
<1>1. Len(q) \in Nat /\ i \in Int /\ 1 <= i /\ i <= Len(q)
  OBVIOUS
<1>2. /\ u \in Seq(S) /\ Len(u) = i - 1
      /\ \A j \in 1..(i - 1) : u[j] = q[j]
  <2>1. \A j \in 1..(i - 1) : q[j] \in S
    BY <1>1, ElementOfSeq
  <2>2. /\ u \in Seq(S) /\ Len(u) = IF 1 <= i - 1 THEN (i - 1) - 1 + 1 ELSE 0
        /\ \A j \in 1..((i - 1) - 1 + 1) : u[j] = q[1 + j - 1]
    BY <1>1, <2>1, SubSeqProperties
  <2> HIDE DEF u
  <2> QED BY <1>1, <2>2
<1>3. /\ v \in Seq(S) /\ Len(v) = Len(q) - i
      /\ \A j \in 1..(Len(q) - i) : v[j] = q[j + i]
  <2>1. \A j \in (i + 1)..Len(q) : q[j] \in S
    BY <1>1, ElementOfSeq
  <2>2. /\ v \in Seq(S) /\ Len(v) = IF i + 1 <= Len(q) THEN Len(q) - (i + 1) + 1 ELSE 0
        /\ \A j \in 1..(Len(q) - (i + 1) + 1) : v[j] = q[i + 1 + j - 1]
    BY <1>1, <2>1, SubSeqProperties
  <2> HIDE DEF v
  <2> QED BY <1>1, <2>2
<1> HIDE DEF u, v
<1>4. /\ u \o v \in Seq(S) /\ Len(u \o v) = Len(u) + Len(v)
      /\ \A j \in 1..(Len(u) + Len(v)) :
           (u \o v)[j] = IF j <= Len(u) THEN u[j] ELSE v[j - Len(u)]
  BY <1>2, <1>3, ConcatProperties
<1> DEFINE t == u \o v
<1>5. Out(q, i) = t
  BY DEF Out, u, v
<1> HIDE DEF t
<1>6. t \in Seq(S) /\ Len(t) = Len(q) - 1
  BY <1>1, <1>2, <1>3, <1>4 DEF t
<1>7. ASSUME NEW j \in 1..(Len(q) - 1) PROVE t[j] = IF j < i THEN q[j] ELSE q[j + 1]
  <2>1. t[j] = IF j <= i - 1 THEN u[j] ELSE v[j - (i - 1)]
    BY <1>1, <1>2, <1>3, <1>4 DEF t
  <2>2. CASE j < i
    BY <1>1, <1>2, <2>1, <2>2
  <2>3. CASE j >= i
    <3>1. v[j - (i - 1)] = q[(j - (i - 1)) + i] /\ (j - (i - 1)) + i = j + 1
      BY <1>1, <1>3, <2>3
    <3> QED BY <1>1, <2>1, <2>3, <3>1
  <2> QED BY <1>1, <2>2, <2>3
<1> QED BY <1>5, <1>6, <1>7

(***************************************************************************)
(* The inductive invariant.  A packet is in one place at a time, which is  *)
(* why one number suffices as its reference count; and the queue is in the *)
(* order of writing, which is why its head is the oldest packet.           *)
(***************************************************************************)

Queued(n) == \E i \in 1..Len(s) : s[i].id = n
Held(n) == \E r \in Readers : hand[r] # None /\ hand[r].id = n

\* The queue is in the order the packets were written.
Ordered == /\ \A i, j \in 1..Len(s) : i < j => s[i].id < s[j].id
           /\ \A i \in 1..Len(s) : s[i].id <= written

\* A packet a reader holds has left the queue and is no other reader's.
HandsApart ==
  \A r \in Readers : hand[r] # None =>
    /\ hand[r].id <= written
    /\ ~Queued(hand[r].id)
    /\ \A q \in Readers : hand[q] # None /\ hand[q].id = hand[r].id => q = r

\* A packet has one reference while it is queued or held, and none otherwise.
RefsExact == \A n \in 1..MaxPkts : refs[n] = IF Queued(n) \/ Held(n) THEN 1 ELSE 0

ListInv == TypeOK /\ Ordered /\ HandsApart /\ RefsExact

\* The packets in the queue are numbered packets.
LEMMA QueuedTyped ==
  ASSUME s \in Seq(Pkt)
  PROVE  /\ Len(s) \in Nat
         /\ \A i \in 1..Len(s) : s[i] \in Pkt /\ s[i].id \in 1..MaxPkts /\ s[i].dst \in Dsts
<1>1. \A i \in 1..Len(s) : s[i] \in Pkt
  BY ElementOfSeq
<1> QED BY <1>1, LenProperties DEF Pkt

\* What Put leaves in the queue: a full one without its head, and the new
\* packet at the end.
LEMMA PutQueue ==
  ASSUME ListInv, NEW w \in Writers, NEW d \in Dsts, written < MaxPkts,
         s' = Append(IF Len(s) = Cap THEN Tail(s) ELSE s, [id |-> written + 1, dst |-> d])
  PROVE  LET k == IF Len(s) = Cap THEN 1 ELSE 0
         IN  /\ s' \in Seq(Pkt) /\ Len(s') = Len(s) - k + 1 /\ Len(s') <= Cap
             /\ \A i \in 1..(Len(s) - k) : s'[i] = s[i + k]
             /\ s'[Len(s) - k + 1] = [id |-> written + 1, dst |-> d]
             /\ Len(s) = Cap => Head(s) = s[1] /\ Len(s) > 0
<1> DEFINE e == [id |-> written + 1, dst |-> d]
           q == IF Len(s) = Cap THEN Tail(s) ELSE s
           k == IF Len(s) = Cap THEN 1 ELSE 0
<1>1. /\ s \in Seq(Pkt) /\ Len(s) \in Nat /\ Len(s) <= Cap /\ Cap \in Nat /\ Cap > 0
      /\ e \in Pkt
  BY QueuedTyped, ListAssumption DEF ListInv, TypeOK, Cap, Pkt
<1>2. Len(s) = Cap => /\ Head(s) = s[1] /\ Tail(s) \in Seq(Pkt) /\ Len(Tail(s)) = Len(s) - 1
                      /\ \A i \in 1..(Len(s) - 1) : Tail(s)[i] = s[i + 1]
  BY <1>1, HeadTailProperties, ElementOfSeq
<1>3. /\ q \in Seq(Pkt) /\ Len(q) = Len(s) - k
      /\ \A i \in 1..(Len(s) - k) : q[i] = s[i + k]
  BY <1>1, <1>2
<1> HIDE DEF q, e
<1>4. /\ Append(q, e) \in Seq(Pkt) /\ Len(Append(q, e)) = Len(q) + 1
      /\ \A i \in 1..Len(q) : Append(q, e)[i] = q[i]
      /\ Append(q, e)[Len(q) + 1] = e
  BY <1>1, <1>3, AppendProperties
<1>5. s' = Append(q, e)
  BY DEF q, e
<1>6. /\ s' \in Seq(Pkt) /\ Len(s') = Len(s) - k + 1
      /\ \A i \in 1..(Len(s) - k) : s'[i] = s[i + k]
      /\ s'[Len(s) - k + 1] = e
  BY <1>1, <1>3, <1>4, <1>5
<1> QED BY <1>1, <1>2, <1>6 DEF e

\* A reader that takes the packet at place i, the first that matches.
Takes(r, i) == /\ i \in Matching(r) /\ \A j \in Matching(r) : i <= j
               /\ hand' = [hand EXCEPT ![r] = s[i]]
               /\ s' = Without(i)
               /\ rpc' = [rpc EXCEPT ![r] = "got"]

\* What a reader that takes the packet at place i leaves of the queue.
LEMMA TakeQueue ==
  ASSUME ListInv, NEW r \in Readers, NEW i, Takes(r, i)
  PROVE  /\ i \in 1..Len(s) /\ s[i] \in Pkt
         /\ s' \in Seq(Pkt) /\ Len(s') = Len(s) - 1
         /\ \A j \in 1..(Len(s) - 1) : s'[j] = IF j < i THEN s[j] ELSE s[j + 1]
<1>1. i \in 1..Len(s) /\ s \in Seq(Pkt) /\ s' = Out(s, i)
  BY DEF Takes, Matching, ListInv, TypeOK, Without, Out
<1> QED BY <1>1, TakenOut, QueuedTyped

\* Put keeps the invariant: a dropped head leaves no other trace, and the new
\* packet's number is above all others.
LEMMA PutKeeps ==
  ASSUME ListInv, NEW w \in Writers, Put(w)
  PROVE  ListInv'
<1>1. PICK d \in Dsts :
        /\ wpc[w] = "put" /\ written < MaxPkts
        /\ written' = written + 1
        /\ s' = Append(IF Len(s) = Cap THEN Tail(s) ELSE s, [id |-> written + 1, dst |-> d])
        /\ refs' = [n \in 1..MaxPkts |->
                      CASE n = written + 1 -> refs[n] + 1
                        [] Len(s) = Cap /\ n = Head(s).id -> refs[n] - 1
                        [] OTHER -> refs[n]]
        /\ wpc' = [wpc EXCEPT ![w] = "notify"]
        /\ Pass(d)
        /\ UNCHANGED <<rpc, hand, done, closeVars>>
  BY DEF Put
<1> DEFINE k == IF Len(s) = Cap THEN 1 ELSE 0
<1>2. /\ s' \in Seq(Pkt) /\ Len(s') = Len(s) - k + 1 /\ Len(s') <= Cap
      /\ \A i \in 1..(Len(s) - k) : s'[i] = s[i + k]
      /\ s'[Len(s) - k + 1] = [id |-> written + 1, dst |-> d]
      /\ Len(s) = Cap => Head(s) = s[1] /\ Len(s) > 0
  BY <1>1, PutQueue
<1>3. /\ Len(s) \in Nat /\ k \in 0..1 /\ k <= Len(s)
      /\ \A i \in 1..Len(s) : s[i].id \in 1..MaxPkts /\ s[i].id <= written
      /\ written \in 0..MaxPkts /\ MaxPkts \in Nat
  <2>1. s \in Seq(Pkt) /\ written \in 0..MaxPkts /\ MaxPkts \in Nat
    BY ListAssumption DEF ListInv, TypeOK
  <2>2. Len(s) \in Nat /\ \A i \in 1..Len(s) : s[i].id \in 1..MaxPkts
    BY <2>1, QueuedTyped
  <2> QED BY <1>2, <2>1, <2>2 DEF ListInv, Ordered
<1> HIDE DEF k
<1>4. /\ hand' = hand /\ rpc' = rpc /\ done' = done /\ UNCHANGED closeVars
  BY <1>1
<1>5. Ordered'
  <2>1. \A i \in 1..Len(s') : s'[i].id = IF i <= Len(s) - k THEN s[i + k].id ELSE written + 1
    <3> SUFFICES ASSUME NEW i \in 1..Len(s')
                 PROVE  s'[i].id = IF i <= Len(s) - k THEN s[i + k].id ELSE written + 1
      OBVIOUS
    <3>1. Len(s) - k \in Nat /\ Len(s') = Len(s) - k + 1 /\ i \in 1..(Len(s) - k + 1)
      BY <1>2, <1>3
    <3>2. CASE i <= Len(s) - k
      <4>1. i \in 1..(Len(s) - k)
        BY <3>1, <3>2
      <4>2. s'[i] = s[i + k]
        BY <1>2, <4>1
      <4> QED BY <3>2, <4>2
    <3>3. CASE ~(i <= Len(s) - k)
      <4>1. i = Len(s) - k + 1
        BY <3>1, <3>3
      <4>2. s'[i] = [id |-> written + 1, dst |-> d]
        BY <1>2, <4>1
      <4> QED BY <3>3, <4>2
    <3> QED BY <3>2, <3>3
  <2>2. \A i \in 1..Len(s') : i <= Len(s) - k => i + k \in 1..Len(s)
    BY <1>2, <1>3
  <2>3. \A i \in 1..Len(s') : s'[i].id <= written'
    BY <1>1, <1>2, <1>3, <2>1, <2>2
  <2>4. ASSUME NEW i \in 1..Len(s'), NEW j \in 1..Len(s'), i < j PROVE s'[i].id < s'[j].id
    <3>1. i <= Len(s) - k /\ i + k \in 1..Len(s) /\ s'[i].id = s[i + k].id
      BY <1>2, <1>3, <2>1, <2>2, <2>4
    <3>2. CASE j <= Len(s) - k
      BY <1>3, <2>1, <2>2, <2>4, <3>1, <3>2 DEF ListInv, Ordered
    <3>3. CASE ~(j <= Len(s) - k)
      BY <1>3, <2>1, <3>1, <3>3
    <3> QED BY <3>2, <3>3
  <2> QED BY <2>3, <2>4 DEF Ordered
<1>6. \A n \in 1..MaxPkts :
        Queued(n)' <=> n = written + 1 \/ (Queued(n) /\ ~(k = 1 /\ n = s[1].id))
  <2> TAKE n \in 1..MaxPkts
  <2>1. Queued(n)' => n = written + 1 \/ (Queued(n) /\ ~(k = 1 /\ n = s[1].id))
    <3> SUFFICES ASSUME NEW i \in 1..Len(s'), s'[i].id = n, n # written + 1
                 PROVE  Queued(n) /\ ~(k = 1 /\ n = s[1].id)
      BY DEF Queued
    <3>1. i <= Len(s) - k
      BY <1>2, <1>3
    <3>2. i + k \in 1..Len(s) /\ s[i + k].id = n /\ (k = 1 => 1 < i + k)
      BY <1>2, <1>3, <3>1
    <3> QED BY <1>3, <3>2 DEF Queued, ListInv, Ordered
  <2>2. n = written + 1 => Queued(n)'
    <3>1. Len(s) - k + 1 \in 1..Len(s')
      BY <1>2, <1>3
    <3> QED BY <1>2, <3>1 DEF Queued
  <2>3. ASSUME NEW i \in 1..Len(s), s[i].id = n, ~(k = 1 /\ n = s[1].id) PROVE Queued(n)'
    <3>1. i - k \in 1..(Len(s) - k) /\ (i - k) + k = i
      BY <1>3, <2>3
    <3>2. i - k \in 1..Len(s') /\ s'[i - k].id = n
      BY <1>2, <1>3, <2>3, <3>1
    <3> QED BY <3>2 DEF Queued
  <2> QED BY <2>1, <2>2, <2>3 DEF Queued
<1>7. \A n \in 1..MaxPkts : Held(n)' <=> Held(n)
  BY <1>4 DEF Held
<1>8. ~Queued(written + 1) /\ ~Held(written + 1)
  BY <1>3 DEF Queued, Held, ListInv, HandsApart
<1>9. k = 1 => s[1].id \in 1..MaxPkts /\ Queued(s[1].id) /\ ~Held(s[1].id) /\ s[1].id # written + 1
  <2> SUFFICES ASSUME k = 1
               PROVE  s[1].id \in 1..MaxPkts /\ Queued(s[1].id) /\ ~Held(s[1].id) /\ s[1].id # written + 1
    OBVIOUS
  <2>1. 1 \in 1..Len(s) /\ s[1].id \in 1..MaxPkts /\ s[1].id <= written
    BY <1>3
  <2> QED BY <1>3, <2>1 DEF Queued, Held, ListInv, HandsApart
<1>10. RefsExact'
  <2> SUFFICES ASSUME NEW n \in 1..MaxPkts
               PROVE  refs'[n] = IF Queued(n)' \/ Held(n)' THEN 1 ELSE 0
    BY DEF RefsExact
  <2>1. refs[n] = IF Queued(n) \/ Held(n) THEN 1 ELSE 0
    BY DEF ListInv, RefsExact
  <2>2. CASE n = written + 1
    <3>1. refs[n] = 0
      BY <1>8, <2>1, <2>2
    <3>2. refs'[n] = refs[n] + 1
      BY <1>1, <1>2, <1>9, <2>2 DEF k
    <3>3. Queued(n)'
      BY <1>6, <2>2
    <3> QED BY <3>1, <3>2, <3>3
  <2>3. CASE n # written + 1 /\ k = 1 /\ n = s[1].id
    <3>1. refs'[n] = refs[n] - 1
      BY <1>1, <1>2, <2>3 DEF k
    <3> QED BY <1>6, <1>7, <1>9, <2>1, <2>3, <3>1
  <2>4. CASE n # written + 1 /\ ~(k = 1 /\ n = s[1].id)
    <3>1. refs'[n] = refs[n]
      BY <1>1, <1>2, <2>4 DEF k
    <3> QED BY <1>6, <1>7, <2>1, <2>4, <3>1
  <2> QED BY <2>2, <2>3, <2>4
<1>11. HandsApart'
  <2>1. ASSUME NEW r \in Readers, hand[r] # None
        PROVE  \E n \in 1..MaxPkts : n = hand[r].id /\ n <= written' /\ ~Queued(n)'
    <3>1. hand[r].id <= written /\ ~Queued(hand[r].id) /\ hand[r].id \in 1..MaxPkts
      BY <2>1 DEF ListInv, HandsApart, TypeOK, Pkt
    <3> QED BY <1>1, <1>3, <1>6, <3>1
  <2> QED BY <1>4, <2>1 DEF ListInv, HandsApart, Queued
<1>12. TypeOK'
  <2>1. refs' \in [1..MaxPkts -> 0..1]
    <3>1. \A n \in 1..MaxPkts : refs'[n] \in 0..1
      BY <1>10 DEF RefsExact
    <3>2. DOMAIN refs' = 1..MaxPkts /\ refs' = [n \in DOMAIN refs' |-> refs'[n]]
      BY <1>1
    <3> QED BY <3>1, <3>2
  <2>2. written' \in 0..MaxPkts
    BY <1>1, <1>3
  <2>3. gap' \in [Readers -> SUBSET (1..MaxPkts)]
    BY <1>1, <1>3 DEF Pass, ListInv, TypeOK
  <2> QED BY <1>1, <1>2, <1>4, <2>1, <2>2, <2>3 DEF ListInv, TypeOK, closeVars
<1> QED BY <1>5, <1>10, <1>11, <1>12 DEF ListInv

\* A reader that takes a packet keeps the invariant: what was queued is held.
LEMMA TakeKeeps ==
  ASSUME ListInv, NEW r \in Readers, NEW i, Takes(r, i), rpc[r] # "got",
         gap' = [gap EXCEPT ![r] = {}], UNCHANGED <<refs, writeVars, done, closeVars>>
  PROVE  ListInv'
<1> DEFINE m == s[i].id
<1>1. /\ i \in 1..Len(s) /\ s[i] \in Pkt /\ m \in 1..MaxPkts
      /\ s' \in Seq(Pkt) /\ Len(s') = Len(s) - 1
      /\ \A j \in 1..(Len(s) - 1) : s'[j] = IF j < i THEN s[j] ELSE s[j + 1]
  BY TakeQueue DEF Pkt
<1>2. /\ Len(s) \in Nat /\ i \in Int /\ Len(s) <= Cap /\ Cap \in Nat
      /\ \A j \in 1..Len(s) : s[j].id \in 1..MaxPkts /\ s[j].id <= written
      /\ \A j, k \in 1..Len(s) : j < k => s[j].id < s[k].id
      /\ written' = written /\ written \in 0..MaxPkts /\ MaxPkts \in Nat
  <2>1. s \in Seq(Pkt) /\ written \in 0..MaxPkts /\ MaxPkts \in Nat /\ Cap \in Nat /\ Len(s) <= Cap
    BY ListAssumption DEF ListInv, TypeOK, Cap
  <2>2. Len(s) \in Nat /\ \A j \in 1..Len(s) : s[j].id \in 1..MaxPkts
    BY <2>1, QueuedTyped
  <2> QED BY <1>1, <2>1, <2>2 DEF ListInv, Ordered, writeVars
<1>3. /\ hand' = [hand EXCEPT ![r] = s[i]] /\ hand[r] = None /\ s[i] # None
      /\ hand \in [Readers -> Pkt \cup {None}]
  BY <1>1, ListAssumption DEF Takes, ListInv, TypeOK
<1> HIDE DEF m
<1> DEFINE from == [j \in 1..Len(s') |-> IF j < i THEN j ELSE j + 1]
<1>from. /\ \A j \in 1..Len(s') : from[j] \in 1..Len(s) /\ s'[j] = s[from[j]] /\ from[j] # i
      /\ \A j, k \in 1..Len(s') : j < k => from[j] < from[k]
  BY <1>1, <1>2
<1> HIDE DEF from
<1>4. Ordered'
  BY <1>2, <1>from DEF Ordered
<1>5. \A n \in 1..MaxPkts : Queued(n)' <=> Queued(n) /\ n # m
  <2> TAKE n \in 1..MaxPkts
  <2>1. ASSUME NEW j \in 1..Len(s'), s'[j].id = n PROVE Queued(n) /\ n # m
    <3>1. from[j] \in 1..Len(s) /\ s[from[j]].id = n /\ from[j] # i
      BY <1>from, <2>1
    <3>2. n # m
      <4>1. from[j] < i \/ i < from[j]
        BY <1>2, <3>1
      <4>2. s[from[j]].id < m \/ m < s[from[j]].id
        BY <1>1, <1>2, <3>1, <4>1 DEF m
      <4> QED BY <1>1, <3>1, <4>2
    <3> QED BY <3>1, <3>2 DEF Queued
  <2>2. ASSUME NEW j \in 1..Len(s), s[j].id = n, n # m PROVE Queued(n)'
    <3>1. j # i
      BY <2>2 DEF m
    <3>2. CASE j < i
      <4>1. j \in 1..Len(s') /\ s'[j].id = n
        BY <1>1, <1>2, <2>2, <3>2
      <4> QED BY <4>1 DEF Queued
    <3>3. CASE j > i
      <4>1. j - 1 \in 1..(Len(s) - 1) /\ ~(j - 1 < i) /\ (j - 1) + 1 = j
        BY <1>1, <1>2, <2>2, <3>3
      <4>2. j - 1 \in 1..Len(s') /\ s'[j - 1] = s[j]
        BY <1>1, <4>1
      <4> QED BY <2>2, <4>2 DEF Queued
    <3> QED BY <1>1, <1>2, <3>1, <3>2, <3>3
  <2> QED BY <2>1, <2>2 DEF Queued
<1>6. Queued(m) /\ ~Held(m)
  BY <1>1 DEF Queued, Held, ListInv, HandsApart, m
<1>7. \A q \in Readers : hand'[q] = IF q = r THEN s[i] ELSE hand[q]
  BY <1>3
<1>8. \A n \in 1..MaxPkts : Held(n)' <=> Held(n) \/ n = m
  BY <1>3, <1>7 DEF Held, m
<1>9. RefsExact'
  <2> SUFFICES ASSUME NEW n \in 1..MaxPkts
               PROVE  refs'[n] = IF Queued(n)' \/ Held(n)' THEN 1 ELSE 0
    BY DEF RefsExact
  <2>1. refs'[n] = IF Queued(n) \/ Held(n) THEN 1 ELSE 0
    BY DEF ListInv, RefsExact
  <2>2. CASE n = m
    <3>1. Queued(n) /\ Held(n)'
      BY <1>6, <1>8, <2>2
    <3> QED BY <2>1, <3>1
  <2>3. CASE n # m
    BY <1>5, <1>8, <2>1, <2>3
  <2> QED BY <2>2, <2>3
<1>10. HandsApart'
  <2>1. \A q \in Readers : hand'[q] # None =>
          \E n \in 1..MaxPkts : n = hand'[q].id /\ n <= written' /\ ~Queued(n)'
    <3> TAKE q \in Readers
    <3>1. CASE q = r
      BY <1>1, <1>2, <1>5, <1>7, <3>1 DEF m
    <3>2. CASE q # r /\ hand[q] # None
      <4>1. hand[q].id \in 1..MaxPkts /\ hand[q].id <= written /\ ~Queued(hand[q].id)
        BY <1>3, <3>2 DEF ListInv, HandsApart, Pkt
      <4> QED BY <1>2, <1>5, <1>7, <3>2, <4>1
    <3> QED BY <1>7, <3>1, <3>2
  <2>2. \A p, q \in Readers :
          hand'[p] # None /\ hand'[q] # None /\ hand'[q].id = hand'[p].id => q = p
    <3> SUFFICES ASSUME NEW p \in Readers, NEW q \in Readers,
                        hand'[p] # None, hand'[q] # None, hand'[q].id = hand'[p].id, q # p
                 PROVE  FALSE
      OBVIOUS
    <3>1. CASE p # r /\ q # r
      BY <1>7, <3>1 DEF ListInv, HandsApart
    <3>2. CASE p = r \/ q = r
      BY <1>6, <1>7, <3>2 DEF Held, m
    <3> QED BY <3>1, <3>2
  <2> QED BY <2>1, <2>2 DEF HandsApart, Queued
<1>11. TypeOK'
  <2>1. rpc' = [rpc EXCEPT ![r] = "got"]
    BY DEF Takes
  <2>2. hand' \in [Readers -> Pkt \cup {None}]
    BY <1>1, <1>3
  <2>3. rpc' \in [Readers -> {"idle", "select", "lock", "wait", "woken", "got", "returned"}]
    BY <2>1 DEF ListInv, TypeOK
  <2>4. \A q \in Readers : rpc'[q] = "got" <=> hand'[q] # None
    BY <1>3, <1>7, <2>1 DEF ListInv, TypeOK
  <2>5. s' \in Seq(Pkt) /\ Len(s') <= Cap
    BY <1>1, <1>2
  <2>6. gap' \in [Readers -> SUBSET (1..MaxPkts)]
    BY DEF ListInv, TypeOK
  <2> QED BY <2>2, <2>3, <2>4, <2>5, <2>6 DEF ListInv, TypeOK, writeVars, closeVars
<1> QED BY <1>4, <1>9, <1>10, <1>11 DEF ListInv

\* Outbound keeps the invariant: the reference goes with the packet.
LEMMA OutboundKeeps ==
  ASSUME ListInv, NEW r \in Readers, Outbound(r)
  PROVE  ListInv'
<1> DEFINE m == hand[r].id
<1>1. /\ rpc[r] = "got" /\ hand[r] \in Pkt /\ hand[r] # None /\ m \in 1..MaxPkts
      /\ hand \in [Readers -> Pkt \cup {None}]
      /\ refs \in [1..MaxPkts -> 0..1]
  BY DEF Outbound, ListInv, TypeOK, Pkt
<1>2. /\ hand' = [hand EXCEPT ![r] = None] /\ refs' = [refs EXCEPT ![m] = @ - 1]
      /\ s' = s /\ written' = written
  BY DEF Outbound, writeVars
<1>3. ~Queued(m) /\ Held(m)
  BY <1>1 DEF ListInv, HandsApart, Held
<1>4. \A n \in 1..MaxPkts : Queued(n)' <=> Queued(n)
  BY <1>2 DEF Queued
<1>5. \A q \in Readers : hand'[q] = IF q = r THEN None ELSE hand[q]
  BY <1>1, <1>2
<1>6. \A n \in 1..MaxPkts : Held(n)' <=> Held(n) /\ n # m
  <2> TAKE n \in 1..MaxPkts
  <2>1. Held(n)' => Held(n) /\ n # m
    BY <1>1, <1>5 DEF Held, ListInv, HandsApart
  <2>2. Held(n) /\ n # m => Held(n)'
    BY <1>5 DEF Held
  <2> QED BY <2>1, <2>2
<1>7. RefsExact'
  <2> SUFFICES ASSUME NEW n \in 1..MaxPkts
               PROVE  refs'[n] = IF Queued(n)' \/ Held(n)' THEN 1 ELSE 0
    BY DEF RefsExact
  <2>1. refs[n] = IF Queued(n) \/ Held(n) THEN 1 ELSE 0
    BY DEF ListInv, RefsExact
  <2>2. CASE n = m
    <3>1. refs[n] = 1 /\ refs'[n] = refs[n] - 1
      BY <1>1, <1>2, <1>3, <2>1, <2>2
    <3>2. ~Queued(n)' /\ ~Held(n)'
      BY <1>3, <1>4, <1>6, <2>2
    <3> QED BY <3>1, <3>2
  <2>3. CASE n # m
    <3>1. refs'[n] = refs[n]
      BY <1>1, <1>2, <2>3
    <3> QED BY <1>4, <1>6, <2>1, <2>3, <3>1
  <2> QED BY <2>2, <2>3
<1>8. Ordered'
  BY <1>2 DEF ListInv, Ordered
<1>9. HandsApart'
  BY <1>2, <1>5 DEF ListInv, HandsApart, Queued
<1>10. TypeOK'
  <2>1. refs' \in [1..MaxPkts -> 0..1]
    <3>1. refs'[m] \in 0..1
      BY <1>1, <1>7 DEF RefsExact
    <3> QED BY <1>1, <1>2, <3>1
  <2>2. hand' \in [Readers -> Pkt \cup {None}]
    BY <1>1, <1>2
  <2>3. PICK where \in {"idle", "returned"} : rpc' = [rpc EXCEPT ![r] = where]
    BY DEF Outbound
  <2>4. \A q \in Readers : rpc'[q] = "got" <=> hand'[q] # None
    BY <1>5, <2>3 DEF ListInv, TypeOK
  <2> QED BY <1>2, <2>1, <2>2, <2>3, <2>4 DEF Outbound, ListInv, TypeOK, writeVars, closeVars
<1> QED BY <1>7, <1>8, <1>9, <1>10 DEF ListInv

\* Steps that leave the packets alone.
LEMMA IdleKeeps ==
  ASSUME ListInv, UNCHANGED <<s, refs, written, hand>>, TypeOK'
  PROVE  ListInv'
BY DEF ListInv, Ordered, HandsApart, RefsExact, Queued, Held

\* Every step of the writers, the readers and Close keeps the invariant.
LEMMA ListInvStep ==
  ASSUME ListInv, [Next]_vars
  PROVE  ListInv'
<1> USE DEF writeVars, readVars, closeVars
<1>1. TypeOK
  BY DEF ListInv
<1>2. ASSUME NEW w \in Writers, WritePackets(w) PROVE ListInv'
  BY <1>1, <1>2, IdleKeeps DEF WritePackets, TypeOK
<1>3. ASSUME NEW w \in Writers, Put(w) PROVE ListInv'
  BY <1>3, PutKeeps
<1>4. ASSUME NEW w \in Writers, Notify(w) PROVE ListInv'
  <2>1. PICK where \in {"put", "idle"} : wpc' = [wpc EXCEPT ![w] = where]
    BY <1>4 DEF Notify
  <2>2. TypeOK'
    BY <1>1, <1>4, <2>1 DEF Notify, TypeOK, Waiting
  <2> QED BY <1>4, <2>2, IdleKeeps DEF Notify
<1>5. ASSUME NEW r \in Readers, NEW p, p # "got", rpc[r] = p, p \in {"idle", "woken"},
             Take(r, "select"), UNCHANGED <<refs, writeVars, done, closeVars>>
      PROVE  ListInv'
  <2>1. CASE \E i \in Matching(r) : Takes(r, i)
    BY <1>5, <2>1, TakeKeeps DEF Take
  <2>2. CASE rpc' = [rpc EXCEPT ![r] = "select"] /\ UNCHANGED <<s, hand>>
    <3>1. TypeOK'
      BY <1>1, <1>5, <2>2 DEF TypeOK, Take
    <3> QED BY <1>5, <2>2, <3>1, IdleKeeps
  <2> QED BY <1>5, <2>1, <2>2 DEF Take, Takes
<1>6. ASSUME NEW r \in Readers, Get(r) \/ Retry(r) PROVE ListInv'
  BY <1>5, <1>6 DEF Get, Retry
<1>7. ASSUME NEW r \in Readers, Select(r) PROVE ListInv'
  BY <1>1, <1>7, IdleKeeps DEF Select, TypeOK
<1>8. ASSUME NEW r \in Readers, Wait(r) PROVE ListInv'
  BY <1>1, <1>8, IdleKeeps DEF Wait, TypeOK
<1>9. ASSUME NEW r \in Readers, Outbound(r) PROVE ListInv'
  BY <1>9, OutboundKeeps
<1>10. ASSUME NEW r \in Readers, Cancel(r) PROVE ListInv'
  BY <1>1, <1>10, IdleKeeps DEF Cancel, TypeOK
<1>11. CASE SynClose
  BY <1>1, <1>11, IdleKeeps DEF SynClose, TypeOK
<1>12. CASE Deadline
  BY <1>1, <1>12, IdleKeeps DEF Deadline, TypeOK
<1>13. CASE Closing
  BY <1>1, <1>13, IdleKeeps DEF Closing, SynLoop, SynReturn, TypeOK
<1>14. CASE Quiet \/ UNCHANGED vars
  BY <1>1, <1>14, IdleKeeps DEF Quiet, vars, TypeOK
<1> QED BY <1>2, <1>3, <1>4, <1>6, <1>7, <1>8, <1>9, <1>10, <1>11, <1>12, <1>13, <1>14
        DEF Next, Writer, Reader

\* The queue is ordered, nobody holds what is queued or what another holds, and the
\* references on a packet are those of the queue and the readers, in every state.
THEOREM ListInvariant == Spec => []ListInv
<1>1. Init => ListInv
  <2> SUFFICES ASSUME Init PROVE ListInv
    OBVIOUS
  <2>1. s = <<>> /\ Len(s) = 0 /\ s \in Seq(Pkt)
    BY DEF Init
  <2>2. \A n \in 1..MaxPkts : ~Queued(n) /\ ~Held(n) /\ refs[n] = 0
    BY <2>1 DEF Init, Queued, Held
  <2>3. TypeOK
    <3>1. Len(s) <= Cap /\ MaxPkts \in Nat
      BY <2>1, ListAssumption DEF Cap
    <3>2. written \in 0..MaxPkts /\ refs \in [1..MaxPkts -> 0..1]
      BY <3>1 DEF Init
    <3>3. /\ hand \in [Readers -> Pkt \cup {None}]
          /\ \A r \in Readers : rpc[r] = "got" <=> hand[r] # None
      BY DEF Init
    <3>4. /\ wpc \in [Writers -> {"idle", "put", "notify"}]
          /\ rpc \in [Readers -> {"idle", "select", "lock", "wait", "woken", "got", "returned"}]
          /\ done \in SUBSET Readers /\ gap \in [Readers -> SUBSET (1..MaxPkts)]
          /\ closed \in BOOLEAN /\ late \in BOOLEAN
          /\ synpc \in {"idle", "loop", "size", "nil", "timeout"}
          /\ closed <=> synpc # "idle"
      BY DEF Init
    <3> QED BY <2>1, <3>1, <3>2, <3>3, <3>4 DEF TypeOK
  <2> QED BY <2>1, <2>2, <2>3 DEF ListInv, Ordered, HandsApart, RefsExact, Init
<1> QED BY <1>1, ListInvStep, PTL DEF Spec

\* The queue stays within its capacity, no reference count goes below zero or
\* above one, and a reader holds a packet just while it is in Outbound.
THEOREM ListTypeCorrect == Spec => []TypeOK
<1>1. ListInv => TypeOK
  BY DEF ListInv
<1> QED BY <1>1, ListInvariant, PTL

\* References balance whatever is dropped, taken or left by a SynClose.
THEOREM ListRefsBalanced == Spec => []RefsBalanced
<1>1. ListInv => RefsBalanced
  <2> SUFFICES ASSUME ListInv, NEW n \in 1..MaxPkts
               PROVE  refs[n] = Cardinality({i \in 1..Len(s) : s[i].id = n})
                                + Cardinality({r \in Readers : hand[r] # None /\ hand[r].id = n})
    BY DEF RefsBalanced
  <2> DEFINE Q == {i \in 1..Len(s) : s[i].id = n}
             H == {r \in Readers : hand[r] # None /\ hand[r].id = n}
  <2> SUFFICES refs[n] = Cardinality(Q) + Cardinality(H)
    OBVIOUS
  <2> HIDE DEF Q, H
  <2>1. refs[n] = IF Queued(n) \/ Held(n) THEN 1 ELSE 0
    BY DEF ListInv, RefsExact
  <2>2. CASE Queued(n)
    <3>1. PICK i \in 1..Len(s) : s[i].id = n
      BY <2>2 DEF Queued
    <3>2. \A j \in 1..Len(s) : s[j].id = n => j = i
      <4> TAKE j \in 1..Len(s)
      <4>1. s \in Seq(Pkt)
        BY DEF ListInv, TypeOK
      <4>2. s[i].id \in Int /\ s[j].id \in Int /\ i \in Int /\ j \in Int
        BY <4>1, QueuedTyped
      <4> QED BY <3>1, <4>2 DEF ListInv, Ordered
    <3>3. Q = {i} /\ H = {}
      BY <2>2, <3>1, <3>2 DEF ListInv, HandsApart, Q, H
    <3>4. Cardinality(Q) = 1 /\ Cardinality(H) = 0
      BY <3>3, FS_Singleton, FS_EmptySet
    <3> QED BY <2>1, <2>2, <3>4
  <2>3. CASE ~Queued(n) /\ Held(n)
    <3>1. PICK r \in Readers : hand[r] # None /\ hand[r].id = n
      BY <2>3 DEF Held
    <3>2. Q = {} /\ H = {r}
      BY <2>3, <3>1 DEF Queued, ListInv, HandsApart, Q, H
    <3> QED BY <2>1, <2>3, <3>2, FS_Singleton, FS_EmptySet
  <2>4. CASE ~Queued(n) /\ ~Held(n)
    <3>1. Q = {} /\ H = {}
      BY <2>4 DEF Queued, Held, Q, H
    <3> QED BY <2>1, <2>4, <3>1, FS_EmptySet
  <2> QED BY <2>2, <2>3, <2>4
<1> QED BY <1>1, ListInvariant, PTL

\* What OldestLeavesFirst says of one step.
LeavesInOrder ==
  \A i \in 1..Len(s) : (\A k \in 1..Len(s') : s'[k] # s[i]) =>
    \A k \in 1..Len(s') : s'[k].dst = s[i].dst => s[i].id < s'[k].id

\* The packets of a destination leave in the order of writing, for any readers'
\* filters: a full queue drops its head, and a reader takes its first match.
THEOREM ListOldestLeavesFirst == Spec => OldestLeavesFirst
<1>1. ASSUME ListInv, NEW w \in Writers, Put(w) PROVE LeavesInOrder
  <2>1. PICK d \in Dsts :
          /\ written < MaxPkts
          /\ s' = Append(IF Len(s) = Cap THEN Tail(s) ELSE s, [id |-> written + 1, dst |-> d])
    BY <1>1 DEF Put
  <2> DEFINE k == IF Len(s) = Cap THEN 1 ELSE 0
  <2>2. /\ s' \in Seq(Pkt) /\ Len(s') = Len(s) - k + 1
        /\ \A i \in 1..(Len(s) - k) : s'[i] = s[i + k]
        /\ s'[Len(s) - k + 1] = [id |-> written + 1, dst |-> d]
    BY <1>1, <2>1, PutQueue
  <2>3. k \in 0..1
    OBVIOUS
  <2> HIDE DEF k
  <2>4. Len(s) \in Nat /\ written \in Nat /\ \A i \in 1..Len(s) : s[i].id \in Int /\ s[i].id <= written
    <3>1. s \in Seq(Pkt) /\ written \in 0..MaxPkts /\ MaxPkts \in Nat
      BY <1>1, ListAssumption DEF ListInv, TypeOK
    <3> QED BY <1>1, <3>1, QueuedTyped DEF ListInv, Ordered
  <2>5. ASSUME NEW i \in 1..Len(s), \A j \in 1..Len(s') : s'[j] # s[i], NEW j \in 1..Len(s')
        PROVE  s[i].id < s'[j].id
    <3>1. i <= k
      <4> SUFFICES ASSUME i > k PROVE FALSE
        BY <2>3
      <4>1. i - k \in 1..(Len(s) - k) /\ i - k \in 1..Len(s') /\ s'[i - k] = s[(i - k) + k]
        BY <2>2, <2>3, <2>4
      <4> QED BY <2>3, <2>5, <4>1
    <3>2. CASE j <= Len(s) - k
      <4>1. j + k \in 1..Len(s) /\ i < j + k /\ s'[j] = s[j + k]
        BY <2>2, <2>3, <2>4, <3>1, <3>2
      <4> QED BY <1>1, <4>1 DEF ListInv, Ordered
    <3>3. CASE ~(j <= Len(s) - k)
      BY <2>2, <2>3, <2>4, <3>3
    <3> QED BY <3>2, <3>3
  <2> QED BY <2>5 DEF LeavesInOrder
<1>2. ASSUME ListInv, NEW r \in Readers, NEW i, Takes(r, i) PROVE LeavesInOrder
  <2>1. /\ i \in 1..Len(s) /\ s' \in Seq(Pkt) /\ Len(s') = Len(s) - 1
        /\ \A j \in 1..(Len(s) - 1) : s'[j] = IF j < i THEN s[j] ELSE s[j + 1]
    BY <1>2, TakeQueue
  <2>2. Len(s) \in Nat /\ i \in Int
    <3>1. s \in Seq(Pkt)
      BY <1>2 DEF ListInv, TypeOK
    <3> QED BY <2>1, <3>1, QueuedTyped
  <2>3. ASSUME NEW j \in 1..Len(s), \A k \in 1..Len(s') : s'[k] # s[j] PROVE j = i
    <3>1. CASE j < i
      BY <2>1, <2>2, <2>3, <3>1
    <3>2. CASE j > i
      <4>1. j - 1 \in 1..Len(s') /\ s'[j - 1] = s[(j - 1) + 1]
        BY <2>1, <2>2, <3>2
      <4> QED BY <2>2, <2>3, <4>1
    <3> QED BY <2>2, <3>1, <3>2
  <2>4. ASSUME NEW k \in 1..Len(s'), s'[k].dst = s[i].dst PROVE s[i].id < s'[k].id
    <3>1. PICK m \in 1..Len(s) : s'[k] = s[m] /\ m # i
      BY <2>1, <2>2
    <3>2. m \in Matching(r) /\ i <= m
      BY <1>2, <2>4, <3>1 DEF Takes, Matching
    <3> QED BY <1>2, <2>1, <2>2, <3>1, <3>2 DEF ListInv, Ordered
  <2> QED BY <2>3, <2>4 DEF LeavesInOrder
<1>3. ASSUME s' = s PROVE LeavesInOrder
  BY <1>3 DEF LeavesInOrder
<1>4. ListInv /\ [Next]_vars => [LeavesInOrder]_vars
  <2> SUFFICES ASSUME ListInv, Next PROVE LeavesInOrder
    OBVIOUS
  <2>1. CASE \E w \in Writers : Put(w)
    BY <1>1, <2>1
  <2>2. CASE \E r \in Readers : Take(r, "select")
    BY <1>2, <1>3, <2>2 DEF Take, Takes
  <2>3. \/ s' = s \/ (\E w \in Writers : Put(w)) \/ \E r \in Readers : Take(r, "select")
    BY DEF Next, Writer, WritePackets, Notify, Reader, Get, Select, Wait, Retry, Outbound,
           Cancel, SynClose, Deadline, Closing, SynLoop, SynReturn, Quiet, vars
  <2> QED BY <1>3, <2>1, <2>2, <2>3
<1> QED BY <1>4, ListInvariant, PTL DEF Spec, OldestLeavesFirst, LeavesInOrder

(***************************************************************************)
(* The wake-ups of Get and GetBy.                                          *)
(***************************************************************************)

\* What a reader that has tried and does not wait yet may find in the queue:
\* the packets put since its try.
TriedInVain ==
  \A r \in Readers : rpc[r] \in {"select", "lock"} =>
    \A i \in Matching(r) : s[i].id \in gap[r]

WakeInv == TriedInVain /\ AsleepOnlyInTheGap

\* Put: the new packet is in the gap of whoever is on its way to wait, and who
\* waits already has the Broadcast coming.
LEMMA PutWakes ==
  ASSUME ListInv, WakeInv, NEW w \in Writers, Put(w)
  PROVE  WakeInv'
<1>1. PICK d \in Dsts :
        /\ written < MaxPkts
        /\ s' = Append(IF Len(s) = Cap THEN Tail(s) ELSE s, [id |-> written + 1, dst |-> d])
        /\ wpc' = [wpc EXCEPT ![w] = "notify"]
        /\ Pass(d) /\ rpc' = rpc
  BY DEF Put
<1> DEFINE k == IF Len(s) = Cap THEN 1 ELSE 0
<1>2. /\ Len(s') = Len(s) - k + 1
      /\ \A i \in 1..(Len(s) - k) : s'[i] = s[i + k]
      /\ s'[Len(s) - k + 1] = [id |-> written + 1, dst |-> d]
  BY <1>1, PutQueue
<1>3. k \in 0..1
  OBVIOUS
<1> HIDE DEF k
<1>4. Len(s) \in Nat
  BY QueuedTyped DEF ListInv, TypeOK
<1>5. wpc'[w] = "notify"
  BY <1>1 DEF ListInv, TypeOK
<1>6. ASSUME NEW r \in Readers, rpc[r] \in {"select", "lock"}, NEW i \in Matching(r)'
      PROVE  s'[i].id \in gap'[r]
  <2>1. i \in 1..Len(s') /\ s'[i].dst \in Filter[r]
    BY <1>6 DEF Matching
  <2>2. gap'[r] = IF d \in Filter[r] THEN gap[r] \cup {written + 1} ELSE gap[r]
    BY <1>1, <1>6 DEF Pass
  <2>3. CASE i <= Len(s) - k
    <3>1. i + k \in 1..Len(s) /\ s'[i] = s[i + k]
      BY <1>2, <1>3, <1>4, <2>1, <2>3
    <3>2. i + k \in Matching(r)
      BY <2>1, <3>1 DEF Matching
    <3> QED BY <1>6, <2>2, <3>1, <3>2 DEF WakeInv, TriedInVain
  <2>4. CASE ~(i <= Len(s) - k)
    <3>1. s'[i] = [id |-> written + 1, dst |-> d]
      BY <1>2, <1>3, <1>4, <2>1, <2>4
    <3> QED BY <2>1, <2>2, <3>1
  <2> QED BY <2>3, <2>4
<1> QED BY <1>1, <1>5, <1>6 DEF WakeInv, TriedInVain, AsleepOnlyInTheGap

\* A reader's try: it has its packet, or there is none for it; the others find
\* no packet that was not there.
LEMMA TakeWakes ==
  ASSUME ListInv, WakeInv, NEW r \in Readers, Take(r, "select"), UNCHANGED wpc
  PROVE  WakeInv'
<1>1. /\ rpc \in [Readers -> {"idle", "select", "lock", "wait", "woken", "got", "returned"}]
      /\ \A q \in Readers \ {r} : gap'[q] = gap[q]
  BY DEF Take, ListInv, TypeOK
<1>2. ASSUME NEW i, Takes(r, i) PROVE WakeInv'
  <2>1. /\ i \in 1..Len(s) /\ Len(s') = Len(s) - 1
        /\ \A j \in 1..(Len(s) - 1) : s'[j] = IF j < i THEN s[j] ELSE s[j + 1]
    BY <1>2, TakeQueue
  <2>2. Len(s) \in Nat
    BY QueuedTyped DEF ListInv, TypeOK
  <2>3. \A q \in Readers : \A j \in Matching(q)' : \E m \in Matching(q) : s'[j] = s[m]
    BY <2>1, <2>2 DEF Matching
  <2>4. rpc'[r] = "got" /\ \A q \in Readers \ {r} : rpc'[q] = rpc[q]
    BY <1>1, <1>2 DEF Takes
  <2> QED BY <1>1, <2>3, <2>4 DEF WakeInv, TriedInVain, AsleepOnlyInTheGap
<1>3. ASSUME Matching(r) = {}, rpc' = [rpc EXCEPT ![r] = "select"], s' = s PROVE WakeInv'
  <2>1. \A q \in Readers : Matching(q)' = Matching(q)
    BY <1>3 DEF Matching
  <2>2. rpc'[r] = "select" /\ \A q \in Readers \ {r} : rpc'[q] = rpc[q]
    BY <1>1, <1>3
  <2> QED BY <1>1, <1>3, <2>1, <2>2 DEF WakeInv, TriedInVain, AsleepOnlyInTheGap
<1> QED BY <1>2, <1>3 DEF Take, Takes

\* Steps of the readers on their way to wait, and all others that leave the
\* queue alone and send no reader to wait from elsewhere.
LEMMA RestWakes ==
  ASSUME WakeInv, UNCHANGED <<s, gap>>,
         \A r \in Readers : rpc'[r] \in {"select", "lock"} => rpc[r] \in {"select", "lock"},
         \A r \in Readers : rpc'[r] = "wait" =>
           \/ rpc[r] = "lock"
           \/ rpc[r] = "wait" /\ \A w \in Writers : wpc[w] = "notify" => wpc'[w] = "notify"
  PROVE  WakeInv'
<1>1. \A r \in Readers : Matching(r)' = Matching(r)
  BY DEF Matching
<1> QED BY <1>1 DEF WakeInv, TriedInVain, AsleepOnlyInTheGap

\* No reader sleeps beside a packet for it that was put before its last try or
\* after it began to wait, unless the Broadcast is coming; for any number of
\* writers and readers, any filters and any capacity.
THEOREM ListAsleepOnlyInTheGap == Spec => []AsleepOnlyInTheGap
<1>1. Init => WakeInv
  BY DEF Init, WakeInv, TriedInVain, AsleepOnlyInTheGap
<1>2. ListInv /\ WakeInv /\ [Next]_vars => WakeInv'
  <2> SUFFICES ASSUME ListInv, WakeInv, [Next]_vars PROVE WakeInv'
    OBVIOUS
  <2> USE DEF writeVars, readVars, closeVars
  <2>1. /\ rpc \in [Readers -> {"idle", "select", "lock", "wait", "woken", "got", "returned"}]
        /\ wpc \in [Writers -> {"idle", "put", "notify"}]
    BY DEF ListInv, TypeOK
  <2>2. ASSUME NEW w \in Writers, WritePackets(w) PROVE WakeInv'
    BY <2>1, <2>2, RestWakes DEF WritePackets
  <2>3. ASSUME NEW w \in Writers, Put(w) PROVE WakeInv'
    BY <2>3, PutWakes
  <2>4. ASSUME NEW w \in Writers, Notify(w) PROVE WakeInv'
    <3>1. \A r \in Readers : rpc'[r] # "wait" /\ (rpc'[r] # rpc[r] => rpc'[r] = "woken")
      BY <2>4 DEF Notify, Waiting
    <3> QED BY <2>4, <3>1, RestWakes DEF Notify
  <2>5. ASSUME NEW r \in Readers, Get(r) \/ Retry(r) PROVE WakeInv'
    BY <2>5, TakeWakes DEF Get, Retry
  <2>6. ASSUME NEW r \in Readers, Select(r) PROVE WakeInv'
    BY <2>1, <2>6, RestWakes DEF Select
  <2>7. ASSUME NEW r \in Readers, Wait(r) PROVE WakeInv'
    BY <2>1, <2>7, RestWakes DEF Wait
  <2>8. ASSUME NEW r \in Readers, Outbound(r) PROVE WakeInv'
    BY <2>1, <2>8, RestWakes DEF Outbound
  <2>9. ASSUME NEW r \in Readers, Cancel(r) PROVE WakeInv'
    BY <2>9, RestWakes DEF Cancel
  <2>10. CASE SynClose \/ Deadline \/ Closing \/ Quiet \/ UNCHANGED vars
    BY <2>10, RestWakes DEF SynClose, Deadline, Closing, SynLoop, SynReturn, Quiet, vars
  <2> QED BY <2>2, <2>3, <2>4, <2>5, <2>6, <2>7, <2>8, <2>9, <2>10 DEF Next, Writer, Reader
<1>3. WakeInv => AsleepOnlyInTheGap
  BY DEF WakeInv
<1> QED BY <1>1, <1>2, <1>3, ListInvariant, PTL DEF Spec
=============================================================================

------------------------ MODULE GlobalSchedulerProofs ------------------------
(***************************************************************************)
(* Proofs about GlobalScheduler, for any threads, cores, priorities and    *)
(* requests: the queues agree with the threads through every change of     *)
(* status, priority and affinity, through yields, preemption and load      *)
(* balancing, and the selection is the front of each queue.                *)
(***************************************************************************)
EXTENDS GlobalScheduler, WellFoundedInduction, TLAPS

\* A non-empty set of positions has a first one.
LEMMA FirstFacts ==
    ASSUME NEW P, P \subseteq Nat, P # {}
    PROVE  First(P) \in P /\ \A j \in P : First(P) <= j
<1>1. PICK x \in P : \A y \in P : ~(<<y, x>> \in OpToRel(<, Nat))
  BY WFMin, NatLessThanWellFounded, Zenon
<1>2. ASSUME NEW y \in P PROVE x <= y
  <2>1. y < x => <<y, x>> \in OpToRel(<, Nat)
    <3>1. <<y, x>> \in Nat \X Nat /\ <<y, x>>[1] = y /\ <<y, x>>[2] = x
      OBVIOUS
    <3> QED BY <3>1, Zenon DEF OpToRel
  <2>2. ~(y < x)
    BY <1>1, <2>1, Zenon
  <2> QED BY <2>2
<1> QED BY <1>1, <1>2 DEF First

\* What InsertAt does, position by position.
LEMMA InsertAtFacts ==
    ASSUME NEW S, NEW s \in Seq(S), NEW i \in 1..(Len(s) + 1), NEW e \in S,
           NEW new, new = InsertAt(s, i, e)
    PROVE  /\ new \in Seq(S) /\ Len(new) = Len(s) + 1
           /\ \A k \in 1..(Len(s) + 1) : new[k] =
                  IF k < i THEN s[k] ELSE IF k = i THEN e ELSE s[k - 1]
<1> DEFINE l == SubSeq(s, 1, i - 1)
           r == SubSeq(s, i, Len(s))
<1>0. Len(s) \in Nat /\ i \in Nat
  OBVIOUS
<1>1. /\ l \in Seq(S) /\ Len(l) = i - 1
      /\ \A k \in 1..(i - 1) : l[k] = s[k]
  OBVIOUS
<1>2. /\ r \in Seq(S) /\ Len(r) = Len(s) - i + 1
      /\ \A k \in 1..(Len(s) - i + 1) : r[k] = s[i + k - 1]
  OBVIOUS
<1>3. InsertAt(s, i, e) = (l \o <<e>>) \o r
  BY DEF InsertAt
<1> HIDE DEF l, r
<1>4. /\ l \o <<e>> \in Seq(S) /\ Len(l \o <<e>>) = i
      /\ \A k \in 1..(i - 1) : (l \o <<e>>)[k] = s[k]
      /\ (l \o <<e>>)[i] = e
  BY <1>1
<1> DEFINE m == l \o <<e>>
<1>5. m \in Seq(S) /\ Len(m) = i /\ (\A k \in 1..(i - 1) : m[k] = s[k]) /\ m[i] = e
  BY <1>4
<1> HIDE DEF m
<1>6. m \o r \in Seq(S) /\ Len(m \o r) = Len(s) + 1
  BY <1>0, <1>2, <1>5
<1>7. ASSUME NEW k \in 1..(Len(s) + 1)
      PROVE  (m \o r)[k] = IF k < i THEN s[k] ELSE IF k = i THEN e ELSE s[k - 1]
  <2>1. CASE k <= i
    BY <2>1, <1>2, <1>5
  <2>2. CASE ~(k <= i)
    <3>1. k - i \in 1..(Len(s) - i + 1)
      BY <2>2
    <3>2. (m \o r)[k] = r[k - i]
      BY <2>2, <1>2, <1>5
    <3> QED BY <2>2, <3>1, <3>2, <1>2
  <2> QED BY <2>1, <2>2
<1> QED BY <1>3, <1>6, <1>7 DEF m

\* What RemoveAt does, position by position.
LEMMA RemoveAtFacts ==
    ASSUME NEW S, NEW s \in Seq(S), NEW i \in 1..Len(s)
    PROVE  /\ RemoveAt(s, i) \in Seq(S)
           /\ Len(RemoveAt(s, i)) = Len(s) - 1
           /\ \A k \in 1..(Len(s) - 1) : RemoveAt(s, i)[k] =
                  IF k < i THEN s[k] ELSE s[k + 1]
<1> DEFINE l == SubSeq(s, 1, i - 1)
           r == SubSeq(s, i + 1, Len(s))
<1>0. Len(s) \in Nat /\ i \in Nat
  OBVIOUS
<1>1. /\ l \in Seq(S) /\ Len(l) = i - 1
      /\ \A k \in 1..(i - 1) : l[k] = s[k]
  OBVIOUS
<1>2. /\ r \in Seq(S) /\ Len(r) = Len(s) - i
      /\ \A k \in 1..(Len(s) - i) : r[k] = s[i + k]
  OBVIOUS
<1>3. RemoveAt(s, i) = l \o r
  BY DEF RemoveAt
<1> HIDE DEF l, r
<1>4. l \o r \in Seq(S) /\ Len(l \o r) = Len(s) - 1
  <2>0. l \in Seq(S) /\ r \in Seq(S)
    BY <1>1, <1>2
  <2>1. l \o r \in Seq(S) /\ Len(l \o r) = Len(l) + Len(r)
    BY <2>0
  <2> QED BY <2>1, <1>0, <1>1, <1>2
<1>5. ASSUME NEW k \in 1..(Len(s) - 1)
      PROVE  (l \o r)[k] = IF k < i THEN s[k] ELSE s[k + 1]
  <2>1. CASE k < i
    BY <2>1, <1>1, <1>2
  <2>2. CASE ~(k < i)
    <3>1. k - (i - 1) \in 1..(Len(s) - i)
      BY <2>2
    <3>2. (l \o r)[k] = r[k - (i - 1)]
      BY <2>2, <1>1, <1>2
    <3> QED BY <2>2, <3>1, <3>2, <1>2
  <2> QED BY <2>1, <2>2
<1> QED BY <1>3, <1>4, <1>5

-----------------------------------------------------------------------------
(* The queue *)

\* Of the threads other than t, r has those that q has, at the same levels.
Keeps(q, r, t) ==
    \A u \in Threads \ {t} :
        /\ Lacks(q, u) => Lacks(r, u)
        /\ \A p \in Priorities : Lists(q, u, p) => Lists(r, u, p)

\* Keeping is reflexive and transitive.
LEMMA KeepsReflexive ==
    ASSUME NEW q, NEW t PROVE Keeps(q, q, t)
BY DEF Keeps

LEMMA KeepsTransitive ==
    ASSUME NEW q, NEW r, NEW x, NEW t, Keeps(q, r, t), Keeps(r, x, t)
    PROVE  Keeps(q, x, t)
BY DEF Keeps

\* The fields of an entry.
LEMMA EntryFacts ==
    ASSUME NEW t, NEW p
    PROVE  /\ Entry(t, p).thread = t /\ Entry(t, p).level = p
           /\ t \in Threads /\ p \in Priorities => Entry(t, p) \in Entries
BY DEF Entry, Entries

LEMMA EntriesFacts ==
    ASSUME NEW e \in Entries
    PROVE  e.thread \in Threads /\ e.level \in Priorities /\ e.level \in Nat
BY SchedulerAssumption DEF Entries

\* A list with an entry inserted keeps the other threads, in their places.
LEMMA InsertKeeps ==
    ASSUME NEW q \in Seq(Entries), NEW r \in Seq(Entries), NEW at \in 1..(Len(q) + 1),
           NEW t \in Threads, NEW p \in Priorities,
           Len(r) = Len(q) + 1,
           \A k \in 1..(Len(q) + 1) : r[k] =
               IF k < at THEN q[k] ELSE IF k = at THEN Entry(t, p) ELSE q[k - 1]
    PROVE  Keeps(q, r, t) /\ (Lacks(q, t) => Lists(r, t, p))
<1> USE EntryFacts
<1>0. /\ Len(q) \in Nat /\ DOMAIN q = 1..Len(q) /\ DOMAIN r = 1..(Len(q) + 1)
      /\ at \in Int
  OBVIOUS
<1>1. ASSUME NEW u \in Threads \ {t}, Lacks(q, u) PROVE Lacks(r, u)
  <2>1. ASSUME NEW k \in 1..(Len(q) + 1) PROVE r[k].thread # u
    <3>1. CASE k < at
      BY <1>0, <1>1, <3>1 DEF Lacks
    <3>2. CASE k = at
      BY <1>0, <1>1, <3>2
    <3>3. CASE k > at
      BY <1>0, <1>1, <3>3 DEF Lacks
    <3> QED BY <1>0, <3>1, <3>2, <3>3
  <2> QED BY <1>0, <2>1 DEF Lacks
<1>2. ASSUME NEW u \in Threads \ {t}, NEW l \in Priorities, Lists(q, u, l)
      PROVE  Lists(r, u, l)
  <2>1. PICK i \in 1..Len(q) : /\ q[i] = Entry(u, l)
                               /\ \A j \in 1..Len(q) : q[j].thread = u => j = i
    BY <1>0, <1>2 DEF Lists
  <2> DEFINE k == IF i < at THEN i ELSE i + 1
  <2>2. k \in 1..(Len(q) + 1) /\ r[k] = Entry(u, l)
    BY <1>0, <2>1
  <2>3. ASSUME NEW j \in 1..(Len(q) + 1), r[j].thread = u PROVE j = k
    <3>1. CASE j < at
      BY <1>0, <2>1, <2>3, <3>1
    <3>2. CASE j = at
      BY <1>0, <2>3, <3>2
    <3>3. CASE j > at
      <4>1. j - 1 \in 1..Len(q) /\ r[j] = q[j - 1]
        BY <1>0, <3>3
      <4> QED BY <1>0, <2>1, <2>3, <3>3, <4>1
    <3> QED BY <1>0, <3>1, <3>2, <3>3
  <2> HIDE DEF k
  <2> QED BY <1>0, <2>2, <2>3 DEF Lists
<1>3. ASSUME Lacks(q, t) PROVE Lists(r, t, p)
  <2>1. at \in 1..(Len(q) + 1) /\ r[at] = Entry(t, p)
    BY <1>0
  <2>2. ASSUME NEW j \in 1..(Len(q) + 1), r[j].thread = t PROVE j = at
    <3>1. CASE j < at
      BY <1>0, <1>3, <2>2, <3>1 DEF Lacks
    <3>2. CASE j > at
      <4>1. j - 1 \in 1..Len(q) /\ r[j] = q[j - 1]
        BY <1>0, <3>2
      <4> QED BY <1>0, <1>3, <2>2, <4>1 DEF Lacks
    <3> QED BY <1>0, <3>1, <3>2
  <2> QED BY <1>0, <2>1, <2>2 DEF Lists
<1> QED BY <1>1, <1>2, <1>3 DEF Keeps

\* add keeps a queue sorted, adds the thread, and leaves the others alone.
LEMMA AddFacts ==
    ASSUME NEW q \in Seq(Entries), NEW t \in Threads, NEW p \in Priorities,
           NEW b \in BOOLEAN, Sorted(q)
    PROVE  /\ add(q, t, p, b) \in Seq(Entries) /\ Sorted(add(q, t, p, b))
           /\ Keeps(q, add(q, t, p, b), t)
           /\ Lacks(q, t) => Lists(add(q, t, p, b), t, p)
           /\ q = <<>> => front(add(q, t, p, b)) = t
<1> DEFINE behind == {i \in DOMAIN q : \/ q[i].level > p
                                       \/ q[i].level = p /\ ~b}
           at == IF behind = {} THEN Len(q) + 1 ELSE First(behind)
           r == InsertAt(q, at, Entry(t, p))
<1>0. Len(q) \in Nat /\ DOMAIN q = 1..Len(q) /\ p \in Nat
  BY SchedulerAssumption
<1>1. /\ at \in 1..(Len(q) + 1)
      /\ \A i \in 1..Len(q) : i < at => i \notin behind
      /\ at <= Len(q) => at \in behind
  <2>1. CASE behind = {}
    BY <1>0, <2>1
  <2>2. CASE behind # {}
    <3>1. behind \subseteq Nat /\ behind \subseteq 1..Len(q)
      BY <1>0
    <3>2. First(behind) \in behind /\ \A j \in behind : First(behind) <= j
      BY <2>2, <3>1, FirstFacts
    <3>3. at = First(behind)
      BY <2>2
    <3> HIDE DEF at, behind
    <3>4. at \in 1..Len(q) /\ at \in behind /\ \A j \in behind : at <= j
      BY <3>1, <3>2, <3>3
    <3>5. at \in 1..(Len(q) + 1)
      BY <1>0, <3>4
    <3>6. ASSUME NEW i \in 1..Len(q), i < at PROVE i \notin behind
      BY <3>4, <3>6
    <3> QED BY <3>4, <3>5, <3>6
  <2> QED BY <2>1, <2>2
<1>2. add(q, t, p, b) = r
  BY DEF add
<1>3. ASSUME NEW i \in 1..Len(q) PROVE q[i].level \in Nat
  BY <1>0, EntriesFacts
<1>4. \A i \in 1..Len(q) : i < at => q[i].level <= p
  BY <1>0, <1>1, <1>3
<1>5. at <= Len(q) => q[at].level >= p
  BY <1>0, <1>1, <1>3
<1> HIDE DEF at, behind
<1>6. /\ r \in Seq(Entries) /\ Len(r) = Len(q) + 1
      /\ \A k \in 1..(Len(q) + 1) : r[k] =
             IF k < at THEN q[k] ELSE IF k = at THEN Entry(t, p) ELSE q[k - 1]
  <2> DEFINE e == Entry(t, p)
  <2>1. e \in Entries
    BY EntryFacts
  <2>2. r = InsertAt(q, at, e)
    OBVIOUS
  <2>3. at \in 1..(Len(q) + 1)
    BY <1>1
  <2> HIDE DEF e, r
  <2>4. /\ r \in Seq(Entries) /\ Len(r) = Len(q) + 1
        /\ \A k \in 1..(Len(q) + 1) :
             r[k] = IF k < at THEN q[k] ELSE IF k = at THEN e ELSE q[k - 1]
    BY <2>1, <2>2, <2>3, InsertAtFacts, SMTT(30)
  <2> QED BY <2>4 DEF e
<1> HIDE DEF r
<1>7. Sorted(r)
  <2>0. \A i, j \in 1..Len(q) : i < j => q[i].level <= q[j].level
    BY <1>0 DEF Sorted
  <2>1. ASSUME NEW i \in 1..Len(q), at <= i PROVE q[i].level >= p
    BY <1>0, <1>1, <1>3, <1>5, <2>0, <2>1
  <2>2. ASSUME NEW i \in 1..(Len(q) + 1), NEW j \in 1..(Len(q) + 1), i < j
        PROVE  r[i].level <= r[j].level
    <3> USE EntryFacts
    <3>1. CASE j < at
      BY <1>0, <1>1, <1>6, <2>0, <2>2, <3>1
    <3>2. CASE j = at
      BY <1>0, <1>1, <1>4, <1>6, <2>2, <3>2
    <3>3. CASE j > at
      <4>0. j - 1 \in 1..Len(q) /\ r[j] = q[j - 1] /\ at <= j - 1
        BY <1>0, <1>1, <1>6, <3>3
      <4>1. CASE i < at
        <5>1. i \in 1..Len(q) /\ r[i] = q[i] /\ i < j - 1
          BY <1>0, <1>1, <1>6, <3>3, <4>1
        <5> QED BY <2>0, <4>0, <5>1
      <4>2. CASE i = at
        <5>1. r[i].level = p
          BY <1>6, <4>2
        <5> QED BY <1>0, <2>1, <4>0, <5>1
      <4>3. CASE i > at
        <5>1. i - 1 \in 1..Len(q) /\ r[i] = q[i - 1] /\ i - 1 < j - 1
          BY <1>0, <1>1, <1>6, <2>2, <4>3
        <5> QED BY <2>0, <4>0, <5>1
      <4> QED BY <1>1, <4>1, <4>2, <4>3
    <3> QED BY <1>1, <3>1, <3>2, <3>3
  <2> QED BY <1>0, <1>6, <2>2 DEF Sorted
<1>8. Keeps(q, r, t) /\ (Lacks(q, t) => Lists(r, t, p))
  BY <1>1, <1>6, InsertKeeps
<1>9. ASSUME q = <<>> PROVE front(r) = t
  <2>1. at = 1 /\ Len(q) = 0
    BY <1>0, <1>1, <1>9
  <2>2. r[1] = Entry(t, p) /\ Len(r) > 0
    BY <1>6, <2>1
  <2>3. r # <<>>
    BY <2>2
  <2> QED BY <2>2, <2>3, EntryFacts DEF front
<1> QED BY <1>2, <1>6, <1>7, <1>8, <1>9

\* remove takes the thread out of a queue that lists it at that level, or has no
\* effect if it lacks it; the others stay, and so does a front that is another.
LEMMA RemoveFacts ==
    ASSUME NEW q \in Seq(Entries), NEW t \in Threads, NEW p \in Priorities, Sorted(q),
           Lists(q, t, p) \/ Lacks(q, t)
    PROVE  /\ remove(q, t, p) \in Seq(Entries) /\ Sorted(remove(q, t, p))
           /\ Keeps(q, remove(q, t, p), t)
           /\ Lacks(remove(q, t, p), t)
           /\ front(q) # t => front(remove(q, t, p)) = front(q)
           /\ front(q) = t /\ Len(q) > 1 => front(remove(q, t, p)) = q[2].thread
<1> DEFINE found == {i \in DOMAIN q : q[i] = Entry(t, p)}
           r == RemoveAt(q, First(found))
<1> USE EntryFacts
<1>0. Len(q) \in Nat /\ DOMAIN q = 1..Len(q)
  OBVIOUS
<1>1. CASE Lacks(q, t)
  <2>1. remove(q, t, p) = q
    BY <1>1 DEF remove, Lacks
  <2>2. q # <<>> => front(q) # t
    BY <1>0, <1>1 DEF front, Lacks
  <2>3. Len(q) > 1 => q # <<>>
    BY <1>0
  <2> QED BY <1>1, <2>1, <2>2, <2>3, KeepsReflexive
<1>2. CASE Lists(q, t, p)
  <2>1. PICK at \in 1..Len(q) : /\ q[at] = Entry(t, p)
                                /\ \A j \in 1..Len(q) : q[j].thread = t => j = at
    BY <1>0, <1>2 DEF Lists
  <2>2. found = {at}
    BY <1>0, <2>1
  <2>3. First(found) = at
    <3>1. found # {} /\ found \subseteq Nat
      BY <2>2
    <3> QED BY <2>2, <3>1, FirstFacts
  <2>4. remove(q, t, p) = r
    BY <2>2 DEF remove
  <2>5. r = RemoveAt(q, at)
    BY <2>3
  <2> HIDE DEF r, found
  <2>6. /\ r \in Seq(Entries) /\ Len(r) = Len(q) - 1
        /\ \A k \in 1..(Len(q) - 1) : r[k] = IF k < at THEN q[k] ELSE q[k + 1]
    BY <2>5, RemoveAtFacts
  <2>7. DOMAIN r = 1..(Len(q) - 1)
    BY <2>6
  \* where an entry of r is in q
  <2> DEFINE old(k) == IF k < at THEN k ELSE k + 1
  <2>8. \A k \in 1..(Len(q) - 1) : old(k) \in 1..Len(q) /\ old(k) # at /\ r[k] = q[old(k)]
    BY <1>0, <2>1, <2>6
  <2>9. \A k, l \in 1..(Len(q) - 1) : k < l => old(k) < old(l)
    BY <1>0, <2>1
  <2>10. Sorted(r)
    <3>1. ASSUME NEW k \in 1..(Len(q) - 1), NEW l \in 1..(Len(q) - 1), k < l
          PROVE  r[k].level <= r[l].level
      <4>1. /\ old(k) \in 1..Len(q) /\ old(l) \in 1..Len(q) /\ old(k) < old(l)
            /\ r[k] = q[old(k)] /\ r[l] = q[old(l)]
        BY <2>8, <2>9, <3>1
      <4> QED BY <1>0, <4>1 DEF Sorted
    <3> QED BY <2>7, <3>1 DEF Sorted
  <2>11. Lacks(r, t)
    <3>1. ASSUME NEW k \in 1..(Len(q) - 1) PROVE r[k].thread # t
      <4>1. old(k) \in 1..Len(q) /\ old(k) # at /\ r[k] = q[old(k)]
        BY <2>8
      <4> HIDE DEF old
      <4> QED BY <2>1, <4>1
    <3> QED BY <2>7, <3>1 DEF Lacks
  <2>12. ASSUME NEW u \in Threads \ {t}, Lacks(q, u) PROVE Lacks(r, u)
    <3>1. ASSUME NEW k \in 1..(Len(q) - 1) PROVE r[k].thread # u
      <4>1. old(k) \in 1..Len(q) /\ r[k] = q[old(k)]
        BY <2>8
      <4> HIDE DEF old
      <4> QED BY <1>0, <2>12, <4>1 DEF Lacks
    <3> QED BY <2>7, <3>1 DEF Lacks
  <2>13. ASSUME NEW u \in Threads \ {t}, NEW l \in Priorities, Lists(q, u, l)
         PROVE  Lists(r, u, l)
    <3>1. PICK i \in 1..Len(q) : /\ q[i] = Entry(u, l)
                                 /\ \A j \in 1..Len(q) : q[j].thread = u => j = i
      BY <1>0, <2>13 DEF Lists
    <3> DEFINE k == IF i < at THEN i ELSE i - 1
    <3>2. i # at
      BY <2>1, <3>1
    <3>3. k \in 1..(Len(q) - 1) /\ old(k) = i
      BY <1>0, <2>1, <3>1, <3>2
    <3>4. ASSUME NEW j \in 1..(Len(q) - 1), r[j].thread = u PROVE j = k
      <4>1. old(j) = i
        BY <2>8, <3>1, <3>4
      <4> QED BY <1>0, <2>1, <3>2, <4>1
    <3>5. r[k] = Entry(u, l)
      BY <2>8, <3>1, <3>3
    <3> HIDE DEF k
    <3> QED BY <2>7, <3>3, <3>4, <3>5 DEF Lists
  <2>14. q # <<>> /\ front(q) = q[1].thread
    <3>1. q # <<>>
      BY <2>1
    <3> QED BY <3>1 DEF front
  <2>15. ASSUME front(q) # t PROVE front(r) = front(q)
    <3>1. at > 1 /\ Len(q) > 1
      BY <1>0, <2>1, <2>14, <2>15
    <3>2. r[1] = q[1] /\ Len(r) > 0
      BY <1>0, <2>6, <3>1
    <3>3. r # <<>>
      BY <3>2
    <3> QED BY <2>14, <3>2, <3>3 DEF front
  <2>16. ASSUME front(q) = t, Len(q) > 1 PROVE front(r) = q[2].thread
    <3>1. at = 1
      <4>1. 1 \in 1..Len(q) /\ q[1].thread = t
        BY <1>0, <2>14, <2>16
      <4> QED BY <2>1, <4>1
    <3>2. r[1] = q[2] /\ Len(r) > 0
      BY <1>0, <2>6, <2>16, <3>1
    <3>3. r # <<>>
      BY <3>2
    <3> QED BY <3>2, <3>3 DEF front
  <2> QED BY <2>4, <2>6, <2>10, <2>11, <2>12, <2>13, <2>15, <2>16 DEF Keeps
<1> QED BY <1>1, <1>2
-----------------------------------------------------------------------------
(* Placing threads *)

Sound(s) ==
    /\ s \in Queues
    /\ \A c \in Cores : Sorted(s.scheduled[c]) /\ Sorted(s.suggested[c])

\* The queues of s agree with threads that have the masks M and are runnable as
\* R says.
Match(s, M, R) ==
    /\ Sound(s)
    /\ \A t \in Threads : MatchesThread(s, t, M[t], R[t])

\* The fields of a state of the queues.
LEMMA QueuesFacts ==
    ASSUME NEW s \in Queues
    PROVE  /\ s = [scheduled |-> s.scheduled, suggested |-> s.suggested,
                   processor |-> s.processor, priority |-> s.priority]
           /\ \A c \in Cores : /\ s.scheduled[c] \in Seq(Entries)
                               /\ s.suggested[c] \in Seq(Entries)
           /\ \A t \in Threads : /\ s.processor[t] \in Cores \cup {NoCore}
                                 /\ s.priority[t] \in Priorities
BY DEF Queues

\* NoCore is not a core.
LEMMA CoresFacts == NoCore \notin Cores /\ NoCore = -1 /\ Cores \subseteq Nat
BY DEF NoCore, Cores

\* A thread that is not touched still matches.
LEMMA OthersMatch ==
    ASSUME NEW s \in Queues, NEW n, NEW t, NEW u \in Threads \ {t}, NEW mask, NEW is,
           \A c \in Cores : /\ Keeps(s.scheduled[c], n.scheduled[c], t)
                            /\ Keeps(s.suggested[c], n.suggested[c], t),
           n.processor[u] = s.processor[u], n.priority[u] = s.priority[u],
           MatchesThread(s, u, mask, is)
    PROVE  MatchesThread(n, u, mask, is)
<1>1. s.priority[u] \in Priorities
  BY QueuesFacts
<1>2. n.processor[u] \in mask \cup {NoCore}
  BY DEF MatchesThread
<1>3. ASSUME NEW c \in Cores
      PROVE  /\ IF is /\ c = n.processor[u]
                  THEN Lists(n.scheduled[c], u, n.priority[u])
                  ELSE Lacks(n.scheduled[c], u)
             /\ IF is /\ c \in mask \ {n.processor[u]}
                  THEN Lists(n.suggested[c], u, n.priority[u])
                  ELSE Lacks(n.suggested[c], u)
  <2>1. /\ IF is /\ c = s.processor[u]
             THEN Lists(s.scheduled[c], u, s.priority[u])
             ELSE Lacks(s.scheduled[c], u)
        /\ IF is /\ c \in mask \ {s.processor[u]}
             THEN Lists(s.suggested[c], u, s.priority[u])
             ELSE Lacks(s.suggested[c], u)
    BY DEF MatchesThread
  <2>2. /\ Lacks(s.scheduled[c], u) => Lacks(n.scheduled[c], u)
        /\ Lists(s.scheduled[c], u, s.priority[u]) => Lists(n.scheduled[c], u, s.priority[u])
        /\ Lacks(s.suggested[c], u) => Lacks(n.suggested[c], u)
        /\ Lists(s.suggested[c], u, s.priority[u]) => Lists(n.suggested[c], u, s.priority[u])
    BY <1>1 DEF Keeps
  <2> QED BY <2>1, <2>2
<1> QED BY <1>2, <1>3 DEF MatchesThread

\* What placing thread t on some cores and suggesting it to others does to the
\* queues.
Placed(s, n, t, on, to) ==
    /\ Sound(n) /\ n.processor = s.processor /\ n.priority = s.priority
    /\ \A c \in Cores : /\ Keeps(s.scheduled[c], n.scheduled[c], t)
                        /\ Keeps(s.suggested[c], n.suggested[c], t)
    /\ \A c \in on :
         /\ Lacks(s.scheduled[c], t) => Lists(n.scheduled[c], t, s.priority[t])
         /\ s.scheduled[c] = <<>> => front(n.scheduled[c]) = t
    /\ \A c \in to :
         Lacks(s.suggested[c], t) => Lists(n.suggested[c], t, s.priority[t])
    /\ \A c \in Cores \ on : n.scheduled[c] = s.scheduled[c]
    /\ \A c \in Cores \ to : n.suggested[c] = s.suggested[c]

\* Place does what Placed says.
LEMMA PlaceFacts ==
    ASSUME NEW s, Sound(s), NEW t \in Threads, NEW on \in SUBSET Cores,
           NEW to \in SUBSET Cores, NEW b \in BOOLEAN,
           NEW n, n = Place(s, t, on, to, b)
    PROVE  Placed(s, n, t, on, to)
<1> DEFINE sch == [c \in Cores |-> IF c \in on THEN add(s.scheduled[c], t, s.priority[t], b)
                                               ELSE s.scheduled[c]]
           sug == [c \in Cores |-> IF c \in to THEN add(s.suggested[c], t, s.priority[t], TRUE)
                                               ELSE s.suggested[c]]
<1>0. s \in Queues /\ s.priority[t] \in Priorities
  BY QueuesFacts DEF Sound
<1>1. n = [scheduled |-> sch, suggested |-> sug,
           processor |-> s.processor, priority |-> s.priority]
  BY <1>0 DEF Place, Queues
<1>2. n.scheduled = sch /\ n.suggested = sug /\ n.processor = s.processor
      /\ n.priority = s.priority
  BY <1>1
<1>3. ASSUME NEW c \in Cores
      PROVE  /\ sch[c] \in Seq(Entries) /\ Sorted(sch[c])
             /\ Keeps(s.scheduled[c], sch[c], t)
             /\ c \in on =>
                  /\ Lacks(s.scheduled[c], t) => Lists(sch[c], t, s.priority[t])
                  /\ s.scheduled[c] = <<>> => front(sch[c]) = t
             /\ c \notin on => sch[c] = s.scheduled[c]
  <2>1. s.scheduled[c] \in Seq(Entries) /\ Sorted(s.scheduled[c])
    BY <1>0, QueuesFacts DEF Sound
  <2>2. CASE c \in on
    <3>1. sch[c] = add(s.scheduled[c], t, s.priority[t], b)
      BY <2>2
    <3> HIDE DEF sch
    <3> QED BY <1>0, <2>1, <2>2, <3>1, AddFacts
  <2>3. CASE c \notin on
    <3>1. sch[c] = s.scheduled[c]
      BY <2>3
    <3> HIDE DEF sch
    <3> QED BY <2>1, <2>3, <3>1, KeepsReflexive
  <2> QED BY <2>2, <2>3
<1>4. ASSUME NEW c \in Cores
      PROVE  /\ sug[c] \in Seq(Entries) /\ Sorted(sug[c])
             /\ Keeps(s.suggested[c], sug[c], t)
             /\ c \in to => (Lacks(s.suggested[c], t) => Lists(sug[c], t, s.priority[t]))
             /\ c \notin to => sug[c] = s.suggested[c]
  <2>1. s.suggested[c] \in Seq(Entries) /\ Sorted(s.suggested[c])
    BY <1>0, QueuesFacts DEF Sound
  <2>2. CASE c \in to
    <3>1. sug[c] = add(s.suggested[c], t, s.priority[t], TRUE)
      BY <2>2
    <3> HIDE DEF sug
    <3> QED BY <1>0, <2>1, <2>2, <3>1, AddFacts
  <2>3. CASE c \notin to
    <3>1. sug[c] = s.suggested[c]
      BY <2>3
    <3> HIDE DEF sug
    <3> QED BY <2>1, <2>3, <3>1, KeepsReflexive
  <2> QED BY <2>2, <2>3
<1>5. sch \in [Cores -> Seq(Entries)] /\ sug \in [Cores -> Seq(Entries)]
  <2>1. \A c \in Cores : sch[c] \in Seq(Entries) /\ sug[c] \in Seq(Entries)
    BY <1>3, <1>4
  <2> QED BY <2>1
<1> HIDE DEF sch, sug
<1>6. n \in Queues
  BY <1>0, <1>1, <1>5 DEF Queues
<1> QED BY <1>2, <1>3, <1>4, <1>6 DEF Sound, Placed

\* The same for displacing it.
Displaced(s, n, t, on, to) ==
    /\ Sound(n) /\ n.processor = s.processor /\ n.priority = s.priority
    /\ \A c \in Cores : /\ Keeps(s.scheduled[c], n.scheduled[c], t)
                        /\ Keeps(s.suggested[c], n.suggested[c], t)
    /\ \A c \in on :
         /\ Lacks(n.scheduled[c], t)
         /\ front(s.scheduled[c]) # t => front(n.scheduled[c]) = front(s.scheduled[c])
         /\ front(s.scheduled[c]) = t /\ Len(s.scheduled[c]) > 1
              => front(n.scheduled[c]) = s.scheduled[c][2].thread
    /\ \A c \in to : Lacks(n.suggested[c], t)
    /\ \A c \in Cores \ on : n.scheduled[c] = s.scheduled[c]
    /\ \A c \in Cores \ to : n.suggested[c] = s.suggested[c]

\* Displace does what Displaced says, given the level at which t is listed.
LEMMA DisplaceFacts ==
    ASSUME NEW s, Sound(s), NEW t \in Threads, NEW on \in SUBSET Cores,
           NEW to \in SUBSET Cores, NEW p \in Priorities,
           NEW n, n = Displace(s, t, on, to, p),
           \A c \in on : Lists(s.scheduled[c], t, p) \/ Lacks(s.scheduled[c], t),
           \A c \in to : Lists(s.suggested[c], t, p) \/ Lacks(s.suggested[c], t)
    PROVE  Displaced(s, n, t, on, to)
<1> DEFINE sch == [c \in Cores |-> IF c \in on THEN remove(s.scheduled[c], t, p)
                                               ELSE s.scheduled[c]]
           sug == [c \in Cores |-> IF c \in to THEN remove(s.suggested[c], t, p)
                                               ELSE s.suggested[c]]
<1>0. s \in Queues
  BY DEF Sound
<1>1. n = [scheduled |-> sch, suggested |-> sug,
           processor |-> s.processor, priority |-> s.priority]
  BY <1>0 DEF Displace, Queues
<1>2. n.scheduled = sch /\ n.suggested = sug /\ n.processor = s.processor
      /\ n.priority = s.priority
  BY <1>1
<1>3. ASSUME NEW c \in Cores
      PROVE  /\ sch[c] \in Seq(Entries) /\ Sorted(sch[c])
             /\ Keeps(s.scheduled[c], sch[c], t)
             /\ c \in on =>
                  /\ Lacks(sch[c], t)
                  /\ front(s.scheduled[c]) # t => front(sch[c]) = front(s.scheduled[c])
                  /\ front(s.scheduled[c]) = t /\ Len(s.scheduled[c]) > 1
                       => front(sch[c]) = s.scheduled[c][2].thread
             /\ c \notin on => sch[c] = s.scheduled[c]
  <2>1. s.scheduled[c] \in Seq(Entries) /\ Sorted(s.scheduled[c])
    BY <1>0, QueuesFacts DEF Sound
  <2>2. CASE c \in on
    <3>1. sch[c] = remove(s.scheduled[c], t, p)
      BY <2>2
    <3>2. Lists(s.scheduled[c], t, p) \/ Lacks(s.scheduled[c], t)
      BY <2>2
    <3> HIDE DEF sch
    <3> QED BY <2>1, <2>2, <3>1, <3>2, RemoveFacts
  <2>3. CASE c \notin on
    <3>1. sch[c] = s.scheduled[c]
      BY <2>3
    <3> HIDE DEF sch
    <3> QED BY <2>1, <2>3, <3>1, KeepsReflexive
  <2> QED BY <2>2, <2>3
<1>4. ASSUME NEW c \in Cores
      PROVE  /\ sug[c] \in Seq(Entries) /\ Sorted(sug[c])
             /\ Keeps(s.suggested[c], sug[c], t)
             /\ c \in to => Lacks(sug[c], t)
             /\ c \notin to => sug[c] = s.suggested[c]
  <2>1. s.suggested[c] \in Seq(Entries) /\ Sorted(s.suggested[c])
    BY <1>0, QueuesFacts DEF Sound
  <2>2. CASE c \in to
    <3>1. sug[c] = remove(s.suggested[c], t, p)
      BY <2>2
    <3>2. Lists(s.suggested[c], t, p) \/ Lacks(s.suggested[c], t)
      BY <2>2
    <3> HIDE DEF sug
    <3> QED BY <2>1, <2>2, <3>1, <3>2, RemoveFacts
  <2>3. CASE c \notin to
    <3>1. sug[c] = s.suggested[c]
      BY <2>3
    <3> HIDE DEF sug
    <3> QED BY <2>1, <2>3, <3>1, KeepsReflexive
  <2> QED BY <2>2, <2>3
<1>5. sch \in [Cores -> Seq(Entries)] /\ sug \in [Cores -> Seq(Entries)]
  <2>1. \A c \in Cores : sch[c] \in Seq(Entries) /\ sug[c] \in Seq(Entries)
    BY <1>3, <1>4
  <2> QED BY <2>1
<1> HIDE DEF sch, sug
<1>6. n \in Queues
  BY <1>0, <1>1, <1>5 DEF Queues
<1> QED BY <1>2, <1>3, <1>4, <1>6 DEF Sound, Displaced

\* What moving thread t does, but for the match.
Transferred(s, n, t, dest) ==
    /\ n.priority = s.priority
    /\ n.processor = [s.processor EXCEPT ![t] = dest]
    /\ \A c \in Cores \ {dest, s.processor[t]} : n.scheduled[c] = s.scheduled[c]
    /\ dest \in Cores /\ s.scheduled[dest] = <<>> => front(n.scheduled[dest]) = t
    /\ \A c \in Cores : c = s.processor[t] =>
         /\ front(s.scheduled[c]) # t => front(n.scheduled[c]) = front(s.scheduled[c])
         /\ front(s.scheduled[c]) = t /\ Len(s.scheduled[c]) > 1
              => front(n.scheduled[c]) = s.scheduled[c][2].thread

\* Moving a runnable thread to another core of its mask, or to none, keeps the
\* match.
LEMMA TransferFacts ==
    ASSUME NEW s, NEW M, NEW R, Match(s, M, R), NEW t \in Threads, R[t],
           M[t] \subseteq Cores, NEW dest \in M[t] \cup {NoCore}, dest # s.processor[t],
           NEW n, n = TransferToCore(s, dest, t)
    PROVE  Match(n, M, R) /\ Transferred(s, n, t, dest)
<1> DEFINE source == HomeCore(s, t)
           moved == [s EXCEPT !.processor[t] = dest]
           target == HomeCore(moved, t)
           p == s.priority[t]
           d == Displace(moved, t, source, target, p)
<1> USE CoresFacts
<1>0. /\ Sound(s) /\ s \in Queues /\ p \in Priorities
      /\ s.processor[t] \in Cores \cup {NoCore} /\ MatchesThread(s, t, M[t], R[t])
  BY QueuesFacts DEF Match, Sound
<1>1. /\ moved \in Queues /\ moved.scheduled = s.scheduled /\ moved.suggested = s.suggested
      /\ moved.priority = s.priority
      /\ moved.processor = [s.processor EXCEPT ![t] = dest]
  BY <1>0 DEF Queues
<1>2. moved.processor[t] = dest
  BY <1>0, <1>1 DEF Queues
<1>3. source = {s.processor[t]} \cap Cores /\ target = {dest} \cap Cores
  BY <1>2 DEF HomeCore
<1>4. n = Place(d, t, target, source, TRUE)
  BY DEF TransferToCore
<1> HIDE DEF moved, source, target, d
<1>5. /\ source \in SUBSET Cores /\ target \in SUBSET Cores /\ source \cap target = {}
  BY <1>3
<1>6. /\ \A c \in source : c = s.processor[t] /\ Lists(s.scheduled[c], t, p)
                           /\ Lacks(s.suggested[c], t)
      /\ \A c \in target : c = dest /\ c \in M[t] \ {s.processor[t]}
                           /\ Lists(s.suggested[c], t, p) /\ Lacks(s.scheduled[c], t)
  BY <1>0, <1>3 DEF MatchesThread
<1>7. Sound(moved)
  BY <1>0, <1>1 DEF Sound
<1>8. /\ Sound(d) /\ d.processor = moved.processor /\ d.priority = s.priority
      /\ \A c \in Cores : /\ Keeps(s.scheduled[c], d.scheduled[c], t)
                          /\ Keeps(s.suggested[c], d.suggested[c], t)
      /\ \A c \in source :
           /\ Lacks(d.scheduled[c], t)
           /\ front(s.scheduled[c]) # t => front(d.scheduled[c]) = front(s.scheduled[c])
           /\ front(s.scheduled[c]) = t /\ Len(s.scheduled[c]) > 1
                => front(d.scheduled[c]) = s.scheduled[c][2].thread
      /\ \A c \in target : Lacks(d.suggested[c], t)
      /\ \A c \in Cores \ source : d.scheduled[c] = s.scheduled[c]
      /\ \A c \in Cores \ target : d.suggested[c] = s.suggested[c]
  <2>1. d = Displace(moved, t, source, target, p)
    BY DEF d
  <2>2. /\ \A c \in source : Lists(moved.scheduled[c], t, p) \/ Lacks(moved.scheduled[c], t)
        /\ \A c \in target : Lists(moved.suggested[c], t, p) \/ Lacks(moved.suggested[c], t)
    BY <1>1, <1>6
  <2>3. Displaced(moved, d, t, source, target)
    BY <1>0, <1>5, <1>7, <2>1, <2>2, DisplaceFacts
  <2> QED BY <1>1, <2>3 DEF Displaced
<1>9. /\ Sound(n) /\ n.processor = moved.processor /\ n.priority = s.priority
      /\ \A c \in Cores : /\ Keeps(d.scheduled[c], n.scheduled[c], t)
                          /\ Keeps(d.suggested[c], n.suggested[c], t)
      /\ \A c \in target :
           /\ Lacks(d.scheduled[c], t) => Lists(n.scheduled[c], t, p)
           /\ d.scheduled[c] = <<>> => front(n.scheduled[c]) = t
      /\ \A c \in source : Lacks(d.suggested[c], t) => Lists(n.suggested[c], t, p)
      /\ \A c \in Cores \ target : n.scheduled[c] = d.scheduled[c]
      /\ \A c \in Cores \ source : n.suggested[c] = d.suggested[c]
  <2>0. Sound(d) /\ TRUE \in BOOLEAN
    BY <1>8
  <2>1. Placed(d, n, t, target, source)
    BY <1>4, <1>5, <2>0, PlaceFacts
  <2> QED BY <1>8, <2>1 DEF Placed
<1>10. \A c \in Cores : /\ Keeps(s.scheduled[c], n.scheduled[c], t)
                        /\ Keeps(s.suggested[c], n.suggested[c], t)
  BY <1>8, <1>9, KeepsTransitive
<1>11. ASSUME NEW u \in Threads PROVE MatchesThread(n, u, M[u], R[u])
  <2>1. CASE u # t
    <3>1. MatchesThread(s, u, M[u], R[u])
      BY DEF Match
    <3>2. n.processor[u] = s.processor[u] /\ n.priority[u] = s.priority[u]
      BY <1>0, <1>1, <1>9, <2>1 DEF Queues
    <3> QED BY <1>0, <1>10, <2>1, <3>1, <3>2, OthersMatch
  <2>2. CASE u = t
    <3>1. n.processor[t] = dest /\ n.priority[t] = p
      BY <1>2, <1>9
    <3>2. ASSUME NEW c \in Cores
          PROVE  /\ IF c = dest THEN Lists(n.scheduled[c], t, p)
                                ELSE Lacks(n.scheduled[c], t)
                 /\ IF c \in M[t] \ {dest} THEN Lists(n.suggested[c], t, p)
                                           ELSE Lacks(n.suggested[c], t)
      <4>0. /\ IF c = s.processor[t] THEN Lists(s.scheduled[c], t, p)
                                     ELSE Lacks(s.scheduled[c], t)
            /\ IF c \in M[t] \ {s.processor[t]} THEN Lists(s.suggested[c], t, p)
                                                ELSE Lacks(s.suggested[c], t)
            /\ s.processor[t] \in M[t] \cup {NoCore}
        BY <1>0 DEF MatchesThread
      <4>1. CASE c = dest
        <5>1. c \in target /\ c \notin source
          BY <1>3, <4>1
        <5> QED BY <1>6, <1>8, <1>9, <4>1, <5>1
      <4>2. CASE c # dest /\ c = s.processor[t]
        <5>1. c \in source /\ c \notin target /\ c \in M[t]
          BY <1>3, <4>0, <4>2
        <5> QED BY <1>6, <1>8, <1>9, <4>2, <5>1
      <4>3. CASE c # dest /\ c # s.processor[t]
        <5>1. c \notin source /\ c \notin target
          BY <1>3, <4>3
        <5> QED BY <1>8, <1>9, <4>0, <4>3, <5>1
      <4> QED BY <4>1, <4>2, <4>3
    <3> QED BY <2>2, <3>1, <3>2 DEF MatchesThread
  <2> QED BY <2>1, <2>2
<1>12. Match(n, M, R)
  BY <1>9, <1>11 DEF Match
<1>13. \A c \in Cores \ {dest, s.processor[t]} : n.scheduled[c] = s.scheduled[c]
  BY <1>3, <1>8, <1>9
<1>14. dest \in Cores /\ s.scheduled[dest] = <<>> => front(n.scheduled[dest]) = t
  <2>1. dest \in Cores => dest \in target /\ dest \notin source
    BY <1>3
  <2> QED BY <1>8, <1>9, <2>1
<1>15. ASSUME NEW c \in Cores, c = s.processor[t]
       PROVE  /\ front(s.scheduled[c]) # t => front(n.scheduled[c]) = front(s.scheduled[c])
              /\ front(s.scheduled[c]) = t /\ Len(s.scheduled[c]) > 1
                   => front(n.scheduled[c]) = s.scheduled[c][2].thread
  <2>1. c \in source /\ c \notin target
    BY <1>3, <1>15
  <2> QED BY <1>8, <1>9, <2>1
<1> QED BY <1>1, <1>9, <1>12, <1>13, <1>14, <1>15 DEF Transferred

\* The loops over suggestions end with none or a thread of the queue.
LEMMA WinnerFacts ==
    ASSUME NEW q \in Seq(Entries), NEW stops, NEW wins,
           FirstWinner(q, stops, wins) # None
    PROVE  /\ \E i \in DOMAIN q : q[i].thread = FirstWinner(q, stops, wins)
           /\ FirstWinner(q, stops, wins) \in wins \ stops
           /\ FirstWinner(q, stops, wins) \in Threads
<1> DEFINE ends == {i \in DOMAIN q : q[i].thread \in stops \cup wins}
<1>1. ends # {} /\ FirstWinner(q, stops, wins) = q[First(ends)].thread
      /\ q[First(ends)].thread \notin stops
  BY DEF FirstWinner
<1>2. ends \subseteq Nat
  OBVIOUS
<1>3. First(ends) \in ends
  <2> HIDE DEF ends
  <2> QED BY <1>1, <1>2, FirstFacts
<1>4. First(ends) \in DOMAIN q /\ q[First(ends)].thread \in stops \cup wins
  BY <1>3
<1> HIDE DEF ends
<1>5. q[First(ends)] \in Entries
  BY <1>4
<1>6. q[First(ends)].thread \in Threads
  BY <1>5, EntriesFacts
<1> QED BY <1>1, <1>4, <1>6

\* A thread that is suggested to a core is runnable, may run there and is placed
\* elsewhere.
LEMMA SuggestedFacts ==
    ASSUME NEW s, NEW M, NEW R, Match(s, M, R), NEW c \in Cores, NEW t \in Threads,
           \E i \in DOMAIN s.suggested[c] : s.suggested[c][i].thread = t
    PROVE  R[t] /\ c \in M[t] \ {s.processor[t]}
BY DEF Match, MatchesThread, Lacks

\* The same of a thread that is scheduled on a core.
LEMMA ScheduledFacts ==
    ASSUME NEW s, NEW M, NEW R, Match(s, M, R), NEW c \in Cores, NEW t \in Threads,
           \E i \in DOMAIN s.scheduled[c] : s.scheduled[c][i].thread = t
    PROVE  R[t] /\ c = s.processor[t]
BY DEF Match, MatchesThread, Lacks
-----------------------------------------------------------------------------
(* SelectThreads *)

\* What each round of the selection keeps: the queues match, the top thread of a
\* core is the front of its queue, and no thread loses its core.
TopsMatch(s, r, M, R) ==
    /\ Match(r.s, M, R)
    /\ r.top \in [Cores -> Threads \cup {None}]
    /\ \A c \in Cores : r.top[c] = front(r.s.scheduled[c])
    /\ \A t \in Threads : s.processor[t] # NoCore => r.s.processor[t] # NoCore

\* The front of a queue is the thread of its first entry, or None if it is empty.
LEMMA FrontFacts ==
    ASSUME NEW q \in Seq(Entries)
    PROVE  /\ front(q) \in Threads \cup {None}
           /\ front(q) = None <=> q = <<>>
           /\ front(q) # None => 1 \in DOMAIN q /\ q[1].thread = front(q)
<1>1. CASE q = <<>>
  BY <1>1 DEF front
<1>2. CASE q # <<>>
  <2>1. 1 \in DOMAIN q /\ q[1] \in Entries
    BY <1>2
  <2>2. q[1].thread \in Threads
    BY <2>1, EntriesFacts
  <2> QED BY <1>2, <2>1, <2>2, SchedulerAssumption DEF front
<1> QED BY <1>1, <1>2

\* SelectThreads begins with the fronts of the queues.
LEMMA FirstTopsMatch ==
    ASSUME NEW s, NEW M, NEW R, Match(s, M, R)
    PROVE  TopsMatch(s, FirstTops(s), M, R)
<1>1. \A c \in Cores : front(s.scheduled[c]) \in Threads \cup {None}
  BY FrontFacts, QueuesFacts DEF Match, Sound
<1> QED BY <1>1 DEF TopsMatch, FirstTops

\* A round that brings a thread from elsewhere to an idle core.
LEMMA BroughtMatch ==
    ASSUME NEW s, NEW r, NEW M \in [Threads -> SUBSET Cores], NEW R, TopsMatch(s, r, M, R),
           NEW c \in Cores, r.top[c] = None, NEW t \in Threads,
           \E i \in DOMAIN r.s.suggested[c] : r.s.suggested[c][i].thread = t,
           NEW n, n = [s |-> TransferToCore(r.s, c, t), top |-> n.top],
           n.top \in [Cores -> Threads \cup {None}], n.top[c] = t,
           \A d \in Cores : d \notin {c, r.s.processor[t]} => n.top[d] = r.top[d],
           \A d \in Cores : d = r.s.processor[t] =>
               \/ front(r.s.scheduled[d]) # t /\ n.top[d] = r.top[d]
               \/ /\ front(r.s.scheduled[d]) = t /\ Len(r.s.scheduled[d]) > 1
                  /\ n.top[d] = r.s.scheduled[d][2].thread
    PROVE  TopsMatch(s, n, M, R)
<1> USE CoresFacts
<1>1. Match(r.s, M, R) /\ r.s \in Queues
  BY DEF TopsMatch, Match, Sound
<1>2. R[t] /\ c \in M[t] \ {r.s.processor[t]} /\ M[t] \subseteq Cores
  BY <1>1, SuggestedFacts
<1>3. n.s = TransferToCore(r.s, c, t)
  OBVIOUS
<1>4. Match(n.s, M, R) /\ Transferred(r.s, n.s, t, c)
  BY <1>1, <1>2, <1>3, TransferFacts
<1>5. r.s.scheduled[c] = <<>>
  BY <1>1, FrontFacts, QueuesFacts DEF TopsMatch
<1>6. ASSUME NEW d \in Cores PROVE n.top[d] = front(n.s.scheduled[d])
  <2>0. r.top[d] = front(r.s.scheduled[d])
    BY DEF TopsMatch
  <2>1. CASE d = c
    BY <1>4, <1>5, <2>1 DEF Transferred
  <2>2. CASE d # c /\ d = r.s.processor[t]
    BY <1>4, <2>0, <2>2 DEF Transferred
  <2>3. CASE d # c /\ d # r.s.processor[t]
    BY <1>4, <2>0, <2>3 DEF Transferred
  <2> QED BY <2>1, <2>2, <2>3
<1>7. ASSUME NEW u \in Threads, s.processor[u] # NoCore PROVE n.s.processor[u] # NoCore
  <2>1. r.s.processor[u] # NoCore
    BY <1>7 DEF TopsMatch
  <2>2. n.s.processor[u] = IF u = t THEN c ELSE r.s.processor[u]
    BY <1>1, <1>4 DEF Transferred, Queues
  <2> QED BY <2>1, <2>2
<1> QED BY <1>4, <1>6, <1>7 DEF TopsMatch

\* A round brings the thread t to the idle core c: either its own core runs another
\* one, or its own core has another one to run.
Brings(r, n, c, t) ==
    /\ r.top[c] = None /\ t \in Threads
    /\ \E i \in DOMAIN r.s.suggested[c] : r.s.suggested[c][i].thread = t
    /\ n = [s |-> TransferToCore(r.s, c, t), top |-> n.top]
    /\ n.top \in [Cores -> Threads \cup {None}] /\ n.top[c] = t
    /\ \A d \in Cores : d \notin {c, r.s.processor[t]} => n.top[d] = r.top[d]
    /\ \A d \in Cores : d = r.s.processor[t] =>
         \/ front(r.s.scheduled[d]) # t /\ n.top[d] = r.top[d]
         \/ /\ front(r.s.scheduled[d]) = t /\ Len(r.s.scheduled[d]) > 1
            /\ n.top[d] = r.s.scheduled[d][2].thread

\* A round leaves the core c idle: a suggested thread is held back by one too urgent
\* for core migration, or all suggested threads are alone on their cores.
LeftIdle(r, c) ==
    \/ \E d \in Cores : TooUrgent(r.s, r.top[d])
    \/ \A i \in DOMAIN r.s.suggested[c] : LET t == r.s.suggested[c][i].thread IN
         /\ TopOf(r, t) = t
         /\ \A d \in HomeCore(r.s, t) : ~(Len(r.s.scheduled[d]) > 1)

\* A loop over suggestions that finds none: no thread ended it, or one stopped it.
LEMMA NoWinnerFacts ==
    ASSUME NEW q \in Seq(Entries), NEW stops, NEW wins,
           FirstWinner(q, stops, wins) = None
    PROVE  \/ \A i \in DOMAIN q : q[i].thread \notin stops \cup wins
           \/ \E i \in DOMAIN q : q[i].thread \in stops
<1> DEFINE ends == {i \in DOMAIN q : q[i].thread \in stops \cup wins}
<1>1. CASE ends = {}
  BY <1>1
<1>2. CASE ends # {}
  <2>1. ends \subseteq Nat
    OBVIOUS
  <2>2. First(ends) \in ends
    <3> HIDE DEF ends
    <3> QED BY <1>2, <2>1, FirstFacts
  <2>3. First(ends) \in DOMAIN q
    BY <2>2
  <2>4. q[First(ends)].thread \in stops \/ q[First(ends)].thread = None
    BY <1>2 DEF FirstWinner
  <2> HIDE DEF ends
  <2>5. q[First(ends)] \in Entries
    BY <2>3
  <2>6. q[First(ends)].thread \in Threads
    BY <2>5, EntriesFacts
  <2> QED BY <2>3, <2>4, <2>6, SchedulerAssumption
<1> QED BY <1>1, <1>2

\* The three outcomes of a round over a core.
LEMMA FillIdleCoreCases ==
    ASSUME NEW s, NEW r, NEW M \in [Threads -> SUBSET Cores], NEW R, TopsMatch(s, r, M, R),
           NEW c \in Cores
    PROVE  \/ FillIdleCore(r, c) = r /\ (r.top[c] # None \/ LeftIdle(r, c))
           \/ \E t \in Threads : Brings(r, FillIdleCore(r, c), c, t)
<1> DEFINE spare == SpareThread(r, c)
           donor == DonatedThread(r, c)
           from == r.s.processor[donor]
           next == r.s.scheduled[from][2].thread
<1>0. /\ r.s \in Queues /\ r.s.suggested[c] \in Seq(Entries)
      /\ r.top \in [Cores -> Threads \cup {None}]
      /\ \A d \in Cores : r.top[d] = front(r.s.scheduled[d])
  BY QueuesFacts DEF TopsMatch, Match, Sound
<1>1. CASE r.top[c] # None
  BY <1>1 DEF FillIdleCore
<1>2. CASE r.top[c] = None /\ spare # None
  <2> DEFINE n == [s |-> TransferToCore(r.s, c, spare), top |-> [r.top EXCEPT ![c] = spare]]
  <2>1. FillIdleCore(r, c) = n
    BY <1>2 DEF FillIdleCore
  <2>2. /\ spare \in Threads
        /\ \E i \in DOMAIN r.s.suggested[c] : r.s.suggested[c][i].thread = spare
        /\ TopOf(r, spare) # spare
    <3> DEFINE q == r.s.suggested[c]
               wins == {t \in Threads : TopOf(r, t) # t}
               stops == {t \in wins : TooUrgent(r.s, TopOf(r, t))}
    <3>1. spare = FirstWinner(q, stops, wins)
      <4>1. stops = {t \in Threads : TopOf(r, t) # t /\ TooUrgent(r.s, TopOf(r, t))}
        OBVIOUS
      <4> QED BY <4>1 DEF SpareThread
    <3> HIDE DEF q, stops, wins, spare
    <3>2. /\ \E i \in DOMAIN q : q[i].thread = spare
          /\ spare \in wins /\ spare \in Threads
      BY <1>0, <1>2, <3>1, WinnerFacts DEF q
    <3> QED BY <3>2 DEF q, wins
  <2>3. ASSUME NEW d \in Cores, d = r.s.processor[spare]
        PROVE  front(r.s.scheduled[d]) # spare
    BY <1>0, <2>2, <2>3 DEF TopOf
  <2>4. \A d \in Cores : d = r.s.processor[spare] => d # c
    <3>1. c \in M[spare] \ {r.s.processor[spare]}
      BY <2>2, SuggestedFacts DEF TopsMatch
    <3> QED BY <3>1
  <2> HIDE DEF spare
  <2>5. /\ n.top \in [Cores -> Threads \cup {None}] /\ n.top[c] = spare
        /\ \A d \in Cores \ {c} : n.top[d] = r.top[d]
    BY <1>0, <2>2
  <2>6. n = [s |-> TransferToCore(r.s, c, spare), top |-> n.top]
    OBVIOUS
  <2> HIDE DEF n
  <2>7. Brings(r, n, c, spare)
    BY <1>2, <2>2, <2>3, <2>4, <2>5, <2>6 DEF Brings
  <2> QED BY <2>1, <2>2, <2>7
<1>3. CASE r.top[c] = None /\ spare = None /\ donor # None
  <2> DEFINE n == [s |-> TransferToCore(r.s, c, donor),
                   top |-> [r.top EXCEPT ![c] = donor, ![from] = next]]
  <2>1. FillIdleCore(r, c) = n
    BY <1>3 DEF FillIdleCore
  <2>2. /\ donor \in Threads
        /\ \E i \in DOMAIN r.s.suggested[c] : r.s.suggested[c][i].thread = donor
        /\ TopOf(r, donor) = donor
        /\ \E d \in HomeCore(r.s, donor) : Len(r.s.scheduled[d]) > 1
    <3> DEFINE q == r.s.suggested[c]
               stops == {t \in Threads : TopOf(r, t) # t}
               wins == {t \in Threads : \E d \in HomeCore(r.s, t) :
                                           Len(r.s.scheduled[d]) > 1}
    <3>1. donor = FirstWinner(q, stops, wins)
      BY DEF DonatedThread
    <3> HIDE DEF q, stops, wins, donor
    <3>2. /\ \E i \in DOMAIN q : q[i].thread = donor
          /\ donor \in wins \ stops /\ donor \in Threads
      BY <1>0, <1>3, <3>1, WinnerFacts DEF q
    <3> QED BY <3>2 DEF q, wins, stops
  <2>3. from \in Cores /\ Len(r.s.scheduled[from]) > 1
    BY <2>2 DEF HomeCore
  <2>4. front(r.s.scheduled[from]) = donor
    BY <1>0, <2>2, <2>3 DEF TopOf
  <2>5. from # c
    BY <2>2, SuggestedFacts DEF TopsMatch
  <2>6. next \in Threads
    <3>1. r.s.scheduled[from] \in Seq(Entries)
      BY <1>0, <2>3, QueuesFacts
    <3>2. r.s.scheduled[from][2] \in Entries
      BY <2>3, <3>1
    <3> QED BY <3>2, EntriesFacts
  <2>7. /\ n.top \in [Cores -> Threads \cup {None}] /\ n.top[c] = donor
        /\ n.top[from] = next
        /\ \A d \in Cores \ {c, from} : n.top[d] = r.top[d]
    <3> HIDE DEF donor, from, next
    <3> QED BY <1>0, <2>2, <2>3, <2>5, <2>6
  <2>8. n = [s |-> TransferToCore(r.s, c, donor), top |-> n.top]
    OBVIOUS
  <2>9. \A d \in Cores : d = r.s.processor[donor] =>
           \/ front(r.s.scheduled[d]) # donor /\ n.top[d] = r.top[d]
           \/ /\ front(r.s.scheduled[d]) = donor /\ Len(r.s.scheduled[d]) > 1
              /\ n.top[d] = r.s.scheduled[d][2].thread
    BY <2>3, <2>4, <2>7
  <2>10. \A d \in Cores : d \notin {c, r.s.processor[donor]} => n.top[d] = r.top[d]
    BY <2>7
  <2>11. /\ r.top[c] = None /\ donor \in Threads
         /\ \E i \in DOMAIN r.s.suggested[c] : r.s.suggested[c][i].thread = donor
         /\ n.top \in [Cores -> Threads \cup {None}] /\ n.top[c] = donor
    BY <1>3, <2>2, <2>7
  <2> HIDE DEF n, donor, from, next
  <2>12. Brings(r, n, c, donor)
    BY <2>8, <2>9, <2>10, <2>11 DEF Brings
  <2> QED BY <2>1, <2>11, <2>12
<1>4. CASE r.top[c] = None /\ spare = None /\ donor = None
  <2> DEFINE q == r.s.suggested[c]
             others == {t \in Threads : TopOf(r, t) # t}
             halts == {t \in Threads : TopOf(r, t) # t /\ TooUrgent(r.s, TopOf(r, t))}
             gives == {t \in Threads : \E d \in HomeCore(r.s, t) :
                                          Len(r.s.scheduled[d]) > 1}
  <2>1. FillIdleCore(r, c) = r
    BY <1>4 DEF FillIdleCore
  <2>2. FirstWinner(q, halts, others) = None
    BY <1>4 DEF SpareThread
  <2>3. FirstWinner(q, others, gives) = None
    BY <1>4 DEF DonatedThread
  <2>4. \A i \in DOMAIN q : q[i].thread \in Threads
    <3>1. \A i \in DOMAIN q : q[i] \in Entries
      BY <1>0
    <3> QED BY <3>1, EntriesFacts
  <2>5. ASSUME NEW t \in halts PROVE \E d \in Cores : TooUrgent(r.s, r.top[d])
    BY <2>5 DEF TopOf, TooUrgent
  <2>6. /\ \A t \in others \ gives : t \in others
        /\ \A t \in Threads \ (others \cup gives) :
             /\ TopOf(r, t) = t
             /\ \A d \in HomeCore(r.s, t) : ~(Len(r.s.scheduled[d]) > 1)
    OBVIOUS
  <2> HIDE DEF q, others, halts, gives
  <2>7. \/ \A i \in DOMAIN q : q[i].thread \notin halts \cup others
        \/ \E i \in DOMAIN q : q[i].thread \in halts
    BY <1>0, <2>2, NoWinnerFacts DEF q
  <2>8. \/ \A i \in DOMAIN q : q[i].thread \notin others \cup gives
        \/ \E i \in DOMAIN q : q[i].thread \in others
    BY <1>0, <2>3, NoWinnerFacts DEF q
  <2>9. \/ \E d \in Cores : TooUrgent(r.s, r.top[d])
        \/ \A i \in DOMAIN q : q[i].thread \in Threads \ (others \cup gives)
    BY <2>4, <2>5, <2>7, <2>8
  <2>10. LeftIdle(r, c)
    BY <2>6, <2>9 DEF LeftIdle, q
  <2> QED BY <2>1, <2>10
<1> QED BY <1>1, <1>2, <1>3, <1>4

\* A round over an idle core, whichever thread it brings there, or none.
LEMMA FillIdleCoreMatch ==
    ASSUME NEW s, NEW r, NEW M \in [Threads -> SUBSET Cores], NEW R, TopsMatch(s, r, M, R),
           NEW c \in Cores
    PROVE  TopsMatch(s, FillIdleCore(r, c), M, R)
<1>1. ASSUME NEW t \in Threads, Brings(r, FillIdleCore(r, c), c, t)
      PROVE  TopsMatch(s, FillIdleCore(r, c), M, R)
  <2> DEFINE n == FillIdleCore(r, c)
  <2>1. Brings(r, n, c, t)
    BY <1>1
  <2> HIDE DEF n
  <2>2. TopsMatch(s, n, M, R)
    BY <2>1, BroughtMatch DEF Brings
  <2> QED BY <2>2 DEF n
<1> QED BY <1>1, FillIdleCoreCases

\* A core that is idle after its round is so for a reason.
IdleExcused(r, c, M, R) ==
    r.top[c] = None =>
        \/ \E d \in Cores : TooUrgent(r.s, r.top[d])
        \/ \A t \in Threads : R[t] /\ c \in M[t] =>
             /\ r.s.processor[t] \in Cores
             /\ r.top[r.s.processor[t]] = t
             /\ Len(r.s.scheduled[r.s.processor[t]]) = 1

\* A queue that lists a thread is not empty, and if it has one entry only, that is
\* the thread's.
LEMMA ListsFacts ==
    ASSUME NEW q \in Seq(Entries), NEW t \in Threads, NEW p, Lists(q, t, p)
    PROVE  q # <<>> /\ Len(q) >= 1 /\ (Len(q) = 1 => front(q) = t)
<1>1. PICK i \in DOMAIN q : q[i] = Entry(t, p)
  BY DEF Lists
<1>2. q[i].thread = t /\ i \in 1..Len(q) /\ Len(q) \in Nat
  BY <1>1 DEF Entry
<1> QED BY <1>2 DEF front

\* A round that leaves its core idle has looked at all threads that could run there.
LEMMA OwnRoundExcused ==
    ASSUME NEW s, NEW r, NEW M \in [Threads -> SUBSET Cores], NEW R, TopsMatch(s, r, M, R),
           NEW c \in Cores
    PROVE  IdleExcused(FillIdleCore(r, c), c, M, R)
<1> DEFINE n == FillIdleCore(r, c)
<1>1. CASE n = r /\ r.top[c] # None
  BY <1>1 DEF IdleExcused
<1>2. ASSUME NEW t \in Threads, Brings(r, n, c, t) PROVE IdleExcused(n, c, M, R)
  <2>1. n.top[c] = t
    BY <1>2 DEF Brings
  <2> HIDE DEF n
  <2> QED BY <2>1, SchedulerAssumption DEF IdleExcused
<1>3. CASE n = r /\ r.top[c] = None /\ LeftIdle(r, c)
  <2> SUFFICES ASSUME ~ \E d \in Cores : TooUrgent(r.s, r.top[d]),
                      NEW t \in Threads, R[t], c \in M[t]
               PROVE  /\ r.s.processor[t] \in Cores
                      /\ r.top[r.s.processor[t]] = t
                      /\ Len(r.s.scheduled[r.s.processor[t]]) = 1
    BY <1>3 DEF IdleExcused
  <2>1. /\ Match(r.s, M, R) /\ r.s \in Queues /\ MatchesThread(r.s, t, M[t], R[t])
        /\ \A d \in Cores : /\ r.top[d] = front(r.s.scheduled[d])
                            /\ r.s.scheduled[d] \in Seq(Entries)
    BY QueuesFacts DEF TopsMatch, Match, Sound
  <2>2. r.s.scheduled[c] = <<>>
    BY <1>3, <2>1, FrontFacts
  <2>3. r.s.processor[t] # c
    <3>1. r.s.processor[t] = c => Lists(r.s.scheduled[c], t, r.s.priority[t])
      BY <2>1 DEF MatchesThread
    <3> QED BY <2>1, <2>2, <3>1, ListsFacts
  <2>4. PICK i \in DOMAIN r.s.suggested[c] :
          r.s.suggested[c][i] = Entry(t, r.s.priority[t])
    BY <2>1, <2>3 DEF MatchesThread, Lists
  <2>5. r.s.suggested[c][i].thread = t
    BY <2>4 DEF Entry
  <2>6. /\ TopOf(r, t) = t
        /\ \A d \in HomeCore(r.s, t) : ~(Len(r.s.scheduled[d]) > 1)
    BY <1>3, <2>5 DEF LeftIdle
  <2>7. r.s.processor[t] \in Cores /\ r.top[r.s.processor[t]] = t
    BY <2>6, SchedulerAssumption DEF TopOf
  <2>8. ~(Len(r.s.scheduled[r.s.processor[t]]) > 1)
    BY <2>6, <2>7 DEF HomeCore
  <2>9. Lists(r.s.scheduled[r.s.processor[t]], t, r.s.priority[t])
    BY <2>1, <2>7 DEF MatchesThread
  <2>10. Len(r.s.scheduled[r.s.processor[t]]) >= 1
         /\ Len(r.s.scheduled[r.s.processor[t]]) \in Nat
    BY <2>1, <2>7, <2>9, ListsFacts
  <2> DEFINE len == Len(r.s.scheduled[r.s.processor[t]])
  <2>11. len \in Nat /\ len >= 1 /\ ~(len > 1)
    BY <2>8, <2>10
  <2> HIDE DEF len
  <2>12. len = 1
    BY <2>11
  <2> QED BY <2>7, <2>12 DEF len
<1> HIDE DEF n
<1>4. IdleExcused(n, c, M, R)
  BY <1>1, <1>2, <1>3, FillIdleCoreCases DEF n
<1> QED BY <1>4 DEF n

\* The later rounds take no thread from a core that has only one, and a thread too
\* urgent for migration stays the top thread of some core.
LEMMA LaterRoundExcused ==
    ASSUME NEW s, NEW r, NEW M \in [Threads -> SUBSET Cores], NEW R, TopsMatch(s, r, M, R),
           NEW c \in Cores, NEW e \in Cores, e # c, IdleExcused(r, e, M, R)
    PROVE  IdleExcused(FillIdleCore(r, c), e, M, R)
<1> DEFINE n == FillIdleCore(r, c)
<1>1. CASE n = r
  BY <1>1
<1>2. ASSUME NEW t \in Threads, Brings(r, n, c, t) PROVE IdleExcused(n, e, M, R)
  <2> HIDE DEF n
  <2> USE <1>2 DEF Brings
  <2>1. /\ Match(r.s, M, R) /\ r.s \in Queues /\ MatchesThread(r.s, t, M[t], R[t])
        /\ \A d \in Cores : /\ r.top[d] = front(r.s.scheduled[d])
                            /\ r.s.scheduled[d] \in Seq(Entries)
    BY QueuesFacts DEF TopsMatch, Match, Sound
  <2>2. R[t] /\ c \in M[t] \ {r.s.processor[t]} /\ M[t] \subseteq Cores
    BY <2>1, SuggestedFacts
  <2>3. n.s = TransferToCore(r.s, c, t)
    OBVIOUS
  <2>4. Transferred(r.s, n.s, t, c)
    BY <2>1, <2>2, <2>3, TransferFacts
  <2>5. r.s.processor \in [Threads -> Cores \cup {NoCore}] /\ n.s.priority = r.s.priority
        /\ n.s.processor = [r.s.processor EXCEPT ![t] = c]
        /\ \A d \in Cores \ {c, r.s.processor[t]} : n.s.scheduled[d] = r.s.scheduled[d]
    BY <2>1, <2>4 DEF Transferred, Queues
  <2>6. ASSUME NEW d \in Cores, TooUrgent(r.s, r.top[d])
        PROVE  \E x \in Cores : TooUrgent(n.s, n.top[x])
    <3>1. d # c
      BY <2>6 DEF TooUrgent
    <3>2. \E x \in Cores : n.top[x] = r.top[d]
      BY <2>1, <3>1
    <3> QED BY <2>5, <2>6, <3>2 DEF TooUrgent
  <2>7. ASSUME NEW u \in Threads, r.s.processor[u] \in Cores,
               r.top[r.s.processor[u]] = u, Len(r.s.scheduled[r.s.processor[u]]) = 1
        PROVE  /\ n.s.processor[u] \in Cores
               /\ n.top[n.s.processor[u]] = u
               /\ Len(n.s.scheduled[n.s.processor[u]]) = 1
    <3>1. r.s.processor[u] # c
      BY <2>7, SchedulerAssumption
    <3>2. r.s.processor[u] # r.s.processor[t]
      <4> SUFFICES ASSUME r.s.processor[u] = r.s.processor[t] PROVE FALSE
        OBVIOUS
      <4> DEFINE d == r.s.processor[t]
      <4>1. d \in Cores /\ Lists(r.s.scheduled[d], t, r.s.priority[t])
        BY <2>1, <2>2, <2>7 DEF MatchesThread
      <4>2. front(r.s.scheduled[d]) = t
        BY <2>1, <2>7, <4>1, ListsFacts
      <4> QED BY <2>7, <4>1, <4>2
    <3>3. u # t
      BY <3>2
    <3> QED BY <2>5, <2>7, <3>1, <3>2, <3>3
  <2>8. n.top[e] = None => r.top[e] = None
    <3>1. CASE e # r.s.processor[t]
      BY <3>1
    <3>2. CASE e = r.s.processor[t] /\ r.top[e] # None
      <4>1. r.s.scheduled[e] \in Seq(Entries)
        BY <2>1
      <4>2. CASE Len(r.s.scheduled[e]) > 1
        <5>1. r.s.scheduled[e][2] \in Entries
          BY <4>1, <4>2
        <5>2. r.s.scheduled[e][2].thread \in Threads
          BY <5>1, EntriesFacts
        <5> QED BY <3>2, <5>2, SchedulerAssumption
      <4>3. CASE ~(Len(r.s.scheduled[e]) > 1)
        BY <3>2, <4>3
      <4> QED BY <4>2, <4>3
    <3> QED BY <3>1, <3>2
  <2> QED BY <2>6, <2>7, <2>8 DEF IdleExcused
<1> HIDE DEF n
<1>3. IdleExcused(n, e, M, R)
  BY <1>1, <1>2, FillIdleCoreCases DEF n
<1> QED BY <1>3 DEF n

\* The recursive definition of the rounds has a solution.
LEMMA SelectRoundsFacts ==
    ASSUME NEW s
    PROVE  SelectRounds(s) = [n \in 0..NumCores |->
               IF n = 0 THEN FirstTops(s) ELSE FillIdleCore(SelectRounds(s)[n - 1], n - 1)]
<1> DEFINE Step(f, n) == IF n = 0 THEN FirstTops(s) ELSE FillIdleCore(f[n - 1], n - 1)
           T == {m \in 0..NumCores : ~ \E f : f = [n \in 0..m |-> Step(f, n)]}
<1>0. NumCores \in Nat
  BY SchedulerAssumption
<1>1. ASSUME T # {} PROVE FALSE
  <2>1. T \subseteq Nat
    BY <1>0
  <2> DEFINE m == First(T)
  <2>2. m \in T /\ \A k \in T : m <= k
    <3> HIDE DEF T
    <3> QED BY <1>1, <2>1, FirstFacts
  <2>3. m \in 0..NumCores /\ m \in Nat /\ ~ \E f : f = [n \in 0..m |-> Step(f, n)]
    BY <1>0, <2>2
  <2> HIDE DEF m
  <2>4. CASE m = 0
    <3> DEFINE f == [n \in 0..m |-> FirstTops(s)]
    <3>1. f = [n \in 0..m |-> Step(f, n)]
      BY <2>4
    <3> QED BY <2>3, <3>1
  <2>5. CASE m # 0
    <3>1. m - 1 \in 0..NumCores /\ m - 1 \notin T
      BY <1>0, <2>2, <2>3, <2>5
    <3>2. PICK g : g = [n \in 0..(m - 1) |-> Step(g, n)]
      BY <3>1
    <3> DEFINE f == [n \in 0..m |-> IF n < m THEN g[n] ELSE Step(g, m)]
    <3>3. ASSUME NEW n \in 0..m PROVE f[n] = Step(f, n)
      <4>1. n # 0 => f[n - 1] = g[n - 1]
        BY <2>3, <3>3
      <4>2. Step(f, n) = Step(g, n)
        BY <4>1
      <4>3. CASE n < m
        <5>1. n \in 0..(m - 1)
          BY <2>3, <4>3
        <5>2. g[n] = Step(g, n)
          BY <3>2, <5>1
        <5>3. f[n] = g[n]
          BY <4>3
        <5> QED BY <4>2, <5>2, <5>3
      <4>4. CASE ~(n < m)
        <5>1. n = m
          BY <2>3, <4>4
        <5> QED BY <4>2, <5>1
      <4> QED BY <4>3, <4>4
    <3>4. f = [n \in 0..m |-> f[n]]
      OBVIOUS
    <3>5. f = [n \in 0..m |-> Step(f, n)]
      BY <3>3, <3>4
    <3> QED BY <2>3, <3>5
  <2> QED BY <2>4, <2>5
<1>2. \E f : f = [n \in 0..NumCores |-> Step(f, n)]
  BY <1>0, <1>1
<1>3. SelectRounds(s) = CHOOSE f : f = [n \in 0..NumCores |-> Step(f, n)]
  BY DEF SelectRounds
<1> QED BY <1>2, <1>3, Zenon

\* Hence SelectThreads ends with queues that match and with their fronts.
LEMMA SelectThreadsMatch ==
    ASSUME NEW s, NEW M \in [Threads -> SUBSET Cores], NEW R, Match(s, M, R)
    PROVE  TopsMatch(s, SelectThreads(s), M, R)
<1> DEFINE after == SelectRounds(s)
           T == {m \in 0..NumCores : ~TopsMatch(s, after[m], M, R)}
<1>0. NumCores \in Nat
  BY SchedulerAssumption
<1>1. \A n \in 0..NumCores :
        after[n] = IF n = 0 THEN FirstTops(s) ELSE FillIdleCore(after[n - 1], n - 1)
  <2> HIDE DEF after
  <2>1. after = [n \in 0..NumCores |->
               IF n = 0 THEN FirstTops(s) ELSE FillIdleCore(after[n - 1], n - 1)]
    BY SelectRoundsFacts DEF after
  <2> QED BY <2>1, Zenon
<1> HIDE DEF after
<1>2. ASSUME T # {} PROVE FALSE
  <2>1. T \subseteq Nat
    BY <1>0
  <2> DEFINE m == First(T)
  <2>2. m \in T /\ \A k \in T : m <= k
    <3> HIDE DEF T
    <3> QED BY <1>2, <2>1, FirstFacts
  <2>3. m \in 0..NumCores /\ ~TopsMatch(s, after[m], M, R)
    BY <2>2
  <2> HIDE DEF m
  <2>4. m # 0
    BY <1>0, <1>1, <2>3, FirstTopsMatch
  <2>5. m - 1 \in 0..NumCores /\ m - 1 \in Cores /\ m - 1 \notin T
    BY <1>0, <2>2, <2>3, <2>4 DEF Cores
  <2>6. TopsMatch(s, after[m - 1], M, R)
    BY <2>5
  <2>7. after[m] = FillIdleCore(after[m - 1], m - 1)
    BY <1>1, <2>3, <2>4
  <2> QED BY <2>3, <2>5, <2>6, <2>7, FillIdleCoreMatch
<1>3. TopsMatch(s, after[NumCores], M, R)
  BY <1>0, <1>2
<1> QED BY <1>3 DEF after, SelectThreads

\* The thread at the front of a queue is placed on that core.
LEMMA TopsAtHome ==
    ASSUME NEW s, NEW r, NEW M, NEW R, TopsMatch(s, r, M, R),
           NEW c \in Cores, r.top[c] # None
    PROVE  r.s.processor[r.top[c]] = c
<1>1. r.s.scheduled[c] \in Seq(Entries) /\ r.top[c] = front(r.s.scheduled[c])
  BY QueuesFacts DEF TopsMatch, Match, Sound
<1>2. r.top[c] \in Threads
  BY DEF TopsMatch
<1>3. 1 \in DOMAIN r.s.scheduled[c] /\ r.s.scheduled[c][1].thread = r.top[c]
  BY <1>1, FrontFacts
<1> QED BY <1>2, <1>3, ScheduledFacts DEF TopsMatch

\* After the round of a core, and after all later ones, the core is busy or idle
\* for a reason; so SelectThreads leaves no core idle in vain.
LEMMA SelectThreadsExcused ==
    ASSUME NEW s, NEW M \in [Threads -> SUBSET Cores], NEW R, Match(s, M, R),
           NEW e \in Cores
    PROVE  IdleExcused(SelectThreads(s), e, M, R)
<1> DEFINE after == SelectRounds(s)
           T == {m \in 0..NumCores :
                   \/ ~TopsMatch(s, after[m], M, R)
                   \/ e < m /\ ~IdleExcused(after[m], e, M, R)}
<1>0. NumCores \in Nat /\ e \in 0..(NumCores - 1)
  BY SchedulerAssumption DEF Cores
<1>1. \A n \in 0..NumCores :
        after[n] = IF n = 0 THEN FirstTops(s) ELSE FillIdleCore(after[n - 1], n - 1)
  <2> HIDE DEF after
  <2>1. after = [n \in 0..NumCores |->
               IF n = 0 THEN FirstTops(s) ELSE FillIdleCore(after[n - 1], n - 1)]
    BY SelectRoundsFacts DEF after
  <2> QED BY <2>1, Zenon
<1> HIDE DEF after
<1>2. ASSUME T # {} PROVE FALSE
  <2>1. T \subseteq Nat
    BY <1>0
  <2> DEFINE m == First(T)
  <2>2. m \in T /\ \A k \in T : m <= k
    <3> HIDE DEF T
    <3> QED BY <1>2, <2>1, FirstFacts
  <2>3. m \in 0..NumCores
    BY <2>2
  <2>4. \/ ~TopsMatch(s, after[m], M, R)
        \/ e < m /\ ~IdleExcused(after[m], e, M, R)
    BY <2>2
  <2> HIDE DEF m
  <2>5. m # 0
    BY <1>0, <1>1, <2>3, <2>4, FirstTopsMatch
  <2>6. m - 1 \in 0..NumCores /\ m - 1 \in Cores /\ m - 1 \notin T
    BY <1>0, <2>2, <2>3, <2>5 DEF Cores
  <2>7. /\ TopsMatch(s, after[m - 1], M, R)
        /\ e < m - 1 => IdleExcused(after[m - 1], e, M, R)
    BY <2>6
  <2>8. after[m] = FillIdleCore(after[m - 1], m - 1)
    BY <1>1, <2>3, <2>5
  <2>9. TopsMatch(s, after[m], M, R)
    BY <2>6, <2>7, <2>8, FillIdleCoreMatch
  <2>10. CASE e = m - 1
    BY <2>4, <2>6, <2>7, <2>8, <2>9, <2>10, OwnRoundExcused
  <2>11. CASE e < m - 1
    BY <2>4, <2>6, <2>7, <2>8, <2>9, <2>11, LaterRoundExcused
  <2> QED BY <1>0, <2>3, <2>4, <2>9, <2>10, <2>11
<1>3. IdleExcused(after[NumCores], e, M, R)
  BY <1>0, <1>2
<1> QED BY <1>3 DEF after, SelectThreads
-----------------------------------------------------------------------------
(* Status, priority and affinity of a thread *)

\* The cores of a mask, split into the one that the thread is placed on and the
\* others.
Splits(home, others, core, mask) ==
    /\ home \in SUBSET Cores /\ others \in SUBSET Cores
    /\ \A c \in Cores :
        /\ c \in home <=> c = core
        /\ c \in others <=> c \in mask \ {core}

\* HomeCore splits the mask of a thread that is placed in it, or nowhere.
LEMMA HomeSplits ==
    ASSUME NEW s, NEW t, NEW mask \in SUBSET Cores
    PROVE  /\ Splits(HomeCore(s, t), mask \ HomeCore(s, t), s.processor[t], mask)
           /\ s.processor[t] \in mask \cup {NoCore} =>
                Splits(mask \cap HomeCore(s, t), mask \ HomeCore(s, t), s.processor[t], mask)
BY CoresFacts DEF Splits, HomeCore

\* No queue has thread t, and the others match.
Bare(s, t, M, R) ==
    /\ Sound(s)
    /\ \A c \in Cores : Lacks(s.scheduled[c], t) /\ Lacks(s.suggested[c], t)
    /\ \A u \in Threads \ {t} : MatchesThread(s, u, M[u], R[u])

\* x differs from s at most in where thread t belongs, and at which level.
SameBut(s, x, t) ==
    /\ x \in Queues /\ x.scheduled = s.scheduled /\ x.suggested = s.suggested
    /\ \A u \in Threads \ {t} : x.processor[u] = s.processor[u] /\ x.priority[u] = s.priority[u]

\* The other threads still match.
LEMMA SameButFacts ==
    ASSUME NEW s, NEW M, NEW R, Match(s, M, R), NEW t \in Threads, NEW x, SameBut(s, x, t)
    PROVE  Sound(x) /\ \A u \in Threads \ {t} : MatchesThread(x, u, M[u], R[u])
<1>1. Sound(x)
  BY DEF Match, Sound, SameBut
<1>2. ASSUME NEW u \in Threads \ {t} PROVE MatchesThread(x, u, M[u], R[u])
  <2>1. MatchesThread(s, u, M[u], R[u]) /\ s \in Queues
    BY DEF Match, Sound
  <2> QED BY <2>1, OthersMatch, KeepsReflexive DEF SameBut
<1> QED BY <1>1, <1>2

\* No queue has a thread that is not runnable.
LEMMA MatchBare ==
    ASSUME NEW s, NEW M, NEW R, Match(s, M, R), NEW t \in Threads, ~R[t],
           NEW x, SameBut(s, x, t)
    PROVE  Bare(x, t, M, R)
<1>1. Sound(x) /\ \A u \in Threads \ {t} : MatchesThread(x, u, M[u], R[u])
  BY SameButFacts
<1>2. MatchesThread(s, t, M[t], R[t])
  BY DEF Match
<1> QED BY <1>1, <1>2 DEF Bare, SameBut, MatchesThread

\* No queue has a runnable thread that has been displaced from where it was.
LEMMA DisplaceBare ==
    ASSUME NEW s, NEW M, NEW R, Match(s, M, R), NEW t \in Threads, R[t],
           NEW x, SameBut(s, x, t), NEW home, NEW others,
           Splits(home, others, s.processor[t], M[t]),
           NEW d, d = Displace(x, t, home, others, s.priority[t])
    PROVE  Bare(d, t, M, R) /\ d.processor = x.processor /\ d.priority = x.priority
<1>0. /\ MatchesThread(s, t, M[t], R[t]) /\ s.priority[t] \in Priorities
      /\ home \in SUBSET Cores /\ others \in SUBSET Cores
      /\ \A c \in Cores :
          /\ c \in home <=> c = s.processor[t]
          /\ c \in others <=> c \in M[t] \ {s.processor[t]}
  BY QueuesFacts DEF Match, Sound, Splits
<1>1. Sound(x) /\ \A u \in Threads \ {t} : MatchesThread(x, u, M[u], R[u])
  BY SameButFacts
<1>2. /\ x \in Queues
      /\ \A c \in home : Lists(x.scheduled[c], t, s.priority[t])
      /\ \A c \in others : Lists(x.suggested[c], t, s.priority[t])
      /\ \A c \in Cores \ home : Lacks(x.scheduled[c], t)
      /\ \A c \in Cores \ others : Lacks(x.suggested[c], t)
  BY <1>0 DEF SameBut, MatchesThread
<1>3. Displaced(x, d, t, home, others)
  BY <1>0, <1>1, <1>2, DisplaceFacts
<1>4. ASSUME NEW u \in Threads \ {t} PROVE MatchesThread(d, u, M[u], R[u])
  BY <1>1, <1>2, <1>3, OthersMatch DEF Displaced
<1>5. ASSUME NEW c \in Cores PROVE Lacks(d.scheduled[c], t) /\ Lacks(d.suggested[c], t)
  BY <1>2, <1>3 DEF Displaced
<1>6. Sound(d) /\ d.processor = x.processor /\ d.priority = x.priority
  BY <1>3 DEF Displaced
<1> QED BY <1>4, <1>5, <1>6 DEF Bare

SameElse(f, g, t) == \A u \in Threads \ {t} : g[u] = f[u]

\* Without t, the queues match a t that is not runnable.
LEMMA BareMatch ==
    ASSUME NEW d, NEW M, NEW R, NEW t \in Threads, Bare(d, t, M, R),
           NEW N, NEW Q, SameElse(M, N, t), SameElse(R, Q, t), ~Q[t],
           d.processor[t] \in N[t] \cup {NoCore}
    PROVE  Match(d, N, Q)
<1>1. MatchesThread(d, t, N[t], Q[t])
  BY DEF Bare, MatchesThread
<1>2. ASSUME NEW u \in Threads PROVE MatchesThread(d, u, N[u], Q[u])
  BY <1>1 DEF Bare, SameElse
<1> QED BY <1>2 DEF Match, Bare

\* With t placed by its mask, they match a runnable t.
LEMMA PlaceMatch ==
    ASSUME NEW d, NEW M, NEW R, NEW t \in Threads, Bare(d, t, M, R),
           NEW N, NEW Q, SameElse(M, N, t), SameElse(R, Q, t), Q[t],
           d.processor[t] \in N[t] \cup {NoCore},
           NEW b \in BOOLEAN, NEW home, NEW others,
           Splits(home, others, d.processor[t], N[t]),
           NEW n, n = Place(d, t, home, others, b)
    PROVE  Match(n, N, Q) /\ n.processor = d.processor
<1>1. /\ Sound(d) /\ d \in Queues /\ home \in SUBSET Cores /\ others \in SUBSET Cores
      /\ \A c \in Cores :
          /\ c \in home <=> c = d.processor[t]
          /\ c \in others <=> c \in N[t] \ {d.processor[t]}
  BY DEF Bare, Sound, Splits
<1>2. Placed(d, n, t, home, others)
  BY <1>1, PlaceFacts
<1>3. MatchesThread(n, t, N[t], Q[t])
  <2>1. n.processor[t] = d.processor[t] /\ n.priority[t] = d.priority[t]
    BY <1>2 DEF Placed
  <2>2. ASSUME NEW c \in Cores
        PROVE  /\ IF c = d.processor[t] THEN Lists(n.scheduled[c], t, d.priority[t])
                                        ELSE Lacks(n.scheduled[c], t)
               /\ IF c \in N[t] \ {d.processor[t]}
                    THEN Lists(n.suggested[c], t, d.priority[t])
                    ELSE Lacks(n.suggested[c], t)
    <3>1. Lacks(d.scheduled[c], t) /\ Lacks(d.suggested[c], t)
      BY DEF Bare
    <3>2. /\ c \in home => Lists(n.scheduled[c], t, d.priority[t])
          /\ c \notin home => Lacks(n.scheduled[c], t)
      BY <1>2, <3>1 DEF Placed
    <3>3. /\ c \in others => Lists(n.suggested[c], t, d.priority[t])
          /\ c \notin others => Lacks(n.suggested[c], t)
      BY <1>2, <3>1 DEF Placed
    <3> QED BY <1>1, <3>2, <3>3
  <2> QED BY <2>1, <2>2 DEF MatchesThread
<1>4. ASSUME NEW u \in Threads \ {t} PROVE MatchesThread(n, u, M[u], R[u])
  <2>1. MatchesThread(d, u, M[u], R[u])
    BY DEF Bare
  <2> QED BY <1>1, <1>2, <2>1, OthersMatch DEF Placed
<1>5. ASSUME NEW u \in Threads PROVE MatchesThread(n, u, N[u], Q[u])
  BY <1>3, <1>4 DEF SameElse
<1> QED BY <1>2, <1>5 DEF Match, Placed

\* A thread that stops being runnable leaves the queues, one that becomes runnable
\* enters them.
LEMMA StopMatch ==
    ASSUME NEW s, NEW M, NEW R, NEW Q, Match(s, M, R), NEW t \in Threads, SameElse(R, Q, t),
           R[t], ~Q[t], NEW home, NEW others, Splits(home, others, s.processor[t], M[t]),
           NEW n, n = Displace(s, t, home, others, s.priority[t])
    PROVE  Match(n, M, Q) /\ n.processor = s.processor
<1>1. /\ SameBut(s, s, t) /\ SameElse(M, M, t)
      /\ s.processor[t] \in M[t] \cup {NoCore}
  BY DEF SameBut, Match, Sound, MatchesThread, SameElse
<1>2. Bare(n, t, M, R) /\ n.processor = s.processor
  BY <1>1, DisplaceBare
<1> QED BY <1>1, <1>2, BareMatch

LEMMA StartMatch ==
    ASSUME NEW s, NEW M, NEW R, NEW Q, Match(s, M, R), NEW t \in Threads, SameElse(R, Q, t),
           ~R[t], Q[t], NEW home, NEW others, Splits(home, others, s.processor[t], M[t]),
           NEW b \in BOOLEAN, NEW n, n = Place(s, t, home, others, b)
    PROVE  Match(n, M, Q) /\ n.processor = s.processor
<1>1. /\ SameBut(s, s, t) /\ SameElse(M, M, t)
      /\ s.processor[t] \in M[t] \cup {NoCore}
  BY DEF SameBut, Match, Sound, MatchesThread, SameElse
<1>2. Bare(s, t, M, R)
  BY <1>1, MatchBare
<1> QED BY <1>1, <1>2, PlaceMatch

\* The level, the mask or the core of a thread that is not runnable changes.
LEMMA IdleChangeMatch ==
    ASSUME NEW s, NEW M, NEW R, Match(s, M, R), NEW t \in Threads, ~R[t],
           NEW x, SameBut(s, x, t), NEW N, SameElse(M, N, t),
           x.processor[t] \in N[t] \cup {NoCore}
    PROVE  Match(x, N, R)
<1>1. Bare(x, t, M, R) /\ SameElse(R, R, t)
  BY MatchBare DEF SameElse
<1> QED BY <1>1, BareMatch

\* AdjustSchedulingOnStatus turns a match for the old status into one for the new.
LEMMA AdjustMatch ==
    ASSUME affinity_mask \in [Threads -> SUBSET Cores], NEW R, NEW Q,
           Match(sched, affinity_mask, R), NEW t \in Threads, SameElse(R, Q, t),
           NEW was, NEW is, R[t] <=> was, Q[t] <=> is
    PROVE  /\ Match(AdjustSchedulingOnStatus(t, was, is), affinity_mask, Q)
           /\ AdjustSchedulingOnStatus(t, was, is).processor = sched.processor
<1> DEFINE home == HomeCore(sched, t)
           others == affinity_mask[t] \ home
           n == AdjustSchedulingOnStatus(t, was, is)
           back == TRUE
<1>0. Splits(home, others, sched.processor[t], affinity_mask[t])
  BY HomeSplits
<1>1. CASE R[t] /\ ~Q[t]
  <2>1. n = Displace(sched, t, home, others, sched.priority[t])
    BY <1>1 DEF AdjustSchedulingOnStatus
  <2> HIDE DEF home, others, n
  <2>2. Match(n, affinity_mask, Q) /\ n.processor = sched.processor
    BY <1>0, <1>1, <2>1, StopMatch
  <2> QED BY <2>2 DEF n
<1>2. CASE ~R[t] /\ Q[t]
  <2>1. n = Place(sched, t, home, others, back) /\ back \in BOOLEAN
    BY <1>2 DEF AdjustSchedulingOnStatus
  <2> HIDE DEF home, others, n, back
  <2>2. Match(n, affinity_mask, Q) /\ n.processor = sched.processor
    BY <1>0, <1>2, <2>1, StartMatch
  <2> QED BY <2>2 DEF n
<1>3. CASE R[t] <=> Q[t]
  <2>1. n = sched
    <3>1. CASE R[t] /\ Q[t]
      BY <3>1 DEF AdjustSchedulingOnStatus
    <3>2. CASE ~R[t] /\ ~Q[t]
      BY <3>2 DEF AdjustSchedulingOnStatus
    <3> QED BY <1>3, <3>1, <3>2
  <2>2. ASSUME NEW u \in Threads PROVE MatchesThread(sched, u, affinity_mask[u], Q[u])
    <3>1. MatchesThread(sched, u, affinity_mask[u], R[u])
      BY DEF Match
    <3>2. R[u] <=> Q[u]
      BY <1>3 DEF SameElse
    <3> QED BY <3>1, <3>2 DEF MatchesThread
  <2>3. Match(sched, affinity_mask, Q)
    BY <2>2 DEF Match
  <2> QED BY <2>1, <2>3
<1> QED BY <1>1, <1>2, <1>3

-----------------------------------------------------------------------------
(* Yielding and preemption *)

\* n matches, and no thread but a has lost its core on the way from s.
Follows(s, n, M, R, a) ==
    /\ Match(n, M, R)
    /\ \A u \in Threads \ {a} : s.processor[u] # NoCore => n.processor[u] # NoCore

WithScheduled(s, c, q) == [s EXCEPT !.scheduled[c] = q]

\* The queue of one core is replaced.
LEMMA WithScheduledFacts ==
    ASSUME NEW s \in Queues, NEW c \in Cores, NEW q \in Seq(Entries)
    PROVE  /\ WithScheduled(s, c, q) \in Queues
           /\ WithScheduled(s, c, q).scheduled[c] = q
           /\ \A d \in Cores \ {c} : WithScheduled(s, c, q).scheduled[d] = s.scheduled[d]
           /\ WithScheduled(s, c, q).suggested = s.suggested
           /\ WithScheduled(s, c, q).processor = s.processor
           /\ WithScheduled(s, c, q).priority = s.priority
BY DEF WithScheduled, Queues

\* Another order of the queue of a core still matches.
LEMMA WithScheduledMatch ==
    ASSUME NEW s, NEW M, NEW R, Match(s, M, R), NEW c \in Cores, NEW t \in Threads,
           NEW p \in Priorities, Lists(s.scheduled[c], t, p),
           NEW q \in Seq(Entries), Sorted(q), Keeps(s.scheduled[c], q, t), Lists(q, t, p)
    PROVE  Match(WithScheduled(s, c, q), M, R)
<1> DEFINE n == WithScheduled(s, c, q)
<1>0. Sound(s) /\ s \in Queues /\ MatchesThread(s, t, M[t], R[t])
  BY DEF Match, Sound
<1>1. /\ n \in Queues /\ n.scheduled[c] = q
      /\ \A d \in Cores \ {c} : n.scheduled[d] = s.scheduled[d]
      /\ n.suggested = s.suggested /\ n.processor = s.processor /\ n.priority = s.priority
  BY <1>0, WithScheduledFacts
<1> HIDE DEF n
<1>2. Sound(n)
  BY <1>0, <1>1 DEF Sound
<1>3. \A d \in Cores : /\ Keeps(s.scheduled[d], n.scheduled[d], t)
                       /\ Keeps(s.suggested[d], n.suggested[d], t)
  BY <1>1, KeepsReflexive
<1>4. PICK i \in DOMAIN s.scheduled[c] : s.scheduled[c][i] = Entry(t, p)
  BY DEF Lists
<1>5. R[t] /\ c = s.processor[t]
  BY <1>4, EntryFacts, ScheduledFacts
<1>6. p = s.priority[t]
  <2>1. Lists(s.scheduled[c], t, s.priority[t])
    BY <1>0, <1>5 DEF MatchesThread
  <2>2. PICK j \in DOMAIN s.scheduled[c] : s.scheduled[c][j] = Entry(t, s.priority[t])
                                           /\ i = j
    BY <1>4, <2>1, EntryFacts DEF Lists
  <2>3. Entry(t, p) = Entry(t, s.priority[t])
    BY <1>4, <2>2
  <2>4. Entry(t, p).level = Entry(t, s.priority[t]).level
    BY <2>3
  <2> QED BY <2>4, EntryFacts
<1>7. ASSUME NEW u \in Threads PROVE MatchesThread(n, u, M[u], R[u])
  <2>1. CASE u # t
    <3>1. MatchesThread(s, u, M[u], R[u])
      BY DEF Match
    <3> QED BY <1>0, <1>1, <1>3, <2>1, <3>1, OthersMatch
  <2>2. CASE u = t
    <3>1. ASSUME NEW d \in Cores
          PROVE  /\ IF R[t] /\ d = n.processor[t]
                      THEN Lists(n.scheduled[d], t, n.priority[t])
                      ELSE Lacks(n.scheduled[d], t)
                 /\ IF R[t] /\ d \in M[t] \ {n.processor[t]}
                      THEN Lists(n.suggested[d], t, n.priority[t])
                      ELSE Lacks(n.suggested[d], t)
      <4>0. /\ IF R[t] /\ d = s.processor[t]
                 THEN Lists(s.scheduled[d], t, s.priority[t])
                 ELSE Lacks(s.scheduled[d], t)
            /\ IF R[t] /\ d \in M[t] \ {s.processor[t]}
                 THEN Lists(s.suggested[d], t, s.priority[t])
                 ELSE Lacks(s.suggested[d], t)
        BY <1>0 DEF MatchesThread
      <4>1. CASE d = c
        BY <1>1, <1>5, <1>6, <4>0, <4>1
      <4>2. CASE d # c
        BY <1>1, <4>0, <4>2
      <4> QED BY <4>1, <4>2
    <3>2. n.processor[t] \in M[t] \cup {NoCore}
      BY <1>0, <1>1 DEF MatchesThread
    <3> QED BY <2>2, <3>1, <3>2 DEF MatchesThread
  <2> QED BY <2>1, <2>2
<1>8. Match(n, M, R)
  BY <1>2, <1>7 DEF Match
<1> QED BY <1>8 DEF n

\* The last of its level: the queue still lists it and the others.
LEMMA RequeueMatch ==
    ASSUME NEW s, NEW M, NEW R, Match(s, M, R), NEW c \in Cores, NEW t \in Threads,
           NEW p \in Priorities, Lists(s.scheduled[c], t, p)
    PROVE  Match(WithScheduled(s, c, add(remove(s.scheduled[c], t, p), t, p, TRUE)), M, R)
<1> DEFINE q == s.scheduled[c]
           out == remove(q, t, p)
           new == add(out, t, p, TRUE)
<1>0. q \in Seq(Entries) /\ Sorted(q)
  BY QueuesFacts DEF Match, Sound
<1>1. out \in Seq(Entries) /\ Sorted(out) /\ Keeps(q, out, t) /\ Lacks(out, t)
  <2> HIDE DEF q
  <2>1. Lists(q, t, p)
    BY DEF q
  <2> QED BY <1>0, <2>1, RemoveFacts
<1>2. new \in Seq(Entries) /\ Sorted(new) /\ Keeps(out, new, t) /\ Lists(new, t, p)
  <2> HIDE DEF out
  <2> QED BY <1>1, AddFacts
<1> HIDE DEF out
<1>3. Keeps(q, new, t)
  BY <1>1, <1>2, KeepsTransitive
<1> HIDE DEF new
<1>4. Match(WithScheduled(s, c, new), M, R)
  BY <1>2, <1>3, WithScheduledMatch
<1> QED BY <1>4 DEF new, out

\* A winner among the suggestions of a core may be brought there.
LEMMA BringMatch ==
    ASSUME NEW s, NEW n, NEW M \in [Threads -> SUBSET Cores], NEW R, NEW a,
           Follows(s, n, M, R, a), NEW c \in Cores, NEW stops, NEW wins,
           NEW w, w = FirstWinner(n.suggested[c], stops, wins), w # None
    PROVE  Follows(s, TransferToCore(n, c, w), M, R, a)
<1> USE CoresFacts
<1>0. Match(n, M, R) /\ n \in Queues /\ n.suggested[c] \in Seq(Entries)
  BY QueuesFacts DEF Follows, Match, Sound
<1>1. w \in Threads /\ \E i \in DOMAIN n.suggested[c] : n.suggested[c][i].thread = w
  BY <1>0, WinnerFacts
<1>2. R[w] /\ c \in M[w] \ {n.processor[w]}
  BY <1>0, <1>1, SuggestedFacts
<1> DEFINE x == TransferToCore(n, c, w)
<1>3. Match(x, M, R) /\ Transferred(n, x, w, c)
  BY <1>0, <1>1, <1>2, TransferFacts
<1> HIDE DEF x
<1>4. ASSUME NEW u \in Threads \ {a}, s.processor[u] # NoCore PROVE x.processor[u] # NoCore
  <2>1. n.processor[u] # NoCore
    BY <1>4 DEF Follows
  <2>2. x.processor[u] = IF u = w THEN c ELSE n.processor[u]
    BY <1>0, <1>3 DEF Transferred, Queues
  <2> QED BY <2>1, <2>2
<1>5. Follows(s, x, M, R, a)
  BY <1>3, <1>4 DEF Follows
<1> QED BY <1>5 DEF x

\* YieldThread: the thread goes behind those of its level, on its core.
LEMMA YieldThreadMatch ==
    ASSUME NEW s, NEW M, NEW R, Match(s, M, R), NEW t \in Threads, R[t],
           s.processor[t] \in Cores
    PROVE  Follows(s, YieldThread(s, t), M, R, t)
<1> DEFINE core == s.processor[t]
           p == s.priority[t]
           new == add(remove(s.scheduled[core], t, p), t, p, TRUE)
<1>0. s \in Queues /\ MatchesThread(s, t, M[t], R[t])
  BY DEF Match, Sound
<1>1. YieldThread(s, t) = WithScheduled(s, core, new)
  BY DEF YieldThread, WithScheduled
<1>2. p \in Priorities /\ Lists(s.scheduled[core], t, p)
  BY <1>0, QueuesFacts DEF MatchesThread
<1>3. Match(WithScheduled(s, core, new), M, R)
  <2> HIDE DEF core, p
  <2>1. core \in Cores
    BY DEF core
  <2> QED BY <1>2, <2>1, RequeueMatch
<1> HIDE DEF new
<1>4. WithScheduled(s, core, new).processor = s.processor
  BY <1>0 DEF WithScheduled, Queues
<1> QED BY <1>1, <1>3, <1>4 DEF Follows

\* YieldThreadAndBalanceLoad may also bring a suggested thread to the core.
LEMMA BalanceMatch ==
    ASSUME NEW s, NEW M \in [Threads -> SUBSET Cores], NEW R, Match(s, M, R),
           NEW t \in Threads, R[t], s.processor[t] \in Cores, NEW ticks
    PROVE  Follows(s, YieldThreadAndBalanceLoad(s, t, ticks), M, R, t)
<1> DEFINE core == s.processor[t]
           y == YieldThread(s, t)
           next == frontOf(y.scheduled[core], s.priority[t])
           wins == {u \in Threads :
                      /\ RivalOf(y, u) # u
                      /\ ~TooUrgent(y, RivalOf(y, u))
                      /\ \/ ticks[next] >= ticks[u]
                         \/ s.priority[next] < s.priority[u]
                      /\ s.priority[u] <= s.priority[t]}
           winner == FirstWinner(y.suggested[core], {}, wins)
           n == YieldThreadAndBalanceLoad(s, t, ticks)
<1>1. n = IF winner = None THEN y ELSE TransferToCore(y, core, winner)
  BY DEF YieldThreadAndBalanceLoad
<1>2. Follows(s, y, M, R, t)
  BY YieldThreadMatch
<1> HIDE DEF y, wins, n
<1>3. winner # None => Follows(s, TransferToCore(y, core, winner), M, R, t)
  BY <1>2, BringMatch
<1> HIDE DEF winner
<1>4. Follows(s, n, M, R, t)
  BY <1>1, <1>2, <1>3
<1> QED BY <1>4 DEF n

\* YieldThreadAndWaitForLoadBalancing: only the caller loses its core.
LEMMA WaitMatch ==
    ASSUME NEW s, NEW M \in [Threads -> SUBSET Cores], NEW R, Match(s, M, R),
           NEW t \in Threads, R[t], s.processor[t] \in Cores
    PROVE  Follows(s, YieldThreadAndWaitForLoadBalancing(s, t), M, R, t)
<1> DEFINE core == s.processor[t]
           y == TransferToCore(s, NoCore, t)
           behind == {u \in Threads : y.processor[u] # NoCore /\ RivalOf(y, u) # u}
           stops == {u \in behind : TooUrgent(y, RivalOf(y, u))}
           winner == FirstWinner(y.suggested[core], stops, behind)
           n == YieldThreadAndWaitForLoadBalancing(s, t)
<1>1. n = IF y.scheduled[core] # <<>> \/ winner = None THEN y
          ELSE TransferToCore(y, core, winner)
  BY DEF YieldThreadAndWaitForLoadBalancing
<1>2. Match(y, M, R) /\ Transferred(s, y, t, NoCore)
  BY CoresFacts, TransferFacts
<1> HIDE DEF y
<1>3. Follows(s, y, M, R, t)
  <2>1. s \in Queues
    BY DEF Match, Sound
  <2>2. \A u \in Threads \ {t} : y.processor[u] = s.processor[u]
    BY <1>2, <2>1 DEF Transferred, Queues
  <2> QED BY <1>2, <2>2 DEF Follows
<1> HIDE DEF stops, behind, n
<1>4. winner # None => Follows(s, TransferToCore(y, core, winner), M, R, t)
  BY <1>3, BringMatch
<1> HIDE DEF winner
<1>5. Follows(s, n, M, R, t)
  BY <1>1, <1>3, <1>4
<1> QED BY <1>5 DEF n

\* Whichever way a thread yields, the other threads keep their cores.
LEMMA YieldedMatch ==
    ASSUME NEW s, NEW M \in [Threads -> SUBSET Cores], NEW R, Match(s, M, R),
           NEW t \in Threads, R[t], s.processor[t] \in Cores, NEW n \in Yielded(s, t)
    PROVE  Follows(s, n, M, R, t)
<1>1. CASE n = YieldThread(s, t)
  BY <1>1, YieldThreadMatch
<1>2. CASE n = YieldThreadAndWaitForLoadBalancing(s, t)
  BY <1>2, WaitMatch
<1>3. ASSUME NEW ticks, n = YieldThreadAndBalanceLoad(s, t, ticks)
      PROVE  Follows(s, n, M, R, t)
  BY <1>3, BalanceMatch
<1> QED BY <1>1, <1>2, <1>3 DEF Yielded

\* yield keeps the match: the first thread of the level is listed there.
LEMMA LevelYieldMatch ==
    ASSUME NEW s, NEW M, NEW R, Match(s, M, R), NEW c \in Cores, NEW p
    PROVE  Match(WithScheduled(s, c, yield(s.scheduled[c], p)), M, R)
<1> DEFINE q == s.scheduled[c]
           level == {i \in DOMAIN q : q[i].level = p}
           t == frontOf(q, p)
<1>0. s \in Queues /\ q \in Seq(Entries)
  BY QueuesFacts DEF Match, Sound
<1>1. CASE level = {}
  <2>1. yield(q, p) = q
    BY <1>1 DEF yield
  <2>2. WithScheduled(s, c, q) = s
    BY <1>0 DEF WithScheduled, Queues
  <2> QED BY <2>1, <2>2
<1>2. CASE level # {}
  <2>1. yield(q, p) = add(remove(q, t, p), t, p, TRUE)
    BY <1>2 DEF yield
  <2> DEFINE i == First(level)
  <2>2. i \in level
    <3>1. level \subseteq Nat
      BY <1>0
    <3> HIDE DEF level
    <3> QED BY <1>2, <3>1, FirstFacts
  <2>3. t = q[i].thread
    BY DEF frontOf
  <2> HIDE DEF i, t, q
  <2>4. i \in DOMAIN q /\ q[i].level = p /\ q[i] \in Entries
    BY <1>0, <2>2
  <2>5. t \in Threads /\ p \in Priorities
    BY <2>3, <2>4, EntriesFacts
  <2>6. R[t] /\ c = s.processor[t]
    <3>1. \E j \in DOMAIN s.scheduled[c] : s.scheduled[c][j].thread = t
      BY <2>3, <2>4 DEF q
    <3> QED BY <2>5, <3>1, ScheduledFacts
  <2>7. Lists(q, t, s.priority[t])
    BY <2>5, <2>6 DEF Match, MatchesThread, q
  <2>8. PICK j \in DOMAIN q : q[j] = Entry(t, s.priority[t]) /\ i = j
    BY <2>3, <2>4, <2>7 DEF Lists
  <2>9. p = s.priority[t]
    BY <2>4, <2>8, EntryFacts
  <2>10. Lists(s.scheduled[c], t, p)
    BY <2>7, <2>9 DEF q
  <2>11. Match(WithScheduled(s, c, add(remove(s.scheduled[c], t, p), t, p, TRUE)), M, R)
    BY <2>5, <2>10, RequeueMatch
  <2> QED BY <2>1, <2>11 DEF q
<1> QED BY <1>1, <1>2

\* A round of the preemption keeps the match and every thread's core.
LEMMA PreemptCoreMatch ==
    ASSUME NEW o, NEW s, NEW M \in [Threads -> SUBSET Cores], NEW R, NEW a,
           Follows(o, s, M, R, a), NEW c \in Cores, NEW ticks
    PROVE  Follows(o, PreemptCore(s, c, ticks), M, R, a)
<1> DEFINE p == PreemptionPriorities[c]
           y == [s EXCEPT !.scheduled[c] = yield(@, p)]
           current == front(y.scheduled[c])
           level == {u \in Threads : s.priority[u] = p}
           stops == {u \in level : TooUrgent(y, RivalOf(y, u))}
           wins == {u \in level : RivalOf(y, u) # u /\ ticks[current] >= ticks[u]}
           winner == FirstWinner(y.suggested[c], stops, wins)
           z == IF winner = None THEN y ELSE TransferToCore(y, c, winner)
           first == IF winner # None /\ s.priority[winner] <= s.priority[current]
                      THEN winner ELSE current
           below == {u \in Threads : s.priority[u] >= p}
           stops2 == {u \in below : TooUrgent(z, RivalOf(z, u))}
           wins2 == {u \in below : RivalOf(z, u) # u /\ ticks[first] >= ticks[u]}
           second == FirstWinner(z.suggested[c], stops2, wins2)
           n == PreemptCore(s, c, ticks)
<1>1. n \in {y, z, IF second = None THEN z ELSE TransferToCore(z, c, second)}
  <2> DEFINE last == IF second = None THEN z ELSE TransferToCore(z, c, second)
             urgent == s.priority[first] <= p
  <2> SUFFICES n \in {y, z, last}
    OBVIOUS
  <2>1. n = CASE current = None -> y
              [] current # None /\ urgent -> z
              [] OTHER -> last
    BY DEF PreemptCore
  <2> HIDE DEF last, second, first, z, y, n, current, urgent
  <2>2. CASE current = None
    BY <2>1, <2>2
  <2>3. CASE current # None /\ urgent
    BY <2>1, <2>3
  <2>4. CASE current # None /\ ~urgent
    BY <2>1, <2>4
  <2> QED BY <2>2, <2>3, <2>4
<1> HIDE DEF n
<1>2. Follows(o, y, M, R, a)
  <2>0. s \in Queues /\ Match(s, M, R)
    BY DEF Follows, Match, Sound
  <2>1. y = WithScheduled(s, c, yield(s.scheduled[c], p))
    BY DEF WithScheduled
  <2> HIDE DEF y, p
  <2>2. Match(y, M, R)
    BY <2>0, <2>1, LevelYieldMatch
  <2>3. y.processor = s.processor
    BY <2>0, <2>1 DEF WithScheduled, Queues
  <2> QED BY <2>2, <2>3 DEF Follows
<1> HIDE DEF y, stops, wins
<1>3. winner # None => Follows(o, TransferToCore(y, c, winner), M, R, a)
  BY <1>2, BringMatch
<1> HIDE DEF winner
<1>4. Follows(o, z, M, R, a)
  BY <1>2, <1>3
<1> HIDE DEF z, stops2, wins2
<1>5. second # None => Follows(o, TransferToCore(z, c, second), M, R, a)
  BY <1>4, BringMatch
<1> HIDE DEF second
<1>6. Follows(o, n, M, R, a)
  BY <1>1, <1>2, <1>4, <1>5
<1> QED BY <1>6 DEF n

\* The recursive definition of the rounds has a solution.
LEMMA PreemptRoundsFacts ==
    ASSUME NEW s, NEW ticks
    PROVE  PreemptRounds(s, ticks) = [n \in 0..NumCores |->
               IF n = 0 THEN s ELSE PreemptCore(PreemptRounds(s, ticks)[n - 1], n - 1, ticks)]
<1> DEFINE Step(f, n) == IF n = 0 THEN s ELSE PreemptCore(f[n - 1], n - 1, ticks)
           T == {m \in 0..NumCores : ~ \E f : f = [n \in 0..m |-> Step(f, n)]}
<1>0. NumCores \in Nat
  BY SchedulerAssumption
<1>1. ASSUME T # {} PROVE FALSE
  <2>1. T \subseteq Nat
    BY <1>0
  <2> DEFINE m == First(T)
  <2>2. m \in T /\ \A k \in T : m <= k
    <3> HIDE DEF T
    <3> QED BY <1>1, <2>1, FirstFacts
  <2>3. m \in 0..NumCores /\ m \in Nat /\ ~ \E f : f = [n \in 0..m |-> Step(f, n)]
    <3>1. m \in 0..NumCores /\ ~ \E f : f = [n \in 0..m |-> Step(f, n)]
      BY <2>2, Zenon
    <3>2. m \in Nat
      BY <1>0, <2>2
    <3> QED BY <3>1, <3>2, Zenon
  <2> HIDE DEF m
  <2>4. CASE m = 0
    <3> DEFINE f == [n \in 0..m |-> s]
    <3>1. f = [n \in 0..m |-> Step(f, n)]
      BY <2>4
    <3> QED BY <2>3, <3>1
  <2>5. CASE m # 0
    <3>1. m - 1 \in 0..NumCores /\ m - 1 \notin T
      BY <1>0, <2>2, <2>3, <2>5
    <3>2. PICK g : g = [n \in 0..(m - 1) |-> Step(g, n)]
      BY <3>1
    <3> DEFINE f == [n \in 0..m |-> IF n < m THEN g[n] ELSE Step(g, m)]
    <3>3. ASSUME NEW n \in 0..m PROVE f[n] = Step(f, n)
      <4>1. n # 0 => f[n - 1] = g[n - 1]
        BY <2>3, <3>3
      <4>2. Step(f, n) = Step(g, n)
        BY <4>1
      <4>3. CASE n < m
        <5>1. n \in 0..(m - 1)
          BY <2>3, <4>3
        <5>2. g[n] = Step(g, n)
          BY <3>2, <5>1
        <5>3. f[n] = g[n]
          BY <4>3
        <5> QED BY <4>2, <5>2, <5>3
      <4>4. CASE ~(n < m)
        <5>1. n = m
          BY <2>3, <4>4
        <5> QED BY <4>2, <5>1
      <4> QED BY <4>3, <4>4
    <3>4. f = [n \in 0..m |-> f[n]]
      OBVIOUS
    <3>5. f = [n \in 0..m |-> Step(f, n)]
      BY <3>3, <3>4
    <3> QED BY <2>3, <3>5
  <2> QED BY <2>4, <2>5
<1>2. \E f : f = [n \in 0..NumCores |-> Step(f, n)]
  BY <1>0, <1>1
<1>3. PreemptRounds(s, ticks) = CHOOSE f : f = [n \in 0..NumCores |-> Step(f, n)]
  BY DEF PreemptRounds
<1> QED BY <1>2, <1>3, Zenon

\* Hence PreemptThreads keeps the match.
LEMMA PreemptThreadsMatch ==
    ASSUME NEW s, NEW M \in [Threads -> SUBSET Cores], NEW R, Match(s, M, R), NEW a, NEW ticks
    PROVE  Follows(s, PreemptThreads(s, ticks), M, R, a)
<1> DEFINE after == PreemptRounds(s, ticks)
           T == {m \in 0..NumCores : ~Follows(s, after[m], M, R, a)}
<1>0. NumCores \in Nat
  BY SchedulerAssumption
<1>1. \A n \in 0..NumCores :
        after[n] = IF n = 0 THEN s ELSE PreemptCore(after[n - 1], n - 1, ticks)
  <2> HIDE DEF after
  <2>1. after = [n \in 0..NumCores |->
               IF n = 0 THEN s ELSE PreemptCore(after[n - 1], n - 1, ticks)]
    BY PreemptRoundsFacts DEF after
  <2> QED BY <2>1, Zenon
<1> HIDE DEF after
<1>2. ASSUME T # {} PROVE FALSE
  <2>1. T \subseteq Nat
    BY <1>0
  <2> DEFINE m == First(T)
  <2>2. m \in T /\ \A k \in T : m <= k
    <3> HIDE DEF T
    <3> QED BY <1>2, <2>1, FirstFacts
  <2>3. m \in 0..NumCores /\ ~Follows(s, after[m], M, R, a)
    BY <2>2
  <2> HIDE DEF m
  <2>4. m # 0
    <3>1. Follows(s, s, M, R, a)
      BY DEF Follows
    <3> QED BY <1>0, <1>1, <2>3, <3>1
  <2>5. m - 1 \in 0..NumCores /\ m - 1 \in Cores /\ m - 1 \notin T
    BY <1>0, <2>2, <2>3, <2>4 DEF Cores
  <2>6. Follows(s, after[m - 1], M, R, a)
    BY <2>5
  <2>7. after[m] = PreemptCore(after[m - 1], m - 1, ticks)
    BY <1>1, <2>3, <2>4
  <2> QED BY <2>3, <2>5, <2>6, <2>7, PreemptCoreMatch
<1>3. Follows(s, after[NumCores], M, R, a)
  BY <1>0, <1>2
<1> QED BY <1>3 DEF after, PreemptThreads

-----------------------------------------------------------------------------
(* The invariant is inductive *)

\* A mask that is not empty has a highest core.
LEMMA HighestSetCoreFacts ==
    ASSUME NEW mask \in SUBSET Cores, mask # {}
    PROVE  HighestSetCore(mask) \in mask
<1> DEFINE P == {d \in Nat : NumCores - d \in mask}
           c == NumCores - First(P)
<1>0. NumCores \in Nat /\ mask \subseteq 0..(NumCores - 1)
  BY SchedulerAssumption DEF Cores
<1>1. \A d \in mask : NumCores - d \in P
  BY <1>0
<1>2. P # {} /\ P \subseteq Nat
  BY <1>1
<1>3. First(P) \in P /\ \A d \in P : First(P) <= d
  <2> HIDE DEF P
  <2> QED BY <1>2, FirstFacts
<1>4. c \in mask
  BY <1>3
<1>5. ASSUME NEW d \in mask PROVE d <= c
  <2>1. First(P) <= NumCores - d
    BY <1>1, <1>3
  <2>2. First(P) \in Nat /\ d \in Nat
    BY <1>0, <1>3
  <2> HIDE DEF P
  <2> QED BY <1>0, <2>1, <2>2
<1> HIDE DEF c
<1> QED BY <1>4, <1>5 DEF HighestSetCore

\* Releasing the lock establishes the invariant, when the operation has left
\* queues that match the threads.
LEMMA UnlockInv ==
    ASSUME IInv, NEW a, NEW s, NEW M \in [Threads -> (SUBSET Cores) \ {{}}], NEW R,
           Follows(sched, s, M, R, a), Unlock(a, s), affinity_mask' = M,
           ideal_core' \in [Threads -> Cores \cup {DontCare}],
           status' \in [Threads -> Statuses], paused' \in [Threads -> BOOLEAN],
           \A t \in Threads : R[t] <=> status'[t] = "Runnable" /\ ~paused'[t]
    PROVE  IInv'
<1> USE CoresFacts
<1> DEFINE r == SelectThreads(s)
<1>0. /\ running \in [Cores -> Threads \cup {None}] /\ RunningHasCore
  BY DEF IInv, TypeOK
<1>1. TopsMatch(s, r, M, R)
  <2>1. Match(s, M, R) /\ M \in [Threads -> SUBSET Cores]
    BY DEF Follows
  <2> QED BY <2>1, SelectThreadsMatch
<1>2. /\ sched' = r.s /\ selected' = r.top
      /\ running' = [c \in Cores |-> IF running[c] = a /\ r.top[c] # a
                                       THEN None ELSE running[c]]
  BY DEF Unlock
<1> HIDE DEF r
<1>3. /\ Match(sched', M, R) /\ selected' \in [Cores -> Threads \cup {None}]
      /\ \A c \in Cores : selected'[c] = front(sched'.scheduled[c])
      /\ \A t \in Threads : s.processor[t] # NoCore => sched'.processor[t] # NoCore
  BY <1>1, <1>2 DEF TopsMatch
<1>4. /\ sched' \in Queues
      /\ \A c \in Cores : Sorted(sched'.scheduled[c]) /\ Sorted(sched'.suggested[c])
  BY <1>3 DEF Match, Sound
<1>5. ASSUME NEW c \in Cores, selected'[c] # None
      PROVE  /\ selected'[c] \in Threads /\ R[selected'[c]]
             /\ sched'.processor[selected'[c]] = c
  <2>1. sched'.scheduled[c] \in Seq(Entries)
    BY <1>4, QueuesFacts
  <2>2. selected'[c] = front(sched'.scheduled[c]) /\ selected'[c] \in Threads
    BY <1>3, <1>5
  <2>3. 1 \in DOMAIN sched'.scheduled[c] /\ sched'.scheduled[c][1].thread = selected'[c]
    BY <1>5, <2>1, <2>2, FrontFacts
  <2> QED BY <1>3, <2>2, <2>3, ScheduledFacts
<1>6. TypeOK'
  <2>1. running' \in [Cores -> Threads \cup {None}]
    BY <1>0, <1>2
  <2> QED BY <1>3, <1>4, <2>1 DEF TypeOK
<1>7. QueuesMatchThreads'
  <2>1. ASSUME NEW t \in Threads
        PROVE  MatchesThread(sched', t, M[t], status'[t] = "Runnable" /\ ~paused'[t])
    <3>1. MatchesThread(sched', t, M[t], R[t])
      BY <1>3 DEF Match
    <3> QED BY <3>1 DEF MatchesThread
  <2> QED BY <2>1 DEF QueuesMatchThreads, IsRunnable
<1>8. QueuesSorted'
  BY <1>4 DEF QueuesSorted
<1>9. SelectedIsFront'
  BY <1>3, <1>5 DEF SelectedIsFront, IsRunnable
<1>10. ASSUME NEW c \in Cores, running'[c] # None PROVE sched'.processor[running'[c]] # NoCore
  <2>1. running'[c] = running[c] /\ running[c] \in Threads
    BY <1>0, <1>2, <1>10
  <2>2. CASE running[c] # a
    <3>1. sched.processor[running[c]] # NoCore
      BY <1>0, <1>10, <2>1 DEF RunningHasCore
    <3>2. s.processor[running[c]] # NoCore
      BY <2>1, <2>2, <3>1 DEF Follows
    <3> QED BY <1>3, <2>1, <3>2
  <2>3. CASE running[c] = a
    <3>1. selected'[c] = running'[c]
      BY <1>2, <1>10, <2>1, <2>3
    <3>2. sched'.processor[running'[c]] = c
      BY <1>5, <1>10, <3>1
    <3> QED BY <3>2
  <2> QED BY <2>2, <2>3
<1>11. NoIdleInVain'
  <2> SUFFICES ASSUME NEW c \in Cores, selected'[c] = None
               PROVE  \/ \E d \in Cores : TooUrgent(sched', selected'[d])
                      \/ \A t \in Threads :
                           status'[t] = "Runnable" /\ ~paused'[t] /\ c \in M[t] =>
                             /\ sched'.processor[t] # NoCore
                             /\ selected'[sched'.processor[t]] = t
                             /\ Len(sched'.scheduled[sched'.processor[t]]) = 1
    BY DEF NoIdleInVain, IsRunnable, TooUrgent
  <2>1. Match(s, M, R) /\ M \in [Threads -> SUBSET Cores]
    BY DEF Follows
  <2>2. IdleExcused(r, c, M, R)
    BY <2>1, SelectThreadsExcused DEF r
  <2> QED BY <1>2, <2>2 DEF IdleExcused
<1> QED BY <1>6, <1>7, <1>8, <1>9, <1>10, <1>11 DEF IInv, RunningHasCore

Runnables == [t \in Threads |-> IsRunnable(t)]

\* What the invariant says of the queues, in the terms of the lemmas above.
LEMMA InvMatch ==
    ASSUME IInv
    PROVE  /\ Match(sched, affinity_mask, Runnables)
           /\ affinity_mask \in [Threads -> SUBSET Cores]
           /\ \A t \in Threads : Runnables[t] <=> status[t] = "Runnable" /\ ~paused[t]
<1>1. sched \in Queues /\ affinity_mask \in [Threads -> SUBSET Cores]
  BY DEF IInv, TypeOK
<1>2. \A t \in Threads : Runnables[t] <=> status[t] = "Runnable" /\ ~paused[t]
  BY DEF Runnables, IsRunnable
<1>3. ASSUME NEW t \in Threads PROVE MatchesThread(sched, t, affinity_mask[t], Runnables[t])
  <2>1. MatchesThread(sched, t, affinity_mask[t], status[t] = "Runnable" /\ ~paused[t])
    BY DEF IInv, QueuesMatchThreads, IsRunnable
  <2> HIDE DEF Runnables
  <2> QED BY <1>2, <2>1 DEF MatchesThread
<1>4. Sound(sched)
  BY <1>1 DEF IInv, QueuesSorted, Sound
<1> QED BY <1>1, <1>2, <1>3, <1>4 DEF Match

\* A change of status or pause flag.
LEMMA SetSchedulingStateInv ==
    ASSUME IInv, NEW a, NEW t \in Threads, NEW st \in Statuses, NEW pa \in BOOLEAN,
           SetSchedulingState(a, t, st, pa)
    PROVE  IInv'
<1> DEFINE was == IsRunnable(t)
           is == st = "Runnable" /\ ~pa
           n == AdjustSchedulingOnStatus(t, was, is)
           R == Runnables
           Q == [u \in Threads |-> status'[u] = "Runnable" /\ ~paused'[u]]
<1>0. /\ Match(sched, affinity_mask, R) /\ affinity_mask \in [Threads -> SUBSET Cores]
      /\ \A u \in Threads : R[u] <=> status[u] = "Runnable" /\ ~paused[u]
  BY InvMatch
<1>1. /\ affinity_mask \in [Threads -> (SUBSET Cores) \ {{}}]
      /\ ideal_core \in [Threads -> Cores \cup {DontCare}]
      /\ status \in [Threads -> Statuses] /\ paused \in [Threads -> BOOLEAN]
  BY DEF IInv, TypeOK
<1>2. /\ status' = [status EXCEPT ![t] = st] /\ paused' = [paused EXCEPT ![t] = pa]
      /\ affinity_mask' = affinity_mask /\ ideal_core' = ideal_core
      /\ Unlock(a, n)
  BY DEF SetSchedulingState
<1>3. status' \in [Threads -> Statuses] /\ paused' \in [Threads -> BOOLEAN]
  BY <1>1, <1>2
<1>4. \A u \in Threads : Q[u] <=> status'[u] = "Runnable" /\ ~paused'[u]
  OBVIOUS
<1>5. (R[t] <=> was) /\ (Q[t] <=> is)
  <2>1. status'[t] = st /\ paused'[t] = pa
    BY <1>1, <1>2
  <2> QED BY <1>0, <2>1 DEF IsRunnable
<1>6. SameElse(R, Q, t)
  <2>1. ASSUME NEW u \in Threads \ {t} PROVE status'[u] = status[u] /\ paused'[u] = paused[u]
    BY <1>1, <1>2
  <2>2. ASSUME NEW u \in Threads \ {t} PROVE Q[u] = R[u]
    BY <2>1 DEF Runnables, IsRunnable
  <2> QED BY <2>2 DEF SameElse
<1> HIDE DEF Q, R, was, is
<1>7. Match(n, affinity_mask, Q) /\ n.processor = sched.processor
  BY <1>0, <1>5, <1>6, AdjustMatch
<1> HIDE DEF n
<1>8. Follows(sched, n, affinity_mask, Q, a)
  BY <1>7 DEF Follows
<1> QED BY <1>1, <1>2, <1>3, <1>4, <1>8, UnlockInv

\* The actions that change one of them.
LEMMA StatusInv ==
    ASSUME IInv, NEW a, NEW t \in Threads,
           Start(a, t) \/ Resume(a, t) \/ Stop(a, t) \/ SetThreadActivity(a, t) \/ Block(t)
    PROVE  IInv'
<1>1. status[t] \in Statuses /\ paused[t] \in BOOLEAN
      /\ "Runnable" \in Statuses /\ "Paused" \in Statuses /\ "Exited" \in Statuses
  BY DEF IInv, TypeOK, Statuses
<1>2. \/ SetSchedulingState(a, t, "Runnable", paused[t])
      \/ SetSchedulingState(a, t, "Exited", paused[t])
      \/ SetSchedulingState(a, t, status[t], ~paused[t])
      \/ SetSchedulingState(t, t, "Paused", paused[t])
  BY DEF Start, Resume, Stop, SetThreadActivity, SetActivity, Block
<1> DEFINE flip == ~paused[t]
<1>3. \/ SetSchedulingState(a, t, "Runnable", paused[t])
      \/ SetSchedulingState(a, t, "Exited", paused[t])
      \/ SetSchedulingState(a, t, status[t], flip)
      \/ SetSchedulingState(t, t, "Paused", paused[t])
  BY <1>2
<1>4. flip \in BOOLEAN
  BY <1>1
<1> HIDE DEF flip
<1> QED BY <1>1, <1>3, <1>4, SetSchedulingStateInv

\* The actions that leave the status, the masks and the ideal cores alone.
LEMMA SameStatusInv ==
    ASSUME IInv, NEW a, NEW s, Follows(sched, s, affinity_mask, Runnables, a), Unlock(a, s),
           UNCHANGED <<affinity_mask, ideal_core, status, paused>>
    PROVE  IInv'
<1>1. /\ affinity_mask \in [Threads -> (SUBSET Cores) \ {{}}]
      /\ ideal_core' \in [Threads -> Cores \cup {DontCare}]
      /\ status' \in [Threads -> Statuses] /\ paused' \in [Threads -> BOOLEAN]
  BY DEF IInv, TypeOK
<1>2. \A t \in Threads : Runnables[t] <=> status'[t] = "Runnable" /\ ~paused'[t]
  BY InvMatch
<1>3. affinity_mask' = affinity_mask
  OBVIOUS
<1> DEFINE R == Runnables
           M == affinity_mask
<1> HIDE DEF R, M
<1>4. /\ M \in [Threads -> (SUBSET Cores) \ {{}}] /\ affinity_mask' = M
      /\ \A t \in Threads : R[t] <=> status'[t] = "Runnable" /\ ~paused'[t]
      /\ Follows(sched, s, M, R, a)
  BY <1>1, <1>2, <1>3 DEF R, M
<1> QED BY <1>1, <1>4, UnlockInv

\* AdjustSchedulingOnPriority finds the entries at the old priority.
LEMMA SetCurrentPriorityInv ==
    ASSUME IInv, NEW a, NEW t \in Threads, NEW p \in NewPriorities,
           SetCurrentPriority(a, t, p)
    PROVE  IInv'
<1> DEFINE home == HomeCore(sched, t)
           others == affinity_mask[t] \ home
           x == [sched EXCEPT !.priority[t] = p]
           d == Displace(x, t, home, others, sched.priority[t])
           b == a # t
           n == Place(d, t, home, others, b)
           M == affinity_mask
           R == Runnables
<1>0. Match(sched, M, R) /\ M \in [Threads -> SUBSET Cores] /\ sched \in Queues
      /\ MatchesThread(sched, t, M[t], R[t]) /\ (R[t] <=> IsRunnable(t))
  BY InvMatch DEF Match, Sound, IsRunnable
<1>1. SameBut(sched, x, t) /\ x.processor = sched.processor
  <2>1. p \in Priorities
    BY SchedulerAssumption
  <2> QED BY <1>0, <2>1 DEF SameBut, Queues
<1>2. Splits(home, others, sched.processor[t], M[t])
  BY <1>0, HomeSplits
<1>3. SameElse(M, M, t) /\ sched.processor[t] \in M[t] \cup {NoCore}
  BY <1>0 DEF SameElse, MatchesThread
<1>4. /\ UNCHANGED <<affinity_mask, ideal_core, status, paused>>
      /\ ~IsRunnable(t) => Unlock(a, x)
      /\ IsRunnable(t) => Unlock(a, n)
  <2>1. CASE ~IsRunnable(t)
    BY <2>1 DEF SetCurrentPriority
  <2>2. CASE IsRunnable(t)
    BY <2>2 DEF SetCurrentPriority
  <2> QED BY <2>1, <2>2
<1>5. d = Displace(x, t, home, others, sched.priority[t])
      /\ n = Place(d, t, home, others, b) /\ b \in BOOLEAN
  OBVIOUS
<1> HIDE DEF home, others, x, d, b, n, M, R
<1>6. CASE ~R[t]
  <2>1. Match(x, M, R)
    BY <1>0, <1>1, <1>3, <1>6, IdleChangeMatch
  <2>2. Follows(sched, x, M, R, a)
    BY <1>1, <2>1 DEF Follows
  <2> QED BY <1>0, <1>4, <1>6, <2>2, SameStatusInv DEF M, R
<1>7. CASE R[t]
  <2>1. /\ Match(sched, M, R) /\ SameBut(sched, x, t) /\ SameElse(M, M, t)
        /\ Splits(home, others, sched.processor[t], M[t])
    BY <1>0, <1>1, <1>2, <1>3
  <2>2. Bare(d, t, M, R) /\ d.processor = x.processor
    BY <1>5, <1>7, <2>1, DisplaceBare
  <2>3. /\ SameElse(R, R, t) /\ d.processor[t] \in M[t] \cup {NoCore}
        /\ Splits(home, others, d.processor[t], M[t])
    BY <1>1, <1>3, <2>1, <2>2 DEF SameElse
  <2>4. Match(n, M, R) /\ n.processor = d.processor
    BY <1>5, <1>7, <2>1, <2>2, <2>3, PlaceMatch
  <2>5. Follows(sched, n, M, R, a)
    BY <1>1, <2>2, <2>4 DEF Follows
  <2> QED BY <1>0, <1>4, <1>7, <2>5, SameStatusInv DEF M, R
<1> QED BY <1>6, <1>7

\* A thread that has a core gets one of its new mask.
LEMMA CoreInMaskFacts ==
    ASSUME NEW t, NEW mask \in SUBSET Cores, mask # {}, NEW core,
           core \in Cores => core \in mask
    PROVE  /\ CoreInMask(t, core, mask) \in mask \cup {NoCore}
           /\ sched.processor[t] # NoCore => CoreInMask(t, core, mask) \in mask
BY HighestSetCoreFacts DEF CoreInMask

\* AdjustSchedulingOnAffinity finds the entries of the old mask and core.
LEMMA SetThreadCoreMaskInv ==
    ASSUME IInv, NEW a, NEW t \in Threads, NEW core \in Cores \cup {DontCare, DontUpdate},
           NEW mask \in (SUBSET Cores) \ {{}}, SetThreadCoreMask(a, t, core, mask)
    PROVE  IInv'
<1> DEFINE newCore == IF core = DontUpdate THEN ideal_core[t] ELSE core
           to == CoreInMask(t, newCore, mask)
           x == [sched EXCEPT !.processor[t] = to]
           M == affinity_mask
           N == [affinity_mask EXCEPT ![t] = mask]
           R == Runnables
           oldHome == M[t] \cap HomeCore(sched, t)
           oldOthers == M[t] \ HomeCore(sched, t)
           newHome == mask \cap HomeCore(x, t)
           newOthers == mask \ HomeCore(x, t)
           d == Displace(x, t, oldHome, oldOthers, sched.priority[t])
           b == TRUE
           n == Place(d, t, newHome, newOthers, b)
<1> USE CoresFacts
<1>0. /\ Match(sched, M, R) /\ M \in [Threads -> SUBSET Cores] /\ sched \in Queues
      /\ MatchesThread(sched, t, M[t], R[t]) /\ (R[t] <=> IsRunnable(t))
      /\ \A u \in Threads : R[u] <=> status[u] = "Runnable" /\ ~paused[u]
  BY InvMatch DEF Match, Sound, IsRunnable
<1>1. /\ M \in [Threads -> (SUBSET Cores) \ {{}}]
      /\ ideal_core \in [Threads -> Cores \cup {DontCare}]
      /\ status \in [Threads -> Statuses] /\ paused \in [Threads -> BOOLEAN]
  BY DEF IInv, TypeOK
<1>2. /\ newCore \in Cores => newCore \in mask
      /\ newCore \in Cores \cup {DontCare}
  BY <1>1 DEF SetThreadCoreMask, SetCoreAndAffinityMask, DontCare, DontUpdate
<1>3. to \in mask \cup {NoCore} /\ (sched.processor[t] # NoCore => to \in mask)
  <2> HIDE DEF newCore
  <2> QED BY <1>2, CoreInMaskFacts
<1>4. /\ affinity_mask' = N /\ ideal_core' = [ideal_core EXCEPT ![t] = newCore]
      /\ UNCHANGED <<status, paused>>
      /\ mask = M[t] => Unlock(a, sched)
      /\ mask # M[t] /\ ~IsRunnable(t) => Unlock(a, x)
      /\ mask # M[t] /\ IsRunnable(t) => Unlock(a, n)
  <2>1. affinity_mask' = N /\ ideal_core' = [ideal_core EXCEPT ![t] = newCore]
        /\ UNCHANGED <<status, paused>>
    BY DEF SetThreadCoreMask, SetCoreAndAffinityMask
  <2>2. Unlock(a, CASE mask = M[t] -> sched
                    [] mask # M[t] /\ ~IsRunnable(t) -> x
                    [] OTHER -> n)
    BY DEF SetThreadCoreMask, SetCoreAndAffinityMask
  <2> HIDE DEF x, n, M, N
  <2>3. CASE mask = M[t]
    BY <2>1, <2>2, <2>3
  <2>4. CASE mask # M[t] /\ ~IsRunnable(t)
    BY <2>1, <2>2, <2>4
  <2>5. CASE mask # M[t] /\ IsRunnable(t)
    BY <2>1, <2>2, <2>5
  <2> QED BY <2>3, <2>4, <2>5
<1>5. /\ N \in [Threads -> (SUBSET Cores) \ {{}}] /\ N[t] = mask /\ SameElse(M, N, t)
  BY <1>1 DEF SameElse
<1>6. ideal_core' \in [Threads -> Cores \cup {DontCare}]
  <2> HIDE DEF newCore
  <2> QED BY <1>1, <1>2, <1>4
<1> HIDE DEF to, newCore
<1>7. /\ SameBut(sched, x, t) /\ x.processor[t] = to
      /\ \A u \in Threads : sched.processor[u] # NoCore => x.processor[u] # NoCore
  <2>1. to \in Cores \cup {NoCore}
    BY <1>3
  <2>2. /\ SameBut(sched, x, t) /\ x.processor = [sched.processor EXCEPT ![t] = to]
    BY <1>0, <2>1 DEF SameBut, Queues
  <2>3. sched.processor \in [Threads -> Cores \cup {NoCore}]
    BY <1>0 DEF Queues
  <2> HIDE DEF x
  <2> QED BY <1>3, <2>2, <2>3
<1>8. /\ Splits(oldHome, oldOthers, sched.processor[t], M[t])
      /\ Splits(newHome, newOthers, x.processor[t], N[t])
  <2>1. sched.processor[t] \in M[t] \cup {NoCore} /\ M[t] \in SUBSET Cores
    BY <1>0 DEF MatchesThread
  <2>2. Splits(oldHome, oldOthers, sched.processor[t], M[t])
    <3> HIDE DEF M
    <3> QED BY <2>1, HomeSplits
  <2>3. x.processor[t] \in mask \cup {NoCore} /\ mask \in SUBSET Cores
    BY <1>3, <1>7
  <2>4. Splits(newHome, newOthers, x.processor[t], mask)
    <3> HIDE DEF x
    <3> QED BY <2>3, HomeSplits
  <2> QED BY <1>5, <2>2, <2>4
<1>9. /\ d = Displace(x, t, oldHome, oldOthers, sched.priority[t])
      /\ n = Place(d, t, newHome, newOthers, b) /\ b \in BOOLEAN
  OBVIOUS
<1> HIDE DEF x, M, N, R, oldHome, oldOthers, newHome, newOthers, d, b, n
<1>10. ASSUME NEW s, Follows(sched, s, N, R, a), Unlock(a, s) PROVE IInv'
  <2>1. \A u \in Threads : R[u] <=> status'[u] = "Runnable" /\ ~paused'[u]
    BY <1>0, <1>4
  <2>2. status' \in [Threads -> Statuses] /\ paused' \in [Threads -> BOOLEAN]
    BY <1>1, <1>4
  <2> QED BY <1>4, <1>5, <1>6, <1>10, <2>1, <2>2, UnlockInv
<1>11. CASE mask = M[t]
  <2>1. ASSUME NEW u \in Threads PROVE MatchesThread(sched, u, N[u], R[u])
    <3>1. N[u] = M[u]
      BY <1>5, <1>11 DEF SameElse
    <3>2. MatchesThread(sched, u, M[u], R[u])
      BY <1>0 DEF Match
    <3> QED BY <3>1, <3>2
  <2>2. Follows(sched, sched, N, R, a)
    BY <1>0, <2>1 DEF Follows, Match
  <2> QED BY <1>4, <1>10, <1>11, <2>2
<1>12. CASE mask # M[t] /\ ~R[t]
  <2>1. Match(x, N, R)
    BY <1>0, <1>3, <1>5, <1>7, <1>12, IdleChangeMatch
  <2>2. Follows(sched, x, N, R, a)
    BY <1>7, <2>1 DEF Follows
  <2> QED BY <1>0, <1>4, <1>10, <1>12, <2>2
<1>13. CASE mask # M[t] /\ R[t]
  <2>1. Bare(d, t, M, R) /\ d.processor = x.processor
    BY <1>0, <1>7, <1>8, <1>9, <1>13, DisplaceBare
  <2>2. /\ SameElse(R, R, t) /\ d.processor[t] \in N[t] \cup {NoCore}
        /\ Splits(newHome, newOthers, d.processor[t], N[t])
    BY <1>3, <1>5, <1>7, <1>8, <2>1 DEF SameElse
  <2>3. Match(n, N, R) /\ n.processor = d.processor
    BY <1>5, <1>9, <1>13, <2>1, <2>2, PlaceMatch
  <2>4. Follows(sched, n, N, R, a)
    BY <1>7, <2>1, <2>3 DEF Follows
  <2> QED BY <1>0, <1>4, <1>10, <1>13, <2>4
<1> QED BY <1>11, <1>12, <1>13

\* A thread that yields has a core, since it executes.
LEMMA YieldInv ==
    ASSUME IInv, NEW t \in Guests, Yield(t)
    PROVE  IInv'
<1> DEFINE M == affinity_mask
           R == Runnables
<1>0. /\ Match(sched, M, R) /\ M \in [Threads -> SUBSET Cores]
      /\ \A u \in Threads : R[u] <=> status[u] = "Runnable" /\ ~paused[u]
  BY InvMatch
<1>1. t \in Threads /\ sched.processor[t] \in Cores
  <2>1. PICK c \in Cores : t = running[c] /\ running[c] # None
    BY DEF Guests
  <2>2. t \in Threads /\ sched.processor[t] # NoCore
    BY <2>1 DEF IInv, TypeOK, RunningHasCore
  <2>3. sched \in Queues
    BY DEF IInv, TypeOK
  <2> QED BY <2>2, <2>3, QueuesFacts
<1>2. UNCHANGED <<affinity_mask, ideal_core, status, paused>>
  BY DEF Yield
<1>3. PICK s \in IF IsRunnable(t) THEN Yielded(sched, t) ELSE {sched} : Unlock(t, s)
  BY DEF Yield
<1>4. IsRunnable(t) => R[t]
  BY <1>0, <1>1 DEF IsRunnable
<1> HIDE DEF M, R
<1>5. Follows(sched, s, M, R, t)
  <2>1. CASE s = sched
    BY <1>0, <2>1 DEF Follows
  <2>2. CASE R[t] /\ s \in Yielded(sched, t)
    BY <1>0, <1>1, <2>2, YieldedMatch
  <2> QED BY <1>3, <1>4, <2>1, <2>2
<1> QED BY <1>2, <1>3, <1>5, SameStatusInv DEF M, R

\* The preemption event.
LEMMA PreemptInv ==
    ASSUME IInv, Preempt
    PROVE  IInv'
<1>1. PICK ticks \in LastRunningTicks : Unlock(None, PreemptThreads(sched, ticks))
  BY DEF Preempt
<1>2. Follows(sched, PreemptThreads(sched, ticks), affinity_mask, Runnables, None)
  BY InvMatch, PreemptThreadsMatch
<1>3. UNCHANGED <<affinity_mask, ideal_core, status, paused>>
  BY DEF Preempt
<1> QED BY <1>1, <1>2, <1>3, SameStatusInv

\* The cores follow the selection.
LEMMA SwitchInv ==
    ASSUME IInv, NEW c \in Cores, SwitchOut(c) \/ SwitchIn(c)
    PROVE  IInv'
<1>0. running \in [Cores -> Threads \cup {None}] /\ selected \in [Cores -> Threads \cup {None}]
  BY DEF IInv, TypeOK
<1>1. /\ UNCHANGED <<sched, affinity_mask, ideal_core, status, paused, selected>>
      /\ \/ running' = [running EXCEPT ![c] = None]
         \/ /\ running' = [running EXCEPT ![c] = selected[c]]
            /\ sched.processor[selected[c]] = c
  BY DEF SwitchOut, SwitchIn
<1>2. TypeOK'
  BY <1>0, <1>1 DEF IInv, TypeOK
<1>3. /\ QueuesMatchThreads' /\ QueuesSorted' /\ SelectedIsFront'
  BY <1>1 DEF IInv, QueuesMatchThreads, QueuesSorted, SelectedIsFront, IsRunnable
<1>4. RunningHasCore'
  <2>1. ASSUME NEW d \in Cores, running'[d] # None PROVE sched.processor[running'[d]] # NoCore
    <3>1. CASE d # c
      BY <1>0, <1>1, <2>1, <3>1 DEF IInv, RunningHasCore
    <3>2. CASE d = c
      <4>1. sched.processor[running'[d]] = c
        BY <1>0, <1>1, <2>1, <3>2
      <4> QED BY <4>1, CoresFacts
    <3> QED BY <3>1, <3>2
  <2> QED BY <1>1, <2>1 DEF RunningHasCore
<1>5. NoIdleInVain'
  BY <1>1 DEF IInv, NoIdleInVain, IsRunnable, TooUrgent
<1> QED BY <1>2, <1>3, <1>4, <1>5 DEF IInv

\* At first all queues are empty.
LEMMA InitInv == Init => IInv
<1> SUFFICES ASSUME Init PROVE IInv
  OBVIOUS
<1>1. PICK core \in [Threads -> FirstCores], priority \in [Threads -> Priorities] :
        /\ sched = [scheduled |-> [c \in Cores |-> <<>>],
                    suggested |-> [c \in Cores |-> <<>>],
                    processor |-> core, priority |-> priority]
        /\ affinity_mask = [t \in Threads |-> {core[t]}]
        /\ ideal_core = core
        /\ status = [t \in Threads |-> "None"]
        /\ paused = [t \in Threads |-> FALSE]
        /\ selected = [c \in Cores |-> None]
        /\ running = [c \in Cores |-> None]
  BY DEF Init
<1>2. FirstCores \subseteq Cores
  BY SchedulerAssumption
<1>3. /\ \A c \in Cores : sched.scheduled[c] = <<>> /\ sched.suggested[c] = <<>>
      /\ sched.processor = core
      /\ \A t \in Threads : affinity_mask[t] = {core[t]} /\ ~IsRunnable(t)
  BY <1>1 DEF IsRunnable
<1>4. <<>> \in Seq(Entries) /\ DOMAIN <<>> = {}
  OBVIOUS
<1>5. sched \in Queues
  <2>1. core \in [Threads -> Cores \cup {NoCore}]
    BY <1>2
  <2>2. [c \in Cores |-> <<>>] \in [Cores -> Seq(Entries)]
    BY <1>4
  <2> QED BY <1>1, <2>1, <2>2 DEF Queues
<1>6. TypeOK
  <2>1. affinity_mask \in [Threads -> (SUBSET Cores) \ {{}}]
    BY <1>1, <1>2
  <2>2. ideal_core \in [Threads -> Cores \cup {DontCare}]
    BY <1>1, <1>2
  <2> QED BY <1>1, <1>5, <2>1, <2>2 DEF TypeOK, Statuses
<1>7. QueuesMatchThreads
  <2>1. ASSUME NEW t \in Threads
        PROVE  MatchesThread(sched, t, affinity_mask[t], IsRunnable(t))
    BY <1>3, <1>4 DEF MatchesThread, Lacks
  <2> QED BY <2>1 DEF QueuesMatchThreads
<1>8. QueuesSorted
  BY <1>3, <1>4 DEF QueuesSorted, Sorted
<1>9. SelectedIsFront /\ RunningHasCore
  BY <1>1, <1>3 DEF SelectedIsFront, RunningHasCore, front
<1>10. NoIdleInVain
  BY <1>3 DEF NoIdleInVain
<1> QED BY <1>6, <1>7, <1>8, <1>9, <1>10 DEF IInv

\* Every step keeps the invariant.
LEMMA NextInv == IInv /\ [Next]_vars => IInv'
<1> SUFFICES ASSUME IInv, [Next]_vars PROVE IInv'
  OBVIOUS
<1>0. Guests \subseteq Threads
  BY DEF Guests, IInv, TypeOK
<1>1. ASSUME NEW a \in Actors, NEW t \in Threads, Start(a, t) \/ Resume(a, t) PROVE IInv'
  BY <1>1, StatusInv
<1>2. ASSUME NEW a \in Guests, NEW t \in Threads, Stop(a, t) \/ SetThreadActivity(a, t)
      PROVE  IInv'
  BY <1>2, StatusInv
<1>3. ASSUME NEW a \in Guests, NEW t \in Threads, NEW p \in NewPriorities,
             SetCurrentPriority(a, t, p)
      PROVE  IInv'
  BY <1>3, SetCurrentPriorityInv
<1>4. ASSUME NEW a \in Guests, NEW t \in Threads, NEW request \in Requests,
             SetThreadCoreMask(a, t, request.core, request.mask)
      PROVE  IInv'
  <2>1. /\ request.core \in Cores \cup {DontCare, DontUpdate}
        /\ request.mask \in (SUBSET Cores) \ {{}}
    BY SchedulerAssumption
  <2> QED BY <1>4, <2>1, SetThreadCoreMaskInv
<1>5. ASSUME NEW t \in Guests, Block(t) PROVE IInv'
  BY <1>0, <1>5, StatusInv
<1>6. ASSUME NEW t \in Guests, Yield(t) PROVE IInv'
  BY <1>6, YieldInv
<1>7. CASE Preempt
  BY <1>7, PreemptInv
<1>8. ASSUME NEW c \in Cores, SwitchOut(c) \/ SwitchIn(c) PROVE IInv'
  BY <1>8, SwitchInv
<1>9. CASE UNCHANGED vars
  BY <1>9 DEF vars, IInv, TypeOK, QueuesMatchThreads, QueuesSorted, SelectedIsFront,
              RunningHasCore, NoIdleInVain, IsRunnable, TooUrgent
<1> QED BY <1>1, <1>2, <1>3, <1>4, <1>5, <1>6, <1>7, <1>8, <1>9 DEF Next

\* IInv is an invariant of the scheduler, for any number of threads and cores and
\* any requests: every operation under the scheduler lock leaves queues that agree
\* with the threads, sorted, the selection at their fronts, no core idle in vain,
\* and a core for every thread that executes.
THEOREM Invariance == Spec => []IInv
<1>1. Init => IInv
  BY InitInv
<1>2. IInv /\ [Next]_vars => IInv'
  BY NextInv
<1> QED BY <1>1, <1>2, PTL DEF Spec

\* A runnable thread is once, at its priority, in the queue of its core and in the
\* suggestions of the other cores of its mask, and nowhere else; a thread that is
\* not runnable is in no queue: AdjustSchedulingOnStatus, ...OnPriority and
\* ...OnAffinity, TransferToCore, the three yields and PreemptThreads find and
\* remove every entry they have to.
THEOREM QueuesAgreeWithThreads == Spec => []QueuesMatchThreads
<1>1. IInv => QueuesMatchThreads
  BY DEF IInv
<1> QED BY <1>1, Invariance, PTL

\* After SelectThreads each core is to run the front of its own queue, a runnable
\* thread placed there, however threads migrated during the selection.
THEOREM SelectionIsFront == Spec => []SelectedIsFront
<1>1. IInv => SelectedIsFront
  BY DEF IInv
<1> QED BY <1>1, Invariance, PTL

\* Load balancing works: when SelectThreads leaves a core idle, every runnable thread
\* that may run there is alone on another core and is what that core runs, unless
\* some core is to run a thread too urgent for core migration.
THEOREM NoCoreIdlesInVain == Spec => []NoIdleInVain
<1>1. IInv => NoIdleInVain
  BY DEF IInv
<1> QED BY <1>1, Invariance, PTL
=============================================================================

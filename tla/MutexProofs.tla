----------------------------- MODULE MutexProofs -----------------------------
(***************************************************************************)
(* Proofs about Mutex, for any threads, mutexes, condition variables and   *)
(* priorities: a guest thread that believes it holds a mutex owns it, the  *)
(* owner of a mutex knows or is going to be told, waiters wait for a mutex *)
(* that will be handed to them through the kernel, blocked threads are in  *)
(* the list that their waker looks at, and every thread runs at the        *)
(* priority it inherits from its waiters.                                  *)
(***************************************************************************)
EXTENDS Mutex, WellFoundedInduction, FiniteSetTheorems, TLAPS

-----------------------------------------------------------------------------
(* Lists *)

\* A non-empty set of positions has a first one.
LEMMA FirstFacts ==
    ASSUME NEW P, P \subseteq Nat, P # {}
    PROVE  First(P) \in P /\ \A j \in P : First(P) <= j
<1>1. PICK x \in P : \A y \in P : ~(<<y, x>> \in OpToRel(<, Nat))
  BY WFMin, NatLessThanWellFounded, Zenon
<1>2. ASSUME NEW y \in P PROVE x <= y
  <2>1. y < x => <<y, x>> \in OpToRel(<, Nat)
    <3>1. <<y, x>> \in Nat \X Nat /\ <<y, x>>[1] = y /\ <<y, x>>[2] = x
      OBVIOUS
    <3> QED BY <3>1, Zenon DEF OpToRel
  <2>2. ~(y < x)
    BY <1>1, <2>1, Zenon
  <2> QED BY <2>2
<1> QED BY <1>1, <1>2 DEF First

\* What InsertAt does, position by position.
LEMMA InsertAtFacts ==
    ASSUME NEW S, NEW s \in Seq(S), NEW i \in 1..(Len(s) + 1), NEW e \in S
    PROVE  /\ InsertAt(s, i, e) \in Seq(S)
           /\ Len(InsertAt(s, i, e)) = Len(s) + 1
           /\ \A q \in 1..(Len(s) + 1) : InsertAt(s, i, e)[q] =
                  IF q < i THEN s[q] ELSE IF q = i THEN e ELSE s[q - 1]
<1> DEFINE l == SubSeq(s, 1, i - 1)
           r == SubSeq(s, i, Len(s))
<1>0. Len(s) \in Nat /\ i \in Nat
  OBVIOUS
<1>1. /\ l \in Seq(S) /\ Len(l) = i - 1
      /\ \A q \in 1..(i - 1) : l[q] = s[q]
  OBVIOUS
<1>2. /\ r \in Seq(S) /\ Len(r) = Len(s) - i + 1
      /\ \A q \in 1..(Len(s) - i + 1) : r[q] = s[i + q - 1]
  OBVIOUS
<1>3. InsertAt(s, i, e) = (l \o <<e>>) \o r
  BY DEF InsertAt
<1> HIDE DEF l, r
<1>4. /\ l \o <<e>> \in Seq(S) /\ Len(l \o <<e>>) = i
      /\ \A q \in 1..(i - 1) : (l \o <<e>>)[q] = s[q]
      /\ (l \o <<e>>)[i] = e
  BY <1>1
<1> DEFINE m == l \o <<e>>
<1>5. m \in Seq(S) /\ Len(m) = i /\ (\A q \in 1..(i - 1) : m[q] = s[q]) /\ m[i] = e
  BY <1>4
<1> HIDE DEF m
<1>6. m \o r \in Seq(S) /\ Len(m \o r) = Len(s) + 1
  BY <1>0, <1>2, <1>5
<1>7. ASSUME NEW q \in 1..(Len(s) + 1)
      PROVE  (m \o r)[q] = IF q < i THEN s[q] ELSE IF q = i THEN e ELSE s[q - 1]
  <2>1. CASE q <= i
    BY <2>1, <1>2, <1>5
  <2>2. CASE ~(q <= i)
    <3>1. q - i \in 1..(Len(s) - i + 1)
      BY <2>2
    <3>2. (m \o r)[q] = r[q - i]
      BY <2>2, <1>2, <1>5
    <3> QED BY <2>2, <3>1, <3>2, <1>2
  <2> QED BY <2>1, <2>2
<1> QED BY <1>3, <1>6, <1>7 DEF m

\* What RemoveAt does, position by position.
LEMMA RemoveAtFacts ==
    ASSUME NEW S, NEW s \in Seq(S), NEW i \in 1..Len(s)
    PROVE  /\ RemoveAt(s, i) \in Seq(S)
           /\ Len(RemoveAt(s, i)) = Len(s) - 1
           /\ \A q \in 1..(Len(s) - 1) : RemoveAt(s, i)[q] =
                  IF q < i THEN s[q] ELSE s[q + 1]
<1> DEFINE l == SubSeq(s, 1, i - 1)
           r == SubSeq(s, i + 1, Len(s))
<1>0. Len(s) \in Nat /\ i \in Nat
  OBVIOUS
<1>1. /\ l \in Seq(S) /\ Len(l) = i - 1
      /\ \A q \in 1..(i - 1) : l[q] = s[q]
  OBVIOUS
<1>2. /\ r \in Seq(S) /\ Len(r) = Len(s) - i
      /\ \A q \in 1..(Len(s) - i) : r[q] = s[i + q]
  OBVIOUS
<1>3. RemoveAt(s, i) = l \o r
  BY DEF RemoveAt
<1> HIDE DEF l, r
<1>4. l \o r \in Seq(S) /\ Len(l \o r) = Len(s) - 1
  <2>0. l \in Seq(S) /\ r \in Seq(S)
    BY <1>1, <1>2
  <2>1. l \o r \in Seq(S) /\ Len(l \o r) = Len(l) + Len(r)
    BY <2>0
  <2> QED BY <2>1, <1>0, <1>1, <1>2
<1>5. ASSUME NEW q \in 1..(Len(s) - 1)
      PROVE  (l \o r)[q] = IF q < i THEN s[q] ELSE s[q + 1]
  <2>1. CASE q < i
    BY <2>1, <1>1, <1>2
  <2>2. CASE ~(q < i)
    <3>1. q - (i - 1) \in 1..(Len(s) - i)
      BY <2>2
    <3>2. (l \o r)[q] = r[q - (i - 1)]
      BY <2>2, <1>1, <1>2
    <3> QED BY <2>2, <3>1, <3>2, <1>2
  <2> QED BY <2>1, <2>2
<1> QED BY <1>3, <1>4, <1>5

\* Inserting a thread adds it to the list and nothing else.
LEMMA Inserted ==
    ASSUME NEW list \in Seq(Threads), NEW t \in Threads, IsInjective(list),
           t \notin ToSet(list), NEW priority
    PROVE  /\ InsertByPriority(list, t, priority) \in Seq(Threads)
           /\ IsInjective(InsertByPriority(list, t, priority))
           /\ ToSet(InsertByPriority(list, t, priority)) = ToSet(list) \cup {t}
<1> DEFINE later == {i \in DOMAIN list : priority[list[i]] > priority[t]}
           at == IF later = {} THEN Len(list) + 1 ELSE First(later)
           new == InsertAt(list, at, t)
<1>1. at \in 1..(Len(list) + 1)
  <2>1. later \subseteq 1..Len(list) /\ 1..Len(list) \subseteq Nat /\ Len(list) \in Nat
    OBVIOUS
  <2>2. later # {} => First(later) \in later
    BY <2>1, FirstFacts
  <2> QED BY <2>1, <2>2
<1>2. InsertByPriority(list, t, priority) = new
  BY DEF InsertByPriority
<1> HIDE DEF at
<1>3. /\ new \in Seq(Threads) /\ Len(new) = Len(list) + 1
      /\ \A q \in 1..(Len(list) + 1) : new[q] =
             IF q < at THEN list[q] ELSE IF q = at THEN t ELSE list[q - 1]
  BY <1>1, InsertAtFacts
<1> HIDE DEF new
<1>4. IsInjective(new)
  <2>1. /\ Len(list) \in Nat
        /\ \A i, j \in 1..Len(list) : list[i] = list[j] => i = j
        /\ \A i \in 1..Len(list) : list[i] # t
    BY DEF IsInjective, ToSet
  <2>2. ASSUME NEW i \in 1..(Len(list) + 1), NEW j \in 1..(Len(list) + 1), new[i] = new[j], i < j
        PROVE  FALSE
    <3>1. CASE j < at
      BY <1>1, <1>3, <2>1, <2>2, <3>1
    <3>2. CASE i < at /\ j = at
      BY <1>1, <1>3, <2>1, <2>2, <3>2
    <3>3. CASE i < at /\ j > at
      <4>1. i \in 1..Len(list) /\ j - 1 \in 1..Len(list) /\ i # j - 1
        BY <1>1, <2>1, <3>3
      <4>2. new[i] = list[i] /\ new[j] = list[j - 1]
        BY <1>1, <1>3, <3>3
      <4> QED BY <2>1, <2>2, <4>1, <4>2
    <3>4. CASE i = at
      BY <1>1, <1>3, <2>1, <2>2, <3>4
    <3>5. CASE i > at
      BY <1>1, <1>3, <2>1, <2>2, <3>5, SMTT(20)
    <3> QED BY <1>1, <2>1, <2>2, <3>1, <3>2, <3>3, <3>4, <3>5
  <2>3. \A i, j \in 1..(Len(list) + 1) : new[i] = new[j] => i = j
    BY <2>1, <2>2
  <2> QED BY <1>3, <2>3 DEF IsInjective
<1>5. ToSet(new) \subseteq ToSet(list) \cup {t}
  BY <1>1, <1>3 DEF ToSet
<1>6. ToSet(list) \cup {t} \subseteq ToSet(new)
  <2>1. t \in ToSet(new)
    BY <1>1, <1>3 DEF ToSet
  <2>2. ASSUME NEW i \in DOMAIN list PROVE list[i] \in ToSet(new)
    <3>1. i \in 1..(Len(list) + 1) /\ i + 1 \in 1..(Len(list) + 1) /\ Len(list) \in Nat
      OBVIOUS
    <3>2. list[i] = new[i] \/ list[i] = new[i + 1]
      BY <1>1, <1>3, <3>1
    <3> QED BY <1>3, <3>1, <3>2 DEF ToSet
  <2> QED BY <2>1, <2>2 DEF ToSet
<1> QED BY <1>2, <1>3, <1>4, <1>5, <1>6

\* Removing a thread takes it out of the list and nothing else.
LEMMA Removed ==
    ASSUME NEW list \in Seq(Threads), NEW t \in Threads, IsInjective(list)
    PROVE  /\ RemoveThread(list, t) \in Seq(Threads)
           /\ IsInjective(RemoveThread(list, t))
           /\ ToSet(RemoveThread(list, t)) = ToSet(list) \ {t}
<1> DEFINE found == {i \in DOMAIN list : list[i] = t}
           at == First(found)
           new == RemoveAt(list, at)
<1>1. CASE found = {}
  BY <1>1 DEF RemoveThread, ToSet
<1>2. CASE found # {}
  <2>1. at \in 1..Len(list) /\ list[at] = t
    <3>1. found \subseteq Nat
      OBVIOUS
    <3>2. at \in found
      BY <1>2, <3>1, FirstFacts
    <3> QED BY <3>2
  <2>2. RemoveThread(list, t) = new
    BY <1>2 DEF RemoveThread
  <2> HIDE DEF at
  <2>3. /\ new \in Seq(Threads) /\ Len(new) = Len(list) - 1
        /\ \A q \in 1..(Len(list) - 1) : new[q] = IF q < at THEN list[q] ELSE list[q + 1]
    BY <2>1, RemoveAtFacts
  <2> HIDE DEF new
  <2>4. \A i, j \in 1..Len(list) : list[i] = list[j] => i = j
    BY DEF IsInjective
  <2>5. IsInjective(new)
    BY <2>1, <2>3, <2>4 DEF IsInjective
  <2>6. ToSet(new) \subseteq ToSet(list) \ {t}
    BY <2>1, <2>3, <2>4 DEF ToSet
  <2>7. ASSUME NEW i \in DOMAIN list, list[i] # t PROVE list[i] \in ToSet(new)
    <3>1. CASE i < at
      BY <3>1, <2>1, <2>3 DEF ToSet
    <3>2. CASE i > at
      <4>1. i - 1 \in 1..(Len(list) - 1) /\ new[i - 1] = list[i]
        BY <3>2, <2>1, <2>3
      <4> QED BY <4>1, <2>3 DEF ToSet
    <3> QED BY <2>1, <2>7, <3>1, <3>2
  <2>8. ToSet(list) \ {t} \subseteq ToSet(new)
    BY <2>7 DEF ToSet
  <2> QED BY <2>2, <2>3, <2>5, <2>6, <2>8
<1> QED BY <1>1, <1>2

-----------------------------------------------------------------------------
(* Kernel states *)

\* ListInv of a kernel state.
Sound(s) ==
    /\ s \in Kernel
    /\ \A o \in Threads :
         /\ IsInjective(s.waiting[o])
         /\ \A t \in Threads : t \in ToSet(s.waiting[o]) <=> s.owner[t] = o
    /\ \A c \in CondVars :
         /\ IsInjective(s.conds[c])
         /\ \A t \in ToSet(s.conds[c]) : s.condvar[t] = c
    /\ \A t \in Threads :
         s.status[t] = "WaitCondVar" =>
           s.condvar[t] \in CondVars /\ t \in ToSet(s.conds[s.condvar[t]])

\* r differs from s at most in the lists' order, the priorities and the owners.
Same(s, r) ==
    /\ r.word = s.word /\ r.status = s.status /\ r.result = s.result
    /\ r.address = s.address /\ r.condvar = s.condvar
    /\ \A c \in CondVars : ToSet(r.conds[c]) = ToSet(s.conds[c])

\* r is a sound state like s, where t has the owner o and the others keep theirs.
Moves(s, r, t, o) ==
    /\ Sound(r) /\ Same(s, r)
    /\ \A u \in Threads : r.owner[u] = IF u = t THEN o ELSE s.owner[u]

Keeps(s, r) ==
    /\ Sound(r) /\ Same(s, r)
    /\ r.owner = s.owner

\* Such steps compose.
LEMMA KeepsFacts ==
    ASSUME NEW s
    PROVE  /\ Sound(s) => Keeps(s, s)
           /\ \A r, x : Keeps(s, r) /\ Keeps(r, x) => Keeps(s, x)
           /\ \A r, x, t, o : Moves(s, r, t, o) /\ Keeps(r, x) => Moves(s, x, t, o)
           /\ \A r, x, t, o : Keeps(s, r) /\ Moves(r, x, t, o) => Moves(s, x, t, o)
<1> USE DEF Keeps, Moves, Same
<1>1. Sound(s) => Keeps(s, s)
  OBVIOUS
<1>2. \A r, x : Keeps(s, r) /\ Keeps(r, x) => Keeps(s, x)
  OBVIOUS
<1>3. \A r, x, t, o : Moves(s, r, t, o) /\ Keeps(r, x) => Moves(s, x, t, o)
  OBVIOUS
<1>4. \A r, x, t, o : Keeps(s, r) /\ Moves(r, x, t, o) => Moves(s, x, t, o)
  OBVIOUS
<1> QED BY <1>1, <1>2, <1>3, <1>4

\* A thread without an owner joins the list of one, as AddMutexWaiter asserts.
LEMMA LinkWaiterFacts ==
    ASSUME NEW s, Sound(s), NEW o \in Threads, NEW t \in Threads, s.owner[t] = None
    PROVE  Moves(s, LinkWaiter(s, o, t), t, o)
<1> DEFINE list == InsertByPriority(s.waiting[o], t, s.priority)
           r == LinkWaiter(s, o, t)
<1>0. s \in Kernel /\ None \notin Threads /\ s.waiting[o] \in Seq(Threads)
  BY MutexAssumption DEF Sound, Kernel
<1>1. t \notin ToSet(s.waiting[o]) /\ IsInjective(s.waiting[o])
  BY <1>0 DEF Sound
<1>2. /\ list \in Seq(Threads) /\ IsInjective(list)
      /\ ToSet(list) = ToSet(s.waiting[o]) \cup {t}
  BY <1>0, <1>1, Inserted
<1>3. r = [s EXCEPT !.waiting[o] = list, !.owner[t] = o]
  BY DEF LinkWaiter
<1> HIDE DEF list, r
<1>4. /\ r \in Kernel
      /\ r.waiting = [s.waiting EXCEPT ![o] = list]
      /\ r.owner = [s.owner EXCEPT ![t] = o]
      /\ r.word = s.word /\ r.status = s.status /\ r.result = s.result
      /\ r.address = s.address /\ r.condvar = s.condvar /\ r.conds = s.conds
  BY <1>0, <1>2, <1>3 DEF Kernel
<1>5. /\ s.owner \in [Threads -> Threads \cup {None}]
      /\ s.waiting \in [Threads -> Seq(Threads)]
  BY <1>0 DEF Kernel
<1>6. Sound(r)
  BY <1>0, <1>1, <1>2, <1>4, <1>5 DEF Sound
<1>7. \A u \in Threads : r.owner[u] = IF u = t THEN o ELSE s.owner[u]
  BY <1>4, <1>5
<1> QED BY <1>4, <1>6, <1>7 DEF Moves, Same, r

\* A thread leaves the list of its owner, as RemoveMutexWaiter asserts.
LEMMA UnlinkWaiterFacts ==
    ASSUME NEW s, Sound(s), NEW o \in Threads, NEW t \in Threads, s.owner[t] = o
    PROVE  Moves(s, UnlinkWaiter(s, o, t), t, None)
<1> DEFINE list == RemoveThread(s.waiting[o], t)
           r == UnlinkWaiter(s, o, t)
<1>0. s \in Kernel /\ None \notin Threads /\ s.waiting[o] \in Seq(Threads)
  BY MutexAssumption DEF Sound, Kernel
<1>1. IsInjective(s.waiting[o])
  BY <1>0 DEF Sound
<1>2. /\ list \in Seq(Threads) /\ IsInjective(list)
      /\ ToSet(list) = ToSet(s.waiting[o]) \ {t}
  BY <1>0, <1>1, Removed
<1>3. r = [s EXCEPT !.waiting[o] = list, !.owner[t] = None]
  BY DEF UnlinkWaiter
<1> HIDE DEF list, r
<1>4. /\ r \in Kernel
      /\ r.waiting = [s.waiting EXCEPT ![o] = list]
      /\ r.owner = [s.owner EXCEPT ![t] = None]
      /\ r.word = s.word /\ r.status = s.status /\ r.result = s.result
      /\ r.address = s.address /\ r.condvar = s.condvar /\ r.conds = s.conds
  BY <1>0, <1>2, <1>3 DEF Kernel
<1>5. /\ s.owner \in [Threads -> Threads \cup {None}]
      /\ s.waiting \in [Threads -> Seq(Threads)]
  BY <1>0 DEF Kernel
<1>6. Sound(r)
  BY <1>0, <1>1, <1>2, <1>4, <1>5 DEF Sound
<1>7. \A u \in Threads : r.owner[u] = IF u = t THEN None ELSE s.owner[u]
  BY <1>4, <1>5
<1> QED BY <1>4, <1>6, <1>7 DEF Moves, Same, r

-----------------------------------------------------------------------------
(* Priority inheritance leaves the lists' members as they are *)

\* An inherited priority is a priority.
LEMMA InheritedFacts ==
    ASSUME NEW s, Sound(s), NEW t \in Threads
    PROVE  Inherited(s, t) \in Priorities
<1>1. /\ s.waiting[t] \in Seq(Threads) /\ s.priority \in [Threads -> Priorities]
      /\ s.nominal[t] \in Priorities
  BY DEF Sound, Kernel
<1>2. s.waiting[t] # <<>> => Head(s.waiting[t]) \in Threads
  BY <1>1
<1> QED BY <1>1, <1>2 DEF Inherited

\* The move within the list of a condition variable loses nobody.
LEMMA SetCurrentPriorityFacts ==
    ASSUME NEW s, Sound(s), NEW t \in Threads, NEW p \in Priorities
    PROVE  Keeps(s, SetCurrentPriority(s, t, p))
<1> DEFINE r == SetCurrentPriority(s, t, p)
<1>0. s \in Kernel
  BY DEF Sound
<1>1. CASE s.status[t] = "WaitCondVar"
  <2> DEFINE c == s.condvar[t]
             short == RemoveThread(s.conds[c], t)
             a == [RemoveConditionVariableThread(s, t) EXCEPT !.priority[t] = p]
             list == InsertByPriority(short, t, a.priority)
  <2>1. c \in CondVars /\ t \in ToSet(s.conds[c]) /\ IsInjective(s.conds[c])
    BY <1>1 DEF Sound
  <2>2. s.conds[c] \in Seq(Threads)
    BY <1>0, <2>1 DEF Kernel
  <2>3. /\ short \in Seq(Threads) /\ IsInjective(short)
        /\ ToSet(short) = ToSet(s.conds[c]) \ {t}
    BY <2>1, <2>2, Removed
  <2>4. /\ a \in Kernel
        /\ a.waiting = s.waiting /\ a.owner = s.owner
        /\ a.conds = [s.conds EXCEPT ![c] = short]
        /\ a.word = s.word /\ a.status = s.status /\ a.result = s.result
        /\ a.address = s.address /\ a.condvar = s.condvar
    <3> HIDE DEF short
    <3>1. a = [s EXCEPT !.conds[c] = short, !.priority[t] = p]
      BY <1>0 DEF RemoveConditionVariableThread, short, Kernel
    <3> HIDE DEF a
    <3> QED BY <1>0, <2>1, <2>3, <3>1 DEF Kernel
  <2>5. a.conds[c] = short /\ a.condvar[t] = c
    BY <1>0, <2>1, <2>4 DEF Kernel
  <2>6. r = InsertConditionVariableThread(a, t)
    BY <1>1 DEF SetCurrentPriority
  <2>7. /\ list \in Seq(Threads) /\ IsInjective(list)
        /\ ToSet(list) = ToSet(s.conds[c])
    <3>1. t \notin ToSet(short)
      BY <2>3
    <3>2. /\ list \in Seq(Threads) /\ IsInjective(list)
          /\ ToSet(list) = ToSet(short) \cup {t}
      <4> HIDE DEF short, a
      <4> QED BY <2>3, <3>1, Inserted
    <3> QED BY <2>1, <2>3, <3>2
  <2> HIDE DEF a, short, r
  <2>8. r = [a EXCEPT !.conds[c] = list]
    BY <2>5, <2>6 DEF InsertConditionVariableThread
  <2> HIDE DEF list
  <2>9. /\ r \in Kernel
        /\ r.waiting = s.waiting /\ r.owner = s.owner
        /\ r.conds = [s.conds EXCEPT ![c] = list]
        /\ r.word = s.word /\ r.status = s.status /\ r.result = s.result
        /\ r.address = s.address /\ r.condvar = s.condvar
    BY <1>0, <2>1, <2>4, <2>7, <2>8 DEF Kernel
  <2>10. \A d \in CondVars :
           IsInjective(r.conds[d]) /\ ToSet(r.conds[d]) = ToSet(s.conds[d])
    <3>1. \A d \in CondVars : r.conds[d] = IF d = c THEN list ELSE s.conds[d]
      BY <1>0, <2>9 DEF Kernel
    <3> HIDE DEF c
    <3> QED BY <2>7, <3>1 DEF Sound
  <2> HIDE DEF c
  <2>11. Sound(r)
    BY <2>9, <2>10 DEF Sound
  <2> QED BY <2>9, <2>10, <2>11 DEF Keeps, Same, r
<1>2. CASE s.status[t] # "WaitCondVar"
  <2>1. r = [s EXCEPT !.priority[t] = p]
    BY <1>2 DEF SetCurrentPriority
  <2> HIDE DEF r
  <2>2. /\ r \in Kernel
        /\ r.waiting = s.waiting /\ r.owner = s.owner /\ r.conds = s.conds
        /\ r.word = s.word /\ r.status = s.status /\ r.result = s.result
        /\ r.address = s.address /\ r.condvar = s.condvar
    BY <1>0, <2>1 DEF Kernel
  <2>3. Sound(r)
    BY <2>2 DEF Sound
  <2> QED BY <2>2, <2>3 DEF Keeps, Same, r
<1> QED BY <1>1, <1>2

\* What a call of UpdatePriority for another thread is known to do.
Climbs(up) == \A r, o : Sound(r) /\ o \in Threads => Keeps(r, up[<<r, o>>])

\* One link of the chain, given what the calls for the next one do.
LEMMA UpdateLinkFacts ==
    ASSUME NEW up, Climbs(up), NEW s, Sound(s), NEW t \in Threads
    PROVE  Keeps(s, UpdateLink(up, s, t))
<1> DEFINE o == s.owner[t]
           p == Inherited(s, t)
           set == SetCurrentPriority(s, t, p)
           Up(r) == up[<<r, o>>]
<1>0. o \in Threads \cup {None} /\ None \notin Threads
  BY MutexAssumption DEF Sound, Kernel
<1>1. Keeps(s, set)
  <2>1. p \in Priorities
    BY InheritedFacts
  <2> HIDE DEF p
  <2> QED BY <2>1, SetCurrentPriorityFacts
<1>2. CASE p = s.priority[t]
  BY <1>2, KeepsFacts DEF UpdateLink
<1>3. CASE p # s.priority[t] /\ o = None
  BY <1>1, <1>3 DEF UpdateLink
<1>4. CASE p # s.priority[t] /\ o # None
  <2> DEFINE a == UnlinkWaiter(set, o, t)
             b == Up(a)
             c == LinkWaiter(b, o, t)
             d == Up(c)
             e == Up(d)
  <2>0. UpdateLink(up, s, t) = e
    BY <1>4 DEF UpdateLink
  <2> HIDE DEF set
  <2>1. o \in Threads
    BY <1>0, <1>4
  <2>2. Sound(set) /\ set.owner = s.owner
    BY <1>1 DEF Keeps
  <2> HIDE DEF p
  <2>3. Moves(set, a, t, None)
    BY <2>1, <2>2, UnlinkWaiterFacts
  <2> HIDE DEF a
  <2>4. Keeps(a, b)
    BY <2>1, <2>3 DEF Moves, Climbs
  <2> HIDE DEF b
  <2>5. Sound(b) /\ b.owner[t] = None
    BY <2>3, <2>4 DEF Keeps, Moves
  <2>6. Moves(b, c, t, o)
    BY <2>1, <2>5, LinkWaiterFacts
  <2> HIDE DEF c
  <2>7. Keeps(c, d)
    BY <2>1, <2>6 DEF Moves, Climbs
  <2> HIDE DEF d
  <2>8. Keeps(d, e)
    BY <2>1, <2>7 DEF Keeps, Climbs
  <2> HIDE DEF e
  <2>9. Keeps(c, e)
    BY <2>7, <2>8, KeepsFacts
  <2>10. Same(s, set) /\ Same(set, a) /\ Same(a, b) /\ Same(b, c) /\ Same(c, e)
    BY <1>1, <2>3, <2>4, <2>6, <2>9 DEF Keeps, Moves
  <2>11. Same(s, e)
    BY <2>10 DEF Same
  <2>12. s.owner \in [Threads -> Threads \cup {None}] /\ e.owner \in [Threads -> Threads \cup {None}]
    BY <2>9 DEF Keeps, Sound, Kernel
  <2>13. \A u \in Threads : e.owner[u] = s.owner[u]
    BY <2>2, <2>3, <2>4, <2>6, <2>9 DEF Keeps, Moves
  <2>14. e.owner = s.owner
    <3> HIDE DEF o
    <3> QED BY <2>12, <2>13
  <2> QED BY <2>0, <2>9, <2>11, <2>14 DEF Keeps
<1> QED BY <1>2, <1>3, <1>4

\* The definition of UpdateChain by recursion has a solution.
LEMMA UpdateChainFacts ==
    \A n \in 0 .. Cardinality(Threads) :
      UpdateChain[n] =
        IF n = 0
          THEN [x \in Kernel \X Threads |-> x[1]]
          ELSE [x \in Kernel \X Threads |->
                  UpdateLink(UpdateChain[n - 1], x[1], x[2])]
<1> DEFINE N == Cardinality(Threads)
           Step(f, n) == IF n = 0
                           THEN [x \in Kernel \X Threads |-> x[1]]
                           ELSE [x \in Kernel \X Threads |->
                                   UpdateLink(f[n - 1], x[1], x[2])]
           T == {m \in 0..N : ~ \E f : f = [n \in 0..m |-> Step(f, n)]}
<1>0. N \in Nat
  BY MutexAssumption, FS_CardinalityType
<1>00. UpdateChain = CHOOSE f : f = [n \in 0..N |-> Step(f, n)]
  BY DEF UpdateChain
<1>01. \A f, g, n : (n # 0 => f[n - 1] = g[n - 1]) => Step(f, n) = Step(g, n)
  OBVIOUS
<1> HIDE DEF N, Step
<1>1. ASSUME T # {} PROVE FALSE
  <2>1. T \subseteq Nat
    BY <1>0
  <2> DEFINE m == First(T)
  <2>2. m \in T /\ \A q \in T : m <= q
    <3> HIDE DEF T
    <3> QED BY <1>1, <2>1, FirstFacts
  <2>3. m \in 0..N /\ m \in Nat /\ ~ \E f : f = [n \in 0..m |-> Step(f, n)]
    <3> HIDE DEF m
    <3> QED BY <1>0, <2>2
  <2> HIDE DEF m
  <2>4. CASE m = 0
    <3> DEFINE f == [n \in 0..m |-> Step(0, 0)]
    <3>1. ASSUME NEW n \in 0..m PROVE f[n] = Step(f, n)
      <4>1. n = 0 /\ f[n] = Step(0, 0)
        BY <2>4
      <4> HIDE DEF f
      <4>2. Step(0, n) = Step(f, n)
        BY <1>01, <4>1
      <4> QED BY <4>1, <4>2
    <3>2. f = [n \in 0..m |-> f[n]]
      OBVIOUS
    <3> HIDE DEF f
    <3>3. f = [n \in 0..m |-> Step(f, n)]
      BY <3>1, <3>2
    <3> QED BY <2>3, <3>3
  <2>5. CASE m # 0
    <3>1. m - 1 \in 0..N /\ m - 1 \notin T
      BY <1>0, <2>2, <2>3, <2>5
    <3>2. PICK g : g = [n \in 0..(m - 1) |-> Step(g, n)]
      BY <3>1
    <3> DEFINE f == [n \in 0..m |-> IF n < m THEN g[n] ELSE Step(g, m)]
    <3>3. ASSUME NEW n \in 0..m PROVE f[n] = Step(f, n)
      <4>1. n # 0 => f[n - 1] = g[n - 1]
        BY <2>3, <3>3
      <4>2. Step(f, n) = Step(g, n)
        <5> HIDE DEF f
        <5> QED BY <1>01, <4>1
      <4>3. CASE n < m
        <5>1. n \in 0..(m - 1)
          BY <2>3, <4>3
        <5>2. g[n] = Step(g, n)
          BY <3>2, <5>1
        <5>3. f[n] = g[n]
          BY <4>3
        <5> QED BY <4>2, <5>2, <5>3
      <4>4. CASE ~(n < m)
        <5>1. n = m
          BY <2>3, <4>4
        <5> QED BY <4>2, <5>1
      <4> QED BY <4>3, <4>4
    <3>4. f = [n \in 0..m |-> f[n]]
      OBVIOUS
    <3> HIDE DEF f
    <3>5. f = [n \in 0..m |-> Step(f, n)]
      BY <3>3, <3>4
    <3> QED BY <2>3, <3>5
  <2> QED BY <2>4, <2>5
<1>2. \E f : f = [n \in 0..N |-> Step(f, n)]
  BY <1>0, <1>1
<1>3. UpdateChain = [n \in 0..N |-> Step(UpdateChain, n)]
  BY <1>00, <1>2, Zenon
<1>4. \A n \in 0..N : UpdateChain[n] = Step(UpdateChain, n)
  BY <1>3, Zenon
<1> QED BY <1>4 DEF N, Step

\* So every link keeps the lists' members.
LEMMA ChainClimbs == \A n \in 0 .. Cardinality(Threads) : Climbs(UpdateChain[n])
<1> DEFINE N == Cardinality(Threads)
           T == {m \in 0..N : ~Climbs(UpdateChain[m])}
<1>0. N \in Nat
  BY MutexAssumption, FS_CardinalityType
<1>1. ASSUME T # {} PROVE FALSE
  <2>1. T \subseteq Nat
    BY <1>0
  <2> DEFINE m == First(T)
  <2>2. m \in T /\ \A q \in T : m <= q
    <3> HIDE DEF T
    <3> QED BY <1>1, <2>1, FirstFacts
  <2>3. m \in 0..N /\ ~Climbs(UpdateChain[m])
    BY <2>2
  <2>4. \A r, o : Sound(r) /\ o \in Threads => <<r, o>> \in Kernel \X Threads
    BY DEF Sound
  <2> HIDE DEF m
  <2>5. CASE m = 0
    <3>1. \A r, o : Sound(r) /\ o \in Threads => UpdateChain[m][<<r, o>>] = r
      BY <2>3, <2>4, <2>5, UpdateChainFacts
    <3> QED BY <2>3, <3>1, KeepsFacts DEF Climbs
  <2>6. CASE m # 0
    <3>1. m - 1 \in 0..N /\ m - 1 \notin T
      BY <1>0, <2>2, <2>3, <2>6
    <3> DEFINE up == UpdateChain[m - 1]
    <3>2. Climbs(up)
      BY <3>1
    <3>3. UpdateChain[m] = [x \in Kernel \X Threads |-> UpdateLink(up, x[1], x[2])]
      BY <2>3, <2>6, UpdateChainFacts
    <3> HIDE DEF up
    <3>4. ASSUME NEW r, NEW o, Sound(r), o \in Threads
          PROVE  Keeps(r, UpdateChain[m][<<r, o>>])
      <4>1. UpdateChain[m][<<r, o>>] = UpdateLink(up, r, o)
        BY <2>4, <3>3, <3>4
      <4>2. Keeps(r, UpdateLink(up, r, o))
        BY <3>2, <3>4, UpdateLinkFacts
      <4> QED BY <4>1, <4>2
    <3> QED BY <2>3, <3>4 DEF Climbs
  <2> QED BY <2>5, <2>6
<1> QED BY <1>1

\* UpdatePriority keeps the lists' members.
LEMMA UpdatePriorityFacts ==
    ASSUME NEW s, Sound(s), NEW t \in Threads
    PROVE  Keeps(s, UpdatePriority(s, t))
<1>1. Cardinality(Threads) \in 0 .. Cardinality(Threads)
  BY MutexAssumption, FS_CardinalityType
<1>2. Climbs(UpdateChain[Cardinality(Threads)])
  BY <1>1, ChainClimbs
<1> QED BY <1>2 DEF Climbs, UpdatePriority

\* AddMutexWaiter makes o the owner of t and changes nobody else's.
LEMMA AddMutexWaiterFacts ==
    ASSUME NEW s, Sound(s), NEW o \in Threads, NEW t \in Threads, s.owner[t] = None
    PROVE  Moves(s, AddMutexWaiter(s, o, t), t, o)
<1> DEFINE a == LinkWaiter(s, o, t)
<1>1. Moves(s, a, t, o)
  BY LinkWaiterFacts
<1>2. AddMutexWaiter(s, o, t) = UpdatePriority(a, o)
  BY MutexAssumption DEF AddMutexWaiter
<1> HIDE DEF a
<1>3. Keeps(a, UpdatePriority(a, o))
  BY <1>1, UpdatePriorityFacts DEF Moves
<1> QED BY <1>1, <1>2, <1>3, KeepsFacts

\* RemoveMutexWaiter takes the owner of t away and changes nobody else's.
LEMMA RemoveMutexWaiterFacts ==
    ASSUME NEW s, Sound(s), NEW o \in Threads, NEW t \in Threads, s.owner[t] = o
    PROVE  Moves(s, RemoveMutexWaiter(s, o, t), t, None)
<1> DEFINE a == UnlinkWaiter(s, o, t)
<1>1. Moves(s, a, t, None)
  BY UnlinkWaiterFacts
<1>2. RemoveMutexWaiter(s, o, t) = UpdatePriority(a, o)
  BY DEF RemoveMutexWaiter
<1> HIDE DEF a
<1>3. Keeps(a, UpdatePriority(a, o))
  BY <1>1, UpdatePriorityFacts DEF Moves
<1> QED BY <1>1, <1>2, <1>3, KeepsFacts

\* So does LeaveOwner, for a thread with an owner or without.
LEMMA LeaveOwnerFacts ==
    ASSUME NEW s, Sound(s), NEW t \in Threads
    PROVE  Moves(s, LeaveOwner(s, t), t, None)
<1>1. CASE s.owner[t] = None
  BY <1>1 DEF LeaveOwner, Moves, Same
<1>2. CASE s.owner[t] # None
  <2> DEFINE o == s.owner[t]
  <2>1. o \in Threads
    BY <1>2 DEF Sound, Kernel
  <2>2. LeaveOwner(s, t) = RemoveMutexWaiter(s, o, t)
    BY <1>2 DEF LeaveOwner
  <2>3. s.owner[t] = o
    OBVIOUS
  <2> HIDE DEF o
  <2> QED BY <2>1, <2>2, <2>3, RemoveMutexWaiterFacts
<1> QED BY <1>1, <1>2

-----------------------------------------------------------------------------
(* Handing a mutex over *)

\* The loop of TransferMutexOwnership, by recursion over its rounds.
LEMMA TransferRoundsFacts ==
    ASSUME NEW s, NEW m, NEW o, NEW new, Len(s.waiting[o]) \in Nat
    PROVE  \A n \in 0..Len(s.waiting[o]) :
             TransferRounds(s, m, o, new)[n] =
               IF n = 0 THEN s
               ELSE IF s.address[s.waiting[o][n]] # m
                      THEN TransferRounds(s, m, o, new)[n - 1]
               ELSE AddMutexWaiter(
                      RemoveMutexWaiter(TransferRounds(s, m, o, new)[n - 1], o,
                                        s.waiting[o][n]),
                      new, s.waiting[o][n])
<1> DEFINE N == Len(s.waiting[o])
           Step(f, n) ==
             IF n = 0 THEN s
             ELSE IF s.address[s.waiting[o][n]] # m THEN f[n - 1]
             ELSE AddMutexWaiter(RemoveMutexWaiter(f[n - 1], o, s.waiting[o][n]),
                                 new, s.waiting[o][n])
           T == {j \in 0..N : ~ \E f : f = [n \in 0..j |-> Step(f, n)]}
           after == TransferRounds(s, m, o, new)
<1>0. N \in Nat
  OBVIOUS
<1>00. after = CHOOSE f : f = [n \in 0..N |-> Step(f, n)]
  BY DEF TransferRounds
<1>01. \A f, g, n : (n # 0 => f[n - 1] = g[n - 1]) => Step(f, n) = Step(g, n)
  OBVIOUS
<1>1. ASSUME T # {} PROVE FALSE
  <2> HIDE DEF N, Step
  <2>1. T \subseteq Nat
    BY <1>0
  <2> DEFINE j == First(T)
  <2>2. j \in T /\ \A q \in T : j <= q
    <3> HIDE DEF T
    <3> QED BY <1>1, <2>1, FirstFacts
  <2> HIDE DEF j
  <2>3. j \in 0..N /\ j \in Nat /\ ~ \E f : f = [n \in 0..j |-> Step(f, n)]
    BY <1>0, <2>2
  <2>4. CASE j = 0
    <3> DEFINE f == [n \in 0..j |-> Step(0, 0)]
    <3>1. ASSUME NEW n \in 0..j PROVE f[n] = Step(f, n)
      <4>1. n = 0 /\ f[n] = Step(0, 0)
        BY <2>4
      <4> HIDE DEF f
      <4>2. Step(0, n) = Step(f, n)
        BY <1>01, <4>1
      <4> QED BY <4>1, <4>2
    <3>2. f = [n \in 0..j |-> f[n]]
      OBVIOUS
    <3> HIDE DEF f
    <3>3. f = [n \in 0..j |-> Step(f, n)]
      BY <3>1, <3>2
    <3> QED BY <2>3, <3>3
  <2>5. CASE j # 0
    <3>1. j - 1 \in 0..N /\ j - 1 \notin T
      BY <1>0, <2>2, <2>3, <2>5
    <3>2. PICK g : g = [n \in 0..(j - 1) |-> Step(g, n)]
      BY <3>1
    <3> DEFINE f == [n \in 0..j |-> IF n < j THEN g[n] ELSE Step(g, j)]
    <3>3. ASSUME NEW n \in 0..j PROVE f[n] = Step(f, n)
      <4>1. n # 0 => f[n - 1] = g[n - 1]
        BY <2>3, <3>3
      <4>2. Step(f, n) = Step(g, n)
        <5> HIDE DEF f
        <5> QED BY <1>01, <4>1
      <4>3. CASE n < j
        <5>1. n \in 0..(j - 1)
          BY <2>3, <4>3
        <5>2. g[n] = Step(g, n)
          BY <3>2, <5>1
        <5>3. f[n] = g[n]
          BY <4>3
        <5> QED BY <4>2, <5>2, <5>3
      <4>4. CASE ~(n < j)
        <5>1. n = j
          BY <2>3, <4>4
        <5> QED BY <4>2, <5>1
      <4> QED BY <4>3, <4>4
    <3>4. f = [n \in 0..j |-> f[n]]
      OBVIOUS
    <3> HIDE DEF f
    <3>5. f = [n \in 0..j |-> Step(f, n)]
      BY <3>3, <3>4
    <3> QED BY <2>3, <3>5
  <2> QED BY <2>4, <2>5
<1> HIDE DEF N, Step, after
<1>2. \E f : f = [n \in 0..N |-> Step(f, n)]
  BY <1>0, <1>1
<1>3. after = [n \in 0..N |-> Step(after, n)]
  BY <1>00, <1>2, Zenon
<1>4. \A n \in 0..N : after[n] = Step(after, n)
  BY <1>3, Zenon
<1> QED BY <1>4 DEF N, Step, after

\* The waiters for m among the first n of the list have the new owner.
Transferred(s, r, list, n, m, new) ==
    /\ Sound(r) /\ Same(s, r)
    /\ \A u \in Threads :
         r.owner[u] = IF s.address[u] = m /\ \E i \in 1..n : list[i] = u
                        THEN new ELSE s.owner[u]

\* One round of the loop, for a waiter for m.
LEMMA TransferRoundStep ==
    ASSUME NEW s, Sound(s), NEW m, NEW o \in Threads, NEW new \in Threads, new # o,
           NEW list, list = s.waiting[o], NEW n \in 1..Len(list),
           NEW r, Transferred(s, r, list, n - 1, m, new), s.address[list[n]] = m
    PROVE  Transferred(s, AddMutexWaiter(RemoveMutexWaiter(r, o, list[n]), new, list[n]),
                       list, n, m, new)
<1> DEFINE t == list[n]
           a == RemoveMutexWaiter(r, o, t)
           b == AddMutexWaiter(a, new, t)
<1>0. list \in Seq(Threads) /\ IsInjective(list) /\ None \notin Threads /\ Len(list) \in Nat
  BY MutexAssumption DEF Sound, Kernel
<1>1. t \in Threads /\ s.owner[t] = o
  BY <1>0 DEF Sound, ToSet
<1>2. \A i \in 1..(n - 1) : list[i] # t
  BY <1>0 DEF IsInjective
<1>3. r.owner[t] = o
  BY <1>1, <1>2 DEF Transferred
<1>4. \A u : (\E i \in 1..n : list[i] = u) <=> (u = t \/ \E i \in 1..(n - 1) : list[i] = u)
  BY <1>0
<1>5. s.address[t] = m
  OBVIOUS
<1> HIDE DEF t
<1>6. Moves(r, a, t, None)
  BY <1>1, <1>3, RemoveMutexWaiterFacts DEF Transferred
<1> HIDE DEF a
<1>7. Sound(a) /\ a.owner[t] = None
  BY <1>1, <1>6 DEF Moves
<1>8. Moves(a, b, t, new)
  BY <1>1, <1>7, AddMutexWaiterFacts
<1> HIDE DEF b
<1>9. Same(s, b)
  BY <1>6, <1>8 DEF Moves, Transferred, Same
<1>10. \A u \in Threads :
         b.owner[u] = IF s.address[u] = m /\ \E i \in 1..n : list[i] = u
                        THEN new ELSE s.owner[u]
  <2>1. \A u \in Threads : b.owner[u] = IF u = t THEN new ELSE r.owner[u]
    BY <1>6, <1>8 DEF Moves
  <2>2. \A u \in Threads :
          r.owner[u] = IF s.address[u] = m /\ \E i \in 1..(n - 1) : list[i] = u
                         THEN new ELSE s.owner[u]
    BY DEF Transferred
  <2> QED BY <1>4, <1>5, <2>1, <2>2
<1>11. Transferred(s, b, list, n, m, new)
  BY <1>8, <1>9, <1>10 DEF Moves, Transferred
<1> QED BY <1>11 DEF a, b, t

\* After TransferMutexOwnership the new owner waits for nobody and all the
\* others that wait for m wait for it.
LEMMA TransferFacts ==
    ASSUME NEW s, Sound(s), NEW m, NEW o \in Threads, NEW new \in Threads, new # o,
           s.owner[new] = o, NEW r, r = TransferMutexOwnership(s, m, o, new)
    PROVE  /\ Sound(r) /\ Same(s, r)
           /\ \A u \in Threads :
                r.owner[u] = IF u = new THEN None
                             ELSE IF s.owner[u] = o /\ s.address[u] = m THEN new
                             ELSE s.owner[u]
<1> DEFINE a == RemoveMutexWaiter(s, o, new)
           list == a.waiting[o]
           after == TransferRounds(a, m, o, new)
           N == Len(list)
           T == {j \in 0..N : ~Transferred(a, after[j], list, j, m, new)}
<1>1. Moves(s, a, new, None)
  BY RemoveMutexWaiterFacts
<1>2. r = after[N]
  BY DEF TransferMutexOwnership
<1> HIDE DEF a
<1>3. Sound(a)
  BY <1>1 DEF Moves
<1>4. list \in Seq(Threads) /\ N \in Nat
  BY <1>3 DEF Sound, Kernel
<1>5. \A n \in 0..N :
        after[n] = IF n = 0 THEN a
                   ELSE IF a.address[list[n]] # m THEN after[n - 1]
                   ELSE AddMutexWaiter(RemoveMutexWaiter(after[n - 1], o, list[n]),
                                       new, list[n])
  BY <1>4, TransferRoundsFacts
<1>6. list = a.waiting[o] /\ N = Len(list)
  OBVIOUS
<1> HIDE DEF list, after, N
<1>7. ASSUME T # {} PROVE FALSE
  <2>1. T \subseteq Nat
    BY <1>4
  <2> DEFINE j == First(T)
  <2>2. j \in T /\ \A q \in T : j <= q
    <3> HIDE DEF T
    <3> QED BY <1>7, <2>1, FirstFacts
  <2> HIDE DEF j
  <2>3. j \in 0..N /\ ~Transferred(a, after[j], list, j, m, new)
    BY <2>2
  <2>4. CASE j = 0
    <3>1. after[j] = a
      BY <1>5, <2>3, <2>4
    <3>2. Transferred(a, a, list, 0, m, new)
      BY <1>3 DEF Transferred, Same
    <3> QED BY <2>3, <2>4, <3>1, <3>2
  <2>5. CASE j # 0
    <3>1. j - 1 \in 0..N /\ j - 1 \notin T /\ j \in 1..Len(list)
      BY <1>4, <1>6, <2>2, <2>3, <2>5
    <3> DEFINE b == after[j - 1]
    <3>2. Transferred(a, b, list, j - 1, m, new)
      BY <3>1
    <3>3. after[j] = IF a.address[list[j]] # m THEN b
                     ELSE AddMutexWaiter(RemoveMutexWaiter(b, o, list[j]), new, list[j])
      BY <1>5, <2>3, <2>5
    <3> HIDE DEF b
    <3>4. CASE a.address[list[j]] = m
      <4> DEFINE e == AddMutexWaiter(RemoveMutexWaiter(b, o, list[j]), new, list[j])
      <4>1. after[j] = e
        BY <3>3, <3>4
      <4>2. Transferred(a, e, list, j, m, new)
        <5>1. list = a.waiting[o] /\ j \in 1..Len(list)
          BY <1>6, <3>1
        <5> QED BY <1>3, <3>2, <3>4, <5>1, TransferRoundStep
      <4> HIDE DEF e
      <4> QED BY <2>3, <4>1, <4>2
    <3>5. CASE a.address[list[j]] # m
      <4>1. after[j] = b
        BY <3>3, <3>5
      <4>2. \A u : a.address[u] = m =>
              ((\E i \in 1..j : list[i] = u) <=> \E i \in 1..(j - 1) : list[i] = u)
        BY <3>1, <3>5
      <4>3. Transferred(a, b, list, j, m, new)
        BY <3>2, <4>2 DEF Transferred
      <4> QED BY <2>3, <4>1, <4>3
    <3> QED BY <3>4, <3>5
  <2> QED BY <2>4, <2>5
<1>8. Transferred(a, r, list, N, m, new)
  BY <1>2, <1>4, <1>7
<1>9. \A u \in Threads : (\E i \in 1..N : list[i] = u) <=> a.owner[u] = o
  BY <1>3, <1>4, <1>6 DEF Sound, ToSet
<1>10. Sound(r) /\ Same(s, r)
  BY <1>1, <1>8 DEF Transferred, Moves, Same
<1>11. None \notin Threads /\ a.address = s.address
  BY <1>1, MutexAssumption DEF Moves, Same
<1> QED BY <1>1, <1>8, <1>9, <1>10, <1>11 DEF Transferred, Moves

\* The most urgent waiter is one of the waiters.
LEMMA HighestPriorityWaiterFacts ==
    ASSUME NEW s, Sound(s), NEW o \in Threads, NEW m, MutexWaiters(s, o, m) # {}
    PROVE  /\ HighestPriorityWaiter(s, o, m) \in Threads
           /\ s.owner[HighestPriorityWaiter(s, o, m)] = o
           /\ s.address[HighestPriorityWaiter(s, o, m)] = m
<1> DEFINE list == s.waiting[o]
           ws == MutexWaiters(s, o, m)
           P == {s.priority[list[i]] : i \in ws}
           best == {i \in ws : \A j \in ws : s.priority[list[i]] <= s.priority[list[j]]}
<1>1. /\ list \in Seq(Threads) /\ s.priority \in [Threads -> Priorities]
      /\ ws \subseteq 1..Len(list) /\ Len(list) \in Nat
  BY DEF Sound, Kernel, MutexWaiters
<1>2. \A i \in ws : list[i] \in Threads /\ s.address[list[i]] = m
  BY <1>1 DEF MutexWaiters
<1>3. \A i \in ws : s.owner[list[i]] = o
  BY <1>1, <1>2 DEF Sound, ToSet
<1>4. HighestPriorityWaiter(s, o, m) = list[First(best)]
  BY DEF HighestPriorityWaiter
<1>5. ws # {}
  OBVIOUS
<1> HIDE DEF list, ws
<1>6. P # {} /\ P \subseteq Nat
  <2>1. \A i \in ws : s.priority[list[i]] \in Nat
    BY <1>1, <1>2, MutexAssumption
  <2> QED BY <1>5, <2>1
<1>7. First(P) \in P /\ \A j \in P : First(P) <= j
  <2> HIDE DEF P
  <2> QED BY <1>6, FirstFacts
<1>8. best # {} /\ best \subseteq Nat
  <2>1. PICK i \in ws : First(P) = s.priority[list[i]]
    BY <1>7
  <2>2. \A j \in ws : s.priority[list[i]] <= s.priority[list[j]]
    BY <1>7, <2>1
  <2>3. i \in best
    BY <2>2
  <2>4. best \subseteq ws /\ ws \subseteq Nat
    BY <1>1
  <2> QED BY <2>3, <2>4, Zenon
<1>9. First(best) \in best
  <2> HIDE DEF best
  <2> QED BY <1>8, FirstFacts
<1>10. First(best) \in ws
  BY <1>9
<1> HIDE DEF best
<1> QED BY <1>2, <1>3, <1>4, <1>10

\* Two waiters make the flag stay.
LEMMA TwoWaiters ==
    ASSUME NEW s, Sound(s), NEW o \in Threads, NEW m,
           NEW t \in Threads, NEW u \in Threads, t # u,
           s.owner[t] = o, s.address[t] = m, s.owner[u] = o, s.address[u] = m
    PROVE  Cardinality(MutexWaiters(s, o, m)) >= 2
<1> DEFINE list == s.waiting[o]
           ws == MutexWaiters(s, o, m)
<1>1. list \in Seq(Threads) /\ ws \subseteq 1..Len(list) /\ Len(list) \in Nat
  BY DEF Sound, Kernel, MutexWaiters
<1>2. t \in ToSet(list) /\ u \in ToSet(list)
  BY DEF Sound
<1>3. PICK i \in DOMAIN list, j \in DOMAIN list : list[i] = t /\ list[j] = u
  BY <1>2 DEF ToSet
<1>4. i \in ws /\ j \in ws /\ i # j
  BY <1>3 DEF MutexWaiters
<1> HIDE DEF list, ws
<1>5. IsFiniteSet(ws)
  <2>1. IsFiniteSet(1..Len(list))
    BY <1>1, FS_Interval
  <2> QED BY <1>1, <2>1, FS_Subset
<1>6. Cardinality(ws) \in Nat /\ Cardinality(ws) # 0
  BY <1>4, <1>5, FS_CardinalityType, FS_EmptySet
<1>7. Cardinality(ws) # 1
  BY <1>4, <1>5, FS_Singleton
<1>8. Cardinality(ws) >= 2
  BY <1>6, <1>7
<1> QED BY <1>8 DEF ws

\* What Unlock does when nobody waits for the mutex ...
Freed(s, r, o, m) ==
    /\ Sound(r)
    /\ \A u \in Threads : s.owner[u] = o => s.address[u] # m
    /\ r.word = [s.word EXCEPT ![m] = Free]
    /\ r.status = s.status /\ r.result = s.result /\ r.owner = s.owner
    /\ r.address = s.address /\ r.condvar = s.condvar
    /\ \A c \in CondVars : ToSet(r.conds[c]) = ToSet(s.conds[c])

\* ... and when it is handed to the waiter new.
Handed(s, r, o, m, new) ==
    /\ Sound(r)
    /\ new \in Threads /\ s.owner[new] = o /\ s.address[new] = m
    /\ \A u \in Threads :
         r.owner[u] = IF u = new THEN None
                      ELSE IF s.owner[u] = o /\ s.address[u] = m THEN new
                      ELSE s.owner[u]
    /\ r.word[m].owner = new
    /\ (\E u \in Threads \ {new} : s.owner[u] = o /\ s.address[u] = m) =>
         r.word[m] = [owner |-> new, waiters |-> TRUE]
    /\ \A x \in Mutexes \ {m} : r.word[x] = s.word[x]
    /\ r.status = [s.status EXCEPT ![new] = "Ready"]
    /\ r.result = [s.result EXCEPT ![new] = "SUCCESS"]
    /\ r.address = s.address /\ r.condvar = s.condvar
    /\ \A c \in CondVars : ToSet(r.conds[c]) = ToSet(s.conds[c])

\* Unlock frees the mutex or hands it to a waiter.
LEMMA UnlockFacts ==
    ASSUME NEW s, Sound(s), NEW o \in Threads, s.owner[o] = None, NEW m \in Mutexes
    PROVE  \/ Freed(s, Unlock(s, o, m), o, m)
           \/ \E new \in Threads : Handed(s, Unlock(s, o, m), o, m, new)
<1> DEFINE ws == MutexWaiters(s, o, m)
           r == Unlock(s, o, m)
<1>0. s \in Kernel /\ None \notin Threads
  BY MutexAssumption DEF Sound
<1>1. CASE ws = {}
  <2>1. r = [s EXCEPT !.word[m] = Free]
    BY <1>1 DEF Unlock
  <2>2. \A u \in Threads : s.owner[u] = o => s.address[u] # m
    <3>1. \A u \in Threads : s.owner[u] = o => u \in ToSet(s.waiting[o])
      BY DEF Sound
    <3> QED BY <1>1, <3>1 DEF MutexWaiters, ToSet
  <2> HIDE DEF r, ws
  <2>3. /\ r \in Kernel /\ r.word = [s.word EXCEPT ![m] = Free]
        /\ r.waiting = s.waiting /\ r.owner = s.owner /\ r.conds = s.conds
        /\ r.status = s.status /\ r.result = s.result
        /\ r.address = s.address /\ r.condvar = s.condvar
    BY <1>0, <2>1 DEF Kernel, Words
  <2>4. Sound(r)
    BY <2>3 DEF Sound
  <2>5. Freed(s, r, o, m)
    BY <2>2, <2>3, <2>4 DEF Freed
  <2> QED BY <2>5 DEF r
<1>2. CASE ws # {}
  <2> DEFINE new == HighestPriorityWaiter(s, o, m)
             a == TransferMutexOwnership(s, m, o, new)
             flag == Cardinality(ws) >= 2
  <2>1. new \in Threads /\ s.owner[new] = o /\ s.address[new] = m
    BY <1>2, HighestPriorityWaiterFacts
  <2>2. new # o
    BY <1>0, <2>1
  <2>3. r = [[a EXCEPT !.status[new] = "Ready"] EXCEPT
                !.result[new] = "SUCCESS",
                !.owner[new] = None,
                !.word[m] = [owner |-> new, waiters |-> flag]]
    BY <1>2 DEF Unlock, Resume
  <2>4. (\E u \in Threads \ {new} : s.owner[u] = o /\ s.address[u] = m) => flag
    <3> HIDE DEF new
    <3> QED BY <2>1, TwoWaiters
  <2>5. flag \in BOOLEAN
    OBVIOUS
  <2> HIDE DEF new, r, ws, flag
  <2>6. /\ Sound(a) /\ Same(s, a)
        /\ \A u \in Threads :
             a.owner[u] = IF u = new THEN None
                          ELSE IF s.owner[u] = o /\ s.address[u] = m THEN new
                          ELSE s.owner[u]
    BY <2>1, <2>2, TransferFacts
  <2> HIDE DEF a
  <2>7. a \in Kernel
    BY <2>6 DEF Sound
  <2>8. [owner |-> new, waiters |-> flag] \in Words
    BY <2>1, <2>5 DEF Words
  <2>9. /\ r \in Kernel
        /\ r.word = [a.word EXCEPT ![m] = [owner |-> new, waiters |-> flag]]
        /\ r.status = [a.status EXCEPT ![new] = "Ready"]
        /\ r.result = [a.result EXCEPT ![new] = "SUCCESS"]
        /\ r.owner = [a.owner EXCEPT ![new] = None]
        /\ r.waiting = a.waiting /\ r.conds = a.conds
        /\ r.address = a.address /\ r.condvar = a.condvar
    BY <2>1, <2>3, <2>7, <2>8 DEF Kernel
  <2>10. r.owner = a.owner
    <3>1. a.owner[new] = None /\ a.owner \in [Threads -> Threads \cup {None}]
      BY <2>1, <2>6, <2>7 DEF Kernel
    <3> QED BY <2>9, <3>1
  <2>11. \A u \in Threads : r.status[u] = "WaitCondVar" => a.status[u] = "WaitCondVar"
    BY <2>7, <2>9 DEF Kernel
  <2>12. Sound(r)
    BY <2>6, <2>9, <2>10, <2>11 DEF Sound
  <2>13. r.word[m] = [owner |-> new, waiters |-> flag] /\ \A x \in Mutexes \ {m} : r.word[x] = a.word[x]
    BY <2>7, <2>9 DEF Kernel
  <2>14. flag => r.word[m] = [owner |-> new, waiters |-> TRUE]
    BY <2>5, <2>13
  <2>15. r.word[m].owner = new
    BY <2>13
  <2>16. /\ \A x \in Mutexes \ {m} : r.word[x] = s.word[x]
         /\ r.status = [s.status EXCEPT ![new] = "Ready"]
         /\ r.result = [s.result EXCEPT ![new] = "SUCCESS"]
         /\ r.address = s.address /\ r.condvar = s.condvar
         /\ \A c \in CondVars : ToSet(r.conds[c]) = ToSet(s.conds[c])
    BY <2>6, <2>9, <2>13 DEF Same
  <2>17. Handed(s, r, o, m, new)
    BY <2>1, <2>4, <2>6, <2>10, <2>12, <2>14, <2>15, <2>16 DEF Handed
  <2> QED BY <2>1, <2>17 DEF r
<1> QED BY <1>1, <1>2

-----------------------------------------------------------------------------
(* The invariant of a kernel state, with the threads at P, in calls about the *)
(* mutexes A, and believing that they hold H                                  *)

ListedIn(s, t) == \E c \in CondVars : t \in ToSet(s.conds[c])

\* CallInv for one thread.
CallOK(s, P, A, H, t) ==
    /\ P[t] # "user" => A[t] \in Mutexes /\ A[t] \notin H[t]
    /\ s.owner[t] # None =>
         /\ P[t] \in {"mutexWait", "condWait"} /\ s.address[t] = A[t]
         /\ ~ListedIn(s, t)
         /\ P[t] = "condWait" => s.result[t] = "TIMEOUT"
    /\ ListedIn(s, t) =>
         /\ P[t] = "condWait" /\ s.address[t] = A[t]
         /\ s.result[t] = "TIMEOUT"
    /\ s.status[t] = "WaitMutex" => s.owner[t] # None
    /\ P[t] = "arbUnlock" => s.word[A[t]].owner = t
    /\ P[t] \in {"condWait", "condReturn"} /\ s.result[t] = "SUCCESS" =>
         s.word[A[t]].owner = t

\* OwnerKnows for one mutex and its owner t.
KnowsOwner(s, P, A, H, m, t) ==
    s.word[m].owner = t =>
      \/ m \in H[t]
      \/ /\ A[t] = m
         /\ \/ P[t] \in {"arbUnlock", "mutexWait", "recheck"}
            \/ P[t] \in {"condWait", "condReturn"} /\ s.result[t] = "SUCCESS"

\* WaitersAreServed for one waiter.
Served(s, t) ==
    s.owner[t] # None => s.word[s.address[t]] = [owner |-> s.owner[t], waiters |-> TRUE]

Good(s, P, A, H) ==
    /\ Sound(s)
    /\ \A t \in Threads : CallOK(s, P, A, H, t)
    /\ \A t \in Threads : \A m \in H[t] : m \in Mutexes /\ s.word[m].owner = t
    /\ \A m \in Mutexes, t \in Threads : KnowsOwner(s, P, A, H, m, t)
    /\ \A t \in Threads : Served(s, t)

Locals ==
    /\ pc \in [Threads -> Pcs]
    /\ addr \in [Threads -> Mutexes \cup {None}]
    /\ holder \in [Threads -> Threads \cup {None}]
    /\ timed \in [Threads -> BOOLEAN]
    /\ held \in [Threads -> SUBSET Mutexes]

\* A mutex word is free or has an owner.
LEMMA WordFacts ==
    ASSUME NEW s, s \in Kernel, NEW m \in Mutexes
    PROVE  /\ s.word[m] \in Words
           /\ s.word[m].owner \in Threads \cup {None}
           /\ s.word[m].waiters \in BOOLEAN
           /\ s.word[m].owner = None <=> s.word[m] = Free
           /\ s.word[m] = [owner |-> s.word[m].owner, waiters |-> s.word[m].waiters]
           /\ s.word[m].waiters => s.word[m].owner \in Threads
<1>1. s.word[m] \in Words
  BY DEF Kernel
<1> DEFINE w == s.word[m]
<1>2. w \in Words
  BY <1>1
<1> HIDE DEF w
<1>3. /\ w.owner \in Threads \cup {None}
      /\ w.waiters \in BOOLEAN
      /\ w.owner = None <=> w = Free
      /\ w = [owner |-> w.owner, waiters |-> w.waiters]
      /\ w.waiters => w.owner \in Threads
  <2>0. None \notin Threads
    BY MutexAssumption
  <2>1. CASE w = Free
    BY <2>0, <2>1 DEF Free
  <2>2. CASE w \in [owner : Threads, waiters : BOOLEAN]
    BY <2>0, <2>2 DEF Free
  <2> QED BY <1>2, <2>1, <2>2 DEF Words
<1> QED BY <1>1, <1>3 DEF w

\* The invariant in these terms.
LEMMA IInvIsGood == IInv <=> Good(k, pc, addr, held) /\ Locals
<1>0. None \notin Threads
  BY MutexAssumption
<1>1. ASSUME TypeOK PROVE ListInv <=> Sound(k)
  <2>1. k.owner \in [Threads -> Threads \cup {None}] /\ \A o \in Threads : k.waiting[o] \in Seq(Threads)
    BY <1>1 DEF TypeOK, Kernel
  <2>2. \A o \in Threads : ToSet(k.waiting[o]) \subseteq Threads
    BY <2>1 DEF ToSet
  <2> QED BY <1>1, <2>2 DEF TypeOK, ListInv, Sound
<1>2. TypeOK <=> k \in Kernel /\ Locals
  BY DEF TypeOK, Locals
<1>3. CallInv <=> \A t \in Threads : CallOK(k, pc, addr, held, t)
  BY DEF CallInv, CallOK, Listed, ListedIn
<1>4. ASSUME TypeOK
      PROVE  HeldIsOwned <=> \A t \in Threads : \A m \in held[t] : m \in Mutexes /\ k.word[m].owner = t
  BY <1>4 DEF HeldIsOwned, TypeOK
<1>5. ASSUME TypeOK
      PROVE  OwnerKnows <=> \A m \in Mutexes, t \in Threads : KnowsOwner(k, pc, addr, held, m, t)
  <2>1. \A m \in Mutexes : k.word[m].owner \in Threads \cup {None}
    BY <1>5, WordFacts DEF TypeOK
  <2> QED BY <1>0, <2>1 DEF OwnerKnows, KnowsOwner
<1>6. ASSUME TypeOK, Sound(k)
      PROVE  WaitersAreServed <=> \A t \in Threads : Served(k, t)
  <2>1. \A t \in Threads : k.owner[t] \in Threads \cup {None}
    BY <1>6 DEF TypeOK, Kernel
  <2>2. \A o \in Threads, t \in Threads : t \in ToSet(k.waiting[o]) <=> k.owner[t] = o
    BY <1>6 DEF Sound
  <2>3. \A o \in Threads : ToSet(k.waiting[o]) \subseteq Threads
    BY <1>6 DEF TypeOK, Kernel, ToSet
  <2> QED BY <1>0, <2>1, <2>2, <2>3 DEF WaitersAreServed, Served
<1>7. ASSUME TypeOK, Sound(k), CallInv
      PROVE  BlockedIsListed
  <2> SUFFICES ASSUME NEW t \in Threads
               PROVE  /\ k.status[t] = "WaitMutex" => k.owner[t] # None
                      /\ k.status[t] = "WaitCondVar" =>
                           k.owner[t] = None /\ Contains(k.conds[k.condvar[t]], t)
    BY DEF BlockedIsListed
  <2>1. k.status[t] = "WaitMutex" => k.owner[t] # None
    BY <1>7 DEF CallInv
  <2>2. ASSUME k.status[t] = "WaitCondVar"
        PROVE  k.owner[t] = None /\ Contains(k.conds[k.condvar[t]], t)
    <3>1. k.condvar[t] \in CondVars /\ t \in ToSet(k.conds[k.condvar[t]])
      BY <1>7, <2>2 DEF Sound
    <3>2. Listed(t)
      BY <3>1 DEF Listed
    <3>3. k.owner[t] = None
      BY <1>7, <3>2 DEF CallInv
    <3>4. k.conds[k.condvar[t]] \in Seq(Threads)
      BY <1>7, <3>1 DEF TypeOK, Kernel
    <3> QED BY <3>1, <3>3, <3>4 DEF Contains, ToSet
  <2> QED BY <2>1, <2>2
<1> QED BY <1>1, <1>2, <1>3, <1>4, <1>5, <1>6, <1>7 DEF IInv, Good, Sound

\* What a thread believes and the call it is in may change on their own.
AtPlaces(P, A, P2, A2, t) ==
    \A u \in Threads : u # t => P2[u] = P[u] /\ A2[u] = A[u]

\* Changes of priorities and of the lists' order preserve the invariant.
LEMMA GoodKeeps ==
    ASSUME NEW s, NEW P, NEW A, NEW H, Good(s, P, A, H), NEW r, Keeps(s, r)
    PROVE  Good(r, P, A, H)
<1> USE DEF Keeps, Same
<1>1. \A t : ListedIn(r, t) <=> ListedIn(s, t)
  BY DEF ListedIn
<1>2. \A t \in Threads : CallOK(r, P, A, H, t)
  BY <1>1 DEF Good, CallOK
<1>3. \A m \in Mutexes, t \in Threads : KnowsOwner(r, P, A, H, m, t)
  BY DEF Good, KnowsOwner
<1>4. \A t \in Threads : Served(r, t)
  BY DEF Good, Served
<1> QED BY <1>2, <1>3, <1>4 DEF Good

\* A thread outside of a call waits for nobody.
LEMMA OutsideFacts ==
    ASSUME NEW s, NEW P, NEW A, NEW H, Good(s, P, A, H), NEW t \in Threads,
           P[t] \notin {"mutexWait", "condWait"}
    PROVE  s.owner[t] = None /\ ~ListedIn(s, t)
BY DEF Good, CallOK

\* Mutex::Release at the level of kernel states.
LEMMA UnlockGood ==
    ASSUME NEW s, NEW P, NEW A, NEW H, Good(s, P, A, H), NEW t \in Threads,
           P[t] = "arbUnlock", NEW m, A[t] = m,
           NEW P2, NEW A2, AtPlaces(P, A, P2, A2, t), P2[t] = "user",
           NEW r, r = Unlock(s, t, m)
    PROVE  /\ Good(r, P2, A2, H)
           /\ r.result[t] = s.result[t] /\ r.word[m].owner # t
<1>0. /\ s \in Kernel /\ None \notin Threads /\ m \in Mutexes /\ m \notin H[t]
      /\ s.word[m].owner = t
  BY MutexAssumption DEF Good, Sound, CallOK
<1>1. s.owner[t] = None /\ ~ListedIn(s, t)
  BY OutsideFacts
<1>2. /\ s.word \in [Mutexes -> Words] /\ s.result \in [Threads -> {"SUCCESS", "TIMEOUT"}]
      /\ s.status \in [Threads -> {"Ready", "WaitMutex", "WaitCondVar"}]
      /\ \A u \in Threads : s.owner[u] \in Threads \cup {None}
  BY <1>0 DEF Kernel
<1>3. \A u \in Threads : \A x \in H[u] : x \in Mutexes /\ s.word[x].owner = u
  BY DEF Good
<1>4. \A u \in Threads : CallOK(s, P, A, H, u)
  BY DEF Good
<1>5. \A x \in Mutexes, u \in Threads : KnowsOwner(s, P, A, H, x, u)
  BY DEF Good
<1>6. \A u \in Threads : Served(s, u)
  BY DEF Good
<1>7. CASE Freed(s, r, t, m)
  <2>1. \A u : ListedIn(r, u) <=> ListedIn(s, u)
    BY <1>7 DEF Freed, ListedIn
  <2>2. /\ r.word[m].owner = None /\ \A x \in Mutexes \ {m} : r.word[x] = s.word[x]
        /\ r.status = s.status /\ r.result = s.result /\ r.owner = s.owner
        /\ r.address = s.address /\ Sound(r)
    BY <1>0, <1>2, <1>7 DEF Freed, Free
  <2>3. \A u \in Threads : CallOK(r, P2, A2, H, u)
    BY <1>0, <1>1, <1>4, <2>1, <2>2 DEF CallOK, AtPlaces
  <2>4. \A u \in Threads : \A x \in H[u] : x \in Mutexes /\ r.word[x].owner = u
    BY <1>0, <1>3, <2>2
  <2>5. \A x \in Mutexes, u \in Threads : KnowsOwner(r, P2, A2, H, x, u)
    BY <1>0, <1>5, <2>2 DEF KnowsOwner, AtPlaces
  <2>6. \A u \in Threads : Served(r, u)
    <3> SUFFICES ASSUME NEW u \in Threads, s.owner[u] # None
                 PROVE  r.word[s.address[u]] = [owner |-> s.owner[u], waiters |-> TRUE]
      BY <2>2 DEF Served
    <3>1. s.word[s.address[u]] = [owner |-> s.owner[u], waiters |-> TRUE]
      BY <1>6 DEF Served
    <3>2. s.address[u] \in Mutexes
      BY <1>4 DEF CallOK
    <3>3. s.address[u] # m
      BY <1>0, <1>7, <3>1 DEF Freed
    <3> QED BY <2>2, <3>1, <3>2, <3>3
  <2> QED BY <1>0, <2>2, <2>3, <2>4, <2>5, <2>6 DEF Good
<1>8. ASSUME NEW new \in Threads, Handed(s, r, t, m, new)
      PROVE  Good(r, P2, A2, H) /\ r.result[t] = s.result[t] /\ r.word[m].owner # t
  <2>0. new # t
    BY <1>0, <1>1, <1>8 DEF Handed
  <2>1. \A u : ListedIn(r, u) <=> ListedIn(s, u)
    BY <1>8 DEF Handed, ListedIn
  <2>2. /\ r.word[m].owner = new /\ \A x \in Mutexes \ {m} : r.word[x] = s.word[x]
        /\ r.address = s.address /\ Sound(r)
        /\ \A u \in Threads : u # new => r.result[u] = s.result[u] /\ r.status[u] = s.status[u]
        /\ r.result[new] = "SUCCESS" /\ r.status[new] = "Ready"
        /\ \A u \in Threads : r.owner[u] = IF u = new THEN None
                              ELSE IF s.owner[u] = t /\ s.address[u] = m THEN new
                              ELSE s.owner[u]
    BY <1>2, <1>8 DEF Handed
  <2>3. /\ s.owner[new] = t /\ s.address[new] = m /\ A[new] = m
        /\ P[new] \in {"mutexWait", "condWait"} /\ ~ListedIn(s, new) /\ m \notin H[new]
    BY <1>0, <1>4, <1>8 DEF Handed, CallOK
  <2>4. ASSUME NEW u \in Threads PROVE CallOK(r, P2, A2, H, u)
    <3>1. CASE u = new
      BY <1>0, <2>0, <2>1, <2>2, <2>3, <3>1 DEF CallOK, AtPlaces
    <3>2. CASE u = t
      BY <1>0, <1>1, <1>4, <2>0, <2>1, <2>2, <3>2 DEF CallOK
    <3>3. CASE u # new /\ u # t
      BY <1>0, <1>4, <2>1, <2>2, <3>3 DEF CallOK, AtPlaces
    <3> QED BY <3>1, <3>2, <3>3
  <2>5. \A u \in Threads : \A x \in H[u] : x \in Mutexes /\ r.word[x].owner = u
    BY <1>0, <1>3, <2>2
  <2>6. ASSUME NEW x \in Mutexes, NEW u \in Threads PROVE KnowsOwner(r, P2, A2, H, x, u)
    BY <1>0, <1>5, <2>0, <2>2, <2>3 DEF KnowsOwner, AtPlaces
  <2>7. \A u \in Threads : Served(r, u)
    <3> SUFFICES ASSUME NEW u \in Threads, r.owner[u] # None
                 PROVE  r.word[s.address[u]] = [owner |-> r.owner[u], waiters |-> TRUE]
      BY <2>2 DEF Served
    <3>1. u # new /\ s.owner[u] # None
      BY <1>0, <2>2
    <3>2. s.word[s.address[u]] = [owner |-> s.owner[u], waiters |-> TRUE]
      BY <1>6, <3>1 DEF Served
    <3>3. s.address[u] \in Mutexes
      BY <1>4, <3>1 DEF CallOK
    <3>4. CASE s.address[u] = m
      <4>1. s.owner[u] = t
        BY <1>0, <3>2, <3>4
      <4>2. r.word[m] = [owner |-> new, waiters |-> TRUE]
        BY <1>8, <3>1, <3>4, <4>1 DEF Handed
      <4> QED BY <2>2, <3>1, <3>4, <4>1, <4>2
    <3>5. CASE s.address[u] # m
      <4>1. r.word[s.address[u]] = s.word[s.address[u]] /\ r.owner[u] = s.owner[u]
        BY <2>2, <3>1, <3>3, <3>5
      <4> QED BY <3>2, <4>1
    <3> QED BY <3>4, <3>5
  <2> QED BY <2>0, <2>2, <2>4, <2>5, <2>6, <2>7 DEF Good
<1>9. Freed(s, r, t, m) \/ \E new \in Threads : Handed(s, r, t, m, new)
  BY <1>0, <1>1, UnlockFacts DEF Good
<1> QED
  <2>1. CASE Freed(s, r, t, m)
    BY <2>1, <1>1, <1>7, <1>0 DEF Freed, Good
  <2>2. CASE \E new \in Threads : Handed(s, r, t, m, new)
    BY <2>2, <1>8
  <2> QED BY <1>9, <2>1, <2>2

\* What WaitProcessWideKeyAtomic writes before it inserts thread t.
Joins(s, a, t, m, c) ==
    /\ a \in Kernel /\ a.condvar[t] = c /\ a.conds = s.conds /\ a.priority = s.priority
    /\ a.condvar = [s.condvar EXCEPT ![t] = c]
    /\ a.address = [s.address EXCEPT ![t] = m]
    /\ a.status = [s.status EXCEPT ![t] = "WaitCondVar"]
    /\ a.word = s.word /\ a.result = s.result /\ a.owner = s.owner /\ a.waiting = s.waiting

\* The three assignments, field by field.
LEMMA JoinsFacts ==
    ASSUME NEW s \in Kernel, NEW t \in Threads, NEW m \in Mutexes, NEW c \in CondVars,
           NEW a, a = [s EXCEPT !.condvar[t] = c, !.address[t] = m,
                                !.status[t] = "WaitCondVar"]
    PROVE  Joins(s, a, t, m, c)
BY DEF Joins, Kernel

\* The list of one condition variable is replaced.
Relists(a, r, c, list) == r = [a EXCEPT !.conds[c] = list]

\* All else is kept.
LEMMA RelistsFacts ==
    ASSUME NEW a \in Kernel, NEW c \in CondVars, NEW list \in Seq(Threads),
           NEW r, Relists(a, r, c, list)
    PROVE  /\ r \in Kernel
           /\ \A d \in CondVars : r.conds[d] = IF d = c THEN list ELSE a.conds[d]
           /\ r.word = a.word /\ r.status = a.status /\ r.result = a.result
           /\ r.nominal = a.nominal /\ r.priority = a.priority
           /\ r.owner = a.owner /\ r.waiting = a.waiting
           /\ r.address = a.address /\ r.condvar = a.condvar
BY DEF Kernel, Relists

\* A thread outside of a call joins the list of a condition variable.
LEMMA CondInsertGood ==
    ASSUME NEW s, NEW P, NEW A, NEW H, Good(s, P, A, H), NEW t \in Threads, P[t] = "user",
           NEW m \in Mutexes, NEW c \in CondVars, m \notin H[t], s.word[m].owner # t,
           s.result[t] = "TIMEOUT",
           NEW P2, NEW A2, AtPlaces(P, A, P2, A2, t), P2[t] = "condWait", A2[t] = m,
           NEW a, Joins(s, a, t, m, c),
           NEW r, r = InsertConditionVariableThread(a, t)
    PROVE  Good(r, P2, A2, H)
<1>0. s \in Kernel /\ None \notin Threads /\ Sound(s)
  BY MutexAssumption DEF Good, Sound
<1>1. s.owner[t] = None /\ ~ListedIn(s, t)
  BY OutsideFacts
<1> DEFINE list == InsertByPriority(s.conds[c], t, s.priority)
<1>2. /\ a \in Kernel /\ a.condvar[t] = c /\ a.conds = s.conds /\ a.priority = s.priority
      /\ a.condvar = [s.condvar EXCEPT ![t] = c]
      /\ a.address = [s.address EXCEPT ![t] = m]
      /\ a.status = [s.status EXCEPT ![t] = "WaitCondVar"]
      /\ a.word = s.word /\ a.result = s.result /\ a.owner = s.owner /\ a.waiting = s.waiting
  BY DEF Joins
<1>4. Relists(a, r, c, list)
  BY <1>2 DEF InsertConditionVariableThread, Relists
<1>5. s.conds[c] \in Seq(Threads) /\ IsInjective(s.conds[c]) /\ t \notin ToSet(s.conds[c])
  BY <1>0, <1>1 DEF Kernel, Sound, ListedIn
<1>6. /\ list \in Seq(Threads) /\ IsInjective(list)
      /\ ToSet(list) = ToSet(s.conds[c]) \cup {t}
  BY <1>5, Inserted
<1> HIDE DEF list
<1>7. /\ r \in Kernel
      /\ \A d \in CondVars : r.conds[d] = IF d = c THEN list ELSE s.conds[d]
      /\ r.condvar = a.condvar /\ r.address = a.address /\ r.status = a.status
      /\ r.word = s.word /\ r.result = s.result /\ r.owner = s.owner /\ r.waiting = s.waiting
  BY <1>2, <1>4, <1>6, RelistsFacts
<1>8. /\ \A d \in CondVars : r.conds[d] = IF d = c THEN list ELSE s.conds[d]
      /\ \A u \in Threads :
           /\ r.condvar[u] = IF u = t THEN c ELSE s.condvar[u]
           /\ r.address[u] = IF u = t THEN m ELSE s.address[u]
           /\ r.status[u] = IF u = t THEN "WaitCondVar" ELSE s.status[u]
  BY <1>0, <1>2, <1>7 DEF Kernel
<1>9. /\ \A d \in CondVars : t \notin ToSet(s.conds[d]) /\ ToSet(s.conds[d]) \subseteq Threads
      /\ \A d \in CondVars : \A u \in ToSet(s.conds[d]) : s.condvar[u] = d
      /\ \A d \in CondVars : IsInjective(s.conds[d])
  <2>1. \A d \in CondVars : s.conds[d] \in Seq(Threads)
    BY <1>0 DEF Kernel
  <2>2. \A d \in CondVars : ToSet(s.conds[d]) \subseteq Threads
    BY <2>1 DEF ToSet
  <2> QED BY <1>0, <1>1, <2>2 DEF Sound, ListedIn
<1>10. \A d \in CondVars : IsInjective(r.conds[d]) /\ \A u \in ToSet(r.conds[d]) : r.condvar[u] = d
  BY <1>6, <1>8, <1>9
<1>11. ASSUME NEW u \in Threads, r.status[u] = "WaitCondVar"
       PROVE  r.condvar[u] \in CondVars /\ u \in ToSet(r.conds[r.condvar[u]])
  <2>1. CASE u = t
    BY <1>6, <1>8, <2>1
  <2>2. CASE u # t
    <3>1. s.condvar[u] \in CondVars /\ u \in ToSet(s.conds[s.condvar[u]])
      BY <1>0, <1>8, <1>11, <2>2 DEF Sound
    <3> QED BY <1>6, <1>8, <2>2, <3>1
  <2> QED BY <2>1, <2>2
<1>12. Sound(r)
  BY <1>0, <1>7, <1>10, <1>11 DEF Sound
<1>13. \A u \in Threads : ListedIn(r, u) <=> u = t \/ ListedIn(s, u)
  BY <1>6, <1>8 DEF ListedIn
<1>14. \A u \in Threads : CallOK(r, P2, A2, H, u)
  <2>1. CallOK(r, P2, A2, H, t)
    BY <1>1, <1>7, <1>8, <1>13 DEF CallOK
  <2>2. \A u \in Threads \ {t} : CallOK(s, P, A, H, u)
    BY DEF Good
  <2>3. \A u \in Threads \ {t} : CallOK(r, P2, A2, H, u)
    BY <1>7, <1>8, <1>13, <2>2 DEF CallOK, AtPlaces
  <2> QED BY <2>1, <2>3
<1>15. \A x \in Mutexes, u \in Threads : KnowsOwner(r, P2, A2, H, x, u)
  <2>1. \A x \in Mutexes, u \in Threads : KnowsOwner(s, P, A, H, x, u)
    BY DEF Good
  <2> QED BY <1>7, <2>1 DEF KnowsOwner, AtPlaces
<1>16. \A u \in Threads : Served(r, u)
  <2>1. \A u \in Threads : Served(s, u)
    BY DEF Good
  <2> QED BY <1>1, <1>7, <1>8, <2>1 DEF Served
<1>17. \A u \in Threads : \A x \in H[u] : x \in Mutexes /\ r.word[x].owner = u
  BY <1>7 DEF Good
<1> QED BY <1>12, <1>14, <1>15, <1>16, <1>17 DEF Good

\* A thread leaves the list of its condition variable; what it needs not to be
\* blocked there is left to the caller.
Delisted(s, r, t) ==
    /\ r \in Kernel
    /\ \A d \in CondVars : /\ IsInjective(r.conds[d])
                           /\ ToSet(r.conds[d]) = ToSet(s.conds[d]) \ {t}
    /\ r.word = s.word /\ r.status = s.status /\ r.result = s.result
    /\ r.nominal = s.nominal /\ r.priority = s.priority
    /\ r.owner = s.owner /\ r.waiting = s.waiting
    /\ r.address = s.address /\ r.condvar = s.condvar

\* It is in no list afterwards, also if it was in none before.
LEMMA RemoveConditionVariableThreadFacts ==
    ASSUME NEW s, Sound(s), NEW t \in Threads
    PROVE  Delisted(s, RemoveConditionVariableThread(s, t), t)
<1> DEFINE c == s.condvar[t]
           r == RemoveConditionVariableThread(s, t)
           list == RemoveThread(s.conds[c], t)
<1>0. s \in Kernel
  BY DEF Sound
<1>1. r = [s EXCEPT !.conds[c] = list]
  BY DEF RemoveConditionVariableThread
<1>2. \A d \in CondVars : s.conds[d] \in Seq(Threads) /\ IsInjective(s.conds[d])
  BY <1>0 DEF Kernel, Sound
<1>3. \A d \in CondVars : t \in ToSet(s.conds[d]) => d = c
  BY DEF Sound
<1> HIDE DEF r
<1>4. CASE c \in CondVars
  <2>1. /\ list \in Seq(Threads) /\ IsInjective(list)
        /\ ToSet(list) = ToSet(s.conds[c]) \ {t}
    <3> HIDE DEF c
    <3> QED BY <1>2, <1>4, Removed
  <2> HIDE DEF list
  <2>2. /\ r \in Kernel /\ r.conds = [s.conds EXCEPT ![c] = list]
        /\ r.word = s.word /\ r.status = s.status /\ r.result = s.result
        /\ r.nominal = s.nominal /\ r.priority = s.priority
        /\ r.owner = s.owner /\ r.waiting = s.waiting
        /\ r.address = s.address /\ r.condvar = s.condvar
    BY <1>0, <1>1, <1>4, <2>1 DEF Kernel
  <2>3. \A d \in CondVars : r.conds[d] = IF d = c THEN list ELSE s.conds[d]
    BY <1>0, <2>2 DEF Kernel
  <2> HIDE DEF c
  <2>4. \A d \in CondVars : IsInjective(r.conds[d]) /\ ToSet(r.conds[d]) = ToSet(s.conds[d]) \ {t}
    BY <1>2, <1>3, <2>1, <2>3
  <2> QED BY <2>2, <2>4 DEF Delisted, r
<1>5. CASE c \notin CondVars
  <2> HIDE DEF list
  <2>1. r = s
    BY <1>0, <1>1, <1>5 DEF Kernel
  <2>2. \A d \in CondVars : ToSet(s.conds[d]) = ToSet(s.conds[d]) \ {t}
    BY <1>3, <1>5
  <2> QED BY <1>0, <1>2, <2>1, <2>2 DEF Delisted, r
<1> QED BY <1>4, <1>5

-----------------------------------------------------------------------------
(* Signalling a condition variable *)

\* Writing the owner or the flag of a mutex word.
LEMMA WordExcept ==
    ASSUME NEW p, NEW q, NEW o, NEW f
    PROVE  /\ [[owner |-> p, waiters |-> q] EXCEPT !.owner = o] = [owner |-> o, waiters |-> q]
           /\ [[owner |-> p, waiters |-> q] EXCEPT !.waiters = f] = [owner |-> p, waiters |-> f]
OBVIOUS

\* Thread t is given the free mutex m.
Acquires(a, r, t, m) ==
    /\ r \in Kernel
    /\ \A x \in Mutexes : r.word[x] = IF x = m THEN [owner |-> t, waiters |-> FALSE] ELSE a.word[x]
    /\ \A u \in Threads : /\ r.status[u] = IF u = t THEN "Ready" ELSE a.status[u]
                          /\ r.result[u] = IF u = t THEN "SUCCESS" ELSE a.result[u]
    /\ r.owner = a.owner /\ r.waiting = a.waiting /\ r.conds = a.conds
    /\ r.address = a.address /\ r.condvar = a.condvar

\* What SignalOne does for a free mutex amounts to this.
LEMMA AcquiresFacts ==
    ASSUME NEW a \in Kernel, NEW t \in Threads, NEW m \in Mutexes,
           a.word[m] = Free, a.owner[t] = None
    PROVE  Acquires(a, [Resume(LeaveOwner([a EXCEPT !.word[m].owner = t], t), t)
                          EXCEPT !.owner[t] = None, !.result[t] = "SUCCESS"], t, m)
<1> DEFINE w == [owner |-> t, waiters |-> FALSE]
           b == [a EXCEPT !.word[m].owner = t]
           r == [Resume(b, t) EXCEPT !.owner[t] = None, !.result[t] = "SUCCESS"]
<1>1. [a.word[m] EXCEPT !.owner = t] = w /\ w \in Words
  <2>1. [Free EXCEPT !.owner = t] = w
    <3> DEFINE q == FALSE
    <3> HIDE DEF q
    <3>1. [[owner |-> None, waiters |-> q] EXCEPT !.owner = t] = [owner |-> t, waiters |-> q]
      BY WordExcept
    <3> QED BY <3>1 DEF Free, q
  <2>2. w \in Words
    BY DEF Words
  <2> QED BY <2>1, <2>2
<1> HIDE DEF w
<1>2. b = [a EXCEPT !.word[m] = w]
  BY <1>1 DEF Kernel
<1> HIDE DEF b
<1>3. /\ b \in Kernel /\ b.owner = a.owner /\ b.waiting = a.waiting /\ b.conds = a.conds
      /\ b.address = a.address /\ b.condvar = a.condvar
      /\ b.status = a.status /\ b.result = a.result
      /\ b.word = [a.word EXCEPT ![m] = w]
  BY <1>1, <1>2 DEF Kernel
<1>4. LeaveOwner(b, t) = b
  BY <1>3 DEF LeaveOwner
<1>5. /\ r \in Kernel /\ r.owner = [b.owner EXCEPT ![t] = None]
      /\ r.waiting = b.waiting /\ r.conds = b.conds
      /\ r.address = b.address /\ r.condvar = b.condvar /\ r.word = b.word
      /\ r.status = [b.status EXCEPT ![t] = "Ready"]
      /\ r.result = [b.result EXCEPT ![t] = "SUCCESS"]
  BY <1>3 DEF Kernel, Resume
<1> HIDE DEF r
<1>6. /\ a.owner \in [Threads -> Threads \cup {None}]
      /\ a.status \in [Threads -> {"Ready", "WaitMutex", "WaitCondVar"}]
      /\ a.result \in [Threads -> {"SUCCESS", "TIMEOUT"}] /\ a.word \in [Mutexes -> Words]
  BY DEF Kernel
<1>7. r.owner = a.owner
  BY <1>3, <1>5, <1>6
<1>8. \A x \in Mutexes : r.word[x] = IF x = m THEN w ELSE a.word[x]
  BY <1>3, <1>5, <1>6
<1>9. \A u \in Threads : /\ r.status[u] = IF u = t THEN "Ready" ELSE a.status[u]
                         /\ r.result[u] = IF u = t THEN "SUCCESS" ELSE a.result[u]
  BY <1>3, <1>5, <1>6
<1>10. Acquires(a, r, t, m)
  BY <1>3, <1>5, <1>7, <1>8, <1>9 DEF Acquires, w
<1> QED BY <1>4, <1>10 DEF r, b

\* Thread t is going to wait for the taken mutex m.
Blocks(a, r, t, m) ==
    /\ r \in Kernel
    /\ \A x \in Mutexes : r.word[x] =
         IF x = m THEN [owner |-> a.word[m].owner, waiters |-> TRUE] ELSE a.word[x]
    /\ \A u \in Threads :
         r.status[u] = IF u = t /\ a.status[t] = "WaitCondVar" THEN "WaitMutex" ELSE a.status[u]
    /\ r.result = a.result
    /\ r.owner = a.owner /\ r.waiting = a.waiting /\ r.conds = a.conds
    /\ r.address = a.address /\ r.condvar = a.condvar

\* What SignalOne does for a taken mutex begins like this.
LEMMA BlocksFacts ==
    ASSUME NEW a \in Kernel, NEW t \in Threads, NEW m \in Mutexes,
           a.word[m] # Free
    PROVE  Blocks(a, [a EXCEPT !.word[m].waiters = TRUE,
                               !.status[t] = IF @ = "WaitCondVar" THEN "WaitMutex" ELSE @],
                  t, m)
<1> DEFINE w == [owner |-> a.word[m].owner, waiters |-> TRUE]
           st == IF a.status[t] = "WaitCondVar" THEN "WaitMutex" ELSE a.status[t]
           b == [a EXCEPT !.word[m].waiters = TRUE,
                          !.status[t] = IF @ = "WaitCondVar" THEN "WaitMutex" ELSE @]
<1>1. /\ a.word[m] = [owner |-> a.word[m].owner, waiters |-> a.word[m].waiters]
      /\ a.word[m].owner \in Threads
  BY WordFacts
<1>2. [a.word[m] EXCEPT !.waiters = TRUE] = w
  <2> DEFINE p == a.word[m].owner
             q == a.word[m].waiters
             f == TRUE
  <2> HIDE DEF p, q, f
  <2>1. [[owner |-> p, waiters |-> q] EXCEPT !.waiters = f] = [owner |-> p, waiters |-> f]
    BY WordExcept
  <2>2. a.word[m] = [owner |-> p, waiters |-> q] /\ w = [owner |-> p, waiters |-> f]
    BY <1>1 DEF p, q, f
  <2>3. [a.word[m] EXCEPT !.waiters = f] = w
    BY <2>1, <2>2
  <2> QED BY <2>3 DEF f
<1>3. w \in Words
  BY <1>1 DEF Words
<1>4. st \in {"Ready", "WaitMutex", "WaitCondVar"}
  BY DEF Kernel
<1>5. b = [a EXCEPT !.word[m] = w, !.status[t] = st]
  <2> HIDE DEF w
  <2> QED BY <1>2 DEF Kernel
<1> HIDE DEF b, w, st
<1>6. /\ b \in Kernel /\ b.owner = a.owner /\ b.waiting = a.waiting /\ b.conds = a.conds
      /\ b.address = a.address /\ b.condvar = a.condvar /\ b.result = a.result
      /\ b.status = [a.status EXCEPT ![t] = st]
      /\ b.word = [a.word EXCEPT ![m] = w]
  BY <1>3, <1>4, <1>5 DEF Kernel
<1>7. /\ a.status \in [Threads -> {"Ready", "WaitMutex", "WaitCondVar"}]
      /\ a.word \in [Mutexes -> Words]
  BY DEF Kernel
<1>8. \A x \in Mutexes : b.word[x] = IF x = m THEN w ELSE a.word[x]
  BY <1>6, <1>7
<1>9. \A u \in Threads :
         b.status[u] = IF u = t /\ a.status[t] = "WaitCondVar" THEN "WaitMutex" ELSE a.status[u]
  BY <1>6, <1>7 DEF st
<1>10. Blocks(a, b, t, m)
  BY <1>6, <1>8, <1>9 DEF Blocks, w
<1> QED BY <1>10 DEF b

\* A signalled thread that finds its mutex taken is about to join the owner's list.
LEMMA BlockedSound ==
    ASSUME NEW s, Sound(s), NEW t \in Threads, NEW a, Delisted(s, a, t),
           NEW m, NEW b, Blocks(a, b, t, m)
    PROVE  Sound(b) /\ b.owner = s.owner
<1>1. /\ \A u \in Threads :
           b.status[u] = IF u = t /\ s.status[t] = "WaitCondVar" THEN "WaitMutex" ELSE s.status[u]
      /\ b.owner = s.owner /\ b.waiting = s.waiting /\ b.condvar = s.condvar /\ b \in Kernel
      /\ \A d \in CondVars : /\ IsInjective(b.conds[d])
                             /\ ToSet(b.conds[d]) = ToSet(s.conds[d]) \ {t}
  BY DEF Blocks, Delisted
<1>2. \A d \in CondVars : IsInjective(b.conds[d]) /\ \A u \in ToSet(b.conds[d]) : b.condvar[u] = d
  BY <1>1 DEF Sound
<1>3. ASSUME NEW u \in Threads, b.status[u] = "WaitCondVar"
      PROVE  b.condvar[u] \in CondVars /\ u \in ToSet(b.conds[b.condvar[u]])
  <2>1. u # t /\ s.status[u] = "WaitCondVar"
    BY <1>1, <1>3
  <2>2. s.condvar[u] \in CondVars /\ u \in ToSet(s.conds[s.condvar[u]])
    BY <2>1 DEF Sound
  <2> QED BY <1>1, <2>1, <2>2
<1>4. \A q \in Threads : /\ IsInjective(b.waiting[q])
                         /\ \A u \in Threads : u \in ToSet(b.waiting[q]) <=> b.owner[u] = q
  BY <1>1 DEF Sound
<1> QED BY <1>1, <1>2, <1>3, <1>4 DEF Sound

\* One thread is signalled: it leaves the list of the condition variable, the
\* others stay, and all else is kept.
LEMMA SignalOneGood ==
    ASSUME NEW s, NEW P, NEW A, NEW H, Good(s, P, A, H), NEW t \in Threads, ListedIn(s, t),
           NEW r, r = SignalOne(s, t)
    PROVE  /\ Good(r, P, A, H)
           /\ \A d \in CondVars : ToSet(r.conds[d]) = ToSet(s.conds[d]) \ {t}
<1> DEFINE m == s.address[t]
           a == RemoveConditionVariableThread(s, t)
<1>0. s \in Kernel /\ None \notin Threads /\ Sound(s)
  BY MutexAssumption DEF Good, Sound
<1>1. /\ P[t] = "condWait" /\ m = A[t] /\ s.result[t] = "TIMEOUT" /\ s.owner[t] = None
      /\ m \in Mutexes /\ m \notin H[t]
  BY DEF Good, CallOK
<1>2. Delisted(s, a, t)
  BY <1>0, RemoveConditionVariableThreadFacts
<1>3. \A u \in Threads : CallOK(s, P, A, H, u)
  BY DEF Good
<1>4. \A x \in Mutexes, u \in Threads : KnowsOwner(s, P, A, H, x, u)
  BY DEF Good
<1>5. \A u \in Threads : Served(s, u)
  BY DEF Good
<1>6. \A u \in Threads : \A x \in H[u] : x \in Mutexes /\ s.word[x].owner = u
  BY DEF Good
<1>7. \A u \in Threads : s.owner[u] # None => s.address[u] \in Mutexes
  BY <1>3 DEF CallOK
<1>8. m = s.address[t]
  OBVIOUS
<1>9. CASE s.word[m] = Free
  <2>1. r = [Resume(LeaveOwner([a EXCEPT !.word[m].owner = t], t), t)
                          EXCEPT !.owner[t] = None, !.result[t] = "SUCCESS"]
    BY <1>9 DEF SignalOne
  <2> HIDE DEF a, m
  <2>2. Acquires(a, r, t, m)
    <3>1. a \in Kernel /\ a.word[m] = Free /\ a.owner[t] = None
      BY <1>1, <1>2, <1>9 DEF Delisted
    <3>2. Acquires(a, [Resume(LeaveOwner([a EXCEPT !.word[m].owner = t], t), t)
                          EXCEPT !.owner[t] = None, !.result[t] = "SUCCESS"], t, m)
      BY <1>1, <3>1, AcquiresFacts
    <3> QED BY <2>1, <3>2, Zenon
  <2>3. /\ \A x \in Mutexes :
             r.word[x] = IF x = m THEN [owner |-> t, waiters |-> FALSE] ELSE s.word[x]
        /\ \A u \in Threads : /\ r.status[u] = IF u = t THEN "Ready" ELSE s.status[u]
                              /\ r.result[u] = IF u = t THEN "SUCCESS" ELSE s.result[u]
        /\ r.owner = s.owner /\ r.waiting = s.waiting
        /\ r.address = s.address /\ r.condvar = s.condvar /\ r \in Kernel
        /\ \A d \in CondVars : /\ IsInjective(r.conds[d])
                               /\ ToSet(r.conds[d]) = ToSet(s.conds[d]) \ {t}
    <3>1. /\ \A x \in Mutexes :
               r.word[x] = IF x = m THEN [owner |-> t, waiters |-> FALSE] ELSE a.word[x]
          /\ \A u \in Threads : /\ r.status[u] = IF u = t THEN "Ready" ELSE a.status[u]
                                /\ r.result[u] = IF u = t THEN "SUCCESS" ELSE a.result[u]
          /\ r.owner = a.owner /\ r.waiting = a.waiting /\ r.conds = a.conds
          /\ r.address = a.address /\ r.condvar = a.condvar /\ r \in Kernel
      BY <2>2, Zenon DEF Acquires
    <3>2. /\ a.word = s.word /\ a.status = s.status /\ a.result = s.result
          /\ a.owner = s.owner /\ a.waiting = s.waiting
          /\ a.address = s.address /\ a.condvar = s.condvar
          /\ \A d \in CondVars : /\ IsInjective(a.conds[d])
                                 /\ ToSet(a.conds[d]) = ToSet(s.conds[d]) \ {t}
      BY <1>2, Zenon DEF Delisted
    <3>3. \A d \in CondVars : /\ IsInjective(r.conds[d])
                             /\ ToSet(r.conds[d]) = ToSet(s.conds[d]) \ {t}
      BY <3>1, <3>2
    <3>4. \A u \in Threads : /\ r.status[u] = IF u = t THEN "Ready" ELSE s.status[u]
                            /\ r.result[u] = IF u = t THEN "SUCCESS" ELSE s.result[u]
      BY <3>1, <3>2
    <3>5. \A x \in Mutexes :
            r.word[x] = IF x = m THEN [owner |-> t, waiters |-> FALSE] ELSE s.word[x]
      BY <3>1, <3>2
    <3>6. /\ r.owner = s.owner /\ r.waiting = s.waiting
          /\ r.address = s.address /\ r.condvar = s.condvar /\ r \in Kernel
      BY <3>1, <3>2
    <3> QED BY <3>3, <3>4, <3>5, <3>6
  <2>4. Sound(r)
    <3>1. \A d \in CondVars : IsInjective(r.conds[d]) /\ \A u \in ToSet(r.conds[d]) : r.condvar[u] = d
      BY <1>0, <2>3 DEF Sound
    <3>2. ASSUME NEW u \in Threads, r.status[u] = "WaitCondVar"
          PROVE  r.condvar[u] \in CondVars /\ u \in ToSet(r.conds[r.condvar[u]])
      <4>1. u # t /\ s.status[u] = "WaitCondVar"
        BY <2>3, <3>2
      <4>2. s.condvar[u] \in CondVars /\ u \in ToSet(s.conds[s.condvar[u]])
        BY <1>0, <4>1 DEF Sound
      <4> QED BY <2>3, <4>1, <4>2
    <3>3. \A q \in Threads : /\ IsInjective(r.waiting[q])
                            /\ \A u \in Threads : u \in ToSet(r.waiting[q]) <=> r.owner[u] = q
      BY <1>0, <2>3 DEF Sound
    <3> QED BY <2>3, <3>1, <3>2, <3>3 DEF Sound
  <2>5. \A u : ListedIn(r, u) <=> u # t /\ ListedIn(s, u)
    BY <2>3 DEF ListedIn
  <2>6. s.word[m].owner = None
    BY <1>9 DEF Free
  <2>7. ASSUME NEW u \in Threads PROVE CallOK(r, P, A, H, u)
    <3>1. CASE u = t
      BY <1>1, <1>3, <2>3, <2>5, <3>1 DEF CallOK
    <3>2. CASE u # t
      <4>1. CallOK(s, P, A, H, u)
        BY <1>3
      <4>2. r.owner[u] = s.owner[u] /\ r.status[u] = s.status[u] /\ r.result[u] = s.result[u]
        BY <2>3, <3>2
      <4>3. r.address[u] = s.address[u] /\ (ListedIn(r, u) <=> ListedIn(s, u))
        BY <2>3, <2>5, <3>2
      <4>4. A[u] \in Mutexes /\ s.word[A[u]].owner = u => r.word[A[u]].owner = u
        BY <1>0, <2>3, <2>6
      <4> QED BY <4>1, <4>2, <4>3, <4>4 DEF CallOK
    <3> QED BY <3>1, <3>2
  <2>8. \A x \in Mutexes, u \in Threads : KnowsOwner(r, P, A, H, x, u)
    <3> SUFFICES ASSUME NEW x \in Mutexes, NEW u \in Threads, r.word[x].owner = u
                 PROVE  KnowsOwner(r, P, A, H, x, u)
      BY DEF KnowsOwner
    <3>1. CASE x = m
      BY <1>1, <2>3, <3>1 DEF KnowsOwner
    <3>2. CASE x # m
      <4>1. s.word[x].owner = u
        BY <2>3, <3>2
      <4>2. u # t => r.result[u] = s.result[u]
        BY <2>3
      <4>3. u = t => x \in H[t]
        BY <1>1, <1>4, <3>2, <4>1 DEF KnowsOwner
      <4> QED BY <1>4, <4>1, <4>2, <4>3 DEF KnowsOwner
    <3> QED BY <3>1, <3>2
  <2>9. \A u \in Threads : Served(r, u)
    <3> SUFFICES ASSUME NEW u \in Threads, s.owner[u] # None
                 PROVE  r.word[s.address[u]] = [owner |-> s.owner[u], waiters |-> TRUE]
      BY <2>3 DEF Served
    <3>1. s.word[s.address[u]] = [owner |-> s.owner[u], waiters |-> TRUE]
      BY <1>5 DEF Served
    <3>2. s.address[u] # m
      BY <2>6, <3>1
    <3> QED BY <1>7, <2>3, <3>1, <3>2
  <2>10. \A u \in Threads : \A x \in H[u] : x \in Mutexes /\ r.word[x].owner = u
    BY <1>0, <1>6, <2>3, <2>6
  <2> QED BY <2>3, <2>4, <2>7, <2>8, <2>9, <2>10 DEF Good
<1>10. CASE s.word[m] # Free
  <2> DEFINE b == [a EXCEPT !.word[m].waiters = TRUE,
                            !.status[t] = IF @ = "WaitCondVar" THEN "WaitMutex" ELSE @]
             o == s.word[m].owner
  <2>1. r = AddMutexWaiter(b, o, t)
    BY <1>10 DEF SignalOne
  <2>2. Blocks(a, b, t, m)
    <3> HIDE DEF a, m
    <3> QED BY <1>1, <1>2, <1>10, BlocksFacts DEF Delisted
  <2>3. o \in Threads
    <3>1. o \in Threads \cup {None} /\ (o = None <=> s.word[m] = Free)
      BY <1>0, <1>1, WordFacts
    <3> QED BY <1>10, <3>1
  <2> HIDE DEF a, m, b
  <2>4. /\ \A x \in Mutexes :
             b.word[x] = IF x = m THEN [owner |-> o, waiters |-> TRUE] ELSE s.word[x]
        /\ \A u \in Threads :
             b.status[u] = IF u = t /\ s.status[t] = "WaitCondVar" THEN "WaitMutex" ELSE s.status[u]
        /\ b.owner = s.owner /\ b.waiting = s.waiting /\ b.result = s.result
        /\ b.address = s.address /\ b.condvar = s.condvar /\ b \in Kernel
        /\ \A d \in CondVars : /\ IsInjective(b.conds[d])
                               /\ ToSet(b.conds[d]) = ToSet(s.conds[d]) \ {t}
    BY <1>2, <2>2 DEF Blocks, Delisted
  <2> HIDE DEF o
  <2>5. Sound(b)
    BY <1>0, <1>2, <2>2, BlockedSound
  <2>6. Moves(b, r, t, o)
    BY <1>1, <2>1, <2>3, <2>4, <2>5, AddMutexWaiterFacts
  <2>7. /\ \A x \in Mutexes :
             r.word[x] = IF x = m THEN [owner |-> o, waiters |-> TRUE] ELSE s.word[x]
        /\ \A u \in Threads :
             r.status[u] = IF u = t /\ s.status[t] = "WaitCondVar" THEN "WaitMutex" ELSE s.status[u]
        /\ \A u \in Threads : r.owner[u] = IF u = t THEN o ELSE s.owner[u]
        /\ r.result = s.result /\ r.address = s.address /\ Sound(r)
        /\ \A d \in CondVars : ToSet(r.conds[d]) = ToSet(s.conds[d]) \ {t}
    <3>1. /\ r.word = b.word /\ r.status = b.status /\ r.result = b.result
          /\ r.address = b.address /\ Sound(r)
          /\ \A d \in CondVars : ToSet(r.conds[d]) = ToSet(b.conds[d])
          /\ \A u \in Threads : r.owner[u] = IF u = t THEN o ELSE b.owner[u]
      BY <2>6, Zenon DEF Moves, Same
    <3> QED BY <2>4, <3>1
  <2>8. \A u : ListedIn(r, u) <=> u # t /\ ListedIn(s, u)
    BY <2>7 DEF ListedIn
  <2>9. \A x \in Mutexes : r.word[x].owner = s.word[x].owner
    BY <2>7 DEF o
  <2>10. ASSUME NEW u \in Threads PROVE CallOK(r, P, A, H, u)
    <3>1. CASE u = t
      BY <1>0, <1>1, <1>3, <2>3, <2>7, <2>8, <2>9, <3>1 DEF CallOK
    <3>2. CASE u # t
      <4>1. CallOK(s, P, A, H, u)
        BY <1>3
      <4>2. r.owner[u] = s.owner[u] /\ r.status[u] = s.status[u] /\ r.result[u] = s.result[u]
        BY <2>7, <3>2
      <4>3. r.address[u] = s.address[u] /\ (ListedIn(r, u) <=> ListedIn(s, u))
        BY <2>7, <2>8, <3>2
      <4>4. A[u] \in Mutexes => r.word[A[u]].owner = s.word[A[u]].owner
        BY <2>9
      <4> QED BY <4>1, <4>2, <4>3, <4>4 DEF CallOK
    <3> QED BY <3>1, <3>2
  <2>11. \A x \in Mutexes, u \in Threads : KnowsOwner(r, P, A, H, x, u)
    BY <1>4, <2>7, <2>9 DEF KnowsOwner
  <2>12. \A u \in Threads : Served(r, u)
    <3> SUFFICES ASSUME NEW u \in Threads, r.owner[u] # None
                 PROVE  r.word[s.address[u]] = [owner |-> r.owner[u], waiters |-> TRUE]
      BY <2>7 DEF Served
    <3>1. CASE u = t
      BY <1>1, <1>8, <2>7, <3>1
    <3>2. CASE u # t
      <4>1. s.word[s.address[u]] = [owner |-> s.owner[u], waiters |-> TRUE] /\ s.owner[u] = r.owner[u]
        BY <1>5, <2>7, <3>2 DEF Served
      <4>2. s.address[u] \in Mutexes
        BY <1>7, <4>1
      <4>3. s.address[u] = m => o = s.owner[u]
        BY <4>1 DEF o
      <4>4. CASE s.address[u] = m
        <5>1. r.word[m] = [owner |-> o, waiters |-> TRUE]
          BY <1>1, <2>7
        <5> QED BY <4>1, <4>3, <4>4, <5>1
      <4>5. CASE s.address[u] # m
        <5>1. r.word[s.address[u]] = s.word[s.address[u]]
          BY <2>7, <4>2, <4>5
        <5> QED BY <4>1, <5>1
      <4> QED BY <4>4, <4>5
    <3> QED BY <3>1, <3>2
  <2>13. \A u \in Threads : \A x \in H[u] : x \in Mutexes /\ r.word[x].owner = u
    BY <1>6, <2>9
  <2> QED BY <2>7, <2>10, <2>11, <2>12, <2>13 DEF Good
<1> QED BY <1>9, <1>10

\* The loop of SignalProcessWideKey, by recursion over its rounds.
LEMMA SignalRoundsFacts ==
    ASSUME NEW s, NEW list, Len(list) \in Nat
    PROVE  \A n \in 0..Len(list) :
             SignalRounds(s, list)[n] =
               IF n = 0 THEN s ELSE SignalOne(SignalRounds(s, list)[n - 1], list[n])
<1> DEFINE N == Len(list)
           Step(f, n) == IF n = 0 THEN s ELSE SignalOne(f[n - 1], list[n])
           T == {j \in 0..N : ~ \E f : f = [n \in 0..j |-> Step(f, n)]}
           after == SignalRounds(s, list)
<1>0. N \in Nat
  OBVIOUS
<1>00. after = CHOOSE f : f = [n \in 0..N |-> Step(f, n)]
  BY DEF SignalRounds
<1>01. \A f, g, n : (n # 0 => f[n - 1] = g[n - 1]) => Step(f, n) = Step(g, n)
  OBVIOUS
<1>1. ASSUME T # {} PROVE FALSE
  <2> HIDE DEF N, Step
  <2>1. T \subseteq Nat
    BY <1>0
  <2> DEFINE j == First(T)
  <2>2. j \in T /\ \A q \in T : j <= q
    <3> HIDE DEF T
    <3> QED BY <1>1, <2>1, FirstFacts
  <2> HIDE DEF j
  <2>3. j \in 0..N /\ j \in Nat /\ ~ \E f : f = [n \in 0..j |-> Step(f, n)]
    BY <1>0, <2>2
  <2>4. CASE j = 0
    <3> DEFINE f == [n \in 0..j |-> Step(0, 0)]
    <3>1. ASSUME NEW n \in 0..j PROVE f[n] = Step(f, n)
      <4>1. n = 0 /\ f[n] = Step(0, 0)
        BY <2>4
      <4> HIDE DEF f
      <4>2. Step(0, n) = Step(f, n)
        BY <1>01, <4>1
      <4> QED BY <4>1, <4>2
    <3>2. f = [n \in 0..j |-> f[n]]
      OBVIOUS
    <3> HIDE DEF f
    <3>3. f = [n \in 0..j |-> Step(f, n)]
      BY <3>1, <3>2
    <3> QED BY <2>3, <3>3
  <2>5. CASE j # 0
    <3>1. j - 1 \in 0..N /\ j - 1 \notin T
      BY <1>0, <2>2, <2>3, <2>5
    <3>2. PICK g : g = [n \in 0..(j - 1) |-> Step(g, n)]
      BY <3>1
    <3> DEFINE f == [n \in 0..j |-> IF n < j THEN g[n] ELSE Step(g, j)]
    <3>3. ASSUME NEW n \in 0..j PROVE f[n] = Step(f, n)
      <4>1. n # 0 => f[n - 1] = g[n - 1]
        BY <2>3, <3>3
      <4>2. Step(f, n) = Step(g, n)
        <5> HIDE DEF f
        <5> QED BY <1>01, <4>1
      <4>3. CASE n < j
        <5>1. n \in 0..(j - 1)
          BY <2>3, <4>3
        <5>2. g[n] = Step(g, n)
          BY <3>2, <5>1
        <5>3. f[n] = g[n]
          BY <4>3
        <5> QED BY <4>2, <5>2, <5>3
      <4>4. CASE ~(n < j)
        <5>1. n = j
          BY <2>3, <4>4
        <5> QED BY <4>2, <5>1
      <4> QED BY <4>3, <4>4
    <3>4. f = [n \in 0..j |-> f[n]]
      OBVIOUS
    <3> HIDE DEF f
    <3>5. f = [n \in 0..j |-> Step(f, n)]
      BY <3>3, <3>4
    <3> QED BY <2>3, <3>5
  <2> QED BY <2>4, <2>5
<1> HIDE DEF N, Step, after
<1>2. \E f : f = [n \in 0..N |-> Step(f, n)]
  BY <1>0, <1>1
<1>3. after = [n \in 0..N |-> Step(after, n)]
  BY <1>00, <1>2, Zenon
<1>4. \A n \in 0..N : after[n] = Step(after, n)
  BY <1>3, Zenon
<1> QED BY <1>4 DEF N, Step, after

\* Every round leaves a good state, in which the rest of the list is listed.
LEMMA SignalRoundsGood ==
    ASSUME NEW s, NEW P, NEW A, NEW H, Good(s, P, A, H), NEW c \in CondVars,
           NEW list, list = s.conds[c], NEW last \in 0..Len(list)
    PROVE  Good(SignalRounds(s, list)[last], P, A, H)
<1> DEFINE after == SignalRounds(s, list)
           N == Len(list)
           Ok(n) == /\ Good(after[n], P, A, H)
                    /\ \A i \in (n + 1)..N : list[i] \in ToSet(after[n].conds[c])
           T == {j \in 0..N : ~Ok(j)}
<1>0. list \in Seq(Threads) /\ IsInjective(list) /\ N \in Nat
  BY DEF Good, Sound, Kernel
<1>1. \A n \in 0..N : after[n] = IF n = 0 THEN s ELSE SignalOne(after[n - 1], list[n])
  BY <1>0, SignalRoundsFacts
<1> HIDE DEF after
<1>2. ASSUME T # {} PROVE FALSE
  <2>1. T \subseteq Nat
    BY <1>0
  <2> DEFINE j == First(T)
  <2>2. j \in T /\ \A q \in T : j <= q
    <3> HIDE DEF T
    <3> QED BY <1>2, <2>1, FirstFacts
  <2> HIDE DEF j
  <2>3. j \in 0..N /\ ~Ok(j)
    BY <2>2
  <2>4. CASE j = 0
    <3>1. after[j] = s
      BY <1>1, <2>3, <2>4
    <3>2. \A i \in 1..N : list[i] \in ToSet(s.conds[c])
      BY <1>0 DEF ToSet
    <3> QED BY <2>3, <2>4, <3>1, <3>2
  <2>5. CASE j # 0
    <3>1. j - 1 \in 0..N /\ j - 1 \notin T /\ j \in 1..N
      BY <1>0, <2>2, <2>3, <2>5
    <3> DEFINE a == after[j - 1]
               t == list[j]
    <3>2. /\ Good(a, P, A, H)
          /\ \A i \in j..N : list[i] \in ToSet(a.conds[c])
      BY <1>0, <3>1
    <3>3. after[j] = SignalOne(a, t)
      BY <1>1, <2>3, <2>5
    <3>4. t \in Threads /\ t \in ToSet(a.conds[c])
      BY <1>0, <3>1, <3>2
    <3>5. ListedIn(a, t)
      BY <3>4 DEF ListedIn
    <3> HIDE DEF a
    <3>6. \A i \in (j + 1)..N : list[i] # t
      BY <1>0, <3>1 DEF IsInjective
    <3> HIDE DEF t
    <3>7. /\ Good(after[j], P, A, H)
          /\ \A d \in CondVars : ToSet(after[j].conds[d]) = ToSet(a.conds[d]) \ {t}
      BY <3>2, <3>3, <3>4, <3>5, SignalOneGood
    <3>8. \A i \in (j + 1)..N : list[i] \in ToSet(after[j].conds[c])
      <4>1. \A i \in (j + 1)..N : i \in j..N
        BY <1>0, <3>1
      <4> QED BY <3>2, <3>6, <3>7, <4>1
    <3> QED BY <2>3, <3>7, <3>8
  <2> QED BY <2>4, <2>5
<1> HIDE DEF T
<1>3. last \notin T
  BY <1>2
<1>4. Ok(last)
  BY <1>3 DEF T
<1> QED BY <1>4 DEF after

-----------------------------------------------------------------------------
(* The actions *)

\* r has the lists of s, and no thread more is blocked on a condition variable.
SameLists(s, r) ==
    /\ r \in Kernel
    /\ r.owner = s.owner /\ r.waiting = s.waiting /\ r.conds = s.conds
    /\ r.condvar = s.condvar
    /\ \A u \in Threads : r.status[u] = "WaitCondVar" => s.status[u] = "WaitCondVar"

\* Then the lists still agree.
LEMMA SameListsFacts ==
    ASSUME NEW s, Sound(s), NEW r, SameLists(s, r)
    PROVE  Sound(r) /\ \A u : ListedIn(r, u) <=> ListedIn(s, u)
<1>1. Sound(r)
  BY DEF Sound, SameLists
<1>2. \A u : ListedIn(r, u) <=> ListedIn(s, u)
  BY DEF ListedIn, SameLists
<1> QED BY <1>1, <1>2

\* The word of one mutex is written.
Rewrites(s, r, m, w) ==
    /\ SameLists(s, r)
    /\ \A x \in Mutexes : r.word[x] = IF x = m THEN w ELSE s.word[x]
    /\ r.status = s.status /\ r.result = s.result /\ r.address = s.address

\* All else is kept.
LEMMA RewritesFacts ==
    ASSUME NEW s \in Kernel, NEW m \in Mutexes, NEW w \in Words
    PROVE  Rewrites(s, [s EXCEPT !.word[m] = w], m, w)
<1> DEFINE r == [s EXCEPT !.word[m] = w]
<1>1. /\ r \in Kernel
      /\ r.owner = s.owner /\ r.waiting = s.waiting /\ r.conds = s.conds
      /\ r.condvar = s.condvar
      /\ r.status = s.status /\ r.result = s.result /\ r.address = s.address
      /\ \A x \in Mutexes : r.word[x] = IF x = m THEN w ELSE s.word[x]
  BY DEF Kernel
<1> HIDE DEF r
<1>2. Rewrites(s, r, m, w)
  BY <1>1 DEF Rewrites, SameLists
<1> QED BY <1>2 DEF r

\* The result of one thread is written.
Reports(s, r, t, x) ==
    /\ SameLists(s, r)
    /\ r.word = s.word /\ r.status = s.status /\ r.address = s.address
    /\ \A u \in Threads : r.result[u] = IF u = t THEN x ELSE s.result[u]

\* All else is kept.
LEMMA ReportsFacts ==
    ASSUME NEW s \in Kernel, NEW t \in Threads, NEW x \in {"SUCCESS", "TIMEOUT"}
    PROVE  Reports(s, [s EXCEPT !.result[t] = x], t, x)
<1> DEFINE r == [s EXCEPT !.result[t] = x]
<1>1. /\ r \in Kernel
      /\ r.owner = s.owner /\ r.waiting = s.waiting /\ r.conds = s.conds
      /\ r.condvar = s.condvar
      /\ r.word = s.word /\ r.status = s.status /\ r.address = s.address
      /\ \A u \in Threads : r.result[u] = IF u = t THEN x ELSE s.result[u]
  BY DEF Kernel
<1> HIDE DEF r
<1>2. Reports(s, r, t, x)
  BY <1>1 DEF Reports, SameLists
<1> QED BY <1>2 DEF r

\* Nobody waits for a free mutex, and nobody else believes it holds it.
LEMMA GuestLockStep ==
    ASSUME Good(k, pc, addr, held), Locals, NEW t \in Threads, NEW m \in Mutexes, GuestLock(t, m)
    PROVE  Good(k', pc', addr', held') /\ Locals'
<1> DEFINE w == [owner |-> t, waiters |-> FALSE]
<1>0. k \in Kernel /\ None \notin Threads /\ Sound(k)
  BY MutexAssumption DEF Good, Sound
<1>1. w \in Words /\ k.word[m].owner = None
  BY DEF Words, GuestLock, Free
<1>2. k' = [k EXCEPT !.word[m] = w]
  <2>1. [k.word[m] EXCEPT !.owner = t] = w
    <3> DEFINE q == FALSE
    <3> HIDE DEF q
    <3>1. [[owner |-> None, waiters |-> q] EXCEPT !.owner = t] = [owner |-> t, waiters |-> q]
      BY WordExcept
    <3>2. k.word[m] = [owner |-> None, waiters |-> q]
      BY DEF GuestLock, Free, q
    <3> QED BY <3>1, <3>2 DEF q
  <2> HIDE DEF w
  <2> QED BY <1>0, <2>1 DEF GuestLock, Kernel
<1> HIDE DEF w
<1>3. Rewrites(k, k', m, w)
  <2>1. Rewrites(k, [k EXCEPT !.word[m] = w], m, w)
    BY <1>0, <1>1, RewritesFacts
  <2> QED BY <1>2, <2>1, Zenon
<1>4. Sound(k') /\ \A u : ListedIn(k', u) <=> ListedIn(k, u)
  BY <1>0, <1>3, SameListsFacts DEF Rewrites
<1>5. /\ \A x \in Mutexes : k'.word[x] = IF x = m THEN w ELSE k.word[x]
      /\ k'.status = k.status /\ k'.result = k.result /\ k'.address = k.address
      /\ k'.owner = k.owner
  BY <1>3 DEF Rewrites, SameLists
<1>6. /\ pc[t] = "user" /\ pc' = pc /\ addr' = addr /\ holder' = holder /\ timed' = timed
      /\ held' = [held EXCEPT ![t] = @ \cup {m}]
  BY DEF GuestLock, At
<1>7. Locals'
  BY <1>6 DEF Locals
<1>8. \A u \in Threads : held'[u] = IF u = t THEN held[t] \cup {m} ELSE held[u]
  BY <1>6 DEF Locals
<1>9. \A u \in Threads : CallOK(k, pc, addr, held, u)
  BY DEF Good
<1>10. \A u \in Threads : \A x \in held[u] : x \in Mutexes /\ k.word[x].owner = u
  BY DEF Good
<1>11. w.owner = t
  BY DEF w
<1>12. ASSUME NEW u \in Threads PROVE CallOK(k', pc', addr', held', u)
  BY <1>0, <1>1, <1>4, <1>5, <1>6, <1>8, <1>9 DEF CallOK
<1>13. \A u \in Threads : \A x \in held'[u] : x \in Mutexes /\ k'.word[x].owner = u
  BY <1>0, <1>1, <1>5, <1>8, <1>10, <1>11
<1>14. \A x \in Mutexes, u \in Threads : KnowsOwner(k', pc', addr', held', x, u)
  <2>1. \A x \in Mutexes, u \in Threads : KnowsOwner(k, pc, addr, held, x, u)
    BY DEF Good
  <2> QED BY <1>5, <1>6, <1>8, <1>11, <2>1 DEF KnowsOwner
<1>15. ASSUME NEW u \in Threads PROVE Served(k', u)
  <2>1. k.owner[u] # None => /\ k.word[k.address[u]] = [owner |-> k.owner[u], waiters |-> TRUE]
                             /\ k.address[u] \in Mutexes
    BY <1>9 DEF Good, Served, CallOK
  <2>2. k.owner[u] # None => k.address[u] # m
    BY <1>1, <2>1
  <2> QED BY <1>5, <2>1, <2>2 DEF Served
<1> QED BY <1>4, <1>7, <1>12, <1>13, <1>14, <1>15 DEF Good

\* Setting the flag is harmless to owner and waiters.
LEMMA GuestLockContendedStep ==
    ASSUME Good(k, pc, addr, held), Locals, NEW t \in Threads, NEW m \in Mutexes,
           GuestLockContended(t, m)
    PROVE  Good(k', pc', addr', held') /\ Locals'
<1> DEFINE o == k.word[m].owner
           w == [owner |-> o, waiters |-> TRUE]
<1>0. k \in Kernel /\ None \notin Threads /\ Sound(k)
  BY MutexAssumption DEF Good, Sound
<1>1. o \in Threads /\ k.word[m] = [owner |-> o, waiters |-> k.word[m].waiters]
  BY <1>0, WordFacts DEF GuestLockContended
<1>2. w \in Words
  BY <1>1 DEF Words
<1>3. k' = [k EXCEPT !.word[m] = w]
  <2>1. [k.word[m] EXCEPT !.waiters = TRUE] = w
    <3> DEFINE q == k.word[m].waiters
               f == TRUE
    <3> HIDE DEF q, f, o
    <3>1. [[owner |-> o, waiters |-> q] EXCEPT !.waiters = f] = [owner |-> o, waiters |-> f]
      BY WordExcept
    <3>2. k.word[m] = [owner |-> o, waiters |-> q]
      BY <1>1 DEF q
    <3>3. [k.word[m] EXCEPT !.waiters = f] = [owner |-> o, waiters |-> f]
      BY <3>1, <3>2
    <3> QED BY <3>3 DEF f
  <2> HIDE DEF w
  <2> QED BY <1>0, <2>1 DEF GuestLockContended, Kernel
<1>4. w.owner = o
  OBVIOUS
<1> HIDE DEF w
<1>5. Rewrites(k, k', m, w)
  <2>1. Rewrites(k, [k EXCEPT !.word[m] = w], m, w)
    BY <1>0, <1>2, RewritesFacts
  <2> QED BY <1>3, <2>1, Zenon
<1>6. Sound(k') /\ \A u : ListedIn(k', u) <=> ListedIn(k, u)
  BY <1>0, <1>5, SameListsFacts DEF Rewrites
<1>7. /\ \A x \in Mutexes : k'.word[x].owner = k.word[x].owner
      /\ \A x \in Mutexes : k'.word[x] = IF x = m THEN w ELSE k.word[x]
      /\ k'.status = k.status /\ k'.result = k.result /\ k'.address = k.address
      /\ k'.owner = k.owner
  BY <1>4, <1>5 DEF Rewrites, SameLists
<1>8. /\ pc[t] = "user" /\ timed' = timed /\ held' = held /\ m \notin held[t]
      /\ holder' = [holder EXCEPT ![t] = o]
      /\ pc' = [pc EXCEPT ![t] = "arbLock"] /\ addr' = [addr EXCEPT ![t] = m]
  BY DEF GuestLockContended, At, Goto
<1>9. Locals'
  <2> HIDE DEF o
  <2> QED BY <1>1, <1>8 DEF Locals, Pcs
<1>10. \A u \in Threads : /\ pc'[u] = IF u = t THEN "arbLock" ELSE pc[u]
                          /\ addr'[u] = IF u = t THEN m ELSE addr[u]
  BY <1>8 DEF Locals
<1>11. \A u \in Threads : CallOK(k, pc, addr, held, u)
  BY DEF Good
<1>12. ASSUME NEW u \in Threads PROVE CallOK(k', pc', addr', held', u)
  <2>1. CASE u = t
    <3>1. k.owner[t] = None /\ ~ListedIn(k, t) /\ k.status[t] # "WaitMutex"
      BY <1>8, <1>11 DEF CallOK
    <3> QED BY <1>6, <1>7, <1>8, <1>10, <2>1, <3>1 DEF CallOK
  <2>2. CASE u # t
    BY <1>6, <1>7, <1>8, <1>10, <1>11, <2>2 DEF CallOK
  <2> QED BY <2>1, <2>2
<1>13. \A u \in Threads : \A x \in held'[u] : x \in Mutexes /\ k'.word[x].owner = u
  BY <1>7, <1>8 DEF Good
<1>14. \A x \in Mutexes, u \in Threads : KnowsOwner(k', pc', addr', held', x, u)
  <2>1. \A x \in Mutexes, u \in Threads : KnowsOwner(k, pc, addr, held, x, u)
    BY DEF Good
  <2> QED BY <1>7, <1>8, <1>10, <2>1 DEF KnowsOwner
<1>15. ASSUME NEW u \in Threads PROVE Served(k', u)
  <2>1. k.owner[u] # None => /\ k.word[k.address[u]] = [owner |-> k.owner[u], waiters |-> TRUE]
                             /\ k.address[u] \in Mutexes
    BY <1>11 DEF Good, Served, CallOK
  <2>2. ASSUME k.owner[u] # None, k.address[u] = m PROVE k.word[m] = w
    <3>1. k.word[m] = [owner |-> k.owner[u], waiters |-> TRUE]
      BY <2>1, <2>2
    <3>2. o = k.owner[u]
      BY <3>1
    <3> HIDE DEF o
    <3> QED BY <3>1, <3>2 DEF w
  <2> QED BY <1>7, <2>1, <2>2 DEF Served
<1> QED BY <1>6, <1>9, <1>12, <1>13, <1>14, <1>15 DEF Good

\* The word is compared under the lock, so that a waiter joins the owner's list
\* with the word flagged for it.
LEMMA TryAcquireStep ==
    ASSUME Good(k, pc, addr, held), Locals, NEW t \in Threads, TryAcquire(t)
    PROVE  Good(k', pc', addr', held') /\ Locals'
<1> DEFINE m == addr[t]
           o == holder[t]
           s == [k EXCEPT !.result[t] = "SUCCESS"]
<1>0. k \in Kernel /\ None \notin Threads /\ Sound(k)
  BY MutexAssumption DEF Good, Sound
<1>1. /\ pc[t] = "arbLock" /\ addr' = addr /\ holder' = holder /\ timed' = timed /\ held' = held
  BY DEF TryAcquire, At
<1>2. k.owner[t] = None /\ ~ListedIn(k, t) /\ m \in Mutexes /\ m \notin held[t]
  BY <1>1 DEF Good, CallOK
<1>3. \A u \in Threads : CallOK(k, pc, addr, held, u)
  BY DEF Good
<1>4. \A u \in Threads : \A x \in held[u] : x \in Mutexes /\ k.word[x].owner = u
  BY DEF Good
<1>5. \A x \in Mutexes, u \in Threads : KnowsOwner(k, pc, addr, held, x, u)
  BY DEF Good
<1>6. \A u \in Threads : Served(k, u)
  BY DEF Good
<1>7. Reports(k, s, t, "SUCCESS")
  BY <1>0, ReportsFacts
<1>8. Sound(s) /\ \A u : ListedIn(s, u) <=> ListedIn(k, u)
  BY <1>0, <1>7, SameListsFacts DEF Reports
<1>9. /\ s.word = k.word /\ s.status = k.status /\ s.address = k.address /\ s.owner = k.owner
      /\ s.conds = k.conds /\ s.condvar = k.condvar /\ s.waiting = k.waiting
      /\ \A u \in Threads : s.result[u] = IF u = t THEN "SUCCESS" ELSE k.result[u]
  BY <1>7 DEF Reports, SameLists
<1>10. CASE k' = s /\ pc' = [pc EXCEPT ![t] = "recheck"]
  <2> HIDE DEF s, m, o
  <2>1. Locals'
    BY <1>1, <1>10 DEF Locals, Pcs
  <2>2. \A u \in Threads : pc'[u] = IF u = t THEN "recheck" ELSE pc[u]
    BY <1>10 DEF Locals
  <2>3. ASSUME NEW u \in Threads PROVE CallOK(s, pc', addr, held, u)
    BY <1>1, <1>2, <1>3, <1>8, <1>9, <2>2 DEF CallOK
  <2>4. \A x \in Mutexes, u \in Threads : KnowsOwner(s, pc', addr, held, x, u)
    BY <1>1, <1>5, <1>9, <2>2 DEF KnowsOwner
  <2>5. \A u \in Threads : Served(s, u)
    BY <1>6, <1>9 DEF Served
  <2>6. Good(s, pc', addr, held)
    BY <1>4, <1>8, <1>9, <2>3, <2>4, <2>5 DEF Good
  <2> QED BY <1>1, <1>10, <2>1, <2>6
<1>11. CASE /\ k.word[m] = [owner |-> o, waiters |-> TRUE]
            /\ k' = AddMutexWaiter([s EXCEPT !.address[t] = m, !.status[t] = "WaitMutex"], o, t)
            /\ pc' = [pc EXCEPT ![t] = "mutexWait"]
  <2> DEFINE a == [s EXCEPT !.address[t] = m, !.status[t] = "WaitMutex"]
  <2>0. k' = AddMutexWaiter(a, o, t)
    BY <1>11
  <2> HIDE DEF s
  <2>1. s \in Kernel
    BY <1>8 DEF Sound
  <2>2. /\ a \in Kernel
        /\ a.owner = s.owner /\ a.waiting = s.waiting /\ a.conds = s.conds
        /\ a.condvar = s.condvar /\ a.word = s.word /\ a.result = s.result
        /\ \A u \in Threads : /\ a.status[u] = IF u = t THEN "WaitMutex" ELSE s.status[u]
                              /\ a.address[u] = IF u = t THEN m ELSE s.address[u]
    <3> HIDE DEF m
    <3> QED BY <1>2, <2>1 DEF Kernel
  <2>3. o \in Threads
    <3>1. k.word[m].owner = o /\ k.word[m].waiters
      BY <1>11
    <3> HIDE DEF m, o
    <3> QED BY <1>0, <1>2, <3>1, WordFacts
  <2>4. m = addr[t] /\ k.word[m] = [owner |-> o, waiters |-> TRUE]
    BY <1>11
  <2> HIDE DEF m, o, a
  <2>5. Sound(a) /\ \A u : ListedIn(a, u) <=> ListedIn(s, u)
    <3>1. SameLists(s, a)
      BY <2>2 DEF SameLists
    <3> QED BY <1>8, <3>1, SameListsFacts
  <2>6. Moves(a, k', t, o)
    <3>1. a.owner[t] = None
      BY <1>2, <1>9, <2>2
    <3> QED BY <2>0, <2>3, <2>5, <3>1, AddMutexWaiterFacts
  <2>7. \A u : ListedIn(k', u) <=> ListedIn(k, u)
    BY <1>8, <2>5, <2>6 DEF Moves, Same, ListedIn
  <2>8. /\ Sound(k') /\ k'.word = k.word
        /\ \A u \in Threads :
             /\ k'.owner[u] = IF u = t THEN o ELSE k.owner[u]
             /\ k'.status[u] = IF u = t THEN "WaitMutex" ELSE k.status[u]
             /\ k'.address[u] = IF u = t THEN m ELSE k.address[u]
             /\ k'.result[u] = IF u = t THEN "SUCCESS" ELSE k.result[u]
    BY <1>9, <2>2, <2>6 DEF Moves, Same
  <2>9. Locals'
    BY <1>1, <1>11 DEF Locals, Pcs
  <2>10. \A u \in Threads : pc'[u] = IF u = t THEN "mutexWait" ELSE pc[u]
    BY <1>11 DEF Locals
  <2>11. ASSUME NEW u \in Threads PROVE CallOK(k', pc', addr', held', u)
    <3>1. CASE u = t
      BY <1>0, <1>1, <1>2, <2>3, <2>4, <2>7, <2>8, <2>10, <3>1 DEF CallOK
    <3>2. CASE u # t
      BY <1>1, <1>3, <2>7, <2>8, <2>10, <3>2 DEF CallOK
    <3> QED BY <3>1, <3>2
  <2>12. \A x \in Mutexes, u \in Threads : KnowsOwner(k', pc', addr', held', x, u)
    BY <1>1, <1>5, <2>8, <2>10 DEF KnowsOwner
  <2>13. \A u \in Threads : Served(k', u)
    BY <1>6, <2>4, <2>8 DEF Served
  <2> QED BY <1>1, <1>4, <2>8, <2>9, <2>11, <2>12, <2>13 DEF Good
<1>12. \/ k' = s /\ pc' = [pc EXCEPT ![t] = "recheck"]
       \/ /\ k.word[m] = [owner |-> o, waiters |-> TRUE]
          /\ k' = AddMutexWaiter([s EXCEPT !.address[t] = m, !.status[t] = "WaitMutex"], o, t)
          /\ pc' = [pc EXCEPT ![t] = "mutexWait"]
  BY Zenon DEF TryAcquire, Goto
<1> QED BY <1>10, <1>11, <1>12

\* LeaveOwner leaves a good state.
LEMMA LeaveOwnerGood ==
    ASSUME NEW s, NEW P, NEW A, NEW H, Good(s, P, A, H), NEW t \in Threads, s.status[t] = "Ready",
           NEW r, r = LeaveOwner(s, t)
    PROVE  /\ Good(r, P, A, H) /\ r.owner[t] = None /\ r.status = s.status /\ r.result = s.result
           /\ r.word = s.word
           /\ \A u : ListedIn(r, u) <=> ListedIn(s, u)
<1>0. Sound(s) /\ None \notin Threads
  BY MutexAssumption DEF Good
<1>1. Moves(s, r, t, None)
  BY <1>0, LeaveOwnerFacts
<1>2. \A u : ListedIn(r, u) <=> ListedIn(s, u)
  BY <1>1 DEF Moves, Same, ListedIn
<1>3. /\ Sound(r) /\ r.word = s.word /\ r.status = s.status /\ r.result = s.result
      /\ r.address = s.address
      /\ \A u \in Threads : r.owner[u] = IF u = t THEN None ELSE s.owner[u]
  BY <1>1 DEF Moves, Same
<1>4. \A u \in Threads : CallOK(r, P, A, H, u)
  <2>1. \A u \in Threads : CallOK(s, P, A, H, u)
    BY DEF Good
  <2> QED BY <1>2, <1>3, <2>1 DEF CallOK
<1>5. \A x \in Mutexes, u \in Threads : KnowsOwner(r, P, A, H, x, u)
  BY <1>3 DEF Good, KnowsOwner
<1>6. \A u \in Threads : Served(r, u)
  BY <1>3 DEF Good, Served
<1> QED BY <1>2, <1>3, <1>4, <1>5, <1>6 DEF Good

\* A resumed thread leaves a list that it may still be in.
LEMMA TryAcquireResumeStep ==
    ASSUME Good(k, pc, addr, held), Locals, NEW t \in Threads, TryAcquireResume(t)
    PROVE  Good(k', pc', addr', held') /\ Locals'
<1>1. /\ pc[t] = "mutexWait" /\ k.status[t] = "Ready" /\ k' = LeaveOwner(k, t)
      /\ pc' = [pc EXCEPT ![t] = "recheck"]
      /\ addr' = addr /\ holder' = holder /\ timed' = timed /\ held' = held
  BY DEF TryAcquireResume, At, Goto
<1>2. Good(k', pc, addr, held) /\ k'.owner[t] = None /\ k'.status = k.status
  BY <1>1, LeaveOwnerGood
<1>3. Locals'
  BY <1>1 DEF Locals, Pcs
<1>4. \A u \in Threads : pc'[u] = IF u = t THEN "recheck" ELSE pc[u]
  BY <1>1 DEF Locals
<1>5. \A u \in Threads : CallOK(k', pc', addr, held, u)
  <2>1. \A u \in Threads : CallOK(k', pc, addr, held, u)
    BY <1>2 DEF Good
  <2> QED BY <1>1, <1>2, <1>4, <2>1 DEF CallOK
<1>6. \A x \in Mutexes, u \in Threads : KnowsOwner(k', pc', addr, held, x, u)
  <2>1. \A x \in Mutexes, u \in Threads : KnowsOwner(k', pc, addr, held, x, u)
    BY <1>2 DEF Good
  <2> QED BY <1>1, <1>4, <2>1 DEF KnowsOwner
<1> QED BY <1>1, <1>2, <1>3, <1>5, <1>6 DEF Good

\* A call about mutex m returns: the thread holds the mutex if it owns it.
LEMMA ReturnGood ==
    ASSUME NEW s, NEW P, NEW A, NEW H, Good(s, P, A, H), NEW t \in Threads,
           P[t] \in {"recheck", "condReturn"}, s.status[t] = "Ready",
           NEW owns \in BOOLEAN, owns <=> s.word[A[t]].owner = t,
           NEW P2, NEW A2, AtPlaces(P, A, P2, A2, t), P2[t] = "user",
           NEW H2, \A u \in Threads : H2[u] = IF u = t /\ owns THEN H[t] \cup {A[t]} ELSE H[u]
    PROVE  Good(s, P2, A2, H2)
<1>1. \A u \in Threads : CallOK(s, P, A, H, u)
  BY DEF Good
<1>2. \A x \in Mutexes, u \in Threads : KnowsOwner(s, P, A, H, x, u)
  BY DEF Good
<1>3. \A u \in Threads : \A x \in H[u] : x \in Mutexes /\ s.word[x].owner = u
  BY DEF Good
<1>4. A[t] \in Mutexes /\ s.owner[t] = None /\ ~ListedIn(s, t)
  BY <1>1 DEF CallOK
<1>5. ASSUME NEW u \in Threads PROVE CallOK(s, P2, A2, H2, u)
  <2>1. CASE u = t
    BY <1>4, <2>1 DEF CallOK
  <2>2. CASE u # t
    BY <1>1, <2>2 DEF CallOK, AtPlaces
  <2> QED BY <2>1, <2>2
<1>6. \A u \in Threads : \A x \in H2[u] : x \in Mutexes /\ s.word[x].owner = u
  BY <1>3, <1>4
<1>7. ASSUME NEW x \in Mutexes, NEW u \in Threads PROVE KnowsOwner(s, P2, A2, H2, x, u)
  <2>1. CASE u = t
    BY <1>2, <2>1 DEF KnowsOwner
  <2>2. CASE u # t
    BY <1>2, <2>2 DEF KnowsOwner, AtPlaces
  <2> QED BY <2>1, <2>2
<1> QED BY <1>5, <1>6, <1>7 DEF Good

\* Leave in terms of places.
LEMMA LeaveFacts ==
    ASSUME Locals, NEW t \in Threads, Leave(t)
    PROVE  /\ AtPlaces(pc, addr, pc', addr', t) /\ pc'[t] = "user"
           /\ held' \in [Threads -> SUBSET Mutexes] => Locals'
<1>1. /\ pc' = [pc EXCEPT ![t] = "user"] /\ addr' = [addr EXCEPT ![t] = None]
      /\ holder' = [holder EXCEPT ![t] = None] /\ timed' = [timed EXCEPT ![t] = FALSE]
  BY DEF Leave, Goto
<1>2. AtPlaces(pc, addr, pc', addr', t) /\ pc'[t] = "user"
  BY <1>1 DEF AtPlaces, Locals
<1>3. held' \in [Threads -> SUBSET Mutexes] => Locals'
  BY <1>1 DEF Locals, Pcs
<1> QED BY <1>2, <1>3

\* The guest believes what the word says.
LEMMA GuestRecheckStep ==
    ASSUME Good(k, pc, addr, held), Locals, NEW t \in Threads, GuestRecheck(t)
    PROVE  Good(k', pc', addr', held') /\ Locals'
<1> DEFINE owns == k.word[addr[t]].owner = t
<1>1. /\ pc[t] = "recheck" /\ k.status[t] = "Ready" /\ k' = k /\ Leave(t)
      /\ held' = IF owns THEN [held EXCEPT ![t] = @ \cup {addr[t]}] ELSE held
  BY DEF GuestRecheck, At
<1>2. addr[t] \in Mutexes
  BY <1>1 DEF Good, CallOK
<1>3. owns \in BOOLEAN /\ (owns <=> k.word[addr[t]].owner = t)
  OBVIOUS
<1> HIDE DEF owns
<1>4. /\ held' \in [Threads -> SUBSET Mutexes]
      /\ \A u \in Threads : held'[u] = IF u = t /\ owns THEN held[t] \cup {addr[t]} ELSE held[u]
  BY <1>1, <1>2 DEF Locals
<1>5. AtPlaces(pc, addr, pc', addr', t) /\ pc'[t] = "user" /\ Locals'
  BY <1>1, <1>4, LeaveFacts
<1>6. pc[t] \in {"recheck", "condReturn"}
  BY <1>1
<1>7. Good(k, pc', addr', held')
  BY <1>1, <1>3, <1>4, <1>5, <1>6, ReturnGood
<1> QED BY <1>1, <1>5, <1>7

\* A holder gives its belief up and calls the kernel.
LEMMA GiveUpGood ==
    ASSUME NEW s, NEW P, NEW A, NEW H, Good(s, P, A, H), NEW t \in Threads, P[t] = "user",
           NEW m \in H[t],
           NEW P2, NEW A2, AtPlaces(P, A, P2, A2, t), P2[t] = "arbUnlock", A2[t] = m,
           NEW H2, \A u \in Threads : H2[u] = IF u = t THEN H[t] \ {m} ELSE H[u]
    PROVE  Good(s, P2, A2, H2)
<1>1. \A u \in Threads : CallOK(s, P, A, H, u)
  BY DEF Good
<1>2. \A x \in Mutexes, u \in Threads : KnowsOwner(s, P, A, H, x, u)
  BY DEF Good
<1>3. \A u \in Threads : \A x \in H[u] : x \in Mutexes /\ s.word[x].owner = u
  BY DEF Good
<1>4. s.owner[t] = None /\ ~ListedIn(s, t) /\ s.status[t] # "WaitMutex"
  BY <1>1 DEF CallOK
<1>5. ASSUME NEW u \in Threads PROVE CallOK(s, P2, A2, H2, u)
  <2>1. CASE u = t
    BY <1>3, <1>4, <2>1 DEF CallOK
  <2>2. CASE u # t
    BY <1>1, <2>2 DEF CallOK, AtPlaces
  <2> QED BY <2>1, <2>2
<1>6. \A u \in Threads : \A x \in H2[u] : x \in Mutexes /\ s.word[x].owner = u
  BY <1>3
<1>7. ASSUME NEW x \in Mutexes, NEW u \in Threads PROVE KnowsOwner(s, P2, A2, H2, x, u)
  <2>1. CASE u = t
    BY <1>2, <2>1 DEF KnowsOwner
  <2>2. CASE u # t
    BY <1>2, <2>2 DEF KnowsOwner, AtPlaces
  <2> QED BY <2>1, <2>2
<1> QED BY <1>5, <1>6, <1>7 DEF Good

\* Without the flag nobody waits, and the word can be cleared.
LEMMA GuestUnlockStep ==
    ASSUME Good(k, pc, addr, held), Locals, NEW t \in Threads, NEW m \in Mutexes, GuestUnlock(t, m)
    PROVE  Good(k', pc', addr', held') /\ Locals'
<1>0. k \in Kernel /\ None \notin Threads /\ Sound(k)
  BY MutexAssumption DEF Good, Sound
<1>1. /\ pc[t] = "user" /\ m \in held[t] /\ held' = [held EXCEPT ![t] = @ \ {m}]
      /\ holder' = holder /\ timed' = timed
  BY DEF GuestUnlock, At
<1>2. /\ held' \in [Threads -> SUBSET Mutexes]
      /\ \A u \in Threads : held'[u] = IF u = t THEN held[t] \ {m} ELSE held[u]
  BY <1>1 DEF Locals
<1>3. CASE k.word[m].waiters
  <2>1. /\ k' = k /\ pc' = [pc EXCEPT ![t] = "arbUnlock"] /\ addr' = [addr EXCEPT ![t] = m]
    BY <1>3 DEF GuestUnlock, Goto
  <2>2. AtPlaces(pc, addr, pc', addr', t) /\ pc'[t] = "arbUnlock" /\ addr'[t] = m
    BY <2>1 DEF AtPlaces, Locals
  <2>3. Locals'
    BY <1>1, <1>2, <2>1 DEF Locals, Pcs
  <2>4. Good(k, pc', addr', held')
    <3>1. pc[t] = "user" /\ m \in held[t]
      BY <1>1
    <3>2. \A u \in Threads : held'[u] = IF u = t THEN held[t] \ {m} ELSE held[u]
      BY <1>2
    <3> QED BY <2>2, <3>1, <3>2, GiveUpGood
  <2> QED BY <2>1, <2>3, <2>4
<1>4. CASE ~k.word[m].waiters
  <2>1. k' = [k EXCEPT !.word[m] = Free] /\ pc' = pc /\ addr' = addr
    BY <1>4 DEF GuestUnlock
  <2>2. Rewrites(k, k', m, Free)
    <3>1. Free \in Words
      BY DEF Words
    <3>2. Rewrites(k, [k EXCEPT !.word[m] = Free], m, Free)
      BY <1>0, <3>1, RewritesFacts
    <3> QED BY <2>1, <3>2, Zenon
  <2>3. Sound(k') /\ \A u : ListedIn(k', u) <=> ListedIn(k, u)
    BY <1>0, <2>2, SameListsFacts DEF Rewrites
  <2>4. /\ k'.word[m].owner = None /\ \A x \in Mutexes \ {m} : k'.word[x] = k.word[x]
        /\ k'.status = k.status /\ k'.result = k.result /\ k'.address = k.address
        /\ k'.owner = k.owner
    BY <2>2 DEF Rewrites, SameLists, Free
  <2>5. \A u \in Threads : CallOK(k, pc, addr, held, u)
    BY DEF Good
  <2>6. \A u \in Threads : \A x \in held[u] : x \in Mutexes /\ k.word[x].owner = u
    BY DEF Good
  <2>7. k.word[m].owner = t
    BY <1>1, <2>6
  <2>8. ASSUME NEW u \in Threads PROVE CallOK(k', pc', addr', held', u)
    <3>1. CASE u = t
      BY <1>1, <1>2, <2>1, <2>3, <2>4, <2>5, <3>1 DEF CallOK
    <3>2. CASE u # t
      BY <1>2, <2>1, <2>3, <2>4, <2>5, <2>7, <3>2 DEF CallOK
    <3> QED BY <3>1, <3>2
  <2>9. \A u \in Threads : \A x \in held'[u] : x \in Mutexes /\ k'.word[x].owner = u
    BY <1>2, <2>4, <2>6, <2>7
  <2>10. \A x \in Mutexes, u \in Threads : KnowsOwner(k', pc', addr', held', x, u)
    <3>1. \A x \in Mutexes, u \in Threads : KnowsOwner(k, pc, addr, held, x, u)
      BY DEF Good
    <3> QED BY <1>0, <1>2, <2>1, <2>4, <3>1 DEF KnowsOwner
  <2>11. ASSUME NEW u \in Threads PROVE Served(k', u)
    <3>1. k.owner[u] # None => /\ k.word[k.address[u]] = [owner |-> k.owner[u], waiters |-> TRUE]
                               /\ k.address[u] \in Mutexes
      BY <2>5 DEF Good, Served, CallOK
    <3>2. k.owner[u] # None => k.address[u] # m
      BY <1>4, <3>1
    <3> QED BY <2>4, <3>1, <3>2 DEF Served
  <2>12. Locals'
    BY <1>1, <1>2, <2>1 DEF Locals
  <2> QED BY <2>3, <2>8, <2>9, <2>10, <2>11, <2>12 DEF Good
<1> QED BY <1>3, <1>4

\* The hand-off of Mutex::Release.
LEMMA ReleaseStep ==
    ASSUME Good(k, pc, addr, held), Locals, NEW t \in Threads, Release(t)
    PROVE  Good(k', pc', addr', held') /\ Locals'
<1> DEFINE m == addr[t]
<1>1. pc[t] = "arbUnlock" /\ k' = Unlock(k, t, m) /\ Leave(t) /\ held' = held /\ addr[t] = m
  BY DEF Release, At
<1> HIDE DEF m
<1>2. AtPlaces(pc, addr, pc', addr', t) /\ pc'[t] = "user" /\ Locals'
  BY <1>1, LeaveFacts DEF Locals
<1>3. Good(k', pc', addr', held)
  BY <1>1, <1>2, UnlockGood
<1> QED BY <1>1, <1>2, <1>3

\* The hand-off, and the thread joins the list of the condition variable.
LEMMA WaitProcessWideKeyAtomicStep ==
    ASSUME Good(k, pc, addr, held), Locals, NEW t \in Threads, NEW m \in Mutexes,
           NEW c \in CondVars, NEW timeout \in Timeouts,
           WaitProcessWideKeyAtomic(t, m, c, timeout)
    PROVE  Good(k', pc', addr', held') /\ Locals'
<1> DEFINE s == [k EXCEPT !.result[t] = "TIMEOUT"]
           r == Unlock(s, t, m)
           a == [r EXCEPT !.condvar[t] = c, !.address[t] = m, !.status[t] = "WaitCondVar"]
           P1 == [pc EXCEPT ![t] = "arbUnlock"]
           A1 == [addr EXCEPT ![t] = m]
<1>0. k \in Kernel /\ None \notin Threads /\ Sound(k)
  BY MutexAssumption DEF Good, Sound
<1>1. /\ pc[t] = "user" /\ m \in held[t] /\ held' = [held EXCEPT ![t] = @ \ {m}]
      /\ holder' = holder
  BY DEF WaitProcessWideKeyAtomic, At
<1>2. /\ held' \in [Threads -> SUBSET Mutexes]
      /\ \A u \in Threads : held'[u] = IF u = t THEN held[t] \ {m} ELSE held[u]
  BY <1>1 DEF Locals
<1>3. \/ k' = r /\ pc' = pc /\ addr' = addr /\ timed' = timed
      \/ /\ k' = InsertConditionVariableThread(a, t)
         /\ addr' = [addr EXCEPT ![t] = m]
         /\ timed' = [timed EXCEPT ![t] = timeout = "finite"]
         /\ pc' = [pc EXCEPT ![t] = "condWait"]
  BY Zenon DEF WaitProcessWideKeyAtomic, Goto
<1>4. Reports(k, s, t, "TIMEOUT")
  BY <1>0, ReportsFacts
<1> HIDE DEF s
<1>5. Good(s, pc, addr, held) /\ s.result[t] = "TIMEOUT"
  <2>1. Sound(s) /\ \A u : ListedIn(s, u) <=> ListedIn(k, u)
    BY <1>0, <1>4, SameListsFacts DEF Reports
  <2>2. /\ s.word = k.word /\ s.status = k.status /\ s.address = k.address /\ s.owner = k.owner
        /\ \A u \in Threads : s.result[u] = IF u = t THEN "TIMEOUT" ELSE k.result[u]
    BY <1>4 DEF Reports, SameLists
  <2>3. \A u \in Threads : CallOK(s, pc, addr, held, u)
    <3>1. \A u \in Threads : CallOK(k, pc, addr, held, u)
      BY DEF Good
    <3> QED BY <1>1, <2>1, <2>2, <3>1 DEF CallOK
  <2>4. \A x \in Mutexes, u \in Threads : KnowsOwner(s, pc, addr, held, x, u)
    <3>1. \A x \in Mutexes, u \in Threads : KnowsOwner(k, pc, addr, held, x, u)
      BY DEF Good
    <3> QED BY <1>1, <2>2, <3>1 DEF KnowsOwner
  <2>5. \A u \in Threads : Served(s, u)
    BY <2>2 DEF Good, Served
  <2> QED BY <2>1, <2>2, <2>3, <2>4, <2>5 DEF Good
<1>6. AtPlaces(pc, addr, P1, A1, t) /\ P1[t] = "arbUnlock" /\ A1[t] = m
  BY DEF AtPlaces, Locals
<1>7. AtPlaces(P1, A1, pc, addr, t)
  BY <1>6 DEF AtPlaces
<1> HIDE DEF P1, A1
<1>8. Good(s, P1, A1, held')
  <2>1. pc[t] = "user" /\ m \in held[t]
    BY <1>1
  <2>2. \A u \in Threads : held'[u] = IF u = t THEN held[t] \ {m} ELSE held[u]
    BY <1>2
  <2> QED BY <1>5, <1>6, <2>1, <2>2, GiveUpGood
<1>9. Good(r, pc, addr, held') /\ r.result[t] = s.result[t] /\ r.word[m].owner # t
  BY <1>1, <1>6, <1>7, <1>8, UnlockGood
<1> HIDE DEF r
<1>10. CASE k' = r /\ pc' = pc /\ addr' = addr /\ timed' = timed
  <2>1. Locals'
    BY <1>1, <1>2, <1>10 DEF Locals
  <2> QED BY <1>9, <1>10, <2>1
<1>11. CASE /\ k' = InsertConditionVariableThread(a, t)
            /\ addr' = [addr EXCEPT ![t] = m]
            /\ timed' = [timed EXCEPT ![t] = timeout = "finite"]
            /\ pc' = [pc EXCEPT ![t] = "condWait"]
  <2>1. Locals'
    BY <1>1, <1>2, <1>11 DEF Locals, Pcs
  <2>2. AtPlaces(pc, addr, pc', addr', t) /\ pc'[t] = "condWait" /\ addr'[t] = m
    BY <1>11 DEF AtPlaces, Locals
  <2>3. r \in Kernel /\ r.result[t] = "TIMEOUT" /\ r.word[m].owner # t
    BY <1>5, <1>9 DEF Good, Sound
  <2>4. Joins(r, a, t, m, c)
    BY <2>3, JoinsFacts
  <2>5. k' = InsertConditionVariableThread(a, t)
    BY <1>11
  <2> HIDE DEF a
  <2>6. m \notin held'[t]
    BY <1>2
  <2>7. Good(r, pc, addr, held') /\ pc[t] = "user"
    BY <1>1, <1>9
  <2>8. Good(k', pc', addr', held')
    BY <2>2, <2>3, <2>4, <2>5, <2>6, <2>7, CondInsertGood
  <2> QED BY <2>1, <2>8
<1> QED BY <1>3, <1>10, <1>11

\* A time event leaves the thread in its lists.
LEMMA TimeEventStep ==
    ASSUME Good(k, pc, addr, held), Locals, NEW t \in Threads, TimeEvent(t)
    PROVE  Good(k', pc', addr', held') /\ Locals'
<1>0. k \in Kernel /\ Sound(k)
  BY DEF Good, Sound
<1>1. /\ k' = [k EXCEPT !.status[t] = "Ready"]
      /\ pc' = pc /\ addr' = addr /\ holder' = holder /\ timed' = timed /\ held' = held
  BY DEF TimeEvent, Resume
<1>2. /\ k' \in Kernel
      /\ k'.owner = k.owner /\ k'.waiting = k.waiting /\ k'.conds = k.conds
      /\ k'.condvar = k.condvar /\ k'.word = k.word /\ k'.result = k.result
      /\ k'.address = k.address
      /\ \A u \in Threads : k'.status[u] = IF u = t THEN "Ready" ELSE k.status[u]
  BY <1>0, <1>1 DEF Kernel
<1>3. Sound(k') /\ \A u : ListedIn(k', u) <=> ListedIn(k, u)
  <2>1. SameLists(k, k')
    BY <1>2 DEF SameLists
  <2> QED BY <1>0, <2>1, SameListsFacts
<1>4. \A u \in Threads : CallOK(k', pc, addr, held, u)
  <2>1. \A u \in Threads : CallOK(k, pc, addr, held, u)
    BY DEF Good
  <2> QED BY <1>2, <1>3, <2>1 DEF CallOK
<1>5. \A x \in Mutexes, u \in Threads : KnowsOwner(k', pc, addr, held, x, u)
  BY <1>2 DEF Good, KnowsOwner
<1>6. \A u \in Threads : Served(k', u)
  BY <1>2 DEF Good, Served
<1>7. Locals'
  BY <1>1 DEF Locals
<1>8. Good(k', pc, addr, held)
  BY <1>2, <1>3, <1>4, <1>5, <1>6 DEF Good
<1> QED BY <1>1, <1>7, <1>8

\* A thread that was woken by anything leaves both lists.
LEMMA WaitProcessWideKeyResumeStep ==
    ASSUME Good(k, pc, addr, held), Locals, NEW t \in Threads, WaitProcessWideKeyResume(t)
    PROVE  Good(k', pc', addr', held') /\ Locals'
<1> DEFINE s == LeaveOwner(k, t)
<1>1. /\ pc[t] = "condWait" /\ k.status[t] = "Ready" /\ k' = RemoveConditionVariableThread(s, t)
      /\ pc' = [pc EXCEPT ![t] = "condReturn"]
      /\ addr' = addr /\ holder' = holder /\ timed' = timed /\ held' = held
  BY DEF WaitProcessWideKeyResume, At, Goto
<1>2. /\ Good(s, pc, addr, held) /\ s.owner[t] = None /\ s.status = k.status
  BY <1>1, LeaveOwnerGood
<1> HIDE DEF s
<1>3. Sound(s)
  BY <1>2 DEF Good
<1>4. Delisted(s, k', t)
  BY <1>1, <1>3, RemoveConditionVariableThreadFacts
<1>5. Locals'
  BY <1>1 DEF Locals, Pcs
<1>6. \A u \in Threads : pc'[u] = IF u = t THEN "condReturn" ELSE pc[u]
  BY <1>1 DEF Locals
<1>7. /\ k' \in Kernel
      /\ \A d \in CondVars : /\ IsInjective(k'.conds[d])
                             /\ ToSet(k'.conds[d]) = ToSet(s.conds[d]) \ {t}
      /\ k'.word = s.word /\ k'.status = s.status /\ k'.result = s.result
      /\ k'.owner = s.owner /\ k'.waiting = s.waiting
      /\ k'.address = s.address /\ k'.condvar = s.condvar
  BY <1>4 DEF Delisted
<1>8. s.status[t] = "Ready"
  BY <1>1, <1>2
<1>9. Sound(k')
  <2>1. \A d \in CondVars : IsInjective(k'.conds[d]) /\ \A u \in ToSet(k'.conds[d]) : k'.condvar[u] = d
    BY <1>3, <1>7 DEF Sound
  <2>2. ASSUME NEW u \in Threads, k'.status[u] = "WaitCondVar"
        PROVE  k'.condvar[u] \in CondVars /\ u \in ToSet(k'.conds[k'.condvar[u]])
    <3>1. u # t /\ s.status[u] = "WaitCondVar"
      BY <1>7, <1>8, <2>2
    <3>2. s.condvar[u] \in CondVars /\ u \in ToSet(s.conds[s.condvar[u]])
      BY <1>3, <3>1 DEF Sound
    <3> QED BY <1>7, <3>1, <3>2
  <2>3. \A o \in Threads : /\ IsInjective(k'.waiting[o])
                           /\ \A u \in Threads : u \in ToSet(k'.waiting[o]) <=> k'.owner[u] = o
    BY <1>3, <1>7 DEF Sound
  <2> QED BY <1>7, <2>1, <2>2, <2>3 DEF Sound
<1>10. \A u : ListedIn(k', u) <=> u # t /\ ListedIn(s, u)
  BY <1>7 DEF ListedIn
<1>11. ASSUME NEW u \in Threads PROVE CallOK(k', pc', addr, held, u)
  <2>1. CallOK(s, pc, addr, held, u)
    BY <1>2 DEF Good
  <2>2. CASE u = t
    BY <1>1, <1>2, <1>6, <1>7, <1>8, <1>10, <2>1, <2>2 DEF CallOK
  <2>3. CASE u # t
    BY <1>6, <1>7, <1>10, <2>1, <2>3 DEF CallOK
  <2> QED BY <2>2, <2>3
<1>12. \A x \in Mutexes, u \in Threads : KnowsOwner(k', pc', addr, held, x, u)
  <2>1. \A x \in Mutexes, u \in Threads : KnowsOwner(s, pc, addr, held, x, u)
    BY <1>2 DEF Good
  <2> QED BY <1>1, <1>6, <1>7, <2>1 DEF KnowsOwner
<1>13. \A u \in Threads : Served(k', u)
  BY <1>2, <1>7 DEF Good, Served
<1>14. Good(k', pc', addr, held)
  BY <1>2, <1>7, <1>9, <1>11, <1>12, <1>13 DEF Good
<1> QED BY <1>1, <1>5, <1>14

\* The result says whether the thread owns the mutex.
LEMMA WaitProcessWideKeyReturnStep ==
    ASSUME Good(k, pc, addr, held), Locals, NEW t \in Threads, WaitProcessWideKeyReturn(t)
    PROVE  Good(k', pc', addr', held') /\ Locals'
<1> DEFINE owns == k.result[t] = "SUCCESS"
<1>1. /\ pc[t] = "condReturn" /\ k.status[t] = "Ready" /\ k' = k /\ Leave(t)
      /\ held' = IF owns THEN [held EXCEPT ![t] = @ \cup {addr[t]}] ELSE held
  BY DEF WaitProcessWideKeyReturn, At
<1>2. addr[t] \in Mutexes /\ addr[t] \notin held[t]
  BY <1>1 DEF Good, CallOK
<1>3. owns \in BOOLEAN /\ (owns <=> k.word[addr[t]].owner = t)
  <2>1. owns => k.word[addr[t]].owner = t
    BY <1>1 DEF Good, CallOK
  <2>2. KnowsOwner(k, pc, addr, held, addr[t], t)
    BY <1>2 DEF Good
  <2>3. k.word[addr[t]].owner = t => owns
    BY <1>1, <1>2, <2>2 DEF KnowsOwner
  <2> QED BY <2>1, <2>3
<1> HIDE DEF owns
<1>4. /\ held' \in [Threads -> SUBSET Mutexes]
      /\ \A u \in Threads : held'[u] = IF u = t /\ owns THEN held[t] \cup {addr[t]} ELSE held[u]
  BY <1>1, <1>2 DEF Locals
<1>5. AtPlaces(pc, addr, pc', addr', t) /\ pc'[t] = "user" /\ Locals'
  BY <1>1, <1>4, LeaveFacts
<1>6. pc[t] \in {"recheck", "condReturn"}
  BY <1>1
<1>7. Good(k, pc', addr', held')
  BY <1>1, <1>3, <1>4, <1>5, <1>6, ReturnGood
<1> QED BY <1>1, <1>5, <1>7

\* All rounds of a signal.
LEMMA SignalProcessWideKeyStep ==
    ASSUME Good(k, pc, addr, held), Locals, NEW t \in Threads, NEW c \in CondVars,
           NEW target \in Targets, SignalProcessWideKey(t, c, target)
    PROVE  Good(k', pc', addr', held') /\ Locals'
<1> DEFINE list == k.conds[c]
           last == IF target > 0 /\ target < Len(list) THEN target ELSE Len(list)
<1>1. /\ k' = SignalRounds(k, list)[last]
      /\ pc' = pc /\ addr' = addr /\ holder' = holder /\ timed' = timed /\ held' = held
  BY DEF SignalProcessWideKey
<1>2. last \in 0..Len(list)
  <2>1. list \in Seq(Threads) /\ target \in Int
    BY MutexAssumption DEF Good, Sound, Kernel
  <2> HIDE DEF list
  <2> QED BY <2>1
<1>3. list = k.conds[c]
  OBVIOUS
<1> HIDE DEF last, list
<1>4. Good(k', pc, addr, held)
  BY <1>1, <1>2, <1>3, SignalRoundsGood
<1>5. Locals'
  BY <1>1 DEF Locals
<1> QED BY <1>1, <1>4, <1>5

\* A priority change climbs the chain of owners.
LEMMA SetPriorityStep ==
    ASSUME Good(k, pc, addr, held), Locals, NEW t \in Threads, NEW u \in Threads,
           NEW p \in Priorities, SetPriority(t, u, p)
    PROVE  Good(k', pc', addr', held') /\ Locals'
<1> DEFINE s == [k EXCEPT !.nominal[u] = p]
<1>0. k \in Kernel /\ Sound(k)
  BY DEF Good, Sound
<1>1. /\ k' = UpdatePriority(s, u)
      /\ pc' = pc /\ addr' = addr /\ holder' = holder /\ timed' = timed /\ held' = held
  BY DEF SetPriority
<1>2. /\ s \in Kernel
      /\ s.owner = k.owner /\ s.waiting = k.waiting /\ s.conds = k.conds
      /\ s.condvar = k.condvar /\ s.word = k.word /\ s.result = k.result
      /\ s.address = k.address /\ s.status = k.status
  BY <1>0 DEF Kernel
<1> HIDE DEF s
<1>3. Keeps(k, s)
  BY <1>0, <1>2 DEF Keeps, Same, Sound
<1>4. Keeps(s, k')
  BY <1>1, <1>3, UpdatePriorityFacts DEF Keeps
<1>5. Good(k', pc, addr, held)
  BY <1>3, <1>4, GoodKeeps
<1>6. Locals'
  BY <1>1 DEF Locals
<1> QED BY <1>1, <1>5, <1>6

-----------------------------------------------------------------------------
(* Priority inheritance.  UpdatePriority walks along the lock owners of a   *)
(* thread, which may form a cycle.  What it does is stated in terms of the  *)
(* nominal priorities, the owners and the current priorities only.          *)

\* v is the more urgent of the nominal priority of t and that of its most urgent
\* waiter.
Least(nom, ow, pr, t, v) ==
    /\ v <= nom[t]
    /\ \A x \in Threads : ow[x] = t => v <= pr[x]
    /\ v = nom[t] \/ \E x \in Threads : ow[x] = t /\ pr[x] = v

\* All threads but t run at the priority they should.
FixedBut(nom, ow, pr, t) ==
    \A x \in Threads \ {t} : Least(nom, ow, pr, x, pr[x])

\* All do.
Fixed(nom, ow, pr) == \A x \in Threads : Least(nom, ow, pr, x, pr[x])

\* Types of the three functions.
Ranks(nom, ow, pr) ==
    /\ nom \in [Threads -> Nat] /\ pr \in [Threads -> Nat]
    /\ ow \in [Threads -> Threads \cup {None}]

\* The owner of a thread of U is in U.
Closed(ow, U) == \A x \in U : ow[x] # None => ow[x] \in U

\* Only threads of U that ran at q change, and they become less urgent ...
Falls(pr, new, U, q) ==
    \A x \in Threads : new[x] # pr[x] => x \in U /\ pr[x] = q /\ new[x] > q

\* ... or only those less urgent than p, which become no more urgent than p.
Rises(pr, new, U, p) ==
    \A x \in Threads : new[x] # pr[x] => x \in U /\ pr[x] > p /\ new[x] >= p

\* g is f with the value v for t.
Updated(f, g, t, v) == g = [f EXCEPT ![t] = v]

\* The threads of U that are at least as urgent as t.
Urgent(pr, U, t) == {x \in U : pr[x] <= pr[t]}

\* The least of a set is unique.
LEMMA LeastUnique ==
    ASSUME NEW nom, NEW ow, NEW pr, Ranks(nom, ow, pr), NEW t \in Threads,
           NEW v \in Nat, NEW w \in Nat, Least(nom, ow, pr, t, v), Least(nom, ow, pr, t, w)
    PROVE  v = w
BY DEF Least, Ranks

\* Setting the priority of a thread without an owner settles all.
LEMMA RootSettles ==
    ASSUME NEW nom, NEW ow, NEW pr, Ranks(nom, ow, pr), NEW t \in Threads,
           FixedBut(nom, ow, pr, t), ow[t] = None, NEW v \in Nat, Least(nom, ow, pr, t, v)
    PROVE  Fixed(nom, ow, [pr EXCEPT ![t] = v])
<1> DEFINE new == [pr EXCEPT ![t] = v]
<1>1. \A y \in Threads : new[y] = IF y = t THEN v ELSE pr[y]
  BY DEF Ranks
<1>2. None \notin Threads
  BY MutexAssumption
<1> HIDE DEF new
<1>3. ASSUME NEW x \in Threads PROVE Least(nom, ow, new, x, new[x])
  <2>1. \A y \in Threads : ow[y] = x => new[y] = pr[y]
    BY <1>1, <1>2
  <2>2. Least(nom, ow, pr, x, new[x])
    BY <1>1 DEF FixedBut
  <2> QED BY <2>1, <2>2 DEF Least
<1> QED BY <1>3 DEF Fixed, new

\* The first of the three calls for the owner o, when t has taken the priority v
\* and left the list: only o may be wrong, and if it is, it had its priority from t.
LEMMA UnlinkedOwner ==
    ASSUME NEW nom, NEW ow, NEW pr, Ranks(nom, ow, pr), NEW t \in Threads,
           FixedBut(nom, ow, pr, t), NEW o \in Threads, ow[t] = o,
           NEW v \in Nat, Least(nom, ow, pr, t, v), v # pr[t],
           NEW ow1, Updated(ow, ow1, t, None),
           NEW pr1, Updated(pr, pr1, t, v),
           NEW w \in Nat, Least(nom, ow1, pr1, o, w)
    PROVE  /\ Ranks(nom, ow1, pr1) /\ FixedBut(nom, ow1, pr1, o)
           /\ w >= pr1[o] /\ (w # pr1[o] => pr1[o] = pr[t])
<1>0. None \notin Threads
  BY MutexAssumption
<1>1. /\ \A y \in Threads : pr1[y] = IF y = t THEN v ELSE pr[y]
      /\ \A y \in Threads : ow1[y] = IF y = t THEN None ELSE ow[y]
      /\ \A y \in Threads : pr[y] \in Nat /\ pr1[y] \in Nat /\ nom[y] \in Nat
  BY DEF Ranks, Updated
<1>2. Ranks(nom, ow1, pr1)
  BY DEF Ranks, Updated
<1>3. ASSUME NEW x \in Threads \ {o} PROVE Least(nom, ow1, pr1, x, pr1[x])
  <2>1. \A y \in Threads : (ow1[y] = x <=> ow[y] = x) /\ (ow[y] = x => pr1[y] = pr[y])
    BY <1>0, <1>1
  <2>2. Least(nom, ow, pr, x, pr1[x])
    BY <1>1 DEF FixedBut
  <2> QED BY <2>1, <2>2 DEF Least
<1>4. CASE o # t
  <2>1. Least(nom, ow, pr, o, pr[o]) /\ pr1[o] = pr[o]
    BY <1>1, <1>4 DEF FixedBut
  <2>2. w >= pr[o]
    BY <1>0, <1>1, <2>1 DEF Least
  <2>3. ASSUME w # pr[o] PROVE pr[o] = pr[t]
    <3>1. pr[o] # nom[o]
      BY <1>1, <2>2, <2>3 DEF Least
    <3>2. PICK x \in Threads : ow[x] = o /\ pr[x] = pr[o]
      BY <2>1, <3>1 DEF Least
    <3>3. x # t => w <= pr[x]
      BY <1>1, <3>2 DEF Least
    <3> QED BY <1>1, <2>2, <2>3, <3>2, <3>3
  <2> QED BY <1>2, <1>3, <2>1, <2>2, <2>3 DEF FixedBut
<1>5. CASE o = t
  <2>1. v < pr[t]
    BY <1>1, <1>5 DEF Least
  <2>2. Least(nom, ow1, pr1, t, v)
    BY <1>0, <1>1, <2>1 DEF Least
  <2>3. w = v /\ pr1[o] = v
    BY <1>1, <1>2, <1>5, <2>2, LeastUnique
  <2>4. w >= pr1[o] /\ w = pr1[o]
    BY <2>3
  <2> QED BY <1>2, <1>3, <2>4 DEF FixedBut
<1> QED BY <1>4, <1>5

\* The second call, when t is back in the list: if o is wrong, it has to take the
\* priority of t.
LEMMA LinkedOwner ==
    ASSUME NEW nom, NEW ow, NEW pr, Ranks(nom, ow, pr), NEW t \in Threads,
           Fixed(nom, ow, pr), ow[t] = None, NEW o \in Threads,
           NEW ow1, Updated(ow, ow1, t, o),
           NEW w \in Nat, Least(nom, ow1, pr, o, w)
    PROVE  /\ Ranks(nom, ow1, pr) /\ FixedBut(nom, ow1, pr, o)
           /\ w <= pr[o] /\ (w # pr[o] => w = pr[t])
<1>0. None \notin Threads
  BY MutexAssumption
<1>1. /\ \A y \in Threads : ow1[y] = IF y = t THEN o ELSE ow[y]
      /\ \A y \in Threads : pr[y] \in Nat /\ nom[y] \in Nat
  BY DEF Ranks, Updated
<1>2. Ranks(nom, ow1, pr)
  BY DEF Ranks, Updated
<1>3. ASSUME NEW x \in Threads \ {o} PROVE Least(nom, ow1, pr, x, pr[x])
  <2>1. \A y \in Threads : ow1[y] = x <=> ow[y] = x
    BY <1>0, <1>1
  <2>2. Least(nom, ow, pr, x, pr[x])
    BY DEF Fixed
  <2> QED BY <2>1, <2>2 DEF Least
<1>4. Least(nom, ow, pr, o, pr[o])
  BY DEF Fixed
<1>5. w <= pr[o]
  BY <1>0, <1>1, <1>4 DEF Least
<1>6. ASSUME w # pr[o] PROVE w = pr[t]
  BY <1>0, <1>1, <1>4, <1>5, <1>6 DEF Least
<1> QED BY <1>2, <1>3, <1>5, <1>6 DEF FixedBut

\* The threads at least as urgent as t are closed under ownership.
LEMMA UrgentClosed ==
    ASSUME NEW nom, NEW ow, NEW pr, Ranks(nom, ow, pr), NEW t \in Threads,
           FixedBut(nom, ow, pr, t), NEW U \in SUBSET Threads, Closed(ow, U)
    PROVE  Closed(ow, Urgent(pr, U, t))
<1>1. ASSUME NEW x \in U, pr[x] <= pr[t], ow[x] # None PROVE ow[x] \in U /\ pr[ow[x]] <= pr[t]
  <2>1. ow[x] \in U /\ ow[x] \in Threads
    BY <1>1 DEF Closed, Ranks
  <2>2. CASE ow[x] # t
    <3>1. Least(nom, ow, pr, ow[x], pr[ow[x]])
      BY <2>1, <2>2 DEF FixedBut
    <3>2. pr[ow[x]] <= pr[x]
      BY <3>1 DEF Least
    <3> QED BY <1>1, <2>1, <3>2 DEF Ranks
  <2>3. CASE ow[x] = t
    BY <2>1, <2>3 DEF Ranks
  <2> QED BY <2>2, <2>3
<1> QED BY <1>1 DEF Closed, Urgent


\* A list is in the order of priorities pr, its entry t aside ...
OrderedBut(list, pr, t) ==
    \A i, j \in 1..Len(list) :
      i < j /\ list[i] # t /\ list[j] # t => pr[list[i]] <= pr[list[j]]

\* ... or altogether.
Ordered(list, pr) ==
    \A i, j \in 1..Len(list) : i < j => pr[list[i]] <= pr[list[j]]

\* Inserting keeps the order.
LEMMA InsertedOrdered ==
    ASSUME NEW list \in Seq(Threads), NEW t \in Threads, NEW pr \in [Threads -> Nat],
           Ordered(list, pr)
    PROVE  Ordered(InsertByPriority(list, t, pr), pr)
<1> DEFINE later == {i \in DOMAIN list : pr[list[i]] > pr[t]}
           at == IF later = {} THEN Len(list) + 1 ELSE First(later)
           new == InsertAt(list, at, t)
<1>0. Len(list) \in Nat /\ \A i \in 1..Len(list) : list[i] \in Threads /\ pr[list[i]] \in Nat
  OBVIOUS
<1>1. /\ at \in 1..(Len(list) + 1)
      /\ \A i \in 1..Len(list) : i < at => pr[list[i]] <= pr[t]
      /\ at <= Len(list) => pr[list[at]] > pr[t]
  <2>1. later \subseteq 1..Len(list) /\ 1..Len(list) \subseteq Nat
    OBVIOUS
  <2>2. later # {} => First(later) \in later /\ \A j \in later : First(later) <= j
    BY <2>1, FirstFacts
  <2>3. CASE later = {}
    BY <1>0, <2>3
  <2>4. CASE later # {}
    <3>1. at \in later /\ \A j \in later : at <= j
      BY <2>2, <2>4
    <3> HIDE DEF at
    <3> QED BY <1>0, <3>1
  <2> QED BY <2>3, <2>4
<1>2. InsertByPriority(list, t, pr) = new
  BY DEF InsertByPriority
<1> HIDE DEF at
<1>3. /\ Len(new) = Len(list) + 1
      /\ \A q \in 1..(Len(list) + 1) : new[q] =
             IF q < at THEN list[q] ELSE IF q = at THEN t ELSE list[q - 1]
  BY <1>1, InsertAtFacts
<1> HIDE DEF new
<1>4. \A i \in 1..Len(list) : i >= at => pr[list[i]] > pr[t]
  <2> TAKE i \in 1..Len(list)
  <2> HAVE i >= at
  <2>1. at \in 1..Len(list) /\ pr[list[at]] > pr[t]
    BY <1>0, <1>1
  <2>2. pr[list[at]] <= pr[list[i]]
    BY <1>0, <2>1 DEF Ordered
  <2> QED BY <1>0, <2>1, <2>2
<1>5. ASSUME NEW i \in 1..(Len(list) + 1), NEW j \in 1..(Len(list) + 1), i < j
      PROVE  pr[new[i]] <= pr[new[j]]
  <2>0. \A a, b \in 1..Len(list) : a < b => pr[list[a]] <= pr[list[b]]
    BY DEF Ordered
  <2>1. CASE j < at
    <3>1. i \in 1..Len(list) /\ j \in 1..Len(list)
      BY <1>0, <1>1, <1>5, <2>1
    <3>2. new[i] = list[i] /\ new[j] = list[j]
      BY <1>0, <1>1, <1>3, <1>5, <2>1
    <3> QED BY <1>5, <2>0, <3>1, <3>2
  <2>2. CASE j = at
    <3>1. i \in 1..Len(list)
      BY <1>0, <1>1, <1>5, <2>2
    <3>2. new[i] = list[i] /\ new[j] = t
      BY <1>0, <1>1, <1>3, <1>5, <2>2
    <3> QED BY <1>1, <1>5, <2>2, <3>1, <3>2
  <2>3. CASE j > at /\ i < at
    <3>1. i \in 1..Len(list) /\ j - 1 \in 1..Len(list) /\ j - 1 >= at
      BY <1>0, <1>1, <1>5, <2>3
    <3>2. new[i] = list[i] /\ new[j] = list[j - 1]
      BY <1>0, <1>1, <1>3, <1>5, <2>3
    <3>3. pr[list[i]] <= pr[t] /\ pr[list[j - 1]] > pr[t] /\ pr[t] \in Nat
      BY <1>1, <1>4, <2>3, <3>1
    <3> QED BY <1>0, <3>1, <3>2, <3>3
  <2>4. CASE j > at /\ i = at
    <3>1. j - 1 \in 1..Len(list) /\ j - 1 >= at
      BY <1>0, <1>1, <1>5, <2>4
    <3>2. new[i] = t /\ new[j] = list[j - 1]
      BY <1>0, <1>1, <1>3, <1>5, <2>4
    <3> QED BY <1>0, <1>4, <3>1, <3>2
  <2>5. CASE i > at
    <3>1. i - 1 \in 1..Len(list) /\ j - 1 \in 1..Len(list) /\ i - 1 < j - 1
      BY <1>0, <1>1, <1>5, <2>5
    <3>2. new[i] = list[i - 1] /\ new[j] = list[j - 1]
      BY <1>0, <1>1, <1>3, <1>5, <2>5
    <3> QED BY <2>0, <3>1, <3>2
  <2> QED BY <1>0, <1>1, <1>5, <2>1, <2>2, <2>3, <2>4, <2>5
<1> QED BY <1>2, <1>3, <1>5 DEF Ordered

\* Removing the entry that may be out of order restores it.
LEMMA RemovedOrdered ==
    ASSUME NEW list \in Seq(Threads), NEW t \in Threads, NEW pr, IsInjective(list),
           OrderedBut(list, pr, t)
    PROVE  Ordered(RemoveThread(list, t), pr)
<1> DEFINE found == {i \in DOMAIN list : list[i] = t}
           at == First(found)
           new == RemoveAt(list, at)
<1>1. CASE found = {}
  BY <1>1 DEF RemoveThread, Ordered, OrderedBut
<1>2. CASE found # {}
  <2>1. at \in 1..Len(list) /\ list[at] = t
    <3>1. found \subseteq Nat
      OBVIOUS
    <3>2. at \in found
      BY <1>2, <3>1, FirstFacts
    <3> QED BY <3>2
  <2>2. RemoveThread(list, t) = new
    BY <1>2 DEF RemoveThread
  <2> HIDE DEF at
  <2>3. /\ Len(new) = Len(list) - 1
        /\ \A q \in 1..(Len(list) - 1) : new[q] = IF q < at THEN list[q] ELSE list[q + 1]
    BY <2>1, RemoveAtFacts
  <2> HIDE DEF new
  <2>4. \A i \in 1..Len(list) : list[i] = t => i = at
    BY <2>1 DEF IsInjective
  <2>5. ASSUME NEW i \in 1..(Len(list) - 1), NEW j \in 1..(Len(list) - 1), i < j
        PROVE  pr[new[i]] <= pr[new[j]]
    <3> DEFINE x == IF i < at THEN i ELSE i + 1
               y == IF j < at THEN j ELSE j + 1
    <3>1. x \in 1..Len(list) /\ y \in 1..Len(list) /\ x < y /\ x # at /\ y # at
      BY <2>1, <2>5
    <3>2. new[i] = list[x] /\ new[j] = list[y]
      BY <2>3
    <3> HIDE DEF x, y
    <3> QED BY <2>4, <3>1, <3>2 DEF OrderedBut
  <2> QED BY <2>2, <2>3, <2>5 DEF Ordered
<1> QED BY <1>1, <1>2

\* The lists of all waiters are in order.
Lists(s) == \A o \in Threads : Ordered(s.waiting[o], s.priority)

\* The functions of a kernel state that inheritance is about.
LEMMA SoundRanks ==
    ASSUME NEW s, Sound(s)
    PROVE  Ranks(s.nominal, s.owner, s.priority)
<1>1. /\ s.nominal \in [Threads -> Priorities] /\ s.priority \in [Threads -> Priorities]
      /\ s.owner \in [Threads -> Threads \cup {None}]
  BY DEF Sound, Kernel
<1> QED BY <1>1, MutexAssumption DEF Ranks

\* With its list in order, the head is the most urgent waiter.
LEMMA InheritedLeast ==
    ASSUME NEW s, Sound(s), NEW t \in Threads, Ordered(s.waiting[t], s.priority)
    PROVE  /\ Inherited(s, t) \in Nat
           /\ Least(s.nominal, s.owner, s.priority, t, Inherited(s, t))
<1> DEFINE list == s.waiting[t]
<1>1. /\ list \in Seq(Threads) /\ \A x \in Threads : x \in ToSet(list) <=> s.owner[x] = t
      /\ s.priority \in [Threads -> Nat] /\ s.nominal[t] \in Nat
  <2>1. list \in Seq(Threads) /\ \A x \in Threads : x \in ToSet(list) <=> s.owner[x] = t
    BY DEF Sound, Kernel
  <2> QED BY <2>1, SoundRanks DEF Ranks
<1>2. Inherited(s, t) \in Nat
  BY InheritedFacts, MutexAssumption
<1>3. CASE list = <<>>
  <2>1. \A x \in Threads : s.owner[x] # t
    BY <1>1, <1>3 DEF ToSet
  <2>2. Inherited(s, t) = s.nominal[t]
    BY <1>3 DEF Inherited
  <2> QED BY <1>1, <1>2, <2>1, <2>2 DEF Least
<1>4. CASE list # <<>>
  <2> DEFINE h == Head(list)
  <2>1. h = list[1] /\ 1 \in DOMAIN list /\ h \in Threads
    BY <1>1, <1>4
  <2>2. s.owner[h] = t
    BY <1>1, <2>1 DEF ToSet
  <2>3. ASSUME NEW x \in Threads, s.owner[x] = t PROVE s.priority[h] <= s.priority[x]
    <3>1. PICK i \in DOMAIN list : list[i] = x
      BY <1>1, <2>3 DEF ToSet
    <3>2. i \in 1..Len(list) /\ Len(list) \in Nat /\ (i = 1 \/ i > 1)
      BY <1>1
    <3>3. i > 1 => s.priority[list[1]] <= s.priority[list[i]]
      BY <2>1, <3>2 DEF Ordered
    <3> QED BY <1>1, <2>1, <3>1, <3>2, <3>3
  <2>4. Inherited(s, t) = IF s.priority[h] < s.nominal[t] THEN s.priority[h] ELSE s.nominal[t]
    BY <1>4 DEF Inherited
  <2>5. s.priority[h] \in Nat /\ \A x \in Threads : s.priority[x] \in Nat
    BY <1>1, <2>1
  <2> HIDE DEF h, list
  <2> QED BY <1>1, <1>2, <2>1, <2>2, <2>3, <2>4, <2>5 DEF Least
<1> QED BY <1>3, <1>4

\* Everybody's list is in order and everybody, but t, runs at the right priority.
AlmostSettled(s, t) ==
    Sound(s) /\ Lists(s) /\ FixedBut(s.nominal, s.owner, s.priority, t)

Settled(s) == Sound(s) /\ Lists(s) /\ Fixed(s.nominal, s.owner, s.priority)

\* A list without t is in order if it is so aside from t.
LEMMA OrderedWithout ==
    ASSUME NEW list \in Seq(Threads), NEW t, t \notin ToSet(list), NEW pr,
           OrderedBut(list, pr, t)
    PROVE  Ordered(list, pr)
<1>1. \A i \in 1..Len(list) : list[i] # t
  BY DEF ToSet
<1> QED BY <1>1 DEF Ordered, OrderedBut

\* r has the priority p for t, and otherwise the ranks and lists of s.
PrioritySet(s, r, t, p) ==
    /\ r.nominal = s.nominal /\ r.waiting = s.waiting /\ r.owner = s.owner
    /\ Updated(s.priority, r.priority, t, p)

\* r has the owner o for t, and otherwise the ranks of s.
OwnerSet(s, r, t, o) ==
    /\ r.nominal = s.nominal /\ r.priority = s.priority
    /\ Updated(s.owner, r.owner, t, o)

\* SetCurrentPriority changes one priority, which is out of order in no other
\* thread's place.
LEMMA SetShape ==
    ASSUME NEW s, Sound(s), NEW t \in Threads, NEW p \in Priorities,
           NEW r, r = SetCurrentPriority(s, t, p)
    PROVE  /\ PrioritySet(s, r, t, p)
           /\ Lists(s) => \A x \in Threads : OrderedBut(r.waiting[x], r.priority, t)
<1>0. s \in Kernel
  BY DEF Sound
<1>1. ASSUME s.status[t] = "WaitCondVar"
      PROVE  PrioritySet(s, r, t, p)
  <2> DEFINE a == RemoveConditionVariableThread(s, t)
             b == [a EXCEPT !.priority[t] = p]
  <2>1. a = [s EXCEPT !.conds = a.conds]
    BY <1>0 DEF RemoveConditionVariableThread, Kernel
  <2>2. /\ a.nominal = s.nominal /\ a.waiting = s.waiting /\ a.owner = s.owner
        /\ a.priority = s.priority
    BY <1>0 DEF RemoveConditionVariableThread, Kernel
  <2>3. r = InsertConditionVariableThread(b, t)
    BY <1>1 DEF SetCurrentPriority
  <2>4. /\ b.nominal = s.nominal /\ b.waiting = s.waiting /\ b.owner = s.owner
        /\ b.priority = [s.priority EXCEPT ![t] = p]
    BY <1>0 DEF RemoveConditionVariableThread, Kernel
  <2> HIDE DEF a
  <2>5. /\ r.nominal = s.nominal /\ r.waiting = s.waiting /\ r.owner = s.owner
        /\ r.priority = [s.priority EXCEPT ![t] = p]
    BY <1>0, <2>1, <2>2, <2>3 DEF InsertConditionVariableThread, Kernel
  <2> QED BY <2>5 DEF PrioritySet, Updated
<1>2. ASSUME s.status[t] # "WaitCondVar"
      PROVE  PrioritySet(s, r, t, p)
  BY <1>0, <1>2 DEF SetCurrentPriority, Kernel, PrioritySet, Updated
<1>3. PrioritySet(s, r, t, p)
  BY <1>1, <1>2
<1>4. ASSUME Lists(s), NEW x \in Threads PROVE OrderedBut(r.waiting[x], r.priority, t)
  <2>1. s.priority \in [Threads -> Priorities] /\ s.waiting[x] \in Seq(Threads)
    BY <1>0 DEF Kernel
  <2>2. Ordered(s.waiting[x], s.priority)
    BY <1>4 DEF Lists
  <2>3. \A i \in 1..Len(s.waiting[x]) : s.waiting[x][i] \in Threads
    BY <2>1
  <2>4. \A y \in Threads \ {t} : r.priority[y] = s.priority[y]
    BY <1>3, <2>1 DEF PrioritySet, Updated
  <2> QED BY <1>3, <2>2, <2>3, <2>4 DEF Ordered, OrderedBut, PrioritySet, Updated
<1> QED BY <1>3, <1>4

\* LinkWaiter keeps the order of the lists.
LEMMA LinkShape ==
    ASSUME NEW s, Sound(s), NEW o \in Threads, NEW t \in Threads, Lists(s),
           NEW r, r = LinkWaiter(s, o, t)
    PROVE  OwnerSet(s, r, t, o) /\ Lists(r)
<1>0. /\ s.waiting \in [Threads -> Seq(Threads)] /\ s \in Kernel
      /\ s.priority \in [Threads -> Nat]
  <2>1. s \in Kernel /\ s.waiting \in [Threads -> Seq(Threads)]
    BY DEF Sound, Kernel
  <2> QED BY <2>1, SoundRanks DEF Ranks
<1>1. /\ r.nominal = s.nominal /\ r.priority = s.priority
      /\ r.owner = [s.owner EXCEPT ![t] = o]
      /\ r.waiting = [s.waiting EXCEPT ![o] = InsertByPriority(s.waiting[o], t, s.priority)]
  BY <1>0 DEF LinkWaiter, Kernel
<1>2. Ordered(InsertByPriority(s.waiting[o], t, s.priority), s.priority)
  BY <1>0, InsertedOrdered DEF Lists
<1>3. ASSUME NEW x \in Threads PROVE Ordered(r.waiting[x], r.priority)
  <2>1. CASE x = o
    BY <1>0, <1>1, <1>2, <2>1
  <2>2. CASE x # o
    <3>1. r.waiting[x] = s.waiting[x]
      BY <1>0, <1>1, <2>2
    <3> QED BY <1>1, <3>1 DEF Lists
  <2> QED BY <2>1, <2>2
<1> QED BY <1>1, <1>3 DEF Lists, OwnerSet, Updated

\* UnlinkWaiter restores the order of the lists.
LEMMA UnlinkShape ==
    ASSUME NEW s, Sound(s), NEW o \in Threads, NEW t \in Threads, s.owner[t] = o,
           \A x \in Threads : OrderedBut(s.waiting[x], s.priority, t),
           NEW r, r = UnlinkWaiter(s, o, t)
    PROVE  OwnerSet(s, r, t, None) /\ Lists(r)
<1>0. s.waiting \in [Threads -> Seq(Threads)] /\ s \in Kernel
  BY DEF Sound, Kernel
<1>1. /\ r.nominal = s.nominal /\ r.priority = s.priority
      /\ r.owner = [s.owner EXCEPT ![t] = None]
      /\ r.waiting = [s.waiting EXCEPT ![o] = RemoveThread(s.waiting[o], t)]
  BY <1>0 DEF UnlinkWaiter, Kernel
<1>2. Ordered(RemoveThread(s.waiting[o], t), s.priority)
  <2>1. IsInjective(s.waiting[o]) /\ s.waiting[o] \in Seq(Threads)
    BY <1>0 DEF Sound
  <2> QED BY <2>1, RemovedOrdered
<1>3. ASSUME NEW x \in Threads PROVE Ordered(r.waiting[x], r.priority)
  <2>1. CASE x = o
    BY <1>0, <1>1, <1>2, <2>1
  <2>2. CASE x # o
    <3>1. r.waiting[x] = s.waiting[x]
      BY <1>0, <1>1, <2>2
    <3>2. t \notin ToSet(s.waiting[x]) /\ s.waiting[x] \in Seq(Threads)
      BY <1>0, <2>2 DEF Sound
    <3>3. Ordered(s.waiting[x], s.priority)
      BY <3>2, OrderedWithout
    <3> QED BY <1>1, <3>1, <3>3
  <2> QED BY <2>1, <2>2
<1> QED BY <1>1, <1>3 DEF Lists, OwnerSet, Updated

\* A thread without an owner is in no list, and its priority puts none out of order.
LEMMA SetRoot ==
    ASSUME NEW s, Sound(s), Lists(s), NEW t \in Threads, NEW p \in Priorities,
           s.owner[t] = None, NEW r, r = SetCurrentPriority(s, t, p)
    PROVE  Lists(r)
<1>0. PrioritySet(s, r, t, p)
  BY SetShape
<1>1. r.waiting = s.waiting
  BY <1>0 DEF PrioritySet, Updated
<1>2. \A x \in Threads : OrderedBut(r.waiting[x], r.priority, t)
  BY SetShape
<1>3. ASSUME NEW x \in Threads PROVE Ordered(r.waiting[x], r.priority)
  <2>1. t \notin ToSet(r.waiting[x]) /\ r.waiting[x] \in Seq(Threads)
    BY <1>1, MutexAssumption DEF Sound, Kernel
  <2> QED BY <1>2, <2>1, OrderedWithout
<1> QED BY <1>3 DEF Lists

\* A set of threads that lacks a member of another one is smaller.
LEMMA FewerThreads ==
    ASSUME NEW T \in SUBSET Threads, NEW t \in T, NEW S, S \subseteq T \ {t},
           NEW n \in Nat, n >= Cardinality(T)
    PROVE  n - 1 >= Cardinality(S) /\ n - 1 \in Nat
<1>1. IsFiniteSet(T)
  BY MutexAssumption, FS_Subset
<1>2. Cardinality(T \ {t}) = Cardinality(T) - 1 /\ IsFiniteSet(T \ {t})
  BY <1>1, FS_RemoveElement
<1>3. Cardinality(S) <= Cardinality(T \ {t}) /\ IsFiniteSet(S)
  BY <1>2, FS_Subset
<1>4. Cardinality(T) \in Nat /\ Cardinality(S) \in Nat /\ Cardinality(T \ {t}) \in Nat
  BY <1>1, <1>2, <1>3, FS_CardinalityType
<1> QED BY <1>2, <1>3, <1>4

\* t goes from pr[t] to v, then threads fall from where t was, then some are raised
\* to where t is: together all fall or all rise.
LEMMA FallThenRise ==
    ASSUME NEW pr \in [Threads -> Nat], NEW U \in SUBSET Threads, NEW t \in U,
           NEW v \in Nat, v # pr[t],
           NEW pr1, Updated(pr, pr1, t, v),
           NEW b \in [Threads -> Nat], Falls(pr1, b, U, pr[t]),
           NEW d \in [Threads -> Nat], NEW V,
           Rises(b, d, V, v),
           v > pr[t] => V = Urgent(pr, U, t),
           v < pr[t] => V = U
    PROVE  /\ b[t] = v /\ d[t] = v
           /\ v > pr[t] => Falls(pr, d, U, pr[t])
           /\ v < pr[t] => Rises(pr, d, U, v)
<1>1. \A x \in Threads : pr1[x] = IF x = t THEN v ELSE pr[x]
  BY DEF Updated
<1>2. \A x \in Threads : pr[x] \in Nat /\ b[x] \in Nat /\ d[x] \in Nat
  OBVIOUS
<1>3. t \in Threads /\ pr[t] \in Nat
  OBVIOUS
<1>4. \A x \in Threads : b[x] # (IF x = t THEN v ELSE pr[x]) =>
         x \in U /\ (IF x = t THEN v ELSE pr[x]) = pr[t] /\ b[x] > pr[t]
  BY <1>1 DEF Falls
<1>5. \A x \in Threads : d[x] # b[x] => x \in V /\ b[x] > v /\ d[x] >= v
  BY DEF Rises
<1>6. b[t] = v /\ d[t] = v
  BY <1>2, <1>3, <1>4, <1>5
<1>7. ASSUME v > pr[t] PROVE Falls(pr, d, U, pr[t])
  <2> SUFFICES ASSUME NEW x \in Threads, d[x] # pr[x]
               PROVE  x \in U /\ pr[x] = pr[t] /\ d[x] > pr[t]
    BY DEF Falls
  <2>1. CASE x = t
    BY <1>6, <1>7, <2>1
  <2>2. CASE x # t /\ d[x] # b[x]
    <3>1. x \in U /\ pr[x] <= pr[t] /\ b[x] > v /\ d[x] >= v
      BY <1>5, <1>7, <2>2 DEF Urgent
    <3>2. b[x] # pr[x]
      BY <1>2, <1>3, <1>7, <3>1
    <3> QED BY <1>2, <1>3, <1>4, <1>7, <2>2, <3>1, <3>2
  <2>3. CASE x # t /\ d[x] = b[x]
    BY <1>4, <2>3
  <2> QED BY <2>1, <2>2, <2>3
<1>8. ASSUME v < pr[t] PROVE Rises(pr, d, U, v)
  <2> SUFFICES ASSUME NEW x \in Threads, d[x] # pr[x]
               PROVE  x \in U /\ pr[x] > v /\ d[x] >= v
    BY DEF Rises
  <2>1. CASE x = t
    BY <1>2, <1>6, <1>8, <2>1
  <2>2. CASE x # t /\ d[x] # b[x]
    <3>1. x \in U /\ b[x] > v /\ d[x] >= v
      BY <1>5, <1>8, <2>2
    <3>2. b[x] # pr[x] => pr[x] = pr[t]
      BY <1>4, <2>2
    <3> QED BY <1>2, <1>3, <1>8, <3>1, <3>2
  <2>3. CASE x # t /\ d[x] = b[x]
    <3>1. x \in U /\ pr[x] = pr[t] /\ b[x] > pr[t]
      BY <1>4, <2>3
    <3> QED BY <1>2, <1>3, <1>8, <2>3, <3>1
  <2> QED BY <2>1, <2>2, <2>3
<1> QED BY <1>6, <1>7, <1>8

\* What both falls and rises stays.
LEMMA FallsAndRises ==
    ASSUME NEW pr \in [Threads -> Nat], NEW d \in [Threads -> Nat], NEW U, NEW q,
           Falls(pr, d, U, q), Rises(pr, d, U, q)
    PROVE  d = pr
<1>1. \A x \in Threads : pr[x] = q /\ pr[x] > q => FALSE
  OBVIOUS
<1>2. \A x \in Threads : d[x] = pr[x]
  BY <1>1 DEF Falls, Rises
<1> QED BY <1>2

\* n further links are enough to update t within U: no more threads than that can
\* fall from its priority, or be raised to the one it inherits.
Enough(n, s, t, U) ==
    LET pr == s.priority
        v == Inherited(s, t)
    IN \/ v = pr[t]
       \/ v > pr[t] /\ n >= Cardinality({x \in U : pr[x] = pr[t]})
       \/ v < pr[t] /\ n >= Cardinality({x \in U : pr[x] > v})

\* r is s after an update of t within U.
Settles(s, r, t, U) ==
    /\ Settled(r) /\ r.nominal = s.nominal /\ r.owner = s.owner
    /\ Inherited(s, t) >= s.priority[t] =>
         Falls(s.priority, r.priority, U, s.priority[t])
    /\ Inherited(s, t) <= s.priority[t] =>
         Rises(s.priority, r.priority, U, Inherited(s, t))

\* What a call of UpdatePriority that may follow n links does.
SettlesWith(up, n) ==
    \A s, t, U :
      /\ U \in SUBSET Threads /\ t \in U /\ AlmostSettled(s, t)
      /\ Closed(s.owner, U) /\ Enough(n, s, t, U)
      => Settles(s, up[<<s, t>>], t, U)

\* A thread that runs at the right priority completes the others.
LEMMA AlmostAndLast ==
    ASSUME NEW s, NEW t \in Threads, AlmostSettled(s, t)
    PROVE  Inherited(s, t) = s.priority[t] <=> Settled(s)
<1>1. Ranks(s.nominal, s.owner, s.priority)
  BY SoundRanks DEF AlmostSettled
<1>2. /\ Inherited(s, t) \in Nat
      /\ Least(s.nominal, s.owner, s.priority, t, Inherited(s, t))
  BY InheritedLeast DEF AlmostSettled, Lists
<1>3. ASSUME Inherited(s, t) = s.priority[t] PROVE Settled(s)
  BY <1>2, <1>3 DEF AlmostSettled, Settled, FixedBut, Fixed
<1>4. ASSUME Settled(s) PROVE Inherited(s, t) = s.priority[t]
  <2>1. Least(s.nominal, s.owner, s.priority, t, s.priority[t]) /\ s.priority[t] \in Nat
    BY <1>1, <1>4 DEF Settled, Fixed, Ranks
  <2> HIDE DEF Least
  <2> QED BY <1>1, <1>2, <2>1, LeastUnique
<1> QED BY <1>3, <1>4

\* A call for a thread that is right already changes no priority.
LEMMA SettledStays ==
    ASSUME NEW up, NEW n, SettlesWith(up, n), NEW s, Settled(s),
           NEW U \in SUBSET Threads, NEW t \in U, Closed(s.owner, U),
           NEW r, r = up[<<s, t>>]
    PROVE  /\ Settled(r) /\ r.nominal = s.nominal /\ r.owner = s.owner
           /\ r.priority = s.priority
<1>1. AlmostSettled(s, t)
  BY DEF Settled, AlmostSettled, Fixed, FixedBut
<1>2. Inherited(s, t) = s.priority[t]
  BY <1>1, AlmostAndLast
<1>3. Enough(n, s, t, U)
  BY <1>2 DEF Enough
<1>4. Settles(s, r, t, U)
  BY <1>1, <1>3 DEF SettlesWith
<1>5. s.priority \in [Threads -> Nat] /\ r.priority \in [Threads -> Nat]
  <2>1. Sound(s) /\ Sound(r)
    BY <1>4 DEF Settled, Settles
  <2> QED BY <2>1, SoundRanks DEF Ranks
<1>6. /\ Falls(s.priority, r.priority, U, s.priority[t])
      /\ Rises(s.priority, r.priority, U, s.priority[t])
  <2>1. s.priority[t] >= s.priority[t] /\ s.priority[t] <= s.priority[t]
    BY <1>5
  <2> QED BY <1>2, <1>4, <2>1 DEF Settles
<1>7. r.priority = s.priority
  BY <1>5, <1>6, FallsAndRises
<1> QED BY <1>4, <1>7 DEF Settles

\* The first call: t is out of the list of o and runs at v; only threads that ran
\* where t did fall.
LEMMA FirstCall ==
    ASSUME NEW up, NEW n \in Nat, SettlesWith(up, n - 1),
           NEW s, NEW U \in SUBSET Threads, NEW t \in U, AlmostSettled(s, t),
           Closed(s.owner, U), Enough(n, s, t, U), Inherited(s, t) # s.priority[t],
           NEW o \in U, s.owner[t] = o,
           NEW a, Sound(a), Lists(a), a.nominal = s.nominal,
           Updated(s.owner, a.owner, t, None),
           Updated(s.priority, a.priority, t, Inherited(s, t)),
           NEW b, b = up[<<a, o>>]
    PROVE  /\ Settled(b) /\ b.nominal = s.nominal /\ b.owner = a.owner
           /\ Falls(a.priority, b.priority, U, s.priority[t])
<1> DEFINE pr == s.priority
           v == Inherited(s, t)
           w == Inherited(a, o)
<1>0. t \in Threads /\ o \in Threads
  OBVIOUS
<1>1. /\ Sound(s) /\ Ranks(s.nominal, s.owner, pr) /\ v \in Nat /\ Least(s.nominal, s.owner, pr, t, v)
      /\ FixedBut(s.nominal, s.owner, pr, t)
  <2>1. Sound(s) /\ Lists(s) /\ FixedBut(s.nominal, s.owner, pr, t)
    BY DEF AlmostSettled
  <2>2. Ranks(s.nominal, s.owner, pr)
    BY <2>1, SoundRanks
  <2>3. v \in Nat /\ Least(s.nominal, s.owner, pr, t, v)
    BY <1>0, <2>1, InheritedLeast DEF Lists
  <2> QED BY <2>1, <2>2, <2>3
<1>2. w \in Nat /\ Least(s.nominal, a.owner, a.priority, o, w)
  BY <1>0, InheritedLeast DEF Lists
<1> HIDE DEF v, w, pr
<1>3. v # pr[t] /\ Updated(pr, a.priority, t, v)
  BY DEF v, pr
<1>4. /\ FixedBut(s.nominal, a.owner, a.priority, o)
      /\ w >= a.priority[o] /\ (w # a.priority[o] => a.priority[o] = pr[t])
  BY <1>0, <1>1, <1>2, <1>3, UnlinkedOwner
<1>5. AlmostSettled(a, o)
  BY <1>4 DEF AlmostSettled
<1>6. Closed(a.owner, U)
  <2>1. \A x \in U : a.owner[x] # None => a.owner[x] = s.owner[x]
    BY <1>1 DEF Ranks, Updated
  <2> QED BY <2>1 DEF Closed
<1>7. \A x \in Threads : a.priority[x] = IF x = t THEN v ELSE pr[x]
  BY <1>1, <1>3 DEF Ranks, Updated
<1>8. \A x \in Threads : pr[x] \in Nat /\ a.priority[x] \in Nat
  BY <1>1, <1>7 DEF Ranks
<1>9. Enough(n - 1, a, o, U)
  <2>1. CASE w = a.priority[o]
    BY <2>1 DEF Enough, w
  <2>2. CASE w # a.priority[o]
    <3> DEFINE S == {x \in U : a.priority[x] = a.priority[o]}
               T == IF v > pr[t] THEN {x \in U : pr[x] = pr[t]} ELSE {x \in U : pr[x] > v}
    <3>1. a.priority[o] = pr[t] /\ w > a.priority[o]
      BY <1>0, <1>2, <1>4, <1>8, <2>2
    <3>2. n >= Cardinality(T)
      <4>1. v > pr[t] \/ v < pr[t]
        BY <1>0, <1>1, <1>3, <1>8
      <4>2. \/ v > pr[t] /\ n >= Cardinality({x \in U : pr[x] = pr[t]})
            \/ v < pr[t] /\ n >= Cardinality({x \in U : pr[x] > v})
        BY <1>3 DEF Enough, v, pr
      <4>3. CASE v > pr[t] /\ n >= Cardinality({x \in U : pr[x] = pr[t]})
        BY <4>3
      <4>4. CASE v < pr[t] /\ n >= Cardinality({x \in U : pr[x] > v})
        <5>1. ~(v > pr[t])
          BY <1>0, <1>1, <1>8, <4>4
        <5> QED BY <4>4, <5>1
      <4> QED BY <4>2, <4>3, <4>4
    <3>3. T \in SUBSET Threads /\ t \in T
      BY <1>0, <1>1, <1>3, <1>8
    <3>4. S \subseteq T \ {t}
      BY <1>0, <1>1, <1>3, <1>7, <1>8, <3>1
    <3> HIDE DEF S, T
    <3>5. n - 1 >= Cardinality(S)
      BY <3>2, <3>3, <3>4, FewerThreads
    <3> QED BY <3>1, <3>5 DEF Enough, S, w
  <2> QED BY <2>1, <2>2
<1>10. Settles(a, b, o, U)
  BY <1>5, <1>6, <1>9 DEF SettlesWith
<1>11. Falls(a.priority, b.priority, U, a.priority[o])
  BY <1>4, <1>10 DEF Settles, w
<1>12. Falls(a.priority, b.priority, U, pr[t])
  <2>1. CASE w # a.priority[o]
    BY <1>4, <1>11, <2>1
  <2>2. CASE w = a.priority[o]
    <3>1. Rises(a.priority, b.priority, U, a.priority[o])
      <4>1. w <= a.priority[o]
        BY <1>0, <1>8, <2>2
      <4> QED BY <1>10, <2>2, <4>1 DEF Settles, w
    <3>2. a.priority \in [Threads -> Nat] /\ b.priority \in [Threads -> Nat]
      <4>1. Sound(b)
        BY <1>10 DEF Settles, Settled
      <4> QED BY <4>1, SoundRanks DEF Ranks
    <3>3. b.priority = a.priority
      BY <1>11, <3>1, <3>2, FallsAndRises
    <3> QED BY <3>3 DEF Falls
  <2> QED BY <2>1, <2>2
<1> QED BY <1>10, <1>12 DEF Settles, pr

\* The second call: t is back in the list of o; only threads less urgent than t
\* rise.
LEMMA SecondCall ==
    ASSUME NEW up, NEW n \in Nat, SettlesWith(up, n - 1),
           NEW s, NEW U \in SUBSET Threads, NEW t \in U, AlmostSettled(s, t),
           Closed(s.owner, U), Enough(n, s, t, U), Inherited(s, t) # s.priority[t],
           NEW o \in U, s.owner[t] = o,
           NEW b, Settled(b), b.nominal = s.nominal,
           Updated(s.owner, b.owner, t, None),
           NEW pr1, Updated(s.priority, pr1, t, Inherited(s, t)),
           Falls(pr1, b.priority, U, s.priority[t]),
           NEW c, Sound(c), Lists(c), c.nominal = s.nominal, c.owner = s.owner,
           c.priority = b.priority,
           NEW d, d = up[<<c, o>>]
    PROVE  Settles(s, d, t, U)
<1> DEFINE pr == s.priority
           v == Inherited(s, t)
           w == Inherited(c, o)
           V == IF v > pr[t] THEN Urgent(pr, U, t) ELSE U
<1>0. t \in Threads /\ o \in Threads
  OBVIOUS
<1>1. /\ Sound(s) /\ Ranks(s.nominal, s.owner, pr) /\ v \in Nat
      /\ FixedBut(s.nominal, s.owner, pr, t)
  <2>1. Sound(s) /\ Lists(s) /\ FixedBut(s.nominal, s.owner, pr, t)
    BY DEF AlmostSettled
  <2>2. Ranks(s.nominal, s.owner, pr)
    BY <2>1, SoundRanks
  <2>3. v \in Nat
    BY <1>0, <2>1, InheritedLeast DEF Lists
  <2> QED BY <2>1, <2>2, <2>3
<1>2. w \in Nat /\ Least(s.nominal, s.owner, b.priority, o, w)
  BY <1>0, InheritedLeast DEF Lists
<1> HIDE DEF v, w, pr
<1>3. v # pr[t] /\ Updated(pr, pr1, t, v) /\ Falls(pr1, b.priority, U, pr[t])
  BY DEF v, pr
<1>4. pr \in [Threads -> Nat] /\ b.priority \in [Threads -> Nat]
  <2>1. Ranks(b.nominal, b.owner, b.priority)
    BY SoundRanks DEF Settled
  <2> QED BY <1>1, <2>1 DEF Ranks
<1>5. b.priority[t] = v
  <2>1. \A x \in Threads : pr1[x] = IF x = t THEN v ELSE pr[x]
    BY <1>3, <1>4 DEF Updated
  <2> QED BY <1>0, <1>3, <2>1 DEF Falls
<1>6. /\ FixedBut(s.nominal, s.owner, b.priority, o)
      /\ w <= b.priority[o] /\ (w # b.priority[o] => w = v)
  <2>1. Ranks(s.nominal, b.owner, b.priority) /\ Fixed(s.nominal, b.owner, b.priority)
    BY SoundRanks DEF Settled
  <2>2. b.owner[t] = None /\ Updated(b.owner, s.owner, t, o)
    <3>1. s.owner \in [Threads -> Threads \cup {None}]
      BY <1>1 DEF Ranks
    <3> QED BY <1>0, <3>1 DEF Updated
  <2> QED BY <1>0, <1>2, <1>5, <2>1, <2>2, LinkedOwner
<1>7. AlmostSettled(c, o)
  BY <1>6 DEF AlmostSettled
<1>8. V \in SUBSET Threads /\ V \subseteq U /\ o \in V
  <2>1. pr[o] <= pr[t]
    <3>1. CASE o = t
      BY <1>0, <1>4, <3>1
    <3>2. CASE o # t
      <4>1. Least(s.nominal, s.owner, pr, o, pr[o])
        BY <1>0, <1>1, <3>2 DEF FixedBut
      <4> QED BY <1>0, <4>1 DEF Least
    <3> QED BY <3>1, <3>2
  <2> QED BY <2>1 DEF Urgent
<1>9. Closed(s.owner, V)
  BY <1>0, <1>1, UrgentClosed
<1>10. \A x \in Threads : pr[x] \in Nat /\ b.priority[x] \in Nat
  BY <1>4
<1>11. \A x \in Threads : x # t /\ b.priority[x] # pr[x] => x \in U /\ pr[x] = pr[t]
  <2>1. \A x \in Threads : pr1[x] = IF x = t THEN v ELSE pr[x]
    BY <1>3, <1>4 DEF Updated
  <2> QED BY <1>0, <1>3, <2>1 DEF Falls
<1>12. v > pr[t] \/ v < pr[t]
  BY <1>0, <1>1, <1>3, <1>10
<1>13. Enough(n - 1, c, o, V)
  <2>1. CASE w = b.priority[o]
    BY <2>1 DEF Enough, w
  <2>2. CASE w # b.priority[o]
    <3> DEFINE S == {x \in V : b.priority[x] > w}
               T == IF v > pr[t] THEN {x \in U : pr[x] = pr[t]} ELSE {x \in U : pr[x] > v}
    <3>1. w = v /\ w < b.priority[o]
      BY <1>0, <1>2, <1>6, <1>10, <2>2
    <3>2. n >= Cardinality(T)
      <4>2. \/ v > pr[t] /\ n >= Cardinality({x \in U : pr[x] = pr[t]})
            \/ v < pr[t] /\ n >= Cardinality({x \in U : pr[x] > v})
        BY <1>3 DEF Enough, v, pr
      <4>3. CASE v > pr[t] /\ n >= Cardinality({x \in U : pr[x] = pr[t]})
        BY <4>3
      <4>4. CASE v < pr[t] /\ n >= Cardinality({x \in U : pr[x] > v})
        <5>1. ~(v > pr[t])
          BY <1>0, <1>1, <1>10, <4>4
        <5> QED BY <4>4, <5>1
      <4> QED BY <4>2, <4>3, <4>4
    <3>3. T \in SUBSET Threads /\ t \in T
      BY <1>0, <1>1, <1>10, <1>12
    <3>4. S \subseteq T \ {t}
      <4> SUFFICES ASSUME NEW x \in V, b.priority[x] > v PROVE x \in T \ {t}
        BY <3>1
      <4>1. x # t /\ x \in U /\ x \in Threads
        BY <1>1, <1>5, <1>8
      <4>2. CASE v > pr[t]
        <5>1. pr[x] <= pr[t]
          BY <4>2 DEF Urgent
        <5>2. b.priority[x] # pr[x]
          BY <1>0, <1>1, <1>10, <4>1, <4>2, <5>1
        <5> QED BY <1>11, <4>1, <4>2, <5>2
      <4>3. CASE ~(v > pr[t])
        <5>1. pr[x] > v
          BY <1>0, <1>1, <1>10, <1>11, <1>12, <4>1, <4>3
        <5> QED BY <4>1, <4>3, <5>1
      <4> QED BY <4>2, <4>3
    <3> HIDE DEF S, T
    <3>5. n - 1 >= Cardinality(S)
      BY <3>2, <3>3, <3>4, FewerThreads
    <3> QED BY <3>1, <3>5 DEF Enough, S, w
  <2> QED BY <2>1, <2>2
<1> HIDE DEF V
<1>14. Settles(c, d, o, V)
  BY <1>7, <1>8, <1>9, <1>13 DEF SettlesWith
<1>15. Rises(b.priority, d.priority, V, w)
  BY <1>6, <1>14 DEF Settles, w
<1>16. d.priority \in [Threads -> Nat]
  <2>1. Sound(d)
    BY <1>14 DEF Settles, Settled
  <2> QED BY <2>1, SoundRanks DEF Ranks
<1>17. Rises(b.priority, d.priority, V, v)
  <2>1. CASE w # b.priority[o]
    BY <1>6, <1>15, <2>1
  <2>2. CASE w = b.priority[o]
    <3>1. Falls(b.priority, d.priority, V, w)
      <4>1. w >= b.priority[o]
        BY <1>0, <1>10, <2>2
      <4> QED BY <1>14, <2>2, <4>1 DEF Settles, w
    <3>2. d.priority = b.priority
      BY <1>4, <1>15, <1>16, <3>1, FallsAndRises
    <3> QED BY <3>2 DEF Rises
  <2> QED BY <2>1, <2>2
<1>18. /\ v > pr[t] => V = Urgent(pr, U, t)
       /\ v < pr[t] => V = U
  BY <1>0, <1>1, <1>10 DEF V
<1>19. /\ v > pr[t] => Falls(pr, d.priority, U, pr[t])
       /\ v < pr[t] => Rises(pr, d.priority, U, v)
  BY <1>1, <1>3, <1>4, <1>16, <1>17, <1>18, FallThenRise
<1>20. /\ v >= pr[t] => Falls(pr, d.priority, U, pr[t])
       /\ v <= pr[t] => Rises(pr, d.priority, U, v)
  BY <1>0, <1>1, <1>3, <1>10, <1>19
<1>21. Settled(d) /\ d.nominal = s.nominal /\ d.owner = s.owner
  BY <1>14 DEF Settles
<1> QED BY <1>20, <1>21 DEF Settles, v, pr

\* One link of the chain, when the next ones may follow one link less.
LEMMA UpdateLinkSettles ==
    ASSUME NEW up, Climbs(up), NEW n \in Nat, SettlesWith(up, n - 1),
           NEW s, NEW U \in SUBSET Threads, NEW t \in U, AlmostSettled(s, t),
           Closed(s.owner, U), Enough(n, s, t, U)
    PROVE  Settles(s, UpdateLink(up, s, t), t, U)
<1> DEFINE o == s.owner[t]
           v == Inherited(s, t)
           pr == s.priority
           set == SetCurrentPriority(s, t, v)
           Up(r) == up[<<r, o>>]
<1>0. t \in Threads /\ Sound(s) /\ Lists(s) /\ FixedBut(s.nominal, s.owner, pr, t)
  BY DEF AlmostSettled
<1>1. /\ Ranks(s.nominal, s.owner, pr) /\ v \in Nat /\ v \in Priorities
      /\ Least(s.nominal, s.owner, pr, t, v)
  <2>1. Ranks(s.nominal, s.owner, pr)
    BY <1>0, SoundRanks
  <2>2. v \in Nat /\ Least(s.nominal, s.owner, pr, t, v)
    BY <1>0, InheritedLeast DEF Lists
  <2>3. v \in Priorities
    BY <1>0, InheritedFacts
  <2> QED BY <2>1, <2>2, <2>3
<1>2. CASE v = pr[t]
  <2>1. UpdateLink(up, s, t) = s
    BY <1>2 DEF UpdateLink
  <2>2. Settled(s)
    BY <1>0, <1>2, AlmostAndLast
  <2> QED BY <2>1, <2>2 DEF Settles, Falls, Rises
<1>3. ASSUME v # pr[t]
      PROVE  /\ set = SetCurrentPriority(s, t, v)
             /\ PrioritySet(s, set, t, v) /\ Sound(set)
             /\ \A x \in Threads : OrderedBut(set.waiting[x], set.priority, t)
  <2> HIDE DEF v
  <2>1. Keeps(s, set)
    BY <1>0, <1>1, SetCurrentPriorityFacts
  <2>2. set = SetCurrentPriority(s, t, v)
    OBVIOUS
  <2> HIDE DEF set
  <2>3. PrioritySet(s, set, t, v) /\ \A x \in Threads : OrderedBut(set.waiting[x], set.priority, t)
    BY <1>0, <1>1, <2>2, SetShape
  <2> QED BY <2>1, <2>2, <2>3 DEF Keeps
<1>4. CASE v # pr[t] /\ o = None
  <2>1. UpdateLink(up, s, t) = set
    BY <1>4 DEF UpdateLink
  <2> HIDE DEF set, v, pr, o
  <2>2. Lists(set)
    BY <1>0, <1>1, <1>3, <1>4, SetRoot DEF o
  <2>3. /\ set.nominal = s.nominal /\ set.owner = s.owner
        /\ set.priority = [pr EXCEPT ![t] = v]
    BY <1>3, <1>4 DEF PrioritySet, Updated, pr
  <2>4. Fixed(s.nominal, s.owner, [pr EXCEPT ![t] = v])
    BY <1>0, <1>1, <1>4, RootSettles DEF o
  <2>5. Settled(set)
    BY <1>3, <1>4, <2>2, <2>3, <2>4 DEF Settled
  <2>6. \A x \in Threads : set.priority[x] # pr[x] => x = t /\ set.priority[x] = v
    BY <1>1, <2>3 DEF Ranks
  <2>7. pr[t] \in Nat
    BY <1>0, <1>1 DEF Ranks
  <2>8. /\ v >= pr[t] => Falls(pr, set.priority, U, pr[t])
        /\ v <= pr[t] => Rises(pr, set.priority, U, v)
    BY <1>1, <1>4, <2>6, <2>7 DEF Falls, Rises
  <2> QED BY <2>1, <2>3, <2>5, <2>8 DEF Settles, v, pr
<1>5. CASE v # pr[t] /\ o # None
  <2> DEFINE a == UnlinkWaiter(set, o, t)
             b == Up(a)
             c == LinkWaiter(b, o, t)
             d == Up(c)
             e == Up(d)
  <2>0. UpdateLink(up, s, t) = e
    BY <1>5 DEF UpdateLink
  <2>1. o \in U /\ o \in Threads /\ s.owner[t] = o
    BY <1>5 DEF Closed
  <2>2. v # pr[t] /\ Inherited(s, t) # s.priority[t]
    BY <1>5
  <2> HIDE DEF set, v, pr, o
  <2>3. /\ set.nominal = s.nominal /\ set.owner = s.owner
        /\ Updated(pr, set.priority, t, v)
    BY <1>3, <2>2 DEF PrioritySet, pr
  <2>4. Moves(set, a, t, None)
    BY <1>0, <1>3, <2>1, <2>2, <2>3, UnlinkWaiterFacts
  <2>5. OwnerSet(set, a, t, None) /\ Lists(a)
    <3>1. a = UnlinkWaiter(set, o, t) /\ set.owner[t] = o
      BY <2>1, <2>3
    <3> HIDE DEF a
    <3> QED BY <1>0, <1>3, <2>1, <2>2, <3>1, UnlinkShape
  <2> HIDE DEF a
  <2>6. /\ Sound(a) /\ a.nominal = s.nominal /\ Updated(s.owner, a.owner, t, None)
        /\ Updated(pr, a.priority, t, v)
    BY <2>3, <2>4, <2>5 DEF OwnerSet, Moves
  <2>7. /\ Settled(b) /\ b.nominal = s.nominal /\ b.owner = a.owner
        /\ Falls(a.priority, b.priority, U, pr[t])
    BY <2>1, <2>2, <2>5, <2>6, FirstCall DEF pr, v
  <2>8. Sound(b) /\ Lists(b) /\ b.owner[t] = None
    <3>1. a.owner[t] = None
      BY <1>0, <2>4 DEF Moves
    <3> QED BY <2>7, <3>1 DEF Settled
  <2> HIDE DEF b
  <2>9. Moves(b, c, t, o)
    BY <1>0, <2>1, <2>8, LinkWaiterFacts
  <2>10. OwnerSet(b, c, t, o) /\ Lists(c)
    <3>1. c = LinkWaiter(b, o, t)
      OBVIOUS
    <3> HIDE DEF c
    <3> QED BY <1>0, <2>1, <2>8, <3>1, LinkShape
  <2> HIDE DEF c
  <2>11. /\ Sound(c) /\ Lists(c) /\ c.nominal = s.nominal /\ c.owner = s.owner
         /\ c.priority = b.priority
    <3>1. c.owner = [[s.owner EXCEPT ![t] = None] EXCEPT ![t] = o]
      BY <2>6, <2>7, <2>10 DEF OwnerSet, Updated
    <3>2. c.owner = s.owner
      BY <1>0, <1>1, <2>1, <3>1 DEF Ranks
    <3> QED BY <2>7, <2>9, <2>10, <3>2 DEF OwnerSet, Moves
  <2>12. Updated(s.owner, b.owner, t, None)
    BY <2>6, <2>7
  <2>13. Settles(s, d, t, U)
    BY <2>1, <2>2, <2>6, <2>7, <2>11, <2>12, SecondCall DEF pr, v
  <2> HIDE DEF d
  <2>14. e = up[<<d, o>>] /\ Settled(d) /\ Closed(d.owner, U)
    BY <2>13 DEF Settles
  <2> HIDE DEF e
  <2>15. /\ Settled(e) /\ e.nominal = d.nominal /\ e.owner = d.owner
         /\ e.priority = d.priority
    BY <2>1, <2>14, SettledStays
  <2> QED BY <2>0, <2>13, <2>15 DEF Settles
<1> QED BY <1>2, <1>4, <1>5

\* No link is enough only for a thread that is right already.
LEMMA EnoughNothing ==
    ASSUME NEW s, NEW U \in SUBSET Threads, NEW t \in U, AlmostSettled(s, t),
           Enough(0, s, t, U)
    PROVE  Inherited(s, t) = s.priority[t]
<1> DEFINE pr == s.priority
           v == Inherited(s, t)
<1>1. v \in Nat /\ pr \in [Threads -> Nat] /\ t \in Threads
  <2>1. Sound(s) /\ Ordered(s.waiting[t], s.priority) /\ t \in Threads
    BY DEF AlmostSettled, Lists
  <2>2. v \in Nat
    BY <2>1, InheritedLeast
  <2> QED BY <2>1, <2>2, SoundRanks DEF Ranks
<1>2. ASSUME NEW T \in SUBSET Threads, t \in T, 0 >= Cardinality(T) PROVE FALSE
  <2>1. {} \subseteq T \ {t}
    OBVIOUS
  <2>2. 0 - 1 \in Nat
    BY <1>2, <2>1, FewerThreads
  <2> QED BY <2>2
<1>3. ~(v > pr[t] /\ 0 >= Cardinality({x \in U : pr[x] = pr[t]}))
  <2>1. {x \in U : pr[x] = pr[t]} \in SUBSET Threads /\ t \in {x \in U : pr[x] = pr[t]}
    OBVIOUS
  <2> QED BY <1>2, <2>1
<1>4. ~(v < pr[t] /\ 0 >= Cardinality({x \in U : pr[x] > v}))
  <2>1. {x \in U : pr[x] > v} \in SUBSET Threads
    OBVIOUS
  <2>2. v < pr[t] => t \in {x \in U : pr[x] > v}
    BY <1>1
  <2> QED BY <1>2, <2>1, <2>2
<1> QED BY <1>3, <1>4 DEF Enough

\* So every number of links does what it is enough for.
LEMMA ChainSettles ==
    \A n \in 0 .. Cardinality(Threads) : SettlesWith(UpdateChain[n], n)
<1> DEFINE N == Cardinality(Threads)
           T == {m \in 0..N : ~SettlesWith(UpdateChain[m], m)}
<1>0. N \in Nat
  BY MutexAssumption, FS_CardinalityType
<1>1. ASSUME T # {} PROVE FALSE
  <2>1. T \subseteq Nat
    BY <1>0
  <2> DEFINE m == First(T)
  <2>2. m \in T /\ \A q \in T : m <= q
    <3> HIDE DEF T
    <3> QED BY <1>1, <2>1, FirstFacts
  <2>3. m \in 0..N /\ m \in Nat /\ ~SettlesWith(UpdateChain[m], m)
    BY <1>0, <2>2
  <2>4. \A s, t : AlmostSettled(s, t) /\ t \in Threads => <<s, t>> \in Kernel \X Threads
    BY DEF AlmostSettled, Sound
  <2> HIDE DEF m
  <2> SUFFICES ASSUME NEW s, NEW t, NEW U, U \in SUBSET Threads, t \in U, AlmostSettled(s, t),
                      Closed(s.owner, U), Enough(m, s, t, U)
               PROVE  Settles(s, UpdateChain[m][<<s, t>>], t, U)
    BY <2>3 DEF SettlesWith
  <2>5. CASE m = 0
    <3>1. UpdateChain[m][<<s, t>>] = s
      BY <2>3, <2>4, <2>5, UpdateChainFacts
    <3>2. Settled(s)
      BY <2>5, EnoughNothing, AlmostAndLast
    <3> QED BY <3>1, <3>2 DEF Settles, Falls, Rises
  <2>6. CASE m # 0
    <3>1. m - 1 \in 0..N /\ m - 1 \notin T
      BY <1>0, <2>2, <2>3, <2>6
    <3> DEFINE up == UpdateChain[m - 1]
    <3>2. SettlesWith(up, m - 1) /\ Climbs(up)
      BY <3>1, ChainClimbs
    <3>3. UpdateChain[m] = [x \in Kernel \X Threads |-> UpdateLink(up, x[1], x[2])]
      BY <2>3, <2>6, UpdateChainFacts
    <3> HIDE DEF up
    <3>4. UpdateChain[m][<<s, t>>] = UpdateLink(up, s, t)
      BY <2>4, <3>3
    <3> QED BY <2>3, <3>2, <3>4, UpdateLinkSettles
  <2> QED BY <2>5, <2>6
<1> QED BY <1>1

\* UpdatePriority settles everybody when only its thread may be wrong: the bound of
\* UpdateChain never ends the walk along the owners, not even around a cycle.
LEMMA UpdatePrioritySettles ==
    ASSUME NEW s, NEW t \in Threads, AlmostSettled(s, t)
    PROVE  Settled(UpdatePriority(s, t))
<1> DEFINE N == Cardinality(Threads)
           pr == s.priority
           v == Inherited(s, t)
<1>1. N \in Nat /\ N \in 0..N
  BY MutexAssumption, FS_CardinalityType
<1>2. SettlesWith(UpdateChain[N], N)
  BY <1>1, ChainSettles
<1>3. Closed(s.owner, Threads)
  BY DEF Closed, AlmostSettled, Sound, Kernel
<1>4. v \in Nat /\ pr[t] \in Nat
  <2>1. Sound(s) /\ Ordered(s.waiting[t], s.priority)
    BY DEF AlmostSettled, Lists
  <2>2. v \in Nat
    BY <2>1, InheritedLeast
  <2> QED BY <2>1, <2>2, SoundRanks DEF Ranks
<1>5. \A T \in SUBSET Threads : N >= Cardinality(T)
  <2> TAKE T \in SUBSET Threads
  <2>1. IsFiniteSet(T) /\ Cardinality(T) <= N
    BY MutexAssumption, FS_Subset
  <2>2. Cardinality(T) \in Nat
    BY <2>1, FS_CardinalityType
  <2> HIDE DEF N
  <2> QED BY <1>1, <2>1, <2>2
<1>6. Enough(N, s, t, Threads)
  <2>1. {x \in Threads : pr[x] = pr[t]} \in SUBSET Threads /\ {x \in Threads : pr[x] > v} \in SUBSET Threads
    OBVIOUS
  <2>2. /\ N >= Cardinality({x \in Threads : pr[x] = pr[t]})
        /\ N >= Cardinality({x \in Threads : pr[x] > v})
    <3> HIDE DEF N
    <3> QED BY <1>5, <2>1
  <2>3. v = pr[t] \/ v > pr[t] \/ v < pr[t]
    BY <1>4
  <2> QED BY <2>2, <2>3 DEF Enough
<1>7. Settles(s, UpdateChain[N][<<s, t>>], t, Threads)
  <2> HIDE DEF N
  <2> QED BY <1>2, <1>3, <1>6 DEF SettlesWith
<1> QED BY <1>7 DEF Settles, UpdatePriority

\* r has the priorities, the owners and the lists of waiters of s.
SameRanks(s, r) ==
    /\ r.nominal = s.nominal /\ r.priority = s.priority
    /\ r.owner = s.owner /\ r.waiting = s.waiting

\* Nothing else matters for inheritance.
LEMMA SameRanksSettled ==
    ASSUME NEW s, Settled(s), NEW r, Sound(r), SameRanks(s, r)
    PROVE  Settled(r)
BY DEF Settled, SameRanks, Lists

\* A thread that leaves its owner's list can disturb that owner only.
LEMMA WithoutWaiter ==
    ASSUME NEW nom, NEW ow, NEW pr, Ranks(nom, ow, pr), NEW t \in Threads,
           Fixed(nom, ow, pr), NEW o \in Threads, ow[t] = o,
           NEW ow1, Updated(ow, ow1, t, None)
    PROVE  FixedBut(nom, ow1, pr, o)
<1>1. \A y \in Threads : ow1[y] = IF y = t THEN None ELSE ow[y]
  BY DEF Ranks, Updated
<1>2. None \notin Threads
  BY MutexAssumption
<1>3. ASSUME NEW x \in Threads \ {o} PROVE Least(nom, ow1, pr, x, pr[x])
  <2>1. \A y \in Threads : ow1[y] = x <=> ow[y] = x
    BY <1>1, <1>2
  <2>2. Least(nom, ow, pr, x, pr[x])
    BY DEF Fixed
  <2> QED BY <2>1, <2>2 DEF Least
<1> QED BY <1>3 DEF FixedBut

\* A list in order is so but for one entry.
LEMMA ListsBut ==
    ASSUME NEW s, Lists(s), NEW t
    PROVE  \A x \in Threads : OrderedBut(s.waiting[x], s.priority, t)
BY DEF Lists, Ordered, OrderedBut

\* Thread::AddMutexWaiter: the owner, and its owners in turn, inherit.
LEMMA AddMutexWaiterSettles ==
    ASSUME NEW s, Settled(s), NEW o \in Threads, NEW t \in Threads, s.owner[t] = None
    PROVE  Settled(AddMutexWaiter(s, o, t))
<1> DEFINE a == LinkWaiter(s, o, t)
<1>0. Sound(s) /\ Lists(s) /\ Fixed(s.nominal, s.owner, s.priority)
  BY DEF Settled
<1>1. Moves(s, a, t, o)
  BY <1>0, LinkWaiterFacts
<1>2. AddMutexWaiter(s, o, t) = UpdatePriority(a, o)
  BY MutexAssumption DEF AddMutexWaiter
<1>3. a = LinkWaiter(s, o, t)
  OBVIOUS
<1> HIDE DEF a
<1>4. OwnerSet(s, a, t, o) /\ Lists(a)
  BY <1>0, <1>3, LinkShape
<1>5. Sound(a)
  BY <1>1 DEF Moves
<1>6. /\ Inherited(a, o) \in Nat
      /\ Least(a.nominal, a.owner, a.priority, o, Inherited(a, o))
  BY <1>4, <1>5, InheritedLeast DEF Lists
<1>7. /\ a.nominal = s.nominal /\ a.priority = s.priority /\ Updated(s.owner, a.owner, t, o)
  BY <1>4 DEF OwnerSet
<1>8. FixedBut(s.nominal, a.owner, s.priority, o)
  <2>1. Ranks(s.nominal, s.owner, s.priority)
    BY <1>0, SoundRanks
  <2>2. Least(s.nominal, a.owner, s.priority, o, Inherited(a, o))
    BY <1>6, <1>7
  <2> QED BY <1>0, <1>6, <1>7, <2>1, <2>2, LinkedOwner
<1>9. AlmostSettled(a, o)
  BY <1>4, <1>5, <1>7, <1>8 DEF AlmostSettled
<1> QED BY <1>2, <1>9, UpdatePrioritySettles

\* Thread::RemoveMutexWaiter: they give back what they had inherited.
LEMMA RemoveMutexWaiterSettles ==
    ASSUME NEW s, Settled(s), NEW o \in Threads, NEW t \in Threads, s.owner[t] = o
    PROVE  Settled(RemoveMutexWaiter(s, o, t))
<1> DEFINE a == UnlinkWaiter(s, o, t)
<1>0. Sound(s) /\ Lists(s) /\ Fixed(s.nominal, s.owner, s.priority)
  BY DEF Settled
<1>1. Moves(s, a, t, None)
  BY <1>0, UnlinkWaiterFacts
<1>2. RemoveMutexWaiter(s, o, t) = UpdatePriority(a, o)
  BY DEF RemoveMutexWaiter
<1>3. a = UnlinkWaiter(s, o, t)
  OBVIOUS
<1> HIDE DEF a
<1>4. OwnerSet(s, a, t, None) /\ Lists(a)
  <2>1. \A x \in Threads : OrderedBut(s.waiting[x], s.priority, t)
    BY <1>0, ListsBut
  <2> QED BY <1>0, <1>3, <2>1, UnlinkShape
<1>5. Sound(a)
  BY <1>1 DEF Moves
<1>6. /\ a.nominal = s.nominal /\ a.priority = s.priority /\ Updated(s.owner, a.owner, t, None)
  BY <1>4 DEF OwnerSet
<1>7. FixedBut(s.nominal, a.owner, s.priority, o)
  <2>1. Ranks(s.nominal, s.owner, s.priority)
    BY <1>0, SoundRanks
  <2> QED BY <1>0, <1>6, <2>1, WithoutWaiter
<1>8. AlmostSettled(a, o)
  BY <1>4, <1>5, <1>6, <1>7 DEF AlmostSettled
<1> QED BY <1>2, <1>8, UpdatePrioritySettles

\* So does LeaveOwner, for a thread with an owner or without.
LEMMA LeaveOwnerSettles ==
    ASSUME NEW s, Settled(s), NEW t \in Threads
    PROVE  Settled(LeaveOwner(s, t))
<1>1. CASE s.owner[t] = None
  BY <1>1 DEF LeaveOwner
<1>2. CASE s.owner[t] # None
  <2> DEFINE o == s.owner[t]
  <2>1. o \in Threads
    BY <1>2 DEF Settled, Sound, Kernel
  <2>2. LeaveOwner(s, t) = RemoveMutexWaiter(s, o, t)
    BY <1>2 DEF LeaveOwner
  <2>3. s.owner[t] = o
    OBVIOUS
  <2> HIDE DEF o
  <2> QED BY <2>1, <2>2, <2>3, RemoveMutexWaiterSettles
<1> QED BY <1>1, <1>2

\* One round of the loop of TransferMutexOwnership.
LEMMA TransferRoundSettles ==
    ASSUME NEW s, Sound(s), NEW m, NEW o \in Threads, NEW new \in Threads, new # o,
           NEW list, list = s.waiting[o], NEW n \in 1..Len(list),
           NEW r, Transferred(s, r, list, n - 1, m, new), s.address[list[n]] = m,
           Settled(r)
    PROVE  Settled(AddMutexWaiter(RemoveMutexWaiter(r, o, list[n]), new, list[n]))
<1> DEFINE t == list[n]
           a == RemoveMutexWaiter(r, o, t)
<1>0. list \in Seq(Threads) /\ IsInjective(list) /\ Len(list) \in Nat
  BY DEF Sound, Kernel
<1>1. t \in Threads /\ s.owner[t] = o
  BY <1>0 DEF Sound, ToSet
<1>2. \A i \in 1..(n - 1) : list[i] # t
  BY <1>0 DEF IsInjective
<1>3. r.owner[t] = o
  BY <1>1, <1>2 DEF Transferred
<1> HIDE DEF t
<1>4. Moves(r, a, t, None)
  BY <1>1, <1>3, RemoveMutexWaiterFacts DEF Transferred
<1>5. Settled(a)
  BY <1>1, <1>3, RemoveMutexWaiterSettles
<1> HIDE DEF a
<1>6. a.owner[t] = None
  BY <1>1, <1>4 DEF Moves
<1>7. Settled(AddMutexWaiter(a, new, t))
  BY <1>1, <1>5, <1>6, AddMutexWaiterSettles
<1> QED BY <1>7 DEF a, t

\* TransferMutexOwnership: the old owner gives back what it inherited from the
\* waiters for the mutex, and the new owner inherits it from those that remain.
LEMMA TransferSettles ==
    ASSUME NEW s, Settled(s), NEW m, NEW o \in Threads, NEW new \in Threads, new # o,
           s.owner[new] = o, NEW r, r = TransferMutexOwnership(s, m, o, new)
    PROVE  Settled(r)
<1> DEFINE a == RemoveMutexWaiter(s, o, new)
           list == a.waiting[o]
           after == TransferRounds(a, m, o, new)
           N == Len(list)
           Ok(j) == Transferred(a, after[j], list, j, m, new) /\ Settled(after[j])
           T == {j \in 0..N : ~Ok(j)}
<1>1. Settled(a)
  BY RemoveMutexWaiterSettles
<1>2. r = after[N]
  BY DEF TransferMutexOwnership
<1> HIDE DEF a
<1>3. Sound(a)
  BY <1>1 DEF Settled
<1>4. list \in Seq(Threads) /\ N \in Nat
  BY <1>3 DEF Sound, Kernel
<1>5. \A n \in 0..N :
        after[n] = IF n = 0 THEN a
                   ELSE IF a.address[list[n]] # m THEN after[n - 1]
                   ELSE AddMutexWaiter(RemoveMutexWaiter(after[n - 1], o, list[n]),
                                       new, list[n])
  BY <1>4, TransferRoundsFacts
<1>6. list = a.waiting[o] /\ N = Len(list)
  OBVIOUS
<1> HIDE DEF list, after, N
<1>7. ASSUME T # {} PROVE FALSE
  <2>1. T \subseteq Nat
    BY <1>4
  <2> DEFINE j == First(T)
  <2>2. j \in T /\ \A q \in T : j <= q
    <3> HIDE DEF T
    <3> QED BY <1>7, <2>1, FirstFacts
  <2> HIDE DEF j
  <2>3. j \in 0..N /\ ~Ok(j)
    BY <2>2
  <2>4. CASE j = 0
    <3>1. after[j] = a
      BY <1>5, <2>3, <2>4
    <3>2. Transferred(a, a, list, 0, m, new)
      BY <1>3 DEF Transferred, Same
    <3> QED BY <1>1, <2>3, <2>4, <3>1, <3>2
  <2>5. CASE j # 0
    <3>1. j - 1 \in 0..N /\ j - 1 \notin T /\ j \in 1..Len(list)
      BY <1>4, <1>6, <2>2, <2>3, <2>5
    <3> DEFINE b == after[j - 1]
    <3>2. Transferred(a, b, list, j - 1, m, new) /\ Settled(b)
      BY <3>1
    <3>3. after[j] = IF a.address[list[j]] # m THEN b
                     ELSE AddMutexWaiter(RemoveMutexWaiter(b, o, list[j]), new, list[j])
      BY <1>5, <2>3, <2>5
    <3> HIDE DEF b
    <3>4. CASE a.address[list[j]] = m
      <4> DEFINE e == AddMutexWaiter(RemoveMutexWaiter(b, o, list[j]), new, list[j])
      <4>1. after[j] = e
        BY <3>3, <3>4
      <4>2. list = a.waiting[o] /\ j \in 1..Len(list)
        BY <1>6, <3>1
      <4>3. Transferred(a, e, list, j, m, new)
        BY <1>3, <3>2, <3>4, <4>2, TransferRoundStep
      <4>4. Settled(e)
        BY <1>3, <3>2, <3>4, <4>2, TransferRoundSettles
      <4> HIDE DEF e
      <4> QED BY <2>3, <4>1, <4>3, <4>4
    <3>5. CASE a.address[list[j]] # m
      <4>1. after[j] = b
        BY <3>3, <3>5
      <4>2. \A u : a.address[u] = m =>
              ((\E i \in 1..j : list[i] = u) <=> \E i \in 1..(j - 1) : list[i] = u)
        BY <3>1, <3>5
      <4>3. Transferred(a, b, list, j, m, new)
        BY <3>2, <4>2 DEF Transferred
      <4> QED BY <2>3, <3>2, <4>1, <4>3
    <3> QED BY <3>4, <3>5
  <2> QED BY <2>4, <2>5
<1>8. N \in 0..N
  BY <1>4
<1>9. Ok(N)
  BY <1>7, <1>8
<1> QED BY <1>2, <1>9

\* Unlock writes nothing else that inheritance depends on.
LEMMA UnlockSettles ==
    ASSUME NEW s, Settled(s), NEW o \in Threads, s.owner[o] = None, NEW m \in Mutexes,
           NEW r, r = Unlock(s, o, m)
    PROVE  Settled(r)
<1> DEFINE ws == MutexWaiters(s, o, m)
<1>0. Sound(s) /\ s \in Kernel /\ None \notin Threads
  BY MutexAssumption DEF Settled, Sound
<1>1. Sound(r)
  BY <1>0, UnlockFacts DEF Freed, Handed
<1>2. CASE ws = {}
  <2>1. r = [s EXCEPT !.word[m] = Free]
    BY <1>2 DEF Unlock
  <2>2. SameRanks(s, r)
    BY <1>0, <2>1 DEF Kernel, SameRanks
  <2> QED BY <1>1, <2>2, SameRanksSettled
<1>3. CASE ws # {}
  <2> DEFINE new == HighestPriorityWaiter(s, o, m)
             a == TransferMutexOwnership(s, m, o, new)
             w == [owner |-> new, waiters |-> Cardinality(ws) >= 2]
  <2>1. new \in Threads /\ s.owner[new] = o
    BY <1>0, <1>3, HighestPriorityWaiterFacts
  <2>2. new # o
    BY <1>0, <2>1
  <2>3. r = [[a EXCEPT !.status[new] = "Ready"] EXCEPT
                !.result[new] = "SUCCESS",
                !.owner[new] = None,
                !.word[m] = w]
    BY <1>3 DEF Unlock, Resume
  <2> HIDE DEF new, ws, w
  <2>4. Settled(a)
    BY <2>1, <2>2, TransferSettles
  <2>5. a.owner[new] = None
    BY <1>0, <2>1, <2>2, TransferFacts
  <2> HIDE DEF a
  <2>6. a \in Kernel
    BY <2>4 DEF Settled, Sound
  <2>7. /\ r.nominal = a.nominal /\ r.priority = a.priority /\ r.waiting = a.waiting
        /\ r.owner = [a.owner EXCEPT ![new] = None]
    BY <2>3, <2>6 DEF Kernel
  <2>8. r.owner = a.owner
    BY <2>1, <2>5, <2>6, <2>7 DEF Kernel
  <2>9. SameRanks(a, r)
    BY <2>7, <2>8 DEF SameRanks
  <2> QED BY <1>1, <2>4, <2>9, SameRanksSettled
<1> QED BY <1>2, <1>3

\* One thread is signalled: it has no owner, so that taking the mutex leaves all
\* priorities, and waiting for its owner is AddMutexWaiter.
LEMMA SignalOneSettles ==
    ASSUME NEW s, NEW P, NEW A, NEW H, Good(s, P, A, H), NEW t \in Threads, ListedIn(s, t),
           Settled(s), NEW r, r = SignalOne(s, t)
    PROVE  Settled(r)
<1> DEFINE m == s.address[t]
           a == RemoveConditionVariableThread(s, t)
<1>0. s \in Kernel /\ None \notin Threads /\ Sound(s) /\ Sound(r)
  <2>1. Good(r, P, A, H)
    BY SignalOneGood
  <2> QED BY <2>1, MutexAssumption DEF Good, Sound
<1>1. s.owner[t] = None /\ m \in Mutexes
  BY DEF Good, CallOK
<1>2. Delisted(s, a, t)
  BY <1>0, RemoveConditionVariableThreadFacts
<1>3. a \in Kernel /\ SameRanks(s, a)
  BY <1>2 DEF Delisted, SameRanks
<1>4. CASE s.word[m] = Free
  <2> DEFINE b == [a EXCEPT !.word[m].owner = t]
  <2>1. r = [Resume(LeaveOwner(b, t), t) EXCEPT !.owner[t] = None, !.result[t] = "SUCCESS"]
    BY <1>4 DEF SignalOne
  <2> HIDE DEF a, m
  <2>2. /\ b.nominal = s.nominal /\ b.priority = s.priority
        /\ b.owner = s.owner /\ b.waiting = s.waiting
    BY <1>3 DEF Kernel, SameRanks
  <2>3. LeaveOwner(b, t) = b
    BY <1>1, <2>2 DEF LeaveOwner
  <2>4. /\ r.nominal = b.nominal /\ r.priority = b.priority /\ r.waiting = b.waiting
        /\ r.owner = [b.owner EXCEPT ![t] = None]
    <3>1. b = [a EXCEPT !.word = b.word]
      BY <1>3 DEF Kernel
    <3> HIDE DEF b
    <3> QED BY <1>3, <2>1, <2>3, <3>1 DEF Resume, Kernel
  <2> HIDE DEF b
  <2>5. r.owner = s.owner
    <3>1. s.owner \in [Threads -> Threads \cup {None}]
      BY <1>0 DEF Kernel
    <3> QED BY <1>1, <2>2, <2>4, <3>1
  <2>6. SameRanks(s, r)
    BY <2>2, <2>4, <2>5 DEF SameRanks
  <2> QED BY <1>0, <2>6, SameRanksSettled
<1>5. CASE s.word[m] # Free
  <2> DEFINE b == [a EXCEPT !.word[m].waiters = TRUE,
                            !.status[t] = IF @ = "WaitCondVar" THEN "WaitMutex" ELSE @]
             o == s.word[m].owner
  <2>1. r = AddMutexWaiter(b, o, t)
    BY <1>5 DEF SignalOne
  <2>2. Blocks(a, b, t, m)
    <3> HIDE DEF a, m
    <3> QED BY <1>1, <1>2, <1>5, BlocksFacts DEF Delisted
  <2>3. o \in Threads
    <3>1. o \in Threads \cup {None} /\ (o = None <=> s.word[m] = Free)
      BY <1>0, <1>1, WordFacts
    <3> QED BY <1>5, <3>1
  <2> HIDE DEF a, m, o
  <2>4. SameRanks(s, b)
    BY <1>3 DEF Kernel, SameRanks
  <2> HIDE DEF b
  <2>5. Sound(b) /\ b.owner[t] = None
    BY <1>0, <1>1, <1>2, <2>2, BlockedSound
  <2>6. Settled(b)
    BY <2>4, <2>5, SameRanksSettled
  <2> QED BY <2>1, <2>3, <2>5, <2>6, AddMutexWaiterSettles
<1> QED BY <1>4, <1>5

\* All rounds of a signal.
LEMMA SignalRoundsSettle ==
    ASSUME NEW s, NEW P, NEW A, NEW H, Good(s, P, A, H), Settled(s), NEW c \in CondVars,
           NEW list, list = s.conds[c], NEW last \in 0..Len(list)
    PROVE  Settled(SignalRounds(s, list)[last])
<1> DEFINE after == SignalRounds(s, list)
           N == Len(list)
           Ok(n) == /\ Good(after[n], P, A, H) /\ Settled(after[n])
                    /\ \A i \in (n + 1)..N : list[i] \in ToSet(after[n].conds[c])
           T == {j \in 0..N : ~Ok(j)}
<1>0. list \in Seq(Threads) /\ IsInjective(list) /\ N \in Nat
  BY DEF Good, Sound, Kernel
<1>1. \A n \in 0..N : after[n] = IF n = 0 THEN s ELSE SignalOne(after[n - 1], list[n])
  BY <1>0, SignalRoundsFacts
<1> HIDE DEF after
<1>2. ASSUME T # {} PROVE FALSE
  <2>1. T \subseteq Nat
    BY <1>0
  <2> DEFINE j == First(T)
  <2>2. j \in T /\ \A q \in T : j <= q
    <3> HIDE DEF T
    <3> QED BY <1>2, <2>1, FirstFacts
  <2> HIDE DEF j
  <2>3. j \in 0..N /\ ~Ok(j)
    BY <2>2
  <2>4. CASE j = 0
    <3>1. after[j] = s
      BY <1>1, <2>3, <2>4
    <3>2. \A i \in 1..N : list[i] \in ToSet(s.conds[c])
      BY <1>0 DEF ToSet
    <3> QED BY <2>3, <2>4, <3>1, <3>2
  <2>5. CASE j # 0
    <3>1. j - 1 \in 0..N /\ j - 1 \notin T /\ j \in 1..N
      BY <1>0, <2>2, <2>3, <2>5
    <3> DEFINE a == after[j - 1]
               t == list[j]
    <3>2. /\ Good(a, P, A, H) /\ Settled(a)
          /\ \A i \in j..N : list[i] \in ToSet(a.conds[c])
      BY <1>0, <3>1
    <3>3. after[j] = SignalOne(a, t)
      BY <1>1, <2>3, <2>5
    <3>4. t \in Threads /\ t \in ToSet(a.conds[c])
      BY <1>0, <3>1, <3>2
    <3>5. ListedIn(a, t)
      BY <3>4 DEF ListedIn
    <3> HIDE DEF a
    <3>6. \A i \in (j + 1)..N : list[i] # t
      BY <1>0, <3>1 DEF IsInjective
    <3> HIDE DEF t
    <3>7. /\ Good(after[j], P, A, H)
          /\ \A d \in CondVars : ToSet(after[j].conds[d]) = ToSet(a.conds[d]) \ {t}
      BY <3>2, <3>3, <3>4, <3>5, SignalOneGood
    <3>8. Settled(after[j])
      BY <3>2, <3>3, <3>4, <3>5, SignalOneSettles
    <3>9. \A i \in (j + 1)..N : list[i] \in ToSet(after[j].conds[c])
      <4>1. \A i \in (j + 1)..N : i \in j..N
        BY <1>0, <3>1
      <4> QED BY <3>2, <3>6, <3>7, <4>1
    <3> QED BY <2>3, <3>7, <3>8, <3>9
  <2> QED BY <2>4, <2>5
<1> HIDE DEF T
<1>3. last \notin T
  BY <1>2
<1>4. Ok(last)
  BY <1>3 DEF T
<1> QED BY <1>4 DEF after

-----------------------------------------------------------------------------
(* The actions keep everybody at the right priority *)

\* Mutex::TryAcquire.
LEMMA TryAcquireSettles ==
    ASSUME Good(k, pc, addr, held), Settled(k), Sound(k'), NEW t \in Threads, TryAcquire(t)
    PROVE  Settled(k')
<1> DEFINE m == addr[t]
           o == holder[t]
           s == [k EXCEPT !.result[t] = "SUCCESS"]
           a == [s EXCEPT !.address[t] = m, !.status[t] = "WaitMutex"]
<1>0. k \in Kernel /\ Sound(k)
  BY DEF Good, Sound
<1>1. pc[t] = "arbLock"
  BY DEF TryAcquire, At
<1>2. k.owner[t] = None /\ m \in Mutexes
  BY <1>1 DEF Good, CallOK
<1>3. \/ k' = s
      \/ k.word[m] = [owner |-> o, waiters |-> TRUE] /\ k' = AddMutexWaiter(a, o, t)
  BY Zenon DEF TryAcquire
<1>4. CASE k' = s
  <2>1. SameRanks(k, k')
    BY <1>0, <1>4 DEF SameRanks, Kernel
  <2> QED BY <2>1, SameRanksSettled
<1>5. CASE k.word[m] = [owner |-> o, waiters |-> TRUE] /\ k' = AddMutexWaiter(a, o, t)
  <2>1. o \in Threads
    <3>1. k.word[m].owner = o /\ k.word[m].waiters
      BY <1>5
    <3> HIDE DEF m, o
    <3> QED BY <1>0, <1>2, <3>1, WordFacts
  <2>2. SameLists(k, a) /\ SameRanks(k, a)
    <3>1. a = [k EXCEPT !.result[t] = "SUCCESS", !.address[t] = m, !.status[t] = "WaitMutex"]
      BY <1>0 DEF Kernel
    <3> HIDE DEF a, m
    <3>2. /\ a \in Kernel /\ a.owner = k.owner /\ a.waiting = k.waiting /\ a.conds = k.conds
          /\ a.condvar = k.condvar /\ a.nominal = k.nominal /\ a.priority = k.priority
          /\ \A u \in Threads : a.status[u] = IF u = t THEN "WaitMutex" ELSE k.status[u]
      BY <1>0, <1>2, <3>1 DEF Kernel
    <3> QED BY <3>2 DEF SameLists, SameRanks
  <2>3. k' = AddMutexWaiter(a, o, t)
    BY <1>5
  <2> HIDE DEF a, o
  <2>4. Sound(a) /\ a.owner[t] = None
    BY <1>0, <1>2, <2>2, SameListsFacts DEF SameRanks
  <2>5. Settled(a)
    BY <2>2, <2>4, SameRanksSettled
  <2> QED BY <2>1, <2>3, <2>4, <2>5, AddMutexWaiterSettles
<1> QED BY <1>3, <1>4, <1>5

\* WaitProcessWideKeyAtomic.
LEMMA WaitProcessWideKeyAtomicSettles ==
    ASSUME Good(k, pc, addr, held), Settled(k), Sound(k'), NEW t \in Threads, NEW m \in Mutexes,
           NEW c \in CondVars, NEW timeout \in Timeouts,
           WaitProcessWideKeyAtomic(t, m, c, timeout)
    PROVE  Settled(k')
<1> DEFINE s == [k EXCEPT !.result[t] = "TIMEOUT"]
           r == Unlock(s, t, m)
           a == [r EXCEPT !.condvar[t] = c, !.address[t] = m, !.status[t] = "WaitCondVar"]
<1>0. k \in Kernel /\ Sound(k)
  BY DEF Good, Sound
<1>1. pc[t] = "user"
  BY DEF WaitProcessWideKeyAtomic, At
<1>2. k.owner[t] = None
  BY <1>1, OutsideFacts
<1>3. k' = r \/ k' = InsertConditionVariableThread(a, t)
  BY Zenon DEF WaitProcessWideKeyAtomic
<1>4. SameRanks(k, s)
  BY <1>0 DEF SameRanks, Kernel
<1>5. Reports(k, s, t, "TIMEOUT")
  BY <1>0, ReportsFacts
<1> HIDE DEF s
<1>6. Sound(s)
  BY <1>0, <1>5, SameListsFacts DEF Reports
<1>7. Settled(s) /\ s.owner[t] = None
  <2>1. s.owner = k.owner
    BY <1>4 DEF SameRanks
  <2> QED BY <1>2, <1>4, <1>6, <2>1, SameRanksSettled
<1>8. Settled(r)
  BY <1>7, UnlockSettles
<1> HIDE DEF r
<1>9. ASSUME k' = InsertConditionVariableThread(a, t) PROVE SameRanks(r, k')
  <2>1. r \in Kernel
    BY <1>8 DEF Settled, Sound
  <2>2. a \in Kernel /\ SameRanks(r, a)
    BY <2>1 DEF Kernel, SameRanks
  <2> HIDE DEF a
  <2>3. SameRanks(a, k')
    BY <1>9, <2>2 DEF InsertConditionVariableThread, Kernel, SameRanks
  <2> QED BY <2>2, <2>3 DEF SameRanks
<1> QED BY <1>3, <1>8, <1>9, SameRanksSettled

\* WaitProcessWideKeyAtomic, resumed.
LEMMA WaitProcessWideKeyResumeSettles ==
    ASSUME Good(k, pc, addr, held), Settled(k), Sound(k'), NEW t \in Threads,
           WaitProcessWideKeyResume(t)
    PROVE  Settled(k')
<1> DEFINE s == LeaveOwner(k, t)
<1>1. k' = RemoveConditionVariableThread(s, t)
  BY DEF WaitProcessWideKeyResume
<1>2. Settled(s)
  BY LeaveOwnerSettles
<1> HIDE DEF s
<1>3. Delisted(s, k', t)
  BY <1>1, <1>2, RemoveConditionVariableThreadFacts DEF Settled
<1>4. SameRanks(s, k')
  BY <1>3 DEF Delisted, SameRanks
<1> QED BY <1>2, <1>4, SameRanksSettled

\* SignalProcessWideKey.
LEMMA SignalProcessWideKeySettles ==
    ASSUME Good(k, pc, addr, held), Settled(k), NEW t \in Threads, NEW c \in CondVars,
           NEW target \in Targets, SignalProcessWideKey(t, c, target)
    PROVE  Settled(k')
<1> DEFINE list == k.conds[c]
           last == IF target > 0 /\ target < Len(list) THEN target ELSE Len(list)
<1>1. k' = SignalRounds(k, list)[last]
  BY DEF SignalProcessWideKey
<1>2. last \in 0..Len(list)
  <2>1. list \in Seq(Threads) /\ target \in Int
    BY MutexAssumption DEF Good, Sound, Kernel
  <2> HIDE DEF list
  <2> QED BY <2>1
<1>3. list = k.conds[c]
  OBVIOUS
<1> HIDE DEF last, list
<1> QED BY <1>1, <1>2, <1>3, SignalRoundsSettle

\* Thread::SetPriority: with a new nominal priority only the thread may be wrong.
LEMMA SetPrioritySettles ==
    ASSUME Settled(k), NEW t \in Threads, NEW u \in Threads, NEW p \in Priorities,
           SetPriority(t, u, p)
    PROVE  Settled(k')
<1> DEFINE s == [k EXCEPT !.nominal[u] = p]
<1>0. k \in Kernel /\ Sound(k) /\ Lists(k) /\ Fixed(k.nominal, k.owner, k.priority)
  BY DEF Settled, Sound
<1>1. k' = UpdatePriority(s, u)
  BY DEF SetPriority
<1>2. /\ s \in Kernel
      /\ s.owner = k.owner /\ s.waiting = k.waiting /\ s.conds = k.conds
      /\ s.condvar = k.condvar /\ s.status = k.status /\ s.priority = k.priority
      /\ s.nominal = [k.nominal EXCEPT ![u] = p]
  BY <1>0 DEF Kernel
<1> HIDE DEF s
<1>3. Sound(s) /\ Lists(s)
  BY <1>0, <1>2 DEF Sound, Lists
<1>4. \A x \in Threads \ {u} : s.nominal[x] = k.nominal[x]
  BY <1>0, <1>2 DEF Kernel
<1>5. FixedBut(s.nominal, s.owner, s.priority, u)
  BY <1>0, <1>2, <1>4 DEF Fixed, FixedBut, Least
<1>6. AlmostSettled(s, u)
  BY <1>3, <1>5 DEF AlmostSettled
<1> QED BY <1>1, <1>6, UpdatePrioritySettles

\* Every step does.
LEMMA NextSettles ==
    ASSUME Good(k, pc, addr, held), Settled(k), Sound(k'), [Next]_vars
    PROVE  Settled(k')
<1>0. k \in Kernel
  BY DEF Good, Sound
<1>1. SameRanks(k, k') => Settled(k')
  BY SameRanksSettled
<1>2. CASE UNCHANGED vars
  BY <1>2 DEF vars
<1>3. ASSUME NEW t \in Threads, MutexStep(t) PROVE Settled(k')
  <2>1. ASSUME NEW m \in Mutexes, GuestLock(t, m) PROVE Settled(k')
    BY <1>0, <1>1, <2>1 DEF GuestLock, Kernel, SameRanks
  <2>2. ASSUME NEW m \in Mutexes, GuestLockContended(t, m) PROVE Settled(k')
    BY <1>0, <1>1, <2>2 DEF GuestLockContended, Kernel, SameRanks
  <2>3. ASSUME NEW m \in Mutexes, GuestUnlock(t, m) PROVE Settled(k')
    BY <1>0, <1>1, <2>3 DEF GuestUnlock, Kernel, SameRanks
  <2>4. CASE TryAcquire(t)
    BY <2>4, TryAcquireSettles
  <2>5. CASE TryAcquireResume(t)
    BY <2>5, LeaveOwnerSettles DEF TryAcquireResume
  <2>6. CASE GuestRecheck(t)
    BY <2>6 DEF GuestRecheck
  <2>7. CASE Release(t)
    <3>1. /\ k' = Unlock(k, t, addr[t]) /\ pc[t] = "arbUnlock"
      BY <2>7 DEF Release, At
    <3>2. k.owner[t] = None /\ addr[t] \in Mutexes
      BY <3>1 DEF Good, CallOK
    <3> QED BY <3>1, <3>2, UnlockSettles
  <2> QED BY <1>3, <2>1, <2>2, <2>3, <2>4, <2>5, <2>6, <2>7 DEF MutexStep
<1>4. ASSUME NEW t \in Threads, CondVarStep(t) PROVE Settled(k')
  <2>1. ASSUME NEW m \in Mutexes, NEW c \in CondVars, NEW timeout \in Timeouts,
               WaitProcessWideKeyAtomic(t, m, c, timeout)
        PROVE  Settled(k')
    BY <2>1, WaitProcessWideKeyAtomicSettles
  <2>2. CASE TimeEvent(t)
    BY <1>0, <1>1, <2>2 DEF TimeEvent, Resume, Kernel, SameRanks
  <2>3. CASE WaitProcessWideKeyResume(t)
    BY <2>3, WaitProcessWideKeyResumeSettles
  <2>4. CASE WaitProcessWideKeyReturn(t)
    BY <2>4 DEF WaitProcessWideKeyReturn
  <2>5. ASSUME NEW c \in CondVars, NEW target \in Targets, SignalProcessWideKey(t, c, target)
        PROVE  Settled(k')
    BY <2>5, SignalProcessWideKeySettles
  <2> QED BY <1>4, <2>1, <2>2, <2>3, <2>4, <2>5 DEF CondVarStep
<1>5. ASSUME NEW t \in Threads, NEW u \in Threads, NEW p \in Priorities, SetPriority(t, u, p)
      PROVE  Settled(k')
  BY <1>5, SetPrioritySettles
<1> QED BY <1>2, <1>3, <1>4, <1>5 DEF Next

\* The property in these terms.
LEMMA InheritedIsSettled ==
    ASSUME Sound(k)
    PROVE  PriorityInherited <=> Settled(k)
<1> DEFINE pr == k.priority
<1>0. \A o \in Threads : DOMAIN k.waiting[o] = 1..Len(k.waiting[o])
  BY DEF Sound, Kernel
<1>1. PriorityInherited <=>
        Lists(k) /\ \A o \in Threads : pr[o] = Inherited(k, o)
  BY <1>0 DEF PriorityInherited, Lists, Ordered
<1>2. ASSUME Lists(k), NEW o \in Threads
      PROVE  pr[o] = Inherited(k, o) <=> Least(k.nominal, k.owner, pr, o, pr[o])
  <2>1. Ranks(k.nominal, k.owner, pr)
    BY SoundRanks
  <2>2. Inherited(k, o) \in Nat /\ Least(k.nominal, k.owner, pr, o, Inherited(k, o))
    BY <1>2, InheritedLeast DEF Lists
  <2>3. pr[o] \in Nat
    BY <2>1 DEF Ranks
  <2>4. Least(k.nominal, k.owner, pr, o, pr[o]) => pr[o] = Inherited(k, o)
    BY <2>1, <2>2, <2>3, LeastUnique
  <2> QED BY <2>2, <2>4
<1>3. Settled(k) <=> Lists(k) /\ \A o \in Threads : Least(k.nominal, k.owner, pr, o, pr[o])
  BY DEF Settled, Fixed
<1> QED BY <1>1, <1>2, <1>3

\* Initially every thread runs at its nominal priority and nobody waits.
LEMMA InitInherited == Init => PriorityInherited
<1> SUFFICES ASSUME Init PROVE PriorityInherited
  OBVIOUS
<1>1. /\ k.priority = k.nominal
      /\ \A t \in Threads : k.waiting[t] = <<>>
  BY DEF Init
<1>2. \A o \in Threads : k.priority[o] = Inherited(k, o)
  BY <1>1 DEF Inherited
<1>3. DOMAIN <<>> = {}
  OBVIOUS
<1> QED BY <1>1, <1>2, <1>3 DEF PriorityInherited

-----------------------------------------------------------------------------
(* The theorems *)

\* The invariant holds initially ...
LEMMA InitInv == Init => IInv
<1> SUFFICES ASSUME Init PROVE Good(k, pc, addr, held) /\ Locals
  BY IInvIsGood
<1>0. None \notin Threads
  BY MutexAssumption
<1>1. PICK p \in [Threads -> Priorities] :
         k = [word     |-> [m \in Mutexes |-> Free],
              status   |-> [t \in Threads |-> "Ready"],
              result   |-> [t \in Threads |-> "SUCCESS"],
              nominal  |-> p,
              priority |-> p,
              owner    |-> [t \in Threads |-> None],
              waiting  |-> [t \in Threads |-> <<>>],
              address  |-> [t \in Threads |-> None],
              condvar  |-> [t \in Threads |-> None],
              conds    |-> [c \in CondVars |-> <<>>]]
  BY Zenon DEF Init
<1>2. <<>> \in Seq(Threads) /\ Free \in Words
  BY DEF Words
<1>3. k \in Kernel
  <2>1. /\ [m \in Mutexes |-> Free] \in [Mutexes -> Words]
        /\ [t \in Threads |-> <<>>] \in [Threads -> Seq(Threads)]
        /\ [c \in CondVars |-> <<>>] \in [CondVars -> Seq(Threads)]
    BY <1>2
  <2> QED BY <1>1, <2>1 DEF Kernel
<1>4. /\ \A m \in Mutexes : k.word[m] = Free
      /\ \A t \in Threads : /\ k.status[t] = "Ready" /\ k.owner[t] = None
                            /\ k.waiting[t] = <<>>
      /\ \A c \in CondVars : k.conds[c] = <<>>
  BY <1>1
<1>5. ToSet(<<>>) = {} /\ IsInjective(<<>>)
  BY DEF ToSet, IsInjective
<1>6. Sound(k)
  BY <1>0, <1>3, <1>4, <1>5 DEF Sound
<1>7. /\ pc = [t \in Threads |-> "user"] /\ addr = [t \in Threads |-> None]
      /\ holder = [t \in Threads |-> None] /\ timed = [t \in Threads |-> FALSE]
      /\ held = [t \in Threads |-> {}]
  BY DEF Init
<1>8. Locals
  BY <1>7 DEF Locals, Pcs
<1>9. \A t : ~ListedIn(k, t)
  BY <1>4, <1>5 DEF ListedIn
<1>10. \A t \in Threads : CallOK(k, pc, addr, held, t)
  BY <1>4, <1>7, <1>9 DEF CallOK
<1>11. \A m \in Mutexes, t \in Threads : KnowsOwner(k, pc, addr, held, m, t)
  BY <1>0, <1>4 DEF KnowsOwner, Free
<1>12. \A t \in Threads : Served(k, t)
  BY <1>4 DEF Served
<1>13. \A t \in Threads : \A m \in held[t] : m \in Mutexes /\ k.word[m].owner = t
  BY <1>7
<1> QED BY <1>6, <1>8, <1>10, <1>11, <1>12, <1>13 DEF Good

\* ... and is preserved by every step.
LEMMA NextInv == IInv /\ [Next]_vars => IInv'
<1> SUFFICES ASSUME IInv, [Next]_vars PROVE IInv'
  OBVIOUS
<1>0. Good(k, pc, addr, held) /\ Locals
  BY IInvIsGood
<1>1. (IInv <=> Good(k, pc, addr, held) /\ Locals)'
  BY IInvIsGood, PTL
<1>2. IInv' <=> Good(k', pc', addr', held') /\ Locals'
  BY <1>1
<1> SUFFICES Good(k', pc', addr', held') /\ Locals'
  BY <1>2
<1>3. CASE UNCHANGED vars
  <2>1. k' = k /\ pc' = pc /\ addr' = addr /\ holder' = holder /\ timed' = timed /\ held' = held
    BY <1>3 DEF vars
  <2>2. Locals'
    BY <1>0, <2>1 DEF Locals
  <2> QED BY <1>0, <2>1, <2>2
<1>4. ASSUME NEW t \in Threads, MutexStep(t)
      PROVE  Good(k', pc', addr', held') /\ Locals'
  <2>1. ASSUME NEW m \in Mutexes, GuestLock(t, m)
        PROVE  Good(k', pc', addr', held') /\ Locals'
    BY <1>0, <2>1, GuestLockStep
  <2>2. ASSUME NEW m \in Mutexes, GuestLockContended(t, m)
        PROVE  Good(k', pc', addr', held') /\ Locals'
    BY <1>0, <2>2, GuestLockContendedStep
  <2>3. ASSUME NEW m \in Mutexes, GuestUnlock(t, m)
        PROVE  Good(k', pc', addr', held') /\ Locals'
    BY <1>0, <2>3, GuestUnlockStep
  <2>4. CASE TryAcquire(t)
    BY <1>0, <2>4, TryAcquireStep
  <2>5. CASE TryAcquireResume(t)
    BY <1>0, <2>5, TryAcquireResumeStep
  <2>6. CASE GuestRecheck(t)
    BY <1>0, <2>6, GuestRecheckStep
  <2>7. CASE Release(t)
    BY <1>0, <2>7, ReleaseStep
  <2> QED BY <1>4, <2>1, <2>2, <2>3, <2>4, <2>5, <2>6, <2>7 DEF MutexStep
<1>5. ASSUME NEW t \in Threads, CondVarStep(t)
      PROVE  Good(k', pc', addr', held') /\ Locals'
  <2>1. ASSUME NEW m \in Mutexes, NEW c \in CondVars, NEW timeout \in Timeouts,
               WaitProcessWideKeyAtomic(t, m, c, timeout)
        PROVE  Good(k', pc', addr', held') /\ Locals'
    BY <1>0, <2>1, WaitProcessWideKeyAtomicStep
  <2>2. CASE TimeEvent(t)
    BY <1>0, <2>2, TimeEventStep
  <2>3. CASE WaitProcessWideKeyResume(t)
    BY <1>0, <2>3, WaitProcessWideKeyResumeStep
  <2>4. CASE WaitProcessWideKeyReturn(t)
    BY <1>0, <2>4, WaitProcessWideKeyReturnStep
  <2>5. ASSUME NEW c \in CondVars, NEW target \in Targets, SignalProcessWideKey(t, c, target)
        PROVE  Good(k', pc', addr', held') /\ Locals'
    BY <1>0, <2>5, SignalProcessWideKeyStep
  <2> QED BY <1>5, <2>1, <2>2, <2>3, <2>4, <2>5 DEF CondVarStep
<1>6. ASSUME NEW t \in Threads, NEW u \in Threads, NEW p \in Priorities, SetPriority(t, u, p)
      PROVE  Good(k', pc', addr', held') /\ Locals'
  BY <1>0, <1>6, SetPriorityStep
<1> QED BY <1>3, <1>4, <1>5, <1>6 DEF Next

\* The inductive invariant of the mutexes and condition variables: the mutex
\* words, the lists of waiters and the calls that threads are in agree, after
\* any interleaving of lock, unlock, wait, signal, time event and priority
\* change (mutex.cpp, svc.cpp, thread.cpp).
THEOREM Invariance == Spec => []IInv
<1>1. Init => IInv
  BY InitInv
<1>2. IInv /\ [Next]_vars => IInv'
  BY NextInv
<1> QED BY <1>1, <1>2, PTL DEF Spec

\* Mutual exclusion: a guest thread that believes it holds a mutex is the owner
\* in the mutex word, whatever hand-offs of Mutex::Unlock, time events and
\* signals have happened.
THEOREM MutualExclusion == Spec => []HeldIsOwned
<1>1. IInv => HeldIsOwned
  BY DEF IInv
<1> QED BY <1>1, Invariance, PTL

\* No mutex is orphaned: whoever the word names as its owner holds it or is in a
\* call that tells it so; a WaitProcessWideKeyAtomic that reports a timeout does
\* not leave its thread the owner.
THEOREM NoOrphanedMutex == Spec => []OwnerKnows
<1>1. IInv => OwnerKnows
  BY DEF IInv
<1> QED BY <1>1, Invariance, PTL

\* Every thread in wait_mutex_threads waits for a mutex that the thread owns and
\* whose word is flagged, so that the unlock goes through the kernel and finds
\* it, also after TransferMutexOwnership has moved it to a new owner.
THEOREM WaitersServed == Spec => []WaitersAreServed
<1>1. IInv => WaitersAreServed
  BY DEF IInv
<1> QED BY <1>1, Invariance, PTL

\* A thread that is blocked on a mutex or a condition variable is in the list
\* that Mutex::Unlock or SignalProcessWideKey looks at.
THEOREM BlockedListed == Spec => []BlockedIsListed
<1>1. IInv => BlockedIsListed
  BY DEF IInv
<1> QED BY <1>1, Invariance, PTL

\* Priority inheritance: after any sequence of locks, hand-offs, timeouts, signals
\* and priority changes every thread runs at the more urgent of its own priority
\* and that of its most urgent waiter, and wait_mutex_threads is in order.  The
\* three calls of Thread::UpdatePriority for the owner reach the whole chain of
\* owners and come to rest, also around a cycle of threads that wait for each other.
THEOREM PrioritiesInherited == Spec => []PriorityInherited
<1>1. Init => IInv /\ PriorityInherited
  BY InitInv, InitInherited
<1>2. IInv /\ PriorityInherited /\ [Next]_vars => (IInv /\ PriorityInherited)'
  <2> SUFFICES ASSUME IInv, PriorityInherited, [Next]_vars
               PROVE  (IInv /\ PriorityInherited)'
    OBVIOUS
  <2>1. IInv'
    BY NextInv
  <2>2. Good(k, pc, addr, held)
    BY IInvIsGood
  <2>3. (IInv <=> Good(k, pc, addr, held) /\ Locals)'
    BY IInvIsGood, PTL
  <2>4. Sound(k) /\ Sound(k')
    BY <2>1, <2>2, <2>3 DEF Good
  <2>5. Settled(k')
    BY <2>2, <2>4, InheritedIsSettled, NextSettles
  <2>6. (Sound(k) => (PriorityInherited <=> Settled(k)))'
    BY InheritedIsSettled, PTL
  <2>7. PriorityInherited'
    BY <2>4, <2>5, <2>6
  <2> QED BY <2>1, <2>7
<1> QED BY <1>1, <1>2, PTL DEF Spec

=============================================================================

------------------------ MODULE AddressArbiterProofs ------------------------
(***************************************************************************)
(* Proofs about AddressArbiter, for any threads, addresses, words and      *)
(* priorities: what the lists hold, that a wait which a signal has picked  *)
(* says so, and that where signals wake all no wake-up is lost.            *)
(***************************************************************************)
EXTENDS AddressArbiter, WellFoundedInduction, TLAPS

\* A non-empty set of positions has a first one.
LEMMA FirstFacts ==
    ASSUME NEW P, P \subseteq Nat, P # {}
    PROVE  First(P) \in P /\ \A j \in P : First(P) <= j
<1>1. PICK x \in P : \A y \in P : ~(<<y, x>> \in OpToRel(<, Nat))
  BY WFMin, NatLessThanWellFounded, Zenon
<1>2. ASSUME NEW y \in P PROVE x <= y
  <2>1. y < x => <<y, x>> \in OpToRel(<, Nat)
    <3>1. <<y, x>> \in Nat \X Nat /\ <<y, x>>[1] = y /\ <<y, x>>[2] = x
      OBVIOUS
    <3> QED BY <3>1, Zenon DEF OpToRel
  <2>2. ~(y < x)
    BY <1>1, <2>1, Zenon
  <2> QED BY <2>2
<1> QED BY <1>1, <1>2 DEF First

\* What InsertAt does, position by position.
LEMMA InsertAtFacts ==
    ASSUME NEW S, NEW s \in Seq(S), NEW i \in 1..(Len(s) + 1), NEW e \in S
    PROVE  /\ InsertAt(s, i, e) \in Seq(S)
           /\ Len(InsertAt(s, i, e)) = Len(s) + 1
           /\ \A k \in 1..(Len(s) + 1) : InsertAt(s, i, e)[k] =
                  IF k < i THEN s[k] ELSE IF k = i THEN e ELSE s[k - 1]
<1> DEFINE l == SubSeq(s, 1, i - 1)
           r == SubSeq(s, i, Len(s))
<1>0. Len(s) \in Nat /\ i \in Nat
  OBVIOUS
<1>1. /\ l \in Seq(S) /\ Len(l) = i - 1
      /\ \A k \in 1..(i - 1) : l[k] = s[k]
  OBVIOUS
<1>2. /\ r \in Seq(S) /\ Len(r) = Len(s) - i + 1
      /\ \A k \in 1..(Len(s) - i + 1) : r[k] = s[i + k - 1]
  OBVIOUS
<1>3. InsertAt(s, i, e) = (l \o <<e>>) \o r
  BY DEF InsertAt
<1> HIDE DEF l, r
<1>4. /\ l \o <<e>> \in Seq(S) /\ Len(l \o <<e>>) = i
      /\ \A k \in 1..(i - 1) : (l \o <<e>>)[k] = s[k]
      /\ (l \o <<e>>)[i] = e
  BY <1>1
<1> DEFINE m == l \o <<e>>
<1>5. m \in Seq(S) /\ Len(m) = i /\ (\A k \in 1..(i - 1) : m[k] = s[k]) /\ m[i] = e
  BY <1>4
<1> HIDE DEF m
<1>6. m \o r \in Seq(S) /\ Len(m \o r) = Len(s) + 1
  BY <1>0, <1>2, <1>5
<1>7. ASSUME NEW k \in 1..(Len(s) + 1)
      PROVE  (m \o r)[k] = IF k < i THEN s[k] ELSE IF k = i THEN e ELSE s[k - 1]
  <2>1. CASE k <= i
    BY <2>1, <1>2, <1>5
  <2>2. CASE ~(k <= i)
    <3>1. k - i \in 1..(Len(s) - i + 1)
      BY <2>2
    <3>2. (m \o r)[k] = r[k - i]
      BY <2>2, <1>2, <1>5
    <3> QED BY <2>2, <3>1, <3>2, <1>2
  <2> QED BY <2>1, <2>2
<1> QED BY <1>3, <1>6, <1>7 DEF m

\* What RemoveAt does, position by position.
LEMMA RemoveAtFacts ==
    ASSUME NEW S, NEW s \in Seq(S), NEW i \in 1..Len(s)
    PROVE  /\ RemoveAt(s, i) \in Seq(S)
           /\ Len(RemoveAt(s, i)) = Len(s) - 1
           /\ \A k \in 1..(Len(s) - 1) : RemoveAt(s, i)[k] =
                  IF k < i THEN s[k] ELSE s[k + 1]
<1> DEFINE l == SubSeq(s, 1, i - 1)
           r == SubSeq(s, i + 1, Len(s))
<1>0. Len(s) \in Nat /\ i \in Nat
  OBVIOUS
<1>1. /\ l \in Seq(S) /\ Len(l) = i - 1
      /\ \A k \in 1..(i - 1) : l[k] = s[k]
  OBVIOUS
<1>2. /\ r \in Seq(S) /\ Len(r) = Len(s) - i
      /\ \A k \in 1..(Len(s) - i) : r[k] = s[i + k]
  OBVIOUS
<1>3. RemoveAt(s, i) = l \o r
  BY DEF RemoveAt
<1> HIDE DEF l, r
<1>4. l \o r \in Seq(S) /\ Len(l \o r) = Len(s) - 1
  <2>0. l \in Seq(S) /\ r \in Seq(S)
    BY <1>1, <1>2
  <2>1. l \o r \in Seq(S) /\ Len(l \o r) = Len(l) + Len(r)
    BY <2>0
  <2> QED BY <2>1, <1>0, <1>1, <1>2
<1>5. ASSUME NEW k \in 1..(Len(s) - 1)
      PROVE  (l \o r)[k] = IF k < i THEN s[k] ELSE s[k + 1]
  <2>1. CASE k < i
    BY <2>1, <1>1, <1>2
  <2>2. CASE ~(k < i)
    <3>1. k - (i - 1) \in 1..(Len(s) - i)
      BY <2>2
    <3>2. (l \o r)[k] = r[k - (i - 1)]
      BY <2>2, <1>1, <1>2
    <3> QED BY <2>2, <3>1, <3>2, <1>2
  <2> QED BY <2>1, <2>2
<1> QED BY <1>3, <1>4, <1>5

\* Inserting a thread adds it to the list and nothing else.
LEMMA Inserted ==
    ASSUME TypeOK, NEW list \in Seq(Threads), NEW t \in Threads, IsInjective(list),
           t \notin ToSet(list)
    PROVE  /\ InsertThread(list, t) \in Seq(Threads)
           /\ IsInjective(InsertThread(list, t))
           /\ ToSet(InsertThread(list, t)) = ToSet(list) \cup {t}
<1> DEFINE later == {i \in DOMAIN list : priority[list[i]] >= priority[t]}
           at == IF later = {} THEN Len(list) + 1 ELSE First(later)
           new == InsertAt(list, at, t)
<1>1. at \in 1..(Len(list) + 1)
  <2>1. later \subseteq 1..Len(list) /\ 1..Len(list) \subseteq Nat /\ Len(list) \in Nat
    OBVIOUS
  <2>2. later # {} => First(later) \in later
    BY <2>1, FirstFacts
  <2> QED BY <2>1, <2>2
<1>2. InsertThread(list, t) = new
  BY DEF InsertThread
<1> HIDE DEF at
<1>3. /\ new \in Seq(Threads) /\ Len(new) = Len(list) + 1
      /\ \A k \in 1..(Len(list) + 1) : new[k] =
             IF k < at THEN list[k] ELSE IF k = at THEN t ELSE list[k - 1]
  BY <1>1, InsertAtFacts
<1> HIDE DEF new
<1>4. IsInjective(new)
  <2>1. /\ Len(list) \in Nat
        /\ \A i, j \in 1..Len(list) : list[i] = list[j] => i = j
        /\ \A i \in 1..Len(list) : list[i] # t
    BY DEF IsInjective, ToSet
  <2>2. ASSUME NEW i \in 1..(Len(list) + 1), NEW j \in 1..(Len(list) + 1), new[i] = new[j], i < j
        PROVE  FALSE
    <3>1. CASE j < at
      BY <1>1, <1>3, <2>1, <2>2, <3>1
    <3>2. CASE i < at /\ j = at
      BY <1>1, <1>3, <2>1, <2>2, <3>2
    <3>3. CASE i < at /\ j > at
      <4>1. i \in 1..Len(list) /\ j - 1 \in 1..Len(list) /\ i # j - 1
        BY <1>1, <2>1, <3>3
      <4>2. new[i] = list[i] /\ new[j] = list[j - 1]
        BY <1>1, <1>3, <3>3
      <4> QED BY <2>1, <2>2, <4>1, <4>2
    <3>4. CASE i = at
      BY <1>1, <1>3, <2>1, <2>2, <3>4
    <3>5. CASE i > at
      BY <1>1, <1>3, <2>1, <2>2, <3>5, SMTT(20)
    <3> QED BY <1>1, <2>1, <2>2, <3>1, <3>2, <3>3, <3>4, <3>5
  <2>3. \A i, j \in 1..(Len(list) + 1) : new[i] = new[j] => i = j
    BY <2>1, <2>2
  <2> QED BY <1>3, <2>3 DEF IsInjective
<1>5. ToSet(new) \subseteq ToSet(list) \cup {t}
  BY <1>1, <1>3 DEF ToSet
<1>6. ToSet(list) \cup {t} \subseteq ToSet(new)
  <2>1. t \in ToSet(new)
    BY <1>1, <1>3 DEF ToSet
  <2>2. ASSUME NEW i \in DOMAIN list PROVE list[i] \in ToSet(new)
    <3>1. i \in 1..(Len(list) + 1) /\ i + 1 \in 1..(Len(list) + 1) /\ Len(list) \in Nat
      OBVIOUS
    <3>2. list[i] = new[i] \/ list[i] = new[i + 1]
      BY <1>1, <1>3, <3>1
    <3> QED BY <1>3, <3>1, <3>2 DEF ToSet
  <2> QED BY <2>1, <2>2 DEF ToSet
<1> QED BY <1>2, <1>3, <1>4, <1>5, <1>6

\* Removing a thread takes it out of the list and nothing else.
LEMMA Removed ==
    ASSUME NEW list \in Seq(Threads), NEW t \in Threads, IsInjective(list)
    PROVE  /\ RemoveThread(list, t) \in Seq(Threads)
           /\ IsInjective(RemoveThread(list, t))
           /\ ToSet(RemoveThread(list, t)) = ToSet(list) \ {t}
<1> DEFINE found == {i \in DOMAIN list : list[i] = t}
           at == First(found)
           new == RemoveAt(list, at)
<1>1. CASE found = {}
  BY <1>1 DEF RemoveThread, ToSet
<1>2. CASE found # {}
  <2>1. at \in 1..Len(list) /\ list[at] = t
    <3>1. found \subseteq Nat
      OBVIOUS
    <3>2. at \in found
      BY <1>2, <3>1, FirstFacts
    <3> QED BY <3>2
  <2>2. RemoveThread(list, t) = new
    BY <1>2 DEF RemoveThread
  <2> HIDE DEF at
  <2>3. /\ new \in Seq(Threads) /\ Len(new) = Len(list) - 1
        /\ \A k \in 1..(Len(list) - 1) : new[k] = IF k < at THEN list[k] ELSE list[k + 1]
    BY <2>1, RemoveAtFacts
  <2> HIDE DEF new
  <2>4. \A i, j \in 1..Len(list) : list[i] = list[j] => i = j
    BY DEF IsInjective
  <2>5. IsInjective(new)
    BY <2>1, <2>3, <2>4 DEF IsInjective
  <2>6. ToSet(new) \subseteq ToSet(list) \ {t}
    BY <2>1, <2>3, <2>4 DEF ToSet
  <2>7. ASSUME NEW i \in DOMAIN list, list[i] # t PROVE list[i] \in ToSet(new)
    <3>1. CASE i < at
      BY <3>1, <2>1, <2>3 DEF ToSet
    <3>2. CASE i > at
      <4>1. i - 1 \in 1..(Len(list) - 1) /\ new[i - 1] = list[i]
        BY <3>2, <2>1, <2>3
      <4> QED BY <4>1, <2>3 DEF ToSet
    <3> QED BY <2>1, <2>7, <3>1, <3>2
  <2>8. ToSet(list) \ {t} \subseteq ToSet(new)
    BY <2>7 DEF ToSet
  <2> QED BY <2>2, <2>3, <2>5, <2>6, <2>8
<1> QED BY <1>1, <1>2

\* A signal parts the list into the threads it wakes and those it leaves.
LEMMA Parted ==
    ASSUME NEW list \in Seq(Threads), NEW n \in Int, IsInjective(list)
    PROVE  LET last == NumToWake(n, list)
               woken == ToSet(SubSeq(list, 1, last))
               left == SubSeq(list, last + 1, Len(list))
           IN /\ left \in Seq(Threads) /\ IsInjective(left)
              /\ ToSet(left) = ToSet(list) \ woken
              /\ woken \subseteq ToSet(list)
              /\ n <= 0 => woken = ToSet(list)
<1> DEFINE last == NumToWake(n, list)
           front == SubSeq(list, 1, last)
           left == SubSeq(list, last + 1, Len(list))
<1>0. Len(list) \in Nat
  OBVIOUS
<1>1. last \in 0..Len(list) /\ (n <= 0 => last = Len(list))
  BY DEF NumToWake
<1> HIDE DEF last
<1>2. front \in Seq(Threads) /\ Len(front) = last /\ \A k \in 1..last : front[k] = list[k]
  BY <1>1
<1>3. /\ left \in Seq(Threads) /\ Len(left) = Len(list) - last
      /\ \A k \in 1..(Len(list) - last) : left[k] = list[last + k]
  BY <1>1
<1> HIDE DEF front, left
<1>4. \A i, j \in 1..Len(list) : list[i] = list[j] => i = j
  BY DEF IsInjective
<1>5. IsInjective(left)
  BY <1>1, <1>3, <1>4, SMTT(20) DEF IsInjective
<1>6. ToSet(front) \subseteq ToSet(list)
  BY <1>1, <1>2 DEF ToSet
<1>7. ToSet(left) \subseteq ToSet(list) \ ToSet(front)
  <2>1. ASSUME NEW k \in 1..(Len(list) - last)
        PROVE  /\ last + k \in 1..Len(list) /\ left[k] = list[last + k]
               /\ \A i \in 1..last : list[i] # left[k]
    BY <1>0, <1>1, <1>3, <1>4
  <2>2. ASSUME NEW k \in DOMAIN left PROVE left[k] \in ToSet(list) \ ToSet(front)
    <3>1. k \in 1..(Len(list) - last)
      BY <1>3
    <3>2. left[k] \in ToSet(list)
      BY <2>1, <3>1 DEF ToSet
    <3>3. left[k] \notin ToSet(front)
      BY <2>1, <3>1, <1>2 DEF ToSet
    <3> QED BY <3>2, <3>3
  <2> QED BY <2>2 DEF ToSet
<1>8. ASSUME NEW i \in DOMAIN list
      PROVE  IF i <= last THEN list[i] \in ToSet(front) ELSE list[i] \in ToSet(left)
  <2>1. CASE i <= last
    BY <2>1, <1>1, <1>2 DEF ToSet
  <2>2. CASE i > last
    <3>1. i - last \in 1..(Len(list) - last) /\ left[i - last] = list[i]
      BY <2>2, <1>0, <1>1, <1>3
    <3> QED BY <2>2, <3>1, <1>1, <1>3 DEF ToSet
  <2> QED BY <2>1, <2>2, <1>1
<1>9. ToSet(list) \ ToSet(front) \subseteq ToSet(left)
  BY <1>1, <1>8 DEF ToSet
<1>10. n <= 0 => ToSet(list) \subseteq ToSet(front)
  BY <1>1, <1>8 DEF ToSet
<1> QED BY <1>3, <1>5, <1>6, <1>7, <1>9, <1>10 DEF last, front, left

-----------------------------------------------------------------------------
(* Waiting *)

\* A thread that blocks joins exactly one list.
LEMMA BlockLists ==
    ASSUME IInv, NEW t \in Threads, NEW a \in Addresses, Block(t, a),
           pc[t] # "blocked", call' \in [Threads -> Calls], call'[t].address = a,
           \A u \in Threads : u # t => call'[u] = call[u]
    PROVE  /\ ListInv' /\ arb_threads' \in [Addresses -> Seq(Threads)]
           /\ status' \in [Threads -> {"Ready", "WaitArb"}]
           /\ waiting_for_arbitration' \in [Threads -> BOOLEAN]
           /\ pc' = [pc EXCEPT ![t] = "blocked"]
<1> USE DEF IInv, TypeOK, Block, Goto
<1>1. ~waiting_for_arbitration[t]
  BY DEF ListInv
<1>2. \A b \in Addresses : t \notin ToSet(arb_threads[b])
  BY <1>1 DEF ListInv
<1>3. /\ InsertThread(arb_threads[a], t) \in Seq(Threads)
      /\ IsInjective(InsertThread(arb_threads[a], t))
      /\ ToSet(InsertThread(arb_threads[a], t)) = ToSet(arb_threads[a]) \cup {t}
  BY <1>2, Inserted DEF ListInv
<1>4. /\ arb_threads' \in [Addresses -> Seq(Threads)]
      /\ arb_threads'[a] = InsertThread(arb_threads[a], t)
      /\ \A b \in Addresses : b # a => arb_threads'[b] = arb_threads[b]
  BY <1>3
<1>5. /\ status' \in [Threads -> {"Ready", "WaitArb"}]
      /\ waiting_for_arbitration' \in [Threads -> BOOLEAN]
  OBVIOUS
<1>6. waiting_for_arbitration'[t] /\ pc'[t] = "blocked"
  OBVIOUS
<1>7. \A u \in Threads : u # t =>
          /\ status'[u] = status[u] /\ pc'[u] = pc[u]
          /\ waiting_for_arbitration'[u] = waiting_for_arbitration[u]
  OBVIOUS
<1> HIDE DEF Block
<1>8. ASSUME NEW u \in Threads
      PROVE  /\ status'[u] = "WaitArb" => pc'[u] = "blocked" /\ waiting_for_arbitration'[u]
             /\ waiting_for_arbitration'[u] => pc'[u] = "blocked"
  BY <1>6, <1>7 DEF ListInv
<1>9. ASSUME NEW b \in Addresses PROVE IsInjective(arb_threads'[b])
  BY <1>3, <1>4 DEF ListInv
<1>10. ASSUME NEW b \in Addresses, NEW u \in Threads
       PROVE  u \in ToSet(arb_threads'[b]) <=>
                  waiting_for_arbitration'[u] /\ call'[u].address = b
  <2>1. CASE u = t
    BY <2>1, <1>2, <1>3, <1>4, <1>6
  <2>2. CASE u # t
    <3>1. u \in ToSet(arb_threads'[b]) <=> u \in ToSet(arb_threads[b])
      BY <2>2, <1>3, <1>4
    <3>2. waiting_for_arbitration'[u] <=> waiting_for_arbitration[u]
      BY <2>2, <1>7
    <3>3. call'[u] = call[u]
      BY <2>2
    <3>4. u \in ToSet(arb_threads[b]) <=> waiting_for_arbitration[u] /\ call[u].address = b
      BY DEF ListInv
    <3> QED BY <3>1, <3>2, <3>3, <3>4
  <2> QED BY <2>1, <2>2
<1> QED BY <1>4, <1>5, <1>8, <1>9, <1>10 DEF ListInv, Block

\* Nothing about a thread that is not t and a word that is not written changes
\* when t moves on without a signal that was due from it.
LEMMA Framed ==
    ASSUME NEW t \in Threads, pc[t] # "stored",
           \A u \in Threads : u # t => pc'[u] = pc[u] /\ call'[u] = call[u]
    PROVE  \A a \in Addresses : SignalIsDue(a) => SignalIsDue(a)'
BY DEF SignalIsDue

\* WaitForAddressIfEqual blocks on a word that it has just compared.
LEMMA EqualStep ==
    ASSUME IInv, NEW t \in Threads, NEW a \in Addresses, NEW value \in Words,
           NEW timeout \in Timeouts, WaitForAddressIfEqual(t, a, value, timeout)
    PROVE  IInv'
<1> USE DEF IInv, WaitForAddressIfEqual, Runs, SetCall
<1> DEFINE c == [address |-> a, type |-> "WaitIfEqual", value |-> value, timeout |-> timeout]
<1>1. /\ c \in Calls /\ call' \in [Threads -> Calls] /\ call'[t] = c
      /\ \A u \in Threads : u # t => call'[u] = call[u]
  BY DEF TypeOK, Calls, Types
<1>2. /\ ListInv' /\ arb_threads' \in [Addresses -> Seq(Threads)]
      /\ status' \in [Threads -> {"Ready", "WaitArb"}]
      /\ waiting_for_arbitration' \in [Threads -> BOOLEAN]
      /\ pc' = [pc EXCEPT ![t] = "blocked"]
  BY <1>1, BlockLists
<1>3. /\ lock' = None /\ status'[t] = "WaitArb" /\ waiting_for_arbitration'[t] = TRUE
      /\ \A u \in Threads : u # t => /\ status'[u] = status[u]
                                     /\ waiting_for_arbitration'[u] = waiting_for_arbitration[u]
  BY DEF Block, TypeOK
<1>4. /\ pc'[t] = "blocked" /\ \A u \in Threads : u # t => pc'[u] = pc[u]
  BY <1>2 DEF TypeOK
<1>5. /\ signaling_result' \in [Threads -> {"SUCCESS", "TIMEOUT"}]
      /\ signaling_result'[t] = "TIMEOUT"
      /\ \A u \in Threads : u # t => signaling_result'[u] = signaling_result[u]
  BY DEF TypeOK
<1>6. TypeOK'
  BY <1>1, <1>2, <1>3, <1>4, <1>5, ArbiterAssumption DEF TypeOK
<1>7. CallInv'
  BY <1>1, <1>4, <1>5 DEF CallInv
<1>8. DecrementInv'
  BY <1>1, <1>4, Framed DEF TypeOK, DecrementInv, CallInv, Justified
<1>9. PickedReportsSuccess'
  BY <1>3, <1>4, <1>5 DEF PickedReportsSuccess
<1>10. NoLostWakeup'
  <2>1. Justified(t)'
    BY <1>1 DEF Justified
  <2> QED BY <2>1, <1>1, <1>3, <1>4, Framed DEF NoLostWakeup, WakesAll, Justified, CallInv, ListInv
<1> QED BY <1>2, <1>6, <1>7, <1>8, <1>9, <1>10

\* WaitForAddressIfLessThan up to its comparison: the lock is kept.
LEMMA LessThanStep ==
    ASSUME IInv, NEW t \in Threads, NEW a \in Addresses, NEW type \in TypesOf[a],
           NEW value \in Words, NEW timeout \in Timeouts, type # "WaitIfEqual",
           WaitForAddressIfLessThan(t, a, type, value, timeout)
    PROVE  IInv'
<1> USE DEF IInv, WaitForAddressIfLessThan, Runs, SetCall, Goto
<1> DEFINE c == [address |-> a, type |-> type, value |-> value, timeout |-> timeout]
<1>1. /\ c \in Calls /\ call' \in [Threads -> Calls] /\ call'[t] = c
      /\ \A u \in Threads : u # t => call'[u] = call[u]
  BY ArbiterAssumption DEF TypeOK, Calls
<1>2. /\ pc'[t] = "decrement" /\ \A u \in Threads : u # t => pc'[u] = pc[u]
  BY DEF TypeOK
<1>3. /\ signaling_result'[t] = "TIMEOUT"
      /\ \A u \in Threads : u # t => signaling_result'[u] = signaling_result[u]
  BY DEF TypeOK
<1>4. TypeOK'
  BY <1>1, <1>2, ArbiterAssumption DEF TypeOK
<1>5. CallInv'
  BY <1>1, <1>2, <1>3 DEF CallInv
<1>6. ListInv'
  <2>1. status[t] # "WaitArb" /\ ~waiting_for_arbitration[t]
    BY DEF ListInv
  <2>2. ASSUME NEW b \in Addresses, NEW u \in Threads
        PROVE  u \in ToSet(arb_threads[b]) <=>
                   waiting_for_arbitration[u] /\ call'[u].address = b
    BY <2>1, <1>1 DEF ListInv
  <2> QED BY <2>1, <2>2, <1>2 DEF ListInv
<1>7. DecrementInv'
  <2>1. Justified(t)'
    BY <1>1 DEF Justified
  <2> QED BY <2>1, <1>1, <1>2, Framed DEF DecrementInv, CallInv, Justified
<1>8. PickedReportsSuccess'
  BY <1>2, <1>3 DEF PickedReportsSuccess
<1>9. NoLostWakeup'
  BY <1>1, <1>2, Framed DEF NoLostWakeup, WakesAll, Justified, CallInv, ListInv
<1> QED BY <1>4, <1>5, <1>6, <1>7, <1>8, <1>9

\* The rest of WaitForAddressIfLessThan: what it decrements justifies the waiters
\* for a smaller word still, and a waiter for an equal one is not promised more.
LEMMA DecrementStep ==
    ASSUME IInv, NEW t \in Threads, Decrement(t)
    PROVE  IInv'
<1> USE DEF IInv, Decrement, Runs, SetCall, Goto
<1> DEFINE a == call[t].address
<1>1. /\ a \in Addresses /\ call[t].type \in TypesOf[a] /\ call[t].type # "WaitIfEqual"
      /\ signaling_result[t] = "TIMEOUT" /\ lock = t
  BY DEF CallInv, TypeOK
<1>2. /\ word' \in [Addresses -> Words] /\ \A b \in Addresses : b # a => word'[b] = word[b]
      /\ word[a] \in Int /\ word'[a] \in Int /\ word'[a] <= word[a]
      /\ word'[a] # word[a] => call[t].type = "DecrementAndWaitIfLessThan"
  BY <1>1, ArbiterAssumption DEF TypeOK, Words
<1>3. CASE call[t].timeout = "zero"
  <2>1. /\ pc'[t] = "user" /\ call'[t] = NoCall
        /\ \A u \in Threads : u # t => pc'[u] = pc[u] /\ call'[u] = call[u]
    BY <1>3 DEF TypeOK
  <2>2. UNCHANGED <<arb_threads, status, waiting_for_arbitration, signaling_result>> /\ lock' = None
    BY <1>3
  <2>3. TypeOK'
    <3>1. NoCall \in Calls
      BY DEF Calls
    <3>2. call' \in [Threads -> Calls]
      BY <1>3, <3>1 DEF TypeOK
    <3>3. pc' \in [Threads -> {"user", "decrement", "blocked", "return", "stored"}]
      BY <1>3 DEF TypeOK
    <3>4. \A u \in Threads : lock' = u <=> pc'[u] = "decrement"
      BY <1>1, <2>1, <2>2, ArbiterAssumption DEF TypeOK
    <3> QED BY <1>2, <2>2, <3>2, <3>3, <3>4 DEF TypeOK
  <2>4. CallInv'
    BY <2>1, <2>2 DEF CallInv
  <2>5. ListInv'
    <3>1. status[t] # "WaitArb" /\ ~waiting_for_arbitration[t]
      BY DEF ListInv
    <3>2. ASSUME NEW b \in Addresses, NEW u \in Threads
          PROVE  u \in ToSet(arb_threads[b]) <=>
                     waiting_for_arbitration[u] /\ call'[u].address = b
      BY <3>1, <2>1 DEF ListInv
    <3> QED BY <3>1, <3>2, <2>1, <2>2 DEF ListInv
  <2>6. DecrementInv'
    BY <1>1, <2>1 DEF DecrementInv, TypeOK
  <2>7. PickedReportsSuccess'
    BY <2>1, <2>2 DEF PickedReportsSuccess
  <2>8. ASSUME NEW u \in Threads, status'[u] = "WaitArb", WakesAll(u)', ~Justified(u)'
        PROVE  SignalIsDue(call[u].address)' /\ call'[u] = call[u]
    <3>1. u # t /\ pc[u] = "blocked" /\ call[u] \in Calls /\ call[u].address \in Addresses
      BY <2>2, <2>8 DEF ListInv, CallInv, TypeOK
    <3>2. call'[u] = call[u] /\ WakesAll(u)
      BY <2>1, <2>8, <3>1 DEF WakesAll
    <3>3. ~Justified(u)
      BY <1>1, <1>2, <2>8, <3>1, <3>2, ArbiterAssumption DEF Justified, WakesAll, Calls, Words, NoCall
    <3> QED BY <2>1, <2>2, <2>8, <3>1, <3>2, <3>3, Framed DEF NoLostWakeup
  <2>9. NoLostWakeup'
    BY <2>8 DEF NoLostWakeup
  <2> QED BY <2>3, <2>4, <2>5, <2>6, <2>7, <2>9
<1>4. CASE call[t].timeout # "zero"
  <2>1. Block(t, a) /\ call' = call /\ signaling_result' = signaling_result
    BY <1>4
  <2>2. /\ ListInv' /\ arb_threads' \in [Addresses -> Seq(Threads)]
        /\ status' \in [Threads -> {"Ready", "WaitArb"}]
        /\ waiting_for_arbitration' \in [Threads -> BOOLEAN]
        /\ pc' = [pc EXCEPT ![t] = "blocked"]
    BY <1>1, <2>1, BlockLists DEF TypeOK
  <2>3. /\ lock' = None /\ status'[t] = "WaitArb" /\ waiting_for_arbitration'[t] = TRUE
        /\ \A u \in Threads : u # t => /\ status'[u] = status[u]
                                       /\ waiting_for_arbitration'[u] = waiting_for_arbitration[u]
    BY <2>1 DEF Block, TypeOK
  <2>4. pc'[t] = "blocked" /\ \A u \in Threads : u # t => pc'[u] = pc[u]
    BY <2>2 DEF TypeOK
  <2>5. TypeOK'
    BY <1>1, <1>2, <2>1, <2>2, <2>3, <2>4, ArbiterAssumption DEF TypeOK
  <2>6. CallInv'
    BY <2>1, <2>4 DEF CallInv
  <2>7. DecrementInv'
    BY <1>1, <2>4 DEF DecrementInv, TypeOK
  <2>8. PickedReportsSuccess'
    BY <1>1, <2>1, <2>3, <2>4 DEF PickedReportsSuccess
  <2>9. ASSUME NEW u \in Threads, status'[u] = "WaitArb", WakesAll(u)', ~Justified(u)'
        PROVE  SignalIsDue(call[u].address)'
    <3>1. call[u] \in Calls /\ call[u].address \in Addresses /\ WakesAll(u)
      BY <1>1, <2>1, <2>3, <2>9 DEF ListInv, CallInv, TypeOK, WakesAll
    <3>2. ~Justified(u)
      BY <1>1, <1>2, <2>1, <2>9, <3>1, ArbiterAssumption DEF Justified, WakesAll, Calls, Words, NoCall
    <3>3. SignalIsDue(call[u].address)
      BY <2>3, <2>9, <3>1, <3>2 DEF NoLostWakeup, DecrementInv
    <3> QED BY <2>1, <2>4, <3>1, <3>3, Framed
  <2>10. NoLostWakeup'
    BY <2>1, <2>9 DEF NoLostWakeup
  <2> QED BY <2>2, <2>5, <2>6, <2>7, <2>8, <2>10
<1> QED BY <1>3, <1>4

\* Steps that leave the words, the lists and every flag of the wait alone, and
\* move a thread that owes no signal.
LEMMA TimeEventStep == ASSUME IInv, NEW t \in Threads, TimeEvent(t) PROVE IInv'
<1> USE DEF IInv, TimeEvent
<1>1. status'[t] = "Ready" /\ \A u \in Threads : u # t => status'[u] = status[u]
  BY DEF TypeOK
<1>2. TypeOK'
  BY DEF TypeOK
<1>3. CallInv' /\ PickedReportsSuccess'
  BY DEF CallInv, PickedReportsSuccess
<1>4. ListInv'
  BY <1>1 DEF ListInv
<1>5. DecrementInv'
  BY DEF DecrementInv, Justified, SignalIsDue
<1>6. NoLostWakeup'
  BY <1>1 DEF NoLostWakeup, WakesAll, Justified, SignalIsDue
<1> QED BY <1>2, <1>3, <1>4, <1>5, <1>6

\* The thread leaves its list, if no signal has done it.
LEMMA StopWaitingStep == ASSUME IInv, NEW t \in Threads, StopWaiting(t) PROVE IInv'
<1> USE DEF IInv, StopWaiting, Runs, Goto
<1> DEFINE a == call[t].address
<1>1. a \in Addresses
  BY DEF CallInv
<1>2. pc'[t] = "return" /\ \A u \in Threads : u # t => pc'[u] = pc[u]
  BY DEF TypeOK
<1>3. /\ RemoveThread(arb_threads[a], t) \in Seq(Threads)
      /\ IsInjective(RemoveThread(arb_threads[a], t))
      /\ ToSet(RemoveThread(arb_threads[a], t)) = ToSet(arb_threads[a]) \ {t}
  BY <1>1, Removed DEF ListInv, TypeOK
<1>4. t \in ToSet(arb_threads[a]) <=> waiting_for_arbitration[t]
  BY <1>1 DEF ListInv
<1>5. /\ arb_threads'[a] \in Seq(Threads) /\ IsInjective(arb_threads'[a])
      /\ ToSet(arb_threads'[a]) = ToSet(arb_threads[a]) \ {t}
      /\ \A b \in Addresses : b # a => arb_threads'[b] = arb_threads[b]
  BY <1>1, <1>3, <1>4 DEF TypeOK, ListInv
<1>6. /\ waiting_for_arbitration' \in [Threads -> BOOLEAN] /\ ~waiting_for_arbitration'[t]
      /\ \A u \in Threads : u # t => waiting_for_arbitration'[u] = waiting_for_arbitration[u]
  BY DEF TypeOK
<1>7. TypeOK'
  <2>1. arb_threads' \in [Addresses -> Seq(Threads)]
    BY <1>1, <1>3 DEF TypeOK
  <2> QED BY <2>1, <1>2, <1>6 DEF TypeOK
<1>8. CallInv'
  BY <1>2 DEF CallInv
<1>9. ListInv'
  <2>1. ASSUME NEW u \in Threads
        PROVE  /\ status'[u] = "WaitArb" => pc'[u] = "blocked" /\ waiting_for_arbitration'[u]
               /\ waiting_for_arbitration'[u] => pc'[u] = "blocked"
    BY <1>2, <1>6 DEF ListInv
  <2>2. ASSUME NEW b \in Addresses PROVE IsInjective(arb_threads'[b])
    BY <1>5 DEF ListInv
  <2>3. ASSUME NEW b \in Addresses, NEW u \in Threads
        PROVE  u \in ToSet(arb_threads'[b]) <=>
                   waiting_for_arbitration'[u] /\ call'[u].address = b
    <3>1. u \in ToSet(arb_threads[b]) <=> waiting_for_arbitration[u] /\ call[u].address = b
      BY DEF ListInv
    <3>2. CASE u = t
      BY <3>1, <3>2, <1>5, <1>6
    <3>3. CASE u # t
      <4>1. waiting_for_arbitration'[u] <=> waiting_for_arbitration[u]
        BY <3>3, <1>6
      <4> QED BY <3>1, <3>3, <4>1, <1>5
    <3> QED BY <3>2, <3>3
  <2> QED BY <2>1, <2>2, <2>3 DEF ListInv
<1>10. DecrementInv'
  BY <1>2, Framed DEF DecrementInv, Justified, CallInv
<1>11. PickedReportsSuccess'
  BY <1>2, <1>6 DEF PickedReportsSuccess
<1>12. NoLostWakeup'
  BY <1>2, Framed DEF NoLostWakeup, WakesAll, Justified, CallInv, ListInv
<1> QED BY <1>7, <1>8, <1>9, <1>10, <1>11, <1>12

\* The thread returns from the call; it waits for nothing.
LEMMA ReturnStep == ASSUME IInv, NEW t \in Threads, Return(t) PROVE IInv'
<1> USE DEF IInv, Return, Runs, Goto, SetCall
<1>1. /\ pc'[t] = "user" /\ call'[t] = NoCall
      /\ \A u \in Threads : u # t => pc'[u] = pc[u] /\ call'[u] = call[u]
  BY DEF TypeOK
<1>2. status[t] # "WaitArb" /\ ~waiting_for_arbitration[t]
  BY DEF ListInv
<1>3. TypeOK'
  <2>1. call' \in [Threads -> Calls]
    BY DEF TypeOK, Calls
  <2> QED BY <2>1, <1>1 DEF TypeOK
<1>4. CallInv'
  BY <1>1 DEF CallInv
<1>5. ListInv'
  <2>1. ASSUME NEW b \in Addresses, NEW u \in Threads
        PROVE  u \in ToSet(arb_threads[b]) <=>
                   waiting_for_arbitration[u] /\ call'[u].address = b
    BY <1>1, <1>2 DEF ListInv
  <2> QED BY <2>1, <1>1, <1>2 DEF ListInv
<1>6. DecrementInv'
  BY <1>1, Framed DEF DecrementInv, Justified, CallInv
<1>7. PickedReportsSuccess'
  BY <1>1 DEF PickedReportsSuccess
<1>8. NoLostWakeup'
  BY <1>1, Framed DEF NoLostWakeup, WakesAll, Justified, CallInv, ListInv
<1> QED BY <1>3, <1>4, <1>5, <1>6, <1>7, <1>8

\* A priority is in no part of the invariant: the lists need not be sorted.
LEMMA SetCurrentPriorityStep ==
    ASSUME IInv, NEW t \in Threads, NEW p \in Priorities, SetCurrentPriority(t, p)
    PROVE  IInv'
BY DEF IInv, SetCurrentPriority, TypeOK, CallInv, ListInv, DecrementInv, PickedReportsSuccess,
       NoLostWakeup, WakesAll, Justified, SignalIsDue

-----------------------------------------------------------------------------
(* Signalling *)

\* A store can make waits unjustified; the thread that made it owes the signal.
LEMMA GuestStoreStep ==
    ASSUME IInv, NEW t \in Threads, NEW a \in Addresses, NEW value \in Words,
           GuestStore(t, a, value)
    PROVE  IInv'
<1> USE DEF IInv, GuestStore, Runs, Goto, SetCall
<1>1. /\ pc'[t] = "stored" /\ call'[t] = [NoCall EXCEPT !.address = a]
      /\ call'[t].address = a
      /\ \A u \in Threads : u # t => pc'[u] = pc[u] /\ call'[u] = call[u]
  BY DEF TypeOK, NoCall
<1>2. status[t] # "WaitArb" /\ ~waiting_for_arbitration[t]
  BY DEF ListInv
<1>3. TypeOK'
  <2>1. call' \in [Threads -> Calls]
    BY DEF TypeOK, Calls, NoCall, Types, Timeouts
  <2> QED BY <2>1, <1>1 DEF TypeOK
<1>4. CallInv'
  BY <1>1 DEF CallInv
<1>5. ListInv'
  <2>1. ASSUME NEW b \in Addresses, NEW u \in Threads
        PROVE  u \in ToSet(arb_threads[b]) <=>
                   waiting_for_arbitration[u] /\ call'[u].address = b
    BY <1>1, <1>2 DEF ListInv
  <2> QED BY <2>1, <1>1, <1>2 DEF ListInv
<1>6. SignalIsDue(a)' /\ \A b \in Addresses : b # a => word'[b] = word[b]
  BY <1>1 DEF SignalIsDue, TypeOK
<1>7. DecrementInv'
  BY <1>1, <1>6, Framed DEF DecrementInv, Justified, CallInv
<1>8. PickedReportsSuccess'
  BY <1>1 DEF PickedReportsSuccess
<1>9. NoLostWakeup'
  BY <1>1, <1>6, Framed DEF NoLostWakeup, WakesAll, Justified, CallInv, ListInv
<1> QED BY <1>3, <1>4, <1>5, <1>7, <1>8, <1>9

\* WakeThreads, by the threads of the address that wait and remain to be told.
LEMMA WakeStep ==
    ASSUME IInv, NEW t \in Threads, NEW a \in Addresses, NEW n \in TargetsOf[a],
           WakeThreads(a, n), lock = None, status[t] = "Ready",
           pc[t] = "user" \/ (pc[t] = "stored" /\ call[t].address = a),
           pc' = [pc EXCEPT ![t] = "user"],
           call' = call \/ call' = [call EXCEPT ![t] = NoCall],
           word' \in [Addresses -> Words], \A b \in Addresses : b # a => word'[b] = word[b],
           UNCHANGED <<lock, priority>>
    PROVE  IInv'
<1> USE DEF IInv
<1> DEFINE last == NumToWake(n, arb_threads[a])
           woken == ToSet(SubSeq(arb_threads[a], 1, last))
           left == SubSeq(arb_threads[a], last + 1, Len(arb_threads[a]))
<1>1. n \in Int
  BY ArbiterAssumption
<1>2. /\ left \in Seq(Threads) /\ IsInjective(left) /\ ToSet(left) = ToSet(arb_threads[a]) \ woken
      /\ woken \subseteq ToSet(arb_threads[a])
      /\ n <= 0 => woken = ToSet(arb_threads[a])
  BY <1>1, Parted DEF ListInv, TypeOK
<1>3. /\ arb_threads' = [arb_threads EXCEPT ![a] = left]
      /\ signaling_result' = [u \in Threads |->
             IF u \in woken THEN "SUCCESS" ELSE signaling_result[u]]
      /\ waiting_for_arbitration' = [u \in Threads |->
             waiting_for_arbitration[u] /\ u \notin woken]
      /\ status' = [u \in Threads |-> IF u \in woken THEN "Ready" ELSE status[u]]
  BY DEF WakeThreads
<1> HIDE DEF last, woken, left
<1>4. /\ pc'[t] = "user" /\ \A u \in Threads : u # t => pc'[u] = pc[u] /\ call'[u] = call[u]
  BY DEF TypeOK
<1>5. status[t] # "WaitArb" /\ ~waiting_for_arbitration[t]
  BY DEF ListInv
<1>6. \A u \in Threads :
          /\ waiting_for_arbitration'[u] <=> waiting_for_arbitration[u] /\ u \notin woken
          /\ status'[u] = IF u \in woken THEN "Ready" ELSE status[u]
  BY <1>3
<1>7. /\ arb_threads'[a] = left
      /\ \A b \in Addresses : b # a => arb_threads'[b] = arb_threads[b]
  BY <1>3 DEF TypeOK
<1>8. TypeOK'
  <2>1. waiting_for_arbitration' \in [Threads -> BOOLEAN]
    BY <1>3, Zenon
  <2>2. arb_threads' \in [Addresses -> Seq(Threads)]
    BY <1>2, <1>3 DEF TypeOK
  <2>3. call' \in [Threads -> Calls]
    BY DEF TypeOK, Calls
  <2>4. /\ status' \in [Threads -> {"Ready", "WaitArb"}]
        /\ signaling_result' \in [Threads -> {"SUCCESS", "TIMEOUT"}]
    BY <1>3 DEF TypeOK
  <2>5. pc' \in [Threads -> {"user", "decrement", "blocked", "return", "stored"}]
    BY DEF TypeOK
  <2>6. \A u \in Threads : lock' = u <=> pc'[u] = "decrement"
    BY <1>4 DEF TypeOK
  <2> QED BY <2>1, <2>2, <2>3, <2>4, <2>5, <2>6 DEF TypeOK
<1>9. \A u \in Threads : pc[u] # "decrement" /\ pc'[u] # "decrement"
  BY <1>4, ArbiterAssumption DEF TypeOK
<1>10. CallInv' /\ DecrementInv'
  BY <1>4, <1>9 DEF CallInv, DecrementInv
<1>11. ListInv'
  <2>1. ASSUME NEW u \in Threads
        PROVE  /\ status'[u] = "WaitArb" => pc'[u] = "blocked" /\ waiting_for_arbitration'[u]
               /\ waiting_for_arbitration'[u] => pc'[u] = "blocked"
    BY <1>4, <1>5, <1>6 DEF ListInv
  <2>2. ASSUME NEW b \in Addresses PROVE IsInjective(arb_threads'[b])
    BY <1>2, <1>7 DEF ListInv
  <2>3. ASSUME NEW b \in Addresses, NEW u \in Threads
        PROVE  u \in ToSet(arb_threads'[b]) <=>
                   waiting_for_arbitration'[u] /\ call'[u].address = b
    <3>1. /\ u \in ToSet(arb_threads[b]) <=> waiting_for_arbitration[u] /\ call[u].address = b
          /\ u \in ToSet(arb_threads[a]) <=> waiting_for_arbitration[u] /\ call[u].address = a
      BY DEF ListInv
    <3>2. waiting_for_arbitration[u] => call'[u] = call[u]
      BY <1>4, <1>5
    <3>3. u \in ToSet(arb_threads'[b]) <=> u \in ToSet(arb_threads[b]) /\ u \notin woken
      <4>1. CASE b = a
        BY <4>1, <1>2, <1>7
      <4>2. CASE b # a
        BY <4>2, <1>2, <1>7, <3>1
      <4> QED BY <4>1, <4>2
    <3> QED BY <3>1, <3>2, <3>3, <1>6
  <2> QED BY <2>1, <2>2, <2>3 DEF ListInv
<1>12. PickedReportsSuccess'
  <2> SUFFICES ASSUME NEW u \in Threads, pc'[u] = "blocked"
               PROVE  waiting_for_arbitration'[u] <=> signaling_result'[u] = "TIMEOUT"
    BY DEF PickedReportsSuccess
  <2>1. pc[u] = "blocked"
    BY <1>4
  <2> QED BY <2>1, <1>3, <1>6 DEF PickedReportsSuccess
<1>13. NoLostWakeup'
  <2> SUFFICES ASSUME NEW u \in Threads, status'[u] = "WaitArb", WakesAll(u)', ~Justified(u)'
               PROVE  SignalIsDue(call[u].address)'
    BY DEF NoLostWakeup
  <2>1. u \notin woken /\ status[u] = "WaitArb" /\ u # t /\ call'[u] = call[u]
    BY <1>4, <1>5, <1>6
  <2>2. call[u].address \in Addresses /\ waiting_for_arbitration[u] /\ WakesAll(u)
    BY <2>1 DEF ListInv, CallInv, WakesAll
  <2>3. call[u].address # a
    BY <1>2, <2>1, <2>2 DEF WakesAll, ListInv
  <2>4. ~Justified(u)
    BY <2>1, <2>2, <2>3 DEF Justified
  <2>5. PICK v \in Threads : pc[v] = "stored" /\ call[v].address = call[u].address
    BY <2>1, <2>2, <2>4 DEF NoLostWakeup, SignalIsDue
  <2>6. v # t
    BY <2>3, <2>5
  <2> QED BY <2>1, <2>5, <2>6, <1>4 DEF SignalIsDue
<1> QED BY <1>8, <1>10, <1>11, <1>12, <1>13

\* The three signal operations differ in what they do to the word first.
LEMMA SignalStep ==
    ASSUME IInv, NEW t \in Threads, NEW a \in Addresses, NEW value \in Words,
           NEW n \in TargetsOf[a], SignalToAddress(t, a, value, n)
    PROVE  IInv'
<1> USE DEF IInv
<1>1. CASE SignalToAddressOnly(t, a, n)
  BY <1>1, WakeStep DEF SignalToAddressOnly, Runs, Goto, SetCall, TypeOK
<1>2. ASSUME WakeThreads(a, n), Runs(t, "user"), lock = None, UNCHANGED <<priority, lock, pc, call>>,
             NEW new \in Words, word' = [word EXCEPT ![a] = new]
      PROVE  IInv'
  <2>1. pc' = [pc EXCEPT ![t] = "user"]
    BY <1>2 DEF Runs, TypeOK
  <2>2. word' \in [Addresses -> Words] /\ \A b \in Addresses : b # a => word'[b] = word[b]
    BY <1>2 DEF TypeOK
  <2> QED BY <1>2, <2>1, <2>2, WakeStep DEF Runs
<1>3. CASE IncrementAndSignal(t, a, value, n)
  BY <1>2, <1>3 DEF IncrementAndSignal
<1>4. CASE ModifyByWaitingCountAndSignal(t, a, value, n)
  BY <1>2, <1>4 DEF ModifyByWaitingCountAndSignal
<1> QED BY <1>1, <1>3, <1>4 DEF SignalToAddress

-----------------------------------------------------------------------------

\* The types and the lock, what the lists hold, and the properties below.
THEOREM Invariance == Spec => []IInv
<1>1. Init => IInv
  <2> SUFFICES ASSUME Init PROVE IInv
    OBVIOUS
  <2>1. NoCall \in Calls
    BY DEF Calls
  <2>2. TypeOK
    BY <2>1, ArbiterAssumption DEF Init, TypeOK
  <2>3. \A t \in Threads : pc[t] = "user" /\ status[t] = "Ready" /\ ~waiting_for_arbitration[t]
    BY DEF Init
  <2>4. \A a \in Addresses : IsInjective(arb_threads[a]) /\ ToSet(arb_threads[a]) = {}
    BY DEF Init, IsInjective, ToSet
  <2>5. ListInv
    BY <2>3, <2>4 DEF ListInv
  <2> QED BY <2>2, <2>3, <2>5 DEF IInv, CallInv, DecrementInv, PickedReportsSuccess, NoLostWakeup
<1>2. IInv /\ [Next]_vars => IInv'
  <2> SUFFICES ASSUME IInv, [Next]_vars PROVE IInv'
    OBVIOUS
  <2>1. ASSUME NEW t \in Threads, NEW a \in Addresses, NEW type \in TypesOf[a],
               NEW value \in Words, NEW timeout \in Timeouts,
               WaitForAddress(t, a, type, value, timeout)
        PROVE  IInv'
    BY <2>1, EqualStep, LessThanStep DEF WaitForAddress
  <2>2. CASE UNCHANGED vars
    BY <2>2 DEF vars, IInv, TypeOK, CallInv, ListInv, DecrementInv, PickedReportsSuccess,
       NoLostWakeup, WakesAll, Justified, SignalIsDue
  <2> QED BY <2>1, <2>2, DecrementStep, TimeEventStep, StopWaitingStep, ReturnStep,
             SignalStep, GuestStoreStep, SetCurrentPriorityStep DEF Next
<1> QED BY <1>1, <1>2, PTL DEF Spec

\* No signal is spent on a thread that then reports a timeout, whatever the race
\* between WakeThreads, the time event and the return of the wait.
THEOREM SignalIsReported == Spec => []PickedReportsSuccess
<1>1. IInv => PickedReportsSuccess
  BY DEF IInv
<1> QED BY Invariance, <1>1, PTL

\* On an address whose signals wake all, nobody sleeps on a word that no longer
\* justifies it once the thread that stored it has signalled.
THEOREM WakeupIsNeverLost == Spec => []NoLostWakeup
<1>1. IInv => NoLostWakeup
  BY DEF IInv
<1> QED BY Invariance, <1>1, PTL
=============================================================================

------------------------- MODULE BufferQueue_proofs -------------------------
(***************************************************************************)
(* Proofs of BufferQueue: what Close promises, that items keep their       *)
(* order, and that each is accounted for, for any number of callers, items *)
(* and lists and whatever the eviction policies answer.                    *)
(***************************************************************************)
EXTENDS BufferQueue, FiniteSetTheorems, TLAPS

CallersOK ==
  /\ pc \in [Callers -> {"idle", "push", "pick", "close"}]
  /\ item \in [Callers -> Nat] /\ offered \in Nat /\ state \in {0, 1}

(***************************************************************************)
(* While the state is 0 nobody is about to close the channel and it is     *)
(* open; the one who has swapped the state is the only one, and the first. *)
(***************************************************************************)
CloseInv ==
  /\ CallersOK /\ StopClosedOnce
  /\ state = 0 => ~stopped /\ \A c \in Callers : pc[c] # "close"

(* Every other step than the two of Close leaves what CloseInv speaks of. *)
Aside ==
  /\ UNCHANGED <<state, stopped>>
  /\ \A c \in Callers : pc'[c] = "close" <=> pc[c] = "close"

LEMMA AsideStep ==
  ASSUME CloseInv, CallersOK', Aside
  PROVE  CloseInv'
BY DEF CloseInv, StopClosedOnce, Aside

LEMMA CloseStep ==
  ASSUME CloseInv, [Next]_vars
  PROVE  CloseInv'
<1> USE DEF Goto, CallersOK
<1>1. CallersOK BY DEF CloseInv
<1>2. ASSUME NEW c \in Callers, PushCheck(c) \/ PickCheck(c)
      PROVE  CloseInv'
  <2>1. CallersOK' BY <1>1, <1>2 DEF PushCheck, PickCheck
  <2>2. Aside BY <1>1, <1>2 DEF PushCheck, PickCheck, Aside
  <2> QED BY <2>1, <2>2, AsideStep
<1>3. ASSUME NEW c \in Callers, PushRoom(c) \/ PushFull(c) \/ PickEmpty(c) \/ PickFront(c)
      PROVE  CloseInv'
  <2>1. /\ UNCHANGED <<state, stopped, offered>>
        /\ pc[c] \in {"push", "pick"} /\ pc' = [pc EXCEPT ![c] = "idle"]
        /\ item' \in {item, [item EXCEPT ![c] = 0]}
    BY <1>3 DEF PushRoom, PushFull, PickEmpty, PickFront, PushReturn, listVars
  <2>2. CallersOK' BY <1>1, <2>1
  <2>3. Aside BY <1>1, <2>1 DEF Aside
  <2> QED BY <2>2, <2>3, AsideStep
<1>4. ASSUME NEW c \in Callers, CloseSwap(c)
      PROVE  CloseInv'
  <2>1. CallersOK' BY <1>1, <1>4 DEF CloseSwap
  <2>2. state = 0 /\ state' = 1 /\ stopped' = stopped /\ pc' = [pc EXCEPT ![c] = "close"]
    BY <1>4 DEF CloseSwap
  <2>3. \A d \in Callers : pc'[d] = "close" => d = c BY <1>1, <2>2 DEF CloseInv
  <2> QED BY <2>1, <2>2, <2>3 DEF CloseInv, StopClosedOnce
<1>5. ASSUME NEW c \in Callers, CloseStop(c)
      PROVE  CloseInv'
  <2>1. CallersOK' BY <1>1, <1>5 DEF CloseStop
  <2>2. pc[c] = "close" /\ state' = state /\ pc' = [pc EXCEPT ![c] = "idle"]
    BY <1>5 DEF CloseStop
  <2>3. state = 1 BY <1>1, <2>2 DEF CloseInv
  <2>4. \A d \in Callers : pc'[d] # "close" BY <1>1, <2>2 DEF CloseInv, StopClosedOnce
  <2> QED BY <2>1, <2>2, <2>3, <2>4 DEF CloseInv, StopClosedOnce
<1>6. ASSUME UNCHANGED <<state, stopped, callVars>>
      PROVE  CloseInv'
  BY <1>6 DEF CloseInv, StopClosedOnce, callVars
<1>7. ASSUME NEW c \in Callers, Reset(c) \/ \E p \in Policies : SetEvictPolicy(c, p)
      PROVE  CloseInv'
  BY <1>6, <1>7 DEF Reset, SetEvictPolicy
<1>8. CASE WorkerTick \/ WorkerEvict \/ WorkerStop \/ UNCHANGED vars
  BY <1>6, <1>8 DEF WorkerTick, WorkerEvict, WorkerStop, vars
<1> QED BY <1>2, <1>3, <1>4, <1>5, <1>7, <1>8 DEF Next, Locked

LEMMA CloseInvAlways == Spec => []CloseInv
<1>1. Init => CloseInv
  BY DEF Init, CloseInv, CallersOK, StopClosedOnce
<1> QED BY <1>1, CloseStep, PTL DEF Spec

(***************************************************************************)
(* Whoever is about to close the channel stop finds it open, so that no    *)
(* number of concurrent calls of Close closes it twice.  (queue.go:184)    *)
(***************************************************************************)
THEOREM StopClosedOnceAlways == Spec => []StopClosedOnce
<1>1. CloseInv => StopClosedOnce
  BY DEF CloseInv
<1> QED BY <1>1, CloseInvAlways, PTL

-----------------------------------------------------------------------------
DrySt == state = 1 =>
           /\ state' = 1
           /\ Admissions' \subseteq Admissions
           /\ <<Admitted, picked>>' # <<Admitted, picked>> => Admissions' # Admissions

LEMMA DryStep ==
  ASSUME CallersOK, [Next]_vars
  PROVE  DrySt
<1> USE DEF Goto, CallersOK, DrySt
<1>1. ASSUME NEW c \in Callers, PushRoom(c) \/ PushFull(c) \/ PickEmpty(c) \/ PickFront(c)
      PROVE  DrySt
  <2>1. state' = state /\ c \in Admissions /\ pc' = [pc EXCEPT ![c] = "idle"]
    BY <1>1 DEF PushRoom, PushFull, PickEmpty, PickFront, PushReturn, Admissions
  <2>2. Admissions' = Admissions \ {c} BY <2>1 DEF Admissions
  <2> QED BY <2>1, <2>2
<1>2. ASSUME NEW c \in Callers, CloseStop(c)
      PROVE  DrySt
  <2>1. /\ UNCHANGED <<state, item, offered, picked>>
        /\ pc[c] = "close" /\ pc' = [pc EXCEPT ![c] = "idle"]
    BY <1>2 DEF CloseStop
  <2>2. \A d \in Callers : /\ pc'[d] = "push" <=> pc[d] = "push"
                           /\ pc'[d] = "pick" <=> pc[d] = "pick"
    BY <2>1
  <2>3. Admissions' = Admissions BY <2>2 DEF Admissions
  <2>4. Admitted' = Admitted BY <2>1, <2>2 DEF Admitted
  <2> QED BY <2>1, <2>3, <2>4
<1>3. ASSUME UNCHANGED <<state, callVars, picked>>
      PROVE  DrySt
  BY <1>3 DEF callVars, Admissions, Admitted
<1>4. ASSUME NEW c \in Callers, Reset(c) \/ \E p \in Policies : SetEvictPolicy(c, p)
      PROVE  DrySt
  BY <1>3, <1>4 DEF Reset, SetEvictPolicy
<1>5. CASE WorkerTick \/ WorkerEvict \/ WorkerStop \/ UNCHANGED vars
  BY <1>3, <1>5 DEF WorkerTick, WorkerEvict, WorkerStop, vars
<1>6. ASSUME NEW c \in Callers, PushCheck(c) \/ PickCheck(c) \/ CloseSwap(c)
      PROVE  DrySt
  BY <1>6 DEF PushCheck, PickCheck, CloseSwap
<1> QED BY <1>1, <1>2, <1>4, <1>5, <1>6 DEF Next, Locked

(***************************************************************************)
(* Once the queue is closed, only the calls that were admitted before push *)
(* or pick, each of them once.  (queue.go:108, :128)                       *)
(***************************************************************************)
THEOREM ClosedRunsDryAlways == Spec => ClosedRunsDry
<1>1. CloseInv /\ [Next]_vars => [DrySt]_vars
  BY DryStep DEF CloseInv
<1> QED BY <1>1, CloseInvAlways, PTL DEF Spec, ClosedRunsDry, DrySt

-----------------------------------------------------------------------------
(***************************************************************************)
(* What an eviction leaves of a list.  The ranks of the positions that     *)
(* stay are 1, 2, ... without a gap, since a set has as many ranks as      *)
(* elements and no two share one.                                          *)
(***************************************************************************)
LEMMA UpTo ==
  ASSUME NEW n \in Nat
  PROVE  IsFiniteSet(1 .. n) /\ Cardinality(1 .. n) = n
BY FS_Interval

LEMMA RankIs ==
  ASSUME NEW P \in SUBSET Nat, IsFiniteSet(P)
  PROVE  /\ Cardinality(P) \in Nat
         /\ \A i \in P : Rank(P, i) \in 1 .. Cardinality(P)
         /\ \A i, j \in P : i < j => Rank(P, i) < Rank(P, j)
<1> DEFINE upto(i) == {j \in P : j <= i}
<1>1. Cardinality(P) \in Nat
  BY FS_CardinalityType
<1>2. ASSUME NEW i \in P
      PROVE  /\ IsFiniteSet(upto(i)) /\ Cardinality(upto(i)) \in Nat
             /\ Cardinality(upto(i)) <= Cardinality(P) /\ Cardinality(upto(i)) >= 1
  <2>1. upto(i) \in SUBSET P /\ i \in upto(i)
    OBVIOUS
  <2> HIDE DEF upto
  <2>2. IsFiniteSet(upto(i)) /\ Cardinality(upto(i)) <= Cardinality(P)
    BY <2>1, FS_Subset
  <2>3. Cardinality(upto(i)) \in Nat /\ Cardinality(upto(i)) # 0
    BY <2>1, <2>2, FS_CardinalityType, FS_EmptySet
  <2>. QED BY <2>2, <2>3
<1>3. ASSUME NEW i \in P, NEW j \in P, i < j
      PROVE  Cardinality(upto(i)) < Cardinality(upto(j))
  <2>1. /\ \A k \in P : k <= i => k <= j
        /\ j <= j /\ ~(j <= i)
    BY <1>3
  <2>4. upto(i) \in SUBSET upto(j) /\ j \in upto(j) /\ j \notin upto(i)
    BY <2>1, Zenon
  <2> HIDE DEF upto
  <2>2. /\ Cardinality(upto(i)) <= Cardinality(upto(j))
        /\ Cardinality(upto(i)) # Cardinality(upto(j))
    BY <1>2, <2>4, FS_Subset
  <2>. QED BY <1>2, <2>2
<1>4. \A i : Rank(P, i) = Cardinality(upto(i))
  BY DEF Rank
<1> HIDE DEF upto
<1>5. \A i \in P : Rank(P, i) \in 1 .. Cardinality(P)
  BY <1>1, <1>2, <1>4
<1>. QED BY <1>1, <1>3, <1>4, <1>5

LEMMA NthIs ==
  ASSUME NEW P \in SUBSET Nat, IsFiniteSet(P)
  PROVE  /\ \A n \in 1 .. Cardinality(P) : Nth(P, n) \in P
         /\ \A m, n \in 1 .. Cardinality(P) : m < n => Nth(P, m) < Nth(P, n)
         /\ \A i \in P : \E n \in 1 .. Cardinality(P) : Nth(P, n) = i
<1> DEFINE N    == 1 .. Cardinality(P)
           rank == [i \in P |-> Rank(P, i)]
<1>1. /\ Cardinality(P) \in Nat /\ \A i \in P : Rank(P, i) \in N
      /\ \A i, j \in P : i < j => Rank(P, i) < Rank(P, j)
  BY RankIs
<1>2. \A i, j \in P : Rank(P, i) = Rank(P, j) => i = j
  BY <1>1
<1>3. rank \in Surjection(P, N)
  <2>1. rank \in Injection(P, N)
    BY <1>1, <1>2 DEF Injection, IsInjective
  <2>2. IsFiniteSet(N) /\ Cardinality(N) = Cardinality(P)
    BY <1>1, FS_Interval
  <2> HIDE DEF rank, N
  <2>. QED BY <2>1, <2>2, FS_Injection
<1>4. \A n \in N : \E i \in P : Rank(P, i) = n
  BY <1>3 DEF Surjection
<1>5. \A n \in N : Nth(P, n) \in P /\ Rank(P, Nth(P, n)) = n
  BY <1>4 DEF Nth
<1>6. ASSUME NEW m \in N, NEW n \in N, m < n
      PROVE  Nth(P, m) < Nth(P, n)
  <2> DEFINE i == Nth(P, m)
             j == Nth(P, n)
  <2>1. i \in P /\ j \in P /\ Rank(P, i) = m /\ Rank(P, j) = n
    BY <1>5
  <2> HIDE DEF i, j
  <2>2. i < j
    BY <1>1, <1>6, <2>1
  <2>. QED BY <2>2 DEF i, j
<1>7. \A i \in P : Rank(P, i) \in N /\ Nth(P, Rank(P, i)) = i
  BY <1>1, <1>2, <1>5
<1>. QED BY <1>5, <1>6, <1>7

(* No item is twice in s. *)
Once(s) == \A i, j \in DOMAIN s : s[i] = s[j] => i = j

(***************************************************************************)
(* Without takes out what it should, and leaves the others once each, in   *)
(* their order.                                                            *)
(***************************************************************************)
LEMMA WithoutIs ==
  ASSUME NEW T, NEW s \in Seq(T), NEW S
  PROVE  /\ Without(s, S) \in Seq(T)
         /\ Without(s, S) \in Abstract!Subsequences(s)
         /\ ToSet(Without(s, S)) = ToSet(s) \ S
         /\ Once(s) => Once(Without(s, S))
<1> DEFINE P == Staying(s, S)
           N == Cardinality(P)
           f == [n \in 1 .. N |-> Nth(P, n)]
<1>1. /\ Len(s) \in Nat /\ DOMAIN s = 1 .. Len(s) /\ P \in SUBSET (1 .. Len(s))
      /\ \A i \in 1 .. Len(s) : s[i] \in T /\ (i \in P <=> s[i] \notin S)
  BY DEF Staying
<1> HIDE DEF P
<1>2. P \in SUBSET Nat /\ IsFiniteSet(P) /\ N \in Nat /\ N <= Len(s)
  <2>1. IsFiniteSet(1 .. Len(s)) /\ Cardinality(1 .. Len(s)) = Len(s)
    BY <1>1, UpTo
  <2>2. IsFiniteSet(P) /\ Cardinality(P) <= Cardinality(1 .. Len(s))
    BY <1>1, <2>1, FS_Subset
  <2>3. P \in SUBSET Nat
    BY <1>1
  <2>. QED BY <2>1, <2>2, <2>3, FS_CardinalityType
<1>3. /\ \A n \in 1 .. N : Nth(P, n) \in P
      /\ \A m, n \in 1 .. N : m < n => Nth(P, m) < Nth(P, n)
      /\ \A i \in P : \E n \in 1 .. N : Nth(P, n) = i
  BY <1>2, NthIs
<1> HIDE DEF N
<1>4. /\ DOMAIN f = 1 .. N /\ f \in [1 .. N -> P]
      /\ \A m, n \in 1 .. N : m < n => f[m] < f[n]
      /\ \A i \in P : \E n \in 1 .. N : f[n] = i
  BY <1>3
<1>5. Without(s, S) = [n \in DOMAIN f |-> s[f[n]]]
  BY DEF Without, P, N
<1> HIDE DEF f
<1> DEFINE r == [n \in DOMAIN f |-> s[f[n]]]
<1>6. /\ DOMAIN r = 1 .. N /\ r \in [1 .. N -> T]
      /\ \A n \in 1 .. N : r[n] = s[f[n]] /\ f[n] \in P
  BY <1>1, <1>4
<1>7. r \in Abstract!Subsequences(s)
  <2> DEFINE len == Len(s)
  <2>3. N \in 0 .. len
    BY <1>1, <1>2
  <2> HIDE DEF len
  <2>1. f \in [1 .. N -> 1 .. len]
    BY <1>1, <1>4 DEF len
  <2>2. f \in Abstract!Selections(Len(s))
    BY <1>4, <2>1, <2>3 DEF Abstract!Selections, len
  <2>. QED BY <2>2 DEF Abstract!Subsequences
<1> HIDE DEF r
<1>8. r \in Seq(T)
  BY <1>2, <1>6
<1>9. ToSet(r) = ToSet(s) \ S
  <2>1. ASSUME NEW n \in 1 .. N
        PROVE  r[n] \in ToSet(s) \ S
    BY <1>1, <1>6 DEF ToSet
  <2>2. ASSUME NEW i \in 1 .. Len(s), s[i] \notin S
        PROVE  \E n \in 1 .. N : r[n] = s[i]
    BY <1>1, <1>4, <1>6, <2>2
  <2>3. ToSet(r) = {r[n] : n \in 1 .. N} /\ ToSet(s) = {s[i] : i \in 1 .. Len(s)}
    BY <1>1, <1>6 DEF ToSet
  <2>. QED BY <2>1, <2>2, <2>3
<1>10. Once(s) => Once(r)
  <2>. SUFFICES ASSUME Once(s), NEW m \in 1 .. N, NEW n \in 1 .. N, r[m] = r[n]
                PROVE  m = n
    BY <1>6 DEF Once
  <2>1. f[m] \in 1 .. Len(s) /\ f[n] \in 1 .. Len(s) /\ s[f[m]] = s[f[n]]
    BY <1>1, <1>6
  <2>2. f[m] = f[n]
    BY <1>1, <2>1 DEF Once
  <2>. QED BY <1>2, <1>4, <2>1, <2>2
<1>. QED BY <1>5, <1>7, <1>8, <1>9, <1>10 DEF r

-----------------------------------------------------------------------------
(***************************************************************************)
(* Why BufferQueue implements LossyQueue: no two callers push the same     *)
(* item, no list beyond the one in use has been written to or evicted      *)
(* from, and neither the worker nor a policy knows one that is not there   *)
(* yet.                                                                    *)
(***************************************************************************)
PushesApart ==
  \A c, d \in Callers : pc[c] = "push" =>
    /\ item[c] \in 1 .. offered
    /\ pc[d] = "push" /\ item[c] = item[d] => c = d

CallsOK ==
  /\ state \in {0, 1} /\ stopped \in BOOLEAN
  /\ pc \in [Callers -> {"idle", "push", "pick", "close"}]
  /\ item \in [Callers -> 0 .. MaxItems] /\ offered \in 0 .. MaxItems
  /\ PushesApart

Unwritten(l) == list[l] = <<>> /\ gone[l] = {}

ListsOK ==
  /\ q \in Lists /\ list \in [0 .. MaxLists -> Seq(Items)]
  /\ gone \in [0 .. MaxLists -> SUBSET Items] /\ evictCount \in Nat
  /\ Unwritten(0) /\ \A l \in Lists : l > q => Unwritten(l)
  /\ ep \in Policies /\ known \in [Policies -> 0 .. q] /\ shown \in 0 .. q
  /\ worker \in {"waiting", "shown", "ended"} /\ picked \in Seq(Items)

QueueInv == CallsOK /\ ListsOK

(* Numbers of lists. *)
LEMMA ListNumbers ==
  ASSUME ListsOK
  PROVE  /\ q \in 1 .. MaxLists /\ q \in 0 .. MaxLists /\ MaxLists \in Nat
         /\ \A l \in 0 .. q : l \in 0 .. MaxLists
BY QueueAssumption DEF ListsOK, Lists

LEMMA QueueTypes == QueueInv => TypeOK
<1>. SUFFICES ASSUME QueueInv PROVE TypeOK
  OBVIOUS
<1>1. \A c \in Callers : pc[c] = "push" => item[c] \in 1 .. offered
  BY DEF QueueInv, CallsOK, PushesApart
<1>. QED BY <1>1 DEF QueueInv, CallsOK, ListsOK, Unwritten, TypeOK

LEMMA QueueInit == Init => QueueInv /\ Abstract!QueueInit
<1>. SUFFICES ASSUME Init PROVE QueueInv /\ Abstract!QueueInit
  OBVIOUS
<1>1. CallsOK
  <2>1. PushesApart /\ stopped \in BOOLEAN
    BY DEF Init, PushesApart
  <2>2. 0 \in 0 .. MaxItems
    BY QueueAssumption
  <2>3. state \in {0, 1} /\ offered \in 0 .. MaxItems
    BY <2>2 DEF Init
  <2>4. /\ pc \in [Callers -> {"idle", "push", "pick", "close"}]
        /\ item \in [Callers -> 0 .. MaxItems]
    BY <2>2 DEF Init
  <2>. QED BY <2>1, <2>3, <2>4 DEF CallsOK
<1>2. ListsOK
  BY QueueAssumption DEF Init, ListsOK, Lists, Unwritten
<1>3. Admitted = {}
  BY DEF Init, Admitted
<1>4. list[q] = <<>>
  BY <1>2, ListNumbers DEF Init
<1>. QED BY <1>1, <1>2, <1>3, <1>4 DEF QueueInv, Init, Abstract!QueueInit

(* The items S leave list l. *)
LEMMA EvictIs ==
  ASSUME ListsOK, NEW l \in 0 .. q, NEW S \in SUBSET ToSet(list[l]), Evict(l, S)
  PROVE  /\ evictCount' \in Nat /\ gone' \in [0 .. MaxLists -> SUBSET Items]
         /\ IsFiniteSet(S) /\ evictCount' = evictCount + Cardinality(S)
         /\ gone'[l] = gone[l] \cup S
         /\ \A k \in 0 .. MaxLists \ {l} : gone'[k] = gone[k]
         /\ gone'[0] = {}
<1>1. l \in 0 .. MaxLists
  BY ListNumbers
<1>2. list[l] \in Seq(Items) /\ S \subseteq Items
  BY <1>1 DEF ListsOK, ToSet
<1>3. IsFiniteSet(S)
  <2>1. IsFiniteSet(Items)
    BY QueueAssumption, FS_Interval DEF Items
  <2>. QED BY <1>2, <2>1, FS_Subset
<1>4. Cardinality(S) \in Nat
  BY <1>3, FS_CardinalityType
<1>5. gone' = [gone EXCEPT ![l] = @ \cup S] /\ evictCount' = evictCount + Cardinality(S)
  BY DEF Evict
<1>6. l = 0 => S = {}
  BY DEF ListsOK, Unwritten, ToSet
<1>. QED BY <1>1, <1>2, <1>3, <1>4, <1>5, <1>6 DEF ListsOK, Unwritten

(* The sequence as it is, and no sequence, are left of one. *)
LEMMA AllOrNothing ==
  ASSUME NEW T, NEW s \in Seq(T)
  PROVE  s \in Abstract!Subsequences(s) /\ <<>> \in Abstract!Subsequences(s)
<1> DEFINE id   == [i \in 1 .. Len(s) |-> i]
           none == [i \in 1 .. 0 |-> i]
<1>1. Len(s) \in Nat /\ DOMAIN s = 1 .. Len(s)
  OBVIOUS
<1>2. id \in Abstract!Selections(Len(s))
  <2>1. id \in [1 .. Len(s) -> 1 .. Len(s)] /\ Len(s) \in 0 .. Len(s)
    BY <1>1
  <2>. QED BY <2>1 DEF Abstract!Selections
<1>3. none \in Abstract!Selections(Len(s))
  <2>1. none \in [1 .. 0 -> 1 .. Len(s)] /\ 0 \in 0 .. Len(s)
    BY <1>1
  <2>2. \A i, j \in DOMAIN none : i < j => none[i] < none[j]
    OBVIOUS
  <2>. QED BY <2>1, <2>2 DEF Abstract!Selections
<1>4. s = [i \in DOMAIN id |-> s[id[i]]]
  BY <1>1
<1>5. <<>> = [i \in DOMAIN none |-> s[none[i]]]
  OBVIOUS
<1> HIDE DEF id, none
<1>. QED BY <1>2, <1>3, <1>4, <1>5 DEF Abstract!Subsequences

(* What the eviction of the items S from list l leaves of the lists. *)
Left(l, S) == [list EXCEPT ![l] = Without(list[l], S)]

LEMMA LeftIs ==
  ASSUME ListsOK, NEW l \in 0 .. q, NEW S \in SUBSET ToSet(list[l])
  PROVE  /\ Left(l, S) \in [0 .. MaxLists -> Seq(Items)]
         /\ \A k \in 0 .. MaxLists :
              /\ Left(l, S)[k] \in Abstract!Subsequences(list[k])
              /\ ToSet(Left(l, S)[k]) = IF k = l THEN ToSet(list[k]) \ S ELSE ToSet(list[k])
              /\ Once(list[k]) => Once(Left(l, S)[k])
              /\ list[k] = <<>> => Left(l, S)[k] = <<>>
<1> DEFINE r == Without(list[l], S)
<1>1. /\ l \in 0 .. MaxLists /\ DOMAIN list = 0 .. MaxLists
      /\ \A k \in 0 .. MaxLists : list[k] \in Seq(Items)
  BY ListNumbers DEF ListsOK
<1>2. /\ r \in Seq(Items) /\ r \in Abstract!Subsequences(list[l])
      /\ ToSet(r) = ToSet(list[l]) \ S /\ (Once(list[l]) => Once(r))
  BY <1>1, WithoutIs
<1>3. Left(l, S) = [list EXCEPT ![l] = r]
  BY DEF Left
<1> HIDE DEF r
<1>4. list[l] = <<>> => r = <<>>
  <2>1. list[l] = <<>> => ToSet(r) = {}
    BY <1>2 DEF ToSet
  <2>2. Len(r) # 0 => r[1] \in ToSet(r)
    BY <1>2 DEF ToSet
  <2>. QED BY <1>2, <2>1, <2>2
<1>5. \A k \in 0 .. MaxLists : list[k] \in Abstract!Subsequences(list[k])
  BY <1>1, AllOrNothing
<1>6. \A k \in 0 .. MaxLists : Left(l, S)[k] = IF k = l THEN r ELSE list[k]
  BY <1>1, <1>3
<1>7. Left(l, S) \in [0 .. MaxLists -> Seq(Items)]
  BY <1>1, <1>2, <1>3
<1>. QED BY <1>2, <1>4, <1>5, <1>6, <1>7

(***************************************************************************)
(* Push under the mutex takes some items from a list the policy knows, or  *)
(* none from no list, and puts its own behind what is left.                *)
(***************************************************************************)
LEMMA PushIs ==
  ASSUME QueueInv, NEW c \in Callers, PushRoom(c) \/ PushFull(c)
  PROVE  /\ pc[c] = "push" /\ item[c] \in Items
         /\ pc' = [pc EXCEPT ![c] = "idle"] /\ item' = [item EXCEPT ![c] = 0]
         /\ UNCHANGED <<state, stopped, q, ep, known, shown, worker, picked, offered>>
         /\ item[c] \notin Admitted /\ Admitted' = Admitted \cup {item[c]}
         /\ \E l \in 0 .. q : \E S \in SUBSET ToSet(list[l]) :
              Evict(l, S) /\ list' = [Left(l, S) EXCEPT ![q] = Append(@, item[c])]
<1>0. CallsOK /\ ListsOK
  BY DEF QueueInv
<1>1. /\ pc[c] = "push" /\ pc' = [pc EXCEPT ![c] = "idle"]
      /\ item' = [item EXCEPT ![c] = 0]
      /\ UNCHANGED <<state, stopped, q, ep, known, shown, worker, picked, offered>>
  BY DEF PushRoom, PushFull, PushReturn, Goto, policyVars, workVars
<1>2. item[c] \in 1 .. offered /\ item[c] \in Items /\ item[c] \notin Admitted
  BY <1>0, <1>1, QueueAssumption DEF CallsOK, PushesApart, Admitted, Items
<1>3. \A x \in 1 .. offered :
        (\A d \in Callers : pc'[d] = "push" => item'[d] # x)
          <=> \/ \A d \in Callers : pc[d] = "push" => item[d] # x
              \/ x = item[c]
  BY <1>0, <1>1 DEF CallsOK, PushesApart
<1>4. Admitted' = Admitted \cup {item[c]}
  BY <1>1, <1>2, <1>3 DEF Admitted
<1>5. CASE PushRoom(c)
  <2>1. /\ list' = [list EXCEPT ![q] = Append(@, item[c])]
        /\ gone' = gone /\ evictCount' = evictCount
    BY <1>5 DEF PushRoom
  <2>2. 0 \in 0 .. q /\ 0 \in 0 .. MaxLists /\ {} \in SUBSET ToSet(list[0])
    BY <1>0, ListNumbers
  <2>3. Evict(0, {})
    BY <1>0, <2>1, <2>2, FS_EmptySet DEF Evict, ListsOK
  <2>4. Left(0, {}) = list
    <3>1. Left(0, {})[0] = <<>> /\ list[0] = <<>>
      BY <1>0, <2>2, LeftIs DEF ListsOK, Unwritten
    <3>2. Left(0, {}) = [list EXCEPT ![0] = Left(0, {})[0]]
      BY <1>0, <2>2 DEF Left, ListsOK
    <3>. QED BY <1>0, <3>1, <3>2 DEF ListsOK
  <2>5. list' = [Left(0, {}) EXCEPT ![q] = Append(@, item[c])]
    BY <2>1, <2>4
  <2>. QED BY <1>1, <1>2, <1>4, <2>2, <2>3, <2>5
<1>6. CASE PushFull(c)
  <2>1. PICK S \in SUBSET ToSet(list[known[ep]]) :
          /\ Evict(known[ep], S)
          /\ list' = [[list EXCEPT ![known[ep]] = Without(list[known[ep]], S)]
                         EXCEPT ![q] = Append(@, item[c])]
    BY <1>6 DEF PushFull
  <2>2. known[ep] \in 0 .. q
    BY <1>0 DEF ListsOK
  <2>3. list' = [Left(known[ep], S) EXCEPT ![q] = Append(@, item[c])]
    BY <2>1 DEF Left
  <2>. QED BY <1>1, <1>2, <1>4, <2>1, <2>2, <2>3
<1>. QED BY <1>5, <1>6

QueueStep == QueueInv' /\ [Abstract!QueueNext]_<<Admitted, list[q], picked>>

(***************************************************************************)
(* The lists after an eviction from list l, and perhaps a push of x.       *)
(***************************************************************************)
LEMMA ListsKept ==
  ASSUME ListsOK, NEW l \in 0 .. q, NEW S \in SUBSET ToSet(list[l]), Evict(l, S),
         \/ list' = Left(l, S)
         \/ \E x \in Items : list' = [Left(l, S) EXCEPT ![q] = Append(@, x)],
         q' = q /\ ep' = ep /\ picked' = picked,
         known' \in [Policies -> 0 .. q] /\ shown' \in 0 .. q,
         worker' \in {"waiting", "shown", "ended"}
  PROVE  ListsOK'
<1>1. /\ Left(l, S) \in [0 .. MaxLists -> Seq(Items)]
      /\ \A k \in 0 .. MaxLists : list[k] = <<>> => Left(l, S)[k] = <<>>
  BY LeftIs
<1>2. /\ evictCount' \in Nat /\ gone' \in [0 .. MaxLists -> SUBSET Items]
      /\ \A k \in 0 .. MaxLists \ {l} : gone'[k] = gone[k]
      /\ gone'[0] = {}
  BY EvictIs
<1>3. /\ list' \in [0 .. MaxLists -> Seq(Items)]
      /\ \A k \in 0 .. MaxLists : k # q => list'[k] = Left(l, S)[k]
  <2> DEFINE left == Left(l, S)
  <2>1. left \in [0 .. MaxLists -> Seq(Items)] /\ q \in 0 .. MaxLists
    BY <1>1, ListNumbers
  <2>2. list' = left \/ \E x \in Items : list' = [left EXCEPT ![q] = Append(left[q], x)]
    OBVIOUS
  <2> HIDE DEF left
  <2>3. ASSUME NEW x \in Items, list' = [left EXCEPT ![q] = Append(left[q], x)]
        PROVE  /\ list' \in [0 .. MaxLists -> Seq(Items)]
               /\ \A k \in 0 .. MaxLists : k # q => list'[k] = left[k]
    <3>1. Append(left[q], x) \in Seq(Items)
      BY <2>1
    <3>. QED BY <2>1, <2>3, <3>1
  <2>. QED BY <2>1, <2>2, <2>3 DEF left
<1>4. ASSUME NEW k \in 0 .. MaxLists, k # q, k # l \/ k = 0, Unwritten(k)
      PROVE  Unwritten(k)'
  BY <1>1, <1>2, <1>3, <1>4 DEF Unwritten
<1>5. Unwritten(0)'
  BY <1>4, ListNumbers DEF ListsOK
<1>6. ASSUME NEW k \in Lists, k > q
      PROVE  Unwritten(k)'
  BY <1>4, <1>6, ListNumbers DEF ListsOK, Lists
<1>. QED BY <1>2, <1>3, <1>5, <1>6 DEF ListsOK

(* What the mutex does not guard: the looks at the state, and Close. *)
LEMMA QueueChecks ==
  ASSUME QueueInv, NEW c \in Callers, PushCheck(c) \/ PickCheck(c) \/ CloseSwap(c)
  PROVE  QueueStep /\ Admitted' = Admitted
<1>0. CallsOK /\ ListsOK
  BY DEF QueueInv
<1>1. ListsOK' /\ UNCHANGED <<list, q, picked>>
  BY <1>0 DEF PushCheck, PickCheck, CloseSwap, listVars, policyVars, workVars,
              ListsOK, Unwritten
<1>2. CASE PushCheck(c)
  <2>1. /\ pc[c] = "idle" /\ pc' = [pc EXCEPT ![c] = "push"]
        /\ offered < MaxItems /\ offered' = offered + 1
        /\ item' = [item EXCEPT ![c] = offered + 1]
        /\ UNCHANGED <<state, stopped>>
    BY <1>2 DEF PushCheck, Goto
  <2>2. CallsOK'
    <3>1. offered' \in 0 .. MaxItems /\ PushesApart'
      BY <1>0, <2>1, QueueAssumption DEF CallsOK, PushesApart
    <3>2. /\ pc' \in [Callers -> {"idle", "push", "pick", "close"}]
          /\ item' \in [Callers -> 0 .. MaxItems]
      BY <1>0, <2>1, <3>1 DEF CallsOK
    <3>. QED BY <1>0, <2>1, <3>1, <3>2 DEF CallsOK
  <2>3. Admitted' = Admitted
    <3>1. \A x \in Admitted : x \in Admitted'
      BY <1>0, <2>1 DEF Admitted, CallsOK
    <3>2. \A x \in Admitted' : x # offered + 1 /\ x \in 1 .. offered
      BY <1>0, <2>1 DEF Admitted, CallsOK
    <3>3. \A x \in Admitted' : x \in Admitted
      BY <1>0, <2>1, <3>2 DEF Admitted, CallsOK
    <3>. QED BY <3>1, <3>3
  <2>. QED BY <1>1, <2>2, <2>3 DEF QueueStep, QueueInv
<1>3. CASE PickCheck(c) \/ CloseSwap(c)
  <2>1. /\ pc[c] = "idle" /\ pc' \in {[pc EXCEPT ![c] = "pick"], [pc EXCEPT ![c] = "close"]}
        /\ state' \in {0, 1}
        /\ UNCHANGED <<stopped, item, offered>>
    BY <1>0, <1>3 DEF PickCheck, CloseSwap, Goto, CallsOK
  <2>2. \A d \in Callers : pc'[d] = "push" <=> pc[d] = "push"
    BY <1>0, <2>1 DEF CallsOK
  <2>3. PushesApart' /\ Admitted' = Admitted
    BY <1>0, <2>1, <2>2 DEF CallsOK, PushesApart, Admitted
  <2>4. pc' \in [Callers -> {"idle", "push", "pick", "close"}]
    BY <1>0, <2>1 DEF CallsOK
  <2>5. CallsOK'
    BY <1>0, <2>1, <2>3, <2>4 DEF CallsOK
  <2>. QED BY <1>1, <2>3, <2>5 DEF QueueStep, QueueInv
<1>. QED BY <1>2, <1>3

(* Push under the mutex: the item is a new one for the abstract queue. *)
LEMMA QueuePush ==
  ASSUME QueueInv, NEW c \in Callers, PushRoom(c) \/ PushFull(c)
  PROVE  QueueStep
<1>0. CallsOK /\ ListsOK
  BY DEF QueueInv
<1>1. /\ pc[c] = "push" /\ item[c] \in Items
      /\ pc' = [pc EXCEPT ![c] = "idle"] /\ item' = [item EXCEPT ![c] = 0]
      /\ UNCHANGED <<state, stopped, q, ep, known, shown, worker, picked, offered>>
      /\ item[c] \notin Admitted /\ Admitted' = Admitted \cup {item[c]}
  BY PushIs
<1>2. PICK l \in 0 .. q : \E S \in SUBSET ToSet(list[l]) :
        Evict(l, S) /\ list' = [Left(l, S) EXCEPT ![q] = Append(@, item[c])]
  BY PushIs
<1>3. PICK S \in SUBSET ToSet(list[l]) :
        Evict(l, S) /\ list' = [Left(l, S) EXCEPT ![q] = Append(@, item[c])]
  BY <1>2
<1>4. CallsOK'
  <2>1. PushesApart'
    BY <1>0, <1>1 DEF CallsOK, PushesApart
  <2>2. item' \in [Callers -> 0 .. MaxItems]
    BY <1>0, <1>1, QueueAssumption DEF CallsOK
  <2>. QED BY <1>0, <1>1, <2>1, <2>2 DEF CallsOK
<1>5. ListsOK'
  <2>1. /\ q' = q /\ ep' = ep /\ picked' = picked
        /\ known' \in [Policies -> 0 .. q] /\ shown' \in 0 .. q
        /\ worker' \in {"waiting", "shown", "ended"}
    BY <1>0, <1>1 DEF ListsOK
  <2>. QED BY <1>0, <1>1, <1>3, <2>1, ListsKept
<1>6. Abstract!Put(item[c])
  <2>1. Left(l, S) \in [0 .. MaxLists -> Seq(Items)] /\ q \in 0 .. MaxLists
    BY <1>0, LeftIs, ListNumbers
  <2>2. Left(l, S)[q] \in Abstract!Subsequences(list[q])
    BY <1>0, <2>1, LeftIs
  <2>3. list'[q'] = Append(Left(l, S)[q], item[c])
    BY <1>1, <1>3, <2>1
  <2>. QED BY <1>1, <2>2, <2>3 DEF Abstract!Put
<1>. QED BY <1>1, <1>4, <1>5, <1>6 DEF QueueStep, QueueInv, Abstract!QueueNext

(* Pick, and the second half of Close. *)
LEMMA QueuePick ==
  ASSUME QueueInv, NEW c \in Callers, PickEmpty(c) \/ PickFront(c) \/ CloseStop(c)
  PROVE  QueueStep /\ Admitted' = Admitted
<1>0. CallsOK /\ ListsOK
  BY DEF QueueInv
<1>1. /\ pc[c] # "push" /\ pc' = [pc EXCEPT ![c] = "idle"]
      /\ UNCHANGED <<state, q, ep, known, shown, worker, gone, evictCount, item, offered>>
  BY DEF PickEmpty, PickFront, CloseStop, Goto, listVars, policyVars, workVars
<1>2. stopped' \in BOOLEAN
  BY <1>0 DEF PickEmpty, PickFront, CloseStop, CallsOK
<1>3. CallsOK' /\ Admitted' = Admitted
  <2>1. PushesApart' /\ pc' \in [Callers -> {"idle", "push", "pick", "close"}]
    BY <1>0, <1>1 DEF CallsOK, PushesApart
  <2>2. Admitted' = Admitted
    BY <1>0, <1>1 DEF CallsOK, Admitted
  <2>. QED BY <1>0, <1>1, <1>2, <2>1, <2>2 DEF CallsOK
<1>4. CASE PickEmpty(c) \/ CloseStop(c)
  <2>1. UNCHANGED <<list, picked>>
    BY <1>4 DEF PickEmpty, CloseStop, listVars
  <2>. QED BY <1>0, <1>1, <1>3, <2>1 DEF ListsOK, Unwritten, QueueStep, QueueInv
<1>5. CASE PickFront(c)
  <2>1. /\ list[q] # <<>> /\ picked' = Append(picked, Head(list[q]))
        /\ list' = [list EXCEPT ![q] = Tail(@)]
    BY <1>5 DEF PickFront
  <2>2. /\ q \in 0 .. MaxLists /\ list[q] \in Seq(Items) /\ q # 0
    BY <1>0, ListNumbers DEF ListsOK
  <2>3. Head(list[q]) \in Items /\ Tail(list[q]) \in Seq(Items)
    BY <2>1, <2>2
  <2>4. /\ list' \in [0 .. MaxLists -> Seq(Items)] /\ picked' \in Seq(Items)
        /\ list'[q'] = Tail(list[q])
        /\ \A k \in 0 .. MaxLists : k # q => list'[k] = list[k]
    BY <1>0, <1>1, <2>1, <2>2, <2>3 DEF ListsOK
  <2>5. Unwritten(0)' /\ \A k \in Lists : k > q => Unwritten(k)'
    BY <1>0, <1>1, <2>2, <2>4, ListNumbers DEF ListsOK, Unwritten, Lists
  <2>6. ListsOK'
    BY <1>0, <1>1, <2>4, <2>5 DEF ListsOK
  <2>7. Abstract!Take
    BY <1>3, <2>1, <2>4 DEF Abstract!Take
  <2>. QED BY <1>3, <2>6, <2>7 DEF QueueStep, QueueInv, Abstract!QueueNext
<1>. QED BY <1>4, <1>5

(* Reset takes the next list, which is empty. *)
LEMMA QueueReset ==
  ASSUME QueueInv, NEW c \in Callers, Reset(c)
  PROVE  QueueStep /\ Admitted' = Admitted
<1>0. CallsOK /\ ListsOK
  BY DEF QueueInv
<1>1. /\ q < MaxLists /\ q' = q + 1 /\ evictCount' = 0
      /\ UNCHANGED <<state, stopped, list, gone, ep, known, shown, worker, pc, item,
                     offered, picked>>
  BY DEF Reset, policyVars, callVars, workVars
<1>2. CallsOK' /\ Admitted' = Admitted
  BY <1>0, <1>1 DEF CallsOK, PushesApart, Admitted
<1>3. ListsOK'
  <2>1. q' \in Lists /\ shown' \in 0 .. q' /\ 0 .. q \subseteq 0 .. q'
    BY <1>0, <1>1, ListNumbers DEF ListsOK, Lists
  <2>2. known' \in [Policies -> 0 .. q']
    BY <1>0, <1>1, <2>1 DEF ListsOK
  <2>3. Unwritten(0)' /\ \A l \in Lists : l > q' => Unwritten(l)'
    BY <1>0, <1>1, ListNumbers DEF ListsOK, Unwritten, Lists
  <2>. QED BY <1>0, <1>1, <2>1, <2>2, <2>3 DEF ListsOK
<1>4. Abstract!Lose
  <2>1. q \in 0 .. MaxLists /\ list'[q'] = <<>>
    BY <1>0, <1>1, ListNumbers DEF ListsOK, Unwritten, Lists
  <2>2. <<>> \in Abstract!Subsequences(list[q])
    BY <1>0, <2>1, AllOrNothing DEF ListsOK
  <2>. QED BY <1>1, <1>2, <2>1, <2>2 DEF Abstract!Lose
<1>. QED BY <1>2, <1>3, <1>4 DEF QueueStep, QueueInv, Abstract!QueueNext

(* The worker evicts from the list in use, or from one that is given up. *)
LEMMA QueueWorker ==
  ASSUME QueueInv,
         \/ WorkerTick \/ WorkerEvict \/ WorkerStop \/ UNCHANGED vars
         \/ \E c \in Callers, p \in Policies : SetEvictPolicy(c, p)
  PROVE  QueueStep /\ Admitted' = Admitted
<1>0. CallsOK /\ ListsOK
  BY DEF QueueInv
<1>1. UNCHANGED <<state, stopped, q, pc, item, offered, picked>>
  BY DEF WorkerTick, WorkerEvict, WorkerStop, SetEvictPolicy, vars, listVars,
         callVars, workVars
<1>2. CallsOK' /\ Admitted' = Admitted
  BY <1>0, <1>1 DEF CallsOK, PushesApart, Admitted
<1>3. CASE WorkerEvict
  <2>1. PICK S \in SUBSET ToSet(list[shown]) :
          Evict(shown, S) /\ list' = [list EXCEPT ![shown] = Without(list[shown], S)]
    BY <1>3 DEF WorkerEvict
  <2>2. /\ known' = [known EXCEPT ![ep] = shown] /\ ep' = ep /\ shown' = 0
        /\ worker' = "waiting"
    BY <1>3 DEF WorkerEvict
  <2>3. list' = Left(shown, S) /\ shown \in 0 .. q /\ q \in 0 .. MaxLists
    BY <1>0, <2>1, ListNumbers DEF Left, ListsOK
  <2>4. ListsOK'
    <3>1. /\ q' = q /\ ep' = ep /\ picked' = picked
          /\ known' \in [Policies -> 0 .. q] /\ shown' \in 0 .. q
          /\ worker' \in {"waiting", "shown", "ended"}
      BY <1>0, <1>1, <2>2, <2>3, ListNumbers DEF ListsOK
    <3>. QED BY <1>0, <2>1, <2>3, <3>1, ListsKept
  <2>5. Abstract!Lose
    BY <1>0, <1>1, <1>2, <2>3, LeftIs DEF Abstract!Lose
  <2>. QED BY <1>2, <2>4, <2>5 DEF QueueStep, QueueInv, Abstract!QueueNext
<1>4. CASE \/ WorkerTick \/ WorkerStop \/ UNCHANGED vars
           \/ \E c \in Callers, p \in Policies : SetEvictPolicy(c, p)
  <2>1. /\ UNCHANGED <<list, known, gone, evictCount>> /\ ep' \in Policies
        /\ shown' \in 0 .. q /\ worker' \in {"waiting", "shown", "ended"}
    BY <1>0, <1>4, ListNumbers DEF WorkerTick, WorkerStop, SetEvictPolicy, vars,
         listVars, policyVars, workVars, ListsOK
  <2>2. ListsOK'
    BY <1>0, <1>1, <2>1 DEF ListsOK, Unwritten
  <2>. QED BY <1>1, <1>2, <2>1, <2>2 DEF QueueStep, QueueInv
<1>. QED BY <1>3, <1>4

LEMMA QueueNext ==
  ASSUME QueueInv, [Next]_vars
  PROVE  QueueStep
BY QueueChecks, QueuePush, QueuePick, QueueReset, QueueWorker DEF Next, Locked

(***************************************************************************)
(* Every variable keeps to its type; a push under way has an item of its   *)
(* own call, and no list is known that is not made yet.                    *)
(***************************************************************************)
LEMMA QueueInvAlways == Spec => []QueueInv
<1>1. QueueInv /\ [Next]_vars => QueueInv'
  BY QueueNext DEF QueueStep
<1>. QED BY <1>1, QueueInit, PTL DEF Spec

THEOREM TypeOKAlways == Spec => []TypeOK
BY QueueInvAlways, QueueTypes, PTL

(***************************************************************************)
(* Refinement: items leave in the order in which they came in, each at     *)
(* most once, whatever is evicted, reset or pushed while the worker holds  *)
(* a stale list.  (queue.go: Push, Pick, Reset, autoEvict)                 *)
(***************************************************************************)
THEOREM ImplementsQueueAlways == Spec => ImplementsQueue
<1>1. QueueInv /\ [Next]_vars => QueueInv' /\ [Abstract!QueueNext]_<<Admitted, list[q], picked>>
  BY QueueNext DEF QueueStep
<1>. QED BY <1>1, QueueInit, PTL DEF Spec, ImplementsQueue, Abstract!QueueSpec
-----------------------------------------------------------------------------
(***************************************************************************)
(* Where the items are: in(k) holds those of sequence k, and out(k) those  *)
(* that were evicted from list k.  No two of these sets have an item in    *)
(* common, and together they are the set A.                                *)
(***************************************************************************)
Numbers == 0 .. MaxLists

Parted(in, out, A) ==
  /\ \A j, k \in Numbers : j # k => in[j] \cap in[k] = {} /\ out[j] \cap out[k] = {}
  /\ \A j, k \in Numbers : in[j] \cap out[k] = {}
  /\ \A x : x \in A <=> \E k \in Numbers : x \in in[k] \/ x \in out[k]

(* Some items of a sequence are evicted. *)
LEMMA PartedEvict ==
  ASSUME NEW in, NEW out, NEW in2, NEW out2, NEW A, Parted(in, out, A),
         NEW l \in Numbers, NEW S \in SUBSET in[l],
         in2[l] = in[l] \ S, out2[l] = out[l] \cup S,
         \A k \in Numbers \ {l} : in2[k] = in[k] /\ out2[k] = out[k]
  PROVE  Parted(in2, out2, A)
<1>1. ASSUME NEW j \in Numbers, NEW k \in Numbers
      PROVE  /\ j # k => in2[j] \cap in2[k] = {} /\ out2[j] \cap out2[k] = {}
             /\ in2[j] \cap out2[k] = {}
  BY DEF Parted
<1>2. ASSUME NEW x
      PROVE  x \in A <=> \E k \in Numbers : x \in in2[k] \/ x \in out2[k]
  BY DEF Parted
<1>. QED BY <1>1, <1>2 DEF Parted

(* An item changes from sequence l to sequence m. *)
LEMMA PartedMove ==
  ASSUME NEW in, NEW out, NEW in2, NEW A, Parted(in, out, A),
         NEW l \in Numbers, NEW m \in Numbers, l # m, NEW x \in in[l],
         in2[l] = in[l] \ {x}, in2[m] = in[m] \cup {x},
         \A k \in Numbers \ {l, m} : in2[k] = in[k]
  PROVE  Parted(in2, out, A)
<1>1. ASSUME NEW j \in Numbers, NEW k \in Numbers
      PROVE  /\ j # k => in2[j] \cap in2[k] = {} /\ out[j] \cap out[k] = {}
             /\ in2[j] \cap out[k] = {}
  BY DEF Parted
<1>2. ASSUME NEW y
      PROVE  y \in A <=> \E k \in Numbers : y \in in2[k] \/ y \in out[k]
  BY DEF Parted
<1>. QED BY <1>1, <1>2 DEF Parted

(* An item is new. *)
LEMMA PartedAdd ==
  ASSUME NEW in, NEW out, NEW in2, NEW A, Parted(in, out, A),
         NEW l \in Numbers, NEW x, x \notin A, in2[l] = in[l] \cup {x},
         \A k \in Numbers \ {l} : in2[k] = in[k]
  PROVE  Parted(in2, out, A \cup {x})
<1>1. ASSUME NEW j \in Numbers, NEW k \in Numbers
      PROVE  /\ j # k => in2[j] \cap in2[k] = {} /\ out[j] \cap out[k] = {}
             /\ in2[j] \cap out[k] = {}
  BY DEF Parted
<1>2. ASSUME NEW y
      PROVE  y \in A \cup {x} <=> \E k \in Numbers : y \in in2[k] \/ y \in out[k]
  BY DEF Parted
<1>. QED BY <1>1, <1>2 DEF Parted

(* What Append and Tail do to the items of a sequence. *)
LEMMA OnceAppend ==
  ASSUME NEW T, NEW s \in Seq(T), NEW x \in T
  PROVE  /\ ToSet(Append(s, x)) = ToSet(s) \cup {x}
         /\ Once(s) /\ x \notin ToSet(s) => Once(Append(s, x))
<1> DEFINE n == Len(s)
           r == Append(s, x)
<1>1. /\ n \in Nat /\ DOMAIN s = 1 .. n /\ DOMAIN r = 1 .. n + 1
      /\ r[n + 1] = x /\ \A i \in 1 .. n : r[i] = s[i]
  OBVIOUS
<1>2. ToSet(s) = {s[i] : i \in 1 .. n} /\ ToSet(r) = {r[i] : i \in 1 .. n + 1}
  BY <1>1 DEF ToSet
<1> HIDE DEF n, r
<1>3. ToSet(r) = ToSet(s) \cup {x}
  BY <1>1, <1>2
<1>4. Once(s) /\ x \notin ToSet(s) => Once(r)
  BY <1>1, <1>2 DEF Once
<1>. QED BY <1>3, <1>4 DEF r

LEMMA OnceTail ==
  ASSUME NEW T, NEW s \in Seq(T), s # <<>>, Once(s)
  PROVE  /\ Head(s) \in ToSet(s) /\ Head(s) \in T /\ Tail(s) \in Seq(T)
         /\ ToSet(Tail(s)) = ToSet(s) \ {Head(s)} /\ Once(Tail(s))
<1> DEFINE n == Len(s) - 1
           r == Tail(s)
<1>1. /\ n \in Nat /\ DOMAIN s = 1 .. n + 1 /\ DOMAIN r = 1 .. n
      /\ Head(s) = s[1] /\ \A i \in 1 .. n : r[i] = s[i + 1]
      /\ Head(s) \in T /\ r \in Seq(T)
  OBVIOUS
<1>2. ToSet(s) = {s[i] : i \in 1 .. n + 1} /\ ToSet(r) = {r[i] : i \in 1 .. n}
  BY <1>1 DEF ToSet
<1>3. \A i, j \in 1 .. n + 1 : s[i] = s[j] => i = j
  BY <1>1 DEF Once
<1> HIDE DEF n, r
<1>4. s[1] \in ToSet(s) /\ \A i \in 1 .. n : r[i] # s[1] /\ r[i] \in ToSet(s)
  BY <1>1, <1>2, <1>3
<1>5. ASSUME NEW i \in 1 .. n + 1, s[i] # s[1]
      PROVE  s[i] \in ToSet(r)
  <2>1. i - 1 \in 1 .. n /\ r[i - 1] = s[i]
    BY <1>1, <1>5
  <2>. QED BY <1>2, <2>1
<1>6. ToSet(r) = ToSet(s) \ {s[1]}
  BY <1>2, <1>4, <1>5
<1>7. Once(r)
  BY <1>1, <1>3 DEF Once
<1>. QED BY <1>1, <1>4, <1>6, <1>7 DEF r
-----------------------------------------------------------------------------
(***************************************************************************)
(* Why no item vanishes and none is doubled: sequence 0 is what has been   *)
(* picked, sequence l is list l, and each step moves items between two of  *)
(* the sets of Parted, or brings in one that is in none of them.           *)
(***************************************************************************)
SeqAt(k) == IF k = 0 THEN picked ELSE list[k]
Inside   == [k \in Numbers |-> ToSet(SeqAt(k))]

ItemsInv ==
  /\ \A k \in Numbers : Once(SeqAt(k))
  /\ Parted(Inside, gone, Admitted)
  /\ Counted

(* Evicted, for any history of the evictions. *)
Spread(out) == {x \in Items : \E l \in Lists : x \in out[l]}

LEMMA SeqTypes ==
  ASSUME ListsOK
  PROVE  \A k \in Numbers : SeqAt(k) \in Seq(Items) /\ Inside[k] = ToSet(SeqAt(k))
BY DEF ListsOK, SeqAt, Inside, Numbers

LEMMA ItemsInit == Init => ItemsInv
<1>. SUFFICES ASSUME Init PROVE ItemsInv
  OBVIOUS
<1>1. /\ q \in Numbers /\ evictCount = 0 /\ Admitted = {}
      /\ \A k \in Numbers : SeqAt(k) = <<>> /\ gone[k] = {}
  BY QueueAssumption DEF Init, SeqAt, Numbers, Admitted
<1>2. \A k \in Numbers : Inside[k] = {} /\ Once(SeqAt(k))
  BY <1>1 DEF Inside, Once, ToSet
<1>3. Parted(Inside, gone, Admitted)
  BY <1>1, <1>2 DEF Parted
<1>4. Cardinality(gone[q]) = 0
  BY <1>1, FS_EmptySet
<1>5. Cardinality(Evicted) = 0
  <2>1. Evicted = {}
    BY <1>1 DEF Evicted, Lists, Numbers
  <2>. QED BY <2>1, FS_EmptySet
<1>. QED BY <1>1, <1>2, <1>3, <1>4, <1>5 DEF ItemsInv, Counted

(* What is left where after an eviction that no push follows. *)
LEMMA EvictItems ==
  ASSUME ListsOK, ItemsInv, NEW l \in 0 .. q, NEW S \in SUBSET ToSet(list[l]), Evict(l, S),
         NEW seq, seq = [k \in Numbers |-> IF k = 0 THEN picked ELSE Left(l, S)[k]]
  PROVE  /\ \A k \in Numbers : seq[k] \in Seq(Items) /\ Once(seq[k])
         /\ Parted([k \in Numbers |-> ToSet(seq[k])], gone', Admitted)
         /\ Cardinality(gone'[q]) <= evictCount'
         /\ evictCount' <= Cardinality(Spread(gone'))
<1> DEFINE in == [k \in Numbers |-> ToSet(seq[k])]
<1>1. l \in Numbers /\ q \in Numbers /\ (l = 0 => S = {})
  BY ListNumbers DEF Numbers, ListsOK, Unwritten, ToSet
<1>2. \A k \in Numbers : SeqAt(k) \in Seq(Items) /\ Inside[k] = ToSet(SeqAt(k)) /\ Once(SeqAt(k))
  BY SeqTypes DEF ItemsInv
<1>3. ASSUME NEW k \in Numbers
      PROVE  /\ seq[k] \in Seq(Items) /\ Once(seq[k])
             /\ ToSet(seq[k]) = IF k = l THEN Inside[k] \ S ELSE Inside[k]
  <2>1. CASE k = 0
    <3>1. seq[k] = SeqAt(k)
      BY <2>1 DEF SeqAt
    <3>. QED BY <1>1, <1>2, <2>1, <3>1
  <2>2. CASE k # 0
    <3>1. seq[k] = Left(l, S)[k] /\ SeqAt(k) = list[k]
      BY <2>2 DEF SeqAt
    <3>2. k \in 0 .. MaxLists /\ Left(l, S) \in [0 .. MaxLists -> Seq(Items)]
      BY LeftIs DEF Numbers
    <3>3. /\ ToSet(Left(l, S)[k]) = IF k = l THEN ToSet(list[k]) \ S ELSE ToSet(list[k])
          /\ Once(list[k]) => Once(Left(l, S)[k])
      <4>1. \A j \in 0 .. MaxLists :
              /\ Left(l, S)[j] \in Abstract!Subsequences(list[j])
              /\ ToSet(Left(l, S)[j]) = IF j = l THEN ToSet(list[j]) \ S ELSE ToSet(list[j])
              /\ Once(list[j]) => Once(Left(l, S)[j])
              /\ list[j] = <<>> => Left(l, S)[j] = <<>>
        BY LeftIs
      <4>. QED BY <3>2, <4>1, Zenon
    <3>. QED BY <1>2, <3>1, <3>2, <3>3
  <2>. QED BY <2>1, <2>2
<1>4. /\ IsFiniteSet(S) /\ gone'[l] = gone[l] \cup S
      /\ \A k \in Numbers \ {l} : gone'[k] = gone[k]
      /\ evictCount' = evictCount + Cardinality(S)
  BY EvictIs DEF Numbers
<1>5. S \in SUBSET Inside[l]
  BY <1>1, <1>2 DEF SeqAt
<1>6. Parted(in, gone', Admitted)
  <2>1. in[l] = Inside[l] \ S /\ \A k \in Numbers \ {l} : in[k] = Inside[k]
    BY <1>1, <1>3
  <2>2. Parted(Inside, gone, Admitted)
    BY DEF ItemsInv
  <2> DEFINE out == gone'
  <2>3. out[l] = gone[l] \cup S
    BY <1>4
  <2>4. \A k \in Numbers \ {l} : in[k] = Inside[k] /\ out[k] = gone[k]
    BY <1>4, <2>1
  <2> HIDE DEF in, out
  <2>5. Parted(in, out, Admitted)
    BY <1>1, <1>5, <2>1, <2>2, <2>3, <2>4, PartedEvict
  <2>. QED BY <2>5 DEF out
<1>7. Cardinality(gone'[q]) <= evictCount'
  <2>1. /\ IsFiniteSet(gone[q]) /\ Cardinality(gone[q]) \in Nat /\ Cardinality(S) \in Nat
        /\ evictCount \in Nat /\ Cardinality(gone[q]) <= evictCount
    <3>1. gone[q] \in SUBSET Items /\ IsFiniteSet(Items)
      BY <1>1, QueueAssumption, UpTo DEF ListsOK, Items, Numbers
    <3>. QED BY <1>4, <3>1, FS_Subset, FS_CardinalityType DEF ItemsInv, Counted, ListsOK
  <2>2. Cardinality(gone[q] \cup S) <= Cardinality(gone[q]) + Cardinality(S)
    <3>1. /\ IsFiniteSet(gone[q] \cap S) /\ Cardinality(gone[q] \cap S) \in Nat
      BY <1>4, <2>1, FS_Intersection, FS_CardinalityType
    <3>2. Cardinality(gone[q] \cup S)
            = Cardinality(gone[q]) + Cardinality(S) - Cardinality(gone[q] \cap S)
      BY <1>4, <2>1, FS_Union
    <3>. QED BY <2>1, <3>1, <3>2
  <2>3. CASE q = l
    <3>1. Cardinality(gone'[q]) = Cardinality(gone[q] \cup S)
      BY <1>4, <2>3
    <3>2. Cardinality(gone[q] \cup S) \in Nat
      BY <1>4, <2>1, FS_Union, FS_CardinalityType
    <3>. QED BY <1>4, <2>1, <2>2, <3>1, <3>2
  <2>4. CASE q # l
    <3>1. Cardinality(gone'[q]) = Cardinality(gone[q])
      BY <1>1, <1>4, <2>4
    <3>. QED BY <1>4, <2>1, <3>1
  <2>. QED BY <2>3, <2>4
<1>8. evictCount' <= Cardinality(Spread(gone'))
  <2> DEFINE out == gone'
  <2>1. /\ IsFiniteSet(Items) /\ Spread(gone) \in SUBSET Items /\ S \in SUBSET Items
    <3>1. IsFiniteSet(Items)
      BY QueueAssumption, UpTo DEF Items
    <3>2. SeqAt(l) \in Seq(Items) /\ S \in SUBSET ToSet(SeqAt(l))
      BY <1>1, <1>2, <1>5
    <3>3. S \in SUBSET Items
      BY <3>2 DEF ToSet
    <3>. QED BY <3>1, <3>3 DEF Spread
  <2>2. Spread(gone) \cap S = {}
    <3>1. l \in Numbers /\ Parted(Inside, gone, Admitted) /\ \A k \in Lists : k \in Numbers
      BY <1>1 DEF ItemsInv, Numbers, Lists
    <3>. QED BY <1>5, <3>1 DEF Spread, Parted
  <2>3. Spread(out) = Spread(gone) \cup S
    <3>1. out[l] = gone[l] \cup S /\ \A k \in Lists \ {l} : out[k] = gone[k]
      BY <1>4 DEF Lists, Numbers
    <3>2. l \in Lists \/ S = {}
      BY <1>1 DEF Lists, Numbers
    <3> HIDE DEF out
    <3>. QED BY <2>1, <3>1, <3>2 DEF Spread
  <2>4. IsFiniteSet(Spread(gone)) /\ Cardinality(Spread(gone)) \in Nat /\ Cardinality(S) \in Nat
    BY <1>4, <2>1, FS_Subset, FS_CardinalityType
  <2>5. Cardinality(Spread(gone) \cup S) = Cardinality(Spread(gone)) + Cardinality(S)
    <3>1. Cardinality(Spread(gone) \cap S) = 0
      BY <2>2, FS_EmptySet
    <3>2. Cardinality(Spread(gone) \cup S)
            = Cardinality(Spread(gone)) + Cardinality(S) - Cardinality(Spread(gone) \cap S)
      BY <1>4, <2>4, FS_Union
    <3>. QED BY <2>4, <3>1, <3>2
  <2>6. evictCount \in Nat /\ evictCount <= Cardinality(Spread(gone))
    BY DEF ItemsInv, Counted, Evicted, Spread, ListsOK
  <2>7. Cardinality(Spread(out)) = Cardinality(Spread(gone)) + Cardinality(S)
    BY <2>3, <2>5
  <2>. QED BY <1>4, <2>4, <2>6, <2>7 DEF out
<1>. QED BY <1>3, <1>6, <1>7, <1>8

LEMMA ItemsPush ==
  ASSUME ListsOK, ItemsInv, CallsOK, NEW c \in Callers, PushRoom(c) \/ PushFull(c)
  PROVE  ItemsInv'
<1> DEFINE x == item[c]
<1>1. /\ x \in Items /\ x \notin Admitted /\ Admitted' = Admitted \cup {x}
      /\ q' = q /\ picked' = picked
  BY PushIs DEF QueueInv
<1>2. PICK l \in 0 .. q : \E S \in SUBSET ToSet(list[l]) :
        Evict(l, S) /\ list' = [Left(l, S) EXCEPT ![q] = Append(@, x)]
  BY PushIs DEF QueueInv
<1>3. PICK S \in SUBSET ToSet(list[l]) :
        Evict(l, S) /\ list' = [Left(l, S) EXCEPT ![q] = Append(@, x)]
  BY <1>2
<1> HIDE DEF x
<1> DEFINE seq == [k \in Numbers |-> IF k = 0 THEN picked ELSE Left(l, S)[k]]
           in  == [k \in Numbers |-> ToSet(seq[k])]
           out == gone'
<1>4. /\ \A k \in Numbers : seq[k] \in Seq(Items) /\ Once(seq[k])
      /\ Parted(in, out, Admitted)
      /\ Cardinality(out[q]) <= evictCount' /\ evictCount' <= Cardinality(Spread(out))
  BY <1>3, EvictItems
<1>5. /\ q \in Numbers /\ q # 0
      /\ \A k \in Numbers : SeqAt(k)' = IF k = q THEN Append(seq[q], x) ELSE seq[k]
  <2>1. q \in Numbers /\ q # 0 /\ Left(l, S) \in [Numbers -> Seq(Items)]
    BY LeftIs, ListNumbers DEF Numbers
  <2>2. \A k \in Numbers : SeqAt(k)' = IF k = 0 THEN picked' ELSE list'[k]
    BY DEF SeqAt
  <2>. QED BY <1>1, <1>3, <2>1, <2>2
<1>6. \A k \in Numbers : in[k] = ToSet(seq[k])
  OBVIOUS
<1> HIDE DEF seq, in, out
<1>7. x \notin in[q]
  BY <1>1, <1>4, <1>5 DEF Parted
<1>8. /\ ToSet(Append(seq[q], x)) = in[q] \cup {x}
      /\ Once(Append(seq[q], x))
  BY <1>1, <1>4, <1>5, <1>6, <1>7, OnceAppend
<1> DEFINE in2 == Inside'
<1>9. \A k \in Numbers : in2[k] = ToSet(SeqAt(k)')
  BY DEF Inside
<1> HIDE DEF in2
<1>10. \A k \in Numbers : Once(SeqAt(k)')
  BY <1>4, <1>5, <1>8
<1>11. Parted(in2, out, Admitted \cup {x})
  <2>1. in2[q] = in[q] \cup {x} /\ \A k \in Numbers \ {q} : in2[k] = in[k]
    BY <1>5, <1>6, <1>8, <1>9
  <2>. QED BY <1>1, <1>4, <1>5, <2>1, PartedAdd
<1>12. Parted(Inside, gone, Admitted)'
  <2>1. Parted(Inside', gone', Admitted')
    BY <1>1, <1>11 DEF in2, out
  <2>. QED BY <2>1 DEF Parted
<1>13. (\A k \in Numbers : Once(SeqAt(k)))'
  BY <1>10 DEF Once
<1>14. Counted'
  BY <1>1, <1>4 DEF out, Counted, Evicted, Spread
<1>. QED BY <1>12, <1>13, <1>14 DEF ItemsInv

LEMMA ItemsWorker ==
  ASSUME ListsOK, ItemsInv, Admitted' = Admitted, WorkerEvict
  PROVE  ItemsInv'
<1>1. PICK S \in SUBSET ToSet(list[shown]) :
        Evict(shown, S) /\ list' = [list EXCEPT ![shown] = Without(list[shown], S)]
  BY DEF WorkerEvict
<1>2. list' = Left(shown, S) /\ shown \in 0 .. q /\ q' = q /\ picked' = picked
  BY <1>1 DEF WorkerEvict, Left, ListsOK
<1> DEFINE seq == [k \in Numbers |-> IF k = 0 THEN picked ELSE Left(shown, S)[k]]
<1>3. /\ \A k \in Numbers : seq[k] \in Seq(Items) /\ Once(seq[k])
      /\ Parted([k \in Numbers |-> ToSet(seq[k])], gone', Admitted)
      /\ Cardinality(gone'[q]) <= evictCount' /\ evictCount' <= Cardinality(Spread(gone'))
  BY <1>1, <1>2, EvictItems
<1>4. \A k \in Numbers : SeqAt(k)' = seq[k]
  BY <1>2 DEF SeqAt
<1> HIDE DEF seq
<1>5. Inside' = [k \in Numbers |-> ToSet(seq[k])]
  BY <1>4 DEF Inside
<1>6. Parted(Inside, gone, Admitted)'
  <2>1. Parted(Inside', gone', Admitted')
    BY <1>3, <1>5
  <2>. QED BY <2>1 DEF Parted
<1>7. (\A k \in Numbers : Once(SeqAt(k)))'
  BY <1>3, <1>4 DEF Once
<1>8. Counted'
  BY <1>2, <1>3 DEF Counted, Evicted, Spread
<1>. QED BY <1>6, <1>7, <1>8 DEF ItemsInv

LEMMA ItemsPick ==
  ASSUME ListsOK, ItemsInv, Admitted' = Admitted, NEW c \in Callers, PickFront(c)
  PROVE  ItemsInv'
<1> DEFINE s == list[q]
           x == Head(s)
<1>1. /\ s # <<>> /\ picked' = Append(picked, x) /\ list' = [list EXCEPT ![q] = Tail(s)]
      /\ q' = q /\ gone' = gone /\ evictCount' = evictCount
  BY DEF PickFront
<1>2. /\ q \in Numbers /\ q # 0 /\ 0 \in Numbers
      /\ s \in Seq(Items) /\ picked \in Seq(Items) /\ Once(s) /\ Once(picked)
      /\ Inside[q] = ToSet(s) /\ Inside[0] = ToSet(picked)
      /\ \A k \in Numbers : Inside[k] = ToSet(SeqAt(k)) /\ Once(SeqAt(k))
      /\ Parted(Inside, gone, Admitted) /\ Counted
  <2>1. q \in Numbers /\ q # 0 /\ 0 \in Numbers
    BY ListNumbers DEF Numbers
  <2>. QED BY <2>1, SeqTypes DEF ItemsInv, SeqAt
<1>3. /\ x \in ToSet(s) /\ x \in Items
      /\ ToSet(Tail(s)) = ToSet(s) \ {x} /\ Once(Tail(s))
  BY <1>1, <1>2, OnceTail
<1>4. x \notin ToSet(picked)
  BY <1>2, <1>3 DEF Parted
<1>5. ToSet(Append(picked, x)) = ToSet(picked) \cup {x} /\ Once(Append(picked, x))
  BY <1>2, <1>3, <1>4, OnceAppend
<1>6. \A k \in Numbers :
        SeqAt(k)' = IF k = 0 THEN Append(picked, x) ELSE IF k = q THEN Tail(s) ELSE SeqAt(k)
  <2>1. DOMAIN list = Numbers
    BY DEF ListsOK, Numbers
  <2>. QED BY <1>1, <1>2, <2>1 DEF SeqAt
<1> HIDE DEF s, x
<1> DEFINE in2 == Inside'
<1>7. \A k \in Numbers : in2[k] = ToSet(SeqAt(k)')
  BY DEF Inside
<1> HIDE DEF in2
<1>8. Parted(in2, gone, Admitted)
  <2>1. /\ in2[q] = Inside[q] \ {x} /\ in2[0] = Inside[0] \cup {x}
        /\ \A k \in Numbers \ {q, 0} : in2[k] = Inside[k]
    BY <1>2, <1>3, <1>5, <1>6, <1>7
  <2>. QED BY <1>2, <1>3, <2>1, PartedMove
<1>9. Parted(Inside, gone, Admitted)'
  <2>1. Parted(Inside', gone', Admitted')
    BY <1>1, <1>8 DEF in2
  <2>. QED BY <2>1 DEF Parted
<1>10. \A k \in Numbers : Once(SeqAt(k)')
  BY <1>2, <1>3, <1>5, <1>6
<1>11. (\A k \in Numbers : Once(SeqAt(k)))'
  BY <1>10 DEF Once
<1>12. Counted'
  BY <1>1, <1>2 DEF Counted, Evicted
<1>. QED BY <1>9, <1>11, <1>12 DEF ItemsInv

(* A Reset moves nothing: the items stay in the list it gives up. *)
LEMMA ItemsStay ==
  ASSUME ListsOK, ItemsInv, Admitted' = Admitted, UNCHANGED <<list, picked, gone>>,
         \/ q' = q /\ evictCount' = evictCount
         \/ q' = q + 1 /\ q < MaxLists /\ evictCount' = 0
  PROVE  ItemsInv'
<1>1. Parted(Inside, gone, Admitted)'
  BY DEF ItemsInv, Parted, Inside, SeqAt
<1>2. (\A k \in Numbers : Once(SeqAt(k)))'
  BY DEF ItemsInv, Once, SeqAt
<1>3. Counted'
  <2>1. CASE q' = q /\ evictCount' = evictCount
    BY <2>1 DEF ItemsInv, Counted, Evicted
  <2>2. CASE q' = q + 1 /\ q < MaxLists /\ evictCount' = 0
    <3>1. gone'[q'] = {}
      BY <2>2, ListNumbers DEF ListsOK, Unwritten, Lists
    <3>2. Cardinality(gone'[q']) = 0
      BY <3>1, FS_EmptySet
    <3>3. Cardinality(Evicted') \in Nat
      <4>1. Evicted' \in SUBSET Items
        BY DEF Evicted
      <4>. QED BY <4>1, QueueAssumption, UpTo, FS_Subset, FS_CardinalityType DEF Items
    <3>. QED BY <2>2, <3>2, <3>3 DEF Counted
  <2>. QED BY <2>1, <2>2
<1>. QED BY <1>1, <1>2, <1>3 DEF ItemsInv

LEMMA ItemsNext ==
  ASSUME QueueInv, ItemsInv, [Next]_vars
  PROVE  ItemsInv'
<1>0. CallsOK /\ ListsOK
  BY DEF QueueInv
<1>1. ASSUME NEW c \in Callers,
             \/ PushCheck(c) \/ PickCheck(c) \/ CloseSwap(c)
             \/ PickEmpty(c) \/ CloseStop(c) \/ Reset(c)
      PROVE  ItemsInv'
  <2>1. Admitted' = Admitted
    BY <1>1, QueueChecks, QueuePick, QueueReset
  <2>2. /\ UNCHANGED <<list, picked, gone>>
        /\ \/ q' = q /\ evictCount' = evictCount
           \/ q' = q + 1 /\ q < MaxLists /\ evictCount' = 0
    BY <1>1 DEF PushCheck, PickCheck, CloseSwap, PickEmpty, CloseStop, Reset, listVars
  <2>. QED BY <1>0, <2>1, <2>2, ItemsStay
<1>2. ASSUME NEW c \in Callers, PushRoom(c) \/ PushFull(c)
      PROVE  ItemsInv'
  BY <1>0, <1>2, ItemsPush
<1>3. ASSUME NEW c \in Callers, PickFront(c)
      PROVE  ItemsInv'
  BY <1>0, <1>3, QueuePick, ItemsPick
<1>4. ASSUME WorkerEvict
      PROVE  ItemsInv'
  BY <1>0, <1>4, QueueWorker, ItemsWorker
<1>5. ASSUME \/ WorkerTick \/ WorkerStop \/ UNCHANGED vars
             \/ \E c \in Callers, p \in Policies : SetEvictPolicy(c, p)
      PROVE  ItemsInv'
  <2>1. Admitted' = Admitted
    BY <1>5, QueueWorker
  <2>2. UNCHANGED <<list, picked, gone, q, evictCount>>
    BY <1>5 DEF WorkerTick, WorkerStop, SetEvictPolicy, vars, listVars
  <2>. QED BY <1>0, <2>1, <2>2, ItemsStay
<1>. QED BY <1>1, <1>2, <1>3, <1>4, <1>5 DEF Next, Locked

(* An item in one of the sets has one place, and one in none has none. *)
LEMMA ItemsAccounted ==
  ASSUME ListsOK, ItemsInv
  PROVE  Accounted
<1>1. /\ Parted(Inside, gone, Admitted)
      /\ \A k \in Numbers : Inside[k] = ToSet(SeqAt(k)) /\ Once(SeqAt(k))
      /\ 0 \in Numbers /\ Lists = Numbers \ {0} /\ gone[0] = {}
  <2>1. 0 \in Numbers /\ Lists = Numbers \ {0}
    BY QueueAssumption DEF Numbers, Lists
  <2>. QED BY <2>1, SeqTypes DEF ItemsInv, ListsOK, Unwritten
<1>2. ASSUME NEW x
      PROVE  /\ \A p \in Places(x) : \E k \in Numbers :
                  \/ \E i \in Positions(SeqAt(k), x) : p = <<k, i>>
                  \/ x \in gone[k] /\ p = <<k, 0>>
             /\ \A k \in Numbers :
                  /\ \A i \in Positions(SeqAt(k), x) : <<k, i>> \in Places(x)
                  /\ x \in gone[k] => <<k, 0>> \in Places(x)
  <2>1. Positions(picked, x) = Positions(SeqAt(0), x)
        /\ \A k \in Lists : Positions(list[k], x) = Positions(SeqAt(k), x) /\ k \in Numbers
    BY <1>1 DEF SeqAt
  <2> DEFINE taken   == {<<0, i>> : i \in Positions(picked, x)}
             row(l)  == {<<l, i>> : i \in Positions(list[l], x)}
             evicted == {<<l, 0>> : l \in {k \in Lists : x \in gone[k]}}
  <2>4. \A p : p \in Places(x) <=>
               p \in taken \/ p \in evicted \/ \E l \in Lists : p \in row(l)
    <3>1. Places(x) = taken \cup evicted \cup UNION {row(l) : l \in Lists}
      BY DEF Places
    <3> HIDE DEF row
    <3>2. \A p : p \in UNION {row(l) : l \in Lists} <=> \E l \in Lists : p \in row(l)
      OBVIOUS
    <3> HIDE DEF taken, evicted
    <3>. QED BY <3>1, <3>2
  <2>2. ASSUME NEW p \in Places(x)
        PROVE  \E k \in Numbers :
                  \/ \E i \in Positions(SeqAt(k), x) : p = <<k, i>>
                  \/ x \in gone[k] /\ p = <<k, 0>>
    <3>1. CASE p \in taken
      BY <1>1, <2>1, <3>1
    <3>2. ASSUME NEW l \in Lists, p \in row(l)
          PROVE  \E k \in Numbers : \E i \in Positions(SeqAt(k), x) : p = <<k, i>>
      BY <2>1, <3>2
    <3>3. CASE p \in evicted
      BY <2>1, <3>3
    <3> HIDE DEF taken, row, evicted
    <3>4. p \in taken \/ p \in evicted \/ \E l \in Lists : p \in row(l)
      BY <2>4
    <3>. QED BY <3>1, <3>2, <3>3, <3>4
  <2>3. ASSUME NEW k \in Numbers
        PROVE  /\ \A i \in Positions(SeqAt(k), x) : <<k, i>> \in Places(x)
               /\ x \in gone[k] => <<k, 0>> \in Places(x)
    <3>1. CASE k = 0
      BY <1>1, <2>1, <3>1 DEF Places
    <3>2. CASE k # 0
      <4>1. k \in Lists /\ Positions(list[k], x) = Positions(SeqAt(k), x)
        BY <1>1, <2>1, <3>2
      <4>2. ASSUME NEW i \in Positions(list[k], x)
            PROVE  <<k, i>> \in row(k)
        OBVIOUS
      <4>3. x \in gone[k] => <<k, 0>> \in evicted
        BY <4>1
      <4> HIDE DEF taken, row, evicted
      <4>. QED BY <2>4, <4>1, <4>2, <4>3
    <3>. QED BY <3>1, <3>2
  <2>. QED BY <2>2, <2>3
<1>3. ASSUME NEW x, NEW k \in Numbers
      PROVE  /\ x \in Inside[k] <=> Positions(SeqAt(k), x) # {}
             /\ \A i, j \in Positions(SeqAt(k), x) : i = j
  BY <1>1 DEF ToSet, Positions, Once
<1>4. ASSUME NEW x \in Admitted
      PROVE  Cardinality(Places(x)) = 1
  <2>1. Places(x) # {}
    <3>1. PICK k \in Numbers : x \in Inside[k] \/ x \in gone[k]
      BY <1>1 DEF Parted
    <3>2. x \in Inside[k] => \E i : i \in Positions(SeqAt(k), x)
      BY <1>3
    <3>. QED BY <1>2, <3>1, <3>2
  <2>2. ASSUME NEW p \in Places(x), NEW r \in Places(x)
        PROVE  p = r
    <3>1. PICK k \in Numbers : \/ \E i \in Positions(SeqAt(k), x) : p = <<k, i>>
                               \/ x \in gone[k] /\ p = <<k, 0>>
      BY <1>2
    <3>2. PICK m \in Numbers : \/ \E i \in Positions(SeqAt(m), x) : r = <<m, i>>
                               \/ x \in gone[m] /\ r = <<m, 0>>
      BY <1>2
    <3>3. /\ (p = <<k, 0>> /\ x \in gone[k]) \/ x \in Inside[k]
          /\ (r = <<m, 0>> /\ x \in gone[m]) \/ x \in Inside[m]
      BY <1>3, <3>1, <3>2
    <3>4. k = m /\ ~(x \in Inside[k] /\ x \in gone[k])
      BY <1>1, <3>3 DEF Parted
    <3>. QED BY <1>3, <3>1, <3>2, <3>4
  <2>3. \E p : Places(x) = {p}
    BY <2>1, <2>2
  <2>. QED BY <2>3, FS_Singleton
<1>5. ASSUME NEW x, x \notin Admitted
      PROVE  Cardinality(Places(x)) = 0
  <2>1. Places(x) = {}
    BY <1>1, <1>2, <1>3, <1>5 DEF Parted
  <2>. QED BY <2>1, FS_EmptySet
<1>. QED BY <1>4, <1>5 DEF Accounted, ItemsInv

(***************************************************************************)
(* No item vanishes and none is doubled, and evictCount lies between what  *)
(* the list in use and what all lists have lost to a policy.               *)
(* (queue.go:123, :151, :166)                                              *)
(***************************************************************************)
THEOREM AccountedAlways == Spec => []Accounted
<1>1. Init => ItemsInv
  BY ItemsInit
<1>2. QueueInv /\ ItemsInv /\ [Next]_vars => ItemsInv'
  BY ItemsNext
<1>3. QueueInv /\ ItemsInv => Accounted
  BY ItemsAccounted DEF QueueInv
<1>. QED BY <1>1, <1>2, <1>3, QueueInvAlways, PTL DEF Spec
=============================================================================

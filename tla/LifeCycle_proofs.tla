--------------------------- MODULE LifeCycle_proofs ---------------------------
(***************************************************************************)
(* The memory of the messages, for any number of writers, readers, slices  *)
(* and buffers and any size classes: a pooled buffer has one owner, small  *)
(* messages stay as they were written, the entry of a large message lasts  *)
(* as long as its message, and currentSize covers all the entries.         *)
(***************************************************************************)
EXTENDS LifeCycle, FiniteSetTheorems, TLAPS

(***************************************************************************)
(* The messages that have an address but no reader yet.                    *)
(***************************************************************************)
Waiting == writing \cup queue

(***************************************************************************)
(* A small message has the address of a pooled buffer, every other that of *)
(* a caller's slice, and a chunk lies where its message does unless        *)
(* safeRead has moved it.  No id is given out twice.                       *)
(***************************************************************************)
Shape ==
  /\ \A m \in Live : /\ m.id <= written
                     /\ m.ptr \in Bufs <=> IsSmall(m.size)
  /\ \A c \in chunks : /\ c.data \in Bufs <=> IsSmall(c.msg.size)
                       /\ c.zeroCopy => c.data = c.msg.ptr

(* A message is in one place: with its writer, in a ring or in one chunk. *)
InOnePlace ==
  /\ writing \cap queue = {}
  /\ \A c \in chunks : c.msg \notin Waiting
  /\ \A c, d \in chunks : c.msg = d.msg => c = d

(* SmallOneOwner without counting. *)
OneOwner ==
  /\ \A b \in Bufs : smallPool[b] <= 1
  /\ \A b \in Bufs : smallPool[b] > 0 => b \notin InUse
  /\ \A m, k \in Waiting : m.ptr = k.ptr /\ m.ptr \in Bufs => m = k
  /\ \A c, d \in chunks : c.data = d.data /\ c.data \in Bufs => c = d
  /\ \A m \in Waiting, c \in chunks : m.ptr \in Bufs => c.data # m.ptr

(* Who shares an address with another live message is on record. *)
Recorded ==
  \A m, k \in Live : m # k /\ m.ptr = k.ptr => m.id \in shared

-----------------------------------------------------------------------------
(* What a Go map holds after an assignment, and after deletions. *)
LEMMA StoreIs ==
  ASSUME NEW K, NEW V, NEW map, DOMAIN map \subseteq K, map \in [DOMAIN map -> V],
         NEW key \in K, NEW value \in V
  PROVE  /\ DOMAIN Store(map, key, value) = DOMAIN map \cup {key}
         /\ DOMAIN Store(map, key, value) \subseteq K
         /\ Store(map, key, value) \in [DOMAIN Store(map, key, value) -> V]
         /\ Store(map, key, value)[key] = value
         /\ \A x \in DOMAIN map \ {key} : Store(map, key, value)[x] = map[x]
BY DEF Store

LEMMA DeleteIs ==
  ASSUME NEW K, NEW V, NEW map, DOMAIN map \subseteq K, map \in [DOMAIN map -> V],
         NEW keys
  PROVE  /\ DOMAIN Delete(map, keys) = DOMAIN map \ keys
         /\ DOMAIN Delete(map, keys) \subseteq K
         /\ Delete(map, keys) \in [DOMAIN Delete(map, keys) -> V]
         /\ \A x \in DOMAIN map \ keys : Delete(map, keys)[x] = map[x]
BY DEF Delete

(* The types of the maps, apart. *)
MediumOK ==
  /\ DOMAIN medium \subseteq Slices
  /\ medium \in [DOMAIN medium -> 0 .. MediumPoolTTL]
BigOK ==
  /\ DOMAIN big \subseteq Slices
  /\ big \in [DOMAIN big -> Entries]
  /\ currentSize \in Int

(* The operations of BigDataPool and MediumPool keep them. *)
LEMMA PutTypes ==
  ASSUME MediumOK, BigOK, NEW s \in Slices, NEW n \in Sizes
  PROVE  /\ MediumPoolPut(s) => MediumOK' /\ BigOK'
         /\ BigDataPoolPut(s, n) => MediumOK' /\ BigOK'
<1>1. ASSUME MediumPoolPut(s) PROVE MediumOK' /\ BigOK'
  <2>1. 0 \in 0 .. MediumPoolTTL
    BY LifeCycleAssumption
  <2>2. medium' = Store(medium, s, 0) /\ UNCHANGED <<big, currentSize>>
    BY <1>1 DEF MediumPoolPut
  <2>3. DOMAIN medium' \subseteq Slices /\ medium' \in [DOMAIN medium' -> 0 .. MediumPoolTTL]
    BY <2>1, <2>2, StoreIs DEF MediumOK
  <2>. QED BY <2>2, <2>3 DEF MediumOK, BigOK
<1>2. ASSUME BigDataPoolPut(s, n) PROVE MediumOK' /\ BigOK'
  <2>1. [size |-> n, ref |-> 1] \in Entries /\ n \in Int
    BY LifeCycleAssumption DEF Entries
  <2>2. DOMAIN big' \subseteq Slices /\ big' \in [DOMAIN big' -> Entries]
    <3> DEFINE e == [size |-> n, ref |-> 1]
    <3>1. e \in Entries /\ big' = Store(big, s, e)
      BY <1>2, <2>1 DEF BigDataPoolPut
    <3> HIDE DEF e
    <3>. QED BY <3>1, StoreIs DEF BigOK
  <2>. QED BY <1>2, <2>1, <2>2 DEF BigDataPoolPut, MediumOK, BigOK
<1>. QED BY <1>1, <1>2

LEMMA ReleaseTypes ==
  ASSUME MediumOK, BigOK, NEW a, NEW n \in Sizes
  PROVE  /\ MediumPoolRelease(a) => MediumOK' /\ BigOK'
         /\ BigDataPoolRelease(a) => MediumOK' /\ BigOK'
         /\ BigDataPoolFree(a, n) => MediumOK' /\ BigOK'
<1>1. ASSUME MediumPoolRelease(a) PROVE MediumOK' /\ BigOK'
  <2>1. medium' = Delete(medium, {a}) /\ UNCHANGED <<big, currentSize>>
    BY <1>1 DEF MediumPoolRelease
  <2>2. DOMAIN medium' \subseteq Slices /\ medium' \in [DOMAIN medium' -> 0 .. MediumPoolTTL]
    BY <2>1, DeleteIs DEF MediumOK
  <2>. QED BY <2>1, <2>2 DEF MediumOK, BigOK
<1>2. ASSUME BigDataPoolRelease(a) PROVE MediumOK' /\ BigOK'
  BY <1>2 DEF BigDataPoolRelease, MediumOK, BigOK, Entries
<1>3. ASSUME BigDataPoolFree(a, n) PROVE MediumOK' /\ BigOK'
  <2>1. n \in Int
    BY LifeCycleAssumption
  <2>2. DOMAIN big' \subseteq Slices /\ big' \in [DOMAIN big' -> Entries]
    <3>1. big' = big \/ big' = Delete(big, {a})
      BY <1>3 DEF BigDataPoolFree
    <3>2. CASE big' = Delete(big, {a})
      BY <3>2, DeleteIs DEF BigOK
    <3>. QED BY <3>1, <3>2 DEF BigOK
  <2>. QED BY <1>3, <2>1, <2>2 DEF BigDataPoolFree, MediumOK, BigOK
<1>. QED BY <1>1, <1>2, <1>3

(* SmallPool.Get and Put change the count of one buffer. *)
LEMMA PoolIs ==
  ASSUME smallPool \in [Bufs -> Nat], NEW b \in Bufs
  PROVE  /\ SmallPoolGet(b) => /\ smallPool' \in [Bufs -> Nat]
                               /\ \A x \in Bufs \ {b} : smallPool'[x] = smallPool[x]
                               /\ \/ smallPool[b] > 0 /\ smallPool'[b] = smallPool[b] - 1
                                  \/ /\ smallPool[b] = 0 /\ b \notin InUse
                                     /\ smallPool'[b] = 0
         /\ SmallPoolPut(b) => /\ smallPool' \in [Bufs -> Nat]
                               /\ \A x \in Bufs \ {b} : smallPool'[x] = smallPool[x]
                               /\ smallPool'[b] = smallPool[b] + 1
BY DEF SmallPoolGet, SmallPoolPut

(* A new message is nowhere yet. *)
LEMMA EnterIs ==
  ASSUME TypeOK, Shape, NEW ptr \in Addresses, NEW n \in Sizes, Enter(ptr, n),
         ptr \in Bufs <=> IsSmall(n)
  PROVE  \E m \in Messages :
           /\ m.id = written + 1 /\ m.ptr = ptr /\ m.size = n
           /\ m \notin Live
           /\ writing' = writing \cup {m} /\ UNCHANGED <<queue, chunks, recycler>>
           /\ written' \in 0 .. MaxWrites /\ written' = written + 1
           /\ shared \subseteq shared' /\ shared' \subseteq Ids
           /\ \A k \in Live : k.ptr = ptr => k.id \in shared' /\ m.id \in shared'
<1> DEFINE m == [id |-> written + 1, ptr |-> ptr, size |-> n]
           twins == {k \in Live : k.ptr = ptr}
<1>1. /\ written \in Nat /\ written + 1 \in Ids /\ written + 1 \in 0 .. MaxWrites
      /\ Live \subseteq Messages
  BY LifeCycleAssumption DEF TypeOK, Enter, Ids, Live, Chunks
<1>2. m \in Messages /\ m.id = written + 1 /\ m.ptr = ptr /\ m.size = n
  BY <1>1 DEF Messages
<1>3. m \notin Live
  BY <1>1, <1>2 DEF Shape
<1>4. /\ writing' = writing \cup {m} /\ UNCHANGED <<queue, chunks, recycler>>
      /\ written' = written + 1
      /\ shared' = IF twins = {} THEN shared
                   ELSE shared \cup {written + 1} \cup {k.id : k \in twins}
  BY DEF Enter
<1>5. shared \subseteq Ids /\ {k.id : k \in twins} \subseteq Ids
  BY <1>1 DEF TypeOK, Messages
<1>6. shared \subseteq shared' /\ shared' \subseteq Ids
  BY <1>1, <1>4, <1>5
<1>7. \A k \in Live : k.ptr = ptr => k.id \in shared' /\ m.id \in shared'
  BY <1>2, <1>4
<1> HIDE DEF m
<1>. QED BY <1>1, <1>2, <1>3, <1>4, <1>6, <1>7

-----------------------------------------------------------------------------
(* The types of everything but the maps. *)
RestOK ==
  /\ mem \in [Addresses -> 0 .. MaxWrites]
  /\ smallPool \in [Bufs -> Nat]
  /\ writing \subseteq Messages /\ queue \subseteq Messages
  /\ chunks \subseteq Chunks /\ written \in 0 .. MaxWrites
  /\ recycler \in {"tick", "big", "done"} /\ shared \subseteq Ids

LEMMA TypeParts == TypeOK <=> MediumOK /\ BigOK /\ RestOK
BY DEF TypeOK, MediumOK, BigOK, RestOK

LEMMA TypeInit == Init => TypeOK
<1>. SUFFICES ASSUME Init PROVE TypeOK
  OBVIOUS
<1>1. DOMAIN EmptyMap = {} /\ \A S : EmptyMap \in [DOMAIN EmptyMap -> S]
  BY DEF EmptyMap
<1>2. MediumOK /\ BigOK
  BY <1>1 DEF Init, MediumOK, BigOK
<1>3. RestOK
  BY LifeCycleAssumption DEF Init, RestOK
<1>. QED BY <1>2, <1>3, TypeParts

(* The three cases of Write. *)
LEMMA WriteTypes ==
  ASSUME TypeOK, Shape, NEW s \in Slices, NEW n \in Sizes,
         WriteSmall(s, n) \/ WriteLarge(s, n) \/ WriteMedium(s, n)
  PROVE  TypeOK'
<1>0. MediumOK /\ BigOK /\ RestOK /\ s \notin Bufs
  BY TypeParts, LifeCycleAssumption
<1>1. ASSUME NEW ptr \in Addresses, Enter(ptr, n), ptr \in Bufs <=> IsSmall(n),
             mem' \in [Addresses -> 0 .. MaxWrites], smallPool' \in [Bufs -> Nat]
      PROVE  RestOK'
  <2>1. PICK m \in Messages :
           /\ writing' = writing \cup {m} /\ UNCHANGED <<queue, chunks, recycler>>
           /\ written' \in 0 .. MaxWrites /\ shared' \subseteq Ids
    BY <1>1, EnterIs
  <2>. QED BY <1>0, <1>1, <2>1 DEF RestOK
<1>2. (\E ptr : Enter(ptr, n)) => written + 1 \in 0 .. MaxWrites
  BY <1>0, LifeCycleAssumption DEF Enter, RestOK
<1>3. CASE WriteSmall(s, n)
  <2>1. PICK b \in Bufs :
          /\ SmallPoolGet(b) /\ Enter(b, n)
          /\ mem' = [mem EXCEPT ![s] = written + 1, ![b] = written + 1]
    BY <1>3 DEF WriteSmall
  <2>2. mem' \in [Addresses -> 0 .. MaxWrites] /\ smallPool' \in [Bufs -> Nat]
    BY <1>0, <1>2, <2>1, PoolIs DEF RestOK, Addresses
  <2>3. RestOK'
    BY <1>1, <1>3, <2>1, <2>2 DEF WriteSmall, Addresses
  <2>4. MediumOK' /\ BigOK'
    BY <1>0, <1>3 DEF WriteSmall, poolVars, MediumOK, BigOK
  <2>. QED BY <2>3, <2>4
    DEF TypeOK, MediumOK, BigOK, RestOK
<1>4. CASE WriteLarge(s, n) \/ WriteMedium(s, n)
  <2>1. /\ Enter(s, n) /\ mem' = [mem EXCEPT ![s] = written + 1]
        /\ UNCHANGED smallPool /\ ~IsSmall(n)
        /\ BigDataPoolPut(s, n) \/ MediumPoolPut(s)
    BY <1>4 DEF WriteLarge, WriteMedium, IsLarge, IsMedium
  <2>2. mem' \in [Addresses -> 0 .. MaxWrites] /\ smallPool' \in [Bufs -> Nat]
    BY <1>0, <1>2, <2>1 DEF RestOK, Addresses
  <2>3. RestOK'
    BY <1>0, <1>1, <2>1, <2>2 DEF Addresses
  <2>4. MediumOK' /\ BigOK'
    BY <1>0, <2>1, PutTypes
  <2>. QED BY <2>3, <2>4
    DEF TypeOK, MediumOK, BigOK, RestOK
<1>. QED BY <1>3, <1>4

(* The two ways to read: a message becomes a chunk. *)
LEMMA ReadTypes ==
  ASSUME TypeOK, NEW m \in queue,
         \/ SafeReadSmall(m) \/ SafeReadLarge(m)
         \/ SafeReadMedium(m) \/ ZeroCopyRead(m)
  PROVE  TypeOK'
<1>0. /\ MediumOK /\ BigOK /\ RestOK
      /\ m \in Messages /\ m.ptr \in Addresses /\ m.size \in Sizes
  BY TypeParts DEF RestOK, Messages
<1>1. ASSUME NEW data \in Addresses \cup {Nil}, NEW zeroCopy \in BOOLEAN,
             Hand(m, data, zeroCopy),
             mem' \in [Addresses -> 0 .. MaxWrites], smallPool' \in [Bufs -> Nat]
      PROVE  RestOK'
  <2>1. [msg |-> m, data |-> data, zeroCopy |-> zeroCopy] \in Chunks
    BY <1>0 DEF Chunks
  <2>. QED BY <1>0, <1>1, <2>1 DEF RestOK, Hand
<1>2. CASE SafeReadSmall(m)
  <2>1. PICK b \in Bufs : /\ SmallPoolGet(b) /\ Hand(m, b, FALSE)
                          /\ mem' = [mem EXCEPT ![b] = mem[m.ptr]]
    BY <1>2 DEF SafeReadSmall
  <2>2. mem' \in [Addresses -> 0 .. MaxWrites] /\ smallPool' \in [Bufs -> Nat]
    BY <1>0, <2>1, PoolIs DEF RestOK, Addresses
  <2>3. MediumOK' /\ BigOK'
    BY <1>0, <1>2 DEF SafeReadSmall, poolVars, MediumOK, BigOK
  <2>. QED BY <1>1, <2>1, <2>2, <2>3
    DEF Addresses, TypeOK, MediumOK, BigOK, RestOK
<1>3. CASE SafeReadLarge(m) \/ SafeReadMedium(m)
  <2>1. /\ \E data \in Addresses \cup {Nil} : Hand(m, data, FALSE)
        /\ UNCHANGED <<mem, smallPool, poolVars>>
    BY <1>0, <1>3 DEF SafeReadLarge, SafeReadMedium
  <2>2. MediumOK' /\ BigOK'
    BY <1>0, <2>1 DEF poolVars, MediumOK, BigOK
  <2>. QED BY <1>0, <1>1, <2>1, <2>2
    DEF TypeOK, MediumOK, BigOK, RestOK
<1>4. CASE ZeroCopyRead(m)
  <2>1. /\ Hand(m, m.ptr, TRUE) /\ UNCHANGED <<mem, smallPool>>
        /\ BigDataPoolRelease(m.ptr) \/ UNCHANGED poolVars
    BY <1>4 DEF ZeroCopyRead
  <2>2. MediumOK' /\ BigOK'
    BY <1>0, <2>1, ReleaseTypes DEF poolVars, MediumOK, BigOK
  <2>. QED BY <1>0, <1>1, <2>1, <2>2
    DEF TypeOK, MediumOK, BigOK, RestOK
<1>. QED BY <1>2, <1>3, <1>4

(* DataChunk.Release. *)
LEMMA ReleaseType ==
  ASSUME TypeOK, Shape, NEW c \in chunks, Release(c)
  PROVE  TypeOK'
<1>0. /\ MediumOK /\ BigOK /\ RestOK
      /\ c \in Chunks /\ c.msg \in Messages /\ c.msg.size \in Sizes
  BY TypeParts DEF RestOK, Messages, Chunks
<1>1. smallPool' \in [Bufs -> Nat]
  <2>1. UNCHANGED smallPool \/ (IsSmall(c.msg.size) /\ SmallPoolPut(c.data))
    BY DEF Release
  <2>2. IsSmall(c.msg.size) => c.data \in Bufs
    BY DEF Shape
  <2>. QED BY <1>0, <2>1, <2>2, PoolIs DEF RestOK
<1>2. RestOK'
  BY <1>0, <1>1 DEF Release, RestOK
<1>3. \/ BigDataPoolFree(c.msg.ptr, c.msg.size) \/ UNCHANGED poolVars
      \/ BigDataPoolRelease(c.msg.ptr) \/ MediumPoolRelease(c.msg.ptr)
  BY DEF Release, recycle
<1>4. MediumOK' /\ BigOK'
  BY <1>0, <1>3, ReleaseTypes DEF poolVars, MediumOK, BigOK
<1>. QED BY <1>2, <1>4 DEF TypeOK, MediumOK, BigOK, RestOK

(* The background goroutine, the time, and the rest. *)
LEMMA AsideTypes ==
  ASSUME TypeOK,
         \/ \E m \in writing : WriteAccepted(m) \/ WriteRefused(m)
         \/ \E b \in Bufs : PoolDrops(b)
         \/ MediumPoolCleanup \/ BigDataPoolCleanup \/ RecyclerStops \/ Age
         \/ UNCHANGED vars
  PROVE  TypeOK'
<1>0. MediumOK /\ BigOK /\ RestOK
  BY TypeParts
<1>1. CASE (\E m \in writing : WriteAccepted(m) \/ WriteRefused(m)) \/ UNCHANGED vars
             \/ RecyclerStops \/ \E b \in Bufs : PoolDrops(b)
  <2>1. MediumOK' /\ BigOK'
    BY <1>0, <1>1
       DEF WriteAccepted, WriteRefused, vars, RecyclerStops, PoolDrops,
           poolVars, MediumOK, BigOK
  <2>2. RestOK'
    BY <1>0, <1>1
       DEF WriteAccepted, WriteRefused, vars, RecyclerStops, PoolDrops, RestOK
  <2>. QED BY <2>1, <2>2
    DEF TypeOK, MediumOK, BigOK, RestOK
<1>2. CASE MediumPoolCleanup
  <2>1. PICK d : medium' = Delete(medium, d)
    BY <1>2 DEF MediumPoolCleanup
  <2>2. DOMAIN medium' \subseteq Slices /\ medium' \in [DOMAIN medium' -> 0 .. MediumPoolTTL]
    BY <1>0, <2>1, DeleteIs DEF MediumOK
  <2>3. MediumOK' /\ BigOK' /\ RestOK'
    BY <1>0, <1>2, <2>2 DEF MediumPoolCleanup, MediumOK, BigOK, RestOK
  <2>. QED BY <2>3
    DEF TypeOK, MediumOK, BigOK, RestOK
<1>3. CASE BigDataPoolCleanup
  <2>1. PICK d : big' = Delete(big, d)
    BY <1>3 DEF BigDataPoolCleanup
  <2>2. DOMAIN big' \subseteq Slices /\ big' \in [DOMAIN big' -> Entries]
    BY <1>0, <2>1, DeleteIs DEF BigOK
  <2>3. MediumOK' /\ BigOK' /\ RestOK'
    BY <1>0, <1>3, <2>2 DEF BigDataPoolCleanup, MediumOK, BigOK, RestOK
  <2>. QED BY <2>3
    DEF TypeOK, MediumOK, BigOK, RestOK
<1>4. CASE Age
  <2>1. medium' \in [DOMAIN medium -> 0 .. MediumPoolTTL]
    BY <1>0, <1>4, LifeCycleAssumption DEF Age, MediumOK
  <2>2. MediumOK' /\ BigOK' /\ RestOK'
    BY <1>0, <1>4, <2>1 DEF Age, MediumOK, BigOK, RestOK
  <2>. QED BY <2>2
    DEF TypeOK, MediumOK, BigOK, RestOK
<1>. QED BY <1>1, <1>2, <1>3, <1>4

LEMMA TypeNext ==
  ASSUME TypeOK, Shape, [Next]_vars
  PROVE  TypeOK'
BY WriteTypes, ReadTypes, ReleaseType, AsideTypes DEF Next

-----------------------------------------------------------------------------
(* Where the messages and the buffers are. *)
PlacesInv == Shape /\ InOnePlace /\ OneOwner /\ SmallIntact /\ Recorded

(* What SmallPool.Get hands out is in nobody's hands. *)
LEMMA GetIsFree ==
  ASSUME TypeOK, OneOwner, NEW b \in Bufs, SmallPoolGet(b)
  PROVE  /\ b \notin InUse /\ smallPool'[b] = 0
         /\ \A x \in Bufs \ {b} : smallPool'[x] = smallPool[x]
<1>1. smallPool \in [Bufs -> Nat] /\ smallPool[b] \in Nat
  BY DEF TypeOK
<1>. QED BY <1>1, PoolIs DEF OneOwner

(* A writer comes in: its message is the only one at a small address, and
   every other one at its address goes on record. *)
LEMMA EnterKeeps ==
  ASSUME TypeOK, PlacesInv, NEW ptr \in Addresses, NEW n \in Sizes,
         Enter(ptr, n), ptr \in Bufs <=> IsSmall(n),
         mem'[ptr] = written + 1,
         \A a \in Bufs \ {ptr} : mem'[a] = mem[a] /\ smallPool'[a] = smallPool[a],
         ptr \in Bufs => ptr \notin InUse /\ smallPool'[ptr] = 0
  PROVE  PlacesInv'
<1>0. Shape
  BY DEF PlacesInv
<1>1. PICK m \in Messages :
        /\ m.id = written + 1 /\ m.ptr = ptr /\ m.size = n
        /\ m \notin Live
        /\ writing' = writing \cup {m} /\ UNCHANGED <<queue, chunks, recycler>>
        /\ written' \in 0 .. MaxWrites /\ written' = written + 1
        /\ shared \subseteq shared' /\ shared' \subseteq Ids
        /\ \A k \in Live : k.ptr = ptr => k.id \in shared' /\ m.id \in shared'
  BY <1>0, EnterIs
<1>. USE DEF PlacesInv
<1>2. Live' = Live \cup {m} /\ Waiting' = Waiting \cup {m} /\ InUse' = InUse \cup {ptr}
  BY <1>1 DEF Live, Waiting, InUse
<1>3. /\ written \in Nat /\ \A k \in Live : k.id \in Nat
      /\ \A k \in Waiting : k \in Live /\ k.ptr \in InUse
      /\ \A c \in chunks : c.msg \in Live /\ c.data \in InUse
  <2>1. Live \subseteq Messages
    BY DEF TypeOK, Live, Chunks
  <2>. QED BY <2>1, LifeCycleAssumption DEF TypeOK, Messages, Ids, Live, Waiting, InUse
<1>4. Shape'
  BY <1>1, <1>2, <1>3 DEF Shape
<1>5. InOnePlace'
  <2>1. writing' \cap queue' = {}
    BY <1>1, <1>3 DEF InOnePlace, Waiting
  <2>2. \A c \in chunks' : c.msg \notin Waiting'
    BY <1>1, <1>2, <1>3 DEF InOnePlace
  <2>. QED BY <1>1, <2>1, <2>2 DEF InOnePlace
<1>6. OneOwner'
  BY <1>1, <1>2, <1>3 DEF OneOwner
<1>7. SmallIntact'
  <2>1. \A k \in Waiting : IsSmall(k.size) => mem'[k.ptr] = mem[k.ptr]
    BY <1>3 DEF Shape
  <2>2. \A c \in chunks : IsSmall(c.msg.size) => mem'[c.data] = mem[c.data]
    BY <1>3 DEF Shape
  <2>3. \A k \in Waiting' : IsSmall(k.size) => mem'[k.ptr] = k.id
    BY <1>1, <1>2, <2>1 DEF SmallIntact, Waiting
  <2>4. \A c \in chunks' : IsSmall(c.msg.size) => mem'[c.data] = c.msg.id
    BY <1>1, <2>2 DEF SmallIntact
  <2>. QED BY <2>3, <2>4 DEF SmallIntact, Waiting
<1>8. Recorded'
  BY <1>1, <1>2 DEF Recorded
<1>. QED BY <1>4, <1>5, <1>6, <1>7, <1>8

LEMMA WriteKeeps ==
  ASSUME TypeOK, PlacesInv, NEW s \in Slices, NEW n \in Sizes,
         WriteSmall(s, n) \/ WriteLarge(s, n) \/ WriteMedium(s, n)
  PROVE  PlacesInv'
<1>0. s \notin Bufs /\ s \in Addresses /\ mem \in [Addresses -> 0 .. MaxWrites]
  BY LifeCycleAssumption DEF Addresses, TypeOK
<1>1. CASE WriteSmall(s, n)
  <2>1. PICK b \in Bufs :
          /\ SmallPoolGet(b) /\ Enter(b, n) /\ IsSmall(n)
          /\ mem' = [mem EXCEPT ![s] = written + 1, ![b] = written + 1]
    BY <1>1 DEF WriteSmall
  <2>2. b \in Addresses /\ mem'[b] = written + 1 /\ \A a \in Bufs \ {b} : mem'[a] = mem[a]
    BY <1>0, <2>1 DEF Addresses
  <2>3. /\ b \notin InUse /\ smallPool'[b] = 0
        /\ \A x \in Bufs \ {b} : smallPool'[x] = smallPool[x]
    BY <2>1, GetIsFree DEF PlacesInv
  <2>. QED BY <2>1, <2>2, <2>3, EnterKeeps
<1>2. CASE WriteLarge(s, n) \/ WriteMedium(s, n)
  <2>1. /\ Enter(s, n) /\ ~IsSmall(n) /\ UNCHANGED smallPool
        /\ mem' = [mem EXCEPT ![s] = written + 1]
    BY <1>2 DEF WriteLarge, WriteMedium, IsLarge, IsMedium
  <2>2. mem'[s] = written + 1 /\ \A a \in Bufs \ {s} : mem'[a] = mem[a]
    BY <1>0, <2>1 DEF Addresses
  <2>. QED BY <1>0, <2>1, <2>2, EnterKeeps
<1>. QED BY <1>1, <1>2

(* A message becomes a chunk, where it was or in a buffer of its own. *)
LEMMA HandKeeps ==
  ASSUME TypeOK, PlacesInv, NEW m \in queue, NEW data, NEW zeroCopy,
         Hand(m, data, zeroCopy),
         data \in Bufs <=> IsSmall(m.size), zeroCopy => data = m.ptr,
         \/ /\ data \in Bufs => data = m.ptr
            /\ UNCHANGED <<mem, smallPool>>
         \/ /\ data \in Bufs /\ data \notin InUse /\ smallPool'[data] = 0
            /\ mem'[data] = mem[m.ptr]
            /\ \A a \in Bufs \ {data} : mem'[a] = mem[a] /\ smallPool'[a] = smallPool[a]
  PROVE  PlacesInv'
<1>. USE DEF PlacesInv
<1> DEFINE c == [msg |-> m, data |-> data, zeroCopy |-> zeroCopy]
<1>1. /\ c.msg = m /\ c.data = data /\ c.zeroCopy = zeroCopy
      /\ chunks' = chunks \cup {c} /\ queue' = queue \ {m}
      /\ UNCHANGED <<writing, written, shared>>
  BY DEF Hand
<1> HIDE DEF c
<1>2. /\ Waiting' = Waiting \ {m} /\ Live' = Live /\ m \in Waiting /\ m \in Live
      /\ InUse' \subseteq InUse \cup {data} /\ m.ptr \in InUse
  <2>1. writing' = writing /\ m \notin writing
    BY <1>1 DEF InOnePlace
  <2>. QED BY <1>1, <2>1 DEF Waiting, Live, InUse
<1>3. /\ \A k \in Waiting : k \in Live /\ k.ptr \in InUse
      /\ \A d \in chunks : d.msg \in Live /\ d.data \in InUse
  BY DEF Live, Waiting, InUse
<1>4. Shape'
  BY <1>1, <1>2 DEF Shape
<1>5. InOnePlace'
  <2>1. /\ \A d \in chunks : d.msg \notin Waiting /\ d.msg # m
        /\ writing' \cap queue' = {}
    BY <1>1, <1>2 DEF InOnePlace
  <2>2. \A d \in chunks' : d.msg \notin Waiting'
    BY <1>1, <1>2, <2>1
  <2>3. \A d, e \in chunks' : d.msg = e.msg => d = e
    BY <1>1, <2>1 DEF InOnePlace
  <2>. QED BY <2>1, <2>2, <2>3 DEF InOnePlace
<1>6. \A k \in Waiting' : k \in Waiting /\ k # m /\ (k.ptr \in Bufs => k.ptr # data)
  BY <1>2, <1>3 DEF OneOwner
<1>7. \A d \in chunks : data \in Bufs => d.data # data
  BY <1>2, <1>3 DEF OneOwner
<1>8. OneOwner'
  <2>1. \A b \in Bufs : smallPool'[b] = 0 \/ (b # data /\ smallPool'[b] = smallPool[b])
                                          \/ (b = data /\ smallPool'[b] = smallPool[b] /\ b \in InUse)
    BY <1>2
  <2>2. \A b \in Bufs : smallPool'[b] <= 1 /\ (smallPool'[b] > 0 => b \notin InUse')
    BY <1>2, <2>1 DEF OneOwner
  <2>3. /\ \A k, l \in Waiting' : k.ptr = l.ptr /\ k.ptr \in Bufs => k = l
        /\ \A d, e \in chunks' : d.data = e.data /\ d.data \in Bufs => d = e
    BY <1>1, <1>6, <1>7 DEF OneOwner
  <2>4. \A k \in Waiting', d \in chunks' : k.ptr \in Bufs => d.data # k.ptr
    BY <1>1, <1>6 DEF OneOwner
  <2>. QED BY <2>2, <2>3, <2>4 DEF OneOwner
<1>9. SmallIntact'
  <2>1. \A k \in Waiting' : IsSmall(k.size) => mem'[k.ptr] = k.id
    BY <1>3, <1>6 DEF SmallIntact, Shape, Waiting
  <2>2. \A d \in chunks : IsSmall(d.msg.size) => mem'[d.data] = d.msg.id
    BY <1>3, <1>7 DEF SmallIntact, Shape
  <2>3. IsSmall(m.size) => mem'[data] = m.id
    <3>1. IsSmall(m.size) => mem[m.ptr] = m.id
      BY DEF SmallIntact
    <3>. QED BY <3>1
  <2>. QED BY <1>1, <2>1, <2>2, <2>3 DEF SmallIntact, Waiting
<1>10. Recorded'
  BY <1>1, <1>2 DEF Recorded
<1>. QED BY <1>4, <1>5, <1>8, <1>9, <1>10

LEMMA ReadKeeps ==
  ASSUME TypeOK, PlacesInv, NEW m \in queue,
         \/ SafeReadSmall(m) \/ SafeReadLarge(m)
         \/ SafeReadMedium(m) \/ ZeroCopyRead(m)
  PROVE  PlacesInv'
<1>0. /\ m \in Messages /\ m.ptr \in Addresses /\ (m.ptr \in Bufs <=> IsSmall(m.size))
      /\ mem \in [Addresses -> 0 .. MaxWrites] /\ Nil \notin Bufs
  BY LifeCycleAssumption DEF TypeOK, Messages, PlacesInv, Shape, Live
<1>1. CASE SafeReadSmall(m)
  <2>1. PICK b \in Bufs : /\ SmallPoolGet(b) /\ Hand(m, b, FALSE) /\ IsSmall(m.size)
                          /\ mem' = [mem EXCEPT ![b] = mem[m.ptr]]
    BY <1>1 DEF SafeReadSmall
  <2>2. /\ b \notin InUse /\ smallPool'[b] = 0
        /\ \A x \in Bufs \ {b} : smallPool'[x] = smallPool[x]
    BY <2>1, GetIsFree DEF PlacesInv
  <2>3. mem'[b] = mem[m.ptr] /\ \A a \in Bufs \ {b} : mem'[a] = mem[a]
    BY <1>0, <2>1 DEF Addresses
  <2>. QED BY <2>1, <2>2, <2>3, HandKeeps
<1>2. CASE SafeReadLarge(m) \/ SafeReadMedium(m)
  <2>1. PICK data \in {m.ptr, Nil} :
          ~IsSmall(m.size) /\ Hand(m, data, FALSE) /\ UNCHANGED <<mem, smallPool>>
    BY <1>2 DEF SafeReadLarge, SafeReadMedium, IsLarge, IsMedium
  <2>. QED BY <1>0, <2>1, HandKeeps
<1>3. CASE ZeroCopyRead(m)
  <2>1. Hand(m, m.ptr, TRUE) /\ UNCHANGED <<mem, smallPool>>
    BY <1>3 DEF ZeroCopyRead
  <2>. QED BY <1>0, <2>1, HandKeeps
<1>. QED BY <1>1, <1>2, <1>3

(* Release gives the buffer of a copied small message back, which nobody
   else has; the buffer of a zero-copy one it leaves to the collector. *)
LEMMA ReleaseKeeps ==
  ASSUME TypeOK, PlacesInv, NEW c \in chunks, Release(c)
  PROVE  PlacesInv'
<1>. USE DEF PlacesInv
<1>1. /\ chunks' = chunks \ {c}
      /\ UNCHANGED <<mem, writing, queue, written, shared>>
      /\ \/ UNCHANGED smallPool
         \/ IsSmall(c.msg.size) /\ SmallPoolPut(c.data)
  BY DEF Release
<1>2. /\ Waiting' = Waiting /\ Live' \subseteq Live /\ InUse' \subseteq InUse
      /\ \A d \in chunks' : d.data \in InUse'
      /\ c.data \in InUse
  BY <1>1 DEF Waiting, Live, InUse
<1>3. c.data \in Bufs => c.data \notin InUse'
  <2>1. \A d \in chunks' : c.data \in Bufs => d.data # c.data
    BY <1>1 DEF OneOwner
  <2>2. \A m \in Waiting : c.data \in Bufs => m.ptr # c.data
    BY DEF OneOwner
  <2>. QED BY <1>1, <2>1, <2>2 DEF InUse, Waiting
<1>4. Shape' /\ InOnePlace' /\ SmallIntact' /\ Recorded'
  BY <1>1, <1>2 DEF Shape, InOnePlace, SmallIntact, Recorded, Waiting
<1>5. \A b \in Bufs : smallPool'[b] <= 1 /\ (smallPool'[b] > 0 => b \notin InUse')
  <2>1. CASE UNCHANGED smallPool
    BY <1>2, <2>1 DEF OneOwner
  <2>2. CASE IsSmall(c.msg.size) /\ SmallPoolPut(c.data)
    <3>1. c.data \in Bufs /\ smallPool \in [Bufs -> Nat]
      BY <2>2 DEF Shape, TypeOK
    <3>2. /\ smallPool'[c.data] = smallPool[c.data] + 1
          /\ \A b \in Bufs \ {c.data} : smallPool'[b] = smallPool[b]
      BY <2>2, <3>1, PoolIs
    <3>3. smallPool[c.data] = 0
      BY <1>2, <3>1 DEF OneOwner
    <3>. QED BY <1>2, <1>3, <3>2, <3>3 DEF OneOwner
  <2>. QED BY <1>1, <2>1, <2>2
<1>6. OneOwner'
  BY <1>1, <1>2, <1>5 DEF OneOwner
<1>. QED BY <1>4, <1>6

(* The other steps of the writers, the collector and the background. *)
LEMMA AsideKeeps ==
  ASSUME TypeOK, PlacesInv,
         \/ \E m \in writing : WriteAccepted(m) \/ WriteRefused(m)
         \/ \E b \in Bufs : PoolDrops(b)
         \/ MediumPoolCleanup \/ BigDataPoolCleanup \/ RecyclerStops \/ Age
         \/ UNCHANGED vars
  PROVE  PlacesInv'
<1>. USE DEF PlacesInv
<1>1. /\ UNCHANGED <<mem, chunks, written, shared>>
      /\ Waiting' \subseteq Waiting /\ writing' \cap queue' = {}
      /\ \A b \in Bufs : smallPool'[b] <= smallPool[b] \/ smallPool'[b] = smallPool[b]
  <2>1. CASE \E m \in writing : WriteAccepted(m) \/ WriteRefused(m)
    BY <2>1 DEF WriteAccepted, WriteRefused, Waiting, InOnePlace
  <2>2. CASE \E b \in Bufs : PoolDrops(b)
    BY <2>2 DEF PoolDrops, Waiting, InOnePlace, TypeOK
  <2>3. CASE MediumPoolCleanup \/ BigDataPoolCleanup \/ RecyclerStops \/ Age
             \/ UNCHANGED vars
    BY <2>3 DEF MediumPoolCleanup, BigDataPoolCleanup, RecyclerStops, Age, vars,
                Waiting, InOnePlace
  <2>. QED BY <2>1, <2>2, <2>3
<1>2. Live' \subseteq Live /\ InUse' \subseteq InUse
  BY <1>1 DEF Live, InUse, Waiting
<1>3. Shape' /\ InOnePlace' /\ SmallIntact' /\ Recorded'
  BY <1>1, <1>2 DEF Shape, InOnePlace, SmallIntact, Recorded, Waiting
<1>4. \A b \in Bufs : smallPool[b] \in Nat /\ smallPool'[b] \in Nat
  BY AsideTypes DEF TypeOK
<1>5. \A b \in Bufs : smallPool'[b] <= 1 /\ (smallPool'[b] > 0 => b \notin InUse')
  BY <1>1, <1>2, <1>4 DEF OneOwner
<1>6. OneOwner'
  BY <1>1, <1>5 DEF OneOwner
<1>. QED BY <1>3, <1>6

LEMMA PlacesInit == Init => PlacesInv
BY DEF Init, PlacesInv, Shape, InOnePlace, OneOwner, SmallIntact, Recorded,
       Live, InUse, Waiting

LEMMA PlacesNext ==
  ASSUME TypeOK, PlacesInv, [Next]_vars
  PROVE  PlacesInv'
BY WriteKeeps, ReadKeeps, ReleaseKeeps, AsideKeeps DEF Next

LEMMA PlacesAlways == Spec => [](TypeOK /\ PlacesInv)
<1>1. Init => TypeOK /\ PlacesInv
  BY TypeInit, PlacesInit
<1>2. TypeOK /\ PlacesInv /\ [Next]_vars => TypeOK' /\ PlacesInv'
  BY TypeNext, PlacesNext DEF PlacesInv
<1>. QED BY <1>1, <1>2, PTL DEF Spec

(***************************************************************************)
(* Every map and every message has its type; in particular the maps never  *)
(* have an entry for a pooled buffer.                                      *)
(***************************************************************************)
THEOREM TypeOKAlways == Spec => []TypeOK
BY PlacesAlways, PTL

(***************************************************************************)
(* A small message is intact from Write to Release.                        *)
(***************************************************************************)
THEOREM SmallIntactAlways == Spec => []SmallIntact
<1>1. TypeOK /\ PlacesInv => SmallIntact
  BY DEF PlacesInv
<1>. QED BY <1>1, PlacesAlways, PTL

(* A set without two elements counts one at most. *)
LEMMA AtMostOne ==
  ASSUME NEW S, \A x, y \in S : x = y
  PROVE  /\ Cardinality(S) \in {0, 1}
         /\ Cardinality(S) = 1 => S # {}
<1>1. CASE S = {}
  BY <1>1, FS_EmptySet
<1>2. CASE S # {}
  <2>1. PICK x \in S : TRUE
    BY <1>2
  <2>2. S = {x}
    BY <2>1
  <2>. QED BY <1>2, <2>2, FS_Singleton
<1>. QED BY <1>1, <1>2

(***************************************************************************)
(* A pooled buffer has one owner: the pool, one message on its way, or one *)
(* chunk.                                                                  *)
(***************************************************************************)
THEOREM SmallOneOwnerAlways == Spec => []SmallOneOwner
<1>1. TypeOK /\ PlacesInv => SmallOneOwner
  <2>. SUFFICES ASSUME TypeOK, PlacesInv, NEW b \in Bufs
                PROVE  smallPool[b] + Cardinality({m \in writing \cup queue : m.ptr = b})
                         + Cardinality({c \in chunks : c.data = b}) <= 1
    BY DEF SmallOneOwner
  <2> DEFINE M == {m \in writing \cup queue : m.ptr = b}
             C == {c \in chunks : c.data = b}
  <2>1. OneOwner /\ smallPool[b] \in Nat
    BY DEF PlacesInv, TypeOK
  <2>2. /\ \A x, y \in M : x = y
        /\ \A x, y \in C : x = y
        /\ M # {} => C = {}
        /\ M # {} \/ C # {} => b \in InUse
    BY <2>1 DEF OneOwner, Waiting, InUse
  <2>3. smallPool[b] \in {0, 1} /\ (M # {} \/ C # {} => smallPool[b] = 0)
    BY <2>1, <2>2 DEF OneOwner
  <2> HIDE DEF M, C
  <2>4. /\ Cardinality(M) \in {0, 1} /\ (Cardinality(M) = 1 => M # {})
        /\ Cardinality(C) \in {0, 1} /\ (Cardinality(C) = 1 => C # {})
    BY <2>2, AtMostOne
  <2>5. smallPool[b] + Cardinality(M) + Cardinality(C) <= 1
    BY <2>2, <2>3, <2>4
  <2>. QED BY <2>5 DEF M, C
<1>. QED BY <1>1, PlacesAlways, PTL

-----------------------------------------------------------------------------
(* The entries of the large messages.  EntryKept speaks of these messages: *)
Tracked == Waiting \cup {c.msg : c \in {k \in chunks : ~k.zeroCopy}}

EntryOf(m) ==
  m.ptr \in DOMAIN big /\ big[m.ptr] = [size |-> m.size, ref |-> 1]

(* Once it is on record that a message shares its address it stays there,
   and a step that spares the entries of the others keeps EntryKept. *)
LEMMA EntryFrame ==
  ASSUME EntryKept, shared \subseteq shared',
         \A m \in Tracked' :
           IsLarge(m.size) /\ m.id \notin shared' =>
             \/ m.ptr \in DOMAIN big' /\ big'[m.ptr] = [size |-> m.size, ref |-> 1]
             \/ /\ m \in Tracked
                /\ m.ptr \in DOMAIN big =>
                     \/ m.ptr \in DOMAIN big' /\ big'[m.ptr] = big[m.ptr]
                     \/ big[m.ptr].ref = 0
  PROVE  EntryKept'
<1>1. ASSUME NEW m \in Tracked, IsLarge(m.size), m.id \notin shared
      PROVE  m.ptr \in DOMAIN big /\ big[m.ptr] = [size |-> m.size, ref |-> 1]
  BY <1>1 DEF EntryKept, Tracked, Waiting
<1>2. ASSUME NEW m \in Tracked', IsLarge(m.size), m.id \notin shared'
      PROVE  m.ptr \in DOMAIN big' /\ big'[m.ptr] = [size |-> m.size, ref |-> 1]
  BY <1>1, <1>2
<1>. QED BY <1>2 DEF EntryKept, Tracked, Waiting

LEMMA WriteSpares ==
  ASSUME TypeOK, PlacesInv, EntryKept, NEW s \in Slices, NEW n \in Sizes,
         WriteSmall(s, n) \/ WriteLarge(s, n) \/ WriteMedium(s, n)
  PROVE  EntryKept'
<1>0. /\ Shape /\ s \notin Bufs
      /\ DOMAIN big \subseteq Slices /\ big \in [DOMAIN big -> Entries]
  BY LifeCycleAssumption DEF PlacesInv, TypeOK
<1>1. ASSUME NEW ptr \in Addresses, Enter(ptr, n), ptr \in Bufs <=> IsSmall(n)
      PROVE  \E m : /\ m.ptr = ptr /\ m.size = n
                    /\ Tracked' = Tracked \cup {m} /\ shared \subseteq shared'
                    /\ \A k \in Tracked : k.ptr = ptr => k.id \in shared'
  <2>1. PICK m \in Messages :
          /\ m.id = written + 1 /\ m.ptr = ptr /\ m.size = n
          /\ m \notin Live
          /\ writing' = writing \cup {m} /\ UNCHANGED <<queue, chunks, recycler>>
          /\ written' \in 0 .. MaxWrites /\ written' = written + 1
          /\ shared \subseteq shared' /\ shared' \subseteq Ids
          /\ \A k \in Live : k.ptr = ptr => k.id \in shared' /\ m.id \in shared'
    BY <1>0, <1>1, EnterIs
  <2>2. Tracked' = Tracked \cup {m} /\ Tracked \subseteq Live
    BY <2>1 DEF Tracked, Waiting, Live
  <2>. QED BY <2>1, <2>2
<1>2. CASE WriteSmall(s, n) \/ WriteMedium(s, n)
  <2>1. /\ \E ptr \in Addresses : Enter(ptr, n) /\ (ptr \in Bufs <=> IsSmall(n))
        /\ ~IsLarge(n) /\ UNCHANGED big
    BY <1>0, <1>2 DEF WriteSmall, WriteMedium, IsMedium, IsLarge, Addresses,
                      poolVars, MediumPoolPut
  <2>2. PICK m : m.size = n /\ Tracked' = Tracked \cup {m} /\ shared \subseteq shared'
    BY <1>1, <2>1
  <2>. QED BY <2>1, <2>2, EntryFrame
<1>3. CASE WriteLarge(s, n)
  <2> DEFINE e == [size |-> n, ref |-> 1]
  <2>1. Enter(s, n) /\ ~IsSmall(n) /\ big' = Store(big, s, e)
    BY <1>3 DEF WriteLarge, IsLarge, BigDataPoolPut
  <2>2. e \in Entries
    BY DEF Entries
  <2>3. PICK m : /\ m.ptr = s /\ m.size = n
                 /\ Tracked' = Tracked \cup {m} /\ shared \subseteq shared'
                 /\ \A k \in Tracked : k.ptr = s => k.id \in shared'
    BY <1>0, <1>1, <2>1 DEF Addresses
  <2>4. s \in DOMAIN big' /\ big'[s] = e
        /\ \A x \in DOMAIN big \ {s} : x \in DOMAIN big' /\ big'[x] = big[x]
    <3> HIDE DEF e
    <3>1. DOMAIN big' = DOMAIN big \cup {s}
      BY <2>1 DEF Store
    <3>2. \A x \in DOMAIN big' : big'[x] = IF x = s THEN e ELSE big[x]
      BY <2>1, <3>1 DEF Store
    <3>. QED BY <3>1, <3>2
  <2>5. ASSUME NEW k \in Tracked', k.id \notin shared'
        PROVE  \/ k.ptr \in DOMAIN big' /\ big'[k.ptr] = [size |-> k.size, ref |-> 1]
               \/ /\ k \in Tracked
                  /\ k.ptr \in DOMAIN big => k.ptr \in DOMAIN big' /\ big'[k.ptr] = big[k.ptr]
    <3>1. CASE k = m
      BY <2>3, <2>4, <3>1
    <3>2. CASE k \in Tracked /\ k.ptr # s
      BY <2>4, <2>5, <3>2
    <3>. QED BY <2>3, <2>5, <3>1, <3>2
  <2>. QED BY <2>3, <2>5, EntryFrame
<1>. QED BY <1>2, <1>3

(* Reading with zero copy gives up the reference of its own message. *)
LEMMA ReadSpares ==
  ASSUME TypeOK, PlacesInv, EntryKept, NEW m \in queue,
         \/ SafeReadSmall(m) \/ SafeReadLarge(m)
         \/ SafeReadMedium(m) \/ ZeroCopyRead(m)
  PROVE  EntryKept'
<1>1. CASE SafeReadSmall(m) \/ SafeReadLarge(m) \/ SafeReadMedium(m)
  <2>1. (\E data : Hand(m, data, FALSE)) /\ UNCHANGED big
    BY <1>1 DEF SafeReadSmall, SafeReadLarge, SafeReadMedium, poolVars
  <2>2. Tracked' \subseteq Tracked /\ UNCHANGED shared
    BY <2>1 DEF Hand, Tracked, Waiting
  <2>. QED BY <2>1, <2>2, EntryFrame
<1>2. CASE ZeroCopyRead(m)
  <2>1. Hand(m, m.ptr, TRUE)
    BY <1>2 DEF ZeroCopyRead
  <2>2. Tracked' \subseteq Tracked \ {m} /\ UNCHANGED shared
    <3>1. m \notin writing /\ \A c \in chunks : c.msg # m
      BY DEF PlacesInv, InOnePlace, Waiting
    <3>. QED BY <2>1, <3>1 DEF Hand, Tracked, Waiting
  <2>3. \A k \in Tracked' : k.id \notin shared => k.ptr # m.ptr
    <3>1. m \in Live /\ Tracked \subseteq Live
      BY DEF Live, Tracked, Waiting
    <3>. QED BY <2>2, <3>1 DEF PlacesInv, Recorded
  <2>4. \A x \in DOMAIN big \ {m.ptr} : x \in DOMAIN big' /\ big'[x] = big[x]
    BY <1>2 DEF ZeroCopyRead, BigDataPoolRelease, poolVars, TypeOK
  <2>. QED BY <2>2, <2>3, <2>4, EntryFrame
<1>. QED BY <1>1, <1>2

(* Release gives up the entry or the reference of its own message. *)
LEMMA ReleaseSpares ==
  ASSUME TypeOK, PlacesInv, EntryKept, NEW c \in chunks, Release(c)
  PROVE  EntryKept'
<1>1. /\ chunks' = chunks \ {c} /\ UNCHANGED <<writing, queue, shared>>
  BY DEF Release
<1>2. Tracked' \subseteq Tracked \ {c.msg}
  BY <1>1 DEF PlacesInv, InOnePlace, Tracked, Waiting
<1>3. \A k \in Tracked' : k.id \notin shared => k.ptr # c.msg.ptr
  <2>1. c.msg \in Live /\ Tracked \subseteq Live
    BY DEF Live, Tracked, Waiting
  <2>. QED BY <1>2, <2>1 DEF PlacesInv, Recorded
<1>4. \A x \in DOMAIN big \ {c.msg.ptr} : x \in DOMAIN big' /\ big'[x] = big[x]
  <2>1. \/ UNCHANGED big \/ BigDataPoolRelease(c.msg.ptr)
        \/ big' = Delete(big, {c.msg.ptr})
    BY DEF Release, recycle, BigDataPoolFree, MediumPoolRelease, poolVars
  <2>2. CASE BigDataPoolRelease(c.msg.ptr)
    BY <2>2 DEF BigDataPoolRelease, TypeOK
  <2>3. CASE big' = Delete(big, {c.msg.ptr})
    BY <2>3 DEF Delete
  <2>. QED BY <2>1, <2>2, <2>3
<1>. QED BY <1>1, <1>2, <1>3, <1>4, EntryFrame

(* The cleanup deletes entries without a reference only. *)
LEMMA AsideSpares ==
  ASSUME TypeOK, EntryKept,
         \/ \E m \in writing : WriteAccepted(m) \/ WriteRefused(m)
         \/ \E b \in Bufs : PoolDrops(b)
         \/ MediumPoolCleanup \/ BigDataPoolCleanup \/ RecyclerStops \/ Age
         \/ UNCHANGED vars
  PROVE  EntryKept'
<1>1. CASE BigDataPoolCleanup
  <2>1. PICK d \in Cleaned({s \in DOMAIN big : big[s].ref = 0}) : big' = Delete(big, d)
    BY <1>1 DEF BigDataPoolCleanup
  <2>2. d \subseteq {s \in DOMAIN big : big[s].ref = 0}
    BY DEF Cleaned
  <2>3. \A x \in DOMAIN big : \/ x \in DOMAIN big' /\ big'[x] = big[x]
                              \/ big[x].ref = 0
    BY <2>1, <2>2 DEF Delete
  <2>4. Tracked' = Tracked /\ UNCHANGED shared
    BY <1>1 DEF BigDataPoolCleanup, Tracked, Waiting
  <2>. QED BY <2>3, <2>4, EntryFrame
<1>2. CASE \/ \E m \in writing : WriteAccepted(m) \/ WriteRefused(m)
           \/ \E b \in Bufs : PoolDrops(b)
           \/ MediumPoolCleanup \/ RecyclerStops \/ Age
           \/ UNCHANGED vars
  <2>1. Tracked' \subseteq Tracked /\ UNCHANGED <<big, shared>>
    BY <1>2 DEF WriteAccepted, WriteRefused, PoolDrops, MediumPoolCleanup,
                RecyclerStops, Age, vars, poolVars, Tracked, Waiting
  <2>. QED BY <2>1, EntryFrame
<1>. QED BY <1>1, <1>2

LEMMA EntryNext ==
  ASSUME TypeOK, PlacesInv, EntryKept, [Next]_vars
  PROVE  EntryKept'
BY WriteSpares, ReadSpares, ReleaseSpares, AsideSpares DEF Next

(***************************************************************************)
(* The entry of a large message that is alone at its address lasts, with   *)
(* its size and one reference, until the message is read with zero copy or *)
(* its chunk is Released.                                                  *)
(***************************************************************************)
THEOREM EntryKeptAlways == Spec => []EntryKept
<1>1. Init => EntryKept
  BY DEF Init, EntryKept
<1>2. TypeOK /\ PlacesInv /\ EntryKept /\ [Next]_vars => EntryKept'
  BY EntryNext
<1>. QED BY <1>1, <1>2, PlacesAlways, PTL DEF Spec

-----------------------------------------------------------------------------
(***************************************************************************)
(* SizeCovers.  A sum is the number of elements of Bytes, so that what it  *)
(* is with one more summand follows from what a union of disjoint sets     *)
(* counts.                                                                 *)
(***************************************************************************)
LEMMA RowIs ==
  ASSUME NEW x, NEW n \in Nat
  PROVE  IsFiniteSet({x} \X (1 .. n)) /\ Cardinality({x} \X (1 .. n)) = n
<1>1. IsFiniteSet({x}) /\ Cardinality({x}) = 1
  BY FS_Singleton
<1>2. IsFiniteSet(1 .. n) /\ Cardinality(1 .. n) = n
  BY FS_Interval
<1>3. Cardinality({x} \X (1 .. n)) = Cardinality({x}) * Cardinality(1 .. n)
  BY <1>1, <1>2, FS_Product
<1>4. Cardinality({x} \X (1 .. n)) = 1 * n
  BY <1>1, <1>2, <1>3
<1>. QED BY <1>1, <1>2, <1>4, FS_Product

LEMMA BytesFinite ==
  ASSUME NEW S, IsFiniteSet(S), NEW len, \A x \in S : len[x] \in Nat
  PROVE  /\ IsFiniteSet(Bytes(S, len))
         /\ Cardinality(Bytes(S, len)) \in Nat
<1> DEFINE row == [x \in S |-> {x} \X (1 .. len[x])]
           R   == {row[x] : x \in S}
<1>1. row \in Surjection(S, R)
  BY DEF Surjection
<1>2. IsFiniteSet(R)
  BY <1>1, FS_Surjection
<1>3. \A r \in R : IsFiniteSet(r)
  <2>. SUFFICES ASSUME NEW x \in S PROVE IsFiniteSet({x} \X (1 .. len[x]))
    OBVIOUS
  <2> DEFINE n == len[x]
  <2>1. n \in Nat
    OBVIOUS
  <2> HIDE DEF n
  <2>2. IsFiniteSet({x} \X (1 .. n))
    BY <2>1, RowIs
  <2>. QED BY <2>2 DEF n
<1>4. Bytes(S, len) = UNION R
  BY DEF Bytes
<1>5. IsFiniteSet(Bytes(S, len))
  BY <1>2, <1>3, <1>4, FS_UNION
<1>. QED BY <1>5, FS_CardinalityType

(* One summand less, *)
LEMMA BytesAt ==
  ASSUME NEW S, IsFiniteSet(S), NEW len, \A y \in S : len[y] \in Nat, NEW x \in S
  PROVE  Cardinality(Bytes(S, len)) = Cardinality(Bytes(S \ {x}, len)) + len[x]
<1> DEFINE A == Bytes(S \ {x}, len)
           B == {x} \X (1 .. len[x])
<1>1. Bytes(S, len) = A \cup B
  BY DEF Bytes
<1>2. A \cap B = {}
  BY DEF Bytes
<1>3. IsFiniteSet(A) /\ Cardinality(A) \in Nat
  <2>1. IsFiniteSet(S \ {x})
    BY FS_RemoveElement
  <2>. QED BY <2>1, BytesFinite
<1>4. IsFiniteSet(B) /\ Cardinality(B) = len[x]
  BY RowIs
<1> HIDE DEF A, B
<1>5. Cardinality(A \cup B) = Cardinality(A) + Cardinality(B) - Cardinality({})
  BY <1>2, <1>3, <1>4, FS_Union
<1>6. Cardinality({}) = 0
  BY FS_EmptySet
<1>. QED BY <1>1, <1>3, <1>4, <1>5, <1>6 DEF A

(* and fewer or smaller ones. *)
LEMMA BytesOver ==
  ASSUME NEW S, IsFiniteSet(S), NEW most, \A x \in S : most[x] \in Nat,
         NEW U \in SUBSET S, NEW len, \A x \in U : len[x] \in Nat /\ len[x] <= most[x]
  PROVE  Cardinality(Bytes(U, len)) <= Cardinality(Bytes(S, most))
<1>1. Bytes(U, len) \in SUBSET Bytes(S, most)
  BY DEF Bytes
<1>2. IsFiniteSet(Bytes(S, most))
  BY BytesFinite
<1>. QED BY <1>1, <1>2, FS_Subset

(***************************************************************************)
(* What currentSize covers.  An entry is claimed if a large message of its *)
(* address and its size is alive.  A claimed entry counts LargeDataThreshold*)
(* and the rest of it counts with its message, so that it does not matter  *)
(* whose the entry is: whoever frees it takes his own rest along and an    *)
(* entry that is no shorter than the threshold.                            *)
(***************************************************************************)
Large == {m \in Live : IsLarge(m.size)}

Claimed(s) == \E m \in Large : m.ptr = s /\ m.size = big[s].size

Held == [s \in DOMAIN big |->
           IF Claimed(s) THEN LargeDataThreshold ELSE big[s].size]
Rest == [m \in Large |-> m.size - LargeDataThreshold]

SizeInv ==
  /\ IsFiniteSet(Live) /\ IsFiniteSet(DOMAIN big)
  /\ \A s \in DOMAIN big : big[s].size > LargeDataThreshold
  /\ Cardinality(Bytes(DOMAIN big, Held)) + Cardinality(Bytes(Large, Rest))
       <= currentSize

(* The numbers that SizeInv adds up. *)
LEMMA SizeTypes ==
  ASSUME TypeOK, SizeInv
  PROVE  /\ IsFiniteSet(Large) /\ IsFiniteSet(DOMAIN big)
         /\ currentSize \in Int /\ LargeDataThreshold \in Nat
         /\ \A s \in DOMAIN big : /\ Held[s] \in Nat
                                 /\ big[s].size \in Nat
                                 /\ LargeDataThreshold <= Held[s]
                                 /\ Held[s] <= big[s].size
         /\ \A m \in Large : Rest[m] \in Nat /\ m.size \in Nat
         /\ Cardinality(Bytes(DOMAIN big, Held)) \in Nat
         /\ Cardinality(Bytes(Large, Rest)) \in Nat
<1>1. LargeDataThreshold \in Nat /\ Sizes \subseteq Nat /\ currentSize \in Int
  BY LifeCycleAssumption DEF TypeOK
<1>2. IsFiniteSet(Large) /\ IsFiniteSet(DOMAIN big)
  <2>1. Large \in SUBSET Live
    BY DEF Large
  <2>. QED BY <2>1, FS_Subset DEF SizeInv
<1>3. \A s \in DOMAIN big : big[s].size \in Nat /\ big[s].size > LargeDataThreshold
  BY <1>1 DEF TypeOK, Entries, SizeInv
<1>4. \A s \in DOMAIN big : /\ Held[s] \in Nat
                          /\ LargeDataThreshold <= Held[s]
                          /\ Held[s] <= big[s].size
  BY <1>1, <1>3 DEF Held
<1>5. \A m \in Large : m.size \in Nat /\ m.size > LargeDataThreshold
  BY <1>1 DEF Large, Live, TypeOK, Messages, Chunks, IsLarge
<1>6. \A m \in Large : Rest[m] \in Nat
  BY <1>1, <1>5 DEF Rest
<1>. QED BY <1>1, <1>2, <1>3, <1>4, <1>5, <1>6, BytesFinite

(***************************************************************************)
(* It covers the entries: what is missing of a claimed one lies with a     *)
(* message, and no two entries have the same.                              *)
(***************************************************************************)
LEMMA SizeInvCovers ==
  ASSUME TypeOK, SizeInv
  PROVE  SizeCovers
<1> DEFINE size == [s \in DOMAIN big |-> big[s].size]
           all  == Bytes(DOMAIN big, size)
           low  == Bytes(DOMAIN big, Held)
           rest == Bytes(Large, Rest)
           who  == [s \in DOMAIN big |->
                      CHOOSE m \in Large : m.ptr = s /\ m.size = big[s].size]
           f    == [b \in all \ low |-> <<who[b[1]], b[2] - LargeDataThreshold>>]
<1>0. /\ IsFiniteSet(Large) /\ IsFiniteSet(DOMAIN big)
      /\ currentSize \in Int /\ LargeDataThreshold \in Nat
      /\ \A s \in DOMAIN big : Held[s] \in Nat /\ size[s] \in Nat
      /\ \A m \in Large : Rest[m] \in Nat
      /\ Cardinality(low) \in Nat /\ Cardinality(rest) \in Nat
  BY SizeTypes
<1>1. IsFiniteSet(all) /\ IsFiniteSet(low) /\ IsFiniteSet(rest) /\ Cardinality(all) \in Nat
  BY <1>0, BytesFinite
<1>2. ASSUME NEW b \in all \ low
      PROVE  /\ b = <<b[1], b[2]>> /\ b[1] \in DOMAIN big /\ b[2] \in Nat
             /\ who[b[1]] \in Large /\ who[b[1]].ptr = b[1]
             /\ f[b] \in rest
  <2>1. PICK s \in DOMAIN big : b \in {s} \X (1 .. size[s])
    BY DEF Bytes
  <2>2. b = <<s, b[2]>> /\ b[1] = s /\ b[2] \in 1 .. size[s]
    BY <2>1
  <2>3. ~ (b[2] \in 1 .. Held[s])
    BY <2>2 DEF Bytes
  <2>4. Claimed(s)
    BY <1>0, <2>2, <2>3 DEF Held
  <2>5. who[s] \in Large /\ who[s].ptr = s /\ who[s].size = big[s].size
    BY <2>4 DEF Claimed
  <2> HIDE DEF who
  <2>6. b[2] - LargeDataThreshold \in 1 .. Rest[who[s]]
    BY <1>0, <2>2, <2>3, <2>4, <2>5 DEF Held, Rest
  <2>7. f[b] = <<who[s], b[2] - LargeDataThreshold>>
    BY <2>2
  <2>8. f[b] \in {who[s]} \X (1 .. Rest[who[s]])
    BY <2>6, <2>7
  <2>9. f[b] \in rest
    BY <2>5, <2>8 DEF Bytes
  <2>. QED BY <1>0, <2>2, <2>5, <2>9
<1> HIDE DEF who, low
<1>3. f \in Injection(all \ low, rest)
  <2>1. f \in [all \ low -> rest]
    BY <1>2
  <2>2. ASSUME NEW a \in all \ low, NEW b \in all \ low, f[a] = f[b]
        PROVE  a = b
    <3>1. who[a[1]] = who[b[1]] /\ a[2] - LargeDataThreshold = b[2] - LargeDataThreshold
      BY <2>2
    <3> HIDE DEF f, all, rest
    <3>2. a[1] = b[1]
      BY <1>2, <3>1
    <3>3. a[2] \in Nat /\ b[2] \in Nat /\ a = <<a[1], a[2]>> /\ b = <<b[1], b[2]>>
      BY <1>2
    <3>4. a[2] = b[2]
      BY <1>0, <3>1, <3>3
    <3>. QED BY <3>2, <3>3, <3>4
  <2> HIDE DEF f
  <2>. QED BY <2>1, <2>2 DEF Injection, IsInjective
<1> HIDE DEF f, all, rest
<1>4. Cardinality(all \ low) <= Cardinality(rest) /\ IsFiniteSet(all \ low)
  BY <1>1, <1>3, FS_Injection
<1>5. Cardinality(all \ low) = Cardinality(all) - Cardinality(all \cap low)
  BY <1>1, FS_Difference
<1>6. Cardinality(all \cap low) <= Cardinality(low) /\ Cardinality(all \cap low) \in Nat
  BY <1>1, FS_Intersection, FS_CardinalityType
<1>7. Cardinality(low) + Cardinality(rest) <= currentSize
  BY DEF low, rest, SizeInv
<1>8. Cardinality(all \ low) \in Nat
  BY <1>4, FS_CardinalityType
<1>9. Cardinality(all) <= currentSize
  BY <1>0, <1>1, <1>4, <1>5, <1>6, <1>7, <1>8
<1>. QED BY <1>9 DEF all, SizeCovers

(* A step that adds no large message and keeps the sizes of the entries, or
   deletes some. *)
LEMMA SizeFrame ==
  ASSUME TypeOK, SizeInv, Large' = Large, IsFiniteSet(Live'),
         DOMAIN big' \subseteq DOMAIN big, UNCHANGED currentSize,
         \A s \in DOMAIN big' : big'[s].size = big[s].size
  PROVE  SizeInv'
<1>1. IsFiniteSet(DOMAIN big') /\ \A s \in DOMAIN big' : big'[s].size > LargeDataThreshold
  BY FS_Subset DEF SizeInv
<1>2. \A s \in DOMAIN big' : Held'[s] = Held[s]
  BY DEF Held, Claimed
<1>3. Cardinality(Bytes(DOMAIN big', Held')) <= Cardinality(Bytes(DOMAIN big, Held))
  <2>1. \A s \in DOMAIN big' : Held'[s] \in Nat /\ Held'[s] <= Held[s]
    BY <1>2, SizeTypes
  <2>2. IsFiniteSet(DOMAIN big) /\ \A s \in DOMAIN big : Held[s] \in Nat
    BY SizeTypes
  <2>. QED BY <2>1, <2>2, BytesOver
<1>4. Rest' = Rest
  BY DEF Rest
<1>5. IsFiniteSet(DOMAIN big') /\ \A s \in DOMAIN big' : Held'[s] \in Nat
  BY <1>1, <1>2, SizeTypes
<1>6. Cardinality(Bytes(DOMAIN big', Held')) \in Nat
  BY <1>5, BytesFinite
<1>7. /\ Cardinality(Bytes(DOMAIN big, Held)) \in Nat
      /\ Cardinality(Bytes(Large, Rest)) \in Nat /\ currentSize \in Int
  BY SizeTypes
<1>8. Cardinality(Bytes(DOMAIN big', Held')) + Cardinality(Bytes(Large', Rest'))
        <= currentSize'
  BY <1>3, <1>4, <1>6, <1>7 DEF SizeInv
<1>. QED BY <1>1, <1>8 DEF SizeInv

(* What the messages account for, without one of them. *)
LEMMA RestWithout ==
  ASSUME TypeOK, SizeInv, NEW m \in Large, Large' = Large \ {m}
  PROVE  /\ Cardinality(Bytes(Large', Rest')) <= Cardinality(Bytes(Large, Rest)) - Rest[m]
         /\ Cardinality(Bytes(Large', Rest')) \in Nat
<1> DEFINE U == Large \ {m}
<1>1. IsFiniteSet(Large) /\ \A k \in Large : Rest[k] \in Nat
  BY SizeTypes
<1>2. \A k \in U : Rest'[k] = Rest[k]
  BY DEF Rest
<1>3. IsFiniteSet(U) /\ \A k \in U : Rest'[k] \in Nat /\ Rest[k] \in Nat /\ Rest'[k] <= Rest[k]
  BY <1>1, <1>2, FS_RemoveElement
<1>4. /\ Cardinality(Bytes(U, Rest)) \in Nat /\ Cardinality(Bytes(U, Rest')) \in Nat
      /\ Cardinality(Bytes(U, Rest')) <= Cardinality(Bytes(U, Rest))
  BY <1>3, BytesFinite, BytesOver
<1>5. Cardinality(Bytes(Large, Rest)) = Cardinality(Bytes(U, Rest)) + Rest[m]
  BY <1>1, BytesAt
<1>6. Rest[m] \in Nat
  BY <1>1
<1>. QED BY <1>4, <1>5, <1>6

(* A large message leaves: its rest goes to the entry it has claimed. *)
LEMMA SizeLeaves ==
  ASSUME TypeOK, SizeInv, NEW m \in Large, Large' = Large \ {m}, IsFiniteSet(Live'),
         DOMAIN big' = DOMAIN big, UNCHANGED currentSize,
         \A s \in DOMAIN big : big'[s].size = big[s].size
  PROVE  SizeInv'
<1> DEFINE D == DOMAIN big
<1>0. /\ IsFiniteSet(Large) /\ IsFiniteSet(D)
      /\ currentSize \in Int /\ LargeDataThreshold \in Nat
      /\ \A s \in D : /\ Held[s] \in Nat /\ big[s].size \in Nat
                     /\ LargeDataThreshold <= Held[s] /\ Held[s] <= big[s].size
      /\ \A k \in Large : Rest[k] \in Nat
      /\ Rest[m] = m.size - LargeDataThreshold /\ m.size \in Nat
      /\ Cardinality(Bytes(D, Held)) \in Nat /\ Cardinality(Bytes(Large, Rest)) \in Nat
  BY SizeTypes DEF Rest
<1>1. /\ \A s \in D \ {m.ptr} : Held'[s] = Held[s]
      /\ m.ptr \in D => Held'[m.ptr] \in Nat /\ Held'[m.ptr] <= Held[m.ptr] + Rest[m]
  BY <1>0 DEF Held, Claimed
<1>2. \A s \in D : Held'[s] \in Nat
  BY <1>0, <1>1
<1>3. Cardinality(Bytes(D, Held')) \in Nat
  BY <1>0, <1>2, BytesFinite
<1>4. Cardinality(Bytes(D, Held')) <= Cardinality(Bytes(D, Held)) + Rest[m]
  <2>1. CASE m.ptr \in D
    <3> DEFINE U == D \ {m.ptr}
    <3>0. IsFiniteSet(U)
      BY <1>0, FS_RemoveElement
    <3>1. \A s \in U : Held[s] \in Nat /\ Held'[s] \in Nat /\ Held'[s] <= Held[s]
      BY <1>0, <1>1
    <3>2. /\ Cardinality(Bytes(U, Held)) \in Nat /\ Cardinality(Bytes(U, Held')) \in Nat
          /\ Cardinality(Bytes(U, Held')) <= Cardinality(Bytes(U, Held))
      BY <3>0, <3>1, BytesFinite, BytesOver
    <3>3. Cardinality(Bytes(D, Held)) = Cardinality(Bytes(U, Held)) + Held[m.ptr]
      <4>1. IsFiniteSet(D) /\ \A s \in D : Held[s] \in Nat
        BY <1>0
      <4> HIDE DEF D
      <4>. QED BY <2>1, <4>1, BytesAt
    <3>4. Cardinality(Bytes(D, Held')) = Cardinality(Bytes(U, Held')) + Held'[m.ptr]
      <4>1. IsFiniteSet(D)
        BY <1>0
      <4> HIDE DEF D
      <4>. QED BY <1>2, <2>1, <4>1, BytesAt
    <3>5. /\ Held[m.ptr] \in Nat /\ Held'[m.ptr] \in Nat /\ Rest[m] \in Nat
          /\ Held'[m.ptr] <= Held[m.ptr] + Rest[m]
      BY <1>0, <1>1, <2>1
    <3>. QED BY <3>2, <3>3, <3>4, <3>5
  <2>2. CASE m.ptr \notin D
    <3>1. \A s \in D : Held'[s] \in Nat /\ Held'[s] <= Held[s]
      BY <1>0, <1>1, <2>2
    <3>2. Cardinality(Bytes(D, Held')) <= Cardinality(Bytes(D, Held))
      BY <1>0, <3>1, BytesOver
    <3>. QED BY <1>0, <1>3, <3>2
  <2>. QED BY <2>1, <2>2
<1>5. Cardinality(Bytes(Large', Rest')) <= Cardinality(Bytes(Large, Rest)) - Rest[m]
      /\ Cardinality(Bytes(Large', Rest')) \in Nat
  BY <1>0, RestWithout
<1>6. Cardinality(Bytes(D, Held')) + Cardinality(Bytes(Large', Rest')) <= currentSize'
  BY <1>0, <1>3, <1>4, <1>5 DEF SizeInv
<1>. QED BY <1>0, <1>6 DEF SizeInv

(* Free takes the entry, and what the message has left, with it. *)
LEMMA SizeFreed ==
  ASSUME TypeOK, SizeInv, IsFiniteSet(Live'), NEW m \in Messages, m.ptr \in DOMAIN big,
         IsLarge(m.size) => m \in Large, Large' = Large \ {m},
         big' = Delete(big, {m.ptr}), currentSize' = currentSize - m.size
  PROVE  SizeInv'
<1> DEFINE D == DOMAIN big
           U == D \ {m.ptr}
<1>0. /\ IsFiniteSet(Large) /\ IsFiniteSet(D) /\ m.ptr \in D
      /\ currentSize \in Int /\ LargeDataThreshold \in Nat
      /\ \A s \in D : Held[s] \in Nat /\ LargeDataThreshold <= Held[s]
      /\ Cardinality(Bytes(D, Held)) \in Nat /\ Cardinality(Bytes(Large, Rest)) \in Nat
  BY SizeTypes
<1>1. DOMAIN big' = U /\ \A s \in U : big'[s] = big[s]
  BY DEF Delete
<1>2. \A s \in U : Held'[s] = Held[s]
  BY <1>1 DEF Held, Claimed
<1>3. IsFiniteSet(U)
  BY <1>0, FS_RemoveElement
<1>4. \A s \in U : Held[s] \in Nat /\ Held'[s] \in Nat /\ Held'[s] <= Held[s]
  BY <1>0, <1>2
<1>5. /\ Cardinality(Bytes(U, Held)) \in Nat /\ Cardinality(Bytes(U, Held')) \in Nat
      /\ Cardinality(Bytes(U, Held')) <= Cardinality(Bytes(U, Held))
  BY <1>3, <1>4, BytesFinite, BytesOver
<1>6. Cardinality(Bytes(D, Held)) = Cardinality(Bytes(U, Held)) + Held[m.ptr]
  BY <1>0, BytesAt
<1>7. Held[m.ptr] \in Nat /\ LargeDataThreshold <= Held[m.ptr]
  BY <1>0
<1>8. m.size \in Nat
  BY LifeCycleAssumption DEF Messages
<1>9. /\ Cardinality(Bytes(Large', Rest')) \in Nat
      /\ Cardinality(Bytes(Large', Rest')) + m.size
           <= Cardinality(Bytes(Large, Rest)) + LargeDataThreshold
  <2>1. CASE IsLarge(m.size)
    <3>1. Rest[m] = m.size - LargeDataThreshold
      BY <2>1 DEF Rest
    <3>2. /\ Cardinality(Bytes(Large', Rest')) <= Cardinality(Bytes(Large, Rest)) - Rest[m]
          /\ Cardinality(Bytes(Large', Rest')) \in Nat
      BY <2>1, RestWithout
    <3>3. LargeDataThreshold \in Nat /\ Cardinality(Bytes(Large, Rest)) \in Nat
      BY <1>0
    <3>. QED BY <1>8, <3>1, <3>2, <3>3
  <2>2. CASE ~IsLarge(m.size)
    <3>1. m.size <= LargeDataThreshold
      BY <1>8, <2>2, LifeCycleAssumption DEF IsLarge, IsSmall
    <3>2. Rest' = Rest /\ Large' = Large
      BY <2>2 DEF Rest, Large
    <3>3. LargeDataThreshold \in Nat /\ Cardinality(Bytes(Large, Rest)) \in Nat
      BY <1>0
    <3>4. Cardinality(Bytes(Large', Rest')) = Cardinality(Bytes(Large, Rest))
      BY <3>2
    <3>. QED BY <1>8, <3>1, <3>3, <3>4
  <2>. QED BY <2>1, <2>2
<1>10. Cardinality(Bytes(U, Held')) + Cardinality(Bytes(Large', Rest')) <= currentSize'
  BY <1>0, <1>5, <1>6, <1>7, <1>8, <1>9 DEF SizeInv
<1>. QED BY <1>1, <1>3, <1>10 DEF SizeInv

(* Put makes an entry that its message claims. *)
LEMMA SizePut ==
  ASSUME TypeOK, SizeInv, IsFiniteSet(Live'), NEW m \in Messages, IsLarge(m.size),
         m \notin Large, Large' = Large \cup {m},
         BigDataPoolPut(m.ptr, m.size)
  PROVE  SizeInv'
<1> DEFINE D == DOMAIN big'
           U == D \ {m.ptr}
<1>0. /\ IsFiniteSet(Large) /\ IsFiniteSet(DOMAIN big)
      /\ currentSize \in Int /\ LargeDataThreshold \in Nat
      /\ \A s \in DOMAIN big : Held[s] \in Nat
      /\ \A k \in Large : Rest[k] \in Nat
      /\ Cardinality(Bytes(DOMAIN big, Held)) \in Nat
      /\ Cardinality(Bytes(Large, Rest)) \in Nat
  BY SizeTypes
<1>1. m.size \in Nat /\ m.size > LargeDataThreshold
  BY LifeCycleAssumption DEF Messages, IsLarge
<1>2. /\ D = DOMAIN big \cup {m.ptr} /\ m.ptr \in D /\ U \subseteq DOMAIN big
      /\ big'[m.ptr].size = m.size
      /\ \A s \in U : big'[s] = big[s]
      /\ currentSize' = currentSize + m.size
  <2> DEFINE e == [size |-> m.size, ref |-> 1]
  <2>1. big' = Store(big, m.ptr, e) /\ currentSize' = currentSize + m.size
    BY DEF BigDataPoolPut
  <2>2. e.size = m.size
    OBVIOUS
  <2> HIDE DEF e
  <2>3. /\ D = DOMAIN big \cup {m.ptr} /\ big'[m.ptr] = e
        /\ \A s \in U : big'[s] = big[s]
    BY <2>1 DEF Store
  <2>. QED BY <2>1, <2>2, <2>3
<1>3. \A s \in U : Held'[s] = Held[s] /\ Held[s] \in Nat
  BY <1>0, <1>2 DEF Held, Claimed
<1>4. Held'[m.ptr] = LargeDataThreshold
  BY <1>2 DEF Held, Claimed
<1>5. IsFiniteSet(D) /\ IsFiniteSet(U)
  <2>1. IsFiniteSet(DOMAIN big \cup {m.ptr})
    BY <1>0, FS_AddElement
  <2>2. IsFiniteSet(D)
    BY <1>2, <2>1
  <2>. QED BY <2>2, FS_RemoveElement
<1>6. \A s \in D : Held'[s] \in Nat
  BY <1>0, <1>3, <1>4
<1>7. Cardinality(Bytes(D, Held')) = Cardinality(Bytes(U, Held')) + LargeDataThreshold
  <2>1. m.ptr \in D
    BY <1>2
  <2>. QED BY <1>4, <1>5, <1>6, <2>1, BytesAt
<1>8. /\ Cardinality(Bytes(U, Held')) \in Nat
      /\ Cardinality(Bytes(U, Held')) <= Cardinality(Bytes(DOMAIN big, Held))
  <2>1. \A s \in U : Held'[s] \in Nat /\ Held'[s] <= Held[s]
    BY <1>0, <1>3
  <2>2. U \in SUBSET DOMAIN big
    BY <1>2
  <2>. QED BY <1>0, <1>5, <2>1, <2>2, BytesFinite, BytesOver
<1>9. /\ Cardinality(Bytes(Large', Rest')) \in Nat
      /\ Cardinality(Bytes(Large', Rest'))
           <= Cardinality(Bytes(Large, Rest)) + (m.size - LargeDataThreshold)
  <2>1. /\ \A k \in Large : Rest'[k] = Rest[k]
        /\ Rest'[m] = m.size - LargeDataThreshold
    BY DEF Rest
  <2>2. IsFiniteSet(Large') /\ Large' \ {m} = Large /\ m \in Large'
    BY <1>0, FS_AddElement
  <2>3. /\ \A k \in Large : Rest'[k] \in Nat /\ Rest'[k] <= Rest[k]
        /\ Rest'[m] \in Nat
    BY <1>0, <1>1, <2>1
  <2>4. \A k \in Large' : Rest'[k] \in Nat
    BY <2>3
  <2>5. /\ Cardinality(Bytes(Large, Rest')) <= Cardinality(Bytes(Large, Rest))
        /\ Cardinality(Bytes(Large, Rest')) \in Nat
    BY <1>0, <2>3, BytesFinite, BytesOver
  <2>6. Cardinality(Bytes(Large', Rest')) = Cardinality(Bytes(Large, Rest')) + Rest'[m]
    BY <2>2, <2>4, BytesAt
  <2>. QED BY <1>0, <1>1, <2>1, <2>3, <2>5, <2>6
<1>10. Cardinality(Bytes(D, Held')) + Cardinality(Bytes(Large', Rest')) <= currentSize'
  BY <1>0, <1>1, <1>2, <1>7, <1>8, <1>9 DEF SizeInv
<1>11. \A s \in D : big'[s].size > LargeDataThreshold
  BY <1>1, <1>2 DEF SizeInv
<1>. QED BY <1>5, <1>10, <1>11 DEF SizeInv

-----------------------------------------------------------------------------
(* The messages that are alive after a step. *)
LEMMA LargeWithout ==
  ASSUME SizeInv, NEW m, Live' = Live \ {m}
  PROVE  IsFiniteSet(Live') /\ Large' = Large \ {m}
<1>1. IsFiniteSet(Live \ {m})
  BY FS_RemoveElement DEF SizeInv
<1>. QED BY <1>1 DEF Large

LEMMA LargeStays ==
  ASSUME SizeInv, Live' = Live
  PROVE  IsFiniteSet(Live') /\ Large' = Large
BY DEF SizeInv, Large

(* Release leaves the sizes alone. *)
LEMMA ReleaseSizes ==
  ASSUME TypeOK, NEW s, UNCHANGED <<big, currentSize>> \/ BigDataPoolRelease(s)
  PROVE  /\ DOMAIN big' = DOMAIN big /\ UNCHANGED currentSize
         /\ \A x \in DOMAIN big : big'[x].size = big[x].size
BY DEF BigDataPoolRelease, TypeOK, Entries

LEMMA WriteCovers ==
  ASSUME TypeOK, PlacesInv, SizeInv, NEW s \in Slices, NEW n \in Sizes,
         WriteSmall(s, n) \/ WriteLarge(s, n) \/ WriteMedium(s, n)
  PROVE  SizeInv'
<1>0. Shape /\ s \notin Bufs
  BY LifeCycleAssumption DEF PlacesInv
<1>1. PICK ptr \in Addresses :
        /\ Enter(ptr, n) /\ (ptr \in Bufs <=> IsSmall(n))
        /\ ~IsSmall(n) => ptr = s
  BY <1>0 DEF WriteSmall, WriteLarge, WriteMedium, IsMedium, IsLarge, Addresses
<1>2. PICK m \in Messages :
        /\ m.id = written + 1 /\ m.ptr = ptr /\ m.size = n
        /\ m \notin Live
        /\ writing' = writing \cup {m} /\ UNCHANGED <<queue, chunks, recycler>>
        /\ written' \in 0 .. MaxWrites /\ written' = written + 1
        /\ shared \subseteq shared' /\ shared' \subseteq Ids
        /\ \A k \in Live : k.ptr = ptr => k.id \in shared' /\ m.id \in shared'
  BY <1>0, <1>1, EnterIs
<1>3. Live' = Live \cup {m}
  BY <1>2 DEF Live
<1>4. IsFiniteSet(Live')
  BY <1>3, FS_AddElement DEF SizeInv
<1>5. CASE WriteSmall(s, n) \/ WriteMedium(s, n)
  <2>1. ~IsLarge(n) /\ UNCHANGED <<big, currentSize>>
    BY <1>5 DEF WriteSmall, WriteMedium, IsMedium, IsLarge, poolVars, MediumPoolPut
  <2>2. Large' = Large
    BY <1>2, <1>3, <2>1 DEF Large
  <2>. QED BY <1>4, <2>1, <2>2, SizeFrame
<1>6. CASE WriteLarge(s, n)
  <2>1. IsLarge(m.size) /\ BigDataPoolPut(m.ptr, m.size)
    BY <1>1, <1>2, <1>6 DEF WriteLarge, IsLarge
  <2>2. Large' = Large \cup {m} /\ m \notin Large
    BY <1>2, <1>3, <2>1 DEF Large
  <2>. QED BY <1>4, <2>1, <2>2, SizePut
<1>. QED BY <1>5, <1>6

LEMMA ReadCovers ==
  ASSUME TypeOK, SizeInv, NEW m \in queue,
         \/ SafeReadSmall(m) \/ SafeReadLarge(m)
         \/ SafeReadMedium(m) \/ ZeroCopyRead(m)
  PROVE  SizeInv'
<1>1. PICK data, zeroCopy : Hand(m, data, zeroCopy)
  BY DEF SafeReadSmall, SafeReadLarge, SafeReadMedium, ZeroCopyRead
<1>2. Live' = Live
  <2> DEFINE c == [msg |-> m, data |-> data, zeroCopy |-> zeroCopy]
  <2>1. /\ queue' = queue \ {m} /\ UNCHANGED writing
        /\ chunks' = chunks \cup {c} /\ c.msg = m
    BY <1>1 DEF Hand
  <2> HIDE DEF c
  <2>. QED BY <2>1 DEF Live
<1>3. /\ DOMAIN big' = DOMAIN big /\ UNCHANGED currentSize
      /\ \A s \in DOMAIN big : big'[s].size = big[s].size
  <2>1. UNCHANGED <<big, currentSize>> \/ BigDataPoolRelease(m.ptr)
    BY DEF SafeReadSmall, SafeReadLarge, SafeReadMedium, ZeroCopyRead, poolVars
  <2>. QED BY <2>1, ReleaseSizes
<1>. QED BY <1>2, <1>3, LargeStays, SizeFrame

(* The chunk's message leaves, with its entry or without. *)
LEMMA ReleaseCovers ==
  ASSUME TypeOK, PlacesInv, SizeInv, NEW c \in chunks, Release(c)
  PROVE  SizeInv'
<1> DEFINE m == c.msg
<1>0. /\ m \in Messages /\ m \in Live
      /\ IsLarge(m.size) => m \in Large
  BY DEF TypeOK, Chunks, Live, Large
<1>1. Live' = Live \ {m}
  BY DEF Release, Live, PlacesInv, InOnePlace, Waiting
<1>2. IsFiniteSet(Live') /\ Large' = Large \ {m}
  BY <1>1, LargeWithout
<1>3. \/ /\ m.ptr \in DOMAIN big /\ big' = Delete(big, {m.ptr})
         /\ currentSize' = currentSize - m.size
      \/ UNCHANGED <<big, currentSize>>
      \/ BigDataPoolRelease(m.ptr)
  BY DEF Release, BigDataPoolFree, recycle, MediumPoolRelease, poolVars
<1> HIDE DEF m
<1>4. CASE UNCHANGED <<big, currentSize>> \/ BigDataPoolRelease(m.ptr)
  <2>1. /\ DOMAIN big' = DOMAIN big /\ UNCHANGED currentSize
        /\ \A s \in DOMAIN big : big'[s].size = big[s].size
    BY <1>4, ReleaseSizes
  <2>2. CASE m \in Large
    BY <1>2, <2>1, <2>2, SizeLeaves
  <2>3. CASE m \notin Large
    <3>1. Large' = Large
      BY <1>2, <2>3
    <3>. QED BY <1>2, <2>1, <3>1, SizeFrame
  <2>. QED BY <2>2, <2>3
<1>5. CASE /\ m.ptr \in DOMAIN big /\ big' = Delete(big, {m.ptr})
           /\ currentSize' = currentSize - m.size
  BY <1>0, <1>2, <1>5, SizeFreed
<1>. QED BY <1>3, <1>4, <1>5

LEMMA AsideCovers ==
  ASSUME TypeOK, PlacesInv, SizeInv,
         \/ \E m \in writing : WriteAccepted(m) \/ WriteRefused(m)
         \/ \E b \in Bufs : PoolDrops(b)
         \/ MediumPoolCleanup \/ BigDataPoolCleanup \/ RecyclerStops \/ Age
         \/ UNCHANGED vars
  PROVE  SizeInv'
<1>1. ASSUME NEW m \in writing, WriteRefused(m)
      PROVE  SizeInv'
  <2>1. Live' = Live \ {m} /\ UNCHANGED <<big, currentSize>>
    BY <1>1 DEF WriteRefused, Live, PlacesInv, InOnePlace, Waiting, poolVars
  <2>2. IsFiniteSet(Live') /\ Large' = Large \ {m}
    BY <2>1, LargeWithout
  <2>3. CASE m \in Large
    BY <2>1, <2>2, <2>3, SizeLeaves
  <2>4. CASE m \notin Large
    <3>1. Large' = Large
      BY <2>2, <2>4
    <3>. QED BY <2>1, <2>2, <3>1, SizeFrame
  <2>. QED BY <2>3, <2>4
<1>2. CASE \/ \E m \in writing : WriteAccepted(m)
           \/ \E b \in Bufs : PoolDrops(b)
           \/ MediumPoolCleanup \/ RecyclerStops \/ Age \/ UNCHANGED vars
  <2>1. Live' = Live /\ UNCHANGED <<big, currentSize>>
    BY <1>2 DEF WriteAccepted, PoolDrops, MediumPoolCleanup, RecyclerStops, Age,
                vars, poolVars, Live
  <2>. QED BY <2>1, LargeStays, SizeFrame
<1>3. CASE BigDataPoolCleanup
  <2>1. Live' = Live /\ UNCHANGED currentSize /\ \E d : big' = Delete(big, d)
    BY <1>3 DEF BigDataPoolCleanup, Live
  <2>2. /\ DOMAIN big' \subseteq DOMAIN big
        /\ \A s \in DOMAIN big' : big'[s].size = big[s].size
    BY <2>1 DEF Delete
  <2>. QED BY <2>1, <2>2, LargeStays, SizeFrame
<1>. QED BY <1>1, <1>2, <1>3

LEMMA SizeInit == Init => SizeInv
<1>. SUFFICES ASSUME Init PROVE SizeInv
  OBVIOUS
<1>1. Live = {} /\ Large = {} /\ DOMAIN big = {} /\ currentSize = 0
  BY DEF Init, Live, Large, EmptyMap
<1>2. \A len : Bytes({}, len) = {}
  BY DEF Bytes
<1>3. IsFiniteSet({}) /\ Cardinality({}) = 0
  BY FS_EmptySet
<1>4. Cardinality(Bytes(DOMAIN big, Held)) = 0 /\ Cardinality(Bytes(Large, Rest)) = 0
  BY <1>1, <1>2, <1>3
<1>. QED BY <1>1, <1>3, <1>4 DEF SizeInv

LEMMA SizeNext ==
  ASSUME TypeOK, PlacesInv, SizeInv, [Next]_vars
  PROVE  SizeInv'
BY WriteCovers, ReadCovers, ReleaseCovers, AsideCovers DEF Next

(***************************************************************************)
(* currentSize covers what the entries hold, whatever is overwritten,      *)
(* cleaned up or freed through another message of its address, and however *)
(* many messages there are.  (life_cycle.go:172, life_cycle.go:200)        *)
(***************************************************************************)
THEOREM SizeCoversAlways == Spec => []SizeCovers
<1>1. Init => SizeInv
  BY SizeInit
<1>2. TypeOK /\ PlacesInv /\ SizeInv /\ [Next]_vars => SizeInv'
  BY SizeNext
<1>3. TypeOK /\ SizeInv => SizeCovers
  BY SizeInvCovers
<1>. QED BY <1>1, <1>2, <1>3, PlacesAlways, PTL DEF Spec
=============================================================================

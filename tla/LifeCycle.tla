------------------------------ MODULE LifeCycle ------------------------------
(***************************************************************************)
(* The memory of the messages (life_cycle.go, chunk.go, and the parts of   *)
(* double_buffer.go that use them).  A DoubleBuffer moves addresses, not   *)
(* bytes: Write copies a small message into a pooled buffer, remembers the *)
(* time of a medium one and counts a reference for a large one, both under *)
(* the address of the caller's slice; a read turns the address into a      *)
(* DataChunk, whose Release undoes what Write did; a background goroutine  *)
(* cleans the two maps up.                                                 *)
(*                                                                         *)
(* Any number of goroutines may be in Write, and any number of chunks may  *)
(* be in the hands of readers.  Which message a read pops is up to the     *)
(* rings (module DoubleBuffer), here it may be any; a message that the     *)
(* rings lose is one that is never read.  Every operation of the pools is  *)
(* under their mutex, and Pop does not touch them, so that a read is one   *)
(* step.  A Go map is a function on the keys it holds.                     *)
(***************************************************************************)
EXTENDS Integers, FiniteSets

CONSTANTS
  Slices,               \* the addresses of the slices that callers pass
  Bufs,                 \* the addresses of the small pool's buffers
  Sizes,                \* lengths of messages
  SmallDataThreshold,   \* shorter messages are small (1024)
  LargeDataThreshold,   \* longer messages are large (32 * 1024)
  MaxCleanCounts,       \* a cleanup stops past so many deletions (200)
  CleanAge,             \* cleanup deletes older entries (one minute)
  MediumPoolTTL,        \* entries younger than this are valid (two minutes)
  MaxWrites,            \* bound: calls of Write
  Nil                   \* the address of memory that no pool knows

ASSUME LifeCycleAssumption ==
  /\ Slices \cap Bufs = {} /\ Nil \notin Slices \cup Bufs
  /\ Sizes \subseteq Nat \ {0}
  /\ SmallDataThreshold \in Nat /\ LargeDataThreshold \in Nat
  /\ SmallDataThreshold <= LargeDataThreshold
  /\ {MaxCleanCounts, CleanAge, MediumPoolTTL, MaxWrites} \subseteq Nat
  /\ CleanAge < MediumPoolTTL

VARIABLES
  mem,          \* mem[a]: the message whose bytes lie at address a, 0 if none
  smallPool,    \* SmallPool: how often each buffer lies in the sync.Pool
  medium,       \* MediumPool.cache: address -> age of the entry
  big,          \* BigDataPool.pool: address -> size and reference count
  currentSize,  \* BigDataPool.currentSize
  writing,      \* the messages whose Write is between the pools and the ring
  queue,        \* the messages in the rings
  chunks,       \* the DataChunks that readers hold
  written,      \* how many calls of Write there have been
  recycler,     \* asyncRecycleWorker: "tick", "big" (between the two) or "done"
  shared        \* history: messages that lived together with another one of
                \* the same address

poolVars == <<medium, big, currentSize>>
vars == <<mem, smallPool, poolVars, writing, queue, chunks, written,
          recycler, shared>>

Addresses == Slices \cup Bufs
Ids       == 1 .. MaxWrites

IsSmall(n)  == n < SmallDataThreshold
IsLarge(n)  == ~IsSmall(n) /\ n > LargeDataThreshold
IsMedium(n) == ~IsSmall(n) /\ ~IsLarge(n)

Messages == [id : Ids, ptr : Addresses, size : Sizes]
Chunks   == [msg : Messages, data : Addresses \cup {Nil}, zeroCopy : BOOLEAN]
Entries  == [size : Sizes, ref : Int]

(* The messages somebody still has a use for, and the memory in use. *)
Live  == writing \cup queue \cup {c.msg : c \in chunks}
InUse == {m.ptr : m \in writing \cup queue} \cup {c.data : c \in chunks}

TypeOK ==
  /\ mem \in [Addresses -> 0 .. MaxWrites]
  /\ smallPool \in [Bufs -> Nat]
  /\ DOMAIN medium \subseteq Slices
  /\ medium \in [DOMAIN medium -> 0 .. MediumPoolTTL]
  /\ DOMAIN big \subseteq Slices /\ big \in [DOMAIN big -> Entries]
  /\ currentSize \in Int
  /\ writing \subseteq Messages /\ queue \subseteq Messages
  /\ chunks \subseteq Chunks /\ written \in 0 .. MaxWrites
  /\ recycler \in {"tick", "big", "done"} /\ shared \subseteq Ids

EmptyMap == [x \in {} |-> 0]
Store(map, key, value) ==
  [x \in DOMAIN map \cup {key} |-> IF x = key THEN value ELSE map[x]]
Delete(map, keys) == [x \in DOMAIN map \ keys |-> map[x]]

(* NewLifeCycleManager: everything is empty. *)
Init ==
  /\ mem = [a \in Addresses |-> 0] /\ smallPool = [b \in Bufs |-> 0]
  /\ medium = EmptyMap /\ big = EmptyMap /\ currentSize = 0
  /\ writing = {} /\ queue = {} /\ chunks = {} /\ written = 0
  /\ recycler = "tick" /\ shared = {}

-----------------------------------------------------------------------------
(* The pools. *)

(* SmallPool.Get: a pooled buffer, or a new one; a pooled one that is too   *)
(* short is dropped, which is PoolDrops before the Get.                     *)
SmallPoolGet(b) ==
  \/ smallPool[b] > 0 /\ smallPool' = [smallPool EXCEPT ![b] = @ - 1]
  \/ smallPool[b] = 0 /\ b \notin InUse /\ UNCHANGED smallPool

PoolDrops(b) ==
  /\ smallPool[b] > 0 /\ smallPool' = [smallPool EXCEPT ![b] = @ - 1]
  /\ UNCHANGED <<mem, poolVars, writing, queue, chunks, written, recycler, shared>>

SmallPoolPut(b) == smallPool' = [smallPool EXCEPT ![b] = @ + 1]

MediumPoolPut(s) ==
  medium' = Store(medium, s, 0) /\ UNCHANGED <<big, currentSize>>

IsValid(s) == s \in DOMAIN medium /\ medium[s] < MediumPoolTTL

MediumPoolRelease(s) ==
  medium' = Delete(medium, {s}) /\ UNCHANGED <<big, currentSize>>

BigDataPoolPut(s, n) ==
  /\ currentSize' = currentSize + n
  /\ big' = Store(big, s, [size |-> n, ref |-> 1])
  /\ UNCHANGED medium

(* Mutant: Release does not look whether the map has an entry, and lowers  *)
(* the reference count of Go's zero value.                                 *)
BigDataPoolReleaseUnchecked(s) ==
  /\ big' = Store(big, s, IF s \in DOMAIN big THEN [big[s] EXCEPT !.ref = @ - 1]
                                              ELSE [size |-> 0, ref |-> -1])
  /\ UNCHANGED <<medium, currentSize>>

BigDataPoolRelease(s) ==
  /\ big' = IF s \in DOMAIN big THEN [big EXCEPT ![s].ref = @ - 1] ELSE big
  /\ UNCHANGED <<medium, currentSize>>

(* Mutant: Free lowers the size whether or not the entry is still there.   *)
BigDataPoolFreeTwice(s, n) ==
  /\ big' = Delete(big, {s}) /\ currentSize' = currentSize - n
  /\ UNCHANGED medium

BigDataPoolFree(s, n) ==
  /\ IF s \in DOMAIN big
     THEN big' = Delete(big, {s}) /\ currentSize' = currentSize - n
     ELSE UNCHANGED <<big, currentSize>>
  /\ UNCHANGED medium

-----------------------------------------------------------------------------
(* Write: the caller fills its slice s with a new message of n bytes and    *)
(* calls Write, which begins with the pool of its size class.               *)
Enter(ptr, n) ==
  LET id    == written + 1
      twins == {m \in Live : m.ptr = ptr}
  IN /\ written < MaxWrites /\ written' = id
     /\ writing' = writing \cup {[id |-> id, ptr |-> ptr, size |-> n]}
     /\ shared' = IF twins = {} THEN shared
                  ELSE shared \cup {id} \cup {m.id : m \in twins}
     /\ UNCHANGED <<queue, chunks, recycler>>

(* Mutant: the message keeps the address of the caller's slice, the copy   *)
(* is forgotten.                                                           *)
WriteSmallNoCopy(s, n) ==
  /\ IsSmall(n) /\ Enter(s, n)
  /\ mem' = [mem EXCEPT ![s] = written + 1]
  /\ UNCHANGED <<smallPool, poolVars>>

WriteSmall(s, n) ==
  /\ IsSmall(n)
  /\ \E b \in Bufs :
       /\ SmallPoolGet(b) /\ Enter(b, n)
       /\ mem' = [mem EXCEPT ![s] = written + 1, ![b] = written + 1]
  /\ UNCHANGED poolVars

WriteLarge(s, n) ==
  /\ IsLarge(n) /\ BigDataPoolPut(s, n) /\ Enter(s, n)
  /\ mem' = [mem EXCEPT ![s] = written + 1] /\ UNCHANGED smallPool

WriteMedium(s, n) ==
  /\ IsMedium(n) /\ MediumPoolPut(s) /\ Enter(s, n)
  /\ mem' = [mem EXCEPT ![s] = written + 1] /\ UNCHANGED smallPool

(* The ring takes the message, or Write returns an error and the pools     *)
(* stay as they are.                                                       *)
WriteAccepted(m) ==
  /\ writing' = writing \ {m} /\ queue' = queue \cup {m}
  /\ UNCHANGED <<mem, smallPool, poolVars, chunks, written, recycler, shared>>

WriteRefused(m) ==
  /\ writing' = writing \ {m}
  /\ UNCHANGED <<mem, smallPool, poolVars, queue, chunks, written, recycler, shared>>

-----------------------------------------------------------------------------
(* The two ways to read. *)
Hand(m, data, zeroCopy) ==
  /\ queue' = queue \ {m}
  /\ chunks' = chunks \cup {[msg |-> m, data |-> data, zeroCopy |-> zeroCopy]}
  /\ UNCHANGED <<writing, written, recycler, shared>>

(* Mutant: the small message is handed out in its own buffer, which goes   *)
(* back to the pool at once.                                               *)
SafeReadSmallInPlace(m) ==
  /\ IsSmall(m.size) /\ Hand(m, m.ptr, FALSE) /\ SmallPoolPut(m.ptr)
  /\ UNCHANGED <<mem, poolVars>>

(* safeRead: the small message is copied into another buffer of the pool.  *)
SafeReadSmall(m) ==
  /\ IsSmall(m.size)
  /\ \E b \in Bufs : SmallPoolGet(b) /\ Hand(m, b, FALSE)
                     /\ mem' = [mem EXCEPT ![b] = mem[m.ptr]]
  /\ UNCHANGED poolVars

SafeReadLarge(m) ==
  /\ IsLarge(m.size) /\ Hand(m, m.ptr, FALSE)
  /\ UNCHANGED <<mem, smallPool, poolVars>>

(* A medium message is handed out as it is while its entry is valid, else  *)
(* as a copy of its own.                                                   *)
SafeReadMedium(m) ==
  /\ IsMedium(m.size)
  /\ Hand(m, IF IsValid(m.ptr) THEN m.ptr ELSE Nil, FALSE)
  /\ UNCHANGED <<mem, smallPool, poolVars>>

ZeroCopyRead(m) ==
  /\ Hand(m, m.ptr, TRUE)
  /\ IF IsLarge(m.size) THEN BigDataPoolRelease(m.ptr) ELSE UNCHANGED poolVars
  /\ UNCHANGED <<mem, smallPool>>

(* recycle, for the addresses that are not small *)
recycle(s, n) ==
  \/ IsLarge(n) /\ BigDataPoolRelease(s)
  \/ IsMedium(n) /\ MediumPoolRelease(s)

(* DataChunk.Release, which has an effect once. *)
Release(c) ==
  /\ chunks' = chunks \ {c}
  /\ \/ /\ c.zeroCopy
        /\ BigDataPoolFree(c.msg.ptr, c.msg.size) /\ UNCHANGED smallPool
     \/ /\ ~c.zeroCopy /\ IsSmall(c.msg.size)
        /\ SmallPoolPut(c.data) /\ UNCHANGED poolVars
     \/ /\ ~c.zeroCopy /\ ~IsSmall(c.msg.size)
        /\ recycle(c.msg.ptr, c.msg.size) /\ UNCHANGED smallPool
  /\ UNCHANGED <<mem, writing, queue, written, recycler, shared>>

-----------------------------------------------------------------------------
(* asyncRecycleWorker: MediumPool.cleanup, then BigDataPool.cleanup.  Each  *)
(* goes through its map in any order and stops past MaxCleanCounts.         *)
Cleaned(old) ==
  {d \in SUBSET old : \/ d = old /\ Cardinality(old) <= MaxCleanCounts + 1
                      \/ Cardinality(d) = MaxCleanCounts + 1}

MediumPoolCleanup ==
  /\ recycler = "tick" /\ recycler' = "big"
  /\ \E d \in Cleaned({s \in DOMAIN medium : medium[s] > CleanAge}) :
       medium' = Delete(medium, d)
  /\ UNCHANGED <<mem, smallPool, big, currentSize, writing, queue, chunks,
                 written, shared>>

(* Mutant: the cleanup does not look at the reference counts.              *)
BigDataPoolCleanupAll ==
  /\ recycler = "big" /\ recycler' = "tick"
  /\ \E d \in Cleaned(DOMAIN big) : big' = Delete(big, d)
  /\ UNCHANGED <<mem, smallPool, medium, currentSize, writing, queue, chunks,
                 written, shared>>

BigDataPoolCleanup ==
  /\ recycler = "big" /\ recycler' = "tick"
  /\ \E d \in Cleaned({s \in DOMAIN big : big[s].ref = 0}) :
       big' = Delete(big, d)
  /\ UNCHANGED <<mem, smallPool, medium, currentSize, writing, queue, chunks,
                 written, shared>>

(* The channel stop has been closed and the worker's select picks it. *)
RecyclerStops ==
  /\ recycler = "tick" /\ recycler' = "done"
  /\ UNCHANGED <<mem, smallPool, poolVars, writing, queue, chunks, written, shared>>

(* Time passes for the entries of the medium pool, up to the TTL. *)
Age ==
  /\ \E s \in DOMAIN medium : medium[s] < MediumPoolTTL
  /\ medium' = [s \in DOMAIN medium |->
                  IF medium[s] < MediumPoolTTL THEN medium[s] + 1 ELSE medium[s]]
  /\ UNCHANGED <<mem, smallPool, big, currentSize, writing, queue, chunks,
                 written, recycler, shared>>

-----------------------------------------------------------------------------
Next ==
  \/ \E s \in Slices, n \in Sizes :
       WriteSmall(s, n) \/ WriteLarge(s, n) \/ WriteMedium(s, n)
  \/ \E m \in writing : WriteAccepted(m) \/ WriteRefused(m)
  \/ \E m \in queue : SafeReadSmall(m) \/ SafeReadLarge(m) \/ SafeReadMedium(m)
                      \/ ZeroCopyRead(m)
  \/ \E c \in chunks : Release(c)
  \/ \E b \in Bufs : PoolDrops(b)
  \/ MediumPoolCleanup \/ BigDataPoolCleanup \/ RecyclerStops \/ Age

Spec == Init /\ [][Next]_vars

(***************************************************************************)
(* A buffer of the small pool has one owner: it lies in the pool once, or  *)
(* holds one message on its way, or one chunk in a reader's hands, so that *)
(* no two messages are ever copied into the same memory.                   *)
(* (double_buffer.go:189, double_buffer.go:389, double_buffer.go:397)      *)
(***************************************************************************)
SmallOneOwner ==
  \A b \in Bufs :
    smallPool[b] + Cardinality({m \in writing \cup queue : m.ptr = b})
                 + Cardinality({c \in chunks : c.data = b}) <= 1

(***************************************************************************)
(* A small message reaches its reader as it was when Write was called,     *)
(* whatever its caller does with the slice afterwards, and stays so until  *)
(* the chunk is Released, in both read modes.  (double_buffer.go:188)      *)
(***************************************************************************)
SmallIntact ==
  /\ \A m \in writing \cup queue : IsSmall(m.size) => mem[m.ptr] = m.id
  /\ \A c \in chunks : IsSmall(c.msg.size) => mem[c.data] = c.msg.id

(***************************************************************************)
(* The entry of a large message lasts, with its size and one reference,    *)
(* from Write until the message is read with zero copy or its chunk is     *)
(* Released, however often the cleanup runs, as long as no other message   *)
(* of the same address is alive with it.  (life_cycle.go:155, :173, :189) *)
(***************************************************************************)
EntryKept ==
  \A m \in writing \cup queue \cup {c.msg : c \in {k \in chunks : ~k.zeroCopy}} :
    IsLarge(m.size) /\ m.id \notin shared =>
      m.ptr \in DOMAIN big /\ big[m.ptr] = [size |-> m.size, ref |-> 1]

(***************************************************************************)
(* currentSize never says less than the entries of the pool hold, and so   *)
(* is never negative, although entries are overwritten by a second Put,    *)
(* cleaned up and freed through other messages of their address.           *)
(* (life_cycle.go:172, life_cycle.go:200)                                  *)
(***************************************************************************)
Bytes(S, len) == UNION {{x} \X (1 .. len[x]) : x \in S}

SizeCovers ==
  Cardinality(Bytes(DOMAIN big, [s \in DOMAIN big |-> big[s].size])) <= currentSize

=============================================================================

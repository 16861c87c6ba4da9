--------------------------- MODULE SharedRing_proofs ---------------------------
(***************************************************************************)
(* A SmartBuffer with one writer and one reader is a bounded FIFO, for any *)
(* capacity, number of pushes and width of the cursors.                    *)
(***************************************************************************)
EXTENDS SharedRing, SequenceTheorems, TLAPS

(***************************************************************************)
(* The slot k places after slot p, without a remainder.                    *)
(***************************************************************************)
After(p, k) == IF p + k < Capacity THEN p + k ELSE p + k - Capacity

-----------------------------------------------------------------------------
(* A multiple of n that lies less than n from zero is zero. *)
LEMMA SmallMultiple ==
  ASSUME NEW n \in Nat \ {0}, NEW d \in Int, n * d < n, -n < n * d
  PROVE  d = 0
<1>1. ASSUME d >= 1 PROVE FALSE
  <2>1. n * d = n + n * (d - 1) /\ d - 1 \in Nat /\ n * (d - 1) \in Nat
    BY <1>1
  <2>. QED BY <2>1
<1>2. ASSUME d <= -1 PROVE FALSE
  <2>1. n * d = -n - n * (-1 - d) /\ -1 - d \in Nat /\ n * (-1 - d) \in Nat
    BY <1>2
  <2>. QED BY <2>1
<1>. QED BY <1>1, <1>2

(* A remainder is determined by lying in a slot. *)
LEMMA RemainderIs ==
  ASSUME NEW n \in Nat \ {0}, NEW q \in Int, NEW p \in 0 .. n - 1, NEW a \in Int,
         a = n * q + p
  PROVE  a % n = p
<1> DEFINE d == (a \div n) - q
<1>1. /\ a \div n \in Int /\ a % n \in 0 .. n - 1
      /\ a = n * (a \div n) + (a % n)
  OBVIOUS
<1>2. n * d = p - (a % n) /\ d \in Int
  BY <1>1
<1>3. n * d < n /\ -n < n * d
  BY <1>1, <1>2
<1> HIDE DEF d
<1>4. d = 0
  BY <1>2, <1>3, SmallMultiple
<1>. QED BY <1>1, <1>2, <1>4

(* calcPos goes round the slots. *)
LEMMA PosIs ==
  ASSUME NEW i \in Int
  PROVE  /\ calcPos(i) \in Slots
         /\ \A k \in 0 .. Capacity : calcPos(i + k) = After(calcPos(i), k)
<1>. USE RingAssumption
<1>1. calcPos(i) \in Slots /\ i \div Capacity \in Int
      /\ i = Capacity * (i \div Capacity) + calcPos(i)
  BY DEF calcPos, Slots
<1>2. ASSUME NEW k \in 0 .. Capacity
      PROVE  calcPos(i + k) = After(calcPos(i), k)
  <2> DEFINE p == calcPos(i)  q == i \div Capacity
  <2>0. p \in Slots /\ q \in Int /\ i = Capacity * q + p
    BY <1>1
  <2> HIDE DEF p, q
  <2>1. \A s \in 0 .. Capacity - 1 : \A m \in Int : \A a \in Int :
          a = Capacity * m + s => a % Capacity = s
    BY RemainderIs
  <2>2. CASE p + k < Capacity
    <3> DEFINE s == p + k  a == i + k
    <3>1. s \in 0 .. Capacity - 1 /\ a \in Int /\ a = Capacity * q + s
      BY <2>0, <2>2 DEF Slots
    <3> HIDE DEF s, a
    <3>2. a % Capacity = s
      BY <3>1, <2>0, <2>1
    <3>. QED BY <2>2, <3>2 DEF calcPos, After, p, s, a
  <2>3. CASE ~(p + k < Capacity)
    <3> DEFINE s == p + k - Capacity  a == i + k  m == q + 1
    <3>1. s \in 0 .. Capacity - 1 /\ m \in Int /\ a \in Int /\ a = Capacity * m + s
      BY <2>0, <2>3 DEF Slots
    <3> HIDE DEF s, a, m
    <3>2. a % Capacity = s
      BY <3>1, <2>1
    <3>. QED BY <2>3, <3>2 DEF calcPos, After, p, s, a
  <2>. QED BY <2>2, <2>3
<1>. QED BY <1>1, <1>2

(* Adding whole rounds changes no slot. *)
LEMMA WholeRounds ==
  ASSUME NEW i \in Int, NEW n \in Int, n % Capacity = 0
  PROVE  calcPos(i - n) = calcPos(i)
<1>. USE RingAssumption
<1>1. /\ calcPos(i) \in 0 .. Capacity - 1 /\ i \div Capacity \in Int
      /\ i = Capacity * (i \div Capacity) + calcPos(i)
      /\ n \div Capacity \in Int /\ n = Capacity * (n \div Capacity)
  BY DEF calcPos
<1> DEFINE p == calcPos(i)  q == i \div Capacity  m == n \div Capacity
<1>2. p \in 0 .. Capacity - 1 /\ q \in Int /\ m \in Int
      /\ i = Capacity * q + p /\ n = Capacity * m
  BY <1>1
<1> HIDE DEF p, q, m
<1>3. i - n = Capacity * (q - m) + p /\ q - m \in Int
  BY <1>2
<1>4. (i - n) % Capacity = p
  BY <1>2, <1>3, RemainderIs
<1>. QED BY <1>4 DEF calcPos, p

-----------------------------------------------------------------------------
(***************************************************************************)
(* The inductive invariant, for writer w and reader r.  Slot(r, k) is the  *)
(* slot k places after the reader's cursor.                                *)
(***************************************************************************)
Slot(r, k) == After(calcPos(Front(r)), k)

(* A slot the writer has claimed and not yet counted. *)
Claimed(w) == IF pc[w] \in {"p_store", "p_inc"} THEN 1 ELSE 0

Items == Writers \X (1 .. MaxPushes)

(* The count is right where it has been looked at: the other side can only
   have changed it for the better. *)
CountRight(w, r) ==
  /\ count[Ring] \in 0 .. Capacity
  /\ pc[w] \in {"p_head", "p_cas", "p_store", "p_inc"} => count[Ring] < Capacity
  /\ pc[r] \in {"q_tail", "q_cas", "q_read", "q_clear", "q_dec"} => count[Ring] > 0

(* The cursors are as many slots apart as there are items. *)
CursorsApart(w, r) ==
  /\ pc[w] = "p_cas" => index[w] = head[Ring]
  /\ pc[r] = "q_cas" => index[r] = tail[Ring]
  /\ pc[w] \in {"p_store", "p_inc"} => calcPos(index[w]) = Slot(r, Inside(r))
  /\ pc[r] \in {"q_read", "q_clear"} => calcPos(tail[Ring]) = Slot(r, 1)
  /\ calcPos(head[Ring]) = Slot(r, Inside(r) + Claimed(w))

(* Every item inside is there. *)
Filled(w, r) ==
  /\ \A i \in 1 .. Inside(r) : buf[Ring][Slot(r, i - 1)] \in Items
  /\ pc[w] = "p_inc" => buf[Ring][calcPos(index[w])] = Message(w)
  /\ pc[r] = "q_clear" => item[r] = buf[Ring][calcPos(index[r])]

(* Calls begin with a message of their own. *)
Offered(w) ==
  /\ sent[w] \in 0 .. MaxPushes
  /\ pc[w] # "idle" => sent[w] > 0

(* Where the cursors never reach their largest value, they do not wrap. *)
NeverWraps(w, r) ==
  MaxPushes <= MaxInt32 =>
    /\ head[Ring] = Front(r) + Inside(r) + Claimed(w)
    /\ pc[r] \in {"q_read", "q_clear"} => tail[Ring] = index[r] + 1
    /\ head[Ring] < sent[w]
    /\ pc[w] \in {"p_state", "p_count", "p_head", "p_cas"} => head[Ring] + 1 < sent[w]

(* Everybody works on the one ring. *)
Shape ==
  /\ pc \in [Threads -> {"idle"} \cup PushLabels \cup PopLabels]
  /\ target = [t \in Threads |-> Ring]

TypeInv == TypeOK /\ Shape

RingInv(w, r) ==
  /\ TypeInv
  /\ CountRight(w, r) /\ CursorsApart(w, r) /\ Filled(w, r)
  /\ Offered(w) /\ NeverWraps(w, r)

-----------------------------------------------------------------------------
(* A cursor stays a 32-bit number. *)
LEMMA IncrOK ==
  ASSUME NEW i \in Int32 PROVE Incr(i) \in Int32
BY RingAssumption DEF Int32, Incr

LEMMA RingThere == Ring \in Buffers /\ \A b \in Buffers : b = Ring
BY SharedRingAssumption

LEMMA ThreadsAre ==
  /\ \A w \in Writers : w \in Threads /\ w \notin Readers
  /\ \A r \in Readers : r \in Threads /\ r \notin Writers
BY SharedRingAssumption

LEMMA InitTypes == Init => TypeInv
<1> SUFFICES ASSUME Init PROVE TypeInv
  OBVIOUS
<1>. USE RingAssumption, RingThere, ThreadsAre
<1>1. RingsOK
  BY DEF Init, NewSmartBuffer, RingsOK, EmptySlots
<1>2. LocalsOK
  BY DEF Init, LocalsOK
<1>3. Shape
  BY DEF Init, Shape
<1>4. /\ \A w \in Writers : pc[w] \in {"idle"} \cup PushLabels
      /\ \A r \in Readers : pc[r] \in {"idle"} \cup PopLabels
  BY DEF Init
<1>5. head[Ring] \in Int32 /\ tail[Ring] \in Int32
  BY DEF Init, NewSmartBuffer, Int32
<1>6. popped \in Seq(Messages)
  BY DEF Init
<1>. QED BY <1>1, <1>2, <1>3, <1>4, <1>5, <1>6 DEF TypeInv, TypeOK, RingTypeOK

(* The steps of a writer keep the types. *)
LEMMA WriterTypes ==
  ASSUME TypeInv, NEW w \in Writers, CallPush(w) \/ PushStep(w) \/ ReturnPush(w)
  PROVE  TypeInv'
<1>. USE RingThere, ThreadsAre
<1>0. w \in Threads /\ w \notin Readers /\ target[w] = Ring
  BY DEF TypeInv, Shape
<1>. USE <1>0 DEF TypeInv, TypeOK, RingTypeOK, RingsOK, LocalsOK, Shape,
                  PushLabels, PopLabels, Goto, ringVars, Messages
<1>1. CASE CallPush(w)
  BY <1>1 DEF CallPush
<1>2. CASE ReturnPush(w)
  BY <1>2 DEF ReturnPush
<1>3. CASE PushStep(w)
  <2>. UNCHANGED popped
    BY <1>3 DEF PushStep
  <2>1. CASE PushCheckState(w)
    BY <2>1 DEF PushCheckState
  <2>2. CASE PushCheckCount(w)
    BY <2>2 DEF PushCheckCount
  <2>3. CASE PushMarkFull(w)
    BY <2>3 DEF PushMarkFull
  <2>4. CASE PushLoadHead(w)
    BY <2>4 DEF PushLoadHead
  <2>5. CASE PushClaim(w)
    <3>1. Incr(head[Ring]) \in Int32 /\ Incr(head[Ring]) \in Int
      BY IncrOK, RingAssumption DEF Int32
    <3>2. CASE head' = [head EXCEPT ![Ring] = Incr(@)]
      BY <2>5, <3>1, <3>2 DEF PushClaim
    <3>3. CASE UNCHANGED head
      BY <2>5, <3>3 DEF PushClaim
    <3>. QED BY <2>5, <3>2, <3>3 DEF PushClaim
  <2>6. CASE PushStore(w)
    <3>1. Message(w) \in Writers \X Nat
      BY DEF Message
    <3>. QED BY <2>6, <3>1 DEF PushStore
  <2>7. CASE PushCount(w)
    BY <2>7 DEF PushCount
  <2>. QED BY <1>3, <2>1, <2>2, <2>3, <2>4, <2>5, <2>6, <2>7 DEF PushStep, Push
<1>. QED BY <1>1, <1>2, <1>3

(* The steps of a reader keep the types. *)
LEMMA ReaderTypes ==
  ASSUME TypeInv, NEW r \in Readers, CallPop(r) \/ PopStep(r) \/ ReturnPop(r)
  PROVE  TypeInv'
<1>. USE RingThere, ThreadsAre
<1>0. r \in Threads /\ r \notin Writers /\ target[r] = Ring
  BY DEF TypeInv, Shape
<1>. USE <1>0 DEF TypeInv, TypeOK, RingTypeOK, RingsOK, LocalsOK, Shape,
                  PushLabels, PopLabels, Goto, ringVars, Messages
<1>1. CASE CallPop(r)
  BY <1>1 DEF CallPop
<1>2. CASE ReturnPop(r)
  BY <1>2 DEF ReturnPop
<1>3. CASE PopStep(r)
  <2>0. popped' \in Seq(Messages)
    <3>1. item[r] # Nil => item[r] \in Messages
      OBVIOUS
    <3>2. popped \in Seq(Messages)
      OBVIOUS
    <3>. HIDE DEF Messages, TypeInv
    <3>3. item[r] # Nil => Append(popped, item[r]) \in Seq(Messages)
      BY <3>1, <3>2
    <3>. QED BY <1>3, <3>2, <3>3 DEF PopStep
  <2>1. CASE PopCheckCount(r)
    BY <2>0, <2>1 DEF PopCheckCount
  <2>2. CASE PopLoadTail(r)
    BY <2>0, <2>2 DEF PopLoadTail
  <2>3. CASE PopClaim(r)
    <3>1. Incr(tail[Ring]) \in Int32 /\ Incr(tail[Ring]) \in Int
      BY IncrOK, RingAssumption DEF Int32
    <3>2. CASE tail' = [tail EXCEPT ![Ring] = Incr(@)]
      BY <2>0, <2>3, <3>1, <3>2 DEF PopClaim
    <3>3. CASE UNCHANGED tail
      BY <2>0, <2>3, <3>3 DEF PopClaim
    <3>. QED BY <2>3, <3>2, <3>3 DEF PopClaim
  <2>4. CASE PopRead(r)
    <3>1. calcPos(index[r]) \in Slots
      BY PosIs
    <3>. QED BY <2>0, <2>4, <3>1 DEF PopRead
  <2>5. CASE PopClear(r)
    BY <2>0, <2>5 DEF PopClear
  <2>6. CASE PopCount(r)
    BY <2>0, <2>6 DEF PopCount
  <2>. QED BY <1>3, <2>1, <2>2, <2>3, <2>4, <2>5, <2>6 DEF PopStep, Pop
<1>. QED BY <1>1, <1>2, <1>3

LEMMA TypesKept == TypeInv /\ [Next]_vars => TypeInv'
<1> SUFFICES ASSUME TypeInv, [Next]_vars PROVE TypeInv'
  OBVIOUS
<1>1. CASE UNCHANGED vars
  BY <1>1 DEF vars, ringVars, threadVars, TypeInv, TypeOK, RingTypeOK, RingsOK,
              LocalsOK, Shape
<1>2. CASE Next
  BY <1>2, WriterTypes, ReaderTypes DEF Next
<1>. QED BY <1>1, <1>2

(***************************************************************************)
(* The cursors are 32-bit numbers, and everybody is where Push and Pop     *)
(* have a step, for any number of writers and readers.  (smart_buffer.go:  *)
(* Push, Pop)                                                              *)
(***************************************************************************)
THEOREM TypeOKAlways == Spec => []TypeOK
<1>1. TypeInv => TypeOK
  BY DEF TypeInv
<1>. QED BY <1>1, InitTypes, TypesKept, PTL DEF Spec

-----------------------------------------------------------------------------
(***************************************************************************)
(* One writer, one reader, and cursors that do not skip slots when they    *)
(* wrap around, if they ever do.                                           *)
(***************************************************************************)
NoSkip == (2 * (MaxInt32 + 1)) % Capacity = 0 \/ MaxPushes <= MaxInt32

SoleCallers(w, r) ==
  /\ Writers = {w} /\ Readers = {r}
  /\ NoSkip

(* A cursor that goes on stands one slot further. *)
LEMMA NextPos ==
  ASSUME NEW i \in Int32, (2 * (MaxInt32 + 1)) % Capacity = 0 \/ i < MaxInt32
  PROVE  calcPos(Incr(i)) = After(calcPos(i), 1)
<1>. USE RingAssumption
<1>1. i \in Int /\ i + 1 \in Int
  BY DEF Int32
<1>2. calcPos(i + 1) = After(calcPos(i), 1)
  BY <1>1, PosIs
<1>3. CASE i # MaxInt32
  BY <1>2, <1>3 DEF Incr
<1>4. CASE i = MaxInt32
  <2> DEFINE n == 2 * (MaxInt32 + 1)  a == i + 1
  <2>1. n \in Int /\ a \in Int /\ n % Capacity = 0
    BY <1>1, <1>4
  <2>2. Incr(i) = a - n
    BY <1>4 DEF Incr
  <2> HIDE DEF n, a
  <2>3. calcPos(a - n) = calcPos(a)
    BY <2>1, WholeRounds
  <2>. QED BY <2>2, <2>3, <1>2 DEF a
<1>. QED BY <1>3, <1>4

(* What the invariant says of the types of what a step looks at. *)
LEMMA View ==
  ASSUME NEW w, NEW r, SoleCallers(w, r), RingInv(w, r)
  PROVE  /\ w \in Threads /\ r \in Threads /\ w # r
         /\ w \in Writers /\ r \in Readers
         /\ target[w] = Ring /\ target[r] = Ring /\ Ring \in Buffers
         /\ pc \in [Threads -> {"idle"} \cup PushLabels \cup PopLabels]
         /\ pc[w] \in {"idle"} \cup PushLabels /\ pc[r] \in {"idle"} \cup PopLabels
         /\ head[Ring] \in Int32 /\ tail[Ring] \in Int32
         /\ head[Ring] \in Int /\ tail[Ring] \in Int
         /\ index \in [Threads -> Int] /\ index[w] \in Int /\ index[r] \in Int
         /\ buf[Ring] \in [Slots -> Messages \cup {Nil}]
         /\ count[Ring] \in 0 .. Capacity /\ Front(r) \in Int
         /\ Inside(r) \in 0 .. Capacity
         /\ Capacity \in Nat \ {0} /\ MaxInt32 \in Nat
<1>1. w \in Threads /\ r \in Threads /\ w # r /\ w \in Writers /\ r \in Readers
  BY SharedRingAssumption DEF SoleCallers
<1>2. Ring \in Buffers
  BY RingThere
<1>. USE <1>1, <1>2
<1>3. /\ target[w] = Ring /\ target[r] = Ring
      /\ pc \in [Threads -> {"idle"} \cup PushLabels \cup PopLabels]
  BY DEF RingInv, TypeInv, Shape
<1>4. /\ pc[w] \in {"idle"} \cup PushLabels /\ pc[r] \in {"idle"} \cup PopLabels
      /\ head[Ring] \in Int32 /\ tail[Ring] \in Int32
  BY DEF RingInv, TypeInv, TypeOK
<1>5. /\ index \in [Threads -> Int] /\ buf[Ring] \in [Slots -> Messages \cup {Nil}]
      /\ head[Ring] \in Int /\ tail[Ring] \in Int
  BY DEF RingInv, TypeInv, TypeOK, RingTypeOK, RingsOK, LocalsOK
<1>6. /\ count[Ring] \in 0 .. Capacity
      /\ pc[r] = "q_dec" => count[Ring] > 0
  BY DEF RingInv, CountRight
<1>7. Front(r) \in Int
  BY <1>5 DEF Front
<1>8. Inside(r) \in 0 .. Capacity
  BY <1>6, RingAssumption DEF Inside
<1>. QED BY <1>3, <1>4, <1>5, <1>6, <1>7, <1>8, RingAssumption

LEMMA InitRing ==
  ASSUME NEW w, NEW r, SoleCallers(w, r), Init
  PROVE  RingInv(w, r)
<1>. USE RingAssumption, RingThere
<1>1. w \in Threads /\ r \in Threads /\ w \in Writers
  BY SharedRingAssumption DEF SoleCallers
<1>2. /\ pc[w] = "idle" /\ pc[r] = "idle" /\ count[Ring] = 0 /\ sent[w] = 0
      /\ head[Ring] = -1 /\ tail[Ring] = -1
  BY <1>1 DEF Init, NewSmartBuffer
<1>3. Front(r) = -1 /\ Inside(r) = 0 /\ Claimed(w) = 0
  BY <1>2 DEF Front, Inside, Claimed
<1>4. calcPos(-1) \in Slots
  BY PosIs
<1>5. CountRight(w, r)
  BY <1>2 DEF CountRight
<1>6. CursorsApart(w, r)
  BY <1>2, <1>3, <1>4 DEF CursorsApart, Slot, After, Slots
<1>7. Filled(w, r)
  BY <1>2, <1>3 DEF Filled
<1>8. Offered(w)
  BY <1>2, SharedRingAssumption DEF Offered
<1>9. NeverWraps(w, r)
  BY <1>2, <1>3 DEF NeverWraps
<1>. QED BY <1>5, <1>6, <1>7, <1>8, <1>9, InitTypes DEF RingInv

-----------------------------------------------------------------------------
(* What every step of the writer leaves to the reader. *)
LEMMA WriterLeaves ==
  ASSUME NEW w, NEW r, SoleCallers(w, r), RingInv(w, r),
         CallPush(w) \/ PushStep(w) \/ ReturnPush(w)
  PROVE  /\ pc'[r] = pc[r] /\ index'[r] = index[r] /\ item' = item /\ tail' = tail
         /\ Front(r)' = Front(r) /\ \A k : Slot(r, k)' = Slot(r, k)
         /\ Inside(r)' = Inside(r) + count'[Ring] - count[Ring]
<1>. USE View
<1>1. pc'[r] = pc[r] /\ index'[r] = index[r] /\ item' = item /\ tail' = tail
  <2>1. CASE CallPush(w) \/ ReturnPush(w)
    BY <2>1 DEF CallPush, ReturnPush, Goto, ringVars
  <2>2. CASE PushCheckState(w)
    BY <2>2 DEF PushCheckState, Goto, ringVars
  <2>3. CASE PushCheckCount(w)
    BY <2>3 DEF PushCheckCount, Goto, ringVars
  <2>4. CASE PushMarkFull(w)
    BY <2>4 DEF PushMarkFull, Goto
  <2>5. CASE PushLoadHead(w)
    BY <2>5 DEF PushLoadHead, Goto, ringVars
  <2>6. CASE PushClaim(w)
    BY <2>6 DEF PushClaim, Goto
  <2>7. CASE PushStore(w)
    BY <2>7 DEF PushStore, Goto
  <2>8. CASE PushCount(w)
    BY <2>8 DEF PushCount, Goto
  <2>. QED BY <2>1, <2>2, <2>3, <2>4, <2>5, <2>6, <2>7, <2>8 DEF PushStep, Push
<1>2. Front(r)' = Front(r)
  BY <1>1 DEF Front
<1>3. \A k : Slot(r, k)' = Slot(r, k)
  BY <1>2 DEF Slot
<1>4. count'[Ring] \in Int
  <2>1. TypeInv'
    BY WriterTypes DEF RingInv
  <2>. QED BY <2>1 DEF TypeInv, TypeOK, RingTypeOK, RingsOK
<1>5. Inside(r)' = Inside(r) + count'[Ring] - count[Ring]
  BY <1>1, <1>4 DEF Inside
<1>. QED BY <1>1, <1>2, <1>3, <1>5

(* The slots inside differ from the one after them. *)
LEMMA SlotsDiffer ==
  ASSUME NEW p \in Slots, NEW j \in 0 .. Capacity - 1, NEW k \in 0 .. Capacity - 1, j # k
  PROVE  After(p, j) \in Slots /\ After(p, k) \in Slots /\ After(p, j) # After(p, k)
BY RingAssumption DEF Slots, After

(* The writer's checks, and the ends of its calls, move nothing. *)
LEMMA WriterWaits ==
  ASSUME NEW w, NEW r, SoleCallers(w, r), RingInv(w, r),
         \/ CallPush(w) \/ ReturnPush(w)
         \/ PushStep(w) /\ (\/ PushCheckState(w) \/ PushCheckCount(w)
                            \/ PushMarkFull(w) \/ PushLoadHead(w))
  PROVE  RingInv(w, r)' /\ buf' = buf /\ Inside(r)' = Inside(r)
<1>. USE View, WriterLeaves
<1>0. TypeInv'
  BY WriterTypes DEF RingInv
<1>1. /\ UNCHANGED <<buf, head, tail, count, item>>
      /\ pc[w] \notin {"p_cas", "p_store", "p_inc"}
      /\ pc'[w] \notin {"p_store", "p_inc"}
      /\ pc'[w] = "p_cas" => pc[w] = "p_head" /\ index'[w] = head[Ring]
      /\ pc'[w] = "p_head" => count[Ring] < Capacity
      /\ IF pc[w] = "idle" THEN sent'[w] = sent[w] + 1 /\ sent[w] < MaxPushes
                           ELSE sent' = sent
      /\ pc'[w] \in {"p_state", "p_count", "p_head", "p_cas"} =>
            pc[w] \in {"idle", "p_state", "p_count", "p_head", "p_cas"}
  <2>1. CASE CallPush(w)
    <3>1. sent \in [Writers -> Nat]
      BY DEF RingInv, TypeInv, TypeOK, RingTypeOK, LocalsOK
    <3>. QED BY <2>1, <3>1 DEF CallPush, Goto, ringVars, PushLabels
  <2>2. CASE ReturnPush(w)
    BY <2>2 DEF ReturnPush, Goto, ringVars, PushLabels
  <2>3. CASE PushCheckState(w)
    BY <2>3 DEF PushCheckState, Goto, ringVars, PushLabels
  <2>4. CASE PushCheckCount(w)
    BY <2>4 DEF PushCheckCount, Goto, ringVars, PushLabels
  <2>5. CASE PushMarkFull(w)
    BY <2>5 DEF PushMarkFull, Goto, PushLabels
  <2>6. CASE PushLoadHead(w)
    BY <2>6 DEF PushLoadHead, Goto, ringVars, PushLabels
  <2>. QED BY <2>1, <2>2, <2>3, <2>4, <2>5, <2>6
<1>2. sent[w] \in Nat /\ MaxPushes \in Nat
  BY SharedRingAssumption DEF RingInv, TypeInv, TypeOK, RingTypeOK, LocalsOK
<1>3. /\ Front(r)' = Front(r) /\ \A k : Slot(r, k)' = Slot(r, k)
      /\ Inside(r)' = Inside(r) /\ pc'[r] = pc[r] /\ index'[r] = index[r]
      /\ Claimed(w) = 0 /\ Claimed(w)' = 0
  BY <1>1 DEF Claimed, Inside
<1>4. CountRight(w, r)'
  BY <1>1, <1>3 DEF CountRight, RingInv
<1>5. CursorsApart(w, r)'
  BY <1>1, <1>3 DEF CursorsApart, RingInv
<1>6. Filled(w, r)'
  BY <1>1, <1>3 DEF Filled, RingInv
<1>7. Offered(w)'
  BY <1>1, <1>2 DEF Offered, RingInv
<1>8. NeverWraps(w, r)'
  BY <1>1, <1>2, <1>3 DEF NeverWraps, RingInv
<1>. QED BY <1>0, <1>1, <1>3, <1>4, <1>5, <1>6, <1>7, <1>8 DEF RingInv

(* The writer claims the slot after those that are in use. *)
LEMMA WriterClaims ==
  ASSUME NEW w, NEW r, SoleCallers(w, r), RingInv(w, r), PushStep(w), PushClaim(w)
  PROVE  RingInv(w, r)'
<1>. USE View, WriterLeaves
<1>0. TypeInv'
  BY WriterTypes DEF RingInv
<1>1. pc[w] = "p_cas" /\ index[w] = head[Ring] /\ count[Ring] < Capacity
  BY DEF PushClaim, Goto, RingInv, CursorsApart, CountRight
<1>2. /\ UNCHANGED <<buf, count, sent, item, index>>
      /\ pc'[w] = "p_store" /\ head'[Ring] = Incr(head[Ring])
  <2>1. head \in [Buffers -> Int]
    BY DEF RingInv, TypeInv, TypeOK, RingTypeOK, RingsOK
  <2>. QED BY <1>1, <2>1 DEF PushClaim, Goto, PushStep
<1>3. /\ Front(r)' = Front(r) /\ \A k : Slot(r, k)' = Slot(r, k)
      /\ Inside(r)' = Inside(r) /\ pc'[r] = pc[r] /\ index'[r] = index[r]
      /\ Claimed(w) = 0 /\ Claimed(w)' = 1 /\ Inside(r) < Capacity
  BY <1>1, <1>2 DEF Claimed, Inside, RingInv, CountRight
<1>4. sent[w] \in 0 .. MaxPushes /\ MaxPushes \in Nat
  BY SharedRingAssumption DEF RingInv, Offered
<1>5. MaxPushes <= MaxInt32 => head[Ring] < MaxInt32
  BY <1>1, <1>4 DEF RingInv, NeverWraps
<1>6. calcPos(Incr(head[Ring])) = After(calcPos(head[Ring]), 1)
  BY <1>5, NextPos DEF SoleCallers, NoSkip
<1>7. CountRight(w, r)'
  BY <1>1, <1>2, <1>3 DEF CountRight, RingInv
<1>8. CursorsApart(w, r)'
  <2>1. calcPos(head[Ring]) = Slot(r, Inside(r))
    BY <1>3 DEF RingInv, CursorsApart
  <2>2. calcPos(Front(r)) \in Slots
    BY PosIs
  <2>3. calcPos(head'[Ring]) = Slot(r, Inside(r) + 1)
    BY <1>2, <1>3, <1>6, <2>1, <2>2 DEF Slot, After, Slots
  <2>. QED BY <1>1, <1>2, <1>3, <2>1, <2>3 DEF CursorsApart, RingInv
<1>9. Filled(w, r)'
  BY <1>2, <1>3 DEF Filled, RingInv
<1>10. Offered(w)'
  BY <1>1, <1>2 DEF Offered, RingInv
<1>11. NeverWraps(w, r)'
  BY <1>1, <1>2, <1>3, <1>4, <1>5 DEF NeverWraps, RingInv, Incr
<1>. QED BY <1>0, <1>7, <1>8, <1>9, <1>10, <1>11 DEF RingInv

(* The slot the writer fills is none of those that hold an item. *)
LEMMA WriterFills ==
  ASSUME NEW w, NEW r, SoleCallers(w, r), RingInv(w, r), PushStep(w), PushStore(w)
  PROVE  /\ RingInv(w, r)'
         /\ \A i \in 1 .. Inside(r) : buf'[Ring][Slot(r, i - 1)] = buf[Ring][Slot(r, i - 1)]
<1>. USE View, WriterLeaves
<1>0. TypeInv'
  BY WriterTypes DEF RingInv
<1>1. pc[w] = "p_store" /\ count[Ring] < Capacity
  BY DEF PushStore, Goto, RingInv, CountRight
<1>2. /\ UNCHANGED <<head, count, sent, item, index>> /\ pc'[w] = "p_inc"
      /\ buf'[Ring] = [buf[Ring] EXCEPT ![calcPos(index[w])] = Message(w)]
  <2>1. buf \in [Buffers -> [Slots -> Messages \cup {Nil}]]
    BY DEF RingInv, TypeInv, TypeOK, RingTypeOK, RingsOK
  <2>. QED BY <2>1 DEF PushStore, Goto
<1>3. /\ Front(r)' = Front(r) /\ \A k : Slot(r, k)' = Slot(r, k)
      /\ Inside(r)' = Inside(r) /\ pc'[r] = pc[r] /\ index'[r] = index[r]
      /\ Claimed(w) = 1 /\ Claimed(w)' = 1 /\ Inside(r) < Capacity
  BY <1>1, <1>2 DEF Claimed, Inside, RingInv, CountRight
<1>4. calcPos(index[w]) = Slot(r, Inside(r)) /\ calcPos(index[w]) \in Slots
  BY <1>1, PosIs DEF RingInv, CursorsApart
<1>5. \A k \in 0 .. Inside(r) - 1 :
        Slot(r, k) # calcPos(index[w]) /\ buf'[Ring][Slot(r, k)] = buf[Ring][Slot(r, k)]
  <2> SUFFICES ASSUME NEW k \in 0 .. Inside(r) - 1
               PROVE  /\ Slot(r, k) # calcPos(index[w])
                      /\ buf'[Ring][Slot(r, k)] = buf[Ring][Slot(r, k)]
    OBVIOUS
  <2>1. calcPos(Front(r)) \in Slots
    BY PosIs
  <2>2. Slot(r, k) \in Slots /\ Slot(r, k) # Slot(r, Inside(r))
    BY <1>3, <2>1, SlotsDiffer DEF Slot
  <2>. QED BY <1>2, <1>4, <2>2
<1>6. \A i \in 1 .. Inside(r) : buf'[Ring][Slot(r, i - 1)] = buf[Ring][Slot(r, i - 1)]
  <2>1. \A i \in 1 .. Inside(r) : i - 1 \in 0 .. Inside(r) - 1
    OBVIOUS
  <2>. QED BY <1>5, <2>1
<1>7. CountRight(w, r)'
  BY <1>1, <1>2, <1>3 DEF CountRight, RingInv
<1>8. CursorsApart(w, r)'
  BY <1>1, <1>2, <1>3, <1>4 DEF CursorsApart, RingInv
<1>9. Filled(w, r)'
  <2>1. buf'[Ring][calcPos(index[w])] = Message(w)' /\ calcPos(index'[w]) = calcPos(index[w])
    BY <1>2, <1>4 DEF Message
  <2>2. ASSUME pc[r] = "q_clear" PROVE item'[r] = buf'[Ring][calcPos(index'[r])]
    <3>1. Front(r) = index[r] /\ Inside(r) > 0
      BY <2>2, <1>3 DEF Front, Inside, RingInv, CountRight
    <3>2. calcPos(index[r]) \in Slots
      BY PosIs
    <3>3. Slot(r, 0) = calcPos(index[r])
      BY <3>1, <3>2 DEF Slot, After, Slots
    <3>4. buf'[Ring][calcPos(index[r])] = buf[Ring][calcPos(index[r])]
      BY <3>1, <3>3, <1>5
    <3>. QED BY <2>2, <3>4, <1>2 DEF RingInv, Filled
  <2>3. \A i \in 1 .. Inside(r) : buf[Ring][Slot(r, i - 1)] \in Items
    BY DEF RingInv, Filled
  <2>. QED BY <1>3, <1>6, <2>1, <2>2, <2>3 DEF Filled
<1>10. Offered(w)'
  BY <1>1, <1>2 DEF Offered, RingInv
<1>11. NeverWraps(w, r)'
  BY <1>1, <1>2, <1>3 DEF NeverWraps, RingInv
<1>. QED BY <1>0, <1>6, <1>7, <1>8, <1>9, <1>10, <1>11 DEF RingInv

(* The writer counts its item. *)
LEMMA WriterCounts ==
  ASSUME NEW w, NEW r, SoleCallers(w, r), RingInv(w, r), PushStep(w), PushCount(w)
  PROVE  /\ RingInv(w, r)'
         /\ buf' = buf /\ Inside(r)' = Inside(r) + 1 /\ Inside(r) < Capacity
         /\ buf[Ring][Slot(r, Inside(r))] = Message(w) /\ Message(w) \in Items
<1>. USE View, WriterLeaves
<1>0. TypeInv'
  BY WriterTypes DEF RingInv
<1>1. pc[w] = "p_inc" /\ count[Ring] < Capacity
  BY DEF PushCount, Goto, RingInv, CountRight
<1>2. /\ UNCHANGED <<buf, head, sent, item, index>> /\ pc'[w] = "p_ok"
      /\ count'[Ring] = count[Ring] + 1
  <2>1. count \in [Buffers -> Int]
    BY DEF RingInv, TypeInv, TypeOK, RingTypeOK, RingsOK
  <2>. QED BY <2>1 DEF PushCount, Goto
<1>3. /\ Front(r)' = Front(r) /\ \A k : Slot(r, k)' = Slot(r, k)
      /\ Inside(r)' = Inside(r) + 1 /\ pc'[r] = pc[r] /\ index'[r] = index[r]
      /\ Claimed(w) = 1 /\ Claimed(w)' = 0 /\ Inside(r) < Capacity
  BY <1>1, <1>2 DEF Claimed, Inside, RingInv, CountRight
<1>4. sent[w] \in 1 .. MaxPushes /\ MaxPushes \in Nat
  BY <1>1, SharedRingAssumption DEF RingInv, Offered
<1>5. /\ buf[Ring][Slot(r, Inside(r))] = Message(w) /\ Message(w) \in Items
  <2>1. /\ buf[Ring][calcPos(index[w])] = Message(w)
        /\ calcPos(index[w]) = Slot(r, Inside(r))
    BY <1>1 DEF RingInv, Filled, CursorsApart
  <2>. QED BY <1>4, <2>1 DEF Message, Items
<1>6. CountRight(w, r)'
  BY <1>1, <1>2, <1>3 DEF CountRight, RingInv
<1>7. CursorsApart(w, r)'
  <2>1. calcPos(head[Ring]) = Slot(r, Inside(r) + 1)
    BY <1>3 DEF RingInv, CursorsApart
  <2>. QED BY <1>1, <1>2, <1>3, <2>1 DEF CursorsApart, RingInv
<1>8. Filled(w, r)'
  <2>1. \A i \in 1 .. Inside(r) : buf[Ring][Slot(r, i - 1)] \in Items
    BY DEF RingInv, Filled
  <2>2. \A i \in 1 .. Inside(r) + 1 :
          i \in 1 .. Inside(r) \/ i - 1 = Inside(r)
    OBVIOUS
  <2>3. \A i \in 1 .. Inside(r) + 1 : buf[Ring][Slot(r, i - 1)] \in Items
    BY <1>5, <2>1, <2>2
  <2>4. pc[r] = "q_clear" => item[r] = buf[Ring][calcPos(index[r])]
    BY DEF RingInv, Filled
  <2>. QED BY <1>2, <1>3, <2>3, <2>4 DEF Filled
<1>9. Offered(w)'
  BY <1>1, <1>2 DEF Offered, RingInv
<1>10. NeverWraps(w, r)'
  BY <1>1, <1>2, <1>3, <1>4 DEF NeverWraps, RingInv
<1>. QED BY <1>0, <1>2, <1>3, <1>5, <1>6, <1>7, <1>8, <1>9, <1>10 DEF RingInv

-----------------------------------------------------------------------------
(* What every step of the reader leaves to the writer. *)
LEMMA ReaderLeaves ==
  ASSUME NEW w, NEW r, SoleCallers(w, r), RingInv(w, r),
         CallPop(r) \/ PopStep(r) \/ ReturnPop(r)
  PROVE  /\ pc'[w] = pc[w] /\ index'[w] = index[w] /\ sent' = sent /\ head' = head
         /\ Claimed(w)' = Claimed(w) /\ Message(w)' = Message(w)
<1>. USE View
<1>1. pc'[w] = pc[w] /\ index'[w] = index[w] /\ sent' = sent /\ head' = head
  <2>1. CASE CallPop(r) \/ ReturnPop(r)
    BY <2>1 DEF CallPop, ReturnPop, Goto, ringVars
  <2>2. CASE PopCheckCount(r)
    BY <2>2 DEF PopCheckCount, Goto, ringVars
  <2>3. CASE PopLoadTail(r)
    BY <2>3 DEF PopLoadTail, Goto, ringVars
  <2>4. CASE PopClaim(r)
    BY <2>4 DEF PopClaim, Goto
  <2>5. CASE PopRead(r)
    BY <2>5 DEF PopRead, Goto, ringVars
  <2>6. CASE PopClear(r)
    BY <2>6 DEF PopClear, Goto
  <2>7. CASE PopCount(r)
    BY <2>7 DEF PopCount, Goto
  <2>. QED BY <2>1, <2>2, <2>3, <2>4, <2>5, <2>6, <2>7 DEF PopStep, Pop
<1>. QED BY <1>1 DEF Claimed, Message

(* The reader's looks, and the ends of its calls, move nothing. *)
LEMMA ReaderWaits ==
  ASSUME NEW w, NEW r, SoleCallers(w, r), RingInv(w, r),
         \/ CallPop(r) \/ ReturnPop(r)
         \/ PopStep(r) /\ (PopCheckCount(r) \/ PopLoadTail(r) \/ PopRead(r))
  PROVE  /\ RingInv(w, r)'
         /\ buf' = buf /\ popped' = popped /\ Front(r)' = Front(r) /\ Inside(r)' = Inside(r)
<1>. USE View, ReaderLeaves
<1>0. TypeInv'
  BY ReaderTypes DEF RingInv
<1>1. /\ UNCHANGED <<buf, head, tail, count, popped>>
      /\ pc[r] \notin {"q_cas", "q_clear", "q_dec"} /\ pc'[r] \notin {"q_read", "q_dec"}
      /\ pc'[r] = "q_cas" => pc[r] = "q_tail" /\ index'[r] = tail[Ring]
      /\ pc'[r] = "q_tail" => count[Ring] > 0
      /\ pc'[r] = "q_clear" <=> pc[r] = "q_read"
      /\ pc[r] = "q_read" => index' = index /\ item'[r] = buf[Ring][calcPos(index[r])]
  <2>0. /\ r \in Threads /\ target[r] = Ring /\ count[Ring] \in 0 .. Capacity
        /\ pc \in [Threads -> {"idle"} \cup PushLabels \cup PopLabels]
        /\ index \in [Threads -> Int] /\ Capacity \in Nat
    OBVIOUS
  <2>1. CASE CallPop(r) \/ ReturnPop(r)
    BY <2>1 DEF CallPop, ReturnPop, Goto, ringVars, PopLabels
  <2>2. CASE PopStep(r) /\ PopCheckCount(r)
    <3>1. popped' = popped
      BY <2>2 DEF PopStep, PopCheckCount, Goto
    <3>. HIDE View, ReaderLeaves
    <3>. QED BY <2>0, <2>2, <3>1 DEF PopCheckCount, Goto, ringVars, PopLabels
  <2>3. CASE PopStep(r) /\ PopLoadTail(r)
    <3>1. popped' = popped
      BY <2>3 DEF PopStep, PopLoadTail, Goto
    <3>. HIDE View, ReaderLeaves
    <3>. QED BY <2>0, <2>3, <3>1 DEF PopLoadTail, Goto, ringVars, PopLabels
  <2>4. CASE PopStep(r) /\ PopRead(r)
    <3>1. item \in [Threads -> Messages \cup {Nil}]
      BY DEF RingInv, TypeInv, TypeOK, RingTypeOK, LocalsOK
    <3>2. popped' = popped
      BY <2>4 DEF PopStep, PopRead, Goto
    <3>. HIDE View, ReaderLeaves
    <3>. QED BY <2>0, <2>4, <3>1, <3>2 DEF PopRead, Goto, ringVars, PopLabels
  <2>. QED BY <2>1, <2>2, <2>3, <2>4
<1>2. Front(r)' = Front(r) /\ Inside(r)' = Inside(r)
  BY <1>1 DEF Front, Inside
<1>3. \A k : Slot(r, k)' = Slot(r, k)
  BY <1>2 DEF Slot
<1>4. CountRight(w, r)'
  BY <1>1 DEF CountRight, RingInv
<1>5. CursorsApart(w, r)'
  BY <1>1, <1>2, <1>3 DEF CursorsApart, RingInv
<1>6. Filled(w, r)'
  BY <1>1, <1>2, <1>3 DEF Filled, RingInv
<1>7. Offered(w)'
  BY DEF Offered, RingInv
<1>8. NeverWraps(w, r)'
  BY <1>1, <1>2 DEF NeverWraps, RingInv
<1>. QED BY <1>0, <1>1, <1>2, <1>4, <1>5, <1>6, <1>7, <1>8 DEF RingInv

(* The reader claims the first slot. *)
LEMMA ReaderClaims ==
  ASSUME NEW w, NEW r, SoleCallers(w, r), RingInv(w, r), PopStep(r), PopClaim(r)
  PROVE  /\ RingInv(w, r)'
         /\ buf' = buf /\ popped' = popped /\ Front(r)' = Front(r) /\ Inside(r)' = Inside(r)
<1>. USE View, ReaderLeaves
<1>0. TypeInv'
  BY ReaderTypes DEF RingInv
<1>1. pc[r] = "q_cas" /\ index[r] = tail[Ring] /\ count[Ring] > 0
  BY DEF PopClaim, Goto, RingInv, CursorsApart, CountRight
<1>2. /\ UNCHANGED <<buf, head, count, item, index, popped>>
      /\ pc'[r] = "q_read" /\ tail'[Ring] = Incr(tail[Ring])
  <2>1. tail \in [Buffers -> Int]
    BY DEF RingInv, TypeInv, TypeOK, RingTypeOK, RingsOK
  <2>. QED BY <1>1, <2>1 DEF PopClaim, Goto, PopStep
<1>3. /\ Front(r) = tail[Ring] /\ Front(r)' = Front(r) /\ Inside(r)' = Inside(r)
      /\ Inside(r) > 0
  BY <1>1, <1>2 DEF Front, Inside
<1>4. \A k : Slot(r, k)' = Slot(r, k)
  BY <1>3 DEF Slot
<1>5. sent[w] \in 0 .. MaxPushes /\ MaxPushes \in Nat /\ Claimed(w) \in {0, 1}
  BY SharedRingAssumption DEF RingInv, Offered, Claimed
<1>6. MaxPushes <= MaxInt32 => tail[Ring] < MaxInt32
  BY <1>1, <1>3, <1>5 DEF RingInv, NeverWraps
<1>7. calcPos(Incr(tail[Ring])) = After(calcPos(tail[Ring]), 1)
  BY <1>6, NextPos DEF SoleCallers, NoSkip
<1>8. CountRight(w, r)'
  BY <1>1, <1>2 DEF CountRight, RingInv
<1>9. CursorsApart(w, r)'
  <2>1. calcPos(tail'[Ring]) = Slot(r, 1)
    BY <1>2, <1>3, <1>7 DEF Slot
  <2>. QED BY <1>1, <1>2, <1>3, <1>4, <2>1 DEF CursorsApart, RingInv
<1>10. Filled(w, r)'
  BY <1>2, <1>3, <1>4 DEF Filled, RingInv
<1>11. Offered(w)'
  BY DEF Offered, RingInv
<1>12. NeverWraps(w, r)'
  BY <1>1, <1>2, <1>3, <1>5, <1>6 DEF NeverWraps, RingInv, Incr
<1>. QED BY <1>0, <1>2, <1>3, <1>8, <1>9, <1>10, <1>11, <1>12 DEF RingInv

(* The reader takes the first item out: the others move up by one. *)
LEMMA ReaderTakes ==
  ASSUME NEW w, NEW r, SoleCallers(w, r), RingInv(w, r), PopStep(r), PopClear(r)
  PROVE  /\ RingInv(w, r)'
         /\ Inside(r) > 0 /\ Inside(r)' = Inside(r) - 1
         /\ popped' = Append(popped, buf[Ring][Slot(r, 0)])
         /\ \A i \in 1 .. Inside(r) - 1 :
               buf'[Ring][Slot(r, i - 1)'] = buf[Ring][Slot(r, i)]
<1>. USE View, ReaderLeaves
<1>0. TypeInv'
  BY ReaderTypes DEF RingInv
<1>1. pc[r] = "q_clear" /\ count[Ring] > 0
  BY DEF PopClear, Goto, RingInv, CountRight
<1>2. /\ UNCHANGED <<head, tail, count, item, index>> /\ pc'[r] = "q_dec"
      /\ buf'[Ring] = [buf[Ring] EXCEPT ![calcPos(index[r])] = Nil]
  <2>1. buf \in [Buffers -> [Slots -> Messages \cup {Nil}]]
    BY DEF RingInv, TypeInv, TypeOK, RingTypeOK, RingsOK
  <2>. QED BY <2>1 DEF PopClear, Goto
<1>3. /\ Front(r) = index[r] /\ Front(r)' = tail[Ring]
      /\ Inside(r) > 0 /\ Inside(r) = count[Ring] /\ Inside(r)' = Inside(r) - 1
  BY <1>1, <1>2 DEF Front, Inside
<1>4. calcPos(Front(r)) \in Slots /\ Slot(r, 0) = calcPos(index[r]) /\ Slot(r, 0) \in Slots
  <2>1. calcPos(index[r]) \in Slots
    BY PosIs
  <2>. QED BY <1>3, <2>1 DEF Slot, After, Slots
<1>5. \A k \in 0 .. Capacity - 1 : Slot(r, k)' = Slot(r, k + 1)
  <2>1. calcPos(tail[Ring]) = Slot(r, 1)
    BY <1>1 DEF RingInv, CursorsApart
  <2>2. ASSUME NEW k \in 0 .. Capacity - 1 PROVE Slot(r, k)' = Slot(r, k + 1)
    <3>1. Slot(r, k)' = After(calcPos(tail[Ring]), k)
      BY <1>2, <1>3 DEF Slot
    <3> DEFINE p == calcPos(Front(r))
    <3>2. Slot(r, k)' = After(After(p, 1), k) /\ Slot(r, k + 1) = After(p, k + 1)
      BY <3>1, <2>1 DEF Slot
    <3>3. p \in Slots
      BY <1>4
    <3> HIDE DEF p
    <3>4. After(After(p, 1), k) = After(p, k + 1)
      BY <3>3, RingAssumption DEF After, Slots
    <3>. QED BY <3>2, <3>4
  <2>. QED BY <2>2
<1>6. \A k \in 1 .. Capacity - 1 :
        Slot(r, k) # Slot(r, 0) /\ buf'[Ring][Slot(r, k)] = buf[Ring][Slot(r, k)]
  <2> SUFFICES ASSUME NEW k \in 1 .. Capacity - 1
               PROVE  /\ Slot(r, k) # Slot(r, 0)
                      /\ buf'[Ring][Slot(r, k)] = buf[Ring][Slot(r, k)]
    OBVIOUS
  <2>1. Slot(r, k) \in Slots /\ Slot(r, k) # Slot(r, 0)
    BY <1>4, SlotsDiffer DEF Slot
  <2>. QED BY <1>2, <1>4, <2>1
<1>7. \A i \in 1 .. Inside(r) - 1 : buf'[Ring][Slot(r, i - 1)'] = buf[Ring][Slot(r, i)]
  <2> SUFFICES ASSUME NEW i \in 1 .. Inside(r) - 1
               PROVE  buf'[Ring][Slot(r, i - 1)'] = buf[Ring][Slot(r, i)]
    OBVIOUS
  <2>1. i - 1 \in 0 .. Capacity - 1 /\ i \in 1 .. Capacity - 1 /\ (i - 1) + 1 = i
    BY <1>3
  <2>2. Slot(r, i - 1)' = Slot(r, i)
    BY <2>1, <1>5
  <2>. QED BY <2>1, <2>2, <1>6
<1>8. /\ \A i \in 1 .. Inside(r) : buf[Ring][Slot(r, i - 1)] \in Items
      /\ pc[w] = "p_inc" => buf[Ring][calcPos(index[w])] = Message(w)
      /\ item[r] = buf[Ring][Slot(r, 0)]
  BY <1>1, <1>4 DEF RingInv, Filled
<1>9. popped' = Append(popped, buf[Ring][Slot(r, 0)])
  <2>1. 1 \in 1 .. Inside(r) /\ 1 - 1 = 0
    BY <1>3
  <2>2. buf[Ring][Slot(r, 0)] \in Items
    BY <1>8, <2>1
  <2>3. buf[Ring][Slot(r, 0)] # Nil
    BY <2>2, RingAssumption DEF Items
  <2>. QED BY <1>1, <1>8, <2>3 DEF PopStep
<1>10. CountRight(w, r)'
  BY <1>1, <1>2 DEF CountRight, RingInv
<1>11. pc[w] \in {"p_store", "p_inc"} =>
         calcPos(index[w]) = Slot(r, Inside(r)) /\ Inside(r) \in 1 .. Capacity - 1
  BY <1>3 DEF RingInv, CursorsApart, CountRight
<1>12. \A n \in 1 .. Capacity : After(calcPos(Front(r)'), n - 1) = Slot(r, n)
  <2> SUFFICES ASSUME NEW n \in 1 .. Capacity
               PROVE  After(calcPos(Front(r)'), n - 1) = Slot(r, n)
    OBVIOUS
  <2>1. n - 1 \in 0 .. Capacity - 1 /\ (n - 1) + 1 = n
    OBVIOUS
  <2>. QED BY <2>1, <1>5 DEF Slot
<1>13. CursorsApart(w, r)'
  <2>0. /\ pc'[w] = pc[w] /\ index'[w] = index[w] /\ head' = head
        /\ Claimed(w)' = Claimed(w) /\ Claimed(w) \in {0, 1}
        /\ pc[w] = "p_cas" => index[w] = head[Ring]
    BY DEF Claimed, RingInv, CursorsApart
  <2>1. pc[w] \in {"p_store", "p_inc"} => calcPos(index[w]) = Slot(r, Inside(r))'
    BY <1>3, <1>11, <1>12 DEF Slot
  <2>2. calcPos(head[Ring]) = Slot(r, Inside(r) + Claimed(w))'
    <3>1. Inside(r) + Claimed(w) \in 1 .. Capacity
      BY <1>3, <1>11 DEF Claimed
    <3>2. calcPos(head[Ring]) = Slot(r, Inside(r) + Claimed(w))
      BY DEF RingInv, CursorsApart
    <3> DEFINE n == Inside(r) + Claimed(w)
    <3>3. Inside(r)' + Claimed(w)' = n - 1 /\ n \in 1 .. Capacity
      BY <1>3, <3>1, <2>0
    <3>4. Slot(r, Inside(r) + Claimed(w))' = After(calcPos(Front(r)'), n - 1)
      BY <3>3 DEF Slot
    <3>5. calcPos(head[Ring]) = Slot(r, n)
      BY <3>2
    <3> HIDE DEF n
    <3>. QED BY <1>12, <3>3, <3>4, <3>5
  <2>. HIDE View, ReaderLeaves
  <2>. QED BY <1>1, <1>2, <2>0, <2>1, <2>2 DEF CursorsApart
<1>14. Filled(w, r)'
  <2>1. ASSUME NEW i \in 1 .. Inside(r) - 1
        PROVE  buf'[Ring][Slot(r, i - 1)'] \in Items
    <3>1. i + 1 \in 1 .. Inside(r) /\ (i + 1) - 1 = i
      BY <1>3
    <3>2. buf[Ring][Slot(r, i)] \in Items
      BY <1>8, <3>1
    <3>. QED BY <1>7, <3>2
  <2>2. ASSUME pc[w] = "p_inc" PROVE buf'[Ring][calcPos(index[w])] = Message(w)
    <3>1. calcPos(index[w]) = Slot(r, Inside(r)) /\ Inside(r) \in 1 .. Capacity - 1
      BY <2>2, <1>11
    <3>. QED BY <2>2, <3>1, <1>6, <1>8
  <2>3. \A i \in 1 .. Inside(r) - 1 : buf'[Ring][Slot(r, i - 1)'] \in Items
    BY <2>1
  <2>. QED BY <1>2, <1>3, <2>2, <2>3 DEF Filled
<1>15. Offered(w)'
  BY DEF Offered, RingInv
<1>16. NeverWraps(w, r)'
  BY <1>1, <1>2, <1>3 DEF NeverWraps, RingInv, Claimed
<1>. QED BY <1>0, <1>3, <1>7, <1>9, <1>10, <1>13, <1>14, <1>15, <1>16 DEF RingInv

(* The reader takes its item off the count. *)
LEMMA ReaderCounts ==
  ASSUME NEW w, NEW r, SoleCallers(w, r), RingInv(w, r), PopStep(r), PopCount(r)
  PROVE  /\ RingInv(w, r)'
         /\ buf' = buf /\ popped' = popped /\ Front(r)' = Front(r) /\ Inside(r)' = Inside(r)
<1>. USE View, ReaderLeaves
<1>0. TypeInv'
  BY ReaderTypes DEF RingInv
<1>1. pc[r] = "q_dec" /\ count[Ring] > 0
  BY DEF PopCount, Goto, RingInv, CountRight
<1>2. /\ UNCHANGED <<buf, head, tail, item, index, popped>> /\ pc'[r] = "q_done"
      /\ count'[Ring] = count[Ring] - 1
  <2>1. count \in [Buffers -> Int]
    BY DEF RingInv, TypeInv, TypeOK, RingTypeOK, RingsOK
  <2>. QED BY <1>1, <2>1 DEF PopCount, PopStep, Goto
<1>3. Front(r)' = Front(r) /\ Inside(r)' = Inside(r)
  BY <1>1, <1>2 DEF Front, Inside
<1>4. \A k : Slot(r, k)' = Slot(r, k)
  BY <1>3 DEF Slot
<1>5. CountRight(w, r)'
  BY <1>1, <1>2 DEF CountRight, RingInv
<1>6. CursorsApart(w, r)'
  BY <1>1, <1>2, <1>3, <1>4 DEF CursorsApart, RingInv
<1>7. Filled(w, r)'
  BY <1>1, <1>2, <1>3, <1>4 DEF Filled, RingInv
<1>8. Offered(w)'
  BY DEF Offered, RingInv
<1>9. NeverWraps(w, r)'
  BY <1>1, <1>2, <1>3 DEF NeverWraps, RingInv
<1>. QED BY <1>0, <1>2, <1>3, <1>5, <1>6, <1>7, <1>8, <1>9 DEF RingInv

-----------------------------------------------------------------------------
LEMMA RingKept ==
  ASSUME NEW w, NEW r, SoleCallers(w, r), RingInv(w, r), [Next]_vars
  PROVE  RingInv(w, r)'
<1>1. CASE UNCHANGED vars
  BY <1>1 DEF vars, ringVars, threadVars, RingInv, TypeInv, TypeOK, RingTypeOK,
              RingsOK, LocalsOK, Shape, CountRight, CursorsApart, Filled, Offered,
              NeverWraps, Slot, Front, Inside, Claimed, Message
<1>2. CASE CallPush(w) \/ ReturnPush(w)
  BY <1>2, WriterWaits
<1>3. CASE PushStep(w)
  BY <1>3, WriterWaits, WriterClaims, WriterFills, WriterCounts DEF PushStep, Push
<1>4. CASE CallPop(r) \/ ReturnPop(r)
  BY <1>4, ReaderWaits
<1>5. CASE PopStep(r)
  BY <1>5, ReaderWaits, ReaderClaims, ReaderTakes, ReaderCounts DEF PopStep, Pop
<1>. QED BY <1>1, <1>2, <1>3, <1>4, <1>5 DEF Next, SoleCallers

(* What the ring holds, by the slots from the reader's cursor on. *)
Held(r) == [i \in 1 .. Inside(r) |-> buf[Ring][Slot(r, i - 1)]]

LEMMA SameItems ==
  ASSUME NEW f \in Int, NEW n \in 0 .. Capacity, NEW b
  PROVE  [i \in 1 .. n |-> b[calcPos(f + i - 1)]]
           = [i \in 1 .. n |-> b[After(calcPos(f), i - 1)]]
<1>1. ASSUME NEW i \in 1 .. n PROVE calcPos(f + i - 1) = After(calcPos(f), i - 1)
  <2> DEFINE k == i - 1
  <2>1. k \in 0 .. Capacity /\ f + i - 1 = f + k
    BY RingAssumption
  <2> HIDE DEF k
  <2>2. calcPos(f + k) = After(calcPos(f), k)
    BY <2>1, PosIs
  <2>. QED BY <2>1, <2>2 DEF k
<1>. QED BY <1>1

LEMMA QueueIsHeld ==
  ASSUME NEW w, NEW r, SoleCallers(w, r), RingInv(w, r), RingInv(w, r)'
  PROVE  RingQueue = Held(r) /\ RingQueue' = Held(r)'
<1>1. TheReader = r
  BY DEF SoleCallers, TheReader
<1>2. Front(r) \in Int /\ Inside(r) \in 0 .. Capacity
  BY View
<1>3. Front(r)' \in Int /\ Inside(r)' \in 0 .. Capacity
  <2>1. r \in Threads /\ Ring \in Buffers
    BY SharedRingAssumption, RingThere DEF SoleCallers
  <2>2. index'[r] \in Int /\ tail'[Ring] \in Int
    BY <2>1 DEF RingInv, TypeInv, TypeOK, RingTypeOK, RingsOK, LocalsOK
  <2>3. count'[Ring] \in 0 .. Capacity /\ (pc'[r] = "q_dec" => count'[Ring] > 0)
    BY DEF RingInv, CountRight
  <2>. QED BY <2>2, <2>3, RingAssumption DEF Front, Inside
<1>4. RingQueue = [i \in 1 .. Inside(r) |-> buf[Ring][calcPos(Front(r) + i - 1)]]
  BY <1>1 DEF RingQueue
<1>5. RingQueue' = [i \in 1 .. Inside(r)' |-> buf'[Ring][calcPos(Front(r)' + i - 1)]]
  BY <1>1 DEF RingQueue
<1>6. RingQueue = Held(r)
  <2> DEFINE f == Front(r)  n == Inside(r)  b == buf[Ring]
  <2>1. f \in Int /\ n \in 0 .. Capacity
    BY <1>2
  <2>2. RingQueue = [i \in 1 .. n |-> b[calcPos(f + i - 1)]]
    BY <1>4
  <2>3. Held(r) = [i \in 1 .. n |-> b[After(calcPos(f), i - 1)]]
    BY DEF Held, Slot
  <2> HIDE DEF f, n, b
  <2>4. [i \in 1 .. n |-> b[calcPos(f + i - 1)]]
          = [i \in 1 .. n |-> b[After(calcPos(f), i - 1)]]
    BY <2>1, SameItems
  <2>. QED BY <2>2, <2>3, <2>4
<1>7. RingQueue' = Held(r)'
  <2> DEFINE f == Front(r)'  n == Inside(r)'  b == buf'[Ring]
  <2>1. f \in Int /\ n \in 0 .. Capacity
    BY <1>3
  <2>2. RingQueue' = [i \in 1 .. n |-> b[calcPos(f + i - 1)]]
    BY <1>5
  <2>3. Held(r)' = [i \in 1 .. n |-> b[After(calcPos(f), i - 1)]]
    BY DEF Held, Slot
  <2> HIDE DEF f, n, b
  <2>4. [i \in 1 .. n |-> b[calcPos(f + i - 1)]]
          = [i \in 1 .. n |-> b[After(calcPos(f), i - 1)]]
    BY <2>1, SameItems
  <2>. QED BY <2>2, <2>3, <2>4
<1>. QED BY <1>6, <1>7

(* Counting an item puts it at the end of the queue, clearing a slot takes
   the first item out of it, and no other step changes the queue. *)
LEMMA FifoStep ==
  ASSUME NEW w, NEW r, SoleCallers(w, r), RingInv(w, r), [Next]_vars
  PROVE  Fifo!FifoNext \/ UNCHANGED <<RingQueue, popped>>
<1>0. RingInv(w, r)' /\ RingQueue = Held(r) /\ RingQueue' = Held(r)'
  BY RingKept, QueueIsHeld
<1>. USE View
<1>1. ASSUME buf' = buf, Front(r)' = Front(r), Inside(r)' = Inside(r), popped' = popped
      PROVE  UNCHANGED <<RingQueue, popped>>
  BY <1>0, <1>1 DEF Held, Slot
<1>2. CASE UNCHANGED vars
  BY <1>1, <1>2 DEF vars, ringVars, threadVars, Front, Inside
<1>3. CASE CallPush(w) \/ ReturnPush(w)
  BY <1>1, <1>3, WriterWaits, WriterLeaves DEF CallPush, ReturnPush
<1>4. CASE PushStep(w)
  <2>0. popped' = popped /\ Front(r)' = Front(r) /\ \A k : Slot(r, k)' = Slot(r, k)
    BY <1>4, WriterLeaves DEF PushStep
  <2>1. CASE PushCheckState(w) \/ PushCheckCount(w) \/ PushMarkFull(w) \/ PushLoadHead(w)
    BY <1>1, <1>4, <2>0, <2>1, WriterWaits
  <2>2. CASE PushClaim(w)
    <3>1. buf' = buf /\ Inside(r)' = Inside(r)
      BY <1>4, <2>2, WriterLeaves DEF PushClaim
    <3>. QED BY <1>1, <2>0, <3>1
  <2>3. CASE PushStore(w)
    <3>1. Inside(r)' = Inside(r)
      BY <1>4, <2>3, WriterLeaves DEF PushStore
    <3>2. \A i \in 1 .. Inside(r) : buf'[Ring][Slot(r, i - 1)] = buf[Ring][Slot(r, i - 1)]
      BY <1>4, <2>3, WriterFills
    <3>. QED BY <1>0, <2>0, <3>1, <3>2 DEF Held
  <2>4. CASE PushCount(w)
    <3>1. /\ buf' = buf /\ Inside(r)' = Inside(r) + 1 /\ Inside(r) < Capacity
          /\ buf[Ring][Slot(r, Inside(r))] = Message(w) /\ Message(w) \in Items
      BY <1>4, <2>4, WriterCounts
    <3> DEFINE n == Inside(r)  at(i) == buf[Ring][Slot(r, i - 1)]
    <3>2. n \in Nat /\ n < Capacity /\ at(n + 1) = Message(w)
      <4>1. (n + 1) - 1 = Inside(r) /\ n \in Nat
        OBVIOUS
      <4>. QED BY <3>1, <4>1
    <3>3. RingQueue = [i \in 1 .. n |-> at(i)] /\ RingQueue' = [i \in 1 .. n + 1 |-> at(i)]
      BY <1>0, <2>0, <3>1 DEF Held
    <3> HIDE DEF n, at
    <3>4. RingQueue' = Append(RingQueue, Message(w)) /\ Len(RingQueue) = n
      BY <3>2, <3>3
    <3>5. Fifo!Enqueue(Message(w))
      BY <2>0, <3>2, <3>4 DEF Fifo!Enqueue
    <3>. QED BY <3>1, <3>5 DEF Fifo!FifoNext, Items
  <2>. QED BY <1>4, <2>1, <2>2, <2>3, <2>4 DEF PushStep, Push
<1>5. CASE CallPop(r) \/ ReturnPop(r)
  BY <1>1, <1>5, ReaderWaits
<1>6. CASE PopStep(r)
  <2>1. CASE PopClear(r)
    <3>1. /\ Inside(r) > 0 /\ Inside(r)' = Inside(r) - 1
          /\ popped' = Append(popped, buf[Ring][Slot(r, 0)])
          /\ \A i \in 1 .. Inside(r) - 1 :
                buf'[Ring][Slot(r, i - 1)'] = buf[Ring][Slot(r, i)]
      BY <1>6, <2>1, ReaderTakes
    <3> DEFINE n == Inside(r)  at(i) == buf[Ring][Slot(r, i - 1)]
               bt(i) == buf'[Ring][Slot(r, i - 1)']
    <3>2. n \in Nat \ {0} /\ popped' = Append(popped, at(1))
      <4>1. 1 - 1 = 0 /\ n \in Nat \ {0}
        BY <3>1
      <4>. QED BY <3>1, <4>1
    <3>3. RingQueue = [i \in 1 .. n |-> at(i)] /\ RingQueue' = [i \in 1 .. n - 1 |-> bt(i)]
      BY <1>0, <3>1 DEF Held
    <3>4. \A i \in 1 .. n - 1 : bt(i) = at(i + 1)
      <4>1. \A i \in 1 .. n - 1 : (i + 1) - 1 = i
        OBVIOUS
      <4>. QED BY <3>1, <4>1
    <3> HIDE DEF n, at, bt
    <3>5. RingQueue' = [i \in 1 .. n - 1 |-> at(i + 1)]
      BY <3>3, <3>4
    <3>6. Head(RingQueue) = at(1) /\ RingQueue # <<>> /\ RingQueue' = Tail(RingQueue)
      BY <3>2, <3>3, <3>5
    <3>7. Fifo!Dequeue
      BY <3>2, <3>6 DEF Fifo!Dequeue
    <3>. QED BY <3>7 DEF Fifo!FifoNext
  <2>2. CASE PopCheckCount(r) \/ PopLoadTail(r) \/ PopRead(r) \/ PopClaim(r) \/ PopCount(r)
    BY <1>1, <1>6, <2>2, ReaderWaits, ReaderClaims, ReaderCounts
  <2>. QED BY <1>6, <2>1, <2>2 DEF PopStep, Pop
<1>. QED BY <1>2, <1>3, <1>4, <1>5, <1>6 DEF Next, SoleCallers

(***************************************************************************)
(* A ring with one writer and one reader is a bounded FIFO, whatever its   *)
(* capacity and however far its cursors go, if the capacity divides the    *)
(* number of cursor values or the cursors never wrap.  (smart_buffer.go:   *)
(* Push, Pop, calcPos)                                                     *)
(***************************************************************************)
THEOREM ImplementsFifoAlways ==
  ASSUME NEW w, NEW r, SoleCallers(w, r)
  PROVE  Spec => ImplementsFifo
<1>1. Init => RingInv(w, r)
  BY InitRing
<1>2. RingInv(w, r) /\ [Next]_vars => RingInv(w, r)'
  BY RingKept
<1>3. Init => Fifo!FifoInit
  <2> SUFFICES ASSUME Init PROVE Fifo!FifoInit
    OBVIOUS
  <2>1. \A x \in Readers : Inside(x) = 0
    BY RingThere, ThreadsAre DEF Init, NewSmartBuffer, Inside
  <2>2. TheReader \in Readers
    BY DEF SoleCallers, TheReader
  <2>. QED BY <2>1, <2>2 DEF Fifo!FifoInit, RingQueue, Init
<1>4. RingInv(w, r) /\ [Next]_vars => [Fifo!FifoNext]_<<RingQueue, popped>>
  BY FifoStep
<1>. QED BY <1>1, <1>2, <1>3, <1>4, PTL DEF Spec, ImplementsFifo, Fifo!FifoSpec
=============================================================================

-------------------------- MODULE SmallPool_proofs --------------------------
(***************************************************************************)
(* Proofs of SmallPool, for any number of users, levels and buffers and    *)
(* any room of the channels, and of what the choice of a level returns.    *)
(***************************************************************************)
EXTENDS SmallPool, FiniteSetTheorems, WellFoundedInduction, TLAPS

Bit(b) == IF b THEN 1 ELSE 0

(***************************************************************************)
(* How many calls are at a label changes by the one that moves.            *)
(***************************************************************************)
LEMMA BusyMoves ==
  ASSUME PoolAssumption, TypeOK, NEW u \in Users, NEW l, NEW s, NEW b, Goto(u, l, s, b),
         NEW k, NEW r
  PROVE  /\ Cardinality(Busy(k, r)) \in Nat
         /\ Cardinality(Busy(k, r))' = Cardinality(Busy(k, r)) - Bit(u \in Busy(k, r))
                                                              + Bit(k = l /\ r = s)
<1> DEFINE Rest == Busy(k, r) \ {u}
<1>1. IsFiniteSet(Busy(k, r)) /\ IsFiniteSet(Rest)
  BY FS_Subset DEF PoolAssumption, Busy
<1>2. Cardinality(Busy(k, r)) \in Nat /\ Cardinality(Rest) \in Nat
  BY <1>1, FS_CardinalityType
<1>3. Cardinality(Rest) = Cardinality(Busy(k, r)) - Bit(u \in Busy(k, r))
  BY <1>1, <1>2, FS_RemoveElement DEF Bit
<1>4. pc \in [Users -> {"idle", "dec", "send", "inc"}] /\ level \in [Users -> Levels \cup {0}]
  BY DEF TypeOK
<1>5. CASE k = l /\ r = s
  <2>1. Busy(k, r)' = Rest \cup {u} BY <1>4, <1>5 DEF Busy, Goto
  <2>2. Cardinality(Rest \cup {u}) = Cardinality(Rest) + 1 BY <1>1, FS_AddElement
  <2> QED BY <1>2, <1>3, <1>5, <2>1, <2>2 DEF Bit
<1>6. CASE ~(k = l /\ r = s)
  <2>1. Busy(k, r)' = Rest BY <1>4, <1>6 DEF Busy, Goto
  <2> QED BY <1>2, <1>3, <1>6, <2>1 DEF Bit
<1> QED BY <1>5, <1>6

-----------------------------------------------------------------------------
LEMMA LeastLevel ==
  ASSUME PoolAssumption, NEW size, Fits(size) # {}
  PROVE  LevelOf(size) \in Levels /\ size <= LevelOf(size)
<1> DEFINE R == OpToRel(<, Nat)
<1>1. Fits(size) \subseteq Nat /\ Fits(size) \subseteq Levels
  BY DEF Fits, PoolAssumption
<1>2. IsWellFoundedOn(R, Nat)
  BY NatLessThanWellFounded
<1>3. \A x, y \in Nat : y < x => <<y, x>> \in R
  BY DEF OpToRel
<1> HIDE DEF R
<1>4. PICK s \in Fits(size) : \A r \in Fits(size) : <<r, s>> \notin R
  BY <1>1, <1>2, WFMin
<1>5. ASSUME NEW r \in Fits(size)
      PROVE  s <= r
  <2>1. ~(r < s) BY <1>1, <1>3, <1>4, Zenon
  <2> QED BY <1>1, <2>1
<1>6. LevelOf(size) \in Fits(size)
  BY <1>5 DEF LevelOf
<1> QED BY <1>1, <1>6 DEF Fits

-----------------------------------------------------------------------------
(***************************************************************************)
(* Type correctness.                                                       *)
(***************************************************************************)
CallTypeOK ==
  /\ pc \in [Users -> {"idle", "dec", "send", "inc"}]
  /\ level \in [Users -> Levels \cup {0}] /\ buf \in [Users -> Buffers \cup {Nil}]
  /\ \A u \in Users : /\ pc[u] # "idle" => level[u] \in Levels
                      /\ pc[u] \in {"dec", "send"} <=> buf[u] \in Buffers

LEMMA GotoType ==
  ASSUME PoolAssumption, TypeOK, NEW u \in Users, NEW l, NEW s, NEW b, Goto(u, l, s, b),
         \/ l \in {"dec", "send"} /\ s \in Levels /\ b \in Buffers
         \/ l = "inc" /\ s \in Levels /\ b = Nil
         \/ l = "idle" /\ s = 0 /\ b = Nil
  PROVE  CallTypeOK'
<1>1. CallTypeOK
  BY DEF TypeOK, CallTypeOK
<1>2. pc' \in [Users -> {"idle", "dec", "send", "inc"}]
  BY <1>1 DEF Goto, CallTypeOK
<1>3. level' \in [Users -> Levels \cup {0}] /\ buf' \in [Users -> Buffers \cup {Nil}]
  BY <1>1 DEF Goto, CallTypeOK
<1>4. ASSUME NEW v \in Users
      PROVE  /\ pc'[v] # "idle" => level'[v] \in Levels
             /\ pc'[v] \in {"dec", "send"} <=> buf'[v] \in Buffers
  <2>1. CASE v = u
    <3>1. pc'[v] = l /\ level'[v] = s /\ buf'[v] = b BY <1>1, <2>1 DEF Goto, CallTypeOK
    <3> QED BY <3>1 DEF PoolAssumption
  <2>2. CASE v # u
    <3>1. pc'[v] = pc[v] /\ level'[v] = level[v] /\ buf'[v] = buf[v]
      BY <1>1, <2>2 DEF Goto, CallTypeOK
    <3> QED BY <1>1, <3>1 DEF CallTypeOK
  <2> QED BY <2>1, <2>2
<1> QED BY <1>2, <1>3, <1>4 DEF CallTypeOK

LEMMA TypeStep ==
  ASSUME PoolAssumption, TypeOK, [Next]_vars
  PROVE  TypeOK'
<1> USE DEF TypeOK
<1>1. ASSUME NEW u \in Users, NEW size \in Requests, Alloc(u, size)
      PROVE  TypeOK'
  <2>1. LevelOf(size) \in Levels BY <1>1, LeastLevel DEF Alloc
  <2>2. CASE AllocTake(u, LevelOf(size))
    <3>1. /\ Head(chan[LevelOf(size)]) \in Buffers
          /\ Tail(chan[LevelOf(size)]) \in Seq(Buffers)
      BY <2>1, <2>2 DEF AllocTake
    <3>2. CallTypeOK' BY <2>1, <2>2, <3>1, GotoType DEF AllocTake
    <3> QED BY <2>1, <2>2, <3>1, <3>2 DEF AllocTake, CallTypeOK
  <2>3. CASE \E b \in Buffers : AllocMake(u, LevelOf(size), b)
    <3>1. PICK b \in Buffers : AllocMake(u, LevelOf(size), b) BY <2>3
    <3>2. LevelOf(size) \in Nat BY <2>1 DEF PoolAssumption
    <3> QED BY <3>1, <3>2 DEF AllocMake
  <2> QED BY <1>1, <2>2, <2>3 DEF Alloc
<1>2. ASSUME NEW u \in Users, NEW b \in Buffers, FreeCheck(u, b)
      PROVE  TypeOK'
  <2>1. CASE cap[b] \in Levels /\ Goto(u, "send", cap[b], b)
    <3>1. CallTypeOK' BY <2>1, GotoType
    <3> QED BY <1>2, <3>1 DEF FreeCheck, CallTypeOK
  <2>2. CASE UNCHANGED <<pc, level, buf>>
    BY <1>2, <2>2 DEF FreeCheck
  <2> QED BY <1>2, <2>1, <2>2 DEF FreeCheck
<1>3. ASSUME NEW u \in Users, AllocDec(u)
      PROVE  TypeOK'
  <2>1. CallTypeOK' BY <1>3, GotoType DEF AllocDec, Return
  <2> QED BY <1>3, <2>1 DEF AllocDec, CallTypeOK
<1>4. ASSUME NEW u \in Users, FreeSend(u)
      PROVE  TypeOK'
  <2>1. level[u] \in Levels /\ buf[u] \in Buffers BY <1>4 DEF FreeSend
  <2>2. CallTypeOK' BY <1>4, <2>1, GotoType DEF FreeSend
  <2> QED BY <1>4, <2>1, <2>2 DEF FreeSend, CallTypeOK
<1>5. ASSUME NEW u \in Users, FreeFull(u)
      PROVE  TypeOK'
  <2>1. CallTypeOK' BY <1>5, GotoType DEF FreeFull, Return
  <2> QED BY <1>5, <2>1 DEF FreeFull, CallTypeOK
<1>6. ASSUME NEW u \in Users, FreeInc(u)
      PROVE  TypeOK'
  <2>1. CallTypeOK' BY <1>6, GotoType DEF FreeInc, Return
  <2> QED BY <1>6, <2>1 DEF FreeInc, CallTypeOK
<1>7. ASSUME NEW b \in Buffers, NEW c \in 1 .. cap[b], Cut(b, c)
      PROVE  TypeOK'
  BY <1>7 DEF Cut
<1>8. CASE UNCHANGED vars
  BY <1>8 DEF vars
<1> QED BY <1>1, <1>2, <1>3, <1>4, <1>5, <1>6, <1>7, <1>8 DEF Next

(***************************************************************************)
(* The variables keep their types, and a call has a buffer in its hands    *)
(* exactly where it should.  (poolx/small_pool.go:21)                      *)
(***************************************************************************)
THEOREM TypeOKAlways == ASSUME PoolAssumption PROVE Spec => []TypeOK
<1>1. Init => TypeOK
  BY DEF Init, TypeOK, PoolAssumption
<1>2. TypeOK /\ [Next]_vars => TypeOK'
  BY TypeStep
<1> QED BY <1>1, <1>2, PTL DEF Spec

-----------------------------------------------------------------------------
LEMMA CountStep ==
  ASSUME PoolAssumption, TypeOK, CountAgrees, [Next]_vars
  PROVE  CountAgrees'
<1> SUFFICES ASSUME NEW r \in Levels
             PROVE  (count[r] = Len(chan[r]) + Cardinality(Busy("dec", r))
                                             - Cardinality(Busy("inc", r)))'
  BY DEF CountAgrees
<1> DEFINE Dec == Cardinality(Busy("dec", r))
           Inc == Cardinality(Busy("inc", r))
<1>1. /\ chan \in [Levels -> Seq(Buffers)] /\ count \in [Levels -> Int]
      /\ Len(chan[r]) \in Nat /\ count[r] \in Int
      /\ \A u \in Users : pc[u] # "idle" => level[u] \in Levels
      /\ count[r] = Len(chan[r]) + Dec - Inc
  BY DEF TypeOK, CountAgrees
<1>2. ASSUME UNCHANGED <<chan, count, pc, level>>
      PROVE  count'[r] = Len(chan'[r]) + Dec' - Inc'
  BY <1>1, <1>2 DEF Busy
<1>3. ASSUME NEW u \in Users, NEW size \in Requests, Alloc(u, size)
      PROVE  count'[r] = Len(chan'[r]) + Dec' - Inc'
  <2>1. LevelOf(size) \in Levels BY <1>3, LeastLevel DEF Alloc
  <2>2. CASE AllocTake(u, LevelOf(size))
    <3>1. Goto(u, "dec", LevelOf(size), Head(chan[LevelOf(size)])) BY <2>2 DEF AllocTake
    <3>2. Dec \in Nat /\ Dec' = Dec - Bit(u \in Busy("dec", r)) + Bit(r = LevelOf(size))
      BY <3>1, BusyMoves DEF Bit
    <3>3. Inc \in Nat /\ Inc' = Inc - Bit(u \in Busy("inc", r)) BY <3>1, BusyMoves DEF Bit
    <3>4. u \notin Busy("dec", r) /\ u \notin Busy("inc", r) BY <2>2 DEF AllocTake, Busy
    <3>5. count'[r] = count[r] /\ Len(chan'[r]) = Len(chan[r]) - Bit(r = LevelOf(size))
      BY <1>1, <2>1, <2>2 DEF AllocTake, Bit
    <3> QED BY <1>1, <3>2, <3>3, <3>4, <3>5 DEF Bit
  <2>3. CASE \E b \in Buffers : AllocMake(u, LevelOf(size), b)
    BY <1>2, <2>3 DEF AllocMake
  <2> QED BY <1>3, <2>2, <2>3 DEF Alloc
<1>4. ASSUME NEW u \in Users, NEW b \in Buffers, FreeCheck(u, b)
      PROVE  count'[r] = Len(chan'[r]) + Dec' - Inc'
  <2>1. CASE Goto(u, "send", cap[b], b)
    <3>1. u \notin Busy("dec", r) /\ u \notin Busy("inc", r) BY <1>4 DEF FreeCheck, Busy
    <3>2. Dec' = Dec /\ Inc' = Inc BY <2>1, <3>1, BusyMoves DEF Bit
    <3> QED BY <1>1, <1>4, <3>2 DEF FreeCheck
  <2>2. CASE UNCHANGED <<pc, level, buf>>
    BY <1>2, <1>4, <2>2 DEF FreeCheck
  <2> QED BY <1>4, <2>1, <2>2 DEF FreeCheck
<1>5. ASSUME NEW u \in Users, AllocDec(u) \/ FreeInc(u)
      PROVE  count'[r] = Len(chan'[r]) + Dec' - Inc'
  <2>1. Goto(u, "idle", 0, Nil) BY <1>5 DEF AllocDec, FreeInc, Return
  <2>2. /\ Dec \in Nat /\ Dec' = Dec - Bit(u \in Busy("dec", r))
        /\ Inc \in Nat /\ Inc' = Inc - Bit(u \in Busy("inc", r))
    BY <2>1, BusyMoves DEF Bit
  <2>3. CASE AllocDec(u)
    <3>1. u \in Busy("dec", r) <=> level[u] = r BY <2>3 DEF AllocDec, Busy
    <3>2. u \notin Busy("inc", r) BY <2>3 DEF AllocDec, Busy
    <3>3. chan' = chan /\ count'[r] = count[r] - Bit(level[u] = r)
      BY <1>1, <2>3 DEF AllocDec, Bit
    <3> QED BY <1>1, <2>2, <3>1, <3>2, <3>3 DEF Bit
  <2>4. CASE FreeInc(u)
    <3>1. u \in Busy("inc", r) <=> level[u] = r BY <2>4 DEF FreeInc, Busy
    <3>2. u \notin Busy("dec", r) BY <2>4 DEF FreeInc, Busy
    <3>3. chan' = chan /\ count'[r] = count[r] + Bit(level[u] = r)
      BY <1>1, <2>4 DEF FreeInc, Bit
    <3> QED BY <1>1, <2>2, <3>1, <3>2, <3>3 DEF Bit
  <2> QED BY <1>5, <2>3, <2>4
<1>6. ASSUME NEW u \in Users, FreeSend(u)
      PROVE  count'[r] = Len(chan'[r]) + Dec' - Inc'
  <2>1. level[u] \in Levels /\ buf[u] \in Buffers BY <1>6 DEF FreeSend, TypeOK
  <2>2. u \notin Busy("dec", r) /\ u \notin Busy("inc", r) BY <1>6 DEF FreeSend, Busy
  <2>3. /\ Dec \in Nat /\ Dec' = Dec
        /\ Inc \in Nat /\ Inc' = Inc + Bit(r = level[u])
    BY <1>6, <2>2, BusyMoves DEF FreeSend, Bit
  <2>4. count' = count /\ Len(chan'[r]) = Len(chan[r]) + Bit(r = level[u])
    BY <1>1, <1>6, <2>1 DEF FreeSend, Bit
  <2> QED BY <1>1, <2>3, <2>4 DEF Bit
<1>7. ASSUME NEW u \in Users, FreeFull(u)
      PROVE  count'[r] = Len(chan'[r]) + Dec' - Inc'
  <2>1. u \notin Busy("dec", r) /\ u \notin Busy("inc", r) BY <1>7 DEF FreeFull, Busy
  <2>2. Dec' = Dec /\ Inc' = Inc BY <1>7, <2>1, BusyMoves DEF FreeFull, Return, Bit
  <2> QED BY <1>1, <1>7, <2>2 DEF FreeFull
<1>8. ASSUME NEW b \in Buffers, NEW c \in 1 .. cap[b], Cut(b, c)
      PROVE  count'[r] = Len(chan'[r]) + Dec' - Inc'
  BY <1>2, <1>8 DEF Cut
<1>9. CASE UNCHANGED vars
  BY <1>2, <1>9 DEF vars
<1> QED BY <1>3, <1>4, <1>5, <1>6, <1>7, <1>8, <1>9 DEF Next

(***************************************************************************)
(* The counter of a level is the length of its channel, but for the calls  *)
(* that have used the one and not yet the other; when no call is under way *)
(* it is exact.  (poolx/small_pool.go:37, :48)                             *)
(***************************************************************************)
THEOREM CountAgreesAlways == ASSUME PoolAssumption PROVE Spec => []CountAgrees
<1>1. Init => CountAgrees
  <2>1. ASSUME Init, NEW s \in Levels
        PROVE  Busy("dec", s) = {} /\ Busy("inc", s) = {}
    BY <2>1 DEF Init, Busy
  <2>2. ASSUME Init, NEW s \in Levels
        PROVE  count[s] = 0 /\ Len(chan[s]) = 0
    BY <2>2 DEF Init
  <2>3. Cardinality({}) = 0 BY FS_EmptySet
  <2>4. ASSUME Init, NEW s \in Levels
        PROVE  count[s] = Len(chan[s]) + Cardinality(Busy("dec", s))
                                       - Cardinality(Busy("inc", s))
    <3>1. Cardinality(Busy("dec", s)) = 0 /\ Cardinality(Busy("inc", s)) = 0
      BY <2>1, <2>3, <2>4, Zenon
    <3> QED BY <2>2, <2>4, <3>1
  <2> QED BY <2>4 DEF CountAgrees
<1>2. TypeOK /\ CountAgrees /\ [Next]_vars => CountAgrees'
  BY CountStep
<1> QED BY <1>1, <1>2, TypeOKAlways, PTL DEF Spec

-----------------------------------------------------------------------------
(***************************************************************************)
(* No buffer is at two places and every buffer on its way through a        *)
(* channel has the capacity of the channel: a buffer in a channel is in    *)
(* nobody's hands, so that it is not cut.                                  *)
(***************************************************************************)
PlacesOK == OneHolder /\ RightSize /\ \A b \in held : cap[b] # 0

LEMMA PlacesStep ==
  ASSUME PoolAssumption, TypeOK, PlacesOK, [Next]_vars
  PROVE  PlacesOK'
<1> USE DEF PlacesOK, OneHolder, RightSize
<1>1. /\ chan \in [Levels -> Seq(Buffers)] /\ cap \in [Buffers -> Nat] /\ held \subseteq Buffers
      /\ pc \in [Users -> {"idle", "dec", "send", "inc"}]
      /\ level \in [Users -> Levels \cup {0}] /\ buf \in [Users -> Buffers \cup {Nil}]
      /\ \A u \in Users : /\ pc[u] # "idle" => level[u] \in Levels
                          /\ pc[u] \in {"dec", "send"} <=> buf[u] \in Buffers
      /\ Nil \notin Buffers /\ 0 \notin Levels
  BY DEF TypeOK, PoolAssumption
<1>2. \A s \in Levels : DOMAIN chan[s] = 1 .. Len(chan[s]) /\ Len(chan[s]) \in Nat
                       /\ \A i \in DOMAIN chan[s] : chan[s][i] \in Buffers
  BY <1>1
<1>3. ASSUME NEW u \in Users, NEW s \in Levels, AllocTake(u, s)
      PROVE  PlacesOK'
  <2>1. /\ buf' = [buf EXCEPT ![u] = Head(chan[s])] /\ level' = [level EXCEPT ![u] = s]
        /\ chan' = [chan EXCEPT ![s] = Tail(chan[s])] /\ held' = held /\ cap' = cap
        /\ 1 \in DOMAIN chan[s] /\ Head(chan[s]) = chan[s][1] /\ chan[s] # <<>>
    BY <1>1, <1>2, <1>3 DEF AllocTake, Goto
  <2>2. \A r \in Levels : \A i \in DOMAIN chan'[r] :
          /\ r # s => i \in DOMAIN chan[r] /\ chan'[r][i] = chan[r][i]
          /\ r = s => i + 1 \in DOMAIN chan[r] /\ i # 0 /\ chan'[r][i] = chan[r][i + 1]
    BY <1>1, <1>2, <2>1
  <2> QED BY <1>1, <1>2, <2>1, <2>2
<1>4. ASSUME NEW u \in Users, NEW s \in Levels, NEW b \in Buffers, AllocMake(u, s, b)
      PROVE  PlacesOK'
  <2>1. /\ cap[b] = 0 /\ cap' = [cap EXCEPT ![b] = s] /\ held' = held \cup {b}
        /\ UNCHANGED <<chan, level, buf>>
    BY <1>4 DEF AllocMake
  <2>2. \A r \in Levels : \A i \in DOMAIN chan[r] : chan[r][i] # b
    BY <1>1, <2>1
  <2>3. \A u2 \in Users : buf[u2] # b
    BY <1>1, <2>1
  <2> QED BY <1>1, <1>2, <2>1, <2>2, <2>3
<1>5. ASSUME NEW u \in Users, AllocDec(u)
      PROVE  PlacesOK'
  BY <1>1, <1>2, <1>5 DEF AllocDec, Return, Goto
<1>6. ASSUME NEW u \in Users, NEW b \in Buffers, FreeCheck(u, b)
      PROVE  PlacesOK'
  <2>1. CASE cap[b] \in Levels /\ Goto(u, "send", cap[b], b)
    <3>1. /\ b \in held /\ held' = held \ {b} /\ UNCHANGED <<chan, cap>>
          /\ buf' = [buf EXCEPT ![u] = b] /\ level' = [level EXCEPT ![u] = cap[b]]
      BY <1>6, <2>1 DEF FreeCheck, Goto
    <3>2. \A v \in Users : IF v = u THEN buf'[v] = b /\ level'[v] = cap[b]
                                     ELSE buf'[v] = buf[v] /\ level'[v] = level[v]
      BY <1>1, <3>1
    <3>3. OneHolder' BY <1>1, <1>2, <3>1, <3>2
    <3>4. RightSize' BY <1>1, <1>2, <3>1, <3>2
    <3> QED BY <3>1, <3>3, <3>4
  <2>2. CASE UNCHANGED <<pc, level, buf>>
    BY <1>1, <1>2, <1>6, <2>2 DEF FreeCheck
  <2> QED BY <1>6, <2>1, <2>2 DEF FreeCheck
<1>7. ASSUME NEW u \in Users, FreeSend(u)
      PROVE  PlacesOK'
  BY <1>1, <1>2, <1>7 DEF FreeSend, Goto
<1>8. ASSUME NEW u \in Users, FreeFull(u) \/ FreeInc(u)
      PROVE  PlacesOK'
  <2>1. /\ UNCHANGED <<chan, held, cap>>
        /\ buf' = [buf EXCEPT ![u] = Nil] /\ level' = [level EXCEPT ![u] = 0]
    BY <1>8 DEF FreeFull, FreeInc, Return, Goto
  <2>2. \A v \in Users : IF v = u THEN buf'[v] = Nil
                                   ELSE buf'[v] = buf[v] /\ level'[v] = level[v]
    BY <1>1, <2>1
  <2> QED BY <1>1, <1>2, <2>1, <2>2
<1>9. ASSUME NEW b \in Buffers, NEW c \in 1 .. cap[b], Cut(b, c)
      PROVE  PlacesOK'
  BY <1>1, <1>2, <1>9 DEF Cut
<1>10. CASE UNCHANGED vars
  BY <1>10 DEF vars
<1>11. ASSUME NEW size \in Requests, Fits(size) # {}
       PROVE  LevelOf(size) \in Levels
  BY <1>11, LeastLevel
<1> QED BY <1>3, <1>4, <1>5, <1>6, <1>7, <1>8, <1>9, <1>10, <1>11 DEF Next, Alloc

(***************************************************************************)
(* No buffer is handed out twice, as long as none is freed twice, and what *)
(* Alloc takes from a channel has the capacity of its level, though the    *)
(* buffers come back cut.  (poolx/small_pool.go:36, :47)                   *)
(***************************************************************************)
THEOREM OneHolderAlways == ASSUME PoolAssumption PROVE Spec => [](OneHolder /\ RightSize)
<1>1. Init => PlacesOK
  BY DEF Init, PlacesOK, OneHolder, RightSize, PoolAssumption
<1>2. TypeOK /\ PlacesOK /\ [Next]_vars => PlacesOK'
  BY PlacesStep
<1>3. PlacesOK => OneHolder /\ RightSize
  BY DEF PlacesOK
<1> QED BY <1>1, <1>2, <1>3, TypeOKAlways, PTL DEF Spec
=============================================================================

----------------------------- MODULE SmallPool -----------------------------
(***************************************************************************)
(* smallPool (poolx/small_pool.go): one sizePool per level, each a         *)
(* channel of buffers and a counter of what lies in the channel.  The      *)
(* channel and the counter change one after the other, and nobody is held  *)
(* off in between.                                                         *)
(*                                                                         *)
(* A goroutine is in one call at a time; a buffer that has been allocated  *)
(* may be cut or freed by any of them, but is freed once.  An Alloc of     *)
(* more than the last level returns nil and changes nothing.               *)
(***************************************************************************)
EXTENDS Integers, Sequences, FiniteSets

CONSTANTS
  Users,       \* the goroutines that call Alloc and Free
  Levels,      \* the capacities, 64 to 1024 in the program
  Requests,    \* the sizes that are asked for
  Max,         \* the room of a channel, 1024 in the program
  Buffers,     \* the buffers that may be made
  Nil          \* no buffer

VARIABLES
  chan,        \* chan[s]: the buffers in the channel of level s
  count,       \* count[s]: the counter next to it
  cap,         \* cap[b]: the capacity of buffer b, 0 before it is made
  held,        \* the buffers that have been allocated and not freed
  pc,          \* pc[u]: where u is in its call
  level, buf   \* the level u works on, and the buffer in its hands

vars == <<chan, count, cap, held, pc, level, buf>>

PoolAssumption ==
  /\ IsFiniteSet(Users) /\ Levels \subseteq Nat \ {0} /\ Requests \subseteq Nat
  /\ Max \in Nat /\ Nil \notin Buffers

Fits(size) == {s \in Levels : size <= s}
LevelOf(size) == CHOOSE s \in Fits(size) : \A r \in Fits(size) : s <= r

Init ==
  /\ chan = [s \in Levels |-> <<>>] /\ count = [s \in Levels |-> 0]
  /\ cap = [b \in Buffers |-> 0] /\ held = {}
  /\ pc = [u \in Users |-> "idle"] /\ level = [u \in Users |-> 0]
  /\ buf = [u \in Users |-> Nil]

Goto(u, l, s, b) ==
  /\ pc' = [pc EXCEPT ![u] = l] /\ level' = [level EXCEPT ![u] = s]
  /\ buf' = [buf EXCEPT ![u] = b]

Return(u) == Goto(u, "idle", 0, Nil)

AllocTake(u, s) ==
  /\ pc[u] = "idle" /\ chan[s] # <<>>
  /\ chan' = [chan EXCEPT ![s] = Tail(@)]
  /\ Goto(u, "dec", s, Head(chan[s]))
  /\ UNCHANGED <<count, cap, held>>

AllocDec(u) ==
  /\ pc[u] = "dec"
  /\ count' = [count EXCEPT ![level[u]] = @ - 1]
  /\ held' = held \cup {buf[u]}
  /\ Return(u)
  /\ UNCHANGED <<chan, cap>>

AllocMake(u, s, b) ==
  /\ pc[u] = "idle" /\ chan[s] = <<>> /\ cap[b] = 0
  /\ cap' = [cap EXCEPT ![b] = s]
  /\ held' = held \cup {b}
  /\ UNCHANGED <<chan, count, pc, level, buf>>

Alloc(u, size) ==
  /\ Fits(size) # {}
  /\ \/ AllocTake(u, LevelOf(size))
     \/ \E b \in Buffers : AllocMake(u, LevelOf(size), b)

(* A slice of a buffer that leaves out its first bytes. *)
Cut(b, c) ==
  /\ b \in held /\ 0 < c /\ c < cap[b]
  /\ cap' = [cap EXCEPT ![b] = c]
  /\ UNCHANGED <<chan, count, held, pc, level, buf>>

(* The capacity and the counter are looked at before the channel. *)
FreeCheck(u, b) ==
  /\ pc[u] = "idle" /\ b \in held /\ held' = held \ {b}
  /\ \/ /\ cap[b] \in Levels /\ count[cap[b]] < Max
        /\ Goto(u, "send", cap[b], b)
     \/ /\ cap[b] \in Levels => count[cap[b]] >= Max
        /\ UNCHANGED <<pc, level, buf>>
  /\ UNCHANGED <<chan, count, cap>>

FreeSend(u) ==
  /\ pc[u] = "send" /\ Len(chan[level[u]]) < Max
  /\ chan' = [chan EXCEPT ![level[u]] = Append(@, buf[u])]
  /\ Goto(u, "inc", level[u], Nil)
  /\ UNCHANGED <<count, cap, held>>

FreeFull(u) ==
  /\ pc[u] = "send" /\ Len(chan[level[u]]) >= Max
  /\ Return(u)
  /\ UNCHANGED <<chan, count, cap, held>>

FreeInc(u) ==
  /\ pc[u] = "inc"
  /\ count' = [count EXCEPT ![level[u]] = @ + 1]
  /\ Return(u)
  /\ UNCHANGED <<chan, cap, held>>

Next ==
  \/ \E u \in Users : \/ \E size \in Requests : Alloc(u, size)
                      \/ \E b \in Buffers : FreeCheck(u, b)
                      \/ AllocDec(u) \/ FreeSend(u) \/ FreeFull(u) \/ FreeInc(u)
  \/ \E b \in Buffers : \E c \in 1 .. cap[b] : Cut(b, c)

Spec == Init /\ [][Next]_vars

-----------------------------------------------------------------------------
Busy(l, s) == {u \in Users : pc[u] = l /\ level[u] = s}

(***************************************************************************)
(* The values of the variables, and where a call has what in its hands.    *)
(***************************************************************************)
TypeOK ==
  /\ chan \in [Levels -> Seq(Buffers)] /\ count \in [Levels -> Int]
  /\ cap \in [Buffers -> Nat] /\ held \subseteq Buffers
  /\ pc \in [Users -> {"idle", "dec", "send", "inc"}]
  /\ level \in [Users -> Levels \cup {0}] /\ buf \in [Users -> Buffers \cup {Nil}]
  /\ \A u \in Users : /\ pc[u] # "idle" => level[u] \in Levels
                      /\ pc[u] \in {"dec", "send"} <=> buf[u] \in Buffers

(***************************************************************************)
(* The counter tells how much is in the channel, but for the calls that    *)
(* have used the channel and not yet the counter.  (small_pool.go:39, :58) *)
(***************************************************************************)
CountAgrees ==
  \A s \in Levels : count[s] = Len(chan[s]) + Cardinality(Busy("dec", s))
                                            - Cardinality(Busy("inc", s))

(***************************************************************************)
(* No buffer is at two places, of the slots of the channels, the hands of  *)
(* the calls and those who hold buffers.  (small_pool.go: Alloc, Free)     *)
(***************************************************************************)
OneHolder ==
  /\ \A s, r \in Levels : \A i \in DOMAIN chan[s], j \in DOMAIN chan[r] :
       chan[s][i] = chan[r][j] => s = r /\ i = j
  /\ \A s \in Levels : \A i \in DOMAIN chan[s] :
       chan[s][i] \notin held /\ \A u \in Users : buf[u] # chan[s][i]
  /\ \A u \in Users : buf[u] \notin held
  /\ \A u, v \in Users : buf[u] = buf[v] /\ buf[u] # Nil => u = v

(***************************************************************************)
(* What a call takes from a channel has the capacity of its level, also if *)
(* buffers come back that have been cut.  (small_pool.go:48, :117)         *)
(***************************************************************************)
RightSize ==
  /\ \A s \in Levels : \A i \in DOMAIN chan[s] : cap[chan[s][i]] = s
  /\ \A u \in Users : buf[u] \in Buffers => cap[buf[u]] = level[u]
=============================================================================

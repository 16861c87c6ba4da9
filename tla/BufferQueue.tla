----------------------------- MODULE BufferQueue -----------------------------
(***************************************************************************)
(* BufferQueue (queue.go): a linked list under a mutex, whose eviction     *)
(* policy is the caller's.  Push and Pick look at the state before they    *)
(* take the mutex, Close swaps the state before it takes it, and the       *)
(* goroutine autoEvict reads the list to show it to the policy before it   *)
(* takes it: these are the places where another goroutine comes between.   *)
(* What happens under the mutex is one step.                               *)
(*                                                                         *)
(* The policy is external: it may answer as it likes, and evicts any items *)
(* of a list it has been shown.  Push shows it none, so that it can only   *)
(* go by the one the worker showed it last.                                *)
(***************************************************************************)
EXTENDS Integers, FiniteSets, SequencesExt

CONSTANTS
  Callers,     \* the goroutines that use the queue
  Policies,    \* the eviction policies
  maxSize,
  MaxItems,    \* bound: calls of Push that are admitted
  MaxLists     \* bound: lists, one per Reset and the first

ASSUME QueueAssumption ==
  /\ maxSize \in Nat /\ MaxItems \in Nat /\ MaxLists \in Nat \ {0}
  /\ Policies # {}

VARIABLES
  state,       \* 1 once Close has swapped it
  q,           \* the list in use: lists are numbered as they are made
  list,        \* list[l]: the items of list l; list 0 is no list
  ep,          \* the policy in use
  known,       \* known[p]: the list policy p has been shown last, or 0
  evictCount,
  stopped,     \* the channel stop is closed
  pc, item,    \* a caller: where it is, and the item it pushes
  worker,      \* autoEvict: "waiting", "shown" a list, or "ended"
  shown,       \* the list autoEvict has read
  offered,     \* history: the items 1 .. offered have been admitted
  picked,      \* history: the items picked, in order
  gone         \* history: gone[l]: the items evicted from list l

listVars   == <<q, list, evictCount, gone>>
policyVars == <<ep, known>>
callVars   == <<pc, item, offered>>
workVars   == <<worker, shown>>
vars == <<state, stopped, listVars, policyVars, callVars, workVars, picked>>

Items == 1 .. MaxItems
Lists == 1 .. MaxLists

TypeOK ==
  /\ state \in {0, 1} /\ stopped \in BOOLEAN
  /\ q \in Lists /\ list \in [0 .. MaxLists -> Seq(Items)] /\ list[0] = <<>>
  /\ ep \in Policies /\ known \in [Policies -> 0 .. q]
  /\ evictCount \in Nat
  /\ pc \in [Callers -> {"idle", "push", "pick", "close"}]
  /\ item \in [Callers -> 0 .. MaxItems] /\ offered \in 0 .. MaxItems
  /\ \A c \in Callers : pc[c] = "push" => item[c] \in 1 .. offered
  /\ worker \in {"waiting", "shown", "ended"} /\ shown \in 0 .. q
  /\ picked \in Seq(Items) /\ gone \in [0 .. MaxLists -> SUBSET Items]

Init ==
  /\ state = 0 /\ stopped = FALSE
  /\ q = 1 /\ list = [l \in 0 .. MaxLists |-> <<>>]
  /\ ep \in Policies /\ known = [p \in Policies |-> 0]
  /\ evictCount = 0 /\ gone = [l \in 0 .. MaxLists |-> {}]
  /\ pc = [c \in Callers |-> "idle"] /\ item = [c \in Callers |-> 0]
  /\ offered = 0 /\ picked = <<>>
  /\ worker \in {"waiting", "ended"} /\ shown = 0

Goto(c, from, to) == pc[c] = from /\ pc' = [pc EXCEPT ![c] = to]

PushReturn(c) == Goto(c, "push", "idle") /\ item' = [item EXCEPT ![c] = 0]

(* What is left of a list when the items S are taken out: the n-th of those *)
(* that stay.  (It is SelectSeq, of which the provers know nothing.)        *)
Staying(s, S) == {i \in DOMAIN s : s[i] \notin S}
Rank(P, i)    == Cardinality({j \in P : j <= i})
Nth(P, n)     == CHOOSE i \in P : Rank(P, i) = n

Without(s, S) ==
  [n \in 1 .. Cardinality(Staying(s, S)) |-> s[Nth(Staying(s, S), n)]]

(* Mutant: the number of evicted items is subtracted. *)
EvictSubtracts(l, S) ==
  /\ gone' = [gone EXCEPT ![l] = @ \cup S]
  /\ evictCount' = evictCount - Cardinality(S)

(* Mutant: the items that are evicted are not counted. *)
EvictUncounted(l, S) ==
  /\ gone' = [gone EXCEPT ![l] = @ \cup S]
  /\ UNCHANGED evictCount

(***************************************************************************)
(* ep.ShouldEvict and ep.Evict: from list l the policy takes the items S,  *)
(* none if it does not evict, and reports how many.                        *)
(***************************************************************************)
Evict(l, S) ==
  /\ gone' = [gone EXCEPT ![l] = @ \cup S]
  /\ evictCount' = evictCount + Cardinality(S)

(* Mutant: Push does not look at the state. *)
PushCheckNothing(c) ==
  /\ offered < MaxItems
  /\ Goto(c, "idle", "push")
  /\ offered' = offered + 1 /\ item' = [item EXCEPT ![c] = offered + 1]
  /\ UNCHANGED <<state, stopped, listVars, policyVars, workVars, picked>>

(* A call of Push that finds the queue closed returns an error. *)
PushCheck(c) ==
  /\ state = 0 /\ offered < MaxItems
  /\ Goto(c, "idle", "push")
  /\ offered' = offered + 1 /\ item' = [item EXCEPT ![c] = offered + 1]
  /\ UNCHANGED <<state, stopped, listVars, policyVars, workVars, picked>>

PushRoom(c) ==
  /\ Len(list[q]) < maxSize
  /\ PushReturn(c)
  /\ list' = [list EXCEPT ![q] = Append(@, item[c])]
  /\ UNCHANGED <<state, stopped, q, evictCount, gone, policyVars, offered,
                 workVars, picked>>

(* The item goes in whether the policy has made room or not. *)
PushFull(c) ==
  /\ Len(list[q]) >= maxSize
  /\ PushReturn(c)
  /\ LET l == known[ep] IN
     \E S \in SUBSET ToSet(list[l]) :
       /\ Evict(l, S)
       /\ list' = [[list EXCEPT ![l] = Without(list[l], S)] EXCEPT ![q] = Append(@, item[c])]
  /\ UNCHANGED <<state, stopped, q, policyVars, offered, workVars, picked>>

PickCheck(c) ==
  /\ state = 0
  /\ Goto(c, "idle", "pick")
  /\ UNCHANGED <<state, stopped, listVars, policyVars, item, offered, workVars, picked>>

PickEmpty(c) ==
  /\ list[q] = <<>>
  /\ Goto(c, "pick", "idle")
  /\ UNCHANGED <<state, stopped, listVars, policyVars, item, offered, workVars, picked>>

(* Mutant: the item that is picked stays in the list. *)
PickFrontKeeps(c) ==
  /\ list[q] # <<>>
  /\ Goto(c, "pick", "idle")
  /\ picked' = Append(picked, Head(list[q]))
  /\ UNCHANGED <<state, stopped, listVars, policyVars, item, offered, workVars>>

PickFront(c) ==
  /\ list[q] # <<>>
  /\ Goto(c, "pick", "idle")
  /\ picked' = Append(picked, Head(list[q]))
  /\ list' = [list EXCEPT ![q] = Tail(@)]
  /\ UNCHANGED <<state, stopped, q, evictCount, gone, policyVars, item, offered, workVars>>

SetEvictPolicy(c, p) ==
  /\ pc[c] = "idle"
  /\ ep' = p
  /\ UNCHANGED <<state, stopped, listVars, known, callVars, workVars, picked>>

Reset(c) ==
  /\ pc[c] = "idle" /\ q < MaxLists
  /\ evictCount' = 0
  /\ q' = q + 1
  /\ UNCHANGED <<state, stopped, list, gone, policyVars, callVars, workVars, picked>>

(* Mutant: every caller of Close goes on to close the channel. *)
CloseSwapAlways(c) ==
  /\ Goto(c, "idle", "close")
  /\ state' = 1
  /\ UNCHANGED <<stopped, listVars, policyVars, item, offered, workVars, picked>>

(* Close: only the first one swaps the state, the others return. *)
CloseSwap(c) ==
  /\ state = 0
  /\ Goto(c, "idle", "close")
  /\ state' = 1
  /\ UNCHANGED <<stopped, listVars, policyVars, item, offered, workVars, picked>>

(* Mutant: the worker is not told. *)
CloseStopNothing(c) ==
  /\ Goto(c, "close", "idle")
  /\ UNCHANGED <<state, stopped, listVars, policyVars, item, offered, workVars, picked>>

CloseStop(c) ==
  /\ Goto(c, "close", "idle")
  /\ stopped' = TRUE
  /\ UNCHANGED <<state, listVars, policyVars, item, offered, workVars, picked>>

(* autoEvict: at a tick it reads the list, and only then takes the mutex. *)
WorkerTick ==
  /\ worker = "waiting"
  /\ worker' = "shown" /\ shown' = q
  /\ UNCHANGED <<state, stopped, listVars, policyVars, callVars, picked>>

WorkerEvict ==
  /\ worker = "shown"
  /\ worker' = "waiting" /\ shown' = 0
  /\ known' = [known EXCEPT ![ep] = shown]
  /\ \E S \in SUBSET ToSet(list[shown]) :
       Evict(shown, S) /\ list' = [list EXCEPT ![shown] = Without(list[shown], S)]
  /\ UNCHANGED <<state, stopped, q, ep, callVars, picked>>

WorkerStop ==
  /\ worker = "waiting" /\ stopped
  /\ worker' = "ended"
  /\ UNCHANGED <<state, stopped, listVars, policyVars, callVars, shown, picked>>

Locked(c) ==
  PushRoom(c) \/ PushFull(c) \/ PickEmpty(c) \/ PickFront(c) \/ CloseStop(c)

Next ==
  \/ \E c \in Callers :
       \/ PushCheck(c) \/ PickCheck(c) \/ CloseSwap(c) \/ Reset(c)
       \/ \E p \in Policies : SetEvictPolicy(c, p)
       \/ Locked(c)
  \/ WorkerTick \/ WorkerEvict \/ WorkerStop

Spec == Init /\ [][Next]_vars

(***************************************************************************)
(* Fairness: a caller gets the mutex in the end, the worker goes on, and   *)
(* its select, which picks one of its ready cases at random, picks stop    *)
(* in the end.                                                             *)
(***************************************************************************)
FairSpec ==
  /\ Spec
  /\ \A c \in Callers : WF_vars(Locked(c))
  /\ WF_vars(WorkerEvict) /\ SF_vars(WorkerStop)

-----------------------------------------------------------------------------
(***************************************************************************)
(* Items leave in the order in which they came in, each at most once, also *)
(* when evictions, a Reset or a stale list come between.                   *)
(* (queue.go: Push, Pick, Reset, autoEvict)                                *)
(***************************************************************************)
Admitted == {x \in 1 .. offered : \A c \in Callers : pc[c] = "push" => item[c] # x}

Abstract == INSTANCE LossyQueue WITH put <- Admitted, queue <- list[q], taken <- picked

ImplementsQueue == Abstract!QueueSpec

(***************************************************************************)
(* No item vanishes and none is doubled: each that came in is in one       *)
(* place, once: among those picked, or evicted, or in a list, be it one    *)
(* that a Reset has given up; and evictCount counts no item twice.  Since  *)
(* the list that is evicted from may be an older one, it is not the number *)
(* of those that the list in use has lost to a policy, but lies between    *)
(* theirs and that of all lists.  (queue.go:166: autoEvict reads the list  *)
(* before the mutex; :123, :151: Push, Reset)                              *)
(***************************************************************************)
Positions(s, x) == {i \in DOMAIN s : s[i] = x}

(* <<0, i>> is a position in picked, <<l, i>> one in list l, and <<l, 0>>  *)
(* stands for the items evicted from it.                                   *)
Places(x) ==
  {<<0, i>> : i \in Positions(picked, x)}
    \cup {<<l, 0>> : l \in {k \in Lists : x \in gone[k]}}
    \cup UNION {{<<l, i>> : i \in Positions(list[l], x)} : l \in Lists}

Evicted == {x \in Items : \E l \in Lists : x \in gone[l]}

Counted ==
  Cardinality(gone[q]) <= evictCount /\ evictCount <= Cardinality(Evicted)

Accounted ==
  /\ Counted
  /\ \A x \in Items : Cardinality(Places(x)) = IF x \in Admitted THEN 1 ELSE 0

(***************************************************************************)
(* Once the queue is closed, the calls that were admitted before are the   *)
(* only ones that still push or pick, each of them once: their number only *)
(* falls, and falls with every item that comes in or leaves.               *)
(* (queue.go:108, :128: the state is looked at before the mutex)           *)
(***************************************************************************)
Admissions == {c \in Callers : pc[c] \in {"push", "pick"}}

ClosedRunsDry ==
  [][state = 1 =>
       /\ state' = 1
       /\ Admissions' \subseteq Admissions
       /\ <<Admitted, picked>>' # <<Admitted, picked>> => Admissions' # Admissions]_vars

(***************************************************************************)
(* The channel stop is closed once, however many goroutines call Close     *)
(* together: whoever is about to close it finds it open.  (queue.go:184)   *)
(***************************************************************************)
StopClosedOnce ==
  \A c \in Callers :
    pc[c] = "close" =>
      ~stopped /\ \A d \in Callers : pc[d] = "close" => d = c

(***************************************************************************)
(* After Close the worker ends, whatever the policy answers and although   *)
(* the ticker goes on ticking.  (queue.go: autoEvict, Close)               *)
(***************************************************************************)
WorkerEnds == (\E c \in Callers : pc[c] = "close") ~> worker = "ended"
=============================================================================

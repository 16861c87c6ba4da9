---------------------------- MODULE WaiterManager ----------------------------
(***************************************************************************)
(* WaiterManager (waiters.go): the readers that wait for data, each with a *)
(* channel of capacity one that comes from a sync.Pool.  Every method runs *)
(* under one mutex, so that it is one action.  The callers are those of    *)
(* BlockingRead (double_buffer.go): register, then receive or give up,     *)
(* then unregister, which notify may have done before them.                *)
(***************************************************************************)
EXTENDS Integers, FiniteSets

CONSTANTS
  Callers,             \* the goroutines that wait
  MaxWaitersPerBatch,  \* 64 in the program
  MaxTotalWaiters,     \* 1024 in the program
  MaxChannels,         \* bound: channels that are ever made
  MaxIds,              \* bound: calls of register
  DataSizes            \* bound: the arguments of notify

Channels == 1 .. MaxChannels

ASSUME WaiterAssumption ==
  /\ MaxWaitersPerBatch \in Nat \ {0} /\ MaxTotalWaiters \in Nat \ {0}
  /\ MaxChannels \in Nat /\ MaxIds \in Nat /\ DataSizes \subseteq Int

VARIABLES
  ws,          \* the map: a set of records [id, ch], one per id
  pool,        \* pool[ch]: how often channel ch lies in the sync.Pool
  made,        \* channels 1 .. made exist
  currentID,
  closed,      \* Close has been called
  full,        \* the channels that hold a notification
  shut,        \* the channels that are closed
  phase,       \* phase[c]: "idle", "waiting" or "leaving"
  id, ch       \* what register has returned to c: an id, a channel

mapVars  == <<ws, currentID, closed>>
chanVars == <<pool, made, full, shut>>
callVars == <<phase, id, ch>>
vars     == <<mapVars, chanVars, callVars>>

Entries == [id : Nat, ch : Channels]

TypeOK ==
  /\ ws \subseteq Entries
  /\ pool \in [Channels -> Nat] /\ made \in Nat
  /\ currentID \in Nat /\ closed \in BOOLEAN
  /\ full \subseteq Channels /\ shut \subseteq Channels
  /\ phase \in [Callers -> {"idle", "waiting", "leaving"}]
  /\ id \in [Callers -> Nat] /\ ch \in [Callers -> Channels \cup {0}]

Init ==
  /\ ws = {} /\ pool = [x \in Channels |-> 0] /\ made = 0
  /\ currentID = 0 /\ closed = FALSE /\ full = {} /\ shut = {}
  /\ phase = [c \in Callers |-> "idle"]
  /\ id = [c \in Callers |-> 0] /\ ch = [c \in Callers |-> 0]

(* Mutant: a pooled channel stays in the pool. *)
PoolGetKeeps(x) ==
  \/ pool[x] > 0 /\ UNCHANGED <<pool, made>>
  \/ x = made + 1 /\ made' = x /\ UNCHANGED pool

(* Mutant: the pool is not asked whether it has the channel. *)
PoolGetUnchecked(x) ==
  \/ x <= made /\ pool' = [pool EXCEPT ![x] = @ - 1] /\ UNCHANGED made
  \/ x = made + 1 /\ made' = x /\ UNCHANGED pool

(* pool.Get: a pooled channel or a new one; which is up to the runtime. *)
PoolGet(x) ==
  \/ pool[x] > 0 /\ pool' = [pool EXCEPT ![x] = @ - 1] /\ UNCHANGED made
  \/ x = made + 1 /\ made' = x /\ UNCHANGED pool

register(c) ==
  /\ phase[c] = "idle" /\ currentID < MaxIds
  /\ currentID' = currentID + 1
  /\ \E x \in Channels :
       /\ PoolGet(x)
       /\ ws' = ws \cup {[id |-> currentID + 1, ch |-> x]}
       /\ ch' = [ch EXCEPT ![c] = x]
  /\ id' = [id EXCEPT ![c] = currentID + 1]
  /\ phase' = [phase EXCEPT ![c] = "waiting"]
  /\ UNCHANGED <<closed, full, shut>>

(* A receive succeeds on a channel that holds a notification or is closed. *)
Receive(c) ==
  /\ phase[c] = "waiting" /\ ch[c] \in full \cup shut
  /\ full' = full \ {ch[c]}
  /\ phase' = [phase EXCEPT ![c] = "leaving"]
  /\ UNCHANGED <<mapVars, pool, made, shut, id, ch>>

(* The context has ended, or stop is closed. *)
GiveUp(c) ==
  /\ phase[c] = "waiting"
  /\ phase' = [phase EXCEPT ![c] = "leaving"]
  /\ UNCHANGED <<mapVars, chanVars, id, ch>>

(* Mutant: the channel goes back to the pool also when the id is gone. *)
unregisterAlways(c) ==
  /\ phase[c] = "leaving"
  /\ pool' = [pool EXCEPT ![ch[c]] = @ + 1]
  /\ ws' = {e \in ws : e.id # id[c]}
  /\ phase' = [phase EXCEPT ![c] = "idle"]
  /\ UNCHANGED <<currentID, closed, made, full, shut, id, ch>>

unregister(c) ==
  /\ phase[c] = "leaving"
  /\ \/ \E e \in ws : /\ e.id = id[c]
                      /\ pool' = [pool EXCEPT ![e.ch] = @ + 1]
                      /\ ws' = ws \ {e}
     \/ /\ \A e \in ws : e.id # id[c]
        /\ UNCHANGED <<pool, ws>>
  /\ phase' = [phase EXCEPT ![c] = "idle"]
  /\ UNCHANGED <<currentID, closed, made, full, shut, id, ch>>

_min(i, j) == IF i <= j THEN i ELSE j

(* Mutant: the waiters that do not fit in the batch are dropped as well. *)
notifyDropsAll(n) ==
  LET total == _min(_min(MaxWaitersPerBatch, n), MaxTotalWaiters) IN
  /\ ws # {} /\ ~closed /\ total > 0
  /\ \E S \in SUBSET ws :
       /\ Cardinality(S) = _min(total, Cardinality(ws))
       /\ full' = full \cup {e.ch : e \in S}
  /\ ws' = {}
  /\ UNCHANGED <<currentID, closed, pool, made, shut, callVars>>

(* Mutant: closed is not looked at. *)
notifyWhenClosed(n) ==
  LET total == _min(_min(MaxWaitersPerBatch, n), MaxTotalWaiters) IN
  /\ ws # {} /\ total > 0
  /\ \E S \in SUBSET ws :
       /\ Cardinality(S) = _min(total, Cardinality(ws))
       /\ full' = full \cup {e.ch : e \in S}
       /\ ws' = ws \ S
  /\ UNCHANGED <<currentID, closed, pool, made, shut, callVars>>

(***************************************************************************)
(* notify.  A batch is any set of entries of the right size, Go's order of *)
(* iteration being arbitrary.  Registered channels are empty               *)
(* (RegisteredIsEmpty), so that every send of the first batch succeeds and *)
(* the loop ends after it.                                                 *)
(***************************************************************************)
notify(n) ==
  LET total == _min(_min(MaxWaitersPerBatch, n), MaxTotalWaiters) IN
  /\ ws # {} /\ ~closed /\ total > 0
  /\ \E S \in SUBSET ws :
       /\ Cardinality(S) = _min(total, Cardinality(ws))
       /\ full' = full \cup {e.ch : e \in S}
       /\ ws' = ws \ S
  /\ UNCHANGED <<currentID, closed, pool, made, shut, callVars>>

(* A second Close would close a registered channel again, which panics. *)
Close ==
  /\ {e.ch : e \in ws} \cap shut = {}
  /\ closed' = TRUE
  /\ shut' = shut \cup {e.ch : e \in ws}
  /\ UNCHANGED <<ws, currentID, pool, made, full, callVars>>

Next ==
  \/ \E c \in Callers : register(c) \/ Receive(c) \/ GiveUp(c) \/ unregister(c)
  \/ \E n \in DataSizes : notify(n)
  \/ Close

Spec == Init /\ [][Next]_vars

-----------------------------------------------------------------------------
(***************************************************************************)
(* A channel that a new waiter may get or that is registered holds no      *)
(* notification: nobody is woken up by a notification meant for a waiter   *)
(* that has already gone.  (waiters.go: notify removes the entries it has  *)
(* signalled, unregister pools only the channels it still finds)           *)
(***************************************************************************)
RegisteredIsEmpty ==
  /\ \A e \in ws : e.ch \notin full
  /\ \A x \in Channels : pool[x] > 0 => x \notin full

(***************************************************************************)
(* A channel is in one place: registered under one id, or once in the      *)
(* pool, or not yet made; and a caller that waits on it is the one it is   *)
(* registered for.  (waiters.go: register, unregister, notify)             *)
(***************************************************************************)
OnePlace ==
  /\ \A e, f \in ws : e.id = f.id \/ e.ch = f.ch => e = f
  /\ \A e \in ws : pool[e.ch] = 0 /\ e.ch <= made
  /\ \A x \in Channels : pool[x] <= 1 /\ (pool[x] > 0 => x <= made)
  /\ \A c \in Callers : \A e \in ws :
       phase[c] # "idle" /\ e.ch = ch[c] => e.id = id[c]

(***************************************************************************)
(* No waiter is dropped in silence: one that is no longer registered has a *)
(* notification in its channel, whether it came before or after its        *)
(* deadline.  (waiters.go: notify deletes every entry of its batch, also   *)
(* one whose send takes the default case)                                  *)
(***************************************************************************)
DroppedIsNotified ==
  \A c \in Callers :
    phase[c] = "waiting" /\ (\A e \in ws : e.id # id[c]) => ch[c] \in full

(***************************************************************************)
(* No notification is sent on a closed channel, which would panic, though  *)
(* unregister may put a closed one into the pool for the next waiter.      *)
(* (waiters.go: Close, unregister, notify)                                 *)
(***************************************************************************)
NoSendOnClosed == [][\A x \in shut : x \in full' => x \in full]_vars
=============================================================================

------------------------- MODULE WaiterManager_proofs -------------------------
(***************************************************************************)
(* The invariants of WaiterManager, for any number of callers.             *)
(***************************************************************************)
EXTENDS WaiterManager, TLAPS

(***************************************************************************)
(* What the checked invariants rest on: a caller between register and      *)
(* unregister has a channel that is nowhere else but in its own entry, and *)
(* an id that no other caller has.                                         *)
(***************************************************************************)
Busy(c) == phase[c] # "idle"

HandsApart ==
  /\ \A c \in Callers : Busy(c) =>
       ch[c] \in Channels /\ ch[c] <= made /\ pool[ch[c]] = 0 /\ id[c] <= currentID
  /\ \A c, d \in Callers : Busy(c) /\ Busy(d) /\ c # d =>
       ch[c] # ch[d] /\ id[c] # id[d]
  /\ \A c \in Callers : \A e \in ws : Busy(c) => (e.ch = ch[c] <=> e.id = id[c])

Bounds ==
  /\ \A e \in ws : e.id <= currentID
  /\ \A x \in full : x <= made
  /\ closed \/ shut = {}

WaiterInv ==
  /\ TypeOK /\ RegisteredIsEmpty /\ OnePlace /\ DroppedIsNotified
  /\ HandsApart /\ Bounds

-----------------------------------------------------------------------------
(* newWaiterManager establishes the invariant. *)
LEMMA WaiterInit == Init => WaiterInv
<1>. SUFFICES ASSUME Init PROVE WaiterInv
  OBVIOUS
<1>1. TypeOK
  <2>1. closed \in BOOLEAN
    BY DEF Init
  <2>. QED BY <2>1 DEF Init, TypeOK
<1>2. RegisteredIsEmpty /\ OnePlace
  BY DEF Init, RegisteredIsEmpty, OnePlace
<1>3. \A c \in Callers : phase[c] = "idle"
  BY DEF Init
<1>4. DroppedIsNotified /\ HandsApart /\ Bounds
  BY <1>3 DEF Init, DroppedIsNotified, HandsApart, Busy, Bounds
<1>. QED BY <1>1, <1>2, <1>4 DEF WaiterInv

(* The channel that register hands out is in nobody's hands and empty. *)
LEMMA PoolGetIs ==
  ASSUME WaiterInv, NEW x \in Channels, PoolGet(x)
  PROVE  /\ pool' \in [Channels -> Nat] /\ made' \in Nat /\ made <= made'
         /\ pool'[x] = 0 /\ x <= made'
         /\ \A y \in Channels \ {x} : pool'[y] = pool[y]
         /\ x \notin full
         /\ \A e \in ws : e.ch # x
         /\ \A c \in Callers : Busy(c) => ch[c] # x
<1>. USE DEF WaiterInv, TypeOK, OnePlace, HandsApart, RegisteredIsEmpty, Bounds
<1>0. x \in Nat /\ pool[x] \in Nat
  BY WaiterAssumption DEF Channels
<1>1. CASE pool[x] > 0 /\ pool' = [pool EXCEPT ![x] = @ - 1] /\ UNCHANGED made
  <2>1. pool[x] = 1
    BY <1>0, <1>1
  <2>. QED BY <1>0, <1>1, <2>1
<1>2. CASE x = made + 1 /\ made' = x /\ UNCHANGED pool
  <2>1. ~(x <= made)
    BY <1>0, <1>2
  <2>2. pool[x] = 0
    BY <1>0, <2>1
  <2>. QED BY <1>0, <1>2, <2>1, <2>2
<1>. QED BY <1>1, <1>2 DEF PoolGet

(* register preserves it: the channel it takes from the pool is empty and
   nobody else's. *)
LEMMA RegisterKeeps ==
  ASSUME WaiterInv, NEW c \in Callers, register(c)
  PROVE  WaiterInv'
<1>1. PICK x \in Channels :
         /\ PoolGet(x)
         /\ ws' = ws \cup {[id |-> currentID + 1, ch |-> x]}
         /\ ch' = [ch EXCEPT ![c] = x]
  BY DEF register
<1>2. /\ phase[c] = "idle" /\ currentID \in Nat /\ currentID' = currentID + 1
      /\ id' = [id EXCEPT ![c] = currentID + 1]
      /\ phase' = [phase EXCEPT ![c] = "waiting"]
      /\ UNCHANGED <<closed, full, shut>>
  BY DEF register, WaiterInv, TypeOK
<1>3. /\ pool' \in [Channels -> Nat] /\ made' \in Nat /\ made <= made'
      /\ pool'[x] = 0 /\ x <= made'
      /\ \A y \in Channels \ {x} : pool'[y] = pool[y]
      /\ x \notin full
      /\ \A e \in ws : e.ch # x
      /\ \A d \in Callers : Busy(d) => ch[d] # x
  BY <1>1, PoolGetIs
<1>4. TypeOK'
  BY <1>1, <1>2, <1>3 DEF WaiterInv, TypeOK, Entries
<1>5. /\ ch'[c] = x /\ id'[c] = currentID + 1 /\ phase'[c] = "waiting"
      /\ \A d \in Callers \ {c} : ch'[d] = ch[d] /\ id'[d] = id[d] /\ phase'[d] = phase[d]
      /\ made \in Nat /\ full \subseteq Channels /\ ws \subseteq Entries
      /\ id \in [Callers -> Nat]
      /\ \A y \in Channels : y \in Nat
  BY <1>1, <1>2, WaiterAssumption DEF WaiterInv, TypeOK, Channels
<1>6. RegisteredIsEmpty'
  BY <1>1, <1>2, <1>3 DEF WaiterInv, RegisteredIsEmpty
<1>7. Bounds'
  BY <1>1, <1>2, <1>3, <1>5 DEF WaiterInv, Bounds, Entries
<1>8. HandsApart'
  <2>1. \A d \in Callers \ {c} : Busy(d)' <=> Busy(d)
    BY <1>5 DEF Busy
  <2>2. ASSUME NEW d \in Callers, Busy(d)'
        PROVE  ch'[d] \in Channels /\ ch'[d] <= made' /\ pool'[ch'[d]] = 0
               /\ id'[d] <= currentID'
    BY <1>2, <1>3, <1>5, <2>1, <2>2 DEF WaiterInv, HandsApart
  <2>3. ASSUME NEW d \in Callers \ {c}, Busy(d)
        PROVE  id[d] # currentID + 1 /\ ch[d] # x
    BY <1>2, <1>3, <1>5, <2>3 DEF WaiterInv, HandsApart
  <2>4. \A d, f \in Callers : Busy(d)' /\ Busy(f)' /\ d # f =>
          ch'[d] # ch'[f] /\ id'[d] # id'[f]
    BY <1>5, <2>1, <2>3 DEF WaiterInv, HandsApart
  <2>5. \A e \in ws : e.ch # x /\ e.id # currentID + 1
    BY <1>2, <1>3, <1>5 DEF WaiterInv, Bounds, Entries
  <2>6. \A d \in Callers : \A e \in ws' :
          Busy(d)' => (e.ch = ch'[d] <=> e.id = id'[d])
    BY <1>1, <1>5, <2>1, <2>3, <2>5 DEF WaiterInv, HandsApart
  <2>. QED BY <2>2, <2>4, <2>6 DEF HandsApart
<1>9. OnePlace'
  <2>1. \A e \in ws : e.ch # x /\ e.id # currentID + 1
    BY <1>2, <1>3, <1>5 DEF WaiterInv, Bounds, Entries
  <2>2. \A e, f \in ws' : e.id = f.id \/ e.ch = f.ch => e = f
    BY <1>1, <2>1 DEF WaiterInv, OnePlace
  <2>3. \A e \in ws' : pool'[e.ch] = 0 /\ e.ch <= made'
    BY <1>1, <1>3, <1>5 DEF WaiterInv, OnePlace, Entries
  <2>4. \A y \in Channels : pool'[y] <= 1 /\ (pool'[y] > 0 => y <= made')
    BY <1>3, <1>5 DEF WaiterInv, OnePlace
  <2>5. \A d \in Callers : \A e \in ws' :
          phase'[d] # "idle" /\ e.ch = ch'[d] => e.id = id'[d]
    BY <1>8 DEF HandsApart, Busy
  <2>. QED BY <2>2, <2>3, <2>4, <2>5 DEF OnePlace
<1>10. DroppedIsNotified'
  <2>1. ASSUME NEW d \in Callers, phase'[d] = "waiting",
               \A e \in ws' : e.id # id'[d]
        PROVE  ch'[d] \in full'
    <3>1. [id |-> currentID + 1, ch |-> x] \in ws'
      BY <1>1
    <3>2. d # c
      BY <1>5, <2>1, <3>1
    <3>3. \A e \in ws : e.id # id[d]
      BY <1>1, <1>5, <2>1, <3>2
    <3>. QED BY <1>2, <1>5, <2>1, <3>2, <3>3 DEF WaiterInv, DroppedIsNotified
  <2>. QED BY <2>1 DEF DroppedIsNotified
<1>. QED BY <1>4, <1>6, <1>7, <1>8, <1>9, <1>10 DEF WaiterInv

(* Receiving and giving up preserve it. *)
LEMMA LeaveKeeps ==
  ASSUME WaiterInv, NEW c \in Callers, Receive(c) \/ GiveUp(c)
  PROVE  WaiterInv'
<1>1. /\ UNCHANGED <<ws, currentID, closed, pool, made, shut, id, ch>>
      /\ Busy(c) /\ phase' = [phase EXCEPT ![c] = "leaving"]
      /\ full' \in {full, full \ {ch[c]}}
  BY DEF Receive, GiveUp, mapVars, chanVars, Busy
<1>2. /\ phase'[c] = "leaving" /\ Busy(c)'
      /\ \A d \in Callers \ {c} : phase'[d] = phase[d] /\ (Busy(d)' <=> Busy(d))
  BY <1>1 DEF Busy, WaiterInv, TypeOK
<1>3. TypeOK'
  BY <1>1 DEF WaiterInv, TypeOK
<1>4. RegisteredIsEmpty' /\ Bounds'
  BY <1>1 DEF WaiterInv, RegisteredIsEmpty, Bounds
<1>5. HandsApart'
  BY <1>1, <1>2 DEF WaiterInv, HandsApart
<1>6. OnePlace'
  BY <1>1, <1>2 DEF WaiterInv, OnePlace, Busy
<1>7. DroppedIsNotified'
  BY <1>1, <1>2 DEF WaiterInv, DroppedIsNotified, HandsApart, Busy
<1>. QED BY <1>3, <1>4, <1>5, <1>6, <1>7 DEF WaiterInv

(* unregister preserves it: a channel it pools was still registered. *)
LEMMA UnregisterKeeps ==
  ASSUME WaiterInv, NEW c \in Callers, unregister(c)
  PROVE  WaiterInv'
<1>1. /\ UNCHANGED <<currentID, closed, made, full, shut, id, ch>>
      /\ phase[c] = "leaving" /\ phase' = [phase EXCEPT ![c] = "idle"]
      /\ Busy(c)
  BY DEF unregister, Busy
<1>2. /\ phase'[c] = "idle" /\ ~Busy(c)'
      /\ \A d \in Callers \ {c} : phase'[d] = phase[d] /\ (Busy(d)' <=> Busy(d))
  BY <1>1 DEF Busy, WaiterInv, TypeOK
<1>3. ch[c] \in Channels /\ ch[c] <= made /\ pool[ch[c]] = 0
  BY <1>1 DEF WaiterInv, HandsApart
<1>4. CASE UNCHANGED <<pool, ws>>
  BY <1>1, <1>2, <1>4
     DEF WaiterInv, TypeOK, RegisteredIsEmpty, OnePlace, DroppedIsNotified,
         HandsApart, Bounds, Busy
<1>5. ASSUME NEW e \in ws, e.id = id[c],
             pool' = [pool EXCEPT ![e.ch] = @ + 1], ws' = ws \ {e}
      PROVE  WaiterInv'
  <2>1. e.ch = ch[c] /\ ch[c] \notin full
    BY <1>1, <1>5 DEF WaiterInv, HandsApart, RegisteredIsEmpty
  <2>2. /\ pool' \in [Channels -> Nat] /\ pool'[ch[c]] = 1
        /\ \A y \in Channels \ {ch[c]} : pool'[y] = pool[y]
    BY <1>3, <1>5, <2>1 DEF WaiterInv, TypeOK
  <2>3. \A f \in ws' : f \in ws /\ f.ch # ch[c] /\ f.ch \in Channels
    BY <1>5, <2>1 DEF WaiterInv, OnePlace, TypeOK, Entries
  <2>4. TypeOK'
    BY <1>1, <1>5, <2>2 DEF WaiterInv, TypeOK
  <2>5. RegisteredIsEmpty' /\ Bounds'
    BY <1>1, <1>5, <2>1, <2>2, <2>3 DEF WaiterInv, RegisteredIsEmpty, Bounds
  <2>6. HandsApart'
    BY <1>1, <1>2, <1>3, <2>2, <2>3 DEF WaiterInv, HandsApart
  <2>7. OnePlace'
    BY <1>1, <1>2, <1>3, <2>2, <2>3 DEF WaiterInv, OnePlace, Busy
  <2>8. DroppedIsNotified'
    BY <1>1, <1>2, <1>5 DEF WaiterInv, DroppedIsNotified, HandsApart, Busy
  <2>. QED BY <2>4, <2>5, <2>6, <2>7, <2>8 DEF WaiterInv
<1>. QED BY <1>4, <1>5 DEF unregister

(* notify preserves it: the entries it deletes are those it has signalled. *)
LEMMA NotifyKeeps ==
  ASSUME WaiterInv, NEW n \in DataSizes, notify(n)
  PROVE  WaiterInv'
<1>1. PICK S \in SUBSET ws :
         full' = full \cup {e.ch : e \in S} /\ ws' = ws \ S
  BY DEF notify
<1>2. UNCHANGED <<currentID, closed, pool, made, shut, phase, id, ch>> /\ ~closed
  BY DEF notify, callVars
<1>3. TypeOK'
  BY <1>1, <1>2 DEF WaiterInv, TypeOK, Entries
<1>4. RegisteredIsEmpty'
  BY <1>1, <1>2 DEF WaiterInv, RegisteredIsEmpty, OnePlace
<1>5. Bounds'
  BY <1>1, <1>2 DEF WaiterInv, Bounds, OnePlace
<1>6. HandsApart' /\ OnePlace'
  BY <1>1, <1>2 DEF WaiterInv, HandsApart, OnePlace, Busy
<1>7. DroppedIsNotified'
  <2>1. ASSUME NEW c \in Callers, phase[c] = "waiting",
               \A e \in ws \ S : e.id # id[c]
        PROVE  ch[c] \in full'
    <3>1. CASE \A e \in ws : e.id # id[c]
      BY <1>1, <2>1, <3>1 DEF WaiterInv, DroppedIsNotified
    <3>2. ASSUME NEW e \in ws, e.id = id[c] PROVE ch[c] \in full'
      BY <1>1, <2>1, <3>2 DEF WaiterInv, HandsApart, Busy
    <3>. QED BY <3>1, <3>2
  <2>. QED BY <1>1, <1>2, <2>1 DEF DroppedIsNotified
<1>. QED BY <1>3, <1>4, <1>5, <1>6, <1>7 DEF WaiterInv

(* Every step preserves it. *)
LEMMA WaiterNext == WaiterInv /\ [Next]_vars => WaiterInv'
<1>. SUFFICES ASSUME WaiterInv, [Next]_vars PROVE WaiterInv'
  OBVIOUS
<1>1. CASE Close
  BY <1>1 DEF Close, callVars, WaiterInv, TypeOK, RegisteredIsEmpty, OnePlace,
              DroppedIsNotified, HandsApart, Bounds, Busy, Entries
<1>2. CASE UNCHANGED vars
  BY <1>2 DEF vars, mapVars, chanVars, callVars, WaiterInv, TypeOK,
              RegisteredIsEmpty, OnePlace, DroppedIsNotified, HandsApart,
              Bounds, Busy
<1>. QED
  BY <1>1, <1>2, RegisterKeeps, LeaveKeeps, UnregisterKeeps, NotifyKeeps DEF Next

(***************************************************************************)
(* The four invariants, and with them the types, hold at every step.       *)
(***************************************************************************)
THEOREM WaiterInvAlways == Spec => []WaiterInv
BY WaiterInit, WaiterNext, PTL DEF Spec

(* The parts of it that the run checks. *)
LEMMA WaiterParts ==
  WaiterInv => TypeOK /\ RegisteredIsEmpty /\ OnePlace /\ DroppedIsNotified
BY DEF WaiterInv

(* Entries, channels and callers keep their types. *)
THEOREM TypeOKAlways == Spec => []TypeOK
BY WaiterParts, WaiterInvAlways, PTL

(* The channel that register puts in the map is open and empty: no
   notification meant for an earlier waiter meets a later one. *)
THEOREM RegisteredIsEmptyAlways == Spec => []RegisteredIsEmpty
BY WaiterParts, WaiterInvAlways, PTL

(* A channel lies in the pool once or belongs to one entry, never both. *)
THEOREM OnePlaceAlways == Spec => []OnePlace
BY WaiterParts, WaiterInvAlways, PTL

(* Of a waiter that notify has dropped the notification is in the channel:
   none is swallowed. *)
THEOREM DroppedIsNotifiedAlways == Spec => []DroppedIsNotified
BY WaiterParts, WaiterInvAlways, PTL

(* Once Close has closed channels, nothing is sent on any channel. *)
THEOREM NeverSendsOnClosed == Spec => NoSendOnClosed
<1>1. WaiterInv /\ [Next]_vars => [\A x \in shut : x \in full' => x \in full]_vars
  BY DEF WaiterInv, Bounds, Next, register, Receive, GiveUp, unregister, notify,
         Close, mapVars, chanVars
<1>. QED BY <1>1, WaiterInvAlways, PTL DEF Spec, NoSendOnClosed
=============================================================================

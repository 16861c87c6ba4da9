--------------------------- MODULE WrapHeap_proofs ---------------------------
(***************************************************************************)
(* WrapHeap implements the priority queue, for any items and any size.     *)
(***************************************************************************)
EXTENDS WrapHeap, WellFoundedInduction, TLAPS

(* Where the item that is being sifted can lie. *)
PosOK ==
  /\ mu = "push" => pos < len
  /\ mu = "pick" => len > 0 /\ (pos = 0 \/ pos < len - 1)

HeapInv == TypeOK /\ IndexKept /\ HeapOrder /\ PosOK

-----------------------------------------------------------------------------
(* The parent lies before its children, of which there are two. *)
LEMMA ParentIs ==
  ASSUME NEW i \in Nat, i > 0
  PROVE  /\ parent(i) \in Nat /\ parent(i) < i
         /\ i = 2 * parent(i) + 1 \/ i = 2 * parent(i) + 2
BY DEF parent

(* The two children of i have i for their parent. *)
LEMMA ChildIs ==
  ASSUME NEW i \in Nat
  PROVE  parent(2 * i + 1) = i /\ parent(2 * i + 2) = i
BY DEF parent

(* A non-empty set of natural numbers has a least one. *)
LEMMA LeastNumber ==
  ASSUME NEW T, T \subseteq Nat, T # {}
  PROVE  \E m \in T : \A k \in T : m <= k
<1>. DEFINE R == OpToRel(<, Nat)
<1>1. IsWellFoundedOn(R, Nat)
  BY NatLessThanWellFounded
<1>2. \A x, y \in Nat : y < x => <<y, x>> \in R
  BY DEF OpToRel
<1>. HIDE DEF R
<1>3. PICK m \in T : \A y \in T : ~(<<y, m>> \in R)
  BY <1>1, WFMin
<1>4. ASSUME NEW k \in T PROVE m <= k
  <2>1. ~(k < m)
    BY <1>2, <1>3, Zenon
  <2>. QED BY <2>1
<1>. QED BY <1>4

(* Along the path to the root the numbers do not increase. *)
LEMMA RootLeast ==
  ASSUME HeapInv, mu = "free"
  PROVE  \A i \in Held : Above(0, i)
<1>. DEFINE Bad == {i \in Held : ~Above(0, i)}
<1>1. SUFFICES ASSUME Bad # {} PROVE FALSE
  OBVIOUS
<1>2. Bad \subseteq Nat /\ len \in Nat
  BY DEF Held, HeapInv, TypeOK
<1>3. PICK m \in Bad : \A k \in Bad : m <= k
  BY <1>1, <1>2, LeastNumber
<1>4. m \in Nat /\ m < len /\ ~Above(0, m)
  BY <1>2 DEF Held
<1>5. \A i \in Held : sequence[slots[i]] \in Nat
  BY HeapAssumption DEF HeapInv, IndexKept
<1>6. m > 0
  <2>1. 0 \in Held
    BY <1>2, <1>4 DEF Held
  <2>. QED BY <1>4, <1>5, <2>1 DEF Above
<1>7. parent(m) \in Held /\ Above(0, parent(m))
  BY <1>2, <1>3, <1>4, <1>6, ParentIs DEF Held
<1>8. Above(parent(m), m)
  BY <1>4, <1>6 DEF HeapInv, HeapOrder, Tree
<1>9. 0 \in Held /\ m \in Held
  BY <1>2, <1>4 DEF Held
<1>10. sequence[slots[0]] <= sequence[slots[m]]
  BY <1>5, <1>7, <1>8, <1>9 DEF Above
<1>. QED BY <1>4, <1>10 DEF Above

-----------------------------------------------------------------------------
(* A swap of two slots in use. *)
LEMMA SwapIs ==
  ASSUME HeapInv, NEW i \in Held, NEW j \in Held, Swap(i, j)
  PROVE  /\ slots' \in [Places -> Items \cup {Nil}] /\ index' \in [Items -> Int]
         /\ slots'[i] = slots[j] /\ slots'[j] = slots[i]
         /\ \A k \in Held \ {i, j} : slots'[k] = slots[k]
         /\ \A k \in Held : slots'[k] \in Items /\ index'[slots'[k]] = k
         /\ {slots'[k] : k \in Held} = Contents
<1>1. Held \subseteq Places /\ Held \subseteq Int
  BY HeapAssumption DEF HeapInv, TypeOK, Held, Places
<1>2. slots[i] \in Items /\ slots[j] \in Items
  BY DEF HeapInv, IndexKept
<1>3. slots' \in [Places -> Items \cup {Nil}] /\ index' \in [Items -> Int]
  BY <1>1, <1>2 DEF HeapInv, TypeOK, Swap
<1>4. /\ slots'[i] = slots[j] /\ slots'[j] = slots[i]
      /\ \A k \in Held \ {i, j} : slots'[k] = slots[k]
  BY <1>1 DEF HeapInv, TypeOK, Swap
<1>5. /\ index'[slots[i]] = j /\ index'[slots[j]] = i
      /\ \A k \in Held \ {i, j} : index'[slots[k]] = k
  <2>1. index \in [Items -> Int] /\ \A k \in Held : index[slots[k]] = k
    BY DEF HeapInv, TypeOK, IndexKept
  <2>2. slots[i] = slots[j] => i = j
    BY <2>1
  <2>3. \A k \in Held \ {i, j} : /\ slots[k] # slots[i] /\ slots[k] # slots[j]
                                 /\ slots[k] \in Items
    BY <2>1 DEF HeapInv, IndexKept
  <2>. QED BY <1>2, <2>1, <2>2, <2>3 DEF Swap
<1>6. \A k \in Held : slots'[k] \in Items /\ index'[slots'[k]] = k
  BY <1>2, <1>4, <1>5 DEF HeapInv, IndexKept
<1>7. {slots'[k] : k \in Held} = Contents
  BY <1>4 DEF Contents
<1>. QED BY <1>3, <1>4, <1>6, <1>7

-----------------------------------------------------------------------------
(* Push. *)
LEMMA PushKeeps ==
  ASSUME HeapInv, NEW x \in Items, Push(x)
  PROVE  HeapInv' /\ Contents' = Contents \cup {x}
<1>1. len \in Nat /\ len \in Places /\ Held \subseteq Places /\ len' = len + 1
      /\ Held' = Held \cup {len} /\ len \notin Held
  BY HeapAssumption DEF HeapInv, TypeOK, Places, Held, Push
<1>2. slots'[len] = x /\ \A k \in Held : slots'[k] = slots[k]
  BY <1>1 DEF HeapInv, TypeOK, Push
<1>3. TypeOK'
  BY <1>1, HeapAssumption DEF HeapInv, TypeOK, Push, Places
<1>4. IndexKept'
  <2>1. \A k \in Held : slots[k] # x
    BY DEF Push, Contents
  <2>2. index'[x] = len /\ \A y \in Items \ {x} : index'[y] = index[y]
    BY DEF HeapInv, TypeOK, Push
  <2>. QED BY <1>1, <1>2, <2>1, <2>2 DEF HeapInv, IndexKept
<1>5. HeapOrder'
  <2>1. mu' = "push" /\ pos' = len /\ Tree' = Held'
    BY DEF Push, Tree
  <2>2. ASSUME NEW i \in Held', i > 0, i # len PROVE Above(parent(i), i)'
    <3>1. i \in Held /\ parent(i) \in Held
      BY <1>1, <2>2, ParentIs DEF Held
    <3>2. Above(parent(i), i)
      BY <2>2, <3>1 DEF HeapInv, HeapOrder, Tree, Push
    <3>. QED BY <1>2, <3>1, <3>2 DEF Above, parent
  <2>3. ASSUME NEW i \in Held', i > 0, parent(i) = len PROVE FALSE
    BY <1>1, <2>3, ParentIs DEF Held
  <2>. QED BY <2>1, <2>2, <2>3 DEF HeapOrder, parent
<1>6. PosOK'
  BY <1>1 DEF PosOK, Push
<1>7. Contents' = Contents \cup {x}
  BY <1>1, <1>2 DEF Contents
<1>. QED BY <1>3, <1>4, <1>5, <1>6, <1>7 DEF HeapInv

(* A swap of up repairs the order above the item, and keeps it below. *)
LEMMA UpKeeps ==
  ASSUME HeapInv, up
  PROVE  HeapInv' /\ Contents' = Contents
<1>0. PICK p \in Nat : p = parent(pos)
  BY ParentIs DEF HeapInv, TypeOK, up, UpToGo
<1>1. /\ len \in Nat /\ pos \in Nat /\ pos > 0 /\ pos \in Held
      /\ p \in Nat /\ p < pos /\ p \in Held
      /\ pos' = p /\ len' = len /\ mu = "push" /\ mu' = "push"
      /\ returned' = returned /\ Held' = Held /\ Tree' = Held /\ Tree = Held
  BY <1>0, ParentIs DEF HeapInv, TypeOK, PosOK, up, UpToGo, Held, Tree
<1>2. Swap(p, pos) /\ Less(pos, p)
  BY <1>0 DEF up, UpToGo
<1>3. /\ slots' \in [Places -> Items \cup {Nil}] /\ index' \in [Items -> Int]
      /\ slots'[p] = slots[pos] /\ slots'[pos] = slots[p]
      /\ \A k \in Held \ {p, pos} : slots'[k] = slots[k]
      /\ \A k \in Held : slots'[k] \in Items /\ index'[slots'[k]] = k
      /\ {slots'[k] : k \in Held} = Contents
  BY <1>1, <1>2, SwapIs
<1>4. TypeOK' /\ IndexKept' /\ PosOK' /\ Contents' = Contents
  BY <1>1, <1>3 DEF HeapInv, TypeOK, IndexKept, PosOK, Contents
<1>5. \A k \in Held : sequence[slots[k]] \in Nat
  BY HeapAssumption DEF HeapInv, IndexKept
<1>6. /\ \A i \in Held : i > 0 /\ i # pos => Above(parent(i), i)
      /\ \A i \in Held : i > 0 /\ parent(i) = pos => Above(p, i)
  BY <1>0, <1>1 DEF HeapInv, HeapOrder
<1>7. \A i \in Held : i > 0 => parent(i) \in Held /\ parent(i) < i
  BY <1>1, ParentIs DEF Held
<1>8. ASSUME NEW i \in Held, i > 0, i # p PROVE Above(parent(i), i)'
  <2>0. i \in Nat
    BY <1>1 DEF Held
  <2>1. CASE i = pos
    BY <1>0, <1>1, <1>2, <1>3, <1>5, <2>1 DEF Above, Less, parent
  <2>2. CASE i # pos /\ parent(i) = pos
    BY <1>1, <1>3, <1>6, <1>8, <2>2 DEF Above, parent
  <2>3. CASE i # pos /\ parent(i) = p
    <3>1. sequence[slots[p]] <= sequence[slots[i]]
      BY <1>6, <1>8, <2>3 DEF Above
    <3>2. sequence[slots[pos]] <= sequence[slots[i]]
      BY <1>1, <1>2, <1>5, <3>1 DEF Less
    <3>. QED BY <1>3, <1>8, <2>3, <3>2 DEF Above, parent
  <2>4. CASE i # pos /\ parent(i) \notin {p, pos}
    BY <1>3, <1>6, <1>7, <1>8, <2>4 DEF Above, parent
  <2>. QED BY <2>1, <2>2, <2>3, <2>4
<1>9. ASSUME p > 0, NEW i \in Held, i > 0, parent(i) = p
      PROVE  Above(parent(p), i)'
  <2>1. Above(parent(p), p) /\ parent(p) \in Held /\ parent(p) < p
    BY <1>1, <1>6, <1>7, <1>9
  <2>2. slots'[parent(p)] = slots[parent(p)]
    BY <1>1, <1>3, <2>1 DEF Held
  <2>3. CASE i = pos
    BY <1>3, <2>1, <2>2, <2>3 DEF Above, parent
  <2>4. CASE i # pos
    <3>1. Above(p, i) /\ i # p
      BY <1>6, <1>7, <1>9, <2>4
    <3>2. /\ sequence[slots[parent(p)]] \in Nat /\ sequence[slots[p]] \in Nat
          /\ sequence[slots[i]] \in Nat
      BY <1>1, <1>5, <2>1
    <3>3. sequence[slots[parent(p)]] <= sequence[slots[i]]
      BY <2>1, <3>1, <3>2 DEF Above
    <3>. QED BY <1>3, <2>2, <2>4, <3>1, <3>3 DEF Above, parent
  <2>. QED BY <2>3, <2>4
<1>10. HeapOrder'
  BY <1>1, <1>8, <1>9 DEF HeapOrder, parent
<1>. QED BY <1>4, <1>10 DEF HeapInv

(* When up stops the item is in order. *)
LEMMA PushDoneKeeps ==
  ASSUME HeapInv, PushDone
  PROVE  HeapInv' /\ Contents' = Contents
<1>1. UNCHANGED <<slots, len, index, returned>> /\ mu' = "free" /\ mu = "push"
      /\ pos' = 0 /\ Held' = Held /\ Tree' = Held /\ Tree = Held
  BY DEF PushDone, Held, Tree
<1>2. TypeOK' /\ IndexKept' /\ PosOK' /\ Contents' = Contents
  BY <1>1 DEF HeapInv, TypeOK, IndexKept, PosOK, Contents
<1>3. ASSUME NEW i \in Held, i > 0 PROVE Above(parent(i), i)
  <2>1. CASE i # pos
    BY <1>1, <1>3, <2>1 DEF HeapInv, HeapOrder
  <2>2. CASE i = pos
    <3>1. parent(i) \in Held
      BY <1>3, ParentIs DEF HeapInv, TypeOK, Held
    <3>2. sequence[slots[i]] \in Nat /\ sequence[slots[parent(i)]] \in Nat
      BY <3>1, HeapAssumption DEF HeapInv, IndexKept
    <3>. QED BY <1>3, <2>2, <3>2 DEF PushDone, UpToGo, Less, Above
  <2>. QED BY <2>1, <2>2
<1>4. HeapOrder'
  BY <1>1, <1>3 DEF HeapOrder, Above, parent
<1>. QED BY <1>2, <1>4 DEF HeapInv

-----------------------------------------------------------------------------
(* Pick. *)
LEMMA PickBeginKeeps ==
  ASSUME HeapInv, PickBegin
  PROVE  HeapInv' /\ Contents' = Contents
<1>0. PICK last \in Nat : last = len - 1
  BY DEF HeapInv, TypeOK, PickBegin
<1>1. /\ len \in Nat /\ 0 \in Held /\ last \in Held /\ Held \subseteq Nat
      /\ \A i \in Nat : i \in Held <=> i <= last
      /\ mu = "free" /\ mu' = "pick" /\ pos' = 0 /\ len' = len
      /\ returned' = returned /\ Held' = Held /\ Tree = Held
      /\ Tree' = Held \ {last}
  BY <1>0 DEF HeapInv, TypeOK, PickBegin, Held, Tree
<1>2. Swap(0, last)
  BY <1>0 DEF PickBegin
<1>3. /\ slots' \in [Places -> Items \cup {Nil}] /\ index' \in [Items -> Int]
      /\ slots'[0] = slots[last] /\ slots'[last] = slots[0]
      /\ \A k \in Held \ {0, last} : slots'[k] = slots[k]
      /\ \A k \in Held : slots'[k] \in Items /\ index'[slots'[k]] = k
      /\ {slots'[k] : k \in Held} = Contents
  BY <1>1, <1>2, SwapIs
<1>4. TypeOK' /\ IndexKept' /\ Contents' = Contents
  BY <1>1, <1>3 DEF HeapInv, TypeOK, IndexKept, Contents
<1>5. PosOK'
  BY <1>0, <1>1 DEF PosOK
<1>6. ASSUME NEW i \in Held \ {last}, i > 0, parent(i) # 0
      PROVE  Above(parent(i), i)'
  <2>1. parent(i) \in Held \ {0, last}
    BY <1>1, <1>6, ParentIs
  <2>2. Above(parent(i), i)
    BY <1>1, <1>6 DEF HeapInv, HeapOrder
  <2>. QED BY <1>3, <1>6, <2>1, <2>2 DEF Above, parent
<1>7. \A i \in Held : slots[0] \in Items /\ sequence[slots[0]] <= sequence[slots[i]]
  BY <1>1, RootLeast DEF HeapInv, IndexKept, Above
<1>8. ASSUME NEW i \in Held PROVE sequence[slots'[last]] <= sequence[slots'[i]]
  <2>1. slots'[i] \in {slots[k] : k \in Held}
    BY <1>3 DEF Contents
  <2>. QED BY <1>3, <1>7, <2>1
<1>9. HeapOrder'
  BY <1>0, <1>1, <1>6, <1>8 DEF HeapOrder, Above, parent
<1>. QED BY <1>4, <1>5, <1>9 DEF HeapInv

(* A swap of down repairs the order below the item, and keeps it above. *)
LEMMA DownKeeps ==
  ASSUME HeapInv, down
  PROVE  HeapInv' /\ Contents' = Contents
<1>0. PICK c \in {2 * pos + 1, 2 * pos + 2} :
         LesserChild(c) /\ Less(c, pos) /\ Swap(pos, c) /\ pos' = c
  BY DEF down
<1>1. PICK last \in Nat : last = len - 1
  BY <1>0 DEF HeapInv, TypeOK, PosOK, down
<1>2. /\ len \in Nat /\ pos \in Nat /\ c \in Nat /\ c > 0 /\ pos < c /\ c < last
      /\ pos \in Held /\ c \in Held /\ last \in Held /\ Held \subseteq Nat
      /\ \A i \in Nat : i \in Held <=> i <= last
      /\ \A i \in Nat : i \in Tree <=> i < last
      /\ Tree \subseteq Held
      /\ mu = "pick" /\ mu' = "pick" /\ len' = len
      /\ returned' = returned /\ Held' = Held /\ Tree' = Tree
  BY <1>0, <1>1 DEF HeapInv, TypeOK, PosOK, down, LesserChild, Held, Tree
<1>3. /\ slots' \in [Places -> Items \cup {Nil}] /\ index' \in [Items -> Int]
      /\ slots'[pos] = slots[c] /\ slots'[c] = slots[pos]
      /\ \A k \in Held \ {pos, c} : slots'[k] = slots[k]
      /\ \A k \in Held : slots'[k] \in Items /\ index'[slots'[k]] = k
      /\ {slots'[k] : k \in Held} = Contents
  BY <1>0, <1>2, SwapIs
<1>4. TypeOK' /\ IndexKept' /\ PosOK' /\ Contents' = Contents
  BY <1>0, <1>1, <1>2, <1>3 DEF HeapInv, TypeOK, IndexKept, PosOK, Contents
<1>5. \A k \in Held : sequence[slots[k]] \in Nat
  BY HeapAssumption DEF HeapInv, IndexKept
<1>6. /\ \A i \in Tree : i > 0 /\ parent(i) # pos => Above(parent(i), i)
      /\ pos > 0 => \A i \in Tree : i > 0 /\ parent(i) = pos => Above(parent(pos), i)
      /\ \A i \in Tree : sequence[slots[last]] <= sequence[slots[i]]
  BY <1>1, <1>2 DEF HeapInv, HeapOrder, Above
<1>7. parent(c) = pos /\ c \in Tree /\ pos \in Tree
  BY <1>0, <1>2, ChildIs
<1>8. \A i \in Tree : i > 0 => parent(i) \in Tree /\ parent(i) < i
  BY <1>2, ParentIs
<1>9. sequence[slots[c]] < sequence[slots[pos]]
  BY <1>0 DEF Less
<1>10. ASSUME NEW i \in Tree, i > 0, parent(i) = pos
       PROVE  sequence[slots[c]] <= sequence[slots[i]]
  <2>1. i \in {2 * pos + 1, 2 * pos + 2}
    BY <1>2, <1>10, ParentIs
  <2>. QED
    BY <1>0, <1>1, <1>2, <1>5, <1>7, <2>1 DEF LesserChild, Less
<1>11. ASSUME NEW i \in Tree, i > 0, parent(i) # c PROVE Above(parent(i), i)'
  <2>1. CASE i = c
    BY <1>3, <1>5, <1>2, <1>7, <1>9, <2>1 DEF Above, parent
  <2>2. CASE i # c /\ parent(i) = pos
    BY <1>2, <1>3, <1>8, <1>10, <1>11, <2>2 DEF Above, parent
  <2>3. CASE i = pos
    <3>0. Above(parent(pos), c)
      BY <1>2, <1>6, <1>7, <1>11, <2>3
    <3>1. parent(pos) \in Held \ {pos, c}
      <4>1. parent(pos) \in Tree /\ parent(pos) < pos
        BY <1>7, <1>8, <1>11, <2>3
      <4>2. parent(pos) \in Held /\ parent(pos) \in Nat
        BY <1>2, <4>1
      <4>3. parent(pos) # pos /\ parent(pos) # c
        BY <1>2, <4>1, <4>2
      <4>. QED BY <4>2, <4>3
    <3>. QED BY <1>3, <2>3, <3>0, <3>1 DEF Above, parent
  <2>4. CASE i \notin {pos, c} /\ parent(i) # pos
    BY <1>2, <1>3, <1>6, <1>8, <1>11, <2>4 DEF Above, parent
  <2>. QED BY <2>1, <2>2, <2>3, <2>4
<1>12. ASSUME NEW i \in Tree, i > 0, parent(i) = c
       PROVE  sequence[slots'[pos]] <= sequence[slots'[i]]
  <2>1. i \in Held \ {pos, c} /\ Above(c, i)
    BY <1>2, <1>6, <1>8, <1>12
  <2>. QED BY <1>3, <2>1 DEF Above
<1>13. ASSUME NEW i \in Tree
       PROVE  sequence[slots'[last]] <= sequence[slots'[i]]
  <2>1. slots'[last] = slots[last]
    BY <1>2, <1>3
  <2>2. slots'[i] \in {slots[k] : k \in Tree}
    BY <1>2, <1>3, <1>7
  <2>. QED BY <1>6, <2>1, <2>2
<1>14. HeapOrder'
  <2>1. parent(pos') = pos
    BY <1>0, <1>7
  <2>. QED
    BY <1>0, <1>1, <1>2, <1>11, <1>12, <1>13, <2>1 DEF HeapOrder, Above, parent
<1>. QED BY <1>4, <1>14 DEF HeapInv

(* What Pick takes is a least item, and the tree that is left is in order. *)
LEMMA PickDoneKeeps ==
  ASSUME HeapInv, PickDone
  PROVE  /\ HeapInv' /\ returned' \in Contents
         /\ \A x \in Contents : sequence[returned'] <= sequence[x]
         /\ Contents' = Contents \ {returned'}
<1>1. PICK last \in Nat : last = len - 1
  BY DEF HeapInv, TypeOK, PosOK, PickDone
<1>2. /\ len \in Nat /\ pos \in Nat /\ (pos = 0 \/ pos < last)
      /\ last \in Held /\ Held \subseteq Nat
      /\ \A i \in Nat : i \in Held <=> i <= last
      /\ \A i \in Nat : i \in Tree <=> i < last
      /\ Tree = Held \ {last}
      /\ mu = "pick" /\ mu' = "free" /\ pos' = 0 /\ len' = last
      /\ returned' = slots[last] /\ slots' = slots
      /\ index' = [index EXCEPT ![slots[last]] = -1]
      /\ Held' = Tree /\ Tree' = Tree
  BY <1>1 DEF HeapInv, TypeOK, PosOK, PickDone, Held, Tree
<1>3. /\ \A i \in Held : slots[i] \in Items /\ index[slots[i]] = i
      /\ \A i \in Held : sequence[slots[i]] \in Nat
  BY HeapAssumption DEF HeapInv, IndexKept
<1>4. \A i \in Tree : slots[i] # slots[last]
  BY <1>2, <1>3
<1>5. TypeOK' /\ PosOK'
  <2>1. index' \in [Items -> Int]
    BY <1>2, <1>3 DEF HeapInv, TypeOK
  <2>2. len' \in 0 .. Size
    BY <1>1, <1>2, HeapAssumption DEF HeapInv, TypeOK
  <2>3. returned' \in Items
    BY <1>2, <1>3
  <2>. QED BY <1>2, <2>1, <2>2, <2>3 DEF HeapInv, TypeOK, PosOK
<1>6. IndexKept'
  BY <1>2, <1>3, <1>4 DEF HeapInv, TypeOK, IndexKept
<1>7. ASSUME NEW i \in Tree, i > 0 PROVE Above(parent(i), i)
  <2>1. CASE parent(i) # pos
    BY <1>2, <1>7, <2>1 DEF HeapInv, HeapOrder
  <2>2. CASE parent(i) = pos
    <3>1. i \in {2 * pos + 1, 2 * pos + 2} /\ i < last /\ pos < i
      BY <1>2, <1>7, <2>2, ParentIs
    <3>2. \A c \in {2 * pos + 1, 2 * pos + 2} :
            LesserChild(c) => sequence[slots[pos]] <= sequence[slots[c]]
      <4>1. \A c \in {2 * pos + 1, 2 * pos + 2} :
              LesserChild(c) => c \in Held /\ ~Less(c, pos)
        BY <1>1, <1>2 DEF PickDone, LesserChild
      <4>2. pos \in Held
        BY <1>2, <3>1
      <4>. QED BY <1>3, <4>1, <4>2 DEF Less
    <3>3. 2 * pos + 1 \in Held /\ pos \in Held
      BY <1>2, <3>1
    <3>4. CASE 2 * pos + 2 < last
      <4>1. 2 * pos + 2 \in Held
        BY <1>2, <3>4
      <4>. QED
        BY <1>1, <1>2, <1>3, <2>2, <3>1, <3>2, <3>3, <3>4, <4>1
           DEF LesserChild, Less, Above
    <3>5. CASE ~(2 * pos + 2 < last)
      BY <1>1, <1>2, <2>2, <3>1, <3>2, <3>5 DEF LesserChild, Above
    <3>. QED BY <3>4, <3>5
  <2>. QED BY <2>1, <2>2
<1>8. HeapOrder'
  BY <1>2, <1>7 DEF HeapOrder, Above, parent
<1>9. \A i \in Held : sequence[slots[last]] <= sequence[slots[i]]
  BY <1>1, <1>2, <1>3 DEF HeapInv, HeapOrder, Above
<1>10. Contents' = Contents \ {slots[last]}
  BY <1>2, <1>4 DEF Contents
<1>. QED BY <1>2, <1>5, <1>6, <1>8, <1>9, <1>10 DEF HeapInv, Contents

-----------------------------------------------------------------------------
(* An empty heap satisfies the invariant and is the empty queue. *)
LEMMA HeapInit == Init => HeapInv /\ Queue!QueueInit
<1>. SUFFICES ASSUME Init PROVE HeapInv /\ Queue!QueueInit
  OBVIOUS
<1>1. len = 0 /\ Held = {} /\ Tree = {} /\ mu = "free"
  BY DEF Init, Held, Tree
<1>2. TypeOK
  BY HeapAssumption DEF Init, TypeOK
<1>3. IndexKept /\ HeapOrder /\ PosOK
  BY <1>1 DEF IndexKept, HeapOrder, PosOK
<1>4. Queue!QueueInit
  BY <1>1 DEF Init, Queue!QueueInit, Contents
<1>. QED BY <1>2, <1>3, <1>4 DEF HeapInv

(* Every step keeps the invariant and is a step of the queue, or none. *)
LEMMA HeapNext ==
  ASSUME HeapInv, [Next]_vars
  PROVE  /\ HeapInv'
         /\ [Queue!Insert \/ Queue!Remove \/ Queue!Ask]_(Queue!queueVars)
<1>. DEFINE Quiet == UNCHANGED <<Contents, returned>>
            Good  == HeapInv' /\ [Queue!Insert \/ Queue!Remove \/ Queue!Ask]_(Queue!queueVars)
<1>1. HeapInv' /\ Quiet => Good
  BY DEF Queue!queueVars
<1>2. ASSUME NEW x \in Items, Push(x) PROVE Good
  BY <1>2, PushKeeps DEF Push, Queue!Insert
<1>3. CASE up
  BY <1>1, <1>3, UpKeeps DEF up
<1>4. CASE PushDone
  BY <1>1, <1>4, PushDoneKeeps DEF PushDone
<1>5. CASE PickBegin
  BY <1>1, <1>5, PickBeginKeeps DEF PickBegin
<1>6. CASE down
  BY <1>1, <1>6, DownKeeps DEF down
<1>7. CASE PickDone
  BY <1>7, PickDoneKeeps DEF Queue!Remove, Queue!Least
<1>8. CASE PickEmpty \/ PeekFirst
  <2>1. UNCHANGED <<slots, len, index, mu, pos>> /\ mu = "free"
    BY <1>8 DEF PickEmpty, PeekFirst
  <2>2. Contents' = Contents
    BY <2>1 DEF Contents, Held
  <2>3. HeapInv' /\ Queue!Ask
    <3>1. CASE PickEmpty
      <4>1. Contents = {}
        BY <3>1 DEF PickEmpty, Contents, Held
      <4>2. HeapInv'
        BY <2>1, <3>1
           DEF PickEmpty, HeapInv, TypeOK, IndexKept, HeapOrder, PosOK, Held,
               Tree, Above
      <4>. QED BY <2>2, <3>1, <4>1, <4>2 DEF PickEmpty, Queue!Ask
    <3>2. CASE PeekFirst
      <4>1. 0 \in Held
        BY <3>2 DEF PeekFirst, HeapInv, TypeOK, Held
      <4>2. \A i \in Held : sequence[slots[0]] <= sequence[slots[i]]
        BY <2>1, RootLeast DEF Above
      <4>3. slots[0] \in Items
        BY <4>1 DEF HeapInv, IndexKept
      <4>4. HeapInv'
        BY <2>1, <3>2, <4>3
           DEF PeekFirst, HeapInv, TypeOK, IndexKept, HeapOrder, PosOK, Held,
               Tree, Above
      <4>. QED
        BY <2>2, <3>2, <4>1, <4>2, <4>4
           DEF PeekFirst, Contents, Queue!Ask, Queue!Least
    <3>. QED BY <1>8, <3>1, <3>2
  <2>. QED BY <2>3
<1>9. CASE UNCHANGED vars
  BY <1>9 DEF vars, HeapInv, TypeOK, IndexKept, HeapOrder, PosOK, Held, Tree,
              Above, Contents, Queue!queueVars
<1>. QED BY <1>2, <1>3, <1>4, <1>5, <1>6, <1>7, <1>8, <1>9 DEF Next

(***************************************************************************)
(* The order of the tree, with the exception for the item that is being    *)
(* sifted, and the field index hold at every step.                         *)
(***************************************************************************)
THEOREM HeapInvAlways == Spec => []HeapInv
<1>1. HeapInv /\ [Next]_vars => HeapInv'
  BY HeapNext
<1>. QED BY <1>1, HeapInit, PTL DEF Spec

(* Every item in the heap knows the slot it lies in, also while it is being
   sifted: whoever follows field index finds the item. *)
THEOREM IndexKeptAlways == Spec => []IndexKept
<1>1. HeapInv => IndexKept
  BY DEF HeapInv
<1>. QED BY <1>1, HeapInvAlways, PTL

(* No item lies below one with a greater number, but for the item on its way. *)
THEOREM HeapOrderAlways == Spec => []HeapOrder
<1>1. HeapInv => HeapOrder
  BY DEF HeapInv
<1>. QED BY <1>1, HeapInvAlways, PTL

(***************************************************************************)
(* Whatever the interleaving of its callers, the heap hands out an item    *)
(* with the least number of those in it, and loses and doubles none.       *)
(***************************************************************************)
THEOREM HeapIsQueue == Spec => ImplementsQueue
<1>1. HeapInv /\ [Next]_vars
        => [Queue!Insert \/ Queue!Remove \/ Queue!Ask]_(Queue!queueVars)
  BY HeapNext
<1>2. Init => Queue!QueueInit
  BY HeapInit
<1>. QED
  BY <1>1, <1>2, HeapInvAlways, PTL DEF Spec, ImplementsQueue, Queue!QueueSpec
=============================================================================

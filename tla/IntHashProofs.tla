--------------------------- MODULE IntHashProofs ----------------------------
(***************************************************************************)
(* Proofs about IntHash, for every set of handles, every hash function and *)
(* every sequence of calls: its inductive invariant, and that the table    *)
(* implements the abstract map.                                            *)
(***************************************************************************)
EXTENDS IntHash, FiniteSetTheorems, TLAPS

USE NoKeyIsNoKey, ValuesType, HashFuncsType, SizesType, CallocType

-----------------------------------------------------------------------------
(* The geometry of a walk.  These lemmas are about slot numbers only. *)

(* The home of a handle is a slot. *)
LEMMA HomeIsSlot ==
  ASSUME func \in HashFuncs, size \in Nat, size >= 3,
         NEW k \in Keys \cup {NoKey}
  PROVE  Home(k) \in Slots
<1>1. func[k] \in Nat
  OBVIOUS
<1>2. \A a \in Nat, b \in Nat \ {0} : a % b \in 0 .. b - 1
  BY SMT
<1>3. size \in Nat \ {0}
  OBVIOUS
<1>4. func[k] % size \in 0 .. size - 1
  BY <1>1, <1>2, <1>3, Zenon
<1> QED
  BY <1>4 DEF Home, Slots

(* The next slot is a slot. *)
LEMMA FollowingIsSlot ==
  ASSUME size \in Nat, size >= 3, NEW s \in Slots
  PROVE  Following(s) \in Slots
BY DEF Slots, Following

(* A walk leaves slots behind. *)
LEMMA BetweenSlots ==
  ASSUME size \in Nat, NEW j \in Slots, NEW s \in Slots
  PROVE  Between(j, s) \subseteq Slots /\ s \notin Between(j, s)
BY DEF Slots, Between

(* At home nothing is left behind yet. *)
LEMMA BetweenHome ==
  ASSUME size \in Nat, NEW j \in Slots
  PROVE  Between(j, j) = {}
BY DEF Slots, Between

(* One turn of the loop leaves the current slot behind. *)
LEMMA BetweenFollowing ==
  ASSUME size \in Nat, NEW j \in Slots, NEW s \in Slots, Following(s) # j
  PROVE  Between(j, Following(s)) = Between(j, s) \cup {s}
BY DEF Slots, Between, Following

(* Before the walk is home again, it has left every other slot behind. *)
LEMMA BetweenFullTurn ==
  ASSUME size \in Nat, NEW j \in Slots, NEW s \in Slots, Following(s) = j
  PROVE  Slots = Between(j, s) \cup {s}
BY DEF Slots, Between, Following

(* What a walk has not come to yet lies beyond its current slot. *)
LEMMA BetweenBeyond ==
  ASSUME size \in Nat, NEW j \in Slots, NEW s \in Slots, NEW t \in Slots,
         t \notin Between(j, s), t # s
  PROVE  s \in Between(j, t)
BY DEF Slots, Between

-----------------------------------------------------------------------------
(* The type invariant. *)

LEMMA InitTypeOK == Init => TypeOK
<1> SUFFICES ASSUME Init PROVE TypeOK
  OBVIOUS
<1>1. size \in Nat /\ size >= 3
  BY DEF Init, NewSize
<1>2. array \in [Slots -> Slot]
  BY <1>1 DEF Init, Empty, Free, Slots, Slot
<1>3. ~ Rehashing
  BY DEF Init, Rehashing
<1> QED
  BY <1>1, <1>2, <1>3 DEF Init, TypeOK

(* A table that is there is not the missing table. *)
LEMMA TableIsTable ==
  ASSUME NEW n \in Nat \ {0}, NEW t \in [0 .. n - 1 -> Slot]
  PROVE  t # NoTable
<1>1. 0 \in DOMAIN t
  OBVIOUS
<1>2. DOMAIN NoTable = {}
  BY DEF NoTable, Empty
<1> QED
  BY <1>1, <1>2

LEMMA NextTypeOK == TypeOK /\ [Next]_vars => TypeOK'
<1> SUFFICES ASSUME TypeOK, [Next]_vars PROVE TypeOK'
  OBVIOUS
<1> USE DEF Slots, table, frame, resizing
<1>0. size \in Nat /\ size >= 3 /\ func \in HashFuncs
  BY DEF TypeOK
<1>1. \A k \in Keys \cup {NoKey} : Home(k) \in Slots
  BY <1>0, HomeIsSlot
<1>2. \A s \in Slots : Following(s) \in Slots
  BY <1>0, FollowingIsSlot
<1>3. ASSUME NEW k \in Keys \cup {NoKey}, Get(k) PROVE TypeOK'
  BY <1>1, <1>3 DEF Get, TypeOK, Rehashing
<1>4. ASSUME NEW k \in Keys \cup {NoKey}, NEW v \in Values, Set(k, v)
      PROVE  TypeOK'
  BY <1>1, <1>4 DEF Set, TypeOK, Rehashing
<1>5. CASE GetStep
  BY <1>2, <1>5 DEF GetStep, TypeOK, Rehashing, Slot
<1>6. CASE Insert
  <2>1. array' \in [Slots' -> Slot]
    BY <1>6 DEF Insert, SetReturns, TypeOK, Slot
  <2> QED
    BY <2>1, <1>6 DEF Insert, SetReturns, TypeOK, Rehashing
<1>7. CASE Overwrite
  <2>1. i \in Slots /\ array[i] \in Slot /\ value \in Values
    BY <1>7 DEF Overwrite, TypeOK
  <2>2. [array[i] EXCEPT !.value = value] \in Slot
    BY <2>1 DEF Slot
  <2>3. array' = [array EXCEPT ![i] = [array[i] EXCEPT !.value = value]]
    BY <1>7 DEF Overwrite
  <2>4. array' \in [Slots -> Slot] /\ size' = size
    BY <2>2, <2>3, <1>7 DEF Overwrite, SetReturns, TypeOK
  <2> QED
    BY <2>4, <1>7 DEF Overwrite, SetReturns, TypeOK, Rehashing
<1>8. CASE Advance
  <2>1. i' \in Slots /\ i' \in Nat
    BY <1>2, <1>8 DEF Advance, TypeOK
  <2> QED
    BY <2>1, <1>8 DEF Advance, TypeOK, Rehashing
<1>9. CASE FullTurn
  <2>1. Home(key) \in Slots /\ Following(Home(key)) \in Slots
    BY <1>1, <1>2 DEF TypeOK
  <2>2. CASE NeedResize
    BY <2>2, <1>9 DEF FullTurn, TypeOK, Rehashing
  <2>3. CASE ~ NeedResize
    <3>1. [key |-> key, value |-> value] \in Slot
      BY DEF TypeOK, Slot
    <3>2. array' \in [Slots -> Slot] /\ size' = size
      BY <2>1, <2>3, <3>1, <1>9 DEF FullTurn, TypeOK
    <3> QED
      BY <2>1, <2>3, <3>2, <1>9 DEF FullTurn, TypeOK, Rehashing
  <2> QED
    BY <2>2, <2>3
<1>10. CASE ResizeAllocates
  <2>1. ~ Rehashing /\ pc = "resize"
    BY <1>10 DEF ResizeAllocates, TypeOK
  <2>2. Rehashing'
    BY <1>10, <1>0, TableIsTable DEF ResizeAllocates, TypeOK, Rehashing, NoTable, Empty
  <2>3. /\ size' = 2 * size /\ size' \in Nat /\ size' >= 3
        /\ size \in 1 .. size'
        /\ old' \in [0 .. size - 1 -> Slot] /\ ri' \in 0 .. size
    BY <1>10, <1>0 DEF ResizeAllocates, TypeOK
  <2>4. array' \in [Slots' -> Slot]
    BY <1>10, <1>0 DEF ResizeAllocates, Empty, Free, Slot
  <2>5. pending' \in [key : Keys, value : Values]
    BY <1>10 DEF ResizeAllocates, TypeOK
  <2> QED
    BY <2>2, <2>3, <2>4, <2>5, <1>10 DEF ResizeAllocates, TypeOK
<1>11. CASE ResizeFails
  BY <1>1, <1>11 DEF ResizeFails, TypeOK, Rehashing
<1>12. CASE RehashSlot
  <2>1. Rehashing /\ Rehashing'
    BY <1>12 DEF RehashSlot, TypeOK, Rehashing
  <2>2. PICK n \in 1 .. size : /\ size = 2 * n
                               /\ old \in [0 .. n - 1 -> Slot]
                               /\ ri \in 0 .. n
    BY <2>1 DEF TypeOK
  <2>3. old[ri] \in Slot /\ ri + 1 \in 0 .. n
    BY <2>2, <1>12, <1>0 DEF RehashSlot
  <2>4. old[ri].key # NoKey => old[ri].key \in Keys /\ Home(old[ri].key) \in Slots
    BY <2>3, <1>1 DEF Slot
  <2>5. old[ri].value \in Values
    BY <2>3 DEF Slot
  <2>6. \E m \in 1 .. size' : /\ size' = 2 * m
                              /\ old' \in [0 .. m - 1 -> Slot]
                              /\ ri' \in 0 .. m
    BY <2>2, <2>3, <1>12 DEF RehashSlot
  <2> QED
    BY <2>1, <2>4, <2>5, <2>6, <1>12 DEF RehashSlot, TypeOK
<1>13. CASE RehashDone
  <2>1. pending \in [key : Keys, value : Values]
    BY <1>13 DEF RehashDone, TypeOK
  <2>2. ~ Rehashing'
    BY <1>13 DEF RehashDone, Rehashing
  <2> QED
    BY <2>1, <2>2, <1>1, <1>13 DEF RehashDone, TypeOK
<1>14. CASE UNCHANGED vars
  BY <1>14 DEF vars, TypeOK, Rehashing
<1> QED
  BY <1>3, <1>4, <1>5, <1>6, <1>7, <1>8, <1>9, <1>10, <1>11, <1>12, <1>13, <1>14
  DEF Next, Call, Run

(* Every reachable state is well typed: the walks of hash_get and hash_set *)
(* never leave the allocated slots, and hash_resize never copies past the  *)
(* end of the old table.                                                   *)
THEOREM TypeCorrect == Spec => []TypeOK
BY InitTypeOK, NextTypeOK, PTL DEF Spec

-----------------------------------------------------------------------------
(* The parts of the inductive invariant. *)

(* The used slots of a table of a given number of slots are finitely many. *)
LEMMA OccupiedFinite ==
  ASSUME NEW n \in Nat, NEW t, DOMAIN t = 0 .. n - 1
  PROVE  IsFiniteSet(Occupied(t)) /\ Occupied(t) \subseteq 0 .. n - 1
<1>1. Occupied(t) \subseteq 0 .. n - 1
  BY DEF Occupied
<1>2. IsFiniteSet(0 .. n - 1)
  BY FS_Interval
<1> QED
  BY <1>1, <1>2, FS_Subset

(* A walk that ends at a free slot proves that the key is not stored.  This *)
(* is what ProbeChain is for.                                              *)
LEMMA KeyAbsent ==
  ASSUME TypeOK, ProbeChain, Walked, pc \in {"get", "set"}, key \in Keys,
         array[i].key = NoKey
  PROVE  \A s \in Slots : array[s].key # key
<1> SUFFICES ASSUME NEW s \in Slots, array[s].key = key PROVE FALSE
  OBVIOUS
<1>1. i \in Slots /\ size \in Nat /\ Home(key) \in Slots /\ key # NoKey
  BY HomeIsSlot DEF TypeOK
<1>2. s \notin Between(Home(key), i) /\ s # i
  BY <1>1 DEF Walked
<1>3. i \in Between(Home(key), s)
  BY <1>1, <1>2, BetweenBeyond
<1>4. s \in Occupied(array)
  BY <1>1 DEF Occupied, TypeOK
<1> QED
  BY <1>1, <1>3, <1>4 DEF ProbeChain

(* A walk that comes home again has seen every slot, and none was free. *)
LEMMA FullTurnSeesAll ==
  ASSUME TypeOK, Walked, pc \in {"get", "set"},
         array[i].key \notin {NoKey, key}, Following(i) = Home(key)
  PROVE  \A s \in Slots : array[s].key \notin {NoKey, key}
<1>1. i \in Slots /\ size \in Nat /\ Home(key) \in Slots
  BY HomeIsSlot DEF TypeOK
<1>2. Slots = Between(Home(key), i) \cup {i}
  BY <1>1, BetweenFullTurn
<1> QED
  BY <1>2 DEF Walked

(* A full table is over its load. *)
LEMMA FullNeedsResize ==
  ASSUME TypeOK, ElemsCount, \A s \in Slots : array[s].key # NoKey
  PROVE  NeedResize
<1>1. Occupied(array) = Slots
  BY DEF Occupied, TypeOK
<1>2. Cardinality(0 .. size - 1) = size
  BY FS_Interval DEF TypeOK
<1>3. elems = size
  BY <1>1, <1>2 DEF ElemsCount, Slots
<1>4. \A n \in Nat : n >= 3 => (n * 100) \div 75 > n
  BY SMT
<1> QED
  BY <1>3, <1>4 DEF NeedResize, TypeOK

(* A step that leaves the table alone keeps what is said of the table. *)
LEMMA SameTable ==
  ASSUME ProbeChain, UniqueKeys, ElemsCount, UNCHANGED <<func, table>>
  PROVE  ProbeChain' /\ UniqueKeys' /\ ElemsCount'
BY DEF ProbeChain, UniqueKeys, ElemsCount, Occupied, Between, Home, table

-----------------------------------------------------------------------------
(* Every action preserves the inductive invariant. *)

LEMMA InitIInv == Init => IInv
<1> SUFFICES ASSUME Init PROVE IInv
  OBVIOUS
<1>1. TypeOK
  BY InitTypeOK
<1>2. Occupied(array) = {}
  BY DEF Init, Occupied, Empty, Free
<1>3. ElemsCount
  BY <1>2, FS_EmptySet DEF ElemsCount, Init
<1>4. ~ Rehashing /\ pc = "idle"
  BY DEF Init, Rehashing
<1> QED
  BY <1>1, <1>2, <1>3, <1>4
  DEF IInv, ProbeChain, UniqueKeys, Walked, Copied, Counted

LEMMA CallIInv ==
  ASSUME IInv, TypeOK',
         NEW k \in Keys \cup {NoKey}, NEW v \in Values, Get(k) \/ Set(k, v)
  PROVE  IInv'
<1>1. /\ UNCHANGED <<func, table, resizing>>
      /\ key' = k /\ i' = Home(k) /\ pc = "idle" /\ pc' \in {"get", "set"}
  BY DEF Get, Set
<1>2. ProbeChain' /\ UniqueKeys' /\ ElemsCount'
  BY <1>1, SameTable DEF IInv, Counted
<1>3. Home(k) \in Slots /\ size \in Nat
  BY HomeIsSlot DEF IInv, TypeOK
<1>4. Between(Home(k), Home(k)) = {}
  BY <1>3, BetweenHome
<1>5. Walked'
  BY <1>1, <1>4 DEF Walked, Home, Between, table
<1>6. ~ Rehashing'
  BY <1>1 DEF IInv, TypeOK, Rehashing, resizing
<1> QED
  BY <1>2, <1>5, <1>6 DEF IInv, Copied, Counted

LEMMA GetStepIInv ==
  ASSUME IInv, TypeOK', GetStep
  PROVE  IInv'
<1>1. UNCHANGED <<func, table, resizing, key>> /\ pc = "get"
  BY DEF GetStep
<1>2. ProbeChain' /\ UniqueKeys' /\ ElemsCount'
  BY <1>1, SameTable DEF IInv, Counted
<1>3. ~ Rehashing /\ ~ Rehashing'
  BY <1>1 DEF IInv, TypeOK, Rehashing, resizing
<1>4. Walked'
  <2>1. CASE pc' = "idle"
    BY <2>1 DEF Walked
  <2>2. CASE pc' # "idle"
    <3>1. /\ pc' = "get" /\ i' = Following(i) /\ Following(i) # Home(key)
          /\ array[i].key \notin {NoKey, key}
      BY <2>2 DEF GetStep
    <3>2. i \in Slots /\ size \in Nat /\ Home(key) \in Slots
      BY <1>1, HomeIsSlot DEF IInv, TypeOK
    <3>3. Between(Home(key), Following(i)) = Between(Home(key), i) \cup {i}
      BY <3>1, <3>2, BetweenFollowing
    <3> QED
      BY <1>1, <3>1, <3>3 DEF IInv, Walked, Home, Between, table
  <2> QED
    BY <2>1, <2>2
<1> QED
  BY <1>2, <1>3, <1>4 DEF IInv, Copied, Counted

LEMMA AdvanceIInv ==
  ASSUME IInv, TypeOK', Advance
  PROVE  IInv'
<1>1. UNCHANGED <<func, table, resizing, pc, key, value>> /\ pc = "set"
  BY DEF Advance
<1>2. ProbeChain' /\ UniqueKeys' /\ ElemsCount'
  BY <1>1, SameTable DEF IInv, Counted
<1>3. Walked'
  <2>1. i \in Slots /\ size \in Nat /\ Home(key) \in Slots
    BY <1>1, HomeIsSlot DEF IInv, TypeOK
  <2>2. Between(Home(key), Following(i)) = Between(Home(key), i) \cup {i}
    BY <2>1, BetweenFollowing DEF Advance
  <2> QED
    BY <1>1, <2>2 DEF Advance, IInv, Walked, Home, Between, table
<1>4. Copied' /\ Counted'
  BY <1>1, <1>2
  DEF IInv, Copied, Counted, Rehashing, Occupied, Slots, table, resizing
<1> QED
  BY <1>2, <1>3, <1>4 DEF IInv

LEMMA InsertIInv ==
  ASSUME IInv, TypeOK', Insert
  PROVE  IInv'
<1> DEFINE slot == [key |-> key, value |-> value]
<1>1. /\ pc = "set" /\ array[i].key = NoKey /\ key \in Keys /\ key # NoKey
      /\ i \in Slots /\ size \in Nat /\ elems \in Nat
      /\ array \in [Slots -> Slot]
  BY DEF Insert, IInv, TypeOK
<1>2. /\ array' = [array EXCEPT ![i] = slot]
      /\ elems' = elems + 1
      /\ UNCHANGED <<func, size, resizing, key, value>>
      /\ pc' = IF Rehashing THEN "rehash" ELSE "idle"
  BY DEF Insert, SetReturns, frame
<1>3. \A s \in Slots : array[s].key # key
  BY <1>1, KeyAbsent DEF IInv
<1>4. Occupied(array') = Occupied(array) \cup {i}
  BY <1>1, <1>2 DEF Occupied
<1>5. ProbeChain'
  <2> SUFFICES ASSUME NEW s \in Occupied(array'),
                      NEW t \in Between(Home(array'[s].key), s)
               PROVE  array'[t].key # NoKey
    BY <1>2 DEF ProbeChain, Between, Home
  <2>1. s \in Slots
    BY <1>1, <1>2 DEF Occupied
  <2>2. array'[s].key \in Keys \cup {NoKey}
    BY <1>1, <1>2, <2>1 DEF Slot
  <2>3. t \in Slots
    BY <1>1, <2>1, <2>2, HomeIsSlot, BetweenSlots DEF IInv, TypeOK
  <2>4. CASE s = i
    <3>1. array'[s].key = key
      BY <1>1, <1>2, <2>4
    <3>2. array[t].key # NoKey
      BY <1>1, <2>4, <3>1 DEF IInv, Walked
    <3> QED
      BY <1>1, <1>2, <2>3, <3>2
  <2>5. CASE s # i
    <3>1. s \in Occupied(array) /\ array'[s] = array[s]
      BY <1>1, <1>2, <1>4, <2>1, <2>5
    <3>2. array[t].key # NoKey
      BY <3>1 DEF IInv, ProbeChain
    <3> QED
      BY <1>1, <1>2, <2>3, <3>2
  <2> QED
    BY <2>4, <2>5
<1>6. UniqueKeys'
  BY <1>1, <1>2, <1>3 DEF IInv, UniqueKeys, Occupied
<1>7. ElemsCount'
  <2>1. IsFiniteSet(Occupied(array)) /\ i \notin Occupied(array)
    BY <1>1, OccupiedFinite DEF Occupied, Slots
  <2>2. Cardinality(Occupied(array) \cup {i}) = Cardinality(Occupied(array)) + 1
    BY <2>1, FS_AddElement
  <2> QED
    BY <1>2, <1>4, <2>2 DEF ElemsCount, IInv, Counted
<1>8. Walked'
  BY <1>2 DEF Walked
<1>9. Copied'
  <2> SUFFICES ASSUME Rehashing PROVE Copied'
    BY <1>2 DEF Copied, Rehashing, resizing
  <2>1. /\ ri \in Nat /\ ri > 0 /\ old[ri - 1] = slot
        /\ pc' = "rehash" /\ old' = old /\ ri' = ri
    BY <1>1, <1>2 DEF IInv, TypeOK, Copied, resizing
  <2>2. 0 .. ri - 1 = (0 .. ri - 2) \cup {ri - 1}
    BY <2>1
  <2>3. \A s \in 0 .. ri - 1 :
          old[s].key # NoKey => \E t \in Slots : array'[t] = old[s]
    <3> SUFFICES ASSUME NEW s \in 0 .. ri - 1, old[s].key # NoKey
                 PROVE  \E t \in Slots : array'[t] = old[s]
      OBVIOUS
    <3>1. CASE s = ri - 1
      BY <1>1, <1>2, <2>1, <3>1
    <3>2. CASE s # ri - 1
      <4>1. PICK t \in Slots : array[t] = old[s]
        BY <1>1, <2>2, <3>2 DEF IInv, Copied
      <4>2. t # i
        BY <1>1, <4>1
      <4> QED
        BY <1>1, <1>2, <4>1, <4>2
    <3> QED
      BY <3>1, <3>2
  <2>4. \A t \in Slots : array'[t].key # NoKey =>
          \E s \in 0 .. ri - 1 : old[s] = array'[t]
    <3> SUFFICES ASSUME NEW t \in Slots, array'[t].key # NoKey
                 PROVE  \E s \in 0 .. ri - 1 : old[s] = array'[t]
      OBVIOUS
    <3>1. CASE t = i
      BY <1>1, <1>2, <2>1, <3>1
    <3>2. CASE t # i
      <4>1. array'[t] = array[t]
        BY <1>1, <1>2, <3>2
      <4> QED
        BY <1>1, <2>2, <4>1 DEF IInv, Copied
    <3> QED
      BY <3>1, <3>2
  <2>5. Slots' = Slots
    BY <1>2 DEF Slots
  <2> QED
    BY <2>1, <2>3, <2>4, <2>5 DEF IInv, Copied, Occupied
<1>10. Counted'
  <2>1. CASE Rehashing
    BY <1>1, <1>2, <1>7, <2>1 DEF IInv, TypeOK, Counted, Rehashing, resizing
  <2>2. CASE ~ Rehashing
    BY <1>2, <1>7, <2>2 DEF Counted, Rehashing, resizing
  <2> QED
    BY <2>1, <2>2
<1> QED
  BY <1>5, <1>6, <1>8, <1>9, <1>10 DEF IInv

(* A key that hash_resize re-inserts is not there yet: the old table had it *)
(* once.                                                                   *)
LEMMA OverwriteOutside ==
  ASSUME IInv, Overwrite
  PROVE  ~ Rehashing
<1> SUFFICES ASSUME Rehashing PROVE FALSE
  OBVIOUS
<1>1. pc = "set" /\ i \in Slots /\ key \in Keys /\ array[i].key = key
  BY DEF Overwrite, IInv, TypeOK
<1>2. PICK n \in 1 .. size : /\ size = 2 * n
                             /\ old \in [0 .. n - 1 -> Slot]
                             /\ ri \in 0 .. n
  BY DEF IInv, TypeOK
<1>3. ri > 0 /\ old[ri - 1].key = key
  BY <1>1 DEF IInv, Copied
<1>4. PICK s \in 0 .. ri - 2 : old[s] = array[i]
  BY <1>1, NoKeyIsNoKey DEF IInv, Copied
<1>5. s \in Occupied(old) /\ ri - 1 \in Occupied(old)
  BY <1>1, <1>2, <1>3, <1>4, NoKeyIsNoKey DEF Occupied
<1> QED
  BY <1>1, <1>2, <1>3, <1>4, <1>5 DEF IInv, Copied

LEMMA OverwriteIInv ==
  ASSUME IInv, TypeOK', Overwrite
  PROVE  IInv'
<1>1. ~ Rehashing
  BY OverwriteOutside
<1>2. /\ array[i].key = key /\ i \in Slots /\ array \in [Slots -> Slot]
      /\ array' = [array EXCEPT ![i] = [array[i] EXCEPT !.value = value]]
      /\ UNCHANGED <<func, size, elems, old>> /\ pc' = "idle"
  BY <1>1 DEF Overwrite, SetReturns, IInv, TypeOK, resizing
<1>3. DOMAIN array' = DOMAIN array
  BY <1>2
<1>4. \A s \in Slots : array'[s].key = array[s].key
  BY <1>2 DEF Slot
<1>5. Occupied(array') = Occupied(array) /\ Occupied(array) \subseteq Slots
  BY <1>2, <1>3, <1>4 DEF Occupied
<1>6. ProbeChain'
  <2> SUFFICES ASSUME NEW s \in Occupied(array),
                      NEW t \in Between(Home(array[s].key), s)
               PROVE  array'[t].key # NoKey
    BY <1>2, <1>4, <1>5 DEF ProbeChain, Between, Home
  <2>1. array[t].key # NoKey
    BY DEF IInv, ProbeChain
  <2>2. array[s].key \in Keys \cup {NoKey} /\ s \in Slots
    BY <1>2, <1>5 DEF Slot
  <2>3. t \in Slots
    BY <2>2, HomeIsSlot, BetweenSlots DEF IInv, TypeOK
  <2> QED
    BY <1>4, <2>1, <2>3
<1>7. UniqueKeys'
  BY <1>4, <1>5 DEF IInv, UniqueKeys
<1>8. ElemsCount' /\ Counted'
  BY <1>1, <1>2, <1>5 DEF IInv, Counted, ElemsCount, Rehashing
<1> QED
  BY <1>1, <1>2, <1>6, <1>7, <1>8 DEF IInv, Walked, Copied, Rehashing

LEMMA FullTurnIInv ==
  ASSUME IInv, TypeOK', FullTurn
  PROVE  IInv' /\ NeedResize
<1>1. \A s \in Slots : array[s].key \notin {NoKey, key}
  BY FullTurnSeesAll DEF FullTurn, IInv
<1>2. NeedResize
  BY <1>1, FullNeedsResize DEF IInv, Counted
<1>3. UNCHANGED <<func, table, resizing, key>> /\ pc' = "resize" /\ ~ Rehashing
  BY <1>2 DEF FullTurn
<1>4. ProbeChain' /\ UniqueKeys' /\ ElemsCount'
  BY <1>3, SameTable DEF IInv, Counted
<1>5. Walked'
  BY <1>1, <1>3 DEF Walked, Slots, table
<1>6. Copied' /\ Counted'
  BY <1>3, <1>4 DEF Copied, Counted, Rehashing, resizing
<1> QED
  BY <1>2, <1>4, <1>5, <1>6 DEF IInv

LEMMA ResizeAllocatesIInv ==
  ASSUME IInv, TypeOK', ResizeAllocates
  PROVE  IInv'
<1>1. /\ array' = Empty(2 * size) /\ size' = 2 * size /\ elems' = 0
      /\ old' = array /\ ri' = 0 /\ pc' = "rehash" /\ size \in Nat
  BY DEF ResizeAllocates, IInv, TypeOK
<1>2. \A s \in DOMAIN array' : array'[s].key = NoKey
  BY <1>1 DEF Empty, Free
<1>3. Occupied(array') = {} /\ DOMAIN array' = Slots'
  BY <1>1, <1>2 DEF Occupied, Empty, Slots
<1>4. ElemsCount'
  BY <1>1, <1>3, FS_EmptySet DEF ElemsCount
<1>5. Copied'
  BY <1>1, <1>2, <1>3 DEF Copied, IInv, UniqueKeys
<1> QED
  BY <1>1, <1>3, <1>4, <1>5
  DEF IInv, ProbeChain, UniqueKeys, Walked, Counted

(* What starting the loop of hash_set at the home slot establishes. *)
LEMMA StartsWalk ==
  ASSUME TypeOK, pc' = "set", key' \in Keys, i' = Home(key'),
         UNCHANGED <<func, table>>
  PROVE  Walked'
<1>1. Between(Home(key'), Home(key')) = {}
  BY HomeIsSlot, BetweenHome DEF TypeOK
<1> QED
  BY <1>1 DEF Walked, Home, Between, table

LEMMA ResizeFailsIInv ==
  ASSUME IInv, TypeOK', ResizeFails
  PROVE  IInv'
<1>1. /\ UNCHANGED <<func, table, resizing, key>> /\ pc = "resize"
      /\ pc' = "set" /\ i' = Home(key) /\ key \in Keys
  BY DEF ResizeFails, IInv, TypeOK
<1>2. ProbeChain' /\ UniqueKeys' /\ ElemsCount'
  BY <1>1, SameTable DEF IInv, Counted
<1>3. Walked'
  BY <1>1, StartsWalk DEF IInv
<1>4. ~ Rehashing'
  BY <1>1 DEF IInv, TypeOK, Rehashing, resizing
<1> QED
  BY <1>2, <1>3, <1>4 DEF IInv, Copied, Counted

LEMMA RehashSlotIInv ==
  ASSUME IInv, TypeOK', RehashSlot
  PROVE  IInv'
<1>1. /\ UNCHANGED <<func, table, old>> /\ pc = "rehash" /\ Rehashing
      /\ ri \in DOMAIN old /\ ri' = ri + 1
  BY DEF RehashSlot, IInv, TypeOK
<1>2. PICK n \in 1 .. size : /\ size = 2 * n
                             /\ old \in [0 .. n - 1 -> Slot]
                             /\ ri \in 0 .. n
  BY <1>1 DEF IInv, TypeOK
<1>3. ri \in Nat /\ old[ri] \in Slot /\ 0 .. ri' - 1 = (0 .. ri - 1) \cup {ri}
  BY <1>1, <1>2 DEF IInv, TypeOK
<1>4. ProbeChain' /\ UniqueKeys' /\ ElemsCount'
  BY <1>1, SameTable DEF IInv, Counted
<1>5. elems \in Nat /\ elems <= ri
  BY <1>1 DEF IInv, TypeOK, Counted
<1>6. CASE old[ri].key = NoKey
  <2>1. pc' = "rehash"
    BY <1>1, <1>6 DEF RehashSlot
  <2>2. Copied'
    BY <1>1, <1>3, <1>6, <2>1 DEF IInv, Copied, Occupied, Slots, table
  <2>3. Counted'
    BY <1>1, <1>3, <1>4, <1>5, <2>1 DEF Counted, table
  <2> QED
    BY <1>4, <2>1, <2>2, <2>3 DEF IInv, Walked
<1>7. CASE old[ri].key # NoKey
  <2>1. /\ pc' = "set" /\ key' = old[ri].key /\ value' = old[ri].value
        /\ i' = Home(key') /\ key' \in Keys
    BY <1>1, <1>3, <1>7 DEF RehashSlot, Slot
  <2>2. Walked'
    BY <1>1, <2>1, StartsWalk DEF IInv
  <2>3. old[ri] = [key |-> key', value |-> value']
    BY <1>3, <2>1 DEF Slot
  <2>4. ri' > 0 /\ ri' - 1 = ri /\ ri' - 2 = ri - 1
    BY <1>1, <1>3
  <2>5. Copied'
    BY <1>1, <2>1, <2>3, <2>4 DEF IInv, Copied, Occupied, Slots, table
  <2>6. Counted'
    BY <1>1, <1>4, <1>5, <2>1, <2>4 DEF Counted, table
  <2> QED
    BY <1>4, <2>2, <2>5, <2>6 DEF IInv
<1> QED
  BY <1>6, <1>7

LEMMA RehashDoneIInv ==
  ASSUME IInv, TypeOK', RehashDone
  PROVE  IInv'
<1>1. /\ UNCHANGED <<func, table>> /\ pc' = "set"
      /\ key' = pending.key /\ i' = Home(pending.key)
      /\ pending.key \in Keys /\ ~ Rehashing'
  BY DEF RehashDone, IInv, TypeOK, Rehashing
<1>2. ProbeChain' /\ UniqueKeys' /\ ElemsCount'
  BY <1>1, SameTable DEF IInv, Counted
<1>3. Walked'
  BY <1>1, StartsWalk DEF IInv
<1> QED
  BY <1>1, <1>2, <1>3 DEF IInv, Copied, Counted

LEMMA NextIInv == IInv /\ [Next]_vars => IInv'
<1> SUFFICES ASSUME IInv, [Next]_vars PROVE IInv'
  OBVIOUS
<1>1. TypeOK'
  BY NextTypeOK DEF IInv
<1>2. ASSUME NEW k \in Keys \cup {NoKey}, Get(k) PROVE IInv'
  BY <1>1, <1>2, CallIInv, 0 \in Values
<1>3. ASSUME NEW k \in Keys \cup {NoKey}, NEW v \in Values, Set(k, v)
      PROVE  IInv'
  BY <1>1, <1>3, CallIInv
<1>4. CASE UNCHANGED vars
  BY <1>4 DEF vars, IInv, TypeOK, ProbeChain, UniqueKeys, Walked, Copied,
     Counted, ElemsCount, Rehashing, Occupied, Between, Home, Slots
<1> QED
  BY <1>1, <1>2, <1>3, <1>4, GetStepIInv, InsertIInv, OverwriteIInv,
     AdvanceIInv, FullTurnIInv, ResizeAllocatesIInv, ResizeFailsIInv,
     RehashSlotIInv, RehashDoneIInv
  DEF Next, Call, Run

(* The inductive invariant holds in every reachable state. *)
THEOREM InductiveInvariant == Spec => []IInv
BY InitIInv, NextIInv, PTL DEF Spec

(* hash_get can rely on its probe chains: whatever the order of the calls  *)
(* and wherever the resizes fell between them, no stored key is behind a   *)
(* free slot.                                                              *)
THEOREM ProbeChainHolds == Spec => []ProbeChain
<1>1. IInv => ProbeChain
  BY DEF IInv
<1> QED
  BY <1>1, InductiveInvariant, PTL

(* The untested second probing loop of hash_set, which would overwrite a   *)
(* slot in use, is dead code at every table size.                          *)
THEOREM SecondLoopIsDead == Spec => []FullTableResizes
<1>1. IInv => FullTableResizes
  BY FullNeedsResize DEF FullTableResizes, IInv, Counted, Occupied
<1> QED
  BY <1>1, InductiveInvariant, PTL

(* hash_resize is never re-entered from the hash_set calls it makes. *)
THEOREM ResizeNotReentered == Spec => []NestedSetFinds
<1> SUFFICES ASSUME IInv PROVE NestedSetFinds
  BY InductiveInvariant, PTL
<1> SUFFICES ASSUME pc = "set", Rehashing,
                    \A s \in Slots : array[s].key # NoKey
             PROVE  FALSE
  BY DEF NestedSetFinds
<1>1. PICK n \in 1 .. size : size = 2 * n /\ ri \in 0 .. n
  BY DEF IInv, TypeOK
<1>2. elems <= ri - 1
  BY DEF IInv, Counted
<1>3. Occupied(array) = Slots
  BY DEF Occupied, IInv, TypeOK
<1>4. Cardinality(0 .. size - 1) = size /\ size \in Nat
  BY FS_Interval DEF IInv, TypeOK
<1> QED
  BY <1>1, <1>2, <1>3, <1>4 DEF IInv, Counted, ElemsCount, Slots

-----------------------------------------------------------------------------
(* The table implements the map. *)

(* The map that a table with unique keys stands for. *)
LEMMA ContentsAre ==
  ASSUME \A s, t \in Occupied(Current) : Current[s].key = Current[t].key => s = t,
         NEW k \in Keys
  PROVE  /\ \A s \in DOMAIN Current :
              Current[s].key = k => Contents[k] = Current[s].value
         /\ (\A s \in DOMAIN Current : Current[s].key # k) =>
              Contents[k] = NotFound
<1>1. ASSUME NEW s \in DOMAIN Current, Current[s].key = k
      PROVE  Contents[k] = Current[s].value
  <2> DEFINE c == CHOOSE t \in DOMAIN Current : Current[t].key = k
  <2>1. c \in DOMAIN Current /\ Current[c].key = k
    BY <1>1
  <2>2. c \in Occupied(Current) /\ s \in Occupied(Current)
    BY <1>1, <2>1 DEF Occupied
  <2>3. c = s
    BY <1>1, <2>1, <2>2
  <2>4. Contents[k] = Current[c].value
    BY <1>1 DEF Contents
  <2> QED
    BY <2>3, <2>4
<1>2. ASSUME \A s \in DOMAIN Current : Current[s].key # k
      PROVE  Contents[k] = NotFound
  BY <1>2 DEF Contents
<1> QED
  BY <1>1, <1>2

(* The current table has each key once. *)
LEMMA CurrentUnique ==
  ASSUME IInv
  PROVE  \A s, t \in Occupied(Current) : Current[s].key = Current[t].key => s = t
BY DEF IInv, Current, Copied, UniqueKeys

(* A step that keeps the current table keeps the map. *)
LEMMA SameContents ==
  ASSUME Current' = Current
  PROVE  Contents' = Contents
BY DEF Contents

LEMMA ContentsDomain ==
  /\ DOMAIN Contents = Keys
  /\ Contents = [k \in Keys |-> Contents[k]]
BY DEF Contents

(* Two tables with unique keys and the same slots stand for the same map.  *)
(* Used for the end of hash_resize.                                        *)
LEMMA RehashDoneContents ==
  ASSUME IInv, RehashDone
  PROVE  Contents' = Contents
<1>1. /\ pc = "rehash" /\ Rehashing /\ ~ Rehashing' /\ array' = array
      /\ ri \notin DOMAIN old
  BY DEF RehashDone, IInv, TypeOK, Rehashing, table
<1>2. PICK n \in 1 .. size : /\ size = 2 * n
                             /\ old \in [0 .. n - 1 -> Slot]
                             /\ ri \in 0 .. n
  BY <1>1 DEF IInv, TypeOK
<1>3. size \in Nat /\ DOMAIN old = 0 .. ri - 1 /\ DOMAIN array = Slots
  BY <1>1, <1>2 DEF IInv, TypeOK
<1>4. Current = old /\ Current' = array
  BY <1>1 DEF Current
<1>5. \A s, t \in Occupied(Current') :
        Current'[s].key = Current'[t].key => s = t
  BY <1>4 DEF IInv, UniqueKeys
<1>6. ASSUME NEW k \in Keys PROVE Contents'[k] = Contents[k]
  <2>1. CASE \E s \in DOMAIN old : old[s].key = k
    <3>1. PICK s \in DOMAIN old : old[s].key = k
      BY <2>1
    <3>2. PICK t \in Slots : array[t] = old[s]
      BY <1>1, <1>3, <3>1 DEF IInv, Copied
    <3>3. Contents[k] = old[s].value
      BY <1>4, <3>1, ContentsAre, CurrentUnique
    <3>4. t \in DOMAIN array /\ array[t].key = k
      BY <1>3, <3>1, <3>2
    <3>5. Contents'[k] = array[t].value
      <4> DEFINE c == CHOOSE u \in DOMAIN array : array[u].key = k
      <4>1. c \in DOMAIN array /\ array[c].key = k
        BY <3>4
      <4>2. c = t
        BY <1>4, <1>5, <3>4, <4>1 DEF Occupied
      <4>3. Contents'[k] = array[c].value
        BY <1>4, <3>4 DEF Contents
      <4> QED
        BY <4>2, <4>3
    <3> QED
      BY <3>2, <3>3, <3>5
  <2>2. CASE \A s \in DOMAIN old : old[s].key # k
    <3>1. \A t \in DOMAIN array : array[t].key # k
      BY <1>1, <1>3, <2>2 DEF IInv, Copied
    <3> QED
      BY <1>4, <2>2, <3>1 DEF Contents
  <2> QED
    BY <2>1, <2>2
<1> QED
  BY <1>6, ContentsDomain DEF Contents

(* Writing a slot binds its key in the map and changes nothing else. *)
LEMMA WriteContents ==
  ASSUME IInv, ~ Rehashing, ~ Rehashing', key \in Keys, i \in Slots,
         array'[i].key = key, array'[i].value = value,
         DOMAIN array' = Slots,
         \A s \in Slots : s # i => array'[s] = array[s],
         \A s \in Slots : s # i => array[s].key # key,
         array[i].key \in {NoKey, key}
  PROVE  Contents' = [Contents EXCEPT ![key] = value]
<1>1. Current = array /\ Current' = array' /\ DOMAIN array = Slots
  BY DEF Current, IInv, TypeOK
<1>2. ASSUME NEW k \in Keys, k # key PROVE Contents'[k] = Contents[k]
  <2>1. \A s \in Slots : array'[s].key = k <=> array[s].key = k
    BY <1>2
  <2>2. CASE \E s \in Slots : array[s].key = k
    <3>1. PICK s \in Slots : array[s].key = k
      BY <2>2
    <3>2. \A u \in Slots : array[u].key = k => u = s
      BY <1>1, <3>1 DEF IInv, UniqueKeys, Occupied
    <3>3. (CHOOSE u \in Slots : array[u].key = k) = s
      BY <3>1, <3>2
    <3>4. (CHOOSE u \in Slots : array'[u].key = k) = s
      BY <2>1, <3>1, <3>2
    <3>5. s # i
      BY <1>2, <3>1
    <3> QED
      BY <1>1, <2>1, <3>1, <3>3, <3>4, <3>5 DEF Contents
  <2>3. CASE \A s \in Slots : array[s].key # k
    BY <1>1, <2>1, <2>3 DEF Contents
  <2> QED
    BY <2>2, <2>3
<1>3. Contents'[key] = value
  <2>1. (CHOOSE u \in Slots : array'[u].key = key) = i
    OBVIOUS
  <2> QED
    BY <1>1, <2>1 DEF Contents
<1>4. Contents' = [k \in Keys |-> Contents'[k]]
  BY DEF Contents
<1>5. [Contents EXCEPT ![key] = value] =
        [k \in Keys |-> IF k = key THEN value ELSE Contents[k]]
  BY ContentsDomain
<1>6. \A k \in Keys : Contents'[k] = IF k = key THEN value ELSE Contents[k]
  BY <1>2, <1>3
<1> QED
  BY <1>4, <1>5, <1>6, Zenon

LEMMA InitRefines == Init => Abstract!Init
<1> SUFFICES ASSUME Init PROVE Abstract!Init
  OBVIOUS
<1>1. ~ Rehashing /\ \A s \in DOMAIN array : array[s].key = NoKey
  BY DEF Init, Rehashing, Empty, Free
<1>2. Contents = [k \in Keys |-> NotFound]
  BY <1>1 DEF Contents, Current
<1> QED
  BY <1>2 DEF Abstract!Init, Init

(* hash_get answers what the map says. *)
LEMMA GetStepRefines ==
  ASSUME IInv, GetStep
  PROVE  [Abstract!Next]_(Abstract!vars)
<1>1. /\ pc = "get" /\ i \in Slots /\ array \in [Slots -> Slot]
      /\ key \in Keys \cup {NoKey} /\ ~ Rehashing /\ ~ Rehashing'
      /\ array' = array /\ old' = old
  BY DEF GetStep, IInv, TypeOK, Rehashing, table, resizing
<1>2. Contents' = Contents
  BY <1>1, SameContents DEF Current, Rehashing
<1>3. CASE pc' # "idle"
  BY <1>2, <1>3 DEF GetStep, Abstract!vars
<1>4. CASE pc' = "idle" /\ array[i].key = key /\ key # NoKey
  <2>1. ret' = array[i].value
    BY <1>4, <1>1 DEF GetStep
  <2>2. Contents[key] = array[i].value
    BY <1>1, <1>4, ContentsAre, CurrentUnique DEF Current
  <2>3. key \in Keys /\ Abstract!Get(key)
    BY <1>1, <1>2, <1>4, <2>1, <2>2 DEF Abstract!Get
  <2> QED
    BY <2>3 DEF Abstract!Next
<1>5. CASE pc' = "idle" /\ (array[i].key # key \/ key = NoKey)
  <2>1. ret' = NotFound
    BY <1>5, <1>1 DEF GetStep
  <2>2. CASE key = NoKey
    BY <1>2, <2>1 DEF Abstract!Next, Abstract!GetNull
  <2>3. CASE key # NoKey
    <3>1. key \in Keys /\ array[i].key # key
      BY <1>1, <1>5, <2>3
    <3>2. \A s \in Slots : array[s].key # key
      <4>1. CASE array[i].key = NoKey
        BY <1>1, <3>1, <4>1, KeyAbsent DEF IInv
      <4>2. CASE array[i].key # NoKey
        <5>1. Following(i) = Home(key)
          BY <1>1, <1>5, <3>1, <4>2 DEF GetStep
        <5> QED
          BY <1>1, <3>1, <4>2, <5>1, FullTurnSeesAll DEF IInv
      <4> QED
        BY <4>1, <4>2
    <3>3. Contents[key] = NotFound
      BY <1>1, <3>1, <3>2 DEF Contents, Current
    <3> QED
      BY <1>2, <2>1, <3>1, <3>3 DEF Abstract!Next, Abstract!Get
  <2> QED
    BY <2>2, <2>3
<1> QED
  BY <1>3, <1>4, <1>5

(* hash_set takes effect where it writes its slot. *)
LEMMA InsertRefines ==
  ASSUME IInv, Insert
  PROVE  [Abstract!Next]_(Abstract!vars)
<1>1. /\ pc = "set" /\ i \in Slots /\ array \in [Slots -> Slot]
      /\ key \in Keys /\ value \in Values /\ array[i].key = NoKey
      /\ array' = [array EXCEPT ![i] = [key |-> key, value |-> value]]
      /\ old' = old /\ ret' = ret
  BY DEF Insert, SetReturns, IInv, TypeOK, resizing
<1>2. CASE Rehashing
  BY <1>1, <1>2, SameContents DEF Current, Rehashing, Abstract!vars
<1>3. CASE ~ Rehashing
  <2>1. \A s \in Slots : array[s].key # key
    BY <1>1, KeyAbsent DEF IInv
  <2>2. Contents' = [Contents EXCEPT ![key] = value]
    BY <1>1, <1>3, <2>1, WriteContents DEF Rehashing
  <2> QED
    BY <1>1, <2>2 DEF Abstract!Next, Abstract!Set
<1> QED
  BY <1>2, <1>3

LEMMA OverwriteRefines ==
  ASSUME IInv, Overwrite
  PROVE  [Abstract!Next]_(Abstract!vars)
<1>1. /\ i \in Slots /\ array \in [Slots -> Slot] /\ array[i] \in Slot
      /\ key \in Keys /\ value \in Values /\ array[i].key = key
      /\ array' = [array EXCEPT ![i] = [array[i] EXCEPT !.value = value]]
      /\ old' = old /\ ret' = ret
  BY DEF Overwrite, SetReturns, IInv, TypeOK, resizing
<1>2. ~ Rehashing /\ ~ Rehashing'
  BY <1>1, OverwriteOutside DEF Rehashing
<1>3. \A s \in Slots : s # i => array[s].key # key
  BY <1>1, NoKeyIsNoKey DEF IInv, UniqueKeys, Occupied
<1>4. array'[i].key = key /\ array'[i].value = value
  BY <1>1 DEF Slot
<1>5. Contents' = [Contents EXCEPT ![key] = value]
  BY <1>1, <1>2, <1>3, <1>4, WriteContents
<1> QED
  BY <1>1, <1>5 DEF Abstract!Next, Abstract!Set

LEMMA NextRefines ==
  IInv /\ [Next]_vars => [Abstract!Next]_(Abstract!vars)
<1> SUFFICES ASSUME IInv, [Next]_vars
             PROVE  [Abstract!Next]_(Abstract!vars)
  OBVIOUS
<1>1. ASSUME UNCHANGED <<array, old, ret>>
      PROVE  UNCHANGED (Abstract!vars)
  BY <1>1, SameContents DEF Current, Rehashing, Abstract!vars
<1>2. CASE Call \/ Advance \/ ResizeFails \/ RehashSlot \/ UNCHANGED vars
  BY <1>1, <1>2
  DEF Call, Get, Set, Advance, ResizeFails, RehashSlot, vars, table, resizing
<1>3. CASE FullTurn
  <2>1. NeedResize
    <3>1. TypeOK'
      BY NextTypeOK DEF IInv
    <3> QED
      BY <1>3, <3>1, FullTurnIInv
  <2> QED
    BY <1>1, <1>3, <2>1 DEF FullTurn, table, resizing
<1>4. CASE ResizeAllocates
  <2>1. ~ Rehashing /\ old' = array
    BY <1>4 DEF ResizeAllocates, IInv, TypeOK
  <2>2. Rehashing'
    BY <2>1, TableIsTable DEF IInv, TypeOK, Slots, Rehashing, NoTable, Empty
  <2>3. Current' = array /\ Current = array
    BY <2>1, <2>2 DEF Current
  <2> QED
    BY <1>4, <2>3, SameContents DEF ResizeAllocates, Abstract!vars
<1>5. CASE RehashDone
  BY <1>5, RehashDoneContents DEF RehashDone, Abstract!vars
<1> QED
  BY <1>2, <1>3, <1>4, <1>5, GetStepRefines, InsertRefines, OverwriteRefines
  DEF Next, Run

(* For every hash function, every number of keys and every failure of      *)
(* calloc, the table is a map: hash_get answers the value last set.        *)
THEOREM Refinement == Spec => ImplementsMap
<1>1. Init => Abstract!Init
  BY InitRefines
<1>2. IInv /\ [Next]_vars => [Abstract!Next]_(Abstract!vars)
  BY NextRefines
<1> QED
  BY <1>1, <1>2, InductiveInvariant, PTL
  DEF Spec, ImplementsMap, Abstract!Spec
=============================================================================

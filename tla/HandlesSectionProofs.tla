------------------------ MODULE HandlesSectionProofs ------------------------
(***************************************************************************)
(* Proofs about HandlesSection, for any objects, any widths of the modular *)
(* chars and any limits: what the writer promises of the object map, and   *)
(* what the readers make of a map that it wrote.                           *)
(***************************************************************************)
EXTENDS HandlesSection, FiniteSetTheorems, WellFoundedInduction, TLAPS

USE SectionConstants

-----------------------------------------------------------------------------
(* The pairs of the map and the cells of a page. *)

(* A pair takes some bytes, and at most MaxPair, whatever its offsets are. *)
LEMMA PairWidth ==
  ASSUME NEW h, NEW o
  PROVE  /\ PairCell(h, o).width \in Nat
         /\ PairCell(h, o).width <= MaxPair
         /\ PairCell(h, o).kind = "pair"
<1> DEFINE U == {s \in UmcSteps : s <= h}
           M == {s \in McSteps : s <= o}
<1>1. IsFiniteSet(U) /\ Cardinality(U) <= Cardinality(UmcSteps)
  BY FS_Subset
<1>2. IsFiniteSet(M) /\ Cardinality(M) <= Cardinality(McSteps)
  BY FS_Subset
<1>3. /\ Cardinality(U) \in Nat /\ Cardinality(UmcSteps) \in Nat
      /\ Cardinality(M) \in Nat /\ Cardinality(McSteps) \in Nat
  BY <1>1, <1>2, FS_CardinalityType
<1> HIDE DEF U, M
<1>4. PairCell(h, o) = [kind |-> "pair", offset |-> o,
                        width |-> UmcMin + Cardinality(U) + (1 + Cardinality(M))]
  BY DEF PairCell, UmcSize, McSize, U, M
<1> QED
  BY <1>1, <1>2, <1>3, <1>4 DEF MaxPair

(* A page may have the size of its own size field. *)
LEMMA MaxPairType == MaxPair \in Nat /\ MaxPair >= 2
<1>1. Cardinality(UmcSteps) \in Nat /\ Cardinality(McSteps) \in Nat
  BY FS_CardinalityType
<1> QED
  BY <1>1 DEF MaxPair

(* No size cell of a stream is over the bound. *)
Bounded(s) ==
  \A p \in DOMAIN s : s[p].kind = "size" => s[p].value <= PageLimit + MaxPair

LEMMA PutBounded ==
  ASSUME NEW s, Bounded(s), NEW p, NEW c,
         c.kind = "size" => c.value <= PageLimit + MaxPair
  PROVE  Bounded(Put(s, p, c))
  BY DEF Bounded, Put

LEMMA PutSize ==
  ASSUME NEW s, Bounded(s), NEW p, NEW n, n <= PageLimit + MaxPair
  PROVE  Bounded(Put(s, p, SizeCell(n)))
<1>1. SizeCell(n).value = n
  BY DEF SizeCell
<1> QED
  BY <1>1, PutBounded

LEMMA PutCrc ==
  ASSUME NEW s, Bounded(s), NEW p, NEW sum
  PROVE  Bounded(Put(s, p, CrcCell(sum)))
<1>1. CrcCell(sum).kind # "size"
  BY DEF CrcCell
<1> QED
  BY <1>1, PutBounded

LEMMA PutPair ==
  ASSUME NEW s, Bounded(s), NEW p, NEW h, NEW o
  PROVE  Bounded(Put(s, p, PairCell(h, o)))
<1>1. PairCell(h, o).kind # "size"
  BY PairWidth
<1> QED
  BY <1>1, PutBounded

LEMMA CloseBounded ==
  ASSUME NEW s, Bounded(s), NEW end, end - size_adr <= PageLimit + MaxPair
  PROVE  Bounded(ClosePage(s, end))
  BY PutSize, PutCrc DEF ClosePage

-----------------------------------------------------------------------------
(* The insertion sort. *)

(* The part of IInv that the sort establishes. *)
Head0 == object \in Seq(Objects) /\ i \in Nat \ {0}
InRange == phase \in {"sort", "objects", "map"} => i <= NumObjects + 1
SortInv ==
  /\ Head0 /\ InRange
  /\ phase \notin {"start", "failed"} => Filled /\ Sorted

LEMMA ObjectType ==
  ASSUME NEW x \in Objects
  PROVE  x.handle \in Nat /\ x.length \in Nat
<1>1. Handles \subseteq Nat /\ Lengths \subseteq Nat /\ 0 \in Nat
  BY DEF SectionConstants
<1>2. CASE x \in [kind : {"live"}, handle : Handles, length : Lengths]
  BY <1>1, <1>2
<1>3. CASE x \in [kind : {"huge"}, handle : Handles, length : {0}]
  BY <1>1, <1>3
<1>4. CASE x \in [kind : {"unused"}, handle : {0}, length : {0}]
  BY <1>1, <1>4
<1> QED
  BY <1>2, <1>3, <1>4 DEF Objects

(* An entry, and what it stands for. *)
LEMMA EntryType ==
  ASSUME Head0, NEW o \in 1 .. NumObjects
  PROVE  /\ Entry(o) \in [index : Nat, handle : Nat, address : Nat]
         /\ InMap(Entry(o)) => Entry(o).index = o - 1
<1>1. object[o] \in Objects /\ NumObjects \in Nat
  BY DEF Head0, NumObjects
<1>2. object[o].handle \in Nat
  BY <1>1, ObjectType
<1> QED
  BY <1>1, <1>2 DEF Entry, InMap, NumObjects

LEMMA FillSorts == Head0 /\ FillMap => SortInv'
<1> SUFFICES ASSUME Head0, FillMap PROVE SortInv'
  OBVIOUS
<1>1. NumObjects \in Nat /\ NumObjects' = NumObjects /\ i' = 1 /\ phase' = "sort"
  BY DEF Head0, NumObjects, FillMap
<1>2. \A o : Entry(o)' = Entry(o)
  BY DEF FillMap, Entry
<1>3. omap' = [o \in 1 .. NumObjects |-> Entry(o)]
  BY DEF FillMap
<1>4. Filled'
  BY <1>1, <1>3, EntryType DEF Filled, InMap
<1>5. Sorted'
  BY <1>1, <1>2, <1>3 DEF Sorted, Prefix
<1>6. Head0' /\ InRange'
  BY <1>1 DEF Head0, InRange, FillMap
<1> QED
  BY <1>4, <1>5, <1>6 DEF SortInv

(* One turn of the sort. *)
LEMMA InsertSorts == SortInv /\ SortEntry => SortInv'
<1> SUFFICES ASSUME SortInv, SortEntry PROVE SortInv'
  OBVIOUS
<1>1. PICK k \in 1 .. i :
        /\ k > 1 => omap[k - 1].handle <= omap[i].handle
        /\ \A o \in k .. i - 1 : omap[o].handle > omap[i].handle
        /\ omap' = InsertAt(k)
  BY DEF SortEntry
<1>2. /\ NumObjects \in Nat /\ NumObjects' = NumObjects
      /\ i \in 1 .. NumObjects /\ i' = i + 1
      /\ phase = "sort" /\ phase' = "sort" /\ object' = object
  BY DEF SortInv, Head0, NumObjects, SortEntry
<1>3. Filled /\ Sorted
  BY <1>2 DEF SortInv
<1>4. /\ omap \in [1 .. NumObjects -> [index : Nat, handle : Nat, address : Nat]]
      /\ \A o \in 1 .. NumObjects : InMap(omap[o]) => omap[o].index + 1 \in 1 .. NumObjects
  BY <1>3 DEF Filled
<1>5. Prefix = 1 .. i - 1 /\ Prefix' = 1 .. i
  BY <1>2 DEF Prefix
<1>6. \A o : Entry(o)' = Entry(o)
  BY <1>2 DEF Entry
<1>7. /\ omap[i] = Entry(i)
      /\ \A o \in i .. NumObjects : omap[o] = Entry(o)
      /\ \A o \in 1 .. i - 1 : InMap(omap[o]) => omap[o].index + 1 < i
  BY <1>2, <1>3, <1>5 DEF Sorted
<1>8. InMap(omap[i]) => omap[i].index = i - 1
  BY <1>2, <1>7, EntryType DEF SortInv
<1>9. /\ DOMAIN omap' = 1 .. NumObjects
      /\ omap'[k] = omap[i]
      /\ \A o \in 1 .. NumObjects : o < k \/ o > i => omap'[o] = omap[o]
      /\ \A o \in k + 1 .. i : omap'[o] = omap[o - 1]
  BY <1>1, <1>2, <1>4 DEF InsertAt
<1>10. \A o \in 1 .. NumObjects : \E q \in 1 .. NumObjects : omap'[o] = omap[q]
  BY <1>2, <1>9
<1>11. Filled'
  <2>1. omap' = [o \in 1 .. NumObjects |-> omap'[o]]
    BY <1>1, <1>2, <1>4 DEF InsertAt
  <2>2. omap' \in [1 .. NumObjects -> [index : Nat, handle : Nat, address : Nat]]
    BY <1>4, <1>10, <2>1
  <2>3. \A o \in 1 .. NumObjects : InMap(omap'[o]) => omap'[o].index + 1 \in 1 .. NumObjects
    BY <1>4, <1>10
  <2> QED
    BY <1>2, <2>2, <2>3 DEF Filled
<1>12. \A p, q \in 1 .. i - 1 : p < q =>
         /\ omap[p].handle <= omap[q].handle
         /\ InMap(omap[p]) /\ InMap(omap[q]) /\ omap[p].handle = omap[q].handle
              => omap[p].index < omap[q].index
  BY <1>3, <1>5 DEF Sorted
<1>13. \A p \in 1 .. k - 1 : omap[p].handle <= omap[i].handle
  <2> SUFFICES ASSUME NEW p \in 1 .. k - 1 PROVE omap[p].handle <= omap[i].handle
    OBVIOUS
  <2>1. p \in 1 .. NumObjects /\ k - 1 \in 1 .. NumObjects /\ k > 1
    BY <1>2
  <2>2. omap[p].handle \in Nat /\ omap[k - 1].handle \in Nat /\ omap[i].handle \in Nat
    BY <1>2, <1>4, <2>1
  <2>3. omap[p].handle <= omap[k - 1].handle
    BY <1>2, <1>12, <2>1, <2>2
  <2> QED
    BY <1>1, <2>1, <2>2, <2>3
<1>14. ASSUME NEW p \in 1 .. i, NEW q \in 1 .. i, p < q
       PROVE  /\ omap'[p].handle <= omap'[q].handle
              /\ InMap(omap'[p]) /\ InMap(omap'[q]) /\ omap'[p].handle = omap'[q].handle
                   => omap'[p].index < omap'[q].index
  <2>1. \A o \in 1 .. i : omap[o].handle \in Nat /\ omap[o].index \in Nat
    BY <1>2, <1>4
  <2>2. CASE q < k
    BY <1>2, <1>9, <1>12, <1>14, <2>2
  <2>3. CASE q = k
    <3>1. omap'[p] = omap[p] /\ omap'[q] = omap[i] /\ p \in 1 .. k - 1 /\ p \in 1 .. i - 1
      BY <1>2, <1>9, <1>14, <2>3
    <3> QED
      BY <1>2, <1>7, <1>8, <1>13, <2>1, <3>1
  <2>4. CASE q > k /\ p < k
    <3>1. omap'[p] = omap[p] /\ omap'[q] = omap[q - 1] /\ p \in 1 .. i - 1
          /\ q - 1 \in 1 .. i - 1 /\ p < q - 1
      BY <1>2, <1>9, <1>14, <2>4
    <3> QED
      BY <1>12, <3>1
  <2>5. CASE q > k /\ p = k
    <3>1. omap'[p] = omap[i] /\ omap'[q] = omap[q - 1] /\ q - 1 \in k .. i - 1
      BY <1>2, <1>9, <1>14, <2>5
    <3>2. omap[q - 1].handle > omap[i].handle
      BY <1>1, <3>1
    <3> QED
      BY <1>2, <2>1, <3>1, <3>2
  <2>6. CASE q > k /\ p > k
    <3>1. omap'[p] = omap[p - 1] /\ omap'[q] = omap[q - 1] /\ p - 1 \in 1 .. i - 1
          /\ q - 1 \in 1 .. i - 1 /\ p - 1 < q - 1
      BY <1>2, <1>9, <1>14, <2>6
    <3> QED
      BY <1>12, <3>1
  <2> QED
    BY <1>2, <2>2, <2>3, <2>4, <2>5, <2>6
<1>15. \A o \in 1 .. i : \E q \in 1 .. i : SameObject(omap'[q], Entry(o))
  <2> SUFFICES ASSUME NEW o \in 1 .. i
               PROVE  \E q \in 1 .. i : SameObject(omap'[q], Entry(o))
    OBVIOUS
  <2>1. CASE o = i
    BY <1>2, <1>7, <1>9, <2>1 DEF SameObject
  <2>2. CASE o < i
    <3>1. PICK p \in 1 .. i - 1 : SameObject(omap[p], Entry(o))
      BY <1>2, <1>3, <1>5, <2>2 DEF Sorted
    <3>2. CASE p < k
      BY <1>2, <1>9, <3>1, <3>2
    <3>3. CASE p >= k
      <4>1. p + 1 \in k + 1 .. i /\ omap'[p + 1] = omap[p]
        BY <1>2, <1>9, <3>1, <3>3
      <4> QED
        BY <1>2, <3>1, <4>1
    <3> QED
      BY <1>2, <3>1, <3>2, <3>3
  <2> QED
    BY <1>2, <2>1, <2>2
<1>16. \A o \in 1 .. i : InMap(omap'[o]) => omap'[o].index + 1 < i + 1
  <2> SUFFICES ASSUME NEW o \in 1 .. i, InMap(omap'[o])
               PROVE  omap'[o].index + 1 < i + 1
    OBVIOUS
  <2>1. PICK q \in 1 .. i : omap'[o] = omap[q]
    BY <1>2, <1>9
  <2>2. omap[q].index \in Nat
    BY <1>2, <1>4
  <2> QED
    BY <1>2, <1>7, <1>8, <2>1, <2>2
<1>17. \A o \in i + 1 .. NumObjects : omap'[o] = Entry(o)
  BY <1>2, <1>7, <1>9
<1>18. Sorted'
  BY <1>2, <1>5, <1>6, <1>14, <1>15, <1>16, <1>17 DEF Sorted
<1>19. Head0' /\ InRange'
  BY <1>2 DEF SortInv, Head0, InRange, NumObjects
<1> QED
  BY <1>11, <1>18, <1>19 DEF SortInv

(* Outside of the sort, nothing of the map but its addresses changes. *)
LEMMA KeepsSorted ==
  ASSUME SortInv, ~ Sorting, phase' \notin {"start", "failed", "sort"},
         object' = object, i' \in Nat \ {0}, InRange',
         omap' = omap \/ \E k, a : a \in Nat /\ omap' = [omap EXCEPT ![k].address = a]
  PROVE  SortInv'
<1>1. /\ NumObjects \in Nat /\ NumObjects' = NumObjects
      /\ phase # "sort" /\ phase' # "sort" /\ Filled /\ Sorted
      /\ phase' \notin {"start", "failed"}
  BY DEF SortInv, Head0, NumObjects, Sorting
<1>2. omap \in [1 .. NumObjects -> [index : Nat, handle : Nat, address : Nat]]
  BY <1>1 DEF Filled
<1>3. /\ omap' \in [1 .. NumObjects -> [index : Nat, handle : Nat, address : Nat]]
      /\ \A o \in 1 .. NumObjects : SameObject(omap'[o], omap[o])
  <2>1. CASE omap' = omap
    BY <1>2, <2>1 DEF SameObject
  <2>2. CASE \E k, a : a \in Nat /\ omap' = [omap EXCEPT ![k].address = a]
    <3>1. PICK k, a : a \in Nat /\ omap' = [omap EXCEPT ![k].address = a]
      BY <2>2
    <3>2. \A o \in 1 .. NumObjects :
            omap'[o] = IF o = k THEN [omap[o] EXCEPT !.address = a] ELSE omap[o]
      BY <1>2, <3>1
    <3>3. \A o \in 1 .. NumObjects :
            /\ omap'[o] \in [index : Nat, handle : Nat, address : Nat]
            /\ SameObject(omap'[o], omap[o])
      BY <1>2, <3>1, <3>2 DEF SameObject
    <3>4. omap' = [o \in 1 .. NumObjects |-> omap'[o]]
      BY <1>2, <3>1
    <3> QED
      BY <3>3, <3>4
  <2> QED
    BY <2>1, <2>2
<1>4. Prefix = 1 .. NumObjects /\ Prefix' = 1 .. NumObjects
  BY <1>1 DEF Prefix
<1>5. \A o : Entry(o)' = Entry(o)
  BY DEF Entry
<1>6. Filled'
  BY <1>1, <1>3 DEF Filled, SameObject, InMap
<1>7. \A p, q \in 1 .. NumObjects : p < q =>
        /\ omap'[p].handle <= omap'[q].handle
        /\ InMap(omap'[p]) /\ InMap(omap'[q]) /\ omap'[p].handle = omap'[q].handle
             => omap'[p].index < omap'[q].index
  BY <1>1, <1>3, <1>4 DEF Sorted, SameObject, InMap
<1>8. \A o \in 1 .. NumObjects : \E q \in 1 .. NumObjects : SameObject(omap'[q], Entry(o))
  BY <1>1, <1>3, <1>4 DEF Sorted, SameObject
<1>9. Sorted'
  BY <1>1, <1>4, <1>5, <1>7, <1>8 DEF Sorted
<1> QED
  BY <1>1, <1>6, <1>9 DEF SortInv, Head0

LEMMA SortStep == SortInv /\ at \in Nat /\ [Next]_vars => SortInv'
<1> SUFFICES ASSUME SortInv, at \in Nat, [Next]_vars PROVE SortInv'
  OBVIOUS
<1>1. Head0 /\ NumObjects \in Nat /\ InRange
  BY DEF SortInv, Head0, NumObjects
<1>2. CASE FillMap
  BY <1>1, <1>2, FillSorts
<1>3. CASE NoMemory
  BY <1>3 DEF NoMemory, SortInv, Head0, InRange
<1>4. CASE SortEntry
  BY <1>4, InsertSorts
<1>5. CASE SortDone
  <2>1. /\ phase = "sort" /\ phase' = "objects" /\ i' = 1 /\ i = NumObjects + 1
        /\ object' = object /\ omap' = omap /\ NumObjects' = NumObjects
    BY <1>1, <1>5 DEF SortDone, InRange, Head0, writer, NumObjects
  <2>2. Prefix = 1 .. NumObjects /\ Prefix' = 1 .. NumObjects
    BY <1>1, <2>1 DEF Prefix
  <2>3. \A o : Entry(o)' = Entry(o)
    BY <2>1 DEF Entry
  <2>4. Filled'
    BY <2>1 DEF SortInv, Filled
  <2>5. Sorted'
    BY <2>1, <2>2, <2>3 DEF SortInv, Sorted
  <2> QED
    BY <1>1, <2>1, <2>4, <2>5 DEF SortInv, Head0, InRange
<1>6. CASE SkipObject \/ WriteObject \/ HugeObject
  <2>1. /\ ~ Sorting /\ phase' = "objects" /\ object' = object
        /\ i' = i + 1 /\ i <= NumObjects /\ NumObjects' = NumObjects
    BY <1>6 DEF SkipObject, WriteObject, HugeObject, Sorting, NumObjects
  <2>2. omap' = omap \/ \E k, a : a \in Nat /\ omap' = [omap EXCEPT ![k].address = a]
    BY <1>6 DEF SkipObject, WriteObject, HugeObject, writer
  <2>3. i' \in Nat \ {0} /\ InRange'
    BY <1>1, <2>1 DEF Head0, InRange
  <2> QED
    BY <2>1, <2>2, <2>3, KeepsSorted
<1>7. CASE StartPages \/ SkipPair \/ WritePair \/ WriteLastPair \/ EndMap
  <2>1. /\ ~ Sorting /\ phase' \in {"map", "written"} /\ object' = object /\ omap' = omap
        /\ \/ i' = 1
           \/ i' = i + 1 /\ i <= NumObjects
           \/ i' = i /\ phase' = "written"
        /\ NumObjects' = NumObjects
    BY <1>7 DEF StartPages, SkipPair, WritePair, WriteLastPair, EndMap, Sorting,
                writer, NumObjects
  <2>2. i' \in Nat \ {0} /\ InRange'
    BY <1>1, <2>1 DEF Head0, InRange
  <2> QED
    BY <2>1, <2>2, KeepsSorted
<1>8. CASE Read
  <2>1. /\ ~ Sorting /\ phase' \in {"page", "refused", "pairs", "read"}
        /\ object' = object /\ omap' = omap /\ i' = i
    BY <1>8 DEF Read, OpenFile, OpenPage, ReadPair, EndPage, Sorting, writer
  <2>2. i' \in Nat \ {0} /\ InRange'
    BY <1>1, <2>1 DEF Head0, InRange
  <2> QED
    BY <2>1, <2>2, KeepsSorted
<1>9. CASE UNCHANGED vars
  <2>1. object' = object /\ phase' = phase /\ i' = i /\ omap' = omap
    BY <1>9 DEF vars, writer
  <2> QED
    BY <2>1 DEF SortInv, Head0, InRange, Filled, Sorted, Prefix, Entry, NumObjects,
                InMap, SameObject
<1> QED
  BY <1>2, <1>3, <1>4, <1>5, <1>6, <1>7, <1>8, <1>9 DEF Next, Write, Finished

-----------------------------------------------------------------------------
(* The objects stream. *)

LayInv == at \in Nat /\ (~ Sorting => Laid)

(* What an entry of the map leads to. *)
LEMMA ObjectOfType ==
  ASSUME SortInv, ~ Sorting, NEW k \in 1 .. NumObjects, InMap(omap[k])
  PROVE  ObjectOf(omap[k]) \in Objects /\ ObjectOf(omap[k]).length \in Nat
<1>1. omap[k].index + 1 \in 1 .. NumObjects
  BY DEF SortInv, Sorting, Filled
<1>2. ObjectOf(omap[k]) \in Objects
  BY <1>1 DEF ObjectOf, SortInv, Head0, NumObjects
<1> QED
  BY <1>2, ObjectType

(* The i-th entry gets an address, and its object may write "len" bytes.   *)
LEMMA LayOne ==
  ASSUME SortInv, LayInv, phase = "objects", phase' = "objects", object' = object,
         i <= NumObjects, i' = i + 1, NEW len \in Nat, at' = at + len,
         omap' = [omap EXCEPT ![i].address = at],
         ObjectOf(omap[i]).kind = "live" => ObjectOf(omap[i]).length = len
  PROVE  LayInv'
<1>1. /\ NumObjects \in Nat /\ NumObjects' = NumObjects /\ i \in 1 .. NumObjects
      /\ at \in Nat /\ at' \in Nat /\ ~ Sorting /\ Laid
      /\ Done = 1 .. i - 1 /\ Done' = 1 .. i
  <2>1. NumObjects \in Nat /\ NumObjects' = NumObjects /\ i \in 1 .. NumObjects
    BY DEF SortInv, Head0, NumObjects
  <2>2. ~ Sorting /\ Laid /\ at \in Nat /\ at' \in Nat
    BY DEF LayInv, Sorting
  <2>3. Done = 1 .. i - 1 /\ Done' = 1 .. i' - 1 /\ i' - 1 = i
    BY <2>1 DEF Done
  <2> QED
    BY <2>1, <2>2, <2>3
<1>2. omap \in [1 .. NumObjects -> [index : Nat, handle : Nat, address : Nat]]
  BY <1>1 DEF SortInv, Sorting, Filled
<1> PICK n \in 1 .. NumObjects : n = i
  BY <1>1
<1>3. /\ omap'[n].address = at
      /\ omap'[n].index = omap[n].index /\ omap'[n].handle = omap[n].handle
      /\ \A k \in 1 .. n - 1 : omap'[k] = omap[k]
  BY <1>1, <1>2
<1>4. /\ ObjectOf(omap[n])' = ObjectOf(omap[n])
      /\ \A k \in 1 .. n - 1 : /\ InMap(omap'[k]) <=> InMap(omap[k])
                               /\ ObjectOf(omap[k])' = ObjectOf(omap[k])
  <2>1. ASSUME NEW k, omap'[k].index = omap[k].index
        PROVE  ObjectOf(omap[k])' = ObjectOf(omap[k])
    BY <2>1 DEF ObjectOf
  <2> QED
    BY <1>1, <1>3, <2>1 DEF InMap
<1>5. ASSUME NEW k \in 1 .. n - 1, InMap(omap[k])
      PROVE  /\ omap[k].address <= at
             /\ ObjectOf(omap[k]).kind = "live"
                  => omap[k].address + ObjectOf(omap[k]).length <= at
  BY <1>1, <1>5 DEF Laid
<1>6. \A k \in 1 .. n : omap[k].address \in Nat
  BY <1>1, <1>2
<1>7. \A k \in 1 .. n - 1 : InMap(omap[k]) => ObjectOf(omap[k]).length \in Nat
  BY <1>1, ObjectOfType
<1>8. ASSUME NEW k \in 1 .. n, InMap(omap'[k])
      PROVE  /\ omap'[k].address <= at'
             /\ ObjectOf(omap[k])'.kind = "live"
                  => omap'[k].address + ObjectOf(omap[k])'.length <= at'
  <2>1. CASE k = n
    BY <1>1, <1>3, <1>4, <2>1
  <2>2. CASE k < n
    <3>1. k \in 1 .. n - 1 /\ InMap(omap[k]) /\ omap'[k] = omap[k]
          /\ ObjectOf(omap[k])' = ObjectOf(omap[k])
      BY <1>1, <1>3, <1>4, <1>8, <2>2
    <3>2. /\ omap[k].address \in Nat /\ ObjectOf(omap[k]).length \in Nat
          /\ at \in Nat /\ at <= at'
      BY <1>1, <1>6, <1>7, <3>1
    <3>3. /\ omap[k].address <= at
          /\ ObjectOf(omap[k]).kind = "live"
               => omap[k].address + ObjectOf(omap[k]).length <= at
      BY <1>5, <3>1
    <3> DEFINE a == omap[k].address
               o == ObjectOf(omap[k])
    <3>4. a \in Nat /\ a <= at /\ at \in Nat /\ at' \in Nat /\ at <= at'
      BY <1>1, <3>2, <3>3
    <3>5. a <= at'
      BY <3>4
    <3>6. o.kind = "live" => a + o.length <= at'
      BY <3>2, <3>3, <3>4
    <3> QED
      BY <3>1, <3>5, <3>6
  <2> QED
    BY <1>1, <2>1, <2>2
<1>9. ASSUME NEW k \in 1 .. n, NEW m \in 1 .. n, k < m, InMap(omap'[k]), InMap(omap'[m]),
             ObjectOf(omap[k])'.kind = "live"
      PROVE  omap'[k].address + ObjectOf(omap[k])'.length <= omap'[m].address
  <2>1. k \in 1 .. n - 1 /\ InMap(omap[k]) /\ omap'[k] = omap[k]
        /\ ObjectOf(omap[k])' = ObjectOf(omap[k])
    BY <1>1, <1>3, <1>4, <1>9
  <2>2. CASE m = n
    BY <1>3, <1>5, <1>9, <2>1, <2>2
  <2>3. CASE m < n
    <3>1. m \in 1 .. n - 1 /\ InMap(omap[m]) /\ omap'[m] = omap[m]
      BY <1>1, <1>3, <1>4, <1>9, <2>3
    <3> QED
      BY <1>1, <1>9, <2>1, <3>1 DEF Laid
  <2> QED
    BY <1>1, <2>2, <2>3
<1>10. Laid'
  BY <1>1, <1>8, <1>9 DEF Laid
<1> QED
  BY <1>1, <1>10 DEF LayInv

(* A step that gives out no address. *)
LEMMA KeepsLaid ==
  ASSUME SortInv, LayInv, ~ Sorting, ~ Sorting', object' = object, omap' = omap,
         at' = at, Done' = Done
  PROVE  LayInv'
  BY DEF LayInv, Laid, ObjectOf

LEMMA LayStep == SortInv /\ LayInv /\ [Next]_vars => LayInv'
<1> SUFFICES ASSUME SortInv, LayInv, [Next]_vars PROVE LayInv'
  OBVIOUS
<1>1. Head0 /\ NumObjects \in Nat /\ InRange
  BY DEF SortInv, Head0, NumObjects
<1>2. CASE FillMap \/ NoMemory \/ SortEntry
  BY <1>2 DEF FillMap, NoMemory, SortEntry, LayInv, Sorting, writer
<1>3. CASE SortDone
  <2>1. Done' = {} /\ at' = at
    BY <1>1, <1>3 DEF SortDone, Done, writer
  <2> QED
    BY <2>1 DEF LayInv, Laid
<1>4. CASE SkipObject
  <2>1. /\ Done' = Done \cup {i} /\ Done = 1 .. i - 1 /\ ~ InMap(omap[i])
        /\ object' = object /\ omap' = omap /\ at' = at /\ ~ Sorting
    BY <1>1, <1>4 DEF SkipObject, Done, writer, Head0, Sorting
  <2>2. Laid
    BY <2>1 DEF LayInv
  <2>3. \A k \in Done' : InMap(omap[k]) => k \in Done
    BY <2>1
  <2>4. Laid'
    BY <2>1, <2>2, <2>3 DEF Laid, ObjectOf
  <2> QED
    BY <2>1, <2>4 DEF LayInv
<1>5. CASE WriteObject
  <2>1. i \in 1 .. NumObjects /\ ~ Sorting /\ InMap(omap[i])
    BY <1>1, <1>5 DEF WriteObject, Head0, Sorting
  <2>2. ObjectOf(omap[i]).length \in Nat
    BY <2>1, ObjectOfType
  <2> QED
    BY <1>5, <2>1, <2>2, LayOne DEF WriteObject
<1>6. CASE HugeObject
  <2>1. at' = at + 0 /\ ObjectOf(omap[i]).kind # "live"
    BY <1>6 DEF HugeObject, LayInv
  <2> QED
    BY <1>6, <2>1, LayOne DEF HugeObject
<1>7. CASE StartPages
  <2>1. Done = 1 .. NumObjects /\ Done' = 1 .. NumObjects /\ ~ Sorting /\ ~ Sorting'
    BY <1>1, <1>7 DEF StartPages, Done, InRange, Head0, NumObjects, Sorting
  <2> QED
    BY <1>7, <2>1, KeepsLaid DEF StartPages, writer
<1>8. CASE SkipPair \/ WritePair \/ WriteLastPair \/ EndMap
  <2>1. Done' = Done /\ ~ Sorting /\ ~ Sorting'
    BY <1>8 DEF SkipPair, WritePair, WriteLastPair, EndMap, Done, NumObjects, Sorting
  <2> QED
    BY <1>8, <2>1, KeepsLaid DEF SkipPair, WritePair, WriteLastPair, EndMap, writer
<1>9. CASE Read
  <2>1. Done' = Done /\ ~ Sorting /\ ~ Sorting' /\ object' = object /\ omap' = omap
        /\ at' = at
    BY <1>9 DEF Read, OpenFile, OpenPage, ReadPair, EndPage, Done, NumObjects, Sorting,
                writer
  <2> QED
    BY <2>1, KeepsLaid
<1>10. CASE UNCHANGED vars
  BY <1>10 DEF vars, writer, LayInv, Laid, Sorting, Done, NumObjects, ObjectOf
<1> QED
  BY <1>2, <1>3, <1>4, <1>5, <1>6, <1>7, <1>8, <1>9, <1>10 DEF Next, Write, Finished

-----------------------------------------------------------------------------
(* The pages. *)

PageInv ==
  /\ byte \in Nat /\ size_adr \in Nat
  /\ phase = "map" => byte - size_adr <= PageLimit
  /\ Bounded(stream)

LEMMA PageStep == PageInv /\ [Next]_vars => PageInv'
<1> SUFFICES ASSUME PageInv, [Next]_vars PROVE PageInv'
  OBVIOUS
<1>1. MaxPair \in Nat /\ MaxPair >= 2 /\ PageLimit \in Nat /\ PageLimit >= 2
  BY MaxPairType
<1>2. CASE StartPages
  <2>1. Bounded(stream')
    BY <1>1, <1>2, PutSize DEF StartPages, PageInv
  <2> QED
    BY <1>1, <1>2, <2>1 DEF StartPages, PageInv
<1> DEFINE h == omap[i].handle - last_handle
           o == omap[i].address - last_offset
<1>3. /\ NextPair = PairCell(h, o)
      /\ PairEnd \in Nat /\ byte <= PairEnd /\ PairEnd <= byte + MaxPair
  BY <1>1, PairWidth DEF NextPair, PairEnd, PageInv
<1>4. CASE WritePair
  <2>1. Bounded(stream')
    BY <1>3, <1>4, PutPair DEF WritePair, PageInv
  <2> QED
    BY <1>1, <1>3, <1>4, <2>1 DEF WritePair, PageInv
<1>5. CASE WriteLastPair
  <2>1. Bounded(stream')
    <3> DEFINE s == Put(stream, byte, NextPair)
               c == ClosePage(s, PairEnd)
    <3>1. Bounded(s)
      BY <1>3, PutPair DEF PageInv
    <3>2. PairEnd - size_adr <= PageLimit + MaxPair
      BY <1>1, <1>3, <1>5 DEF WriteLastPair, PageInv
    <3>3. Bounded(c)
      BY <3>1, <3>2, CloseBounded
    <3>4. stream' = Put(c, PairEnd + 2, SizeCell(0))
      BY <1>5 DEF WriteLastPair
    <3> QED
      BY <1>1, <3>3, <3>4, PutSize
  <2> QED
    BY <1>1, <1>3, <1>5, <2>1 DEF WriteLastPair, PageInv
<1>6. CASE EndMap
  <2> DEFINE closed == IF ckr_missing THEN ClosePage(stream, byte) ELSE stream
             last == IF ckr_missing THEN byte + 2 ELSE byte
             sized == Put(closed, last, SizeCell(2))
  <2>1. Bounded(closed)
    BY <1>1, <1>6, CloseBounded DEF EndMap, PageInv
  <2>2. Bounded(sized)
    BY <1>1, <2>1, PutSize
  <2>3. stream' = Put(sized, last + 2, CrcCell(Content(sized, last, last + 2)))
    BY <1>6 DEF EndMap
  <2>4. Bounded(stream')
    BY <2>2, <2>3, PutCrc
  <2>5. byte' \in Nat /\ size_adr' \in Nat /\ phase' # "map"
    BY <1>6 DEF EndMap, PageInv
  <2> QED
    BY <2>4, <2>5 DEF PageInv
<1>7. CASE SkipPair
  BY <1>7 DEF SkipPair, pages, PageInv
<1>8. CASE FillMap \/ NoMemory \/ SortEntry \/ SortDone \/ SkipObject \/ WriteObject
            \/ HugeObject
  BY <1>8 DEF FillMap, NoMemory, SortEntry, SortDone, SkipObject, WriteObject,
              HugeObject, pages, PageInv
<1>9. CASE Read
  BY <1>9 DEF Read, OpenFile, OpenPage, ReadPair, EndPage, pages, PageInv
<1>10. CASE UNCHANGED vars
  BY <1>10 DEF vars, pages, PageInv
<1> QED
  BY <1>2, <1>4, <1>5, <1>6, <1>7, <1>8, <1>9, <1>10 DEF Next, Write, Finished

-----------------------------------------------------------------------------
(* The theorems. *)

LEMMA IInvParts == IInv <=> SortInv /\ LayInv /\ PageInv
  BY DEF IInv, SortInv, LayInv, PageInv, Head0, InRange, PagesBounded, Bounded

LEMMA InitHolds == Init => SortInv /\ LayInv /\ PageInv
<1> SUFFICES ASSUME Init PROVE SortInv /\ LayInv /\ PageInv
  OBVIOUS
<1>1. object \in Seq(Objects)
  <2>1. PICK n \in 0 .. MaxObjects : object \in [1 .. n -> Objects]
    BY DEF Init
  <2> QED
    BY <2>1
<1>2. SortInv
  BY <1>1 DEF Init, SortInv, Head0, InRange
<1>3. LayInv
  BY DEF Init, LayInv, Sorting, SectionConstants
<1>4. PageInv
  BY DEF Init, PageInv, Bounded
<1> QED
  BY <1>2, <1>3, <1>4

(* The inductive invariant: what the sort, the loop over the objects and   *)
(* the loop over the pairs have done so far.                               *)
THEOREM InductiveInvariant == Spec => []IInv
<1>1. Init => IInv
  BY InitHolds, IInvParts
<1>2. IInv /\ [Next]_vars => IInv'
  <2> SUFFICES ASSUME IInv, [Next]_vars PROVE IInv'
    OBVIOUS
  <2>1. SortInv /\ LayInv /\ PageInv /\ at \in Nat
    BY IInvParts DEF LayInv
  <2>2. SortInv' /\ LayInv' /\ PageInv'
    BY <2>1, SortStep, LayStep, PageStep
  <2>3. IInv' <=> SortInv' /\ LayInv' /\ PageInv'
    BY DEF IInv, SortInv, LayInv, PageInv, Head0, InRange, PagesBounded, Bounded
  <2> QED
    BY <2>2, <2>3
<1> QED
  BY <1>1, <1>2, PTL DEF Spec

(* The map is a permutation of the entries, ascending by handle; objects   *)
(* of the same handle keep their order.                                    *)
THEOREM SortedMap == Spec => []MapAscends
<1>1. IInv => MapAscends
  <2> SUFFICES ASSUME IInv, ~ Sorting PROVE MapAscends
    BY DEF MapAscends
  <2>1. NumObjects \in Nat /\ Filled /\ Sorted /\ Prefix = 1 .. NumObjects
    BY DEF IInv, NumObjects, Sorting, Prefix
  <2>2. Len(omap) = NumObjects
    BY <2>1 DEF Filled
  <2>3. \A o \in 1 .. NumObjects : \E k \in 1 .. NumObjects : SameObject(omap[k], Entry(o))
    BY <2>1 DEF Sorted
  <2>4. \A k, m \in 1 .. NumObjects : k < m =>
          /\ omap[k].handle <= omap[m].handle
          /\ InMap(omap[k]) /\ InMap(omap[m]) /\ omap[k].handle = omap[m].handle
               => omap[k].index < omap[m].index
    BY <2>1 DEF Sorted
  <2> QED
    BY <2>2, <2>3, <2>4 DEF MapAscends, SameObject
<1> QED
  BY <1>1, InductiveInvariant, PTL

(* No object that is written overlaps another one.                         *)
THEOREM NoOverlap == Spec => []ObjectsApart
<1>1. IInv => ObjectsApart
  <2> SUFFICES ASSUME IInv, phase \notin {"start", "failed", "sort", "objects"}
               PROVE  ObjectsApart
    BY DEF ObjectsApart
  <2>1. Laid /\ Done = 1 .. NumObjects
    BY DEF IInv, Sorting, Done
  <2> QED
    BY <2>1 DEF Laid, ObjectsApart
<1> QED
  BY <1>1, InductiveInvariant, PTL

(* No page is larger than the limit and one pair.                          *)
THEOREM PageSizes == Spec => []PagesBounded
<1>1. IInv => PagesBounded
  BY DEF IInv
<1> QED
  BY <1>1, InductiveInvariant, PTL
-----------------------------------------------------------------------------
(* Induction, and the course of the writer through a sorted map.           *)

(* A set of numbers has a least one. *)
LEMMA Least ==
  ASSUME NEW T, T \subseteq Nat, T # {}
  PROVE  \E x \in T : \A y \in T : x <= y
<1>1. IsWellFoundedOn(OpToRel(<, Nat), Nat)
  BY NatLessThanWellFounded
<1>2. PICK x \in T : \A y \in T : ~ (<<y, x>> \in OpToRel(<, Nat))
  BY <1>1, WFMin
<1>3. \A y \in T : ~ (y < x)
  BY <1>2 DEF OpToRel
<1> QED
  BY <1>3

(* A set of numbers is all of them when it has 0, and with each number the *)
(* next one.                                                               *)
LEMMA Induction ==
  ASSUME NEW G, 0 \in G, \A k \in Nat : k \in G => k + 1 \in G
  PROVE  \A k \in Nat : k \in G
<1> SUFFICES ASSUME NEW n \in Nat, n \notin G PROVE FALSE
  OBVIOUS
<1> DEFINE Bad == {k \in Nat : k \notin G}
<1>1. PICK k \in Bad : \A j \in Bad : k <= j
  BY Least
<1>2. k # 0 /\ k - 1 \in Nat /\ k - 1 \notin Bad
  BY <1>1
<1> QED
  BY <1>1, <1>2

Entries == [index : Nat, handle : Nat, address : Nat]

LEMMA CourseExists ==
  ASSUME NEW map, Len(map) \in Nat
  PROVE  \E f : f = [m \in 0 .. Len(map) |->
                       IF m = 0 THEN FirstPage ELSE StandsAfter(map, f[m - 1], m)]
<1> DEFINE Upto(n, f) == f = [m \in 0 .. n |->
                       IF m = 0 THEN FirstPage ELSE StandsAfter(map, f[m - 1], m)]
           G == {n \in Nat : \E f : Upto(n, f)}
<1>1. 0 \in G
  <2> DEFINE f == [m \in 0 .. 0 |-> FirstPage]
  <2>1. Upto(0, f)
    OBVIOUS
  <2> QED
    BY <2>1
<1>2. ASSUME NEW n \in Nat, n \in G PROVE n + 1 \in G
  <2>1. PICK f : Upto(n, f)
    BY <1>2
  <2> DEFINE g == [m \in 0 .. n + 1 |->
                     IF m = n + 1 THEN StandsAfter(map, f[n], n + 1) ELSE f[m]]
  <2>2. \A m \in 0 .. n : g[m] = f[m]
    OBVIOUS
  <2>3. ASSUME NEW m \in 0 .. n + 1
        PROVE  g[m] = IF m = 0 THEN FirstPage ELSE StandsAfter(map, g[m - 1], m)
    <3>1. CASE m = n + 1
      BY <2>2, <3>1
    <3>2. CASE m # n + 1
      <4>1. m \in 0 .. n /\ (m # 0 => m - 1 \in 0 .. n)
        BY <3>2
      <4>2. f[m] = IF m = 0 THEN FirstPage ELSE StandsAfter(map, f[m - 1], m)
        BY <2>1, <4>1
      <4> HIDE DEF g
      <4> QED
        BY <2>2, <4>1, <4>2
    <3> QED
      BY <3>1, <3>2
  <2>4. g = [m \in 0 .. n + 1 |-> g[m]]
    OBVIOUS
  <2>5. Upto(n + 1, g)
    <3> HIDE DEF g
    <3>1. [m \in 0 .. n + 1 |-> g[m]] =
          [m \in 0 .. n + 1 |->
             IF m = 0 THEN FirstPage ELSE StandsAfter(map, g[m - 1], m)]
      BY <2>3
    <3> QED
      BY <2>4, <3>1
  <2>6. \E f1 : Upto(n + 1, f1)
    <3> HIDE DEF g, Upto
    <3> QED
      BY <2>5
  <2> QED
    BY <2>6
<1> HIDE DEF G
<1>3. \A n \in Nat : n \in G
  BY <1>1, <1>2, Induction
<1> QED
  BY <1>3 DEF G

LEMMA CourseUnfolds ==
  ASSUME NEW map, Len(map) \in Nat
  PROVE  /\ Course(map)[0] = FirstPage
         /\ \A m \in 1 .. Len(map) :
              Course(map)[m] = StandsAfter(map, Course(map)[m - 1], m)
<1> DEFINE c == Course(map)
<1>1. c = [m \in 0 .. Len(map) |->
             IF m = 0 THEN FirstPage ELSE StandsAfter(map, c[m - 1], m)]
  BY CourseExists DEF Course
<1> HIDE DEF c
<1>2. \A m \in 0 .. Len(map) :
        c[m] = IF m = 0 THEN FirstPage ELSE StandsAfter(map, c[m - 1], m)
  BY <1>1
<1>3. c[0] = FirstPage
  BY <1>2
<1>4. \A m \in 1 .. Len(map) : c[m] = StandsAfter(map, c[m - 1], m)
  BY <1>2
<1> QED
  BY <1>3, <1>4 DEF c

(* A map with its addresses: handles and addresses do not fall. *)
Ascending(map) ==
  /\ map \in Seq(Entries)
  /\ \A k, m \in 1 .. Len(map) :
       k < m /\ InMap(map[k]) /\ InMap(map[m]) =>
         map[k].handle <= map[m].handle /\ map[k].address <= map[m].address

LEMMA AscendingTypes ==
  ASSUME NEW map, Ascending(map)
  PROVE  /\ Len(map) \in Nat
         /\ \A k \in 1 .. Len(map) :
              /\ map[k] \in Entries /\ map[k].index \in Nat
              /\ map[k].handle \in Nat /\ map[k].address \in Nat
<1>1. Len(map) \in Nat /\ \A k \in 1 .. Len(map) : map[k] \in Entries
  BY DEF Ascending
<1>2. ASSUME NEW e \in Entries
      PROVE  e.index \in Nat /\ e.handle \in Nat /\ e.address \in Nat
  BY DEF Entries
<1> QED
  BY <1>1, <1>2

(* Where the writer may stand after m entries: in a page that is not over  *)
(* the limit, its offsets not above those of any later entry.              *)
Standings == [byte : Nat, start : Nat, offset : Nat, handle : Nat, open : BOOLEAN]
StandsWell(map, w, m) ==
  /\ w \in Standings
  /\ w.start + 2 <= w.byte /\ w.byte - w.start <= PageLimit
  /\ ~ w.open => w.byte = w.start + 2 /\ w.offset = 0
  /\ \A k \in m + 1 .. Len(map) : InMap(map[k]) =>
       w.offset <= map[k].address /\ w.handle <= map[k].handle

LEMMA FirstStandsWell ==
  ASSUME NEW map, Ascending(map)
  PROVE  StandsWell(map, FirstPage, 0)
<1>1. \A k \in 1 .. Len(map) : map[k].address \in Nat /\ map[k].handle \in Nat
  BY AscendingTypes
<1> QED
  BY <1>1 DEF StandsWell, FirstPage, Standings

(* The pair of an entry, and where it ends. *)
LEMMA PairOf ==
  ASSUME NEW map, Ascending(map), NEW m \in 1 .. Len(map), NEW w,
         StandsWell(map, w, m - 1), InMap(map[m])
  PROVE  /\ PairAt(map, w, m) \in [kind : {"pair"}, offset : Nat, width : Nat \ {0}]
         /\ PairAt(map, w, m).offset = map[m].address - w.offset
         /\ EndAt(map, w, m) \in Nat /\ EndAt(map, w, m) > w.byte
         /\ EndAt(map, w, m) = w.byte + PairAt(map, w, m).width
<1> DEFINE h == map[m].handle - w.handle
           o == map[m].address - w.offset
           width == UmcSize(h) + McSize(o)
<1>1. map[m].address \in Nat /\ map[m].handle \in Nat /\ Len(map) \in Nat
  BY AscendingTypes
<1>2. /\ w.byte \in Nat /\ w.offset \in Nat /\ w.handle \in Nat
      /\ w.offset <= map[m].address /\ w.handle <= map[m].handle
  BY <1>1 DEF StandsWell, Standings
<1>3. h \in Nat /\ o \in Nat
  BY <1>1, <1>2
<1>4. width \in Nat /\ width > 0
  <2>1. UmcSize(h) \in Nat /\ UmcSize(h) > 0
    <3> DEFINE U == {s \in UmcSteps : s <= h}
    <3>1. Cardinality(U) \in Nat
      BY FS_Subset, FS_CardinalityType
    <3> QED
      BY <3>1 DEF UmcSize
  <2>2. McSize(o) \in Nat
    <3> DEFINE M == {s \in McSteps : s <= o}
    <3>1. Cardinality(M) \in Nat
      BY FS_Subset, FS_CardinalityType
    <3> QED
      BY <3>1 DEF McSize
  <2> QED
    BY <2>1, <2>2
<1>5. PairAt(map, w, m) = [kind |-> "pair", offset |-> o, width |-> width]
  BY DEF PairAt, PairCell
<1> HIDE DEF width
<1> QED
  BY <1>2, <1>3, <1>4, <1>5 DEF EndAt

LEMMA StandsOn ==
  ASSUME NEW map, Ascending(map), NEW m \in 1 .. Len(map), NEW w,
         StandsWell(map, w, m - 1)
  PROVE  StandsWell(map, StandsAfter(map, w, m), m)
<1>1. Len(map) \in Nat /\ m \in Nat /\ m - 1 + 1 = m
  BY DEF Ascending
<1>2. CASE ~ InMap(map[m])
  BY <1>1, <1>2 DEF StandsWell, StandsAfter
<1>3. CASE InMap(map[m])
  <2>1. EndAt(map, w, m) \in Nat /\ EndAt(map, w, m) > w.byte
    BY <1>3, PairOf
  <2>2. /\ w.start \in Nat /\ w.byte \in Nat /\ w.start + 2 <= w.byte
        /\ PageLimit \in Nat /\ PageLimit >= 2
    BY DEF StandsWell, Standings
  <2>3. \A k \in m + 1 .. Len(map) :
          /\ map[k].address \in Nat /\ map[k].handle \in Nat
          /\ InMap(map[k]) =>
               map[m].address <= map[k].address /\ map[m].handle <= map[k].handle
    <3> TAKE k \in m + 1 .. Len(map)
    <3>1. k \in 1 .. Len(map) /\ m < k
      BY <1>1
    <3> QED
      BY <1>3, <3>1, AscendingTypes DEF Ascending
  <2>4. map[m].address \in Nat /\ map[m].handle \in Nat
    BY AscendingTypes
  <2>5. CASE Closes(map, w, m)
    <3>1. StandsAfter(map, w, m) =
            [byte |-> EndAt(map, w, m) + 4, start |-> EndAt(map, w, m) + 2,
             offset |-> 0, handle |-> 0, open |-> FALSE]
      BY <1>3, <2>5 DEF StandsAfter
    <3> QED
      BY <2>1, <2>2, <2>3, <3>1 DEF StandsWell, Standings
  <2>6. CASE ~ Closes(map, w, m)
    <3>1. StandsAfter(map, w, m) =
            [byte |-> EndAt(map, w, m), start |-> w.start,
             offset |-> map[m].address, handle |-> map[m].handle, open |-> TRUE]
      BY <1>3, <2>6 DEF StandsAfter
    <3>2. EndAt(map, w, m) - w.start <= PageLimit
      BY <2>1, <2>2, <2>6 DEF Closes
    <3> QED
      BY <2>1, <2>2, <2>3, <2>4, <3>1, <3>2 DEF StandsWell, Standings
  <2> QED
    BY <2>5, <2>6
<1> QED
  BY <1>2, <1>3

LEMMA CourseStandsWell ==
  ASSUME NEW map, Ascending(map)
  PROVE  \A m \in 0 .. Len(map) : StandsWell(map, Course(map)[m], m)
<1> DEFINE c == Course(map)
           G == {m \in Nat : m <= Len(map) => StandsWell(map, c[m], m)}
<1>1. /\ Len(map) \in Nat /\ c[0] = FirstPage
      /\ \A m \in 1 .. Len(map) : c[m] = StandsAfter(map, c[m - 1], m)
  BY CourseUnfolds DEF Ascending
<1> HIDE DEF c
<1>2. 0 \in G
  BY <1>1, FirstStandsWell
<1>3. ASSUME NEW m \in Nat, m \in G PROVE m + 1 \in G
  <2> SUFFICES ASSUME m + 1 <= Len(map) PROVE StandsWell(map, c[m + 1], m + 1)
    OBVIOUS
  <2>1. m + 1 \in 1 .. Len(map) /\ StandsWell(map, c[m], m) /\ m + 1 - 1 = m
    BY <1>1, <1>3
  <2> QED
    BY <1>1, <2>1, StandsOn
<1> HIDE DEF G
<1>4. \A m \in Nat : m \in G
  BY <1>2, <1>3, Induction
<1> QED
  BY <1>1, <1>4 DEF G, c

(* The course goes forward, and a new page starts behind all that was      *)
(* written before.                                                         *)
LEMMA CourseGrows ==
  ASSUME NEW map, Ascending(map), NEW j \in 0 .. Len(map), NEW m \in j .. Len(map)
  PROVE  LET v == Course(map)[j]
             w == Course(map)[m]
         IN  /\ v.byte <= w.byte /\ v.start <= w.start
             /\ v.start = w.start \/ v.byte < w.start
<1> DEFINE c == Course(map)
           Forward(k) == /\ c[j].byte <= c[k].byte /\ c[j].start <= c[k].start
                         /\ c[j].start = c[k].start \/ c[j].byte < c[k].start
           G == {n \in Nat : j + n <= Len(map) => Forward(j + n)}
<1>1. /\ Len(map) \in Nat
      /\ \A k \in 1 .. Len(map) : c[k] = StandsAfter(map, c[k - 1], k)
      /\ \A k \in 0 .. Len(map) : StandsWell(map, c[k], k)
  BY CourseUnfolds, CourseStandsWell DEF Ascending
<1> HIDE DEF c
<1>2. \A k \in 0 .. Len(map) : c[k].byte \in Nat /\ c[k].start \in Nat
                                /\ c[k].start + 2 <= c[k].byte
  BY <1>1 DEF StandsWell, Standings
<1>3. 0 \in G
  BY <1>1, <1>2
<1>4. ASSUME NEW n \in Nat, n \in G PROVE n + 1 \in G
  <2> SUFFICES ASSUME j + (n + 1) <= Len(map) PROVE Forward(j + (n + 1))
    OBVIOUS
  <2> DEFINE k == j + n + 1
  <2>1. k \in 1 .. Len(map) /\ k - 1 = j + n /\ k - 1 \in 0 .. Len(map)
        /\ k \in 0 .. Len(map) /\ k = j + (n + 1)
    BY <1>1
  <2>2. Forward(k - 1)
    BY <1>4, <2>1
  <2> HIDE DEF k
  <2>3. c[k] = StandsAfter(map, c[k - 1], k) /\ StandsWell(map, c[k - 1], k - 1)
    BY <1>1, <2>1
  <2>4. CASE ~ InMap(map[k])
    <3>1. c[k] = c[k - 1]
      BY <2>3, <2>4 DEF StandsAfter
    <3> QED
      BY <2>1, <2>2, <3>1
  <2>5. CASE InMap(map[k])
    <3>1. EndAt(map, c[k - 1], k) \in Nat /\ EndAt(map, c[k - 1], k) > c[k - 1].byte
      BY <2>1, <2>3, <2>5, PairOf
    <3>2. \/ /\ c[k].byte = EndAt(map, c[k - 1], k) + 4
             /\ c[k].start = EndAt(map, c[k - 1], k) + 2
          \/ /\ c[k].byte = EndAt(map, c[k - 1], k)
             /\ c[k].start = c[k - 1].start
      BY <2>3, <2>5 DEF StandsAfter
    <3>3. /\ c[j].byte \in Nat /\ c[j].start \in Nat
          /\ c[k - 1].byte \in Nat /\ c[k - 1].start \in Nat
          /\ c[k - 1].start + 2 <= c[k - 1].byte
      BY <1>2, <2>1
    <3>4. /\ c[j].byte <= c[k - 1].byte /\ c[j].start <= c[k - 1].start
          /\ c[j].start = c[k - 1].start \/ c[j].byte < c[k - 1].start
      BY <2>2
    <3> DEFINE jb == c[j].byte
               js == c[j].start
               lb == c[k - 1].byte
               ls == c[k - 1].start
               kb == c[k].byte
               ks == c[k].start
               e  == EndAt(map, c[k - 1], k)
    <3>5. jb <= kb /\ js <= ks /\ (js = ks \/ jb < ks)
      <4>1. /\ e \in Nat /\ e > lb /\ ((kb = e + 4 /\ ks = e + 2) \/ (kb = e /\ ks = ls))
            /\ jb \in Nat /\ js \in Nat /\ lb \in Nat /\ ls \in Nat /\ ls + 2 <= lb
            /\ jb <= lb /\ js <= ls /\ (js = ls \/ jb < ls)
        BY <3>1, <3>2, <3>3, <3>4
      <4> HIDE DEF jb, js, lb, ls, kb, ks, e
      <4> QED
        BY <4>1
    <3> QED
      BY <2>1, <3>5
  <2> QED
    BY <2>4, <2>5
<1> HIDE DEF G
<1>5. \A n \in Nat : n \in G
  BY <1>3, <1>4, Induction
<1>6. m - j \in Nat /\ j + (m - j) = m /\ m <= Len(map)
  BY <1>1
<1>7. Forward(m)
  <2>1. m - j \in G
    BY <1>5, <1>6
  <2> QED
    BY <1>6, <2>1 DEF G
<1> QED
  BY <1>7 DEF c

(* Entries that are not in the map are passed over. *)
LEMMA CourseStays ==
  ASSUME NEW map, Ascending(map), NEW j \in 0 .. Len(map), NEW m \in j .. Len(map),
         \A k \in j + 1 .. m : ~ InMap(map[k])
  PROVE  Course(map)[m] = Course(map)[j]
<1> DEFINE c == Course(map)
           G == {n \in Nat : j + n <= m => c[j + n] = c[j]}
<1>1. /\ Len(map) \in Nat
      /\ \A k \in 1 .. Len(map) : c[k] = StandsAfter(map, c[k - 1], k)
  BY CourseUnfolds DEF Ascending
<1> HIDE DEF c
<1>2. 0 \in G
  OBVIOUS
<1>3. ASSUME NEW n \in Nat, n \in G PROVE n + 1 \in G
  <2> SUFFICES ASSUME j + (n + 1) <= m PROVE c[j + (n + 1)] = c[j]
    OBVIOUS
  <2> DEFINE k == j + n + 1
  <2>1. k \in 1 .. Len(map) /\ k \in j + 1 .. m /\ k - 1 = j + n /\ k = j + (n + 1)
    BY <1>1
  <2> HIDE DEF k
  <2>2. c[k] = c[k - 1]
    BY <1>1, <2>1 DEF StandsAfter
  <2> QED
    BY <1>3, <2>1, <2>2
<1> HIDE DEF G
<1>4. \A n \in Nat : n \in G
  BY <1>2, <1>3, Induction
<1>5. m - j \in Nat /\ j + (m - j) = m /\ m - j \in G
  BY <1>1, <1>4
<1> QED
  BY <1>5 DEF G, c

(* The next entry of the map after j, if there is one. *)
LEMMA NextEntry ==
  ASSUME NEW map, Ascending(map), NEW j \in 0 .. Len(map)
  PROVE  \/ /\ \A k \in j + 1 .. Len(map) : ~ InMap(map[k])
            /\ Course(map)[Len(map)] = Course(map)[j]
         \/ \E m \in j + 1 .. Len(map) :
              /\ InMap(map[m]) /\ Course(map)[m - 1] = Course(map)[j]
              /\ \A k \in j + 1 .. m - 1 : ~ InMap(map[k])
<1> DEFINE T == {k \in j + 1 .. Len(map) : InMap(map[k])}
<1>1. Len(map) \in Nat /\ T \subseteq Nat
  BY DEF Ascending
<1>2. CASE T = {}
  <2>1. \A k \in j + 1 .. Len(map) : ~ InMap(map[k])
    BY <1>2
  <2>2. Len(map) \in j .. Len(map)
    BY <1>1
  <2> QED
    BY <2>1, <2>2, CourseStays
<1>3. CASE T # {}
  <2>1. PICK m \in T : \A k \in T : m <= k
    BY <1>1, <1>3, Least
  <2>2. \A k \in j + 1 .. m - 1 : ~ InMap(map[k])
    BY <1>1, <2>1
  <2>3. m - 1 \in j .. Len(map) /\ m \in j + 1 .. Len(map) /\ InMap(map[m])
    BY <1>1, <2>1
  <2>4. Course(map)[m - 1] = Course(map)[j]
    BY <2>2, <2>3, CourseStays
  <2> QED
    BY <2>2, <2>3, <2>4
<1> QED
  BY <1>2, <1>3

-----------------------------------------------------------------------------
(* The objects that are not written share the address of the next one. *)

ShareInv == ~ Sorting => HugeShare

(* The i-th entry gets an address; only a live object moves the next one.  *)
LEMMA ShareOne ==
  ASSUME SortInv, ShareInv, phase = "objects", phase' = "objects", object' = object,
         i <= NumObjects, i' = i + 1, InMap(omap[i]),
         omap' = [omap EXCEPT ![i].address = at],
         ObjectOf(omap[i]).kind # "live" => at' = at
  PROVE  ShareInv'
<1>1. /\ NumObjects \in Nat /\ NumObjects' = NumObjects /\ i \in 1 .. NumObjects
      /\ ~ Sorting /\ HugeShare
  BY DEF SortInv, Head0, NumObjects, Sorting, ShareInv
<1>2. omap \in [1 .. NumObjects -> [index : Nat, handle : Nat, address : Nat]]
  BY <1>1 DEF SortInv, Sorting, Filled
<1> PICK n \in 1 .. NumObjects : n = i
  BY <1>1
<1>3. Done = 1 .. n - 1 /\ Done' = 1 .. n
  BY <1>1 DEF Done
<1>4. /\ omap'[n].address = at
      /\ omap'[n].index = omap[n].index /\ omap'[n].handle = omap[n].handle
      /\ \A k \in 1 .. n - 1 : omap'[k] = omap[k]
  BY <1>1, <1>2
<1>5. \A k \in 1 .. n : /\ InMap(omap'[k]) <=> InMap(omap[k])
                        /\ Live(k)' <=> Live(k)
  <2>1. ASSUME NEW k, omap'[k].index = omap[k].index
        PROVE  ObjectOf(omap[k])' = ObjectOf(omap[k])
    BY <2>1 DEF ObjectOf
  <2> QED
    BY <1>1, <1>4, <2>1 DEF InMap, Live
<1>6. InMap(omap[n]) /\ (~ Live(n) => at' = at)
  BY DEF Live
<1>7. ASSUME NEW k \in 1 .. n - 1, InMap(omap[k]), \A o \in k .. n - 1 : ~ Live(o)
      PROVE  omap[k].address = at
  BY <1>1, <1>3, <1>7 DEF HugeShare
<1>8. ASSUME NEW k \in 1 .. n, InMap(omap'[k]), NEW m \in 1 .. n, k < m, InMap(omap'[m]),
             \A o \in k .. m - 1 : ~ Live(o)'
      PROVE  omap'[m].address = omap'[k].address
  <2>1. k \in 1 .. n - 1 /\ InMap(omap[k]) /\ omap'[k] = omap[k]
        /\ \A o \in k .. m - 1 : ~ Live(o)
    BY <1>1, <1>4, <1>5, <1>8
  <2>2. CASE m = n
    BY <1>4, <1>7, <2>1, <2>2
  <2>3. CASE m < n
    <3>1. m \in 1 .. n - 1 /\ InMap(omap[m]) /\ omap'[m] = omap[m]
      BY <1>1, <1>4, <1>5, <1>8, <2>3
    <3> QED
      BY <1>1, <1>3, <1>8, <2>1, <3>1 DEF HugeShare
  <2> QED
    BY <1>1, <2>2, <2>3
<1>9. ASSUME NEW k \in 1 .. n, InMap(omap'[k]), \A o \in 1 .. n : k <= o => ~ Live(o)'
      PROVE  omap'[k].address = at'
  <2>1. ~ Live(n) /\ at' = at
    BY <1>1, <1>5, <1>6, <1>9
  <2>2. CASE k = n
    BY <1>4, <2>1, <2>2
  <2>3. CASE k < n
    <3>1. k \in 1 .. n - 1 /\ InMap(omap[k]) /\ omap'[k] = omap[k]
          /\ \A o \in k .. n - 1 : ~ Live(o)
      BY <1>1, <1>4, <1>5, <1>9, <2>3
    <3> QED
      BY <1>7, <2>1, <3>1
  <2> QED
    BY <1>1, <2>2, <2>3
<1>10. HugeShare'
  BY <1>3, <1>8, <1>9 DEF HugeShare
<1> QED
  BY <1>10 DEF ShareInv

(* A step that gives out no address. *)
LEMMA KeepsShared ==
  ASSUME ShareInv, ~ Sorting, object' = object, omap' = omap, at' = at, Done' = Done
  PROVE  ShareInv'
  BY DEF ShareInv, HugeShare, Live, ObjectOf

LEMMA ShareStep == SortInv /\ ShareInv /\ [Next]_vars => ShareInv'
<1> SUFFICES ASSUME SortInv, ShareInv, [Next]_vars PROVE ShareInv'
  OBVIOUS
<1>1. NumObjects \in Nat /\ InRange /\ i \in Nat \ {0}
  BY DEF SortInv, Head0, NumObjects
<1>2. CASE FillMap \/ NoMemory \/ SortEntry
  BY <1>2 DEF FillMap, NoMemory, SortEntry, ShareInv, Sorting
<1>3. CASE SortDone
  <2>1. Done' = {}
    BY <1>1, <1>3 DEF SortDone, Done
  <2> QED
    BY <2>1 DEF ShareInv, HugeShare
<1>4. CASE SkipObject
  <2>1. /\ Done' = Done \cup {i} /\ Done = 1 .. i - 1 /\ ~ InMap(omap[i])
        /\ object' = object /\ omap' = omap /\ at' = at /\ ~ Sorting
    BY <1>1, <1>4 DEF SkipObject, Done, writer, Sorting
  <2>2. HugeShare
    BY <2>1 DEF ShareInv
  <2>3. /\ \A k \in Done' : InMap(omap[k]) => k \in Done
        /\ \A k : Live(k)' <=> Live(k)
        /\ Done \subseteq Done'
    BY <2>1 DEF Live, ObjectOf
  <2>4. HugeShare'
    <3>1. ASSUME NEW k \in Done', InMap(omap[k]), \A o \in Done' : k <= o => ~ Live(o)'
          PROVE  omap[k].address = at
      BY <2>2, <2>3, <3>1 DEF HugeShare
    <3>2. ASSUME NEW k \in Done', InMap(omap[k]), NEW m \in Done', k < m, InMap(omap[m]),
                 \A o \in k .. m - 1 : ~ Live(o)'
          PROVE  omap[m].address = omap[k].address
      BY <2>2, <2>3, <3>2 DEF HugeShare
    <3> QED
      BY <2>1, <3>1, <3>2 DEF HugeShare
  <2> QED
    BY <2>4 DEF ShareInv
<1>5. CASE WriteObject \/ HugeObject
  BY <1>5, ShareOne DEF WriteObject, HugeObject
<1>7. CASE StartPages
  <2>1. Done = 1 .. NumObjects /\ Done' = 1 .. NumObjects /\ ~ Sorting
    BY <1>1, <1>7 DEF StartPages, Done, InRange, NumObjects, Sorting
  <2> QED
    BY <1>7, <2>1, KeepsShared DEF StartPages, writer
<1>8. CASE SkipPair \/ WritePair \/ WriteLastPair \/ EndMap
  <2>1. Done' = Done /\ ~ Sorting
    BY <1>8 DEF SkipPair, WritePair, WriteLastPair, EndMap, Done, NumObjects, Sorting
  <2> QED
    BY <1>8, <2>1, KeepsShared DEF SkipPair, WritePair, WriteLastPair, EndMap, writer
<1>9. CASE Read
  <2>1. Done' = Done /\ ~ Sorting /\ object' = object /\ omap' = omap /\ at' = at
    BY <1>9 DEF Read, OpenFile, OpenPage, ReadPair, EndPage, Done, NumObjects, Sorting,
                writer
  <2> QED
    BY <2>1, KeepsShared
<1>10. CASE UNCHANGED vars
  BY <1>10 DEF vars, writer, ShareInv, HugeShare, Sorting, Done, NumObjects, Live, ObjectOf
<1> QED
  BY <1>2, <1>3, <1>4, <1>5, <1>7, <1>8, <1>9, <1>10 DEF Next, Write, Finished

(* The map is laid: every entry has its address. *)
MapLaid ==
  /\ SortInv /\ LayInv /\ ShareInv
  /\ phase \notin {"start", "failed", "sort", "objects"}

(* The first object that is written from the m-th entry on. *)
LEMMA FirstLive ==
  ASSUME NEW m \in Nat, NEW n \in Nat, \E l \in m .. n : Live(l)
  PROVE  \E l \in m .. n : Live(l) /\ \A o \in m .. l - 1 : ~ Live(o)
<1> DEFINE T == {l \in m .. n : Live(l)}
<1>1. T \subseteq Nat /\ T # {}
  OBVIOUS
<1>2. PICK l \in T : \A y \in T : l <= y
  BY <1>1, Least
<1>3. \A o \in m .. l - 1 : o \in m .. n /\ ~ (l <= o)
  BY <1>2
<1> QED
  BY <1>2, <1>3

(* The facts about addresses, and then that the map ascends. *)
LEMMA Addresses ==
  ASSUME MapLaid
  PROVE  /\ NumObjects \in Nat /\ Len(omap) = NumObjects /\ omap \in Seq(Entries)
         /\ \A k \in 1 .. NumObjects : omap[k].address \in Nat
         /\ at \in Nat
         /\ \A k \in 1 .. NumObjects : Live(k) =>
              omap[k].address < at
         /\ \A k, m \in 1 .. NumObjects : k < m /\ Live(k) /\ InMap(omap[m]) =>
              omap[k].address < omap[m].address
         /\ \A k, m \in 1 .. NumObjects :
              k < m /\ InMap(omap[k]) /\ InMap(omap[m]) /\ (\A o \in k .. m - 1 : ~ Live(o)) =>
              omap[m].address = omap[k].address
         /\ \A k \in 1 .. NumObjects :
              InMap(omap[k]) /\ (\A o \in k .. NumObjects : ~ Live(o)) => omap[k].address = at
<1>1. /\ NumObjects \in Nat /\ ~ Sorting /\ Laid /\ HugeShare /\ Filled
      /\ Done = 1 .. NumObjects /\ at \in Nat
  BY DEF MapLaid, SortInv, Head0, NumObjects, Sorting, LayInv, ShareInv, Done
<1>2. /\ Len(omap) = NumObjects /\ omap \in Seq(Entries)
      /\ \A k \in 1 .. NumObjects : omap[k].address \in Nat
  <2>1. omap \in [1 .. NumObjects -> Entries]
    BY <1>1 DEF Filled, Entries
  <2>2. \A e \in Entries : e.address \in Nat
    BY DEF Entries
  <2> QED
    BY <1>1, <2>1, <2>2
<1>3. ASSUME NEW k \in 1 .. NumObjects, Live(k)
      PROVE  /\ omap[k].address \in Nat /\ ObjectOf(omap[k]).length \in Nat \ {0}
             /\ InMap(omap[k]) /\ ObjectOf(omap[k]).kind = "live"
  <2>1. ObjectOf(omap[k]) \in Objects /\ InMap(omap[k]) /\ ObjectOf(omap[k]).kind = "live"
    BY <1>1, <1>3, ObjectOfType DEF Live, MapLaid
  <2>2. \A x \in Objects : x.kind = "live" => x.length \in Nat \ {0}
    <3>1. Lengths \subseteq Nat \ {0}
      BY DEF SectionConstants
    <3> QED
      BY <3>1 DEF Objects
  <2> QED
    BY <1>2, <2>1, <2>2
<1>4. ASSUME NEW k \in 1 .. NumObjects, Live(k) PROVE omap[k].address < at
  <2> DEFINE a == omap[k].address
             l == ObjectOf(omap[k]).length
  <2>1. a \in Nat /\ l \in Nat \ {0} /\ a + l <= at
    BY <1>1, <1>3, <1>4 DEF Laid
  <2> HIDE DEF a, l
  <2>2. a < at
    BY <1>1, <2>1
  <2> QED
    BY <2>2 DEF a
<1>5. ASSUME NEW k \in 1 .. NumObjects, NEW m \in 1 .. NumObjects,
             k < m, Live(k), InMap(omap[m])
      PROVE  omap[k].address < omap[m].address
  <2> DEFINE a == omap[k].address
             l == ObjectOf(omap[k]).length
             b == omap[m].address
  <2>1. a \in Nat /\ l \in Nat \ {0} /\ b \in Nat /\ a + l <= b
    BY <1>1, <1>2, <1>3, <1>5 DEF Laid
  <2> HIDE DEF a, l, b
  <2>2. a < b
    BY <2>1
  <2> QED
    BY <2>2 DEF a, b
<1>6. ASSUME NEW k \in 1 .. NumObjects, NEW m \in 1 .. NumObjects,
             k < m, InMap(omap[k]), InMap(omap[m]), \A o \in k .. m - 1 : ~ Live(o)
      PROVE  omap[m].address = omap[k].address
  BY <1>1, <1>6 DEF HugeShare
<1>7. ASSUME NEW k \in 1 .. NumObjects, InMap(omap[k]), \A o \in k .. NumObjects : ~ Live(o)
      PROVE  omap[k].address = at
  <2>1. \A o \in Done : k <= o => ~ Live(o)
    BY <1>1, <1>7
  <2> QED
    BY <1>1, <1>7, <2>1 DEF HugeShare
<1> QED
  BY <1>1, <1>2, <1>4, <1>5, <1>6, <1>7

LEMMA MapIsAscending ==
  ASSUME MapLaid
  PROVE  Ascending(omap) /\ Len(omap) = NumObjects /\ NumObjects \in Nat
<1>1. NumObjects \in Nat /\ Len(omap) = NumObjects /\ omap \in Seq(Entries)
  BY Addresses
<1>2. Sorted /\ Prefix = 1 .. NumObjects
  BY DEF MapLaid, SortInv, Prefix
<1>3. \A k, m \in 1 .. NumObjects : k < m => omap[k].handle <= omap[m].handle
  BY <1>2 DEF Sorted
<1>4. ASSUME NEW k \in 1 .. NumObjects, NEW m \in 1 .. NumObjects,
             k < m, InMap(omap[k]), InMap(omap[m])
      PROVE  omap[k].address <= omap[m].address
  <2>1. omap[k].address \in Nat /\ omap[m].address \in Nat
    BY Addresses
  <2>2. CASE \A o \in k .. m - 1 : ~ Live(o)
    BY <1>4, <2>1, <2>2, Addresses
  <2>3. CASE \E o \in k .. m - 1 : Live(o)
    <3>1. PICK l \in k .. m - 1 : Live(l) /\ \A o \in k .. l - 1 : ~ Live(o)
      <4>1. k \in Nat /\ m - 1 \in Nat
        BY <1>1
      <4> QED
        BY <2>3, <4>1, FirstLive
    <3>2. l \in 1 .. NumObjects /\ l < m /\ InMap(omap[l])
      BY <1>1, <3>1 DEF Live
    <3>3. omap[l].address < omap[m].address /\ omap[l].address \in Nat
      BY <1>4, <3>1, <3>2, Addresses
    <3>4. omap[l].address = omap[k].address
      BY <1>4, <3>1, <3>2, Addresses
    <3> QED
      BY <2>1, <3>3, <3>4
  <2> QED
    BY <2>2, <2>3
<1> QED
  BY <1>1, <1>3, <1>4 DEF Ascending

-----------------------------------------------------------------------------
(* The stream of the map. *)

LEMMA PutFacts ==
  ASSUME NEW s, NEW p, NEW c
  PROVE  /\ DOMAIN Put(s, p, c) = DOMAIN s \cup {p}
         /\ Put(s, p, c)[p] = c
         /\ \A q \in DOMAIN s : q # p => Put(s, p, c)[q] = s[q]
  BY DEF Put

LEMMA CellFacts ==
  /\ \A n : SizeCell(n).kind = "size" /\ SizeCell(n).value = n
  /\ \A sum : CrcCell(sum).kind = "crc" /\ CrcCell(sum).sum = sum
  /\ \A map, w, m : PairAt(map, w, m).kind = "pair"
  BY DEF SizeCell, CrcCell, PairAt, PairCell

(* A content depends on the cells between its ends only. *)
LEMMA SameContent ==
  ASSUME NEW s, NEW t, NEW from, NEW to,
         \A q \in DOMAIN s : from <= q /\ q < to => q \in DOMAIN t /\ t[q] = s[q],
         \A q \in DOMAIN t : from <= q /\ q < to => q \in DOMAIN s
  PROVE  Content(t, from, to) = Content(s, from, to)
<1>1. {q \in DOMAIN t : from <= q /\ q < to} = {q \in DOMAIN s : from <= q /\ q < to}
  OBVIOUS
<1>2. \A q \in {q \in DOMAIN s : from <= q /\ q < to} : t[q] = s[q]
  OBVIOUS
<1> QED
  BY <1>1, <1>2 DEF Content

LEMMA PageStays ==
  ASSUME NEW s, DOMAIN s \subseteq Nat, NEW t, NEW start \in Nat, NEW end \in Nat,
         start < end, PageAt(s, start, end),
         \A q \in DOMAIN s : start <= q /\ q <= end => q \in DOMAIN t /\ t[q] = s[q],
         \A q \in DOMAIN t : start <= q /\ q < end => q \in DOMAIN s
  PROVE  PageAt(t, start, end)
<1>1. Content(t, start, end) = Content(s, start, end)
  <2>1. \A q \in DOMAIN s : start <= q /\ q < end => q \in DOMAIN t /\ t[q] = s[q]
    OBVIOUS
  <2> QED
    BY <2>1, SameContent
<1>2. start <= start /\ start <= end /\ end <= end
  OBVIOUS
<1> QED
  BY <1>1, <1>2 DEF PageAt

LEMMA CloseFacts ==
  ASSUME NEW s, DOMAIN s \subseteq Nat, size_adr \in Nat, NEW end \in Nat, size_adr < end
  PROVE  /\ DOMAIN ClosePage(s, end) = DOMAIN s \cup {size_adr, end}
         /\ \A q \in DOMAIN s :
              q # size_adr /\ q # end => ClosePage(s, end)[q] = s[q]
         /\ PageAt(ClosePage(s, end), size_adr, end)
<1>1. PICK z : z = SizeCell(end - size_adr)
  OBVIOUS
<1>2. PICK a : a = Put(s, size_adr, z)
  OBVIOUS
<1>3. PICK c : c = CrcCell(Content(a, size_adr, end))
  OBVIOUS
<1>4. PICK t : t = Put(a, end, c)
  OBVIOUS
<1>5. ClosePage(s, end) = t
  BY <1>1, <1>2, <1>3, <1>4 DEF ClosePage
<1>6. /\ DOMAIN a = DOMAIN s \cup {size_adr} /\ a[size_adr] = z
      /\ \A q \in DOMAIN s : q # size_adr => a[q] = s[q]
  BY ONLY <1>2 DEF Put
<1>7. /\ DOMAIN t = DOMAIN a \cup {end} /\ t[end] = c
      /\ \A q \in DOMAIN a : q # end => t[q] = a[q]
  BY ONLY <1>4 DEF Put
<1>8. Content(t, size_adr, end) = Content(a, size_adr, end)
  <2>1. DOMAIN a \subseteq Nat
    BY <1>6
  <2>2. \A q \in DOMAIN a : size_adr <= q /\ q < end => q \in DOMAIN t /\ t[q] = a[q]
    BY <1>7, <2>1
  <2>3. \A q \in DOMAIN t : size_adr <= q /\ q < end => q \in DOMAIN a
    BY <1>7, <2>1
  <2> QED
    BY <2>2, <2>3, SameContent
<1>9. PageAt(t, size_adr, end)
  BY <1>1, <1>3, <1>6, <1>7, <1>8 DEF PageAt
<1> QED
  BY <1>5, <1>6, <1>7, <1>9

(* A stream that goes on from what n entries have written: only the size   *)
(* of the open page may have changed, and what is new is behind them.      *)
GoesOn(map, n, s, t) ==
  LET w == Course(map)[n] IN
  /\ DOMAIN s \subseteq Nat /\ DOMAIN t \subseteq Nat
  /\ w.start \in DOMAIN s /\ s[w.start] = SizeCell(0)
  /\ \A q \in DOMAIN s : q \in DOMAIN t /\ (q # w.start => t[q] = s[q])
  /\ \A q \in DOMAIN t : q \in DOMAIN s \/ q >= w.byte

LEMMA KeepsWritten ==
  ASSUME NEW map, Ascending(map), NEW n \in 0 .. Len(map), NEW s, NEW t,
         PairsWritten(map, s, n), GoesOn(map, n, s, t)
  PROVE  PairsWritten(map, t, n)
<1> DEFINE c == Course(map)
<1> SUFFICES ASSUME NEW m \in 1 .. n, InMap(map[m])
             PROVE  /\ c[m - 1].byte \in DOMAIN t /\ t[c[m - 1].byte] = PairAt(map, c[m - 1], m)
                    /\ Closes(map, c[m - 1], m) =>
                         PageAt(t, c[m - 1].start, EndAt(map, c[m - 1], m))
  BY DEF PairsWritten
<1>1. /\ Len(map) \in Nat /\ m \in 1 .. Len(map) /\ m - 1 \in 0 .. Len(map)
      /\ m \in 0 .. Len(map) /\ n \in m .. Len(map)
  BY DEF Ascending
<1> DEFINE w == c[m - 1]
           end == EndAt(map, w, m)
           p == c[n].start
           b == c[n].byte
<1>2. /\ DOMAIN s \subseteq Nat /\ DOMAIN t \subseteq Nat /\ p \in DOMAIN s
      /\ s[p] = SizeCell(0)
      /\ \A q \in DOMAIN s : q \in DOMAIN t /\ (q # p => t[q] = s[q])
      /\ \A q \in DOMAIN t : q \in DOMAIN s \/ q >= b
  BY DEF GoesOn
<1>3. StandsWell(map, w, m - 1) /\ StandsWell(map, c[n], n)
  BY <1>1, CourseStandsWell
<1>4. end \in Nat /\ end > w.byte /\ w.byte \in Nat /\ w.start \in Nat
      /\ w.start + 2 <= w.byte /\ b \in Nat /\ p \in Nat /\ p + 2 <= b
  <2>1. end \in Nat /\ end > w.byte
    BY <1>1, <1>3, PairOf
  <2> QED
    BY <1>3, <2>1 DEF StandsWell, Standings
<1>5. /\ w.byte \in DOMAIN s /\ s[w.byte] = PairAt(map, w, m)
      /\ Closes(map, w, m) => PageAt(s, w.start, end)
  BY DEF PairsWritten
<1>6. c[m] = StandsAfter(map, w, m)
  BY <1>1, CourseUnfolds
<1>7. c[m].start <= p
  BY <1>1, CourseGrows
<1> HIDE DEF c, w, end, p, b
<1>8. w.byte # p
  BY <1>2, <1>5, CellFacts
<1>9. ASSUME Closes(map, w, m) PROVE PageAt(t, w.start, end)
  <2>1. c[m].start = end + 2
    BY <1>6, <1>9 DEF StandsAfter, end
  <2>2. end < p /\ w.start < end
    BY <1>4, <1>7, <2>1
  <2>3. \A q \in DOMAIN s : w.start <= q /\ q <= end => q \in DOMAIN t /\ t[q] = s[q]
    BY <1>2, <1>4, <2>2
  <2>4. \A q \in DOMAIN t : w.start <= q /\ q < end => q \in DOMAIN s
    BY <1>2, <1>4, <2>2
  <2>5. PageAt(s, w.start, end)
    BY <1>5, <1>9
  <2> QED
    BY <1>2, <1>4, <2>2, <2>3, <2>4, <2>5, PageStays
<1> QED
  BY <1>2, <1>5, <1>8, <1>9 DEF w, end

(* Every cell is one of the three the writer writes. *)
CellsTyped(s) ==
  /\ DOMAIN s \subseteq Nat
  /\ \A p \in DOMAIN s : s[p].kind # "crc" => s[p] \in Cells

LEMMA PutTyped ==
  ASSUME NEW s, CellsTyped(s), NEW p \in Nat, NEW c, c.kind # "crc" => c \in Cells
  PROVE  CellsTyped(Put(s, p, c))
  BY DEF CellsTyped, Put

LEMMA SizeTyped ==
  ASSUME NEW s, CellsTyped(s), NEW p \in Nat, NEW n \in Nat
  PROVE  CellsTyped(Put(s, p, SizeCell(n)))
<1>1. SizeCell(n) \in Cells
  BY DEF SizeCell, Cells
<1> QED
  BY <1>1, PutTyped

LEMMA CrcTyped ==
  ASSUME NEW s, CellsTyped(s), NEW p \in Nat, NEW sum
  PROVE  CellsTyped(Put(s, p, CrcCell(sum)))
<1>1. CrcCell(sum).kind = "crc"
  BY DEF CrcCell
<1> QED
  BY <1>1, PutTyped

LEMMA CloseTyped ==
  ASSUME NEW s, CellsTyped(s), size_adr \in Nat, NEW end \in Nat, size_adr <= end
  PROVE  CellsTyped(ClosePage(s, end))
<1>1. CellsTyped(Put(s, size_adr, SizeCell(end - size_adr)))
  BY SizeTyped
<1> QED
  BY <1>1, CrcTyped DEF ClosePage

(* The writer has come to the i-th entry, and stands at its place in the   *)
(* course of the map.                                                      *)
AtEntry(w) ==
  /\ MapLaid /\ phase = "map" /\ i <= NumObjects
  /\ w = Course(omap)[i - 1] /\ Stands(w)
  /\ PairsWritten(omap, stream, i - 1)

LEMMA AtEntryFacts ==
  ASSUME NEW w, AtEntry(w)
  PROVE  /\ Ascending(omap) /\ NumObjects \in Nat /\ Len(omap) = NumObjects
         /\ i \in 1 .. Len(omap) /\ i - 1 \in 0 .. Len(omap)
         /\ StandsWell(omap, w, i - 1)
         /\ Course(omap)[i] = StandsAfter(omap, w, i)
         /\ w.byte \in Nat /\ w.start \in Nat /\ w.start + 2 <= w.byte
         /\ w.start \in DOMAIN stream /\ stream[w.start] = SizeCell(0)
         /\ DOMAIN stream \subseteq Nat
         /\ \A q \in DOMAIN stream : q < w.byte
         /\ byte = w.byte /\ size_adr = w.start
         /\ InMap(omap[i]) =>
              /\ NextPair = PairAt(omap, w, i) /\ PairEnd = EndAt(omap, w, i)
              /\ PairEnd \in Nat /\ PairEnd > w.byte
              /\ NextPair \in [kind : {"pair"}, offset : Nat, width : Nat \ {0}]
              /\ (PairEnd - size_adr > PageLimit) <=> Closes(omap, w, i)
<1>1. Ascending(omap) /\ NumObjects \in Nat /\ Len(omap) = NumObjects
  BY MapIsAscending DEF AtEntry
<1>2. i \in 1 .. Len(omap) /\ i - 1 \in 0 .. Len(omap)
  BY <1>1 DEF AtEntry, MapLaid, SortInv, Head0
<1>3. StandsWell(omap, w, i - 1) /\ Course(omap)[i] = StandsAfter(omap, w, i)
  BY <1>1, <1>2, CourseStandsWell, CourseUnfolds DEF AtEntry
<1>4. w.byte \in Nat /\ w.start \in Nat /\ w.start + 2 <= w.byte
  BY <1>3 DEF StandsWell, Standings
<1>5. /\ w.start \in DOMAIN stream /\ stream[w.start] = SizeCell(0)
      /\ DOMAIN stream \subseteq 0 .. w.byte - 1
      /\ byte = w.byte /\ size_adr = w.start
      /\ last_offset = w.offset /\ last_handle = w.handle
  BY DEF AtEntry, Stands
<1>6. ASSUME InMap(omap[i])
      PROVE  /\ NextPair = PairAt(omap, w, i) /\ PairEnd = EndAt(omap, w, i)
             /\ PairEnd \in Nat /\ PairEnd > w.byte
             /\ NextPair \in [kind : {"pair"}, offset : Nat, width : Nat \ {0}]
             /\ (PairEnd - size_adr > PageLimit) <=> Closes(omap, w, i)
  <2>1. NextPair = PairAt(omap, w, i)
    BY <1>5 DEF NextPair, PairAt
  <2>2. PairEnd = EndAt(omap, w, i)
    BY <1>5, <2>1 DEF PairEnd, EndAt
  <2>3. /\ EndAt(omap, w, i) \in Nat /\ EndAt(omap, w, i) > w.byte
        /\ PairAt(omap, w, i) \in [kind : {"pair"}, offset : Nat, width : Nat \ {0}]
    BY <1>1, <1>2, <1>3, <1>6, PairOf
  <2> QED
    BY <1>5, <2>1, <2>2, <2>3 DEF Closes
<1> QED
  BY <1>1, <1>2, <1>3, <1>4, <1>5, <1>6

(* One more entry has been written. *)
LEMMA OneMorePair ==
  ASSUME NEW map, NEW s, NEW n \in Nat, PairsWritten(map, s, n),
         InMap(map[n + 1]) =>
           LET w == Course(map)[n] IN
           /\ w.byte \in DOMAIN s /\ s[w.byte] = PairAt(map, w, n + 1)
           /\ Closes(map, w, n + 1) => PageAt(s, w.start, EndAt(map, w, n + 1))
  PROVE  PairsWritten(map, s, n + 1)
<1>1. \A m \in 1 .. n + 1 : m \in 1 .. n \/ (m = n + 1 /\ m - 1 = n)
  OBVIOUS
<1> QED
  BY <1>1 DEF PairsWritten

LEMMA PairWritten ==
  ASSUME NEW w, AtEntry(w), WritePair
  PROVE  /\ PairsWritten(omap, stream', i)
         /\ Stands(Course(omap)[i - 1])'
<1> DEFINE v == Course(omap)[i]
<1>1. /\ Ascending(omap) /\ i \in 1 .. Len(omap) /\ i - 1 \in 0 .. Len(omap)
      /\ w = Course(omap)[i - 1] /\ v = StandsAfter(omap, w, i)
      /\ w.byte \in Nat /\ w.start \in Nat /\ w.start + 2 <= w.byte
      /\ w.start \in DOMAIN stream /\ stream[w.start] = SizeCell(0)
      /\ DOMAIN stream \subseteq Nat /\ \A q \in DOMAIN stream : q < w.byte
      /\ byte = w.byte /\ size_adr = w.start /\ Len(omap) \in Nat
  BY AtEntryFacts DEF AtEntry
<1>2. /\ InMap(omap[i]) /\ NextPair = PairAt(omap, w, i) /\ PairEnd = EndAt(omap, w, i)
      /\ PairEnd \in Nat /\ PairEnd > w.byte /\ ~ Closes(omap, w, i)
  BY AtEntryFacts DEF WritePair
<1>3. /\ stream' = Put(stream, w.byte, PairAt(omap, w, i)) /\ byte' = EndAt(omap, w, i)
      /\ size_adr' = w.start /\ ckr_missing' = TRUE /\ omap' = omap
      /\ last_handle' = omap[i].handle /\ last_offset' = omap[i].address
  BY <1>1, <1>2 DEF WritePair, writer
<1>4. /\ DOMAIN stream' = DOMAIN stream \cup {w.byte}
      /\ stream'[w.byte] = PairAt(omap, w, i)
      /\ \A q \in DOMAIN stream : q # w.byte => stream'[q] = stream[q]
  BY ONLY <1>3 DEF Put
<1>5. \A q \in DOMAIN stream : q # w.byte /\ q \in DOMAIN stream' /\ stream'[q] = stream[q]
  BY <1>1, <1>4
<1>6. GoesOn(omap, i - 1, stream, stream')
  BY <1>1, <1>4, <1>5 DEF GoesOn
<1>7. PairsWritten(omap, stream', i - 1)
  BY <1>1, <1>6, KeepsWritten DEF AtEntry
<1>8. PairsWritten(omap, stream', i)
  <2>1. i - 1 \in Nat /\ i = i - 1 + 1
    BY <1>1
  <2>2. w.byte \in DOMAIN stream' /\ stream'[w.byte] = PairAt(omap, w, i)
    BY <1>4
  <2> QED
    BY <1>1, <1>2, <1>7, <2>1, <2>2, OneMorePair
<1>9. v = [byte |-> EndAt(omap, w, i), start |-> w.start,
           offset |-> omap[i].address, handle |-> omap[i].handle, open |-> TRUE]
  BY <1>1, <1>2 DEF StandsAfter
<1>10. /\ byte' = v.byte /\ size_adr' = v.start /\ ckr_missing' = v.open
       /\ last_offset' = v.offset /\ last_handle' = v.handle
  BY <1>3, <1>9
<1>11. DOMAIN stream' \subseteq 0 .. v.byte - 1
  <2> DEFINE e == EndAt(omap, w, i)
  <2>1. e \in Nat /\ e > w.byte /\ v.byte = e
    BY <1>2, <1>9
  <2> HIDE DEF e
  <2> QED
    BY <1>1, <1>4, <2>1
<1>12. v.start \in DOMAIN stream' /\ stream'[v.start] = SizeCell(0)
  BY <1>1, <1>5, <1>9
<1>13. Course(omap)[i - 1]' = v
  <2>1. i' - 1 = i
    BY <1>1 DEF WritePair
  <2> QED
    BY <1>3, <2>1
<1> HIDE DEF v
<1>14. Stands(Course(omap)[i - 1])'
  BY <1>10, <1>11, <1>12, <1>13 DEF Stands
<1> QED
  BY <1>8, <1>14

LEMMA LastPairWritten ==
  ASSUME NEW w, AtEntry(w), WriteLastPair
  PROVE  /\ PairsWritten(omap, stream', i)
         /\ Stands(Course(omap)[i - 1])'
<1> DEFINE v == Course(omap)[i]
<1>1. /\ Ascending(omap) /\ i \in 1 .. Len(omap) /\ i - 1 \in 0 .. Len(omap)
      /\ w = Course(omap)[i - 1] /\ v = StandsAfter(omap, w, i)
      /\ w.byte \in Nat /\ w.start \in Nat /\ w.start + 2 <= w.byte
      /\ w.start \in DOMAIN stream /\ stream[w.start] = SizeCell(0)
      /\ DOMAIN stream \subseteq Nat /\ \A q \in DOMAIN stream : q < w.byte
      /\ byte = w.byte /\ size_adr = w.start /\ Len(omap) \in Nat
  BY AtEntryFacts DEF AtEntry
<1>2. /\ InMap(omap[i]) /\ NextPair = PairAt(omap, w, i) /\ PairEnd = EndAt(omap, w, i)
      /\ PairEnd \in Nat /\ PairEnd > w.byte /\ Closes(omap, w, i)
  BY AtEntryFacts DEF WriteLastPair
<1>3. PICK e \in Nat : e = EndAt(omap, w, i) /\ e > w.byte /\ e > w.start
  BY <1>1, <1>2
<1>4. PICK s1 : s1 = Put(stream, w.byte, PairAt(omap, w, i))
  OBVIOUS
<1>5. /\ DOMAIN s1 = DOMAIN stream \cup {w.byte} /\ s1[w.byte] = PairAt(omap, w, i)
      /\ \A q \in DOMAIN stream : q # w.byte => s1[q] = stream[q]
  BY ONLY <1>4 DEF Put
<1>6. PICK s2 : s2 = ClosePage(s1, e)
  OBVIOUS
<1>7. /\ DOMAIN s2 = DOMAIN s1 \cup {w.start, e}
      /\ \A q \in DOMAIN s1 : q # w.start /\ q # e => s2[q] = s1[q]
      /\ PageAt(s2, w.start, e)
  <2>1. DOMAIN s1 \subseteq Nat /\ size_adr \in Nat /\ size_adr < e
    BY <1>1, <1>3, <1>5
  <2>2. /\ DOMAIN s2 = DOMAIN s1 \cup {size_adr, e}
        /\ \A q \in DOMAIN s1 : q # size_adr /\ q # e => s2[q] = s1[q]
        /\ PageAt(s2, size_adr, e)
    BY ONLY <1>6, <2>1, e \in Nat, CloseFacts
  <2> QED
    BY <1>1, <2>2
<1>8. PICK t : t = Put(s2, e + 2, SizeCell(0))
  OBVIOUS
<1>9. /\ DOMAIN t = DOMAIN s2 \cup {e + 2} /\ t[e + 2] = SizeCell(0)
      /\ \A q \in DOMAIN s2 : q # e + 2 => t[q] = s2[q]
  BY ONLY <1>8 DEF Put
<1>10. /\ stream' = t /\ size_adr' = e + 2 /\ byte' = e + 4
       /\ last_handle' = 0 /\ last_offset' = 0 /\ ckr_missing' = FALSE
       /\ omap' = omap /\ i' = i + 1
  BY <1>1, <1>2, <1>3, <1>4, <1>6, <1>8 DEF WriteLastPair, writer
<1>11. /\ \A q \in DOMAIN stream : q \in DOMAIN t /\ (q # w.start => t[q] = stream[q])
       /\ \A q \in DOMAIN t : q \in DOMAIN stream \/ (q \in {w.byte, e, e + 2})
  <2>1. \A q \in DOMAIN stream : q \in Nat /\ q # w.byte /\ q # e /\ q # e + 2
    BY <1>1, <1>3
  <2> QED
    BY <1>1, <1>5, <1>7, <1>9, <2>1
<1>12. w.byte \in DOMAIN t /\ t[w.byte] = PairAt(omap, w, i)
  <2>1. w.byte # w.start /\ w.byte # e /\ w.byte # e + 2
    BY <1>1, <1>3
  <2> QED
    BY <1>5, <1>7, <1>9, <2>1
<1>13. PageAt(t, w.start, e)
  <2>1. DOMAIN s2 \subseteq Nat
    BY <1>1, <1>3, <1>5, <1>7
  <2>2. \A q \in DOMAIN s2 : w.start <= q /\ q <= e => q \in DOMAIN t /\ t[q] = s2[q]
    BY <1>3, <1>9, <2>1
  <2>3. \A q \in DOMAIN t : w.start <= q /\ q < e => q \in DOMAIN s2
    BY <1>3, <1>9
  <2> QED
    BY <1>1, <1>3, <1>7, <2>1, <2>2, <2>3, PageStays
<1>14. DOMAIN t \subseteq Nat /\ \A q \in DOMAIN t : q \in DOMAIN stream \/ q >= w.byte
  BY <1>1, <1>3, <1>11
<1>15. GoesOn(omap, i - 1, stream, t)
  BY <1>1, <1>11, <1>14 DEF GoesOn
<1>16. PairsWritten(omap, t, i - 1)
  BY <1>1, <1>15, KeepsWritten DEF AtEntry
<1>17. PairsWritten(omap, t, i)
  <2>1. i - 1 \in Nat /\ i = i - 1 + 1
    BY <1>1
  <2> QED
    BY <1>1, <1>3, <1>12, <1>13, <1>16, <2>1, OneMorePair
<1>18. v = [byte |-> e + 4, start |-> e + 2, offset |-> 0, handle |-> 0, open |-> FALSE]
  BY <1>1, <1>2, <1>3 DEF StandsAfter
<1> HIDE DEF v
<1>19. /\ byte' = v.byte /\ size_adr' = v.start /\ ckr_missing' = v.open
       /\ last_offset' = v.offset /\ last_handle' = v.handle
  BY <1>10, <1>18
<1>20. DOMAIN t \subseteq 0 .. v.byte - 1
  <2>1. v.byte = e + 4 /\ \A q \in DOMAIN t : q \in Nat /\ (q < w.byte \/ q \in {w.byte, e, e + 2})
    BY <1>1, <1>11, <1>14, <1>18
  <2> QED
    BY <1>1, <1>3, <2>1
<1>21. v.start \in DOMAIN t /\ t[v.start] = SizeCell(0)
  BY <1>9, <1>18
<1>22. Course(omap)[i - 1]' = v
  <2>1. i' - 1 = i
    BY <1>1, <1>10
  <2> QED
    BY <1>10, <2>1 DEF v
<1>23. Stands(Course(omap)[i - 1])'
  BY <1>10, <1>19, <1>20, <1>21, <1>22 DEF Stands
<1> QED
  BY <1>10, <1>17, <1>23

(* The map ends behind the place where the writer stands. *)
AtMapEnd(w) ==
  /\ MapLaid /\ phase = "map" /\ i = NumObjects + 1
  /\ w = Standing /\ Stands(w)
  /\ PairsWritten(omap, stream, NumObjects)

LEMMA EndWritten ==
  ASSUME NEW w, AtMapEnd(w), EndMap
  PROVE  PairsWritten(omap, stream', NumObjects) /\ MapEnds'
<1>1. /\ Ascending(omap) /\ NumObjects \in Nat /\ Len(omap) = NumObjects
      /\ NumObjects \in 0 .. Len(omap)
  BY MapIsAscending DEF AtMapEnd
<1>2. w = Course(omap)[NumObjects] /\ StandsWell(omap, w, NumObjects)
  BY <1>1, CourseStandsWell DEF AtMapEnd, Standing
<1>3. w.byte \in Nat /\ w.start \in Nat /\ w.start + 2 <= w.byte /\ w.open \in BOOLEAN
  BY <1>2 DEF StandsWell, Standings
<1>4. /\ byte = w.byte /\ size_adr = w.start /\ ckr_missing = w.open
      /\ DOMAIN stream \subseteq 0 .. w.byte - 1
      /\ w.start \in DOMAIN stream /\ stream[w.start] = SizeCell(0)
  BY DEF AtMapEnd, Stands
<1>5. DOMAIN stream \subseteq Nat /\ \A q \in DOMAIN stream : q < w.byte
  BY <1>3, <1>4
<1>6. PICK s1 : s1 = IF w.open THEN ClosePage(stream, w.byte) ELSE stream
  OBVIOUS
<1>7. /\ DOMAIN s1 \subseteq 0 .. w.byte
      /\ \A q \in DOMAIN s1 : q \in DOMAIN stream \/ (q = w.byte /\ w.open)
      /\ \A q \in DOMAIN stream : q \in DOMAIN s1 /\ (q # w.start => s1[q] = stream[q])
      /\ IF w.open THEN PageAt(s1, w.start, w.byte)
         ELSE w.start \in DOMAIN s1 /\ s1[w.start] = SizeCell(0)
  <2>1. CASE w.open
    <3>1. /\ DOMAIN s1 = DOMAIN stream \cup {w.start, w.byte}
          /\ \A q \in DOMAIN stream : q # w.start /\ q # w.byte => s1[q] = stream[q]
          /\ PageAt(s1, w.start, w.byte)
      BY <1>3, <1>4, <1>5, <1>6, <2>1, CloseFacts
    <3> QED
      BY <1>3, <1>4, <1>5, <2>1, <3>1
  <2>2. CASE ~ w.open
    BY <1>3, <1>4, <1>6, <2>2
  <2> QED
    BY <2>1, <2>2
<1>8. PICK l \in Nat : l = (IF w.open THEN w.byte + 2 ELSE w.byte)
  BY <1>3
<1>9. w.byte <= l /\ (w.open => l = w.byte + 2) /\ \A q \in DOMAIN s1 : q \in Nat /\ q < l
  <2>1. CASE w.open
    BY <1>3, <1>7, <1>8, <2>1
  <2>2. CASE ~ w.open
    BY <1>3, <1>5, <1>7, <1>8, <2>2
  <2> QED
    BY <2>1, <2>2
<1>10. PICK s2 : s2 = Put(s1, l, SizeCell(2))
  OBVIOUS
<1>11. /\ DOMAIN s2 = DOMAIN s1 \cup {l} /\ s2[l] = SizeCell(2)
       /\ \A q \in DOMAIN s1 : q # l => s2[q] = s1[q]
  BY ONLY <1>10 DEF Put
<1>12. PICK t : t = Put(s2, l + 2, CrcCell(Content(s2, l, l + 2)))
  OBVIOUS
<1>13. /\ DOMAIN t = DOMAIN s2 \cup {l + 2}
       /\ t[l + 2] = CrcCell(Content(s2, l, l + 2))
       /\ \A q \in DOMAIN s2 : q # l + 2 => t[q] = s2[q]
  BY ONLY <1>12 DEF Put
<1>14. /\ stream' = t /\ byte' = l + 4 /\ ckr_missing' = w.open
       /\ omap' = omap /\ object' = object
  BY <1>4, <1>6, <1>8, <1>10, <1>12 DEF EndMap, writer
<1>15. \A q \in DOMAIN s1 : q \in DOMAIN t /\ t[q] = s1[q]
  BY <1>9, <1>11, <1>13
<1>16. \A q \in DOMAIN t : q \in DOMAIN s1 \/ q \in {l, l + 2}
  BY <1>11, <1>13
<1>17. GoesOn(omap, NumObjects, stream, t)
  <2>1. DOMAIN t \subseteq Nat /\ \A q \in DOMAIN t : q \in DOMAIN stream \/ q >= w.byte
    BY <1>3, <1>7, <1>9, <1>16
  <2>2. \A q \in DOMAIN stream : q \in DOMAIN t /\ (q # w.start => t[q] = stream[q])
    BY <1>7, <1>15
  <2> QED
    BY <1>2, <1>4, <1>5, <2>1, <2>2 DEF GoesOn
<1>18. PairsWritten(omap, t, NumObjects)
  BY <1>1, <1>17, KeepsWritten DEF AtMapEnd
<1>19. IF w.open THEN PageAt(t, w.start, w.byte)
       ELSE w.start \in DOMAIN t /\ t[w.start] = SizeCell(0)
  <2>1. CASE w.open
    <3>1. DOMAIN s1 \subseteq Nat /\ PageAt(s1, w.start, w.byte) /\ w.start < w.byte
      BY <1>3, <1>7, <2>1
    <3>2. \A q \in DOMAIN t : w.start <= q /\ q < w.byte => q \in DOMAIN s1
      BY <1>3, <1>9, <1>16
    <3>3. PageAt(t, w.start, w.byte)
      BY <1>3, <1>15, <3>1, <3>2, PageStays
    <3> QED
      BY <2>1, <3>3
  <2>2. CASE ~ w.open
    BY <1>7, <1>15, <2>2
  <2> QED
    BY <2>1, <2>2
<1>20. PageAt(t, l, l + 2)
  <2>1. \A q \in DOMAIN s2 : q \in Nat /\ q # l + 2
    BY <1>9, <1>11
  <2>2. Content(t, l, l + 2) = Content(s2, l, l + 2)
    <3>1. \A q \in DOMAIN s2 : l <= q /\ q < l + 2 => q \in DOMAIN t /\ t[q] = s2[q]
      BY <1>13, <2>1
    <3>2. \A q \in DOMAIN t : l <= q /\ q < l + 2 => q \in DOMAIN s2
      BY <1>13
    <3> QED
      BY <3>1, <3>2, SameContent
  <2>3. l \in DOMAIN t /\ t[l] = SizeCell(2) /\ l + 2 - l = 2 /\ l + 2 \in DOMAIN t
    BY <1>11, <1>13
  <2> QED
    BY <1>13, <2>2, <2>3 DEF PageAt
<1>21. Standing' = w /\ LastPage' = l
  <2>1. Standing' = w
    BY <1>2, <1>14 DEF Standing, NumObjects
  <2> QED
    BY <1>8, <2>1 DEF LastPage
<1>22. MapEnds'
  BY <1>14, <1>19, <1>20, <1>21 DEF MapEnds
<1> QED
  BY <1>14, <1>18, <1>22

Early == {"start", "failed", "sort", "objects"}

StreamInv ==
  /\ CellsTyped(stream)
  /\ phase \in Early => DOMAIN stream = {}
  /\ last_offset \in Nat /\ last_handle \in Nat /\ ckr_missing \in BOOLEAN
  /\ StreamWritten

(* What the steps of the writer rest on. *)
WriterInv == SortInv /\ LayInv /\ ShareInv /\ PageInv

LEMMA MapPhase ==
  ASSUME WriterInv, StreamInv, phase = "map"
  PROVE  /\ MapLaid /\ NumObjects \in Nat
         /\ i <= NumObjects => AtEntry(Course(omap)[i - 1])
         /\ i > NumObjects => i = NumObjects + 1 /\ AtMapEnd(Standing)
<1>1. MapLaid /\ NumObjects \in Nat /\ i \in Nat \ {0} /\ i <= NumObjects + 1
  BY DEF WriterInv, MapLaid, SortInv, Head0, InRange, NumObjects
<1>2. PairsWritten(omap, stream, i - 1) /\ Stands(Course(omap)[i - 1])
  BY DEF StreamInv, StreamWritten
<1>3. ASSUME i > NumObjects PROVE i = NumObjects + 1 /\ AtMapEnd(Standing)
  <2>1. i = NumObjects + 1 /\ i - 1 = NumObjects
    BY <1>1, <1>3
  <2> QED
    BY <1>1, <1>2, <2>1 DEF AtMapEnd, Standing
<1> QED
  BY <1>1, <1>2, <1>3 DEF AtEntry

LEMMA StreamStep == WriterInv /\ StreamInv /\ [Next]_vars => StreamInv'
<1> SUFFICES ASSUME WriterInv, StreamInv, [Next]_vars PROVE StreamInv'
  OBVIOUS
<1>1. /\ CellsTyped(stream) /\ byte \in Nat /\ size_adr \in Nat
      /\ NumObjects \in Nat /\ i \in Nat \ {0}
  BY DEF WriterInv, PageInv, StreamInv, SortInv, Head0, NumObjects
<1>2. CASE FillMap \/ NoMemory \/ SortEntry \/ SortDone \/ SkipObject \/ WriteObject
            \/ HugeObject
  <2>1. phase \in Early /\ phase' \in Early /\ UNCHANGED pages
    BY <1>2 DEF FillMap, NoMemory, SortEntry, SortDone, SkipObject, WriteObject,
                HugeObject, Early
  <2> QED
    BY <2>1 DEF StreamInv, StreamWritten, pages, Early, Reading
<1>3. CASE StartPages
  <2>1. /\ phase = "objects" /\ phase' = "map" /\ i' = 1 /\ omap' = omap
        /\ stream' = Put(stream, 0, SizeCell(0)) /\ DOMAIN stream = {}
        /\ size_adr' = 0 /\ byte' = 2
        /\ last_offset' = 0 /\ last_handle' = 0 /\ ckr_missing' = TRUE
    BY <1>3 DEF StartPages, StreamInv, Early, writer
  <2>2. DOMAIN stream' = {0} /\ stream'[0] = SizeCell(0)
    BY ONLY <2>1 DEF Put
  <2>3. CellsTyped(stream')
    BY <1>1, <2>1, SizeTyped
  <2>4. Course(omap)[0] = FirstPage
    <3>1. Len(omap) \in Nat
      BY <1>1, <2>1 DEF WriterInv, SortInv, Filled
    <3> QED
      BY <3>1, CourseUnfolds
  <2>5. Course(omap)[i - 1]' = FirstPage
    BY <2>1, <2>4
  <2>6. Stands(Course(omap)[i - 1])'
    BY <2>1, <2>2, <2>5 DEF Stands, FirstPage
  <2>7. PairsWritten(omap', stream', i' - 1)
    BY <2>1 DEF PairsWritten
  <2> QED
    BY <2>1, <2>3, <2>6, <2>7 DEF StreamInv, StreamWritten, Early, Reading
<1>4. CASE SkipPair
  <2> DEFINE w == Course(omap)[i - 1]
  <2>1. AtEntry(w) /\ ~ InMap(omap[i])
    BY <1>4, MapPhase DEF SkipPair
  <2>2. /\ phase' = "map" /\ i' = i + 1 /\ omap' = omap /\ UNCHANGED pages
        /\ phase = "map"
    BY <1>4 DEF SkipPair, writer
  <2>3. Course(omap)[i] = w
    BY <2>1, AtEntryFacts DEF StandsAfter
  <2>4. Course(omap)[i - 1]' = w
    <3>1. i' - 1 = i
      BY <1>1, <2>2
    <3> QED
      BY <2>2, <2>3, <3>1
  <2> HIDE DEF w
  <2>5. Stands(Course(omap)[i - 1])'
    BY <2>1, <2>2, <2>4 DEF AtEntry, Stands, pages
  <2>6. PairsWritten(omap', stream', i' - 1)
    <3>1. i - 1 \in Nat /\ i - 1 + 1 = i /\ i' - 1 = i
      BY <1>1, <2>2
    <3>2. PairsWritten(omap, stream, i - 1)
      BY <2>1 DEF AtEntry
    <3>3. PairsWritten(omap, stream, i)
      BY <2>1, <3>1, <3>2, OneMorePair
    <3> QED
      BY <2>2, <3>1, <3>3 DEF pages
  <2> QED
    BY <2>2, <2>5, <2>6 DEF StreamInv, StreamWritten, Early, Reading, pages
<1>5. CASE WritePair
  <2> DEFINE w == Course(omap)[i - 1]
  <2>1. AtEntry(w) /\ phase = "map"
    BY <1>5, MapPhase DEF WritePair
  <2>2. /\ phase' = "map" /\ i' - 1 = i /\ omap' = omap /\ InMap(omap[i])
        /\ stream' = Put(stream, byte, NextPair) /\ ckr_missing' = TRUE
        /\ last_handle' = omap[i].handle /\ last_offset' = omap[i].address
    BY <1>1, <1>5 DEF WritePair, writer
  <2>3. CellsTyped(stream')
    <3>1. NextPair \in [kind : {"pair"}, offset : Nat, width : Nat \ {0}]
      BY <2>1, <2>2, AtEntryFacts
    <3>2. NextPair \in Cells
      BY <3>1 DEF Cells
    <3> QED
      BY <1>1, <2>2, <3>2, PutTyped
  <2>4. last_handle' \in Nat /\ last_offset' \in Nat
    BY <2>1, <2>2, AtEntryFacts, AscendingTypes
  <2>5. PairsWritten(omap, stream', i) /\ Stands(Course(omap)[i - 1])'
    BY <1>5, <2>1, PairWritten
  <2> QED
    BY <2>2, <2>3, <2>4, <2>5 DEF StreamInv, StreamWritten, Early, Reading
<1>6. CASE WriteLastPair
  <2> DEFINE w == Course(omap)[i - 1]
  <2>1. AtEntry(w) /\ phase = "map"
    BY <1>6, MapPhase DEF WriteLastPair
  <2>2. /\ phase' = "map" /\ i' - 1 = i /\ omap' = omap /\ InMap(omap[i])
        /\ ckr_missing' = FALSE /\ last_handle' = 0 /\ last_offset' = 0
        /\ stream' = Put(ClosePage(Put(stream, byte, NextPair), PairEnd),
                         PairEnd + 2, SizeCell(0))
    BY <1>1, <1>6 DEF WriteLastPair, writer
  <2>3. CellsTyped(stream')
    <3>1. /\ NextPair \in [kind : {"pair"}, offset : Nat, width : Nat \ {0}]
          /\ PairEnd \in Nat /\ size_adr <= PairEnd
      <4>1. PairEnd \in Nat /\ PairEnd > w.byte /\ size_adr = w.start
            /\ w.byte \in Nat /\ w.start \in Nat /\ w.start + 2 <= w.byte
        BY <2>1, <2>2, AtEntryFacts
      <4>2. NextPair \in [kind : {"pair"}, offset : Nat, width : Nat \ {0}]
        BY <2>1, <2>2, AtEntryFacts
      <4> QED
        BY <4>1, <4>2
    <3>2. NextPair \in Cells
      BY <3>1 DEF Cells
    <3>3. CellsTyped(Put(stream, byte, NextPair))
      BY <1>1, <3>2, PutTyped
    <3>4. CellsTyped(ClosePage(Put(stream, byte, NextPair), PairEnd))
      BY <1>1, <3>1, <3>3, CloseTyped
    <3>5. PairEnd + 2 \in Nat /\ 0 \in Nat
      BY <3>1
    <3> QED
      BY <2>2, <3>4, <3>5, SizeTyped
  <2>4. PairsWritten(omap, stream', i) /\ Stands(Course(omap)[i - 1])'
    BY <1>6, <2>1, LastPairWritten
  <2> QED
    BY <2>2, <2>3, <2>4 DEF StreamInv, StreamWritten, Early, Reading
<1>7. CASE EndMap
  <2>1. AtMapEnd(Standing) /\ phase' = "written" /\ omap' = omap /\ object' = object
        /\ last_offset' = last_offset /\ last_handle' = last_handle
        /\ ckr_missing' = ckr_missing /\ NumObjects' = NumObjects /\ phase = "map"
    BY <1>7, MapPhase DEF EndMap, writer, NumObjects
  <2>2. PairsWritten(omap, stream', NumObjects) /\ MapEnds'
    BY <1>7, <2>1, EndWritten
  <2>3. CellsTyped(stream')
    <3> DEFINE closed == IF ckr_missing THEN ClosePage(stream, byte) ELSE stream
               last == IF ckr_missing THEN byte + 2 ELSE byte
               sized == Put(closed, last, SizeCell(2))
    <3>1. size_adr <= byte
      <4>1. NumObjects \in 0 .. Len(omap) /\ Ascending(omap)
        BY <1>1, <2>1, MapIsAscending DEF AtMapEnd
      <4>2. StandsWell(omap, Standing, NumObjects)
        BY <4>1, CourseStandsWell DEF Standing
      <4>3. byte = Standing.byte /\ size_adr = Standing.start
        BY <2>1 DEF AtMapEnd, Stands
      <4> QED
        BY <1>1, <4>2, <4>3 DEF StandsWell
    <3>2. CellsTyped(closed) /\ last \in Nat /\ last + 2 \in Nat
      BY <1>1, <3>1, CloseTyped
    <3>3. stream' = Put(sized, last + 2, CrcCell(Content(sized, last, last + 2)))
      BY <1>7 DEF EndMap
    <3> HIDE DEF closed, last
    <3>4. CellsTyped(sized)
      BY <3>2, SizeTyped
    <3> QED
      BY <3>2, <3>3, <3>4, CrcTyped
  <2> QED
    BY <2>1, <2>2, <2>3 DEF StreamInv, StreamWritten, Early, Reading
<1>8. CASE Read
  <2>1. /\ phase = "written" \/ Reading
        /\ phase' \notin Early \cup {"map"}
        /\ object' = object /\ omap' = omap /\ UNCHANGED pages
    BY <1>8 DEF Read, OpenFile, OpenPage, ReadPair, EndPage, Reading, Early, writer
  <2> QED
    BY <2>1 DEF StreamInv, StreamWritten, MapEnds, LastPage, Standing, NumObjects, pages,
                Early, Reading
<1>9. CASE UNCHANGED vars
  BY <1>9 DEF vars, pages, writer, StreamInv, StreamWritten, MapEnds, LastPage, Standing,
              Stands, NumObjects, Early, Reading
<1> QED
  BY <1>2, <1>3, <1>4, <1>5, <1>6, <1>7, <1>8, <1>9 DEF Next, Write, Finished

-----------------------------------------------------------------------------
(* The pairs of the map, and the objects they lead to. *)

LEMMA MinIs ==
  ASSUME NEW T, T \subseteq Nat, NEW l \in T, \A y \in T : l <= y
  PROVE  Min(T) = l
<1>1. Min(T) \in T /\ \A y \in T : Min(T) <= y
  <2> DEFINE P(x) == x \in T /\ \A y \in T : x <= y
  <2>1. P(l)
    OBVIOUS
  <2>2. P(CHOOSE x : P(x))
    BY <2>1
  <2> QED
    BY <2>2, Zenon DEF Min
<1>2. PICK x \in T : x = Min(T) /\ x <= l
  BY <1>1
<1>3. l <= x /\ l \in Nat /\ x \in Nat
  OBVIOUS
<1> QED
  BY <1>2, <1>3

(* The number of pairs grows with every entry of the map. *)
LEMMA PairsGrow ==
  ASSUME NEW m \in Nat
  PROVE  /\ Pairs(m) \in Nat /\ Pairs(0) = 0
         /\ \A j \in 0 .. m : Pairs(j) <= Pairs(m)
         /\ \A j \in 0 .. m : (\A k \in j + 1 .. m : ~ InMap(omap[k])) => Pairs(m) = Pairs(j)
         /\ InMap(omap[m + 1]) => Pairs(m + 1) = Pairs(m) + 1
<1> DEFINE P(n) == {o \in 1 .. n : InMap(omap[o])}
<1>1. \A n \in Nat : IsFiniteSet(P(n)) /\ Cardinality(P(n)) \in Nat
  <2> TAKE n \in Nat
  <2>1. IsFiniteSet(1 .. n)
    BY FS_Interval
  <2> QED
    BY <2>1, FS_Subset, FS_CardinalityType
<1>2. Pairs(0) = 0
  <2>1. P(0) = {}
    OBVIOUS
  <2> QED
    BY <2>1, FS_EmptySet DEF Pairs
<1>3. ASSUME NEW j \in 0 .. m PROVE Pairs(j) <= Pairs(m)
  <2>1. P(j) \subseteq P(m)
    OBVIOUS
  <2>2. Cardinality(P(j)) <= Cardinality(P(m))
    BY <1>1, <2>1, FS_Subset
  <2> QED
    BY <2>2 DEF Pairs
<1>4. ASSUME NEW j \in 0 .. m, \A k \in j + 1 .. m : ~ InMap(omap[k])
      PROVE  Pairs(m) = Pairs(j)
  <2>1. P(m) = P(j)
    BY <1>4
  <2> QED
    BY <2>1 DEF Pairs
<1>5. ASSUME InMap(omap[m + 1]) PROVE Pairs(m + 1) = Pairs(m) + 1
  <2>1. P(m + 1) = P(m) \cup {m + 1} /\ m + 1 \notin P(m)
    BY <1>5
  <2> HIDE DEF P
  <2>2. Cardinality(P(m + 1)) = Cardinality(P(m)) + 1
    BY <1>1, <2>1, FS_AddElement
  <2> QED
    BY <2>2 DEF P, Pairs
<1> QED
  BY <1>1, <1>2, <1>3, <1>4, <1>5 DEF Pairs

(* The objects from the pair of an entry on are those of the entries from  *)
(* it on.                                                                  *)
LEMMA LiveFromEntry ==
  ASSUME NumObjects \in Nat, NEW m \in 1 .. NumObjects, InMap(omap[m])
  PROVE  LiveFrom(Pairs(m)) = {l \in m .. NumObjects : Live(l)}
<1>1. Pairs(m) = Pairs(m - 1) + 1 /\ Pairs(m - 1) \in Nat
  <2>1. m - 1 \in Nat /\ m - 1 + 1 = m
    OBVIOUS
  <2> QED
    BY <2>1, PairsGrow
<1>2. \A l \in 1 .. NumObjects : l < m => ~ (Pairs(l) >= Pairs(m))
  <2> TAKE l \in 1 .. NumObjects
  <2> HAVE l < m
  <2>1. m - 1 \in Nat /\ l \in 0 .. m - 1 /\ l \in Nat
    OBVIOUS
  <2>2. Pairs(l) <= Pairs(m - 1) /\ Pairs(l) \in Nat
    BY <2>1, PairsGrow
  <2> QED
    BY <1>1, <2>2
<1>3. \A l \in 1 .. NumObjects : m <= l => Pairs(l) >= Pairs(m)
  <2> TAKE l \in 1 .. NumObjects
  <2> HAVE m <= l
  <2>1. l \in Nat /\ m \in 0 .. l /\ m \in Nat
    OBVIOUS
  <2>2. Pairs(m) <= Pairs(l) /\ Pairs(l) \in Nat /\ Pairs(m) \in Nat
    BY <2>1, PairsGrow
  <2> QED
    BY <2>2
<1>4. \A l \in 1 .. NumObjects : Pairs(l) >= Pairs(m) <=> m <= l
  BY <1>2, <1>3
<1> QED
  BY <1>4 DEF LiveFrom

(* What is found at the address of an entry: the first object that is      *)
(* written from this entry on.                                             *)
LEMMA AtAddress ==
  ASSUME MapLaid, NEW m \in 1 .. NumObjects, InMap(omap[m])
  PROVE  ObjectsAt(omap[m].address) =
           IF LiveFrom(Pairs(m)) = {} THEN {}
           ELSE {omap[Min(LiveFrom(Pairs(m)))].index}
<1> DEFINE a == omap[m].address
           T == {l \in m .. NumObjects : Live(l)}
           K == {k \in DOMAIN omap : Live(k) /\ omap[k].address = a}
<1>1. /\ NumObjects \in Nat /\ DOMAIN omap = 1 .. NumObjects
      /\ LiveFrom(Pairs(m)) = T /\ T \subseteq Nat
  <2>1. NumObjects \in Nat /\ Len(omap) = NumObjects /\ omap \in Seq(Entries)
    BY Addresses
  <2> QED
    BY <2>1, LiveFromEntry
<1>2. ObjectsAt(a) = {e.index : e \in {omap[k] : k \in K}}
  BY DEF ObjectsAt, Live
<1>3. \A k \in 1 .. NumObjects : omap[k].address \in Nat
  BY Addresses
<1>4. CASE T = {}
  <2>1. \A o \in m .. NumObjects : ~ Live(o)
    BY <1>4
  <2>2. a = at
    BY <2>1, Addresses
  <2>3. \A k \in 1 .. NumObjects : Live(k) => omap[k].address < at /\ at \in Nat
    BY Addresses
  <2>4. K = {}
    BY <1>1, <1>3, <2>2, <2>3
  <2> QED
    BY <1>1, <1>2, <1>4, <2>4
<1>5. CASE T # {}
  <2>1. PICK l \in T : \A y \in T : l <= y
    BY <1>1, <1>5, Least
  <2>2. l \in 1 .. NumObjects /\ m <= l /\ Live(l) /\ InMap(omap[l])
        /\ \A o \in m .. l - 1 : ~ Live(o)
    BY <1>1, <2>1 DEF Live
  <2>3. Min(T) = l
    BY <1>1, <2>1, MinIs
  <2>4. omap[l].address = a
    <3>1. CASE l = m
      BY <3>1
    <3>2. CASE m < l
      BY <2>2, <3>2, Addresses
    <3> QED
      BY <1>1, <2>2, <3>1, <3>2
  <2>5. ASSUME NEW k \in 1 .. NumObjects, Live(k), k # l PROVE omap[k].address # a
    <3>1. InMap(omap[k]) /\ k \in Nat /\ l \in Nat
      BY <1>1, <2>5 DEF Live
    <3>2. CASE k < l
      <4>1. omap[k].address < omap[l].address
        BY <2>2, <2>5, <3>2, Addresses
      <4> QED
        BY <1>3, <2>2, <2>4, <4>1
    <3>3. CASE l < k
      <4>1. omap[l].address < omap[k].address
        BY <2>2, <2>5, <3>1, <3>3, Addresses
      <4> QED
        BY <1>3, <2>2, <2>4, <4>1
    <3> QED
      BY <2>5, <3>1, <3>2, <3>3
  <2>6. K = {l}
    BY <1>1, <2>2, <2>4, <2>5
  <2> HIDE DEF K, T, a
  <2>7. ObjectsAt(a) = {omap[l].index}
    BY <1>2, <2>6
  <2> QED
    BY <1>1, <1>5, <2>3, <2>7 DEF a
<1> QED
  BY <1>4, <1>5

-----------------------------------------------------------------------------
(* The pages of a map that was written. *)

MapWritten == MapLaid /\ StreamInv /\ (phase = "written" \/ Reading)

LEMMA WrittenFacts ==
  ASSUME MapWritten
  PROVE  /\ Ascending(omap) /\ NumObjects \in Nat /\ Len(omap) = NumObjects
         /\ PairsWritten(omap, stream, NumObjects) /\ MapEnds
         /\ NumObjects \in 0 .. Len(omap)
         /\ Standing.byte \in Nat /\ Standing.start \in Nat /\ Standing.open \in BOOLEAN
         /\ Standing.start + 2 <= Standing.byte
         /\ Standing.byte - Standing.start <= PageLimit
         /\ ~ Standing.open => Standing.byte = Standing.start + 2
         /\ LastPage \in Nat /\ byte = LastPage + 4
         /\ Standing.open => LastPage = Standing.byte + 2
         /\ ~ Standing.open => LastPage = Standing.byte
<1>1. Ascending(omap) /\ NumObjects \in Nat /\ Len(omap) = NumObjects
  BY MapIsAscending DEF MapWritten
<1>2. PairsWritten(omap, stream, NumObjects) /\ MapEnds
  BY DEF MapWritten, StreamInv, StreamWritten
<1>3. NumObjects \in 0 .. Len(omap)
  BY <1>1
<1>4. StandsWell(omap, Standing, NumObjects)
  BY <1>1, <1>3, CourseStandsWell DEF Standing
<1>5. /\ Standing.byte \in Nat /\ Standing.start \in Nat /\ Standing.open \in BOOLEAN
      /\ Standing.start + 2 <= Standing.byte
      /\ Standing.byte - Standing.start <= PageLimit
      /\ ~ Standing.open => Standing.byte = Standing.start + 2
  BY <1>4 DEF StandsWell, Standings
<1>6. /\ LastPage \in Nat
      /\ Standing.open => LastPage = Standing.byte + 2
      /\ ~ Standing.open => LastPage = Standing.byte
  BY <1>5 DEF LastPage
<1> QED
  BY <1>1, <1>2, <1>3, <1>5, <1>6 DEF MapEnds

LEMMA PlaceFacts ==
  ASSUME MapWritten, NEW j \in 0 .. NumObjects, NEW w, w = Course(omap)[j]
  PROVE  /\ w.byte \in Nat /\ w.start \in Nat /\ w.offset \in Nat /\ w.open \in BOOLEAN
         /\ w.start + 2 <= w.byte /\ w.byte - w.start <= PageLimit
         /\ StandsWell(omap, w, j)
         /\ w.byte <= Standing.byte /\ w.start <= Standing.start
         /\ w.start = Standing.start \/ w.byte < Standing.start
<1>1. /\ Ascending(omap) /\ NumObjects \in Nat /\ Len(omap) = NumObjects
      /\ j \in 0 .. Len(omap) /\ NumObjects \in j .. Len(omap)
  BY WrittenFacts
<1>2. StandsWell(omap, w, j)
  BY <1>1, CourseStandsWell
<1>3. /\ w.byte <= Standing.byte /\ w.start <= Standing.start
      /\ w.start = Standing.start \/ w.byte < Standing.start
  BY <1>1, CourseGrows DEF Standing
<1> QED
  BY <1>2, <1>3 DEF StandsWell, Standings

(* The pair of an entry, in the stream and in the course. *)
LEMMA PairInStream ==
  ASSUME MapWritten, NEW m \in 1 .. NumObjects, InMap(omap[m]), NEW w,
         w = Course(omap)[m - 1]
  PROVE  LET v == Course(omap)[m]
             e == EndAt(omap, w, m)
         IN  /\ w.byte \in DOMAIN stream /\ stream[w.byte] = PairAt(omap, w, m)
             /\ e \in Nat /\ e > w.byte /\ e = w.byte + PairAt(omap, w, m).width
             /\ PairAt(omap, w, m).offset = omap[m].address - w.offset
             /\ omap[m].address \in Nat
             /\ Closes(omap, w, m) =>
                  /\ PageAt(stream, w.start, e) /\ e - w.start > PageLimit
                  /\ v.start = e + 2 /\ v.byte = e + 4 /\ v.offset = 0
             /\ ~ Closes(omap, w, m) =>
                  v.start = w.start /\ v.byte = e /\ v.offset = omap[m].address
<1>1. /\ Ascending(omap) /\ NumObjects \in Nat /\ Len(omap) = NumObjects
      /\ m \in 1 .. Len(omap) /\ m - 1 \in 0 .. Len(omap)
      /\ PairsWritten(omap, stream, NumObjects)
  BY WrittenFacts
<1>2. StandsWell(omap, w, m - 1) /\ Course(omap)[m] = StandsAfter(omap, w, m)
  BY <1>1, CourseStandsWell, CourseUnfolds
<1>3. omap[m].address \in Nat
  BY <1>1, AscendingTypes
<1>4. /\ EndAt(omap, w, m) \in Nat /\ EndAt(omap, w, m) > w.byte
      /\ EndAt(omap, w, m) = w.byte + PairAt(omap, w, m).width
      /\ PairAt(omap, w, m).offset = omap[m].address - w.offset
  BY <1>1, <1>2, PairOf
<1>5. /\ w.byte \in DOMAIN stream /\ stream[w.byte] = PairAt(omap, w, m)
      /\ Closes(omap, w, m) => PageAt(stream, w.start, EndAt(omap, w, m))
  BY <1>1 DEF PairsWritten
<1>6. /\ Closes(omap, w, m) =>
           /\ Course(omap)[m].start = EndAt(omap, w, m) + 2
           /\ Course(omap)[m].byte = EndAt(omap, w, m) + 4 /\ Course(omap)[m].offset = 0
      /\ ~ Closes(omap, w, m) =>
           /\ Course(omap)[m].start = w.start /\ Course(omap)[m].byte = EndAt(omap, w, m)
           /\ Course(omap)[m].offset = omap[m].address
  BY <1>2 DEF StandsAfter
<1>7. Closes(omap, w, m) => EndAt(omap, w, m) - w.start > PageLimit
  BY DEF Closes
<1> QED
  BY <1>3, <1>4, <1>5, <1>6, <1>7

(* The page in which the writer stood after j entries: it is closed by a   *)
(* later one, or it is the one the writer is in at the end.                *)
LEMMA PageOf ==
  ASSUME MapWritten, NEW j \in 0 .. NumObjects, NEW w, w = Course(omap)[j]
  PROVE  \/ w.start = Standing.start
         \/ \E k \in j + 1 .. NumObjects :
              /\ InMap(omap[k]) /\ Closes(omap, Course(omap)[k - 1], k)
              /\ Course(omap)[k - 1].start = w.start
<1> DEFINE c == Course(omap)
           T == {k \in j .. NumObjects : c[k].start # w.start}
<1>1. NumObjects \in Nat /\ Standing = c[NumObjects] /\ T \subseteq Nat
      /\ Ascending(omap) /\ Len(omap) = NumObjects
  BY WrittenFacts DEF Standing
<1>2. CASE T = {}
  BY <1>1, <1>2
<1>3. CASE T # {}
  <2>1. PICK k \in T : \A y \in T : k <= y
    BY <1>1, <1>3, Least
  <2>2. k \in j + 1 .. NumObjects /\ k - 1 \in j .. NumObjects /\ k - 1 \notin T
        /\ k \in 1 .. Len(omap)
    BY <1>1, <2>1
  <2>3. c[k - 1].start = w.start /\ c[k].start # w.start
    BY <2>1, <2>2
  <2>4. c[k] = StandsAfter(omap, c[k - 1], k)
    BY <1>1, <2>2, CourseUnfolds
  <2>5. InMap(omap[k]) /\ Closes(omap, c[k - 1], k)
    BY <2>3, <2>4 DEF StandsAfter
  <2> QED
    BY <2>2, <2>3, <2>5
<1> QED
  BY <1>2, <1>3

(* The size of this page. *)
LEMMA PageSize ==
  ASSUME MapWritten, NEW j \in 0 .. NumObjects, NEW w, w = Course(omap)[j]
  PROVE  /\ w.start \in DOMAIN stream
         /\ \E v \in Nat :
              /\ stream[w.start] = SizeCell(v)
              /\ \/ /\ \E k \in j + 1 .. NumObjects :
                         LET b == Course(omap)[k - 1].byte IN
                         /\ InMap(omap[k]) /\ b \in DOMAIN stream
                         /\ stream[b] = PairAt(omap, Course(omap)[k - 1], k)
                         /\ v <= PageLimit + stream[b].width /\ stream[b].width \in Nat
                    /\ v > w.byte - w.start
                 \/ /\ Standing.start = w.start
                    /\ v = IF Standing.open THEN Standing.byte - w.start ELSE 0
<1> DEFINE c == Course(omap)
<1>1. /\ NumObjects \in Nat /\ Ascending(omap) /\ Len(omap) = NumObjects /\ MapEnds
      /\ Standing.byte \in Nat /\ Standing.start \in Nat /\ Standing.open \in BOOLEAN
      /\ Standing.start + 2 <= Standing.byte
  BY WrittenFacts
<1>2. w.byte \in Nat /\ w.start \in Nat /\ w.start + 2 <= w.byte
  BY PlaceFacts
<1>3. CASE w.start = Standing.start
  <2>1. CASE Standing.open
    <3>1. PageAt(stream, Standing.start, Standing.byte)
      BY <1>1, <2>1 DEF MapEnds
    <3>2. Standing.byte - w.start \in Nat
      BY <1>1, <1>3
    <3> QED
      BY <1>3, <2>1, <3>1, <3>2 DEF PageAt
  <2>2. CASE ~ Standing.open
    BY <1>1, <1>3, <2>2 DEF MapEnds
  <2> QED
    BY <2>1, <2>2
<1>4. CASE \E k \in j + 1 .. NumObjects :
             InMap(omap[k]) /\ Closes(omap, c[k - 1], k) /\ c[k - 1].start = w.start
  <2>1. PICK k \in j + 1 .. NumObjects :
               InMap(omap[k]) /\ Closes(omap, c[k - 1], k) /\ c[k - 1].start = w.start
    BY <1>4
  <2>2. k \in 1 .. NumObjects /\ k - 1 \in j .. Len(omap) /\ k - 1 \in 0 .. NumObjects
        /\ j \in 0 .. Len(omap)
    BY <1>1
  <2>3. PICK u : u = c[k - 1]
    OBVIOUS
  <2>4. PICK e : e = EndAt(omap, u, k)
    OBVIOUS
  <2>5. /\ u.byte \in DOMAIN stream /\ stream[u.byte] = PairAt(omap, u, k)
        /\ e \in Nat /\ e > u.byte /\ e = u.byte + PairAt(omap, u, k).width
        /\ PageAt(stream, u.start, e)
    BY <2>1, <2>2, <2>3, <2>4, PairInStream
  <2>6. u.byte \in Nat /\ u.start \in Nat /\ u.byte - u.start <= PageLimit
    BY <2>2, <2>3, PlaceFacts
  <2>7. w.byte <= u.byte /\ u.start = w.start
    BY <1>1, <2>1, <2>2, <2>3, CourseGrows
  <2>8. PairAt(omap, u, k).width \in Nat
    BY PairWidth DEF PairAt
  <2>9. PICK v \in Nat : v = e - w.start
    BY <1>2, <2>5, <2>6, <2>7
  <2> DEFINE z == PairAt(omap, u, k).width
  <2>10. /\ v <= PageLimit + z /\ v > w.byte - w.start
    <3>1. z \in Nat /\ e = u.byte + z /\ e \in Nat /\ PageLimit \in Nat
      BY <2>5, <2>8
    <3> HIDE DEF z
    <3> QED
      BY <1>2, <2>5, <2>6, <2>7, <2>9, <3>1
  <2>11. stream[w.start] = SizeCell(v) /\ w.start \in DOMAIN stream
    BY <2>5, <2>7, <2>9 DEF PageAt
  <2>12. stream[u.byte].width = z /\ z \in Nat
    BY <2>5, <2>8
  <2> HIDE DEF z
  <2>13. /\ InMap(omap[k]) /\ u.byte \in DOMAIN stream
         /\ stream[u.byte] = PairAt(omap, u, k)
         /\ v <= PageLimit + stream[u.byte].width /\ stream[u.byte].width \in Nat
    BY <2>1, <2>5, <2>10, <2>12
  <2> QED
    BY <2>3, <2>10, <2>11, <2>13
<1> QED
  BY <1>3, <1>4, PageOf

(* The page is read to its end: no entry is left. *)
LEMMA PageDone ==
  ASSUME MapWritten, NEW j \in 0 .. NumObjects, NEW w, w = Course(omap)[j],
         ~ (w.byte - w.start < stream[w.start].value)
  PROVE  /\ Standing = w /\ Pairs(NumObjects) = Pairs(j)
         /\ stream[w.start].value = IF w.open THEN w.byte - w.start ELSE 0
<1>1. /\ NumObjects \in Nat /\ Ascending(omap) /\ Len(omap) = NumObjects
      /\ Standing.byte \in Nat /\ Standing.start \in Nat /\ Standing.open \in BOOLEAN
      /\ ~ Standing.open => Standing.byte = Standing.start + 2
  BY WrittenFacts
<1>2. /\ w.byte \in Nat /\ w.start \in Nat /\ w.start + 2 <= w.byte
      /\ w.byte <= Standing.byte
  BY PlaceFacts
<1>3. PICK v \in Nat :
        /\ stream[w.start] = SizeCell(v)
        /\ \/ v > w.byte - w.start
           \/ /\ Standing.start = w.start
              /\ v = IF Standing.open THEN Standing.byte - w.start ELSE 0
  BY PageSize
<1>4. stream[w.start].value = v
  BY <1>3, CellFacts
<1>5. Standing.start = w.start /\ v = IF Standing.open THEN Standing.byte - w.start ELSE 0
  BY <1>1, <1>2, <1>3, <1>4
<1>6. Standing.byte = w.byte
  <2>1. CASE Standing.open
    BY <1>1, <1>2, <1>4, <1>5, <2>1
  <2>2. CASE ~ Standing.open
    BY <1>1, <1>2, <1>5, <2>2
  <2> QED
    BY <2>1, <2>2
<1>7. ASSUME NEW m \in j + 1 .. NumObjects, InMap(omap[m]), Course(omap)[m - 1] = w
      PROVE  FALSE
  <2>1. m \in 1 .. NumObjects /\ m \in 0 .. NumObjects
    BY <1>1
  <2> DEFINE x == Course(omap)[m]
             e == EndAt(omap, w, m)
  <2>2. e \in Nat /\ e > w.byte /\ (x.byte = e \/ x.byte = e + 4)
    BY <1>7, <2>1, PairInStream
  <2>3. x.byte <= Standing.byte
    BY <2>1, PlaceFacts
  <2> HIDE DEF x, e
  <2> QED
    BY <1>2, <1>6, <2>2, <2>3
<1>8. /\ \A k \in j + 1 .. NumObjects : ~ InMap(omap[k])
      /\ Standing = w
  <2>1. j \in 0 .. Len(omap)
    BY <1>1
  <2> QED
    BY <1>1, <1>7, <2>1, NextEntry DEF Standing
<1>9. Pairs(NumObjects) = Pairs(j)
  <2>1. NumObjects \in Nat /\ j \in 0 .. NumObjects
    BY <1>1
  <2> QED
    BY <1>8, <2>1, PairsGrow
<1> QED
  BY <1>4, <1>5, <1>6, <1>8, <1>9

(* The page goes on: the reader is at the pair of the next entry. *)
LEMMA PageGoesOn ==
  ASSUME MapWritten, NEW j \in 0 .. NumObjects, NEW w, w = Course(omap)[j],
         w.byte - w.start < stream[w.start].value
  PROVE  \E m \in j + 1 .. NumObjects :
           /\ InMap(omap[m]) /\ Course(omap)[m - 1] = w
           /\ Pairs(m - 1) = Pairs(j)
<1>1. /\ NumObjects \in Nat /\ Ascending(omap) /\ Len(omap) = NumObjects /\ MapEnds
      /\ j \in 0 .. Len(omap)
  BY WrittenFacts
<1>2. w.byte \in Nat /\ w.start \in Nat /\ w.start + 2 <= w.byte
  BY PlaceFacts
<1>3. Standing # w
  <2> SUFFICES ASSUME Standing = w PROVE FALSE
    OBVIOUS
  <2>1. stream[w.start].value = IF w.open THEN w.byte - w.start ELSE 0
    <3>1. CASE w.open
      BY <1>1, <3>1, CellFacts DEF MapEnds, PageAt
    <3>2. CASE ~ w.open
      BY <1>1, <3>2, CellFacts DEF MapEnds
    <3> QED
      BY <3>1, <3>2
  <2> QED
    BY <1>2, <2>1
<1>4. PICK m \in j + 1 .. NumObjects :
        /\ InMap(omap[m]) /\ Course(omap)[m - 1] = w
        /\ \A k \in j + 1 .. m - 1 : ~ InMap(omap[k])
  BY <1>1, <1>3, NextEntry DEF Standing
<1>5. Pairs(m - 1) = Pairs(j)
  <2>1. m - 1 \in Nat /\ j \in 0 .. m - 1
    BY <1>1
  <2> QED
    BY <1>4, <2>1, PairsGrow
<1> QED
  BY <1>4, <1>5

-----------------------------------------------------------------------------
(* The reader. *)

AddedSeqs == Seq(Nat \cup {Garbage})

(* What a pair adds, when the reader has come to the entry before it. *)
LEMMA AddedStep ==
  ASSUME MapLaid, NEW j \in 0 .. NumObjects, NEW m \in 1 .. NumObjects, InMap(omap[m]),
         Pairs(m - 1) = Pairs(j), AddedUpTo(j), ReadInMapOrder, added \in AddedSeqs,
         NEW r,
         \/ \E o \in ObjectsAt(omap[m].address) : r = Append(added, o)
         \/ ObjectsAt(omap[m].address) = {} /\ r = Append(added, Garbage)
         \/ ObjectsAt(omap[m].address) = {} /\ r = added
  PROVE  /\ r \in AddedSeqs /\ Len(r) <= Pairs(m)
         /\ Len(r) = Pairs(m) \/ LiveFrom(Len(r) + 1) = {}
         /\ \A k \in 1 .. Len(r) :
              r[k] = IF LiveFrom(k) = {} THEN Garbage ELSE omap[Min(LiveFrom(k))].index
<1> DEFINE n == Len(added)
           p == Pairs(j)
<1>1. /\ NumObjects \in Nat /\ omap \in Seq(Entries) /\ Len(omap) = NumObjects
  BY Addresses
<1>2. p \in Nat /\ n \in Nat /\ Pairs(m) = p + 1
  <2>1. j \in Nat /\ m - 1 \in Nat /\ m - 1 + 1 = m
    BY <1>1
  <2> QED
    BY <2>1, PairsGrow DEF AddedSeqs
<1>3. n <= p /\ (n = p \/ LiveFrom(n + 1) = {})
  BY DEF AddedUpTo
<1>4. \A k, l \in Nat : k <= l => LiveFrom(l) \subseteq LiveFrom(k)
  <2>1. \A x \in 1 .. NumObjects : Pairs(x) \in Nat
    <3> TAKE x \in 1 .. NumObjects
    <3>1. x \in Nat
      BY <1>1
    <3> QED
      BY <3>1, PairsGrow
  <2> QED
    BY <2>1 DEF LiveFrom
<1>5. \A k \in 1 .. n :
        added[k] = IF LiveFrom(k) = {} THEN Garbage ELSE omap[Min(LiveFrom(k))].index
  BY DEF ReadInMapOrder
<1>6. ObjectsAt(omap[m].address) =
        IF LiveFrom(p + 1) = {} THEN {} ELSE {omap[Min(LiveFrom(p + 1))].index}
  BY <1>2, AtAddress
<1>7. CASE LiveFrom(p + 1) # {}
  <2>1. n = p
    <3>1. n + 1 \in Nat /\ p + 1 \in Nat /\ n + 1 <= p + 1
      BY <1>2, <1>3
    <3> QED
      BY <1>3, <1>4, <1>7, <3>1
  <2> DEFINE o == omap[Min(LiveFrom(p + 1))].index
  <2>2. o \in Nat
    <3>1. LiveFrom(p + 1) \subseteq Nat /\ LiveFrom(p + 1) \subseteq 1 .. NumObjects
      BY <1>1 DEF LiveFrom
    <3>2. PICK l \in LiveFrom(p + 1) : \A y \in LiveFrom(p + 1) : l <= y
      BY <1>7, <3>1, Least
    <3>3. Min(LiveFrom(p + 1)) = l
      BY <3>1, <3>2, MinIs
    <3>4. omap[l] \in Entries
      BY <1>1, <3>1
    <3> QED
      BY <3>3, <3>4 DEF Entries
  <2> HIDE DEF o
  <2>3. r = Append(added, o)
    BY <1>6, <1>7 DEF o
  <2>4. added \in Seq(Nat \cup {Garbage}) /\ o \in Nat \cup {Garbage}
    BY <2>2 DEF AddedSeqs
  <2>5. /\ r \in AddedSeqs /\ Len(r) = n + 1 /\ r[n + 1] = o
        /\ \A k \in 1 .. n : r[k] = added[k]
    BY <2>3, <2>4 DEF AddedSeqs
  <2>6. ASSUME NEW k \in 1 .. n + 1
        PROVE  r[k] = IF LiveFrom(k) = {} THEN Garbage ELSE omap[Min(LiveFrom(k))].index
    <3>1. CASE k = n + 1
      BY <1>7, <2>1, <2>5, <3>1 DEF o
    <3>2. CASE k # n + 1
      <4>1. k \in 1 .. n
        BY <1>2, <3>2
      <4> QED
        BY <1>5, <2>5, <4>1
    <3> QED
      BY <3>1, <3>2
  <2> QED
    BY <1>2, <2>1, <2>5, <2>6
<1>8. CASE LiveFrom(p + 1) = {}
  <2>1. LiveFrom(n + 1) = {} /\ LiveFrom(n + 1 + 1) = {}
    <3>1. LiveFrom(n + 1) = {}
      BY <1>3, <1>8
    <3>2. n + 1 \in Nat /\ n + 1 + 1 \in Nat /\ n + 1 <= n + 1 + 1
      BY <1>2
    <3> QED
      BY <1>4, <3>1, <3>2
  <2>2. CASE r = added
    BY <1>2, <1>3, <1>5, <2>1, <2>2
  <2>3. CASE r = Append(added, Garbage)
    <3>1. added \in Seq(Nat \cup {Garbage}) /\ Garbage \in Nat \cup {Garbage}
      BY DEF AddedSeqs
    <3>2. /\ r \in AddedSeqs /\ Len(r) = n + 1 /\ r[n + 1] = Garbage
          /\ \A k \in 1 .. n : r[k] = added[k]
      BY <2>3, <3>1 DEF AddedSeqs
    <3>3. ASSUME NEW k \in 1 .. n + 1
          PROVE  r[k] = IF LiveFrom(k) = {} THEN Garbage ELSE omap[Min(LiveFrom(k))].index
      <4>1. CASE k = n + 1
        BY <2>1, <3>2, <4>1
      <4>2. CASE k # n + 1
        <5>1. k \in 1 .. n
          BY <1>2, <4>2
        <5> QED
          BY <1>5, <3>2, <5>1
      <4> QED
        BY <4>1, <4>2
    <3> QED
      BY <1>2, <1>3, <2>1, <3>2, <3>3
  <2>4. r = added \/ r = Append(added, Garbage)
    BY <1>6, <1>8
  <2> QED
    BY <2>2, <2>3, <2>4
<1> QED
  BY <1>7, <1>8

(* What a step of the reader leaves alone. *)
ReadsOnly == object' = object /\ omap' = omap /\ UNCHANGED pages /\ i' = i

LEMMA Frame ==
  ASSUME ReadsOnly
  PROVE  /\ NumObjects' = NumObjects /\ Course(omap)' = Course(omap)
         /\ stream' = stream /\ byte' = byte /\ ckr_missing' = ckr_missing
         /\ \A j : Pairs(j)' = Pairs(j) /\ LiveFrom(j)' = LiveFrom(j)
         /\ Standing' = Standing /\ LastPage' = LastPage /\ omap' = omap
  BY DEF ReadsOnly, NumObjects, pages, Pairs, LiveFrom, Live, ObjectOf, Standing, LastPage

Place(j) ==
  \/ InPage(Course(omap)[j])
  \/ AtPageEnd(Course(omap)[j - 1], j)
  \/ AtPageStart(Course(omap)[j])
  \/ j = NumObjects /\ AtLastPage

ReaderTypes ==
  /\ version \in {"none", "R_14", "R_2000", "R_2004"}
  /\ pos \in Nat /\ startpos \in Nat /\ section_size \in Nat /\ offset \in Nat
  /\ added \in AddedSeqs
  /\ readError \subseteq {"VALUEOUTOFBOUNDS", "WRONGCRC"}

ReaderInv ==
  /\ ReaderTypes
  /\ ~ Reading => added = <<>> /\ readError = {}
  /\ InStep
  /\ ReadInMapOrder /\ ComplaintsExplained

LEMMA WriterReads ==
  ASSUME ReaderInv, UNCHANGED reader, ~ Reading, ~ Reading'
  PROVE  ReaderInv'
<1>1. ReaderTypes'
  BY DEF ReaderInv, ReaderTypes, reader
<1>2. added' = <<>> /\ readError' = {}
  BY DEF ReaderInv, reader
<1>3. phase' \notin {"page", "pairs", "read", "refused"}
  BY DEF Reading
<1>4. InStep'
  BY <1>3 DEF InStep
<1>5. ReadInMapOrder'
  BY <1>2 DEF ReadInMapOrder
<1>6. ComplaintsExplained'
  BY <1>2, <1>3 DEF ComplaintsExplained, ChecksumsOfFullPages, RefusedOnlyWidePair
<1> QED
  BY <1>1, <1>2, <1>4, <1>5, <1>6 DEF ReaderInv

(* The reader goes on, to a place after j entries. *)
LEMMA ReadsOn ==
  ASSUME ReadsOnly, ReaderTypes', phase' \in {"page", "pairs"},
         NEW j \in 0 .. NumObjects, AddedUpTo(j)', Place(j)',
         "WRONGCRC" \notin readError', ReadInMapOrder'
  PROVE  ReaderInv'
<1>1. InStep'
  BY Frame DEF InStep, Place
<1>2. ComplaintsExplained'
  BY DEF ComplaintsExplained, ChecksumsOfFullPages, RefusedOnlyWidePair
<1>3. Reading'
  BY DEF Reading
<1> QED
  BY <1>1, <1>2, <1>3 DEF ReaderInv

LEMMA SameAdded ==
  ASSUME ReadsOnly, added' = added
  PROVE  /\ ReadInMapOrder => ReadInMapOrder'
         /\ \A j : AddedUpTo(j)' <=> AddedUpTo(j)
<1>1. \A k : LiveFrom(k)' = LiveFrom(k) /\ Pairs(k)' = Pairs(k)
  BY Frame
<1>2. omap' = omap
  BY Frame
<1> QED
  BY <1>1, <1>2 DEF ReadInMapOrder, AddedUpTo

LEMMA SameAddedAll ==
  ASSUME ReadsOnly, added' = added, AddedUpTo(NumObjects)
  PROVE  AddedUpTo(NumObjects)'
<1>1. NumObjects' = NumObjects
  BY Frame
<1>2. PICK n : n = NumObjects
  OBVIOUS
<1>3. AddedUpTo(n)'
  BY <1>2, SameAdded
<1> QED
  BY <1>1, <1>2, <1>3 DEF AddedUpTo, Pairs

LEMMA OpenFileStep ==
  ASSUME MapWritten, ReaderInv, OpenFile
  PROVE  ReaderInv'
<1>1. ReadsOnly
  BY DEF OpenFile, ReadsOnly, writer
<1>2. /\ phase' = "page" /\ pos' = 0 /\ added' = <<>> /\ readError' = {}
      /\ version' \in {"R_14", "R_2000", "R_2004"}
      /\ startpos' = startpos /\ section_size' = section_size /\ offset' = offset
  BY DEF OpenFile
<1>3. ReaderTypes'
  BY <1>2 DEF ReaderInv, ReaderTypes, AddedSeqs
<1>4. NumObjects \in Nat /\ Len(omap) \in Nat
  BY WrittenFacts
<1>5. Course(omap)[0] = FirstPage
  BY <1>4, CourseUnfolds
<1>6. Place(0)'
  <2>1. Course(omap)'[0] = FirstPage
    BY <1>1, <1>5, Frame
  <2> QED
    BY <1>2, <2>1 DEF Place, AtPageStart, FirstPage
<1>7. AddedUpTo(0)'
  <2>1. Pairs(0) = 0 /\ Pairs(0)' = Pairs(0)
    BY <1>1, PairsGrow, Frame
  <2> QED
    BY <1>2, <2>1 DEF AddedUpTo
<1>8. ReadInMapOrder'
  BY <1>2 DEF ReadInMapOrder
<1> QED
  BY <1>1, <1>2, <1>3, <1>4, <1>6, <1>7, <1>8, ReadsOn

LEMMA OpenPageStep ==
  ASSUME MapWritten, ReaderInv, OpenPage
  PROVE  ReaderInv'
<1>1. ReadsOnly /\ Reading'
  BY DEF OpenPage, ReadsOnly, writer, Reading
<1>2. /\ phase = "page" /\ startpos' = pos /\ pos' = pos + 2 /\ offset' = 0
      /\ section_size' = stream[pos].value /\ added' = added /\ version' = version
      /\ IF section_size' > ReadLimit
         THEN phase' = "refused" /\ readError' = readError \cup {"VALUEOUTOFBOUNDS"}
         ELSE phase' = "pairs" /\ readError' = readError
  BY DEF OpenPage
<1>3. "WRONGCRC" \notin readError /\ ReaderTypes /\ ReadInMapOrder
  BY <1>2 DEF ReaderInv, InStep
<1>4. PICK j \in 0 .. NumObjects :
        /\ AddedUpTo(j)
        /\ AtPageStart(Course(omap)[j]) \/ (j = NumObjects /\ AtLastPage)
  BY <1>2 DEF ReaderInv, InStep, InPage, AtPageEnd
<1>5. AddedUpTo(j)' /\ ReadInMapOrder'
  BY <1>1, <1>2, <1>3, <1>4, SameAdded
<1>6. ReadLimit \in Nat /\ PageLimit \in Nat /\ PageLimit >= 2 /\ ReadLimit >= PageLimit
  BY DEF SectionConstants
<1>7. CASE AtPageStart(Course(omap)[j])
  <2>1. PICK w : w = Course(omap)[j]
    OBVIOUS
  <2>2. pos = w.start /\ w.byte = pos + 2 /\ w.offset = 0
    BY <1>7, <2>1 DEF AtPageStart
  <2>3. PICK v \in Nat :
          /\ stream[w.start] = SizeCell(v)
          /\ \/ \E k \in j + 1 .. NumObjects :
                  LET b == Course(omap)[k - 1].byte IN
                  /\ InMap(omap[k]) /\ b \in DOMAIN stream
                  /\ stream[b] = PairAt(omap, Course(omap)[k - 1], k)
                  /\ v <= PageLimit + stream[b].width /\ stream[b].width \in Nat
             \/ /\ Standing.start = w.start
                /\ v = IF Standing.open THEN Standing.byte - w.start ELSE 0
    BY <2>1, PageSize
  <2>4. section_size' = v
    BY <1>2, <2>2, <2>3, CellFacts
  <2>5. ReaderTypes'
    <3>1. readError' \subseteq {"VALUEOUTOFBOUNDS", "WRONGCRC"}
      <4>1. readError' = readError \/ readError' = readError \cup {"VALUEOUTOFBOUNDS"}
        BY <1>2
      <4> QED
        BY <1>3, <4>1 DEF ReaderTypes
    <3>2. /\ startpos' = pos /\ pos' = pos + 2 /\ offset' = 0 /\ added' = added
          /\ version' = version
      BY <1>2
    <3> QED
      BY <1>3, <2>4, <3>1, <3>2 DEF ReaderTypes
  <2>6. CASE v > ReadLimit
    <3>1. phase' = "refused" /\ readError' = readError \cup {"VALUEOUTOFBOUNDS"}
      BY <1>2, <2>4, <2>6
    <3>2. PICK k \in j + 1 .. NumObjects, b \in DOMAIN stream :
            /\ stream[b] = PairAt(omap, Course(omap)[k - 1], k)
            /\ v <= PageLimit + stream[b].width /\ stream[b].width \in Nat
      <4>1. ~ (Standing.start = w.start
               /\ v = IF Standing.open THEN Standing.byte - w.start ELSE 0)
        <5>1. Standing.byte \in Nat /\ Standing.start \in Nat
              /\ Standing.byte - Standing.start <= PageLimit
          BY WrittenFacts
        <5> QED
          BY <1>6, <2>6, <5>1
      <4> QED
        BY <2>3, <4>1
    <3>3. stream[b].kind = "pair"
      BY <3>2, CellFacts
    <3>4. stream[b].width > ReadLimit - PageLimit
      <4> DEFINE z == stream[b].width
      <4>1. z \in Nat /\ v <= PageLimit + z
        BY <3>2
      <4> HIDE DEF z
      <4>2. z > ReadLimit - PageLimit
        BY <1>6, <2>6, <4>1
      <4> QED
        BY <4>2 DEF z
    <3>5. ComplaintsExplained'
      <4>1. stream' = stream /\ "WRONGCRC" \notin readError' /\ phase' # "read"
        BY <1>1, <1>3, <3>1, Frame
      <4>2. RefusedOnlyWidePair'
        BY <3>2, <3>3, <3>4, <4>1 DEF RefusedOnlyWidePair
      <4> QED
        BY <4>1, <4>2 DEF ComplaintsExplained, ChecksumsOfFullPages
    <3>6. InStep'
      BY <3>1 DEF InStep
    <3> QED
      BY <1>1, <1>5, <2>5, <3>5, <3>6 DEF ReaderInv
  <2>7. CASE ~ (v > ReadLimit)
    <3>1. phase' = "pairs" /\ readError' = readError
      BY <1>2, <2>4, <2>7
    <3>2. Place(j)'
      <4>1. Course(omap)' = Course(omap) /\ stream' = stream
        BY <1>1, Frame
      <4>2. /\ startpos' = w.start /\ pos' = w.byte /\ offset' = w.offset
            /\ section_size' = stream'[startpos'].value /\ w = Course(omap)'[j]
        BY <1>2, <2>1, <2>2, <4>1
      <4> QED
        BY <3>1, <4>2 DEF Place, InPage
    <3> QED
      BY <1>1, <1>3, <1>5, <2>5, <3>1, <3>2, ReadsOn
  <2> QED
    BY <2>6, <2>7
<1>8. CASE j = NumObjects /\ AtLastPage
  <2>1. Standing.open /\ pos = LastPage /\ LastPage \in Nat /\ MapEnds
    BY <1>2, <1>8, WrittenFacts DEF AtLastPage
  <2>2. section_size' = 2
    <3>1. stream[LastPage] = SizeCell(LastPage + 2 - LastPage) /\ LastPage + 2 - LastPage = 2
      BY <2>1 DEF MapEnds, PageAt
    <3> QED
      BY <1>2, <2>1, <3>1, CellFacts
  <2>3. phase' = "pairs" /\ readError' = readError
    BY <1>2, <1>6, <2>2
  <2>4. ReaderTypes'
    BY <1>2, <1>3, <2>2, <2>3 DEF ReaderTypes
  <2>5. Place(j)'
    <3>1. LastPage' = LastPage /\ Standing' = Standing /\ NumObjects' = NumObjects
      BY <1>1, Frame
    <3>2. AtLastPage'
      BY <1>2, <2>1, <2>2, <2>3, <3>1 DEF AtLastPage
    <3> QED
      BY <1>8, <3>1, <3>2 DEF Place
  <2> QED
    BY <1>1, <1>3, <1>5, <2>3, <2>4, <2>5, ReadsOn
<1> QED
  BY <1>4, <1>7, <1>8

LEMMA ReadPairStep ==
  ASSUME MapWritten, ReaderInv, ReadPair
  PROVE  ReaderInv'
<1>1. ReadsOnly
  BY DEF ReadPair, ReadsOnly, writer
<1>2. /\ phase = "pairs" /\ phase' = "pairs" /\ pos - startpos < section_size
      /\ offset' = offset + stream[pos].offset /\ pos' = pos + stream[pos].width
      /\ startpos' = startpos /\ section_size' = section_size /\ version' = version
      /\ \/ readError' = readError
         \/ readError' = readError \cup {"VALUEOUTOFBOUNDS"}
      /\ \/ \E o \in ObjectsAt(offset') : added' = Append(added, o)
         \/ ObjectsAt(offset') = {} /\ added' = Append(added, Garbage)
         \/ ObjectsAt(offset') = {} /\ added' = added
  BY DEF ReadPair
<1>3. "WRONGCRC" \notin readError /\ ReaderTypes /\ ReadInMapOrder
  BY <1>2 DEF ReaderInv, InStep
<1>4. PICK j \in 0 .. NumObjects : AddedUpTo(j) /\ InPage(Course(omap)[j])
  <2>1. PICK j \in 0 .. NumObjects : AddedUpTo(j) /\ Place(j)
    BY <1>2 DEF ReaderInv, InStep, Place
  <2>2. ~ AtPageEnd(Course(omap)[j - 1], j)
    BY <1>2, <1>3 DEF AtPageEnd, ReaderTypes
  <2>3. ~ AtPageStart(Course(omap)[j])
    BY <1>2 DEF AtPageStart
  <2>4. ~ AtLastPage
    <3>1. LastPage \in Nat
      BY WrittenFacts
    <3> QED
      BY <1>2, <3>1 DEF AtLastPage
  <2> QED
    BY <2>1, <2>2, <2>3, <2>4 DEF Place
<1>5. PICK w : w = Course(omap)[j]
  OBVIOUS
<1>6. /\ startpos = w.start /\ pos = w.byte /\ offset = w.offset
      /\ section_size = stream[w.start].value
  BY <1>4, <1>5 DEF InPage
<1>7. NumObjects \in Nat
  BY WrittenFacts
<1>8. w.byte \in Nat /\ w.start \in Nat /\ w.offset \in Nat /\ StandsWell(omap, w, j)
  BY <1>5, PlaceFacts
<1>9. PICK m \in j + 1 .. NumObjects :
        InMap(omap[m]) /\ Course(omap)[m - 1] = w /\ Pairs(m - 1) = Pairs(j)
  BY <1>2, <1>5, <1>6, PageGoesOn
<1>10. m \in 1 .. NumObjects /\ m \in 0 .. NumObjects /\ m > 0
  BY <1>7
<1>11. PICK e, x : e = EndAt(omap, w, m) /\ x = Course(omap)[m]
  OBVIOUS
<1>12. /\ stream[w.byte] = PairAt(omap, w, m)
       /\ e \in Nat /\ e > w.byte /\ e = w.byte + PairAt(omap, w, m).width
       /\ PairAt(omap, w, m).offset = omap[m].address - w.offset
       /\ omap[m].address \in Nat
       /\ Closes(omap, w, m) => PageAt(stream, w.start, e)
       /\ ~ Closes(omap, w, m) =>
            x.start = w.start /\ x.byte = e /\ x.offset = omap[m].address
  BY <1>9, <1>10, <1>11, PairInStream
<1>13. offset' = omap[m].address /\ pos' = e
  BY <1>2, <1>6, <1>8, <1>12
<1>14. /\ added' \in AddedSeqs /\ Len(added') <= Pairs(m)
       /\ Len(added') = Pairs(m) \/ LiveFrom(Len(added') + 1) = {}
       /\ \A k \in 1 .. Len(added') :
            added'[k] = IF LiveFrom(k) = {} THEN Garbage ELSE omap[Min(LiveFrom(k))].index
  <2>1. MapLaid /\ added \in AddedSeqs
    BY <1>3 DEF MapWritten, ReaderTypes
  <2>2. \/ \E o \in ObjectsAt(omap[m].address) : added' = Append(added, o)
        \/ ObjectsAt(omap[m].address) = {} /\ added' = Append(added, Garbage)
        \/ ObjectsAt(omap[m].address) = {} /\ added' = added
    BY <1>2, <1>13
  <2> QED
    BY <1>3, <1>4, <1>9, <1>10, <2>1, <2>2, AddedStep
<1>15. /\ \A k : LiveFrom(k)' = LiveFrom(k) /\ Pairs(k)' = Pairs(k)
       /\ omap' = omap /\ Course(omap)' = Course(omap) /\ stream' = stream
       /\ NumObjects' = NumObjects
  BY <1>1, Frame
<1>16. AddedUpTo(m)' /\ ReadInMapOrder'
  BY <1>14, <1>15 DEF AddedUpTo, ReadInMapOrder
<1>17. ReaderTypes'
  BY <1>2, <1>3, <1>12, <1>13, <1>14 DEF ReaderTypes
<1>18. Place(m)'
  <2>1. CASE Closes(omap, w, m)
    <3>1. section_size = e - w.start
      <4>1. stream[w.start] = SizeCell(e - w.start)
        BY <1>12, <2>1 DEF PageAt
      <4> QED
        BY <1>6, <4>1, CellFacts
    <3>2. AtPageEnd(Course(omap)[m - 1], m)'
      BY <1>2, <1>6, <1>9, <1>10, <1>11, <1>13, <1>15, <2>1, <3>1 DEF AtPageEnd
    <3> QED
      BY <3>2 DEF Place
  <2>2. CASE ~ Closes(omap, w, m)
    <3>1. /\ startpos' = x.start /\ pos' = x.byte /\ offset' = x.offset
          /\ section_size' = stream'[startpos'].value /\ x = Course(omap)'[m]
      BY <1>2, <1>6, <1>11, <1>12, <1>13, <1>15, <2>2
    <3>2. InPage(Course(omap)[m])'
      BY <1>2, <3>1 DEF InPage
    <3> QED
      BY <3>2 DEF Place
  <2> QED
    BY <2>1, <2>2
<1> QED
  BY <1>1, <1>2, <1>3, <1>10, <1>16, <1>17, <1>18, ReadsOn

(* A checksum over the page up to where the reader is. *)
LEMMA ReadChecksum ==
  ASSUME PageAt(stream, startpos, pos), startpos + section_size = pos
  PROVE  ChecksumAgrees
<1>1. ChecksumEnd = pos
  BY DEF ChecksumEnd
<1>2. stream[pos] = CrcCell(Content(stream, startpos, pos))
  BY DEF PageAt
<1> QED
  BY <1>1, <1>2, CellFacts DEF ChecksumAgrees

(* The reader has come to the end of the map. *)
LEMMA ReadsToEnd ==
  ASSUME ReadsOnly, ReaderTypes', phase' = "read", AddedUpTo(NumObjects)',
         ReadInMapOrder',
         \/ ckr_missing /\ "WRONGCRC" \notin readError'
         \/ /\ ~ ckr_missing /\ section_size' = 0
            /\ version' = "R_14" \/ "WRONGCRC" \in readError'
  PROVE  ReaderInv'
<1>1. ckr_missing' = ckr_missing /\ NumObjects' = NumObjects
  BY Frame
<1>2. InStep'
  BY <1>1 DEF InStep
<1>3. ComplaintsExplained'
  BY <1>1 DEF ComplaintsExplained, ChecksumsOfFullPages, RefusedOnlyWidePair
<1> QED
  BY <1>2, <1>3 DEF ReaderInv, Reading

LEMMA EndPageStep ==
  ASSUME MapWritten, ReaderInv, EndPage
  PROVE  ReaderInv'
<1>1. ReadsOnly
  BY DEF EndPage, ReadsOnly, writer
<1>2. /\ phase = "pairs" /\ pos - startpos >= section_size /\ pos' = pos + 2
      /\ startpos' = startpos /\ section_size' = section_size /\ version' = version
      /\ offset' = offset /\ added' = added
      /\ ChecksumAgrees \/ version = "R_14" => readError' = readError
      /\ ~ (ChecksumAgrees \/ version = "R_14") => readError' = readError \cup {"WRONGCRC"}
      /\ pos + 2 >= byte \/ section_size <= 2 => phase' = "read"
      /\ ~ (pos + 2 >= byte \/ section_size <= 2) => phase' = "page"
  BY DEF EndPage
<1>3. "WRONGCRC" \notin readError /\ ReaderTypes /\ ReadInMapOrder
  BY <1>2 DEF ReaderInv, InStep
<1>4. PICK j \in 0 .. NumObjects : AddedUpTo(j) /\ Place(j)
  BY <1>2 DEF ReaderInv, InStep, Place
<1>5. ReaderTypes'
  <2>1. readError' \subseteq {"VALUEOUTOFBOUNDS", "WRONGCRC"}
    <3>1. readError' = readError \/ readError' = readError \cup {"WRONGCRC"}
      BY <1>2
    <3> QED
      BY <1>3, <3>1 DEF ReaderTypes
  <2>2. /\ pos' = pos + 2 /\ startpos' = startpos /\ section_size' = section_size
        /\ version' = version /\ offset' = offset /\ added' = added
    BY <1>2
  <2> QED
    BY <1>3, <2>1, <2>2 DEF ReaderTypes
<1>6. AddedUpTo(j)' /\ ReadInMapOrder' /\ \A k : AddedUpTo(k)' <=> AddedUpTo(k)
  BY <1>1, <1>2, <1>3, <1>4, SameAdded
<1>7. /\ NumObjects \in Nat /\ LastPage \in Nat /\ byte = LastPage + 4 /\ MapEnds
      /\ Standing.open => LastPage = Standing.byte + 2
      /\ ~ Standing.open => LastPage = Standing.byte
      /\ Standing.byte \in Nat /\ Standing.start \in Nat /\ Standing.open \in BOOLEAN
  BY WrittenFacts
<1>8. /\ LastPage' = LastPage /\ Standing' = Standing /\ NumObjects' = NumObjects
      /\ Course(omap)' = Course(omap)
  BY <1>1, Frame
<1>9. CASE InPage(Course(omap)[j])
  <2>1. PICK w : w = Course(omap)[j]
    OBVIOUS
  <2>2. /\ startpos = w.start /\ pos = w.byte /\ section_size = stream[w.start].value
    BY <1>9, <2>1 DEF InPage
  <2>3. w.byte \in Nat /\ w.start \in Nat /\ w.start + 2 <= w.byte
    BY <2>1, PlaceFacts
  <2>4. /\ Standing = w /\ Pairs(NumObjects) = Pairs(j)
        /\ section_size = IF w.open THEN w.byte - w.start ELSE 0
    <3>1. ~ (w.byte - w.start < stream[w.start].value)
      BY <1>2, <1>3, <2>2, <2>3 DEF ReaderTypes
    <3> QED
      BY <2>1, <2>2, <3>1, PageDone
  <2>5. AddedUpTo(NumObjects)' /\ AddedUpTo(NumObjects)
    <3>1. AddedUpTo(NumObjects)
      BY <1>4, <2>4 DEF AddedUpTo
    <3> QED
      BY <1>1, <1>2, <3>1, SameAddedAll
  <2>6. CASE w.open
    <3>1. PageAt(stream, w.start, w.byte) /\ ckr_missing
      BY <1>7, <2>4, <2>6 DEF MapEnds
    <3>2. startpos + section_size = pos
      BY <2>2, <2>3, <2>4, <2>6
    <3>3. ChecksumAgrees
      BY <2>2, <3>1, <3>2, ReadChecksum
    <3>4. readError' = readError /\ pos' = LastPage
      BY <1>2, <1>7, <2>2, <2>4, <2>6, <3>3
    <3>5. CASE phase' = "read"
      BY <1>1, <1>3, <1>5, <1>6, <2>5, <3>1, <3>4, <3>5, ReadsToEnd
    <3>6. CASE phase' = "page"
      <4>1. PICK n \in 0 .. NumObjects : n = NumObjects
        BY <1>7
      <4>2. AtLastPage'
        BY <1>8, <2>4, <2>6, <3>4, <3>6 DEF AtLastPage
      <4>3. Place(n)'
        BY <1>8, <4>1, <4>2 DEF Place
      <4>4. AddedUpTo(n)'
        BY <1>6, <2>5, <4>1
      <4> QED
        BY <1>1, <1>3, <1>5, <1>6, <3>4, <3>6, <4>3, <4>4, ReadsOn
    <3> QED
      BY <1>2, <3>5, <3>6
  <2>7. CASE ~ w.open
    <3>1. ~ ckr_missing /\ section_size = 0 /\ pos = LastPage
      BY <1>7, <2>2, <2>4, <2>7 DEF MapEnds
    <3>2. ~ ChecksumAgrees
      <4>1. stream[LastPage].kind = "size"
        BY <1>7, CellFacts DEF MapEnds, PageAt
      <4> QED
        BY <3>1, <4>1 DEF ChecksumAgrees
    <3>3. phase' = "read"
      BY <1>2, <3>1
    <3>4. version' = "R_14" \/ "WRONGCRC" \in readError'
      BY <1>2, <3>2
    <3> QED
      BY <1>1, <1>2, <1>5, <1>6, <2>5, <3>1, <3>3, <3>4, ReadsToEnd
  <2> QED
    BY <2>6, <2>7
<1>10. CASE AtPageEnd(Course(omap)[j - 1], j)
  <2>1. PICK w, e, x : /\ w = Course(omap)[j - 1] /\ e = EndAt(omap, w, j)
                       /\ x = Course(omap)[j]
    OBVIOUS
  <2>2. /\ j \in 1 .. NumObjects /\ InMap(omap[j]) /\ Closes(omap, w, j)
        /\ startpos = w.start /\ pos = e /\ section_size = pos - startpos
    BY <1>7, <1>10, <2>1 DEF AtPageEnd
  <2>3. /\ e \in Nat /\ PageAt(stream, w.start, e) /\ e - w.start > PageLimit
        /\ x.start = e + 2 /\ x.byte = e + 4 /\ x.offset = 0
    BY <2>1, <2>2, PairInStream
  <2>4. ChecksumAgrees
    <3>1. startpos + section_size = pos
      BY <1>3, <2>2 DEF ReaderTypes
    <3> QED
      BY <2>2, <2>3, <3>1, ReadChecksum
  <2>5. x.byte <= Standing.byte
    BY <2>1, PlaceFacts
  <2>6. pos + 2 < byte /\ section_size > 2
    <3>1. PageLimit \in Nat /\ PageLimit >= 2
      BY DEF SectionConstants
    <3>2. section_size = e - w.start /\ startpos \in Nat /\ section_size \in Nat
      BY <1>3, <2>2 DEF ReaderTypes
    <3>3. section_size > 2
      BY <2>2, <2>3, <3>1, <3>2
    <3>4. e + 4 <= LastPage
      BY <1>7, <2>3, <2>5
    <3> QED
      BY <1>7, <2>2, <2>3, <3>3, <3>4
  <2>7. phase' = "page" /\ readError' = readError
    <3>1. ~ (pos + 2 >= byte) /\ ~ (section_size <= 2)
      BY <1>3, <1>7, <2>6 DEF ReaderTypes
    <3> QED
      BY <1>2, <2>4, <3>1
  <2>8. Place(j)'
    <3>1. AtPageStart(Course(omap)[j])'
      <4>1. x = Course(omap)'[j] /\ pos' = x.start /\ x.byte = pos' + 2
        BY <1>2, <1>8, <2>1, <2>2, <2>3
      <4> QED
        BY <2>3, <2>7, <4>1 DEF AtPageStart
    <3> QED
      BY <3>1 DEF Place
  <2> QED
    BY <1>1, <1>3, <1>5, <1>6, <2>7, <2>8, ReadsOn
<1>11. CASE j = NumObjects /\ AtLastPage
  <2>1. /\ Standing.open /\ startpos = LastPage /\ pos = LastPage + 2 /\ section_size = 2
        /\ ckr_missing
    BY <1>2, <1>7, <1>11 DEF AtLastPage, MapEnds
  <2>2. ChecksumAgrees
    <3>1. PageAt(stream, startpos, pos)
      BY <1>7, <2>1 DEF MapEnds
    <3>2. startpos + section_size = pos
      BY <1>7, <2>1
    <3> QED
      BY <3>1, <3>2, ReadChecksum
  <2>3. phase' = "read" /\ readError' = readError
    BY <1>2, <2>1, <2>2
  <2>4. AddedUpTo(NumObjects)'
    BY <1>1, <1>2, <1>4, <1>11, SameAddedAll
  <2> QED
    BY <1>1, <1>3, <1>5, <1>6, <2>1, <2>3, <2>4, ReadsToEnd
<1>12. ~ AtPageStart(Course(omap)[j])
  BY <1>2 DEF AtPageStart
<1> QED
  BY <1>4, <1>9, <1>10, <1>11, <1>12 DEF Place

LEMMA ReaderStep ==
  ASSUME WriterInv, StreamInv, ReaderInv, [Next]_vars
  PROVE  ReaderInv'
<1>1. CASE Write
  <2>1. UNCHANGED reader /\ ~ Reading /\ ~ Reading'
    BY <1>1 DEF Write, FillMap, NoMemory, SortEntry, SortDone, SkipObject, WriteObject,
                HugeObject, StartPages, SkipPair, WritePair, WriteLastPair, EndMap, Reading
  <2> QED
    BY <2>1, WriterReads
<1>2. CASE Read
  <2>1. MapWritten
    BY <1>2 DEF Read, OpenFile, OpenPage, ReadPair, EndPage, MapWritten, MapLaid,
                WriterInv, Reading
  <2> QED
    BY <1>2, <2>1, OpenFileStep, OpenPageStep, ReadPairStep, EndPageStep DEF Read
<1>3. CASE UNCHANGED vars
  <2>1. /\ ReadsOnly /\ phase' = phase /\ added' = added /\ readError' = readError
        /\ pos' = pos /\ startpos' = startpos /\ section_size' = section_size
        /\ offset' = offset /\ version' = version
    BY <1>3 DEF vars, ReadsOnly, writer, reader
  <2>2. ReaderTypes' /\ (~ Reading' => added' = <<>> /\ readError' = {})
    BY <2>1 DEF ReaderInv, ReaderTypes, Reading
  <2>3. ReadInMapOrder'
    BY <2>1, SameAdded DEF ReaderInv
  <2>4. ComplaintsExplained'
    BY <2>1, Frame DEF ReaderInv, ComplaintsExplained, ChecksumsOfFullPages,
                       RefusedOnlyWidePair
  <2>5. InStep'
    <3>1. CASE phase \in {"page", "pairs"}
      <4>1. PICK j \in 0 .. NumObjects : AddedUpTo(j) /\ Place(j)
        BY <3>1 DEF ReaderInv, InStep, Place
      <4>2. AddedUpTo(j)'
        BY <2>1, <4>1, SameAdded
      <4>3. /\ Course(omap)' = Course(omap) /\ omap' = omap /\ stream' = stream
            /\ Standing' = Standing /\ LastPage' = LastPage /\ NumObjects' = NumObjects
        BY <2>1, Frame
      <4>4. Place(j)'
        BY <2>1, <4>1, <4>3 DEF Place, InPage, AtPageEnd, AtPageStart, AtLastPage
      <4>5. "WRONGCRC" \notin readError'
        BY <2>1, <3>1 DEF ReaderInv, InStep
      <4> QED
        BY <2>1, <3>1, <4>2, <4>3, <4>4, <4>5 DEF InStep, Place
    <3>2. CASE phase = "read"
      <4>1. AddedUpTo(NumObjects)'
        BY <2>1, <3>2, SameAddedAll DEF ReaderInv, InStep
      <4> QED
        BY <2>1, <3>2, <4>1 DEF InStep
    <3>3. CASE phase \notin {"page", "pairs", "read"}
      BY <2>1, <3>3 DEF InStep
    <3> QED
      BY <3>1, <3>2, <3>3
  <2> QED
    BY <2>2, <2>3, <2>4, <2>5 DEF ReaderInv
<1> QED
  BY <1>1, <1>2, <1>3 DEF Next, Finished

(* The rest of the types. *)
PlainInv ==
  /\ NumObjects <= MaxObjects /\ i \in 1 .. NumObjects + 1
  /\ phase \in {"start", "failed", "sort", "objects", "map", "written",
                "page", "pairs", "read", "refused"}
  /\ skipped \in BOOLEAN
  /\ phase \in {"start", "failed"} => omap = <<>>

LEMMA PlainStep == SortInv /\ PlainInv /\ [Next]_vars => PlainInv'
<1> SUFFICES ASSUME SortInv, PlainInv, [Next]_vars PROVE PlainInv'
  OBVIOUS
<1>1. NumObjects \in Nat /\ i \in Nat /\ MaxObjects \in Nat
  BY DEF SortInv, Head0, NumObjects, SectionConstants
<1>2. object' = object /\ NumObjects' = NumObjects
  BY DEF Next, Write, Read, FillMap, NoMemory, SortEntry, SortDone, SkipObject,
         WriteObject, HugeObject, StartPages, SkipPair, WritePair, WriteLastPair, EndMap,
         OpenFile, OpenPage, ReadPair, EndPage, Finished, vars, NumObjects
<1>3. \/ i' = 1
      \/ i' = i + 1 /\ i <= NumObjects
      \/ i' = i
  BY DEF Next, Write, Read, FillMap, NoMemory, SortEntry, SortDone, SkipObject,
         WriteObject, HugeObject, StartPages, SkipPair, WritePair, WriteLastPair, EndMap,
         OpenFile, OpenPage, ReadPair, EndPage, Finished, vars
<1>4. skipped' \in BOOLEAN
  BY DEF PlainInv, Next, Write, Read, FillMap, NoMemory, SortEntry, SortDone, SkipObject,
         WriteObject, HugeObject, StartPages, SkipPair, WritePair, WriteLastPair, EndMap,
         OpenFile, OpenPage, ReadPair, EndPage, Finished, vars, writer
<1>5. phase' \in {"start", "failed", "sort", "objects", "map", "written",
                  "page", "pairs", "read", "refused"}
  BY DEF PlainInv, Next, Write, Read, FillMap, NoMemory, SortEntry, SortDone, SkipObject,
         WriteObject, HugeObject, StartPages, SkipPair, WritePair, WriteLastPair, EndMap,
         OpenFile, OpenPage, ReadPair, EndPage, Finished, vars
<1>6. phase' \in {"start", "failed"} => omap' = <<>>
  BY DEF PlainInv, Next, Write, Read, FillMap, NoMemory, SortEntry, SortDone, SkipObject,
         WriteObject, HugeObject, StartPages, SkipPair, WritePair, WriteLastPair, EndMap,
         OpenFile, OpenPage, ReadPair, EndPage, Finished, vars, writer
<1> QED
  BY <1>1, <1>2, <1>3, <1>4, <1>5, <1>6 DEF PlainInv

(* The inductive invariant of the writer and the reader together. *)
WholeInv == WriterInv /\ StreamInv /\ ReaderInv /\ PlainInv

LEMMA InitWhole == Init => WholeInv
<1> SUFFICES ASSUME Init PROVE WholeInv
  OBVIOUS
<1>1. SortInv /\ LayInv /\ PageInv
  BY InitHolds
<1>2. ShareInv
  BY DEF Init, ShareInv, Sorting
<1>3. StreamInv
  BY DEF Init, StreamInv, CellsTyped, StreamWritten, Reading
<1>4. ReaderInv
  <2>1. /\ phase = "start" /\ added = <<>> /\ readError = {} /\ version = "none"
        /\ pos = 0 /\ startpos = 0 /\ section_size = 0 /\ offset = 0
    BY DEF Init
  <2> QED
    BY <2>1 DEF ReaderInv, ReaderTypes, InStep, ReadInMapOrder, ComplaintsExplained,
                ChecksumsOfFullPages, RefusedOnlyWidePair, AddedSeqs
<1>5. PlainInv
  <2>1. PICK n \in 0 .. MaxObjects : object \in [1 .. n -> Objects]
    BY DEF Init
  <2>2. NumObjects = n /\ n \in Nat /\ n <= MaxObjects
    BY <2>1 DEF NumObjects
  <2>3. i \in 1 .. NumObjects + 1
    BY <2>2 DEF Init
  <2> QED
    BY <2>2, <2>3 DEF Init, PlainInv
<1> QED
  BY <1>1, <1>2, <1>3, <1>4, <1>5 DEF WholeInv, WriterInv

THEOREM ReaderInvariant == Spec => []WholeInv
<1>1. WholeInv /\ [Next]_vars => WholeInv'
  <2> SUFFICES ASSUME WholeInv, [Next]_vars PROVE WholeInv'
    OBVIOUS
  <2>1. SortInv /\ LayInv /\ ShareInv /\ PageInv /\ at \in Nat
    BY DEF WholeInv, WriterInv, LayInv
  <2>2. SortInv' /\ LayInv' /\ ShareInv' /\ PageInv'
    BY <2>1, SortStep, LayStep, ShareStep, PageStep
  <2>3. StreamInv' /\ ReaderInv'
    BY StreamStep, ReaderStep DEF WholeInv
  <2>4. PlainInv'
    BY <2>1, PlainStep DEF WholeInv
  <2> QED
    BY <2>2, <2>3, <2>4 DEF WholeInv, WriterInv
<1> QED
  BY <1>1, InitWhole, PTL DEF Spec

(* Every variable keeps its type: no cell of the map but those three, and  *)
(* no offset in it that is negative.                                       *)
THEOREM TypeCorrect == Spec => []TypeOK
<1>1. WholeInv => TypeOK
  <2> SUFFICES ASSUME WholeInv PROVE TypeOK
    OBVIOUS
  <2>1. object \in Seq(Objects) /\ at \in Nat /\ byte \in Nat /\ size_adr \in Nat
    BY DEF WholeInv, WriterInv, SortInv, Head0, LayInv, PageInv
  <2>2. omap \in Seq(Entries)
    <3>1. CASE phase \in {"start", "failed"}
      <4>1. omap = <<>>
        BY <3>1 DEF WholeInv, PlainInv
      <4> QED
        BY <4>1
    <3>2. CASE phase \notin {"start", "failed"}
      <4>1. omap \in [1 .. NumObjects -> Entries]
        BY <3>2 DEF WholeInv, WriterInv, SortInv, Filled, Entries
      <4>2. NumObjects \in Nat
        BY <2>1 DEF NumObjects
      <4> QED
        BY <4>1, <4>2
    <3> QED
      BY <3>1, <3>2
  <2>3. omap \in Seq([index : Nat, handle : Nat, address : Nat])
    BY <2>2 DEF Entries
  <2> QED
    BY <2>1, <2>3 DEF WholeInv, PlainInv, StreamInv, CellsTyped, ReaderInv, ReaderTypes,
                      AddedSeqs, TypeOK
<1> QED
  BY <1>1, ReaderInvariant, PTL

(* The reader adds the objects in the order of the map.                    *)
THEOREM ReadsInMapOrder == Spec => []ReadInMapOrder
<1>1. WholeInv => ReadInMapOrder
  BY DEF WholeInv, ReaderInv
<1> QED
  BY <1>1, ReaderInvariant, PTL

(* It complains of a map the writer wrote in two cases only.               *)
THEOREM Complaints == Spec => []ComplaintsExplained
<1>1. WholeInv => ComplaintsExplained
  BY DEF WholeInv, ReaderInv
<1> QED
  BY <1>1, ReaderInvariant, PTL

(* A map that is read to its end leads to every object that was written.   *)
THEOREM ReadsEverything == Spec => []EverythingRead
<1>1. WholeInv => EverythingRead
  <2> SUFFICES ASSUME WholeInv, phase = "read", NEW o \in 1 .. NumObjects,
                      object[o].kind = "live", InMap(Entry(o))
               PROVE  \E k \in 1 .. Len(added) : added[k] = o - 1
    BY DEF EverythingRead
  <2>1. MapLaid /\ AddedUpTo(NumObjects) /\ ReadInMapOrder /\ added \in AddedSeqs
    BY DEF WholeInv, WriterInv, MapLaid, ReaderInv, InStep, ReaderTypes
  <2>2. NumObjects \in Nat /\ Len(added) \in Nat
    BY <2>1, Addresses DEF AddedSeqs
  <2>3. PICK k \in 1 .. NumObjects : SameObject(omap[k], Entry(o))
    BY <2>1 DEF MapLaid, SortInv, Sorted, Prefix
  <2>4. Entry(o).index = o - 1
    BY DEF Entry
  <2>5. InMap(omap[k]) /\ omap[k].index = o - 1 /\ Live(k)
    <3>1. omap[k].index = o - 1 /\ InMap(omap[k])
      BY <2>3, <2>4 DEF SameObject, InMap
    <3>2. ObjectOf(omap[k]) = object[o]
      BY <2>2, <3>1 DEF ObjectOf
    <3> QED
      BY <3>1, <3>2 DEF Live
  <2>6. LiveFrom(Pairs(k)) = {l \in k .. NumObjects : Live(l)}
    BY <2>2, <2>5, LiveFromEntry
  <2>7. k \in LiveFrom(Pairs(k)) /\ Min(LiveFrom(Pairs(k))) = k
    <3>1. k \in LiveFrom(Pairs(k)) /\ LiveFrom(Pairs(k)) \subseteq Nat
          /\ \A y \in LiveFrom(Pairs(k)) : k <= y
      BY <2>2, <2>5, <2>6
    <3> QED
      BY <3>1, MinIs
  <2>8. Pairs(k) \in 1 .. Len(added)
    <3>1. k - 1 \in Nat /\ k - 1 + 1 = k /\ k \in 0 .. NumObjects /\ k \in Nat
      BY <2>2
    <3>2. Pairs(k) = Pairs(k - 1) + 1 /\ Pairs(k - 1) \in Nat
      BY <2>5, <3>1, PairsGrow
    <3>3. Pairs(k) <= Pairs(NumObjects) /\ Pairs(NumObjects) \in Nat
      BY <2>2, <3>1, PairsGrow
    <3>4. CASE Len(added) = Pairs(NumObjects)
      BY <2>2, <3>2, <3>3, <3>4
    <3>5. CASE LiveFrom(Len(added) + 1) = {}
      <4>1. ~ (Pairs(k) >= Len(added) + 1)
        BY <2>5, <3>5 DEF LiveFrom
      <4> QED
        BY <2>2, <3>2, <4>1
    <3> QED
      BY <2>1, <3>4, <3>5 DEF AddedUpTo
  <2>9. added[Pairs(k)] = o - 1
    BY <2>1, <2>5, <2>7, <2>8 DEF ReadInMapOrder
  <2> QED
    BY <2>8, <2>9
<1> QED
  BY <1>1, ReaderInvariant, PTL
=============================================================================

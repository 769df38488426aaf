-------------------------- MODULE OwnedEntitiesProofs --------------------------
(***************************************************************************)
(* Theorems on OwnedEntities, for any blocks, any handles in a DXF file    *)
(* and any number of objects, conversions and reloads: a file of R2000 has *)
(* the chains of the entities that were added, and an iteration through    *)
(* resolved references lists them, but for the drawings whose chain is     *)
(* written in a wrong order: an unsorted DXF import that the API extended, *)
(* and what was read from its file (ExtendedUnsorted and misordered).      *)
(*                                                                         *)
(* The invariant IInv says what a block header and the links of the        *)
(* entities are at any time.  In a drawing with chains (ChainInv) the ends *)
(* of a block are the first and the last entity it owns, the links lead    *)
(* from each to the next in the object array (Chained), and an entity      *)
(* whose links are left out of the file is followed by its successor in    *)
(* the order of the handles as well (Saved), unless the API has added an   *)
(* entity to an unsorted DXF drawing.  In one with vectors (VectorInv) the *)
(* vectors are what the blocks own, and the links that entities happen to  *)
(* have are such that dwg_fixup_BLOCKS_entities makes the chains of them.  *)
(* Once a chain was written in a wrong order only the types are left       *)
(* (Misordered): the drawing has come from a file of R2000, and nothing    *)
(* mends its chains.                                                       *)
(***************************************************************************)
EXTENDS OwnedEntities, FiniteSetTheorems, WellFoundedInduction, TLAPS

-----------------------------------------------------------------------------
(* Least and greatest elements, the index of a handle, and the order of    *)
(* the handles. *)

(* Minima and maxima of the sets of numbers that occur. *)
LEMMA LeastExists ==
  ASSUME NEW S, S \subseteq Nat, S # {}
  PROVE  Min(S) \in S /\ \A y \in S : Min(S) <= y
<1>1. IsWellFoundedOn(OpToRel(<, Nat), Nat)
  BY NatLessThanWellFounded
<1>2. PICK m \in S : \A y \in S : ~ (<<y, m>> \in OpToRel(<, Nat))
  BY <1>1, WFMin
<1>3. \A y \in S : m <= y
  <2> SUFFICES ASSUME NEW y \in S, y < m PROVE FALSE
    OBVIOUS
  <2>1. <<y, m>> \in OpToRel(<, Nat)
    BY DEF OpToRel
  <2> QED
    BY <1>2, <2>1
<1> QED
  BY <1>3 DEF Min

(* Max is the greatest element of a bounded set. *)
LEMMA GreatestExists ==
  ASSUME NEW n \in Nat, NEW S, S \subseteq 0 .. n, S # {}
  PROVE  Max(S) \in S /\ \A y \in S : y <= Max(S)
<1> DEFINE T == {n - y : y \in S}
<1>1. T \subseteq Nat /\ T # {}
  <2>1. \A y \in S : n - y \in Nat
    OBVIOUS
  <2>2. PICK y \in S : TRUE
    OBVIOUS
  <2>3. n - y \in T
    BY <2>2
  <2> QED
    BY <2>1, <2>3
<1>2. Min(T) \in T /\ \A y \in T : Min(T) <= y
  BY <1>1, LeastExists
<1>3. PICK m \in S : Min(T) = n - m
  BY <1>2
<1>4. \A y \in S : y <= m
  <2> SUFFICES ASSUME NEW y \in S PROVE y <= m
    OBVIOUS
  <2>1. n - y \in T
    OBVIOUS
  <2>2. n - m <= n - y
    BY <1>2, <1>3, <2>1
  <2>3. y \in 0 .. n /\ m \in 0 .. n
    OBVIOUS
  <2> QED
    BY ONLY n \in Nat, <2>2, <2>3
<1> QED
  BY <1>4 DEF Max

(* dwg_resolve_handle gives the place of an object with the handle, or 0. *)
LEMMA IndexFacts ==
  ASSUME NEW objs, Len(objs) \in Nat, NEW h
  PROVE  /\ IndexIn(objs, h) \in 0 .. Len(objs)
         /\ IndexIn(objs, h) # 0 => objs[IndexIn(objs, h)].handle = h
         /\ \A o \in 1 .. Len(objs) : objs[o].handle = h => IndexIn(objs, h) # 0
<1> DEFINE I == {i \in 1 .. Len(objs) : objs[i].handle = h}
<1>1. IndexIn(objs, h) = IF I # {} THEN Min(I) ELSE 0
  BY DEF IndexIn, SelectInSeq
<1>2. I # {} => Min(I) \in I
  <2>1. I \subseteq Nat
    OBVIOUS
  <2> QED
    BY <2>1, LeastExists
<1>3. I = {} => IndexIn(objs, h) = 0
  BY <1>1
<1>4. I # {} => IndexIn(objs, h) \in I
  BY <1>1, <1>2
<1>5. CASE I = {}
  <2>1. \A o \in 1 .. Len(objs) : objs[o].handle # h
    BY <1>5
  <2> HIDE DEF I
  <2> QED
    BY <1>3, <1>5, <2>1
<1>6. CASE I # {}
  <2>1. PICK i \in I : i = IndexIn(objs, h)
    BY <1>4, <1>6
  <2>2. i \in 1 .. Len(objs) /\ objs[i].handle = h /\ i # 0
    BY <2>1
  <2> HIDE DEF I
  <2> QED
    BY <2>1, <2>2
<1> QED
  BY <1>5, <1>6

-----------------------------------------------------------------------------
(* The objects in the order of their handles. *)
Numbered(objs) ==
  /\ Len(objs) \in Nat /\ DOMAIN objs = 1 .. Len(objs)
  /\ \A o \in 1 .. Len(objs) : objs[o].handle \in Nat
  /\ \A o, p \in 1 .. Len(objs) : objs[o].handle = objs[p].handle => o = p

Rank(objs, o) == Cardinality(Below(objs, o))

(* The objects with a smaller handle are fewer than all. *)
LEMMA BeforeFacts ==
  ASSUME NEW objs, Numbered(objs), NEW o \in 1 .. Len(objs)
  PROVE  /\ IsFiniteSet(Below(objs, o)) /\ Below(objs, o) \subseteq 1 .. Len(objs)
         /\ Rank(objs, o) \in 0 .. Len(objs) - 1
<1> DEFINE B == Below(objs, o)
<1>1. B \subseteq 1 .. Len(objs) /\ ~ (o \in B)
  BY DEF Below, Numbered
<1>2. Len(objs) \in Nat
  BY DEF Numbered
<1>3. IsFiniteSet(1 .. Len(objs)) /\ Cardinality(1 .. Len(objs)) = Len(objs)
  <2>1. PICK n \in Nat : n = Len(objs)
    BY <1>2
  <2>2. /\ IsFiniteSet(1 .. n)
        /\ Cardinality(1 .. n) = IF 1 > n THEN 0 ELSE n - 1 + 1
    BY FS_Interval
  <2>3. (IF 1 > n THEN 0 ELSE n - 1 + 1) = n
    OBVIOUS
  <2> QED
    BY <2>1, <2>2, <2>3
<1>4. /\ IsFiniteSet(B) /\ Cardinality(B) <= Cardinality(1 .. Len(objs))
      /\ Cardinality(1 .. Len(objs)) = Cardinality(B) => 1 .. Len(objs) = B
  BY <1>1, <1>3, FS_Subset
<1>5. Cardinality(B) \in Nat
  BY <1>4, FS_CardinalityType
<1> HIDE DEF B
<1>6. Cardinality(B) \in 0 .. Len(objs) - 1
  BY <1>1, <1>2, <1>3, <1>4, <1>5
<1> QED
  BY <1>1, <1>4, <1>6 DEF B, Rank

(* A greater handle has more objects below it. *)
LEMMA RankGrows ==
  ASSUME NEW objs, Numbered(objs), NEW o \in 1 .. Len(objs),
         NEW p \in 1 .. Len(objs), objs[o].handle < objs[p].handle
  PROVE  Rank(objs, o) < Rank(objs, p)
<1>1. /\ IsFiniteSet(Below(objs, o)) /\ IsFiniteSet(Below(objs, p))
      /\ Rank(objs, o) \in Nat /\ Rank(objs, p) \in Nat
  BY BeforeFacts
<1>2. Below(objs, o) \subseteq Below(objs, p)
  BY DEF Below, Numbered
<1>3. o \in Below(objs, p) /\ ~ (o \in Below(objs, o))
  BY DEF Below, Numbered
<1>4. /\ Cardinality(Below(objs, o)) <= Cardinality(Below(objs, p))
      /\ Cardinality(Below(objs, p)) = Cardinality(Below(objs, o))
           => Below(objs, p) = Below(objs, o)
  BY <1>1, <1>2, FS_Subset
<1> QED
  BY <1>1, <1>3, <1>4 DEF Rank

(* The place of each object among the sorted ones: a permutation. *)
Places(objs, at) ==
  /\ at \in [1 .. Len(objs) -> 1 .. Len(objs)]
  /\ \A o \in 1 .. Len(objs) : \E k \in 1 .. Len(objs) : at[k] = o
  /\ \A k, l \in 1 .. Len(objs) : k < l => objs[at[k]].handle < objs[at[l]].handle
  /\ \A k \in 1 .. Len(objs) : ByHandle(objs)[k] = objs[at[k]]

(* ByHandle gives every object once, by rising handles. *)
LEMMA SortedByHandle ==
  ASSUME NEW objs, Numbered(objs)
  PROVE  /\ ByHandle(objs) = [k \in 1 .. Len(objs) |-> ByHandle(objs)[k]]
         /\ \E at : Places(objs, at)
<1> DEFINE n == Len(objs)
           r == [o \in 1 .. n |-> Rank(objs, o) + 1]
           at == [k \in 1 .. n |-> CHOOSE o \in 1 .. n : Rank(objs, o) = k - 1]
<1>1. n \in Nat /\ DOMAIN objs = 1 .. n
  BY DEF Numbered
<1>2. \A o \in 1 .. n : Rank(objs, o) \in 0 .. n - 1
  BY BeforeFacts
<1>3. ASSUME NEW o \in 1 .. n, NEW p \in 1 .. n, Rank(objs, o) = Rank(objs, p)
      PROVE  o = p
  <2>1. objs[o].handle \in Nat /\ objs[p].handle \in Nat
    BY DEF Numbered
  <2>2. ~ (objs[o].handle < objs[p].handle)
    BY <1>2, <1>3, RankGrows
  <2>3. ~ (objs[p].handle < objs[o].handle)
    BY <1>2, <1>3, RankGrows
  <2> QED
    BY <2>1, <2>2, <2>3 DEF Numbered
<1>4. r \in Injection(1 .. n, 1 .. n)
  <2>1. \A o \in 1 .. n : Rank(objs, o) + 1 \in 1 .. n
    BY <1>1, <1>2
  <2>2. r \in [1 .. n -> 1 .. n]
    BY <2>1
  <2>3. \A o, p \in 1 .. n : r[o] = r[p] => o = p
    BY <1>2, <1>3
  <2> HIDE DEF r, n
  <2> QED
    BY <2>2, <2>3 DEF Injection, IsInjective
<1>5. r \in Surjection(1 .. n, 1 .. n)
  <2>1. IsFiniteSet(1 .. n)
    BY <1>1, FS_Interval
  <2> HIDE DEF r, n
  <2> QED
    BY <1>4, <2>1, FS_Injection
<1>6. \A k \in 1 .. n : \E o \in 1 .. n : Rank(objs, o) = k - 1
  <2>1. \A k \in 1 .. n : \E o \in 1 .. n : r[o] = k
    BY <1>5 DEF Surjection
  <2> SUFFICES ASSUME NEW k \in 1 .. n PROVE \E o \in 1 .. n : Rank(objs, o) = k - 1
    OBVIOUS
  <2>2. PICK o \in 1 .. n : r[o] = k
    BY <2>1
  <2>3. Rank(objs, o) + 1 = k /\ Rank(objs, o) \in Nat
    BY <1>1, <1>2, <2>2
  <2> HIDE DEF r, n
  <2>4. Rank(objs, o) = k - 1
    BY <2>3
  <2> QED
    BY <2>4
<1>7. at \in [1 .. n -> 1 .. n] /\ \A k \in 1 .. n : Rank(objs, at[k]) = k - 1
  BY <1>6
<1>8. \A o \in 1 .. n : \E k \in 1 .. n : at[k] = o
  <2> SUFFICES ASSUME NEW o \in 1 .. n PROVE \E k \in 1 .. n : at[k] = o
    OBVIOUS
  <2>1. PICK k \in 1 .. n : k = Rank(objs, o) + 1
    BY <1>1, <1>2
  <2>2. Rank(objs, at[k]) = Rank(objs, o) /\ at[k] \in 1 .. n
    BY <1>2, <1>7, <2>1
  <2> HIDE DEF at
  <2> QED
    BY <1>3, <2>2
<1>9. \A k, l \in 1 .. n : k < l => objs[at[k]].handle < objs[at[l]].handle
  <2> SUFFICES ASSUME NEW k \in 1 .. n, NEW l \in 1 .. n, k < l
               PROVE  objs[at[k]].handle < objs[at[l]].handle
    OBVIOUS
  <2>1. PICK a \in 1 .. n, b \in 1 .. n : a = at[k] /\ b = at[l]
    BY <1>7
  <2>2. Rank(objs, a) = k - 1 /\ Rank(objs, b) = l - 1
    BY <1>7, <2>1
  <2>3. objs[a].handle \in Nat /\ objs[b].handle \in Nat
    BY DEF Numbered
  <2>4. a # b
    BY <2>2
  <2>5. ~ (objs[b].handle < objs[a].handle)
    <3> SUFFICES ASSUME objs[b].handle < objs[a].handle PROVE FALSE
      OBVIOUS
    <3>1. Rank(objs, b) < Rank(objs, a)
      BY RankGrows
    <3> QED
      BY <2>2, <3>1
  <2>6. objs[a].handle # objs[b].handle
    BY <2>4 DEF Numbered
  <2> HIDE DEF at
  <2> QED
    BY <2>1, <2>3, <2>5, <2>6
<1>10. ByHandle(objs) = [k \in 1 .. n |-> objs[at[k]]]
  BY <1>1 DEF ByHandle, Rank
<1> HIDE DEF at, r
<1>11. \A k \in 1 .. n : ByHandle(objs)[k] = objs[at[k]]
  BY <1>10
<1> QED
  BY <1>7, <1>8, <1>9, <1>10, <1>11 DEF Places

-----------------------------------------------------------------------------
(* The invariant. *)

HandlesOf(objs) == {objs[o].handle : o \in DOMAIN objs}
Nulls == {NoRef, NullRef}
ObjectSet(H) ==
  [kind : Kinds, block : Blocks, ownerhandle : BOOLEAN, handle : H,
   entmode : 0 .. 3, prev : H \cup Nulls, next : H \cup Nulls,
   nolinks : BOOLEAN]
RefSet(H) == [to : H \cup Nulls, made : {"shared", "first", "last"}]
HeaderSet(H) ==
  [first : RefSet(H), last : RefSet(H), entities : Seq(H), iterator : Nat]

ReaderSet(n, H) ==
  [block : Blocks, at : 0 .. n, seen : Seq(H),
   fn : {"none", "entity", "block_entity"}, settled : BOOLEAN]

IsDrawing(objs) ==
  /\ objs \in Seq(ObjectSet(HandlesOf(objs))) /\ objs # <<>>
  /\ Len(objs) <= MaxObjects
  /\ \A o, p \in DOMAIN objs : objs[o].handle = objs[p].handle => o = p
  /\ HandlesOf(objs) \subseteq 1 .. 2 * MaxObjects + Len(objs)

Types ==
  /\ IsDrawing(object)
  /\ header \in [Blocks -> HeaderSet(HandlesOf(object))]
  /\ resolved \subseteq RefSet(HandlesOf(object))
  /\ version \in Versions /\ from_version \in Versions
  /\ opts \in {"api", "dxf", "import", "file"}
  /\ prev_entity_index \in 0 .. Len(object)
  /\ owned \in [Blocks -> Seq(HandlesOf(object))]
  /\ reader \in ReaderSet(Len(object), HandlesOf(object))
  /\ opts = "import" => reader.fn = "none" /\ prev_entity_index = 0

(* What was added to a block is there once. *)
OwnedOnce(objs, b) ==
  /\ \A j, k \in DOMAIN owned[b] : owned[b][j] = owned[b][k] => j = k
  /\ \A j \in DOMAIN owned[b] :
       \E o \in DOMAIN objs : /\ objs[o].handle = owned[b][j]
                              /\ objs[o].kind = "ENTITY" /\ objs[o].block = b

Latest ==
  prev_entity_index # 0 /\ object[prev_entity_index].kind = "ENTITY" =>
    \E b \in Blocks :
      /\ owned[b] # <<>>
      /\ object[prev_entity_index].handle = owned[b][Len(owned[b])]

Vectors ==
  /\ \A b \in Blocks : owned[b] = <<>> => header[b].entities = <<>>
  /\ version = "R2004" \/ from_version = "R2004" \/ opts # "file" =>
       \A b \in Blocks : header[b].entities = owned[b]

(* No object has a handle between the two. *)
NextHandles(objs, h, k) ==
  h < k /\ \A q \in HandlesOf(objs) : ~ (h < q /\ q < k)

Unsorted(objs) ==
  \E i, j \in DOMAIN objs : i < j /\ objs[i].handle > objs[j].handle
Extended == opts = "dxf" /\ prev_entity_index # 0

(* From o the chain goes on to p. *)
Linked(objs, i, k) ==
  /\ Exists(objs[i].next) => objs[i].next = objs[k].handle
  /\ ~ Exists(objs[i].next) => k = i + 1
  /\ ~ objs[i].nolinks => Exists(objs[i].next)

NeighbourSaved(objs, i, k) ==
  objs[i].nolinks => NextHandles(objs, objs[i].handle, objs[k].handle)

LastUnlinked(objs, i) ==
  Exists(objs[i].next) =>
    /\ i # Len(objs)
    /\ \E q \in HandlesOf(objs) : q > objs[i].handle

Chained(objs, list) ==
  /\ \A j \in 1 .. Len(list) - 1, i, k \in DOMAIN objs :
       objs[i].handle = list[j] /\ objs[k].handle = list[j + 1] =>
         Linked(objs, i, k)
  /\ list # <<>> =>
       \A i \in DOMAIN objs : objs[i].handle = list[Len(list)] => LastUnlinked(objs, i)

Saved(objs, list) ==
  \A j \in 1 .. Len(list) - 1, i, k \in DOMAIN objs :
    objs[i].handle = list[j] /\ objs[k].handle = list[j + 1] =>
      NeighbourSaved(objs, i, k)

Ends(h, list) ==
  IF list = <<>>
    THEN ~ Exists(h.first.to) /\ ~ Exists(h.last.to)
    ELSE h.first.to = list[1] /\ h.last.to = list[Len(list)]

ChainInv ==
  \A b \in Blocks :
    /\ Ends(header[b], owned[b]) /\ Chained(object, owned[b])
    /\ ~ (Extended /\ Unsorted(object)) => Saved(object, owned[b])

(* Ready for dwg_fixup_BLOCKS_entities. *)
FirstReady(objs, h, list) ==
  \A i \in DOMAIN objs :
    objs[i].handle = list[1] =>
      \/ objs[i].prev = NoRef
      \/ /\ objs[i].prev = NullRef /\ Exists(h.last.to)
         /\ Len(list) > 1 => ~ objs[i].nolinks

LooseEnds(h, list) ==
  IF list = <<>>
    THEN ~ Exists(h.first.to) /\ ~ Exists(h.last.to)
    ELSE Exists(h.last.to) => h.last.to = list[Len(list)]

VectorInv ==
  \A b \in Blocks :
    /\ LooseEnds(header[b], owned[b])
    /\ owned[b] # <<>> => FirstReady(object, header[b], owned[b])

(* While a DXF file is read no entity has links, and the blocks but the    *)
(* model space of a vector have no chain.                                  *)
Imported ==
  opts = "import" =>
    /\ \A o \in DOMAIN object : object[o].prev = NoRef
    /\ version = "R2004" =>
         \A b \in Blocks \ {ModelSpace} : ~ Exists(header[b].last.to)

(* Else the objects are in the order of their handles. *)
Sorted == opts \in {"api", "file"} => ~ Unsorted(object)

ReaderInv ==
  reader.fn # "none" =>
    LET b == reader.block
        k == Len(reader.seen)
    IN  /\ version = "R2004" => reader.settled
        /\ reader.settled =>
             /\ k <= Len(owned[b])
             /\ \A j \in 1 .. k : reader.seen[j] = owned[b][j]
             /\ reader.at = 0 => k = Len(owned[b])
             /\ reader.at # 0 => /\ k # 0 /\ object[reader.at].handle = owned[b][k]
                                 /\ version = "R2004" => header[b].iterator + 1 = k
             /\ version = "R2000" => HeaderRefs(header) \subseteq resolved

IInv ==
  /\ Types
  /\ \A b \in Blocks : OwnedOnce(object, b)
  /\ Latest
  /\ Vectors
  /\ version = "R2000" /\ opts # "import" => ChainInv
  /\ version = "R2004" \/ opts = "import" => VectorInv
  /\ Imported
  /\ Sorted
  /\ ReaderInv

(* A drawing that was read from a file with a chain in a wrong order. *)
Misordered ==
  /\ Types
  /\ version = "R2000" /\ from_version = "R2000" /\ opts = "file"

Whole ==
  /\ misordered \in BOOLEAN
  /\ IF misordered THEN Misordered ELSE IInv

-----------------------------------------------------------------------------
(* What the objects of a drawing are, as facts the provers use. *)
LEMMA DrawingFacts ==
  ASSUME NEW objs, IsDrawing(objs)
  PROVE  /\ Numbered(objs) /\ Len(objs) \in Nat \ {0}
         /\ DOMAIN objs = 1 .. Len(objs)
         /\ \A o \in 1 .. Len(objs) :
              /\ objs[o] \in ObjectSet(HandlesOf(objs))
              /\ objs[o].handle \in HandlesOf(objs) /\ objs[o].handle \in Nat \ {0}
         /\ HandlesOf(objs) \subseteq Nat \ {0}
<1>1. PICK H : H = HandlesOf(objs)
  OBVIOUS
<1>2. objs \in Seq(ObjectSet(H)) /\ objs # <<>> /\ H \subseteq 1 .. 2 * MaxObjects + Len(objs)
  BY <1>1 DEF IsDrawing
<1>3. Len(objs) \in Nat \ {0} /\ DOMAIN objs = 1 .. Len(objs)
  BY <1>2
<1>4. \A o \in 1 .. Len(objs) : objs[o] \in ObjectSet(H) /\ objs[o].handle \in H
  <2>1. \A o \in 1 .. Len(objs) : objs[o] \in ObjectSet(H)
    BY <1>2
  <2> QED
    BY <2>1 DEF ObjectSet
<1>5. H \subseteq Nat \ {0}
  <2>1. 2 * MaxObjects + Len(objs) \in Int
    BY <1>3, BoundsType
  <2> QED
    BY <1>2, <2>1
<1>6. Numbered(objs)
  <2>1. \A o \in 1 .. Len(objs) : objs[o].handle \in Nat
    BY <1>4, <1>5
  <2>2. \A o, p \in 1 .. Len(objs) : objs[o].handle = objs[p].handle => o = p
    BY <1>3 DEF IsDrawing
  <2> QED
    BY <1>3, <2>1, <2>2 DEF Numbered
<1> QED
  BY <1>1, <1>3, <1>4, <1>5, <1>6

(* dwg_resolve_handle finds the object of a handle. *)
LEMMA AtHandle ==
  ASSUME NEW objs, Numbered(objs), NEW o \in 1 .. Len(objs)
  PROVE  IndexIn(objs, objs[o].handle) = o
<1>1. PICK h, i : h = objs[o].handle /\ i = IndexIn(objs, h)
  OBVIOUS
<1>2. i \in 0 .. Len(objs) /\ (i # 0 => objs[i].handle = h) /\ i # 0
  BY <1>1, IndexFacts DEF Numbered
<1>3. i \in 1 .. Len(objs)
  BY <1>2 DEF Numbered
<1> QED
  BY <1>1, <1>2, <1>3 DEF Numbered

(* ... and a handle that is in use leads to its object. *)
LEMMA OfHandle ==
  ASSUME NEW objs, Numbered(objs), NEW h \in HandlesOf(objs)
  PROVE  /\ IndexIn(objs, h) \in 1 .. Len(objs)
         /\ objs[IndexIn(objs, h)].handle = h
<1>1. PICK o \in 1 .. Len(objs) : objs[o].handle = h
  BY DEF HandlesOf, Numbered
<1> QED
  BY <1>1, AtHandle

(* ... and one that is not in use to none. *)
LEMMA NoHandle ==
  ASSUME NEW objs, Numbered(objs), NEW h, h \notin HandlesOf(objs)
  PROVE  IndexIn(objs, h) = 0
<1>1. PICK i : i = IndexIn(objs, h)
  OBVIOUS
<1>2. i \in 0 .. Len(objs) /\ (i # 0 => objs[i].handle = h)
  BY <1>1, IndexFacts DEF Numbered
<1>3. i # 0 => i \in 1 .. Len(objs)
  BY <1>2 DEF Numbered
<1> QED
  BY <1>1, <1>2, <1>3 DEF HandlesOf, Numbered

(* The handle of a new object is above all others. *)
LEMMA NewHandle ==
  ASSUME IsDrawing(object)
  PROVE  /\ NextHandle \in Nat \ {0}
         /\ \A h \in HandlesOf(object) : h < NextHandle
         /\ NextHandle <= 2 * MaxObjects + Len(object) + 1
<1>1. PICK n \in Nat : n = 2 * MaxObjects + Len(object)
  BY DrawingFacts, BoundsType
<1>2. PICK H : H = HandlesOf(object)
  OBVIOUS
<1>3. H \subseteq 1 .. n /\ H # {}
  <2>1. 1 \in 1 .. Len(object) /\ DOMAIN object = 1 .. Len(object)
    BY DrawingFacts
  <2> QED
    BY <1>1, <1>2, <2>1 DEF IsDrawing, HandlesOf
<1>4. Max(H) \in H /\ \A y \in H : y <= Max(H)
  <2>1. H \subseteq 0 .. n
    BY <1>3
  <2> QED
    BY ONLY <1>3, <2>1, n \in Nat, GreatestExists
<1>5. PICK m : m = Max(H)
  OBVIOUS
<1>6. NextHandle = 1 + m
  BY <1>2, <1>5 DEF NextHandle, HandlesOf, Objects
<1>8. m \in 1 .. n
  BY <1>3, <1>4, <1>5
<1>7. \A y \in H : y \in Nat /\ y <= m
  BY <1>3, <1>4, <1>5
<1>9. \A y \in H : y < 1 + m
  BY <1>7, <1>8
<1> QED
  BY <1>1, <1>2, <1>6, <1>8, <1>9

(* The links of the objects. *)

(* The fields of an object. *)
LEMMA ObjectFields ==
  ASSUME NEW H, NEW x \in ObjectSet(H)
  PROVE  /\ x.kind \in Kinds /\ x.block \in Blocks /\ x.ownerhandle \in BOOLEAN
         /\ x.handle \in H /\ x.entmode \in 0 .. 3
         /\ x.prev \in H \cup Nulls /\ x.next \in H \cup Nulls
         /\ x.nolinks \in BOOLEAN
BY DEF ObjectSet

(* y is x with other links. *)
SameObject(x, y) == y.handle = x.handle /\ y.kind = x.kind /\ y.block = x.block

WithLinks(x, p, q, l) == [x EXCEPT !.prev = p, !.next = q, !.nolinks = l]

(* Other links make no other object. *)
LEMMA LinkedOnly ==
  ASSUME NEW H, NEW x \in ObjectSet(H), NEW p \in H \cup Nulls,
         NEW q \in H \cup Nulls, NEW l \in BOOLEAN,
         NEW y, y = WithLinks(x, p, q, l)
  PROVE  /\ y \in ObjectSet(H) /\ SameObject(x, y)
         /\ y.prev = p /\ y.next = q /\ y.nolinks = l
BY DEF ObjectSet, SameObject, WithLinks

(* So does nolinks. *)
LEMMA NolinksOnly ==
  ASSUME NEW H, NEW x \in ObjectSet(H), NEW y, y = [x EXCEPT !.nolinks = TRUE]
  PROVE  /\ y \in ObjectSet(H) /\ SameObject(x, y)
         /\ y.prev = x.prev /\ y.next = x.next /\ y.nolinks
BY DEF ObjectSet, SameObject

(* So does a new successor. *)
LEMMA BeforeOnly ==
  ASSUME NEW H, NEW x \in ObjectSet(H), NEW h \in H, NEW y, y = Before(x, h)
  PROVE  /\ y \in ObjectSet(H) /\ SameObject(x, y)
         /\ y.prev = x.prev /\ y.next = h /\ ~ y.nolinks
BY DEF ObjectSet, SameObject, Before

(* An object is itself. *)
LEMMA Itself ==
  ASSUME NEW x
  PROVE  SameObject(x, x)
BY DEF SameObject

(* What in_postprocess_handles does to the objects up to i, the new one.   *)
PostFacts(objs, P, H, i, before, ver) ==
  /\ P \in [1 .. i -> ObjectSet(H)]
  /\ \A o \in 1 .. i : SameObject(objs[o], P[o])
  /\ \A o \in 1 .. i - 1 :
       \/ P[o] = objs[o]
       \/ /\ o = before /\ o + 1 # i /\ ver = "R2000"
          /\ objs[o].kind \in {"ENTITY", "BLOCK"}
          /\ P[o] = Before(objs[o], objs[i].handle)
  /\ objs[i].kind = "ENTITY" /\ ver = "R2000" => ~ Exists(P[i].next)
  /\ ver = "R2004" => P[i].next = objs[i].next /\ P[i].prev = objs[i].prev

(* in_postprocess_handles mends at most the entity before, in R2000. *)
LEMMA PostprocessedFacts ==
  ASSUME NEW i \in Nat \ {0}, NEW H, NEW before \in 0 .. i - 1,
         NEW ver \in Versions,
         NEW objs \in [1 .. i -> ObjectSet(H)]
  PROVE  PostFacts(objs, Postprocessed(objs, i, before, ver), H, i, before, ver)
<1>3. \A o \in 1 .. i : objs[o] \in ObjectSet(H) /\ objs[o].handle \in H
  BY DEF ObjectSet
<1>4. i \in 1 .. i /\ ~ (i \in 1 .. i - 1)
  OBVIOUS
<1>5. PICK prev, P : /\ prev = PrevEntity(objs, i, before)
                     /\ P = Postprocessed(objs, i, before, ver)
  OBVIOUS
<1>6. /\ prev \in {0, before}
      /\ prev # 0 => before \in 1 .. i - 1 /\ objs[before].kind \in {"ENTITY", "BLOCK"}
  <2>1. prev # 0 => before \in 1 .. i - 1 /\ objs[before].kind \notin {"OBJECT", "ENDBLK"}
    BY <1>5 DEF PrevEntity, IsEntity
  <2>2. before \in 1 .. i - 1 => objs[before].kind \in Kinds
    BY ObjectFields
  <2>3. prev \in {0, before}
    BY <1>5 DEF PrevEntity
  <2> QED
    BY <2>1, <2>2, <2>3 DEF Kinds
<1>10. \A o \in 1 .. i : SameObject(objs[o], objs[o])
  BY Itself
<1>7. CASE objs[i].kind \in {"ENDBLK", "OBJECT"}
  <2>1. P = objs
    BY <1>5, <1>7 DEF Postprocessed
  <2>2. objs[i].kind # "ENTITY"
    BY <1>7
  <2> QED
    BY <1>10, <1>5, <2>1, <2>2 DEF PostFacts
<1>8. CASE objs[i].kind \notin {"ENDBLK", "OBJECT"} /\ ver = "R2004"
  <2>1. P = [objs EXCEPT ![i].nolinks = TRUE]
    BY <1>5, <1>8 DEF Postprocessed
  <2>3. P[i] = [objs[i] EXCEPT !.nolinks = TRUE] /\ DOMAIN P = 1 .. i
    BY <1>4, <2>1
  <2>4. \A o \in 1 .. i - 1 : P[o] = objs[o]
    BY <2>1
  <2>5. /\ P[i] \in ObjectSet(H) /\ SameObject(objs[i], P[i])
        /\ P[i].next = objs[i].next /\ P[i].prev = objs[i].prev
    <3>1. PICK x, y : x \in ObjectSet(H) /\ x = objs[i] /\ y = P[i]
      BY <1>3, <1>4
    <3>2. y = [x EXCEPT !.nolinks = TRUE]
      BY <2>3, <3>1
    <3> QED
      BY ONLY <3>1, <3>2, NolinksOnly
  <2>2. P \in [1 .. i -> ObjectSet(H)]
    <3>1. P = [o \in 1 .. i |-> P[o]]
      BY <2>1
    <3>2. \A o \in 1 .. i : P[o] \in ObjectSet(H)
      BY <1>3, <2>4, <2>5
    <3> QED
      BY <3>1, <3>2
  <2>7. \A o \in 1 .. i : SameObject(objs[o], P[o])
    BY <1>10, <2>4, <2>5
  <2>8. ver # "R2000"
    BY <1>8
  <2> QED
    BY <1>5, <2>2, <2>4, <2>5, <2>7, <2>8 DEF PostFacts
<1>9. CASE objs[i].kind \notin {"ENDBLK", "OBJECT"} /\ ver # "R2004"
  <2>1. P = [o \in 1 .. i |->
               IF o = i THEN OwnLinks(objs, i, prev)
               ELSE IF o = prev /\ Apart(prev, i) THEN Before(objs[o], objs[i].handle)
               ELSE objs[o]]
    BY <1>5, <1>9 DEF Postprocessed
  <2>2. PICK x \in ObjectSet(H), h \in H : x = objs[i] /\ h = objs[i].handle
    BY <1>3, <1>4
  <2>3. PICK y : y = OwnLinks(objs, i, prev)
    OBVIOUS
  <2>4. /\ y \in ObjectSet(H) /\ SameObject(x, y)
        /\ x.kind = "ENTITY" => ~ Exists(y.next)
    <3>1. PICK p \in H \cup Nulls, q \in Nulls, l \in BOOLEAN :
            /\ y = WithLinks(x, p, q, l)
            /\ x.kind = "ENTITY" => q = NoRef
      <4>1. Apart(prev, i) => objs[prev].handle \in H
        BY <1>3, <1>6 DEF Apart
      <4> DEFINE block == prev = 0 /\ objs[i].kind = "BLOCK"
                 p == IF Apart(prev, i) THEN objs[prev].handle
                      ELSE IF block THEN NullRef ELSE NoRef
                 q == IF block THEN NullRef ELSE NoRef
                 l == ~ (Apart(prev, i) \/ block)
      <4>2. y = WithLinks(x, p, q, l)
        BY <2>2, <2>3 DEF OwnLinks, WithLinks
      <4>3. p \in H \cup Nulls /\ q \in Nulls /\ l \in BOOLEAN
        BY <4>1 DEF Nulls
      <4>4. x.kind = "ENTITY" => q = NoRef
        BY <2>2
      <4> HIDE DEF p, q, l
      <4> QED
        BY <4>2, <4>3, <4>4
    <3>4. q \in H \cup Nulls /\ p \in H \cup Nulls
      OBVIOUS
    <3>2. /\ y \in ObjectSet(H) /\ SameObject(x, y) /\ y.next = q
      BY ONLY <3>1, <3>4, x \in ObjectSet(H), l \in BOOLEAN, LinkedOnly
    <3>3. ~ Exists(NoRef)
      BY DEF Exists
    <3> QED
      BY <3>1, <3>2, <3>3
  <2>5. P[i] = y /\ DOMAIN P = 1 .. i /\ P = [o \in 1 .. i |-> P[o]]
    BY <1>4, <2>1, <2>3
  <2>6. \A o \in 1 .. i - 1 :
          \/ P[o] = objs[o]
          \/ /\ o = before /\ o + 1 # i
             /\ objs[o].kind \in {"ENTITY", "BLOCK"}
             /\ P[o] = Before(objs[o], objs[i].handle)
    <3> SUFFICES ASSUME NEW o \in 1 .. i - 1, P[o] # objs[o]
                 PROVE  /\ o = before /\ o + 1 # i
                        /\ objs[o].kind \in {"ENTITY", "BLOCK"}
                        /\ P[o] = Before(objs[o], objs[i].handle)
      OBVIOUS
    <3>1. o # i /\ o \in 1 .. i
      OBVIOUS
    <3>2. o = prev /\ Apart(prev, i) /\ P[o] = Before(objs[o], objs[i].handle)
      BY <2>1, <3>1
    <3> QED
      BY <1>6, <3>1, <3>2 DEF Apart
  <2>7. \A o \in 1 .. i : P[o] \in ObjectSet(H) /\ SameObject(objs[o], P[o])
    <3> SUFFICES ASSUME NEW o \in 1 .. i
                 PROVE  P[o] \in ObjectSet(H) /\ SameObject(objs[o], P[o])
      OBVIOUS
    <3>1. CASE o = i
      BY <2>2, <2>4, <2>5, <3>1
    <3>2. CASE P[o] = objs[o]
      BY <1>3, <1>10, <3>2
    <3>3. CASE o # i /\ P[o] # objs[o]
      <4>1. o \in 1 .. i - 1
        BY <3>3
      <4>2. P[o] = Before(objs[o], h)
        BY <2>2, <2>6, <3>3, <4>1
      <4> QED
        BY <1>3, <4>2, BeforeOnly
    <3> QED
      BY <3>1, <3>2, <3>3
  <2>8. P \in [1 .. i -> ObjectSet(H)]
    BY <2>5, <2>7
  <2>9. ver = "R2000"
    BY <1>9 DEF Versions
  <2> QED
    BY <1>5, <2>2, <2>4, <2>5, <2>6, <2>7, <2>8, <2>9 DEF PostFacts
<1> QED
  BY <1>7, <1>8, <1>9

(* A function on 1 .. n is a sequence. *)
LEMMA AsSequence ==
  ASSUME NEW n \in Nat, NEW S, NEW f \in [1 .. n -> S]
  PROVE  f \in Seq(S) /\ Len(f) = n /\ DOMAIN f = 1 .. n
OBVIOUS

(* y is the object x, its links as they were, leading to h, or left out. *)
Kept(x, y) == y.prev = x.prev /\ y.next = x.next /\ y.nolinks = x.nolinks
LeadsTo(x, y, h) == y.prev = x.prev /\ y.next = h /\ ~ y.nolinks
LeftOut(x, y) == y.prev = x.prev /\ y.next = x.next /\ y.nolinks

LinkFacts(objs, Q, H, i, l) ==
  /\ Q \in [1 .. i -> ObjectSet(H)]
  /\ \A o \in 1 .. i : SameObject(objs[o], Q[o])
  /\ \A o \in 1 .. i - 1 : o # l => Q[o] = objs[o]
  /\ l # 0 => IF Follows(objs, l, i) THEN LeftOut(objs[l], Q[l])
              ELSE LeadsTo(objs[l], Q[l], objs[i].handle)

(* dwg_insert_entity touches the links of the last entity and of the new   *)
(* one.                                                                    *)
LEMMA LinkedLastFacts ==
  ASSUME NEW i \in Nat \ {0}, NEW H, NEW l \in 0 .. i - 1,
         NEW objs \in [1 .. i -> ObjectSet(H)]
  PROVE  LinkFacts(objs, LinkedLast(objs, i, l), H, i, l)
<1>1. \A o \in 1 .. i : objs[o] \in ObjectSet(H) /\ objs[o].handle \in H
  BY DEF ObjectSet
<1>2. i \in 1 .. i /\ i # l /\ \A o \in 1 .. i - 1 : o \in 1 .. i /\ o # i
  OBVIOUS
<1>3. PICK Q : Q = LinkedLast(objs, i, l)
  OBVIOUS
<1>4. PICK F \in BOOLEAN : F = Follows(objs, l, i)
  BY DEF Follows
<1>5. PICK x, h : x \in ObjectSet(H) /\ h \in H /\ x = objs[i] /\ h = objs[i].handle
  BY <1>1, <1>2
<1> DEFINE p == IF l = 0 THEN NullRef ELSE IF F THEN x.prev ELSE objs[l].handle
           own == [x EXCEPT !.next = NullRef, !.prev = p]
<1>6. Q = [o \in 1 .. i |->
             IF o = i THEN own
             ELSE IF o # l THEN objs[o]
             ELSE IF F THEN [objs[o] EXCEPT !.nolinks = TRUE]
             ELSE Before(objs[o], h)]
  BY <1>3, <1>4, <1>5 DEF LinkedLast
<1>7. p \in H \cup Nulls
  <2>1. l # 0 => objs[l].handle \in H
    BY <1>1
  <2>2. x.prev \in H \cup Nulls
    BY <1>5, ObjectFields
  <2> QED
    BY <2>1, <2>2 DEF Nulls
<1>8. own \in ObjectSet(H) /\ SameObject(x, own)
  <2>1. PICK r \in H \cup Nulls : r = p
    BY <1>7
  <2>2. NullRef \in H \cup Nulls
    BY DEF Nulls
  <2>3. PICK y : y = [x EXCEPT !.next = NullRef, !.prev = r]
    OBVIOUS
  <2>4. y = own
    BY <2>1, <2>3
  <2>5. y \in ObjectSet(H) /\ SameObject(x, y)
    BY <1>5, <2>2, <2>3, r \in H \cup Nulls DEF ObjectSet, SameObject
  <2> QED
    BY <2>4, <2>5
<1> HIDE DEF own
<1>9. Q[i] = own /\ Q = [o \in 1 .. i |-> Q[o]]
  BY <1>2, <1>6
<1>10. \A o \in 1 .. i - 1 : o # l => Q[o] = objs[o]
  BY <1>2, <1>6
<1>11. l # 0 => /\ Q[l] \in ObjectSet(H) /\ SameObject(objs[l], Q[l])
                /\ IF F THEN LeftOut(objs[l], Q[l]) ELSE LeadsTo(objs[l], Q[l], h)
  <2> SUFFICES ASSUME l # 0
               PROVE  /\ Q[l] \in ObjectSet(H) /\ SameObject(objs[l], Q[l])
                      /\ IF F THEN LeftOut(objs[l], Q[l]) ELSE LeadsTo(objs[l], Q[l], h)
    OBVIOUS
  <2>1. l \in 1 .. i
    OBVIOUS
  <2>2. PICK z, y : z = objs[l] /\ y = Q[l] /\ z \in ObjectSet(H)
    BY <1>1, <2>1
  <2>3. y = IF F THEN [z EXCEPT !.nolinks = TRUE] ELSE Before(z, h)
    BY <1>2, <1>6, <2>1, <2>2
  <2>4. CASE F
    <3>1. y = [z EXCEPT !.nolinks = TRUE]
      BY <2>3, <2>4
    <3>2. /\ y \in ObjectSet(H) /\ SameObject(z, y)
          /\ y.prev = z.prev /\ y.next = z.next /\ y.nolinks
      BY ONLY <2>2, <3>1, NolinksOnly
    <3> QED
      BY <2>2, <2>4, <3>2 DEF LeftOut
  <2>5. CASE ~ F
    <3>1. y = Before(z, h)
      BY <2>3, <2>5
    <3>2. /\ y \in ObjectSet(H) /\ SameObject(z, y)
          /\ y.prev = z.prev /\ y.next = h /\ ~ y.nolinks
      BY ONLY <2>2, <1>5, <3>1, BeforeOnly
    <3> QED
      BY <2>2, <2>5, <3>2 DEF LeadsTo
  <2> QED
    BY <2>4, <2>5
<1>12. \A o \in 1 .. i : Q[o] \in ObjectSet(H) /\ SameObject(objs[o], Q[o])
  <2> SUFFICES ASSUME NEW o \in 1 .. i
               PROVE  Q[o] \in ObjectSet(H) /\ SameObject(objs[o], Q[o])
    OBVIOUS
  <2>1. CASE o = i
    BY <1>5, <1>8, <1>9, <2>1
  <2>2. CASE o = l
    BY <1>11, <2>2
  <2>3. CASE o # i /\ o # l
    <3>1. o \in 1 .. i - 1
      BY <2>3
    <3> QED
      BY <1>1, <1>10, <2>3, <3>1, Itself
  <2> QED
    BY <2>1, <2>2, <2>3
<1>13. Q \in [1 .. i -> ObjectSet(H)]
  BY <1>9, <1>12
<1> QED
  BY <1>3, <1>4, <1>5, <1>10, <1>11, <1>12, <1>13 DEF LinkFacts

(* dwg_add_<entity>, step by step. *)
NewOne(b, kind) == Append(object, NewObject(kind, b, NextHandle))
Early(b, kind) ==
  [Postprocessed(NewOne(b, kind), Len(object) + 1, prev_entity_index, version)
     EXCEPT ![Len(object) + 1].entmode = EntMode(b)]
InsertedIn(b, kind) == Inserted(Early(b, kind), Len(object) + 1, header[b])
Placed(b, kind) ==
  Postprocessed(InsertedIn(b, kind).object, Len(object) + 1, prev_entity_index, version)
PlacedHeader(b, kind) == InsertedIn(b, kind).header

(* The entity the new one is put behind. *)
LastOf(b, kind) ==
  IF kind = "ENTITY" /\ ~ IsFirst(header[b]) /\ Exists(header[b].last.to)
    THEN Index(header[b].last.to) ELSE 0

(* The object in_postprocess_handles may mend. *)
Mended(o) ==
  /\ o = prev_entity_index /\ o # Len(object) /\ version = "R2000"
  /\ object[o].kind \in {"ENTITY", "BLOCK"}

PlacedFacts(P, b, kind, H, n, h) ==
  /\ P \in [1 .. n + 1 -> ObjectSet(H)]
  /\ \A o \in 1 .. n : SameObject(object[o], P[o])
  /\ P[n + 1].handle = h /\ P[n + 1].kind = kind /\ P[n + 1].block = b
  /\ \A o \in 1 .. n :
       o # LastOf(b, kind) =>
         \/ Kept(object[o], P[o])
         \/ Mended(o) /\ LeadsTo(object[o], P[o], h)
  /\ LastOf(b, kind) \in 0 .. n
  /\ LastOf(b, kind) # 0 =>
       LET l == LastOf(b, kind)
       IN  \/ LeadsTo(object[l], P[l], h)
           \/ /\ l = n /\ Exists(object[l].prev) /\ LeftOut(object[l], P[l])
  /\ kind = "ENTITY" /\ version = "R2000" => ~ Exists(P[n + 1].next)
  /\ kind = "ENTITY" /\ version = "R2004" /\ IsFirst(header[b]) =>
       P[n + 1].prev = NullRef

PlacedHeaderIs(K, b, kind, h) ==
  IF kind # "ENTITY" THEN K = header[b]
  ELSE /\ K.last = Shared(h) /\ K.entities = Append(header[b].entities, h)
       /\ K.first = IF \/ IsFirst(header[b])
                       \/ LastOf(b, kind) = 0 /\ ~ Exists(header[b].first.to)
                      THEN Shared(h) ELSE header[b].first
       /\ K.iterator = header[b].iterator
       /\ K = [first |-> K.first, last |-> K.last, entities |-> K.entities,
               iterator |-> K.iterator]

WithEnds(x, f, l, e) == [x EXCEPT !.first = f, !.last = l, !.entities = e]

(* Other ends make a block header of the same position. *)
LEMMA EndsOnly ==
  ASSUME NEW H, NEW x \in HeaderSet(H), NEW f, NEW l, NEW e, NEW y,
         y = WithEnds(x, f, l, e)
  PROVE  /\ y.first = f /\ y.last = l /\ y.entities = e
         /\ y.iterator = x.iterator
         /\ y = [first |-> y.first, last |-> y.last, entities |-> y.entities,
                 iterator |-> y.iterator]
BY DEF HeaderSet, WithEnds

(* The mode of an entity is no link. *)
LEMMA EntModeOnly ==
  ASSUME NEW H, NEW x \in ObjectSet(H), NEW m \in 0 .. 3, NEW y,
         y = [x EXCEPT !.entmode = m]
  PROVE  /\ y \in ObjectSet(H) /\ SameObject(x, y)
         /\ y.prev = x.prev /\ y.next = x.next /\ y.nolinks = x.nolinks
BY DEF ObjectSet, SameObject

(* The first entity of a block has the links to nothing. *)
LEMMA FirstOnly ==
  ASSUME NEW H, NEW x \in ObjectSet(H), NEW y,
         y = [x EXCEPT !.prev = NullRef, !.next = NullRef, !.nolinks = FALSE]
  PROVE  /\ y \in ObjectSet(H) /\ SameObject(x, y)
         /\ y.prev = NullRef /\ y.next = NullRef /\ ~ y.nolinks
BY DEF ObjectSet, SameObject, Nulls

(* A sequence is a function on 1 .. n. *)
LEMMA AsFunction ==
  ASSUME NEW S, NEW f \in Seq(S), NEW n, n = Len(f)
  PROVE  f \in [1 .. n -> S] /\ f = [o \in 1 .. n |-> f[o]]
OBVIOUS

(* Append leaves what is there. *)
LEMMA Appended ==
  ASSUME NEW S, NEW f \in Seq(S), NEW x \in S
  PROVE  /\ Append(f, x) \in [1 .. Len(f) + 1 -> S]
         /\ Append(f, x)[Len(f) + 1] = x
         /\ \A o \in 1 .. Len(f) : Append(f, x)[o] = f[o]
<1>1. PICK n, g : n = Len(f) /\ g = Append(f, x)
  OBVIOUS
<1>2. n \in Nat /\ g \in Seq(S) /\ Len(g) = n + 1
  BY <1>1
<1>3. g[n + 1] = x
  BY <1>1
<1>4. \A o \in 1 .. n : g[o] = f[o]
  BY <1>1
<1>5. g \in [1 .. n + 1 -> S]
  BY <1>2, AsFunction
<1> QED
  BY <1>1, <1>3, <1>4, <1>5

(* The new object before anything is done to it. *)
NewFacts(N, b, kind, H, n, h) ==
  /\ n \in Nat \ {0} /\ h \in Nat \ {0} /\ ~ (h \in HandlesOf(object))
  /\ N \in [1 .. n + 1 -> ObjectSet(H)]
  /\ \A o \in 1 .. n : N[o] = object[o] /\ object[o] \in ObjectSet(H)
  /\ N[n + 1].handle = h /\ N[n + 1].kind = kind /\ N[n + 1].block = b
  /\ N[n + 1].nolinks = FALSE /\ N[n + 1].next = NoRef

(* dwg_add_object gives a handle that is not in use. *)
LEMMA NewOneFacts ==
  ASSUME Types, NEW b \in Blocks, NEW kind \in {"ENTITY", "BLOCK", "ENDBLK", "OBJECT"},
         NEW n, NEW h, NEW H, NEW N,
         n = Len(object), h = NextHandle, H = HandlesOf(object) \cup {h},
         N = Append(object, NewObject(kind, b, h))
  PROVE  NewFacts(N, b, kind, H, n, h)
<1>1. IsDrawing(object)
  BY DEF Types
<1>2. /\ n \in Nat \ {0} /\ DOMAIN object = 1 .. n
      /\ \A o \in 1 .. n : object[o] \in ObjectSet(HandlesOf(object))
  BY <1>1, DrawingFacts
<1>3. h \in Nat \ {0} /\ \A q \in HandlesOf(object) : q < h
  BY <1>1, NewHandle
<1>4. ~ (h \in HandlesOf(object))
  BY <1>3
<1>5. \A o \in 1 .. n : object[o] \in ObjectSet(H)
  BY <1>2 DEF ObjectSet
<1>6. PICK x : x = NewObject(kind, b, h)
  OBVIOUS
<1>7. /\ x.handle = h /\ x.kind = kind /\ x.block = b
      /\ x.nolinks = FALSE /\ x.next = NoRef
  BY <1>6 DEF NewObject
<1>8. x \in ObjectSet(H)
  <2>1. h \in H /\ NoRef \in H \cup Nulls /\ 0 \in 0 .. 3
    BY DEF Nulls
  <2>2. kind \in Kinds
    BY DEF Kinds
  <2> QED
    BY <1>6, <2>1, <2>2 DEF NewObject, ObjectSet
<1>9. object \in Seq(ObjectSet(H))
  <2>1. object \in Seq(ObjectSet(HandlesOf(object)))
    BY <1>1 DEF IsDrawing
  <2>2. object \in [1 .. n -> ObjectSet(H)]
    <3>1. object = [o \in 1 .. n |-> object[o]]
      BY <2>1, AsFunction
    <3> QED
      BY <1>5, <3>1
  <2> QED
    BY <1>2, <2>2, AsSequence
<1>10. N = Append(object, x)
  BY <1>6
<1>11. /\ N \in [1 .. n + 1 -> ObjectSet(H)]
       /\ \A o \in 1 .. n : N[o] = object[o]
       /\ N[n + 1] = x
  BY <1>8, <1>9, <1>10, Appended
<1> QED
  BY <1>2, <1>3, <1>4, <1>5, <1>7, <1>11 DEF NewFacts

-----------------------------------------------------------------------------
(* Where the new object leaves the others, and what it is put behind. *)

(* A new object leaves the others where they are. *)
SameIndexes(E, n, h) ==
  /\ Numbered(E) /\ Len(E) = n + 1
  /\ \A q \in HandlesOf(object) : IndexIn(E, q) = Index(q)
  /\ IndexIn(E, h) = n + 1

(* dwg_resolve_handle finds the objects where they were, and the new one. *)
LEMMA SameIndex ==
  ASSUME IsDrawing(object), NEW n, n = Len(object),
         NEW h \in Nat \ {0}, ~ (h \in HandlesOf(object)),
         NEW E, DOMAIN E = 1 .. n + 1, Len(E) = n + 1,
         \A o \in 1 .. n : SameObject(object[o], E[o]), E[n + 1].handle = h
  PROVE  SameIndexes(E, n, h)
<1>1. /\ Numbered(object) /\ n \in Nat \ {0} /\ DOMAIN object = 1 .. n
      /\ \A o \in 1 .. n : /\ object[o].handle \in HandlesOf(object)
                           /\ object[o].handle \in Nat \ {0}
  BY DrawingFacts
<1>2. Len(E) = n + 1 /\ DOMAIN E = 1 .. n + 1
  OBVIOUS
<1>3. \A o \in 1 .. n : E[o].handle = object[o].handle
  BY DEF SameObject
<1>4. \A o \in 1 .. n + 1 : E[o].handle \in Nat
  <2> TAKE o \in 1 .. n + 1
  <2>1. o \in 1 .. n \/ o = n + 1
    BY <1>1
  <2> QED
    BY <1>1, <1>3, <2>1
<1>5. \A o, p \in 1 .. n + 1 : E[o].handle = E[p].handle => o = p
  <2> SUFFICES ASSUME NEW o \in 1 .. n + 1, NEW p \in 1 .. n + 1,
                      E[o].handle = E[p].handle
               PROVE  o = p
    OBVIOUS
  <2>1. (o \in 1 .. n \/ o = n + 1) /\ (p \in 1 .. n \/ p = n + 1)
    BY <1>1
  <2>2. \A q \in 1 .. n : E[q].handle # h
    BY <1>1, <1>3
  <2>3. CASE o = n + 1 \/ p = n + 1
    BY <2>1, <2>2, <2>3
  <2>4. CASE o \in 1 .. n /\ p \in 1 .. n
    <3>1. object[o].handle = object[p].handle
      BY <1>3, <2>4
    <3> QED
      BY <1>1, <2>4, <3>1 DEF Numbered
  <2> QED
    BY <2>1, <2>3, <2>4
<1>6. Numbered(E)
  BY <1>1, <1>2, <1>4, <1>5 DEF Numbered
<1>7. \A q \in HandlesOf(object) : IndexIn(E, q) = Index(q)
  <2> SUFFICES ASSUME NEW q \in HandlesOf(object) PROVE IndexIn(E, q) = Index(q)
    OBVIOUS
  <2>1. PICK o : o = Index(q)
    OBVIOUS
  <2>2. o \in 1 .. n /\ object[o].handle = q
    BY <1>1, <2>1, OfHandle DEF Index
  <2>3. o \in 1 .. Len(E) /\ E[o].handle = q
    BY <1>1, <1>2, <1>3, <2>2
  <2> QED
    BY <1>6, <2>1, <2>3, AtHandle
<1>8. IndexIn(E, h) = n + 1
  <2>1. n + 1 \in 1 .. Len(E)
    BY <1>1, <1>2
  <2> QED
    BY <1>6, <2>1, AtHandle
<1> QED
  BY <1>2, <1>6, <1>7, <1>8 DEF SameIndexes

(* The same object twice over. *)
LEMMA ThenSame ==
  ASSUME NEW x, NEW y, NEW z, SameObject(x, y), SameObject(y, z)
  PROVE  SameObject(x, z)
BY DEF SameObject

(* The fields of a block header. *)
LEMMA BlockHeader ==
  ASSUME Types, NEW b \in Blocks
  PROVE  /\ header[b] \in HeaderSet(HandlesOf(object))
         /\ header[b].first \in RefSet(HandlesOf(object))
         /\ header[b].last \in RefSet(HandlesOf(object))
         /\ header[b].first.to \in HandlesOf(object) \cup Nulls
         /\ header[b].last.to \in HandlesOf(object) \cup Nulls
         /\ header[b].entities \in Seq(HandlesOf(object))
         /\ header[b].iterator \in Nat
<1>1. header[b] \in HeaderSet(HandlesOf(object))
  BY DEF Types
<1>2. PICK x : x = header[b]
  OBVIOUS
<1>3. PICK H : H = HandlesOf(object)
  OBVIOUS
<1>4. /\ x.first \in RefSet(H) /\ x.last \in RefSet(H)
      /\ x.entities \in Seq(H) /\ x.iterator \in Nat
  BY <1>1, <1>2, <1>3 DEF HeaderSet
<1>5. x.first.to \in H \cup Nulls /\ x.last.to \in H \cup Nulls
  BY <1>4 DEF RefSet
<1> QED
  BY <1>1, <1>2, <1>3, <1>4, <1>5

(* The entity a new one is put behind is the one that last_entity leads    *)
(* to.                                                                     *)
LEMMA LastOfFacts ==
  ASSUME Types, NEW b \in Blocks, NEW kind
  PROVE  /\ LastOf(b, kind) \in 0 .. Len(object)
         /\ LastOf(b, kind) # 0 =>
              /\ kind = "ENTITY" /\ ~ IsFirst(header[b])
              /\ header[b].last.to \in HandlesOf(object)
              /\ object[LastOf(b, kind)].handle = header[b].last.to
         /\ kind = "ENTITY" /\ ~ IsFirst(header[b]) /\ Exists(header[b].last.to) =>
              LastOf(b, kind) # 0
<1>1. Numbered(object) /\ Len(object) \in Nat
  BY DrawingFacts DEF Types
<1>2. CASE kind = "ENTITY" /\ ~ IsFirst(header[b]) /\ Exists(header[b].last.to)
  <2>1. PICK q : q = header[b].last.to
    OBVIOUS
  <2>2. q \in HandlesOf(object)
    BY <1>2, <2>1, BlockHeader DEF Exists, Nulls
  <2>3. Index(q) \in 1 .. Len(object) /\ object[Index(q)].handle = q
    BY <1>1, <2>2, OfHandle DEF Index
  <2>4. LastOf(b, kind) = Index(q)
    BY <1>2, <2>1 DEF LastOf
  <2> QED
    BY <1>1, <1>2, <2>1, <2>2, <2>3, <2>4
<1>3. CASE ~ (kind = "ENTITY" /\ ~ IsFirst(header[b]) /\ Exists(header[b].last.to))
  <2>1. LastOf(b, kind) = 0
    BY <1>3 DEF LastOf
  <2> QED
    BY <1>1, <1>3, <2>1
<1> QED
  BY <1>2, <1>3

-----------------------------------------------------------------------------
(* dwg_add_<entity> as a whole. *)

(* What in_postprocess_handles, dwg_insert_entity and                      *)
(* in_postprocess_handles once more do together.                           *)
LEMMA PlacedOne ==
  ASSUME Types, NEW b \in Blocks, NEW kind \in {"ENTITY", "BLOCK", "ENDBLK"},
         NEW n, NEW h, NEW H, NEW P,
         n = Len(object), h = NextHandle, H = HandlesOf(object) \cup {h},
         P = Placed(b, kind)
  PROVE  PlacedFacts(P, b, kind, H, n, h) /\ PlacedHeaderIs(PlacedHeader(b, kind), b, kind, h)
<1>1. PICK N, A, E, Q, l, K :
        /\ N = NewOne(b, kind)
        /\ A = Postprocessed(N, n + 1, prev_entity_index, version)
        /\ E = Early(b, kind) /\ Q = InsertedIn(b, kind).object
        /\ l = LastOf(b, kind) /\ K = PlacedHeader(b, kind)
  OBVIOUS
<1>2. /\ n \in Nat \ {0} /\ h \in Nat \ {0} /\ ~ (h \in HandlesOf(object))
      /\ N \in [1 .. n + 1 -> ObjectSet(H)]
      /\ \A o \in 1 .. n : N[o] = object[o] /\ object[o] \in ObjectSet(H)
      /\ N[n + 1].handle = h /\ N[n + 1].kind = kind /\ N[n + 1].block = b
  <2>1. N = Append(object, NewObject(kind, b, h))
    BY <1>1 DEF NewOne
  <2>2. kind \in {"ENTITY", "BLOCK", "ENDBLK", "OBJECT"}
    OBVIOUS
  <2>3. NewFacts(N, b, kind, H, n, h)
    BY <2>1, <2>2, NewOneFacts
  <2> QED
    BY <2>3 DEF NewFacts
<1>3. PICK i : i = n + 1
  OBVIOUS
<1>4. /\ i \in Nat \ {0} /\ i \in 1 .. i /\ i - 1 = n /\ i # 0
      /\ \A o \in 1 .. n : o \in 1 .. i /\ o # i
      /\ \A o \in 1 .. i : o = i \/ o \in 1 .. n
  BY <1>2, <1>3
<1>5. /\ prev_entity_index \in 0 .. i - 1 /\ version \in Versions
      /\ IsDrawing(object)
  BY <1>4 DEF Types
<1>6. /\ A \in [1 .. i -> ObjectSet(H)]
      /\ \A o \in 1 .. i : SameObject(N[o], A[o])
      /\ \A o \in 1 .. n :
           \/ A[o] = object[o]
           \/ Mended(o) /\ A[o] = Before(object[o], h)
  <2>1. PostFacts(N, A, H, i, prev_entity_index, version)
    BY <1>1, <1>2, <1>3, <1>4, <1>5, PostprocessedFacts
  <2>2. \A o \in 1 .. i - 1 :
          \/ A[o] = N[o]
          \/ /\ o = prev_entity_index /\ o + 1 # i /\ version = "R2000"
             /\ N[o].kind \in {"ENTITY", "BLOCK"}
             /\ A[o] = Before(N[o], N[i].handle)
    BY <2>1 DEF PostFacts
  <2>3. ASSUME NEW o \in 1 .. n
        PROVE  A[o] = object[o] \/ (Mended(o) /\ A[o] = Before(object[o], h))
    <3>1. N[o] = object[o] /\ N[i].handle = h
      BY <1>2, <1>3
    <3>2. o + 1 # i => o # Len(object)
      BY <1>3
    <3> QED
      BY <1>4, <2>2, <3>1, <3>2 DEF Mended
  <2> QED
    BY <2>1, <2>3 DEF PostFacts
<1>7. EntMode(b) \in 0 .. 3
  BY DEF EntMode
<1>8. /\ E \in [1 .. i -> ObjectSet(H)]
      /\ \A o \in 1 .. n : E[o] = A[o]
      /\ SameObject(A[i], E[i]) /\ E[i].next = A[i].next
  <2>1. E = [A EXCEPT ![i].entmode = EntMode(b)]
    BY <1>1, <1>3 DEF Early
  <2>2. PICK x, y, m : x = A[i] /\ y = E[i] /\ m = EntMode(b) /\ m \in 0 .. 3
    BY <1>7
  <2>3. /\ E = [o \in 1 .. i |-> E[o]] /\ y = [x EXCEPT !.entmode = m]
        /\ \A o \in 1 .. i : o # i => E[o] = A[o]
    BY <1>4, <1>6, <2>1, <2>2
  <2>4. x \in ObjectSet(H)
    BY <1>4, <1>6, <2>2
  <2>5. y \in ObjectSet(H) /\ SameObject(x, y) /\ y.next = x.next
    BY ONLY <2>2, <2>3, <2>4, EntModeOnly
  <2>6. \A o \in 1 .. i : E[o] \in ObjectSet(H)
    BY <1>6, <2>2, <2>3, <2>5
  <2>7. E \in [1 .. i -> ObjectSet(H)]
    BY <2>3, <2>6
  <2> QED
    BY <1>4, <2>2, <2>3, <2>5, <2>7
<1>9. /\ \A o \in 1 .. n : SameObject(object[o], E[o])
      /\ SameObject(N[i], E[i])
  <2>1. \A o \in 1 .. n : SameObject(object[o], E[o])
    BY <1>2, <1>4, <1>6, <1>8
  <2>2. SameObject(N[i], A[i])
    BY <1>4, <1>6
  <2> QED
    BY <1>8, <2>1, <2>2, ThenSame
<1>10. E[i].handle = h /\ E[i].kind = kind /\ E[i].block = b
  BY <1>2, <1>3, <1>9 DEF SameObject
<1>11. \A q \in HandlesOf(object) : IndexIn(E, q) = Index(q)
  <2>1. E \in [1 .. n + 1 -> ObjectSet(H)]
    BY <1>3, <1>8
  <2>2. E[n + 1].handle = h /\ h \in Nat \ {0} /\ ~ (h \in HandlesOf(object))
    BY <1>2, <1>3, <1>10
  <2>3. DOMAIN E = 1 .. n + 1 /\ Len(E) = n + 1
    BY <1>2, <2>1, AsSequence
  <2>4. SameIndexes(E, n, h)
    BY <1>5, <1>9, <2>2, <2>3, SameIndex
  <2> QED
    BY <2>4 DEF SameIndexes
<1>12. l \in 0 .. n /\ (l # 0 => kind = "ENTITY" /\ ~ IsFirst(header[b]))
  BY <1>1, LastOfFacts
<1>13. /\ LinkFacts(E, Q, H, i, l)
       /\ kind = "ENTITY" /\ IsFirst(header[b]) => Q[i].prev = NullRef
       /\ PlacedHeaderIs(K, b, kind, h)
  <2>1. InsertedIn(b, kind) = Inserted(E, i, header[b])
    BY <1>1, <1>3 DEF InsertedIn
  <2>5. K = Inserted(E, i, header[b]).header
    BY <1>1, <2>1 DEF PlacedHeader
  <2>6. PICK w : w = header[b] /\ w \in HeaderSet(HandlesOf(object))
    BY BlockHeader
  <2>2. CASE kind # "ENTITY"
    <3>1. Q = E
      BY <1>1, <1>10, <2>1, <2>2 DEF Inserted
    <3>2. l = 0
      BY <1>12, <2>2
    <3>3. K = header[b]
      BY <1>10, <2>2, <2>5 DEF Inserted
    <3> QED
      BY <1>8, <2>2, <3>1, <3>2, <3>3, Itself DEF LinkFacts, PlacedHeaderIs
  <2>3. CASE kind = "ENTITY" /\ IsFirst(header[b])
    <3>1. Q = [E EXCEPT ![i].prev = NullRef, ![i].next = NullRef, ![i].nolinks = FALSE]
      BY <1>1, <1>10, <2>1, <2>3 DEF Inserted, InsertedFirst
    <3>2. l = 0
      BY <1>12, <2>3
    <3>3. PICK x, y : x = E[i] /\ y = Q[i]
      OBVIOUS
    <3>4. /\ Q = [o \in 1 .. i |-> Q[o]]
          /\ y = [x EXCEPT !.prev = NullRef, !.next = NullRef, !.nolinks = FALSE]
          /\ \A o \in 1 .. i : o # i => Q[o] = E[o]
      BY <1>4, <1>8, <3>1, <3>3
    <3>5. x \in ObjectSet(H)
      BY <1>4, <1>8, <3>3
    <3>6. y \in ObjectSet(H) /\ SameObject(x, y) /\ y.prev = NullRef
      BY ONLY <3>4, <3>5, FirstOnly
    <3>7. \A o \in 1 .. i : Q[o] \in ObjectSet(H) /\ SameObject(E[o], Q[o])
      BY <1>8, <3>3, <3>4, <3>6, Itself
    <3>8. Q \in [1 .. i -> ObjectSet(H)]
      BY <3>4, <3>7
    <3>9. \A o \in 1 .. i - 1 : Q[o] = E[o]
      BY <1>4, <3>4
    <3>10. K = WithEnds(w, Shared(h), Shared(h), <<h>>)
      BY <1>10, <2>3, <2>5, <2>6 DEF Inserted, InsertedFirst, WithEnds
    <3>11. /\ K.first = Shared(h) /\ K.last = Shared(h) /\ K.entities = <<h>>
           /\ K.iterator = w.iterator
           /\ K = [first |-> K.first, last |-> K.last, entities |-> K.entities,
                   iterator |-> K.iterator]
      BY <2>6, <3>10, EndsOnly
    <3>12. <<h>> = Append(w.entities, h)
      <4>1. w.entities = <<>>
        BY <2>3, <2>6 DEF IsFirst
      <4> QED
        BY <4>1
    <3>13. PlacedHeaderIs(K, b, kind, h)
      BY <2>3, <2>6, <3>11, <3>12 DEF PlacedHeaderIs
    <3> QED
      BY <3>2, <3>3, <3>6, <3>7, <3>8, <3>9, <3>13 DEF LinkFacts
  <2>4. CASE kind = "ENTITY" /\ ~ IsFirst(header[b])
    <3>1. l = IF Exists(header[b].last.to) THEN IndexIn(E, header[b].last.to) ELSE 0
      <4>1. CASE Exists(header[b].last.to)
        <5>1. header[b].last.to \in HandlesOf(object)
          BY <4>1, BlockHeader DEF Exists, Nulls
        <5> QED
          BY <1>1, <1>11, <2>4, <4>1, <5>1 DEF LastOf
      <4>2. CASE ~ Exists(header[b].last.to)
        BY <1>1, <2>4, <4>2 DEF LastOf
      <4> QED
        BY <4>1, <4>2
    <3>2. Q = LinkedLast(E, i, l)
      BY <1>1, <1>10, <2>1, <2>4, <3>1 DEF Inserted, InsertedLast
    <3>3. l \in 0 .. i - 1
      BY <1>4, <1>12
    <3>4. LinkFacts(E, Q, H, i, l)
      BY <1>4, <1>8, <3>2, <3>3, LinkedLastFacts
    <3> DEFINE f == IF l = 0 /\ ~ Exists(w.first.to) THEN Shared(h) ELSE w.first
    <3>5. K = WithEnds(w, f, Shared(h), Append(w.entities, h))
      BY <1>10, <2>4, <2>5, <2>6, <3>1 DEF Inserted, InsertedLast, WithEnds
    <3>6. /\ K.first = f /\ K.last = Shared(h) /\ K.entities = Append(w.entities, h)
          /\ K.iterator = w.iterator
          /\ K = [first |-> K.first, last |-> K.last, entities |-> K.entities,
                  iterator |-> K.iterator]
      <4>1. PICK g, e : g = f /\ e = Append(w.entities, h)
        OBVIOUS
      <4>2. K = WithEnds(w, g, Shared(h), e)
        BY <3>5, <4>1
      <4> HIDE DEF f
      <4>3. /\ K.first = g /\ K.last = Shared(h) /\ K.entities = e
            /\ K.iterator = w.iterator
            /\ K = [first |-> K.first, last |-> K.last, entities |-> K.entities,
                    iterator |-> K.iterator]
        BY <2>6, <4>2, EndsOnly
      <4> QED
        BY <4>1, <4>3
    <3>7. PlacedHeaderIs(K, b, kind, h)
      BY <1>1, <2>4, <2>6, <3>6 DEF PlacedHeaderIs
    <3> QED
      BY <2>4, <3>4, <3>7
  <2> QED
    BY <2>2, <2>3, <2>4
<1>14. /\ Q \in [1 .. i -> ObjectSet(H)]
       /\ \A o \in 1 .. i : SameObject(E[o], Q[o])
       /\ \A o \in 1 .. n : o # l => Q[o] = E[o]
       /\ l # 0 => IF Follows(E, l, i) THEN LeftOut(E[l], Q[l])
                   ELSE LeadsTo(E[l], Q[l], h)
  BY <1>4, <1>10, <1>13 DEF LinkFacts
<1>15. \A o \in 1 .. n : SameObject(object[o], Q[o])
  BY <1>4, <1>9, <1>14, ThenSame
<1>16. Q[i].handle = h /\ Q[i].kind = kind /\ Q[i].block = b
  BY <1>4, <1>10, <1>14 DEF SameObject
<1>17. PostFacts(Q, P, H, i, prev_entity_index, version)
  <2>1. P = Postprocessed(Q, i, prev_entity_index, version)
    BY <1>1, <1>3 DEF Placed
  <2>2. Q \in [1 .. i -> ObjectSet(H)] /\ i \in Nat \ {0}
    BY <1>4, <1>14
  <2> QED
    BY ONLY <1>5, <2>1, <2>2, PostprocessedFacts
<1>18. /\ P \in [1 .. i -> ObjectSet(H)]
       /\ \A o \in 1 .. i : SameObject(Q[o], P[o])
  BY <1>17 DEF PostFacts
<1>19. \A o \in 1 .. n : P[o] = Q[o] \/ (Mended(o) /\ P[o] = Before(Q[o], h))
  <2>1. \A o \in 1 .. i - 1 :
          \/ P[o] = Q[o]
          \/ /\ o = prev_entity_index /\ o + 1 # i /\ version = "R2000"
             /\ Q[o].kind \in {"ENTITY", "BLOCK"}
             /\ P[o] = Before(Q[o], Q[i].handle)
    BY <1>17 DEF PostFacts
  <2> TAKE o \in 1 .. n
  <2>2. Q[o].kind = object[o].kind
    BY <1>15 DEF SameObject
  <2>3. o + 1 # i => o # Len(object)
    BY <1>3
  <2> QED
    BY <1>4, <1>16, <2>1, <2>2, <2>3 DEF Mended
<1>20. \A o \in 1 .. n : SameObject(object[o], P[o])
  BY <1>4, <1>15, <1>18, ThenSame
<1>21. P[i].handle = h /\ P[i].kind = kind /\ P[i].block = b
  BY <1>4, <1>16, <1>18 DEF SameObject
<1>22. ASSUME NEW H2, NEW x, x \in ObjectSet(H2), h \in H2
       PROVE  LeadsTo(x, Before(x, h), h)
  <2>1. PICK y : y = Before(x, h)
    OBVIOUS
  <2>2. y.prev = x.prev /\ y.next = h /\ ~ y.nolinks
    BY ONLY <1>22, <2>1, BeforeOnly
  <2> QED
    BY <2>1, <2>2 DEF LeadsTo
<1>23. \A o \in 1 .. n : /\ E[o] = object[o] \/ (Mended(o) /\ LeadsTo(object[o], E[o], h))
                         /\ P[o] = Q[o] \/ (Mended(o) /\ LeadsTo(Q[o], P[o], h))
  <2> TAKE o \in 1 .. n
  <2>1. E[o] = A[o] /\ object[o] \in ObjectSet(H) /\ Q[o] \in ObjectSet(H) /\ h \in H
    BY <1>2, <1>4, <1>8, <1>14
  <2>2. LeadsTo(object[o], Before(object[o], h), h) /\ LeadsTo(Q[o], Before(Q[o], h), h)
    BY <1>22, <2>1
  <2> QED
    BY <1>6, <1>19, <2>1, <2>2
<1>24. ASSUME NEW o \in 1 .. n, o # l
       PROVE  Kept(object[o], P[o]) \/ (Mended(o) /\ LeadsTo(object[o], P[o], h))
  <2>1. Q[o] = E[o]
    BY <1>14, <1>24
  <2> QED
    BY <1>23, <2>1 DEF Kept, LeadsTo
<1>25. ASSUME l # 0
       PROVE  \/ LeadsTo(object[l], P[l], h)
              \/ l = n /\ Exists(object[l].prev) /\ LeftOut(object[l], P[l])
  <2>1. l \in 1 .. n /\ E[l].prev = object[l].prev
    BY <1>12, <1>23, <1>25 DEF LeadsTo
  <2>2. CASE ~ Follows(E, l, i)
    <3>1. LeadsTo(E[l], Q[l], h)
      BY <1>14, <1>25, <2>2
    <3> QED
      BY <1>23, <2>1, <3>1 DEF LeadsTo
  <2>3. CASE Follows(E, l, i)
    <3>1. l + 1 = i /\ Exists(E[l].prev) /\ LeftOut(E[l], Q[l])
      BY <1>14, <1>25, <2>3 DEF Follows
    <3>2. l = n
      BY <1>2, <1>3, <2>1, <3>1
    <3>3. ~ Mended(l)
      BY <3>2 DEF Mended
    <3>4. E[l] = object[l] /\ P[l] = Q[l]
      BY <1>23, <2>1, <3>3
    <3> QED
      BY <3>1, <3>2, <3>4
  <2> QED
    BY <2>2, <2>3
<1>26. kind = "ENTITY" /\ version = "R2000" => ~ Exists(P[i].next)
  BY <1>16, <1>17 DEF PostFacts
<1>27. kind = "ENTITY" /\ version = "R2004" /\ IsFirst(header[b]) => P[i].prev = NullRef
  BY <1>13, <1>17 DEF PostFacts
<1> QED
  BY <1>1, <1>3, <1>12, <1>13, <1>18, <1>20, <1>21, <1>24, <1>25, <1>26, <1>27 DEF PlacedFacts

-----------------------------------------------------------------------------
(* Whose entity an object is. *)

(* An entity is in one place of one block. *)
LEMMA OnePlace ==
  ASSUME IsDrawing(object), NEW b, NEW c, OwnedOnce(object, b), OwnedOnce(object, c),
         NEW j \in DOMAIN owned[b], NEW k \in DOMAIN owned[c],
         owned[b][j] = owned[c][k]
  PROVE  b = c /\ j = k
<1>1. PICK o \in DOMAIN object : object[o].handle = owned[b][j] /\ object[o].block = b
  BY DEF OwnedOnce
<1>2. PICK p \in DOMAIN object : object[p].handle = owned[c][k] /\ object[p].block = c
  BY DEF OwnedOnce
<1>3. o = p
  BY <1>1, <1>2 DEF IsDrawing
<1>4. b = c
  BY <1>1, <1>2, <1>3
<1> QED
  BY <1>4 DEF OwnedOnce

(* What a block owns is a list of handles in use. *)
LEMMA OwnedList ==
  ASSUME Types, NEW b \in Blocks
  PROVE  /\ owned[b] \in Seq(HandlesOf(object)) /\ Len(owned[b]) \in Nat
         /\ DOMAIN owned[b] = 1 .. Len(owned[b])
         /\ owned[b] # <<>> => Len(owned[b]) \in DOMAIN owned[b]
         /\ \A j \in DOMAIN owned[b] : owned[b][j] \in HandlesOf(object)
<1>1. owned[b] \in Seq(HandlesOf(object))
  BY DEF Types
<1>2. PICK s, H : s = owned[b] /\ H = HandlesOf(object)
  OBVIOUS
<1>3. s \in Seq(H)
  BY <1>1, <1>2
<1>4. /\ Len(s) \in Nat /\ DOMAIN s = 1 .. Len(s)
      /\ \A j \in DOMAIN s : s[j] \in H
  BY ONLY <1>3
<1>5. s # <<>> => Len(s) \in 1 .. Len(s)
  BY ONLY <1>3
<1> QED
  BY <1>1, <1>2, <1>4, <1>5

(* The entities that are mended when one is added are the last ones of     *)
(* their blocks.                                                           *)
LEMMA OnlyLastMended ==
  ASSUME Types, \A b \in Blocks : OwnedOnce(object, b), Latest,
         NEW o \in DOMAIN object, Mended(o),
         NEW c \in Blocks, NEW j \in DOMAIN owned[c], object[o].handle = owned[c][j]
  PROVE  j = Len(owned[c])
<1>1. IsDrawing(object)
  BY DEF Types
<1>2. PICK p \in DOMAIN object : object[p].handle = owned[c][j] /\ object[p].kind = "ENTITY"
  BY DEF OwnedOnce
<1>3. o = p
  BY <1>1, <1>2 DEF IsDrawing
<1>4. o = prev_entity_index /\ o # 0
  BY <1>1, DrawingFacts DEF Mended
<1>5. PICK b \in Blocks : owned[b] # <<>> /\ object[o].handle = owned[b][Len(owned[b])]
  BY <1>2, <1>3, <1>4 DEF Latest
<1>6. Len(owned[b]) \in DOMAIN owned[b]
  BY <1>5, OwnedList
<1>7. b = c /\ Len(owned[b]) = j
  BY <1>1, <1>5, <1>6, OnePlace
<1> QED
  BY <1>7

(* ... and so is the one the new entity is put behind. *)
LEMMA OnlyLastFollowed ==
  ASSUME Types, \A b \in Blocks : OwnedOnce(object, b),
         NEW b \in Blocks, NEW kind, LastOf(b, kind) # 0,
         owned[b] # <<>>, header[b].last.to = owned[b][Len(owned[b])],
         NEW c \in Blocks, NEW j \in DOMAIN owned[c],
         object[LastOf(b, kind)].handle = owned[c][j]
  PROVE  c = b /\ j = Len(owned[b])
<1>1. IsDrawing(object)
  BY DEF Types
<1>2. object[LastOf(b, kind)].handle = owned[b][Len(owned[b])]
  BY LastOfFacts
<1>3. Len(owned[b]) \in DOMAIN owned[b]
  BY OwnedList
<1> QED
  BY <1>1, <1>2, <1>3, OnePlace

-----------------------------------------------------------------------------
(* The chains with the new entity. *)

(* What the placing of a new object leaves and gives, in one place. *)
PlacedDrawing(P, kind, n, h) ==
  /\ n \in Nat \ {0} /\ DOMAIN P = 1 .. n + 1 /\ Len(P) = n + 1
  /\ DOMAIN object = 1 .. n
  /\ \A o \in 1 .. n : /\ P[o].handle = object[o].handle
                       /\ P[o].kind = object[o].kind /\ P[o].block = object[o].block
                       /\ P[o].handle # h /\ P[o].handle < h
  /\ \A o \in DOMAIN P : o \in 1 .. n \/ (o = n + 1 /\ P[o].handle = h)
  /\ HandlesOf(P) = HandlesOf(object) \cup {h}
  /\ \A q \in HandlesOf(object) : q \in Nat /\ q < h
  /\ h \in Nat
  /\ Unsorted(P) <=> Unsorted(object)

(* The new object is the last one, with the greatest handle. *)
LEMMA PlacedHandles ==
  ASSUME Types, NEW b \in Blocks, NEW kind, NEW n, NEW h, NEW H, NEW P,
         n = Len(object), h = NextHandle, PlacedFacts(P, b, kind, H, n, h)
  PROVE  PlacedDrawing(P, kind, n, h)
<1>1. /\ n \in Nat \ {0} /\ DOMAIN object = 1 .. n /\ IsDrawing(object)
      /\ \A o \in 1 .. n : object[o].handle \in HandlesOf(object)
      /\ HandlesOf(object) \subseteq Nat
  BY DrawingFacts DEF Types
<1>2. h \in Nat /\ \A q \in HandlesOf(object) : q < h
  BY <1>1, NewHandle
<1>3. P \in [1 .. n + 1 -> ObjectSet(H)]
  BY DEF PlacedFacts
<1>4. DOMAIN P = 1 .. n + 1 /\ Len(P) = n + 1
  <2>1. n + 1 \in Nat
    BY <1>1
  <2> QED
    BY <1>3, <2>1, AsSequence
<1>5. \A o \in 1 .. n : /\ P[o].handle = object[o].handle
                        /\ P[o].kind = object[o].kind /\ P[o].block = object[o].block
  BY DEF PlacedFacts, SameObject
<1>6. \A o \in 1 .. n : P[o].handle # h /\ P[o].handle < h
  <2> TAKE o \in 1 .. n
  <2>1. object[o].handle \in Nat /\ object[o].handle < h
    BY <1>1, <1>2
  <2> QED
    BY <1>2, <1>5, <2>1
<1>7. P[n + 1].handle = h
  BY DEF PlacedFacts
<1>8. \A o \in DOMAIN P : o \in 1 .. n \/ (o = n + 1 /\ P[o].handle = h)
  BY <1>1, <1>4, <1>7
<1>9. HandlesOf(P) = HandlesOf(object) \cup {h}
  <2>1. \A o \in DOMAIN P : P[o].handle \in HandlesOf(object) \cup {h}
    BY <1>1, <1>5, <1>8
  <2>2. \A o \in DOMAIN object : object[o].handle \in HandlesOf(P)
    BY <1>1, <1>4, <1>5 DEF HandlesOf
  <2>3. h \in HandlesOf(P)
    BY <1>1, <1>4, <1>7 DEF HandlesOf
  <2> QED
    BY <2>1, <2>2, <2>3 DEF HandlesOf
<1>10. Unsorted(P) <=> Unsorted(object)
  <2>1. ASSUME Unsorted(object) PROVE Unsorted(P)
    <3>1. PICK i, j \in 1 .. n : i < j /\ object[i].handle > object[j].handle
      BY <1>1, <2>1 DEF Unsorted
    <3>2. i \in DOMAIN P /\ j \in DOMAIN P /\ P[i].handle > P[j].handle
      BY <1>1, <1>4, <1>5, <3>1
    <3> QED
      BY <3>1, <3>2 DEF Unsorted
  <2>2. ASSUME Unsorted(P) PROVE Unsorted(object)
    <3>1. PICK i, j \in DOMAIN P : i < j /\ P[i].handle > P[j].handle
      BY <2>2 DEF Unsorted
    <3>2. i \in 1 .. n
      BY <1>1, <1>4, <3>1
    <3>3. P[i].handle < h /\ P[i].handle \in Nat
      BY <1>1, <1>5, <1>6, <3>2
    <3>4. j # n + 1
      BY <1>2, <1>7, <3>1, <3>3
    <3>5. j \in 1 .. n
      BY <1>8, <3>1, <3>4
    <3> QED
      BY <1>1, <1>5, <3>1, <3>2, <3>5 DEF Unsorted
  <2> QED
    BY <2>1, <2>2
<1> QED
  BY <1>1, <1>2, <1>4, <1>5, <1>6, <1>8, <1>9, <1>10 DEF PlacedDrawing

(* A list of a block with the new entity of block b. *)
Longer(b, kind, h, c) ==
  IF kind = "ENTITY" /\ c = b THEN Append(owned[c], h) ELSE owned[c]

LongerFacts(b, kind, h, c, list) ==
  /\ Len(list) \in Nat /\ Len(owned[c]) \in Nat /\ DOMAIN owned[c] = 1 .. Len(owned[c])
  /\ \A j \in 1 .. Len(owned[c]) : list[j] = owned[c][j] /\ list[j] # h
  /\ IF kind = "ENTITY" /\ c = b
       THEN Len(list) = Len(owned[c]) + 1 /\ list[Len(list)] = h /\ list # <<>>
       ELSE list = owned[c]
  /\ \A j \in 1 .. Len(list) : j \in DOMAIN owned[c] \/ (j = Len(list) /\ list[j] = h)

(* The list is the one before, with at most one handle more. *)
LEMMA LongerList ==
  ASSUME Types, NEW b, NEW c \in Blocks, NEW kind, NEW h,
         ~ (h \in HandlesOf(object))
  PROVE  LongerFacts(b, kind, h, c, Longer(b, kind, h, c))
<1>1. PICK s, H, list : s = owned[c] /\ H = HandlesOf(object) /\ list = Longer(b, kind, h, c)
  OBVIOUS
<1>2. s \in Seq(H) /\ ~ (h \in H)
  BY <1>1 DEF Types
<1>3. /\ Len(s) \in Nat /\ DOMAIN s = 1 .. Len(s)
      /\ \A j \in 1 .. Len(s) : s[j] # h
  BY ONLY <1>2
<1>4. CASE kind = "ENTITY" /\ c = b
  <2>1. list = Append(s, h)
    BY <1>1, <1>4 DEF Longer
  <2>2. s \in Seq(H \cup {h}) /\ h \in H \cup {h}
    BY <1>2
  <2>3. /\ Len(list) = Len(s) + 1 /\ list[Len(s) + 1] = h /\ list # <<>>
        /\ \A j \in 1 .. Len(s) : list[j] = s[j]
    BY ONLY <2>1, <2>2
  <2>4. \A j \in 1 .. Len(list) : j \in 1 .. Len(s) \/ (j = Len(list) /\ list[j] = h)
    BY <1>3, <2>3
  <2> QED
    BY <1>1, <1>3, <1>4, <2>3, <2>4 DEF LongerFacts
<1>5. CASE ~ (kind = "ENTITY" /\ c = b)
  <2>1. list = s
    BY <1>1, <1>5 DEF Longer
  <2> QED
    BY <1>1, <1>3, <1>5, <2>1 DEF LongerFacts
<1> QED
  BY <1>4, <1>5

AddedChain(P, list) ==
  /\ Chained(P, list)
  /\ ~ (opts = "dxf" /\ Unsorted(P)) => Saved(P, list)

(* The chain of every block leads on to the new entity, when it is the     *)
(* block's, and through nolinks only to the neighbour.                     *)
LEMMA AddedChains ==
  ASSUME IInv, version = "R2000", opts # "import", NEW b \in Blocks, NEW kind,
         NEW n, NEW h, NEW H, NEW P, NEW c \in Blocks,
         n = Len(object), h = NextHandle, PlacedFacts(P, b, kind, H, n, h)
  PROVE  AddedChain(P, Longer(b, kind, h, c))
<1>1. Types /\ Latest /\ Vectors /\ ChainInv /\ Sorted /\ \A d \in Blocks : OwnedOnce(object, d)
  BY DEF IInv
<1>2. PlacedDrawing(P, kind, n, h)
  BY <1>1, PlacedHandles
<1>3. PICK list, l : list = Longer(b, kind, h, c) /\ l = LastOf(b, kind)
  OBVIOUS
<1>4. ~ (h \in HandlesOf(object))
  <2>1. \A q \in HandlesOf(object) : q \in Nat /\ q < h
    BY <1>2 DEF PlacedDrawing
  <2> QED
    BY <2>1
<1>5. LongerFacts(b, kind, h, c, list)
  BY <1>1, <1>3, <1>4, LongerList
<1>6. Chained(object, owned[c]) /\ Ends(header[b], owned[b])
  BY <1>1 DEF ChainInv
<1>7. /\ l \in 0 .. n
      /\ l # 0 => /\ kind = "ENTITY" /\ owned[b] # <<>>
                  /\ header[b].last.to = owned[b][Len(owned[b])]
                  /\ object[l].handle = owned[b][Len(owned[b])]
  <2>1. /\ l \in 0 .. n
        /\ l # 0 => /\ kind = "ENTITY" /\ header[b].last.to \in HandlesOf(object)
                    /\ object[l].handle = header[b].last.to
    BY <1>1, <1>3, LastOfFacts
  <2>2. header[b].last.to \in HandlesOf(object) => Exists(header[b].last.to)
    <3>1. \A q \in HandlesOf(object) : q # -1 /\ q # 0
      BY <1>1, DrawingFacts DEF Types
    <3> QED
      BY <3>1 DEF Exists, NoRef, NullRef
  <2> QED
    BY <1>6, <2>1, <2>2 DEF Ends
<1>8. ASSUME NEW o \in 1 .. n, NEW j \in 1 .. Len(owned[c]) - 1,
             object[o].handle = owned[c][j]
      PROVE  Kept(object[o], P[o])
  <2>1. j \in DOMAIN owned[c] /\ j # Len(owned[c])
    BY <1>5 DEF LongerFacts
  <2>2. o # l
    <3> SUFFICES ASSUME o = l PROVE FALSE
      OBVIOUS
    <3>1. l # 0
      BY <1>2 DEF PlacedDrawing
    <3>2. c = b /\ j = Len(owned[b])
      BY <1>1, <1>3, <1>7, <1>8, <2>1, <3>1, OnlyLastFollowed
    <3> QED
      BY <2>1, <3>2
  <2>3. ~ Mended(o)
    <3>1. o \in DOMAIN object
      BY <1>2 DEF PlacedDrawing
    <3> QED
      BY <1>1, <1>8, <2>1, <3>1, OnlyLastMended
  <2> QED
    BY <1>3, <2>2, <2>3 DEF PlacedFacts
<1>9. ASSUME ~ (opts = "dxf" /\ Unsorted(P))
      PROVE  Saved(object, owned[c]) /\ ~ Unsorted(object)
  <2>1. ~ Unsorted(object)
    <3>1. opts \in {"api", "dxf", "file"}
      BY <1>1 DEF Types
    <3> QED
      BY <1>1, <1>2, <1>9, <3>1 DEF PlacedDrawing, Sorted
  <2> QED
    BY <1>1, <2>1 DEF ChainInv
<1>10. ASSUME NEW j \in 1 .. Len(list) - 1, NEW i \in DOMAIN P, NEW k \in DOMAIN P,
              P[i].handle = list[j], P[k].handle = list[j + 1]
       PROVE  /\ Linked(P, i, k)
              /\ ~ (opts = "dxf" /\ Unsorted(P)) => NeighbourSaved(P, i, k)
  <2>1. j \in DOMAIN owned[c] /\ list[j] = owned[c][j] /\ list[j] # h
    BY <1>5, <1>10 DEF LongerFacts
  <2>2. i \in 1 .. n /\ object[i].handle = owned[c][j] /\ i \in DOMAIN object
    BY <1>2, <1>10, <2>1 DEF PlacedDrawing
  <2>3. CASE j + 1 \in DOMAIN owned[c]
    <3>1. list[j + 1] = owned[c][j + 1] /\ list[j + 1] # h /\ j \in 1 .. Len(owned[c]) - 1
      BY <1>5, <2>1, <2>3 DEF LongerFacts
    <3>2. k \in 1 .. n /\ object[k].handle = owned[c][j + 1] /\ k \in DOMAIN object
      BY <1>2, <1>10, <3>1 DEF PlacedDrawing
    <3>3. Linked(object, i, k)
      BY <1>6, <2>2, <3>1, <3>2 DEF Chained
    <3>4. Kept(object[i], P[i])
      BY <1>8, <2>2, <3>1
    <3>5. P[k].handle = object[k].handle /\ P[i].handle = object[i].handle
      BY <1>2, <2>2, <3>2 DEF PlacedDrawing
    <3>6. Linked(P, i, k)
      BY <3>3, <3>4, <3>5 DEF Linked, Kept
    <3>7. ASSUME ~ (opts = "dxf" /\ Unsorted(P)) PROVE NeighbourSaved(P, i, k)
      <4>1. NeighbourSaved(object, i, k)
        BY <1>9, <2>2, <3>1, <3>2, <3>7 DEF Saved
      <4>2. object[k].handle \in Nat /\ object[k].handle < h
        <5>1. object[k].handle \in HandlesOf(object)
          BY <3>2 DEF HandlesOf
        <5> QED
          BY <1>2, <5>1 DEF PlacedDrawing
      <4>3. \A q \in HandlesOf(P) : q \in HandlesOf(object) \/ q = h
        BY <1>2 DEF PlacedDrawing
      <4>4. h \in Nat
        BY <1>2 DEF PlacedDrawing
      <4>5. NextHandles(object, object[i].handle, object[k].handle)
              => NextHandles(P, P[i].handle, P[k].handle)
        BY <3>5, <4>2, <4>3, <4>4 DEF NextHandles
      <4> QED
        BY <3>4, <4>1, <4>5 DEF NeighbourSaved, Kept
    <3> QED
      BY <3>6, <3>7
  <2>4. CASE ~ (j + 1 \in DOMAIN owned[c])
    <3>1. kind = "ENTITY" /\ c = b /\ j = Len(owned[c]) /\ list[j + 1] = h
      BY <1>5, <2>1, <2>4 DEF LongerFacts
    <3>2. k = n + 1
      BY <1>2, <1>10, <3>1 DEF PlacedDrawing
    <3>3. l # 0
      <4>1. owned[b] # <<>>
        BY <2>1, <3>1
      <4>2. header[b].last.to = owned[b][Len(owned[b])] /\ header[b].first.to = owned[b][1]
        BY <1>6, <4>1 DEF Ends
      <4>3. header[b].last.to \in HandlesOf(object) /\ header[b].first.to \in HandlesOf(object)
        <5>1. Len(owned[b]) \in DOMAIN owned[b] /\ 1 \in DOMAIN owned[b]
          BY <1>5, <2>1, <3>1 DEF LongerFacts
        <5> QED
          BY <1>1, <4>2, <5>1, OwnedList
      <4>4. \A q \in HandlesOf(object) : Exists(q)
        <5>1. \A q \in HandlesOf(object) : q # -1 /\ q # 0
          BY <1>1, DrawingFacts DEF Types
        <5> QED
          BY <5>1 DEF Exists, NoRef, NullRef
      <4> QED
        BY <1>1, <1>3, <3>1, <4>3, <4>4, LastOfFacts DEF IsFirst
    <3>4. i = l
      <4>1. object[i].handle = object[l].handle /\ l \in DOMAIN object
        BY <1>2, <1>7, <2>2, <3>1, <3>3 DEF PlacedDrawing
      <4> QED
        BY <1>1, <2>2, <4>1 DEF Types, IsDrawing
    <3>5. \/ LeadsTo(object[i], P[i], h)
          \/ i = n /\ LeftOut(object[i], P[i])
      BY <1>3, <3>3, <3>4 DEF PlacedFacts
    <3>6. LastUnlinked(object, i)
      <4>1. owned[c] # <<>>
        BY <2>1
      <4> QED
        BY <1>6, <2>2, <3>1, <4>1 DEF Chained
    <3>7. CASE LeadsTo(object[i], P[i], h)
      <4>1. P[i].next = h /\ ~ P[i].nolinks /\ P[k].handle = h
        BY <1>2, <3>2, <3>7, <1>10, <3>1 DEF LeadsTo
      <4>2. Exists(h)
        <5>1. h # 0 /\ h # -1
          <6>1. PICK q : q = NextHandle
            OBVIOUS
          <6>2. q \in Nat \ {0}
            BY <1>1, <6>1, NewHandle DEF Types
          <6> QED
            BY <6>1, <6>2
        <5> QED
          BY <5>1 DEF Exists, NoRef, NullRef
      <4> QED
        BY <4>1, <4>2 DEF Linked, NeighbourSaved
    <3>8. CASE i = n /\ LeftOut(object[i], P[i])
      <4>1. ~ Exists(object[i].next)
        BY <3>6, <3>8 DEF LastUnlinked
      <4>2. P[i].nolinks /\ ~ Exists(P[i].next)
        BY <3>8, <4>1 DEF LeftOut
      <4>3. Linked(P, i, k)
        BY <3>2, <3>8, <4>2 DEF Linked
      <4>4. ASSUME ~ (opts = "dxf" /\ Unsorted(P)) PROVE NeighbourSaved(P, i, k)
        <5>1. \A q \in HandlesOf(object) : ~ (object[n].handle < q)
          <6> SUFFICES ASSUME NEW p \in 1 .. n, object[n].handle < object[p].handle
                       PROVE  FALSE
            BY <1>2 DEF PlacedDrawing, HandlesOf
          <6>1. ~ Unsorted(object)
            BY <1>9, <4>4
          <6>2. n \in 1 .. n /\ object[p].handle \in Nat /\ object[n].handle \in Nat /\ DOMAIN object = 1 .. n
            BY <1>1, <1>2, DrawingFacts DEF PlacedDrawing, Types
          <6>3. p < n
            <7>1. p # n
              BY <6>2
            <7> QED
              BY <1>2, <7>1 DEF PlacedDrawing
          <6> QED
            BY <6>1, <6>2, <6>3 DEF Unsorted
        <5>2. P[i].handle = object[n].handle /\ P[k].handle = h
          BY <1>2, <1>10, <2>2, <3>1, <3>8 DEF PlacedDrawing
        <5>3. P[i].handle < h
          BY <1>2, <2>2 DEF PlacedDrawing
        <5>4. \A q \in HandlesOf(P) : q \in HandlesOf(object) \/ q = h
          BY <1>2 DEF PlacedDrawing
        <5>5. h \in Nat
          BY <1>2 DEF PlacedDrawing
        <5> QED
          BY <5>1, <5>2, <5>3, <5>4, <5>5 DEF NeighbourSaved, NextHandles
      <4> QED
        BY <4>3, <4>4
    <3> QED
      BY <3>5, <3>7, <3>8
  <2> QED
    BY <2>3, <2>4
<1>11. ASSUME list # <<>>, NEW i \in DOMAIN P, P[i].handle = list[Len(list)]
       PROVE  LastUnlinked(P, i)
  <2>1. CASE kind = "ENTITY" /\ c = b
    <3>1. i = n + 1
      BY <1>2, <1>5, <1>11, <2>1 DEF LongerFacts, PlacedDrawing
    <3> QED
      BY <2>1, <3>1 DEF PlacedFacts, LastUnlinked
  <2>2. CASE ~ (kind = "ENTITY" /\ c = b)
    <3>1. list = owned[c]
      BY <1>5, <2>2 DEF LongerFacts
    <3>2. Len(owned[c]) \in DOMAIN owned[c]
      BY <1>1, <1>11, <3>1, OwnedList
    <3>3. list[Len(list)] # h
      BY <1>5, <3>1, <3>2 DEF LongerFacts
    <3>4. i \in 1 .. n /\ object[i].handle = owned[c][Len(owned[c])] /\ i \in DOMAIN object
      BY <1>2, <1>11, <3>1, <3>3 DEF PlacedDrawing
    <3>5. LastUnlinked(object, i)
      BY <1>6, <1>11, <3>1, <3>4 DEF Chained
    <3>6. P[i].next = object[i].next \/ P[i].next = h
      BY <1>3, <3>4 DEF PlacedFacts, Kept, LeadsTo, LeftOut
    <3>7. P[i].handle = object[i].handle /\ P[i].handle < h /\ h \in HandlesOf(P)
          /\ P[i].handle \in Nat /\ h \in Nat
      <4>1. object[i].handle \in HandlesOf(object)
        BY <3>4 DEF HandlesOf
      <4> QED
        BY <1>2, <3>4, <4>1 DEF PlacedDrawing
    <3>8. i # Len(P)
      BY <1>2, <3>4 DEF PlacedDrawing
    <3>9. h > P[i].handle
      BY <3>7
    <3> QED
      BY <3>7, <3>8, <3>9 DEF LastUnlinked
  <2> QED
    BY <2>1, <2>2
<1> QED
  BY <1>3, <1>10, <1>11 DEF AddedChain, Chained, Saved

(* dwg_fixup_BLOCKS_entities *)

PlaceIn(s, x) == SelectInSeq(s, LAMBDA h : h = x)

(* The place of an entity in a vector. *)
LEMMA PlaceFacts ==
  ASSUME NEW s, Len(s) \in Nat, NEW x
  PROVE  /\ PlaceIn(s, x) \in 0 .. Len(s)
         /\ PlaceIn(s, x) # 0 => s[PlaceIn(s, x)] = x
         /\ \A j \in 1 .. Len(s) : s[j] = x => PlaceIn(s, x) # 0
<1> DEFINE I == {j \in 1 .. Len(s) : s[j] = x}
<1>1. PlaceIn(s, x) = IF I # {} THEN Min(I) ELSE 0
  BY DEF PlaceIn, SelectInSeq
<1>2. I # {} => Min(I) \in I
  <2>1. I \subseteq Nat
    OBVIOUS
  <2> QED
    BY <2>1, LeastExists
<1>3. CASE I = {}
  <2>1. \A j \in 1 .. Len(s) : s[j] # x
    BY <1>3
  <2>2. PlaceIn(s, x) = 0
    BY <1>1, <1>3
  <2> HIDE DEF I
  <2> QED
    BY <2>1, <2>2
<1>4. CASE I # {}
  <2>1. PICK j \in I : j = PlaceIn(s, x)
    BY <1>1, <1>2, <1>4
  <2>2. j \in 1 .. Len(s) /\ s[j] = x /\ j # 0
    BY <2>1
  <2> HIDE DEF I
  <2> QED
    BY <2>1, <2>2
<1> QED
  BY <1>3, <1>4

FixedNolinks(o, p, n) ==
  LET between == \/ p = 0 /\ n = 0
                 \/ p # 0 /\ p = o.handle - 1 /\ n = o.handle + 1
                 \/ (p = 0 \/ n = 0) /\ o.nolinks
      ends == (o.prev = NoRef /\ p = 0) \/ (o.next = NoRef /\ n = 0)
  IN  between /\ ~ ends

Relink(o, l, p, n) == [o EXCEPT !.nolinks = l, !.prev = p, !.next = n]

(* Other links make no other object. *)
LEMMA RelinkOnly ==
  ASSUME NEW H, NEW x \in ObjectSet(H), NEW l \in BOOLEAN,
         NEW p \in H \cup Nulls, NEW q \in H \cup Nulls,
         NEW y, y = Relink(x, l, p, q)
  PROVE  /\ y \in ObjectSet(H) /\ SameObject(x, y)
         /\ y.prev = p /\ y.next = q /\ y.nolinks = l
BY DEF ObjectSet, SameObject, Relink

(* The links of an entity between its neighbours of the vector. *)
LEMMA FixedLinksFacts ==
  ASSUME NEW H, NEW x \in ObjectSet(H), NEW p \in H \cup {0}, NEW q \in H \cup {0},
         NEW y, y = FixedLinks(x, p, q)
  PROVE  /\ y \in ObjectSet(H) /\ SameObject(x, y)
         /\ y.prev = p /\ y.next = q /\ (y.nolinks <=> FixedNolinks(x, p, q))
<1>1. PICK l \in BOOLEAN : l = FixedNolinks(x, p, q)
  BY DEF FixedNolinks
<1>2. y = Relink(x, l, p, q)
  BY <1>1 DEF FixedLinks, FixedNolinks, Relink
<1>3. p \in H \cup Nulls /\ q \in H \cup Nulls
  BY DEF Nulls, NullRef
<1>4. /\ y \in ObjectSet(H) /\ SameObject(x, y)
      /\ y.prev = p /\ y.next = q /\ y.nolinks = l
  BY <1>2, <1>3, RelinkOnly
<1> QED
  BY <1>1, <1>4

(* A neighbour is in the vector or 0. *)
LEMMA NeighbourFacts ==
  ASSUME NEW H, NEW s \in Seq(H), NEW j
  PROVE  Neighbour(s, j) \in H \cup {0}
<1>1. CASE j \in DOMAIN s
  <2>1. s[j] \in H
    BY <1>1
  <2> QED
    BY <1>1, <2>1 DEF Neighbour
<1>2. CASE ~ (j \in DOMAIN s)
  BY <1>2 DEF Neighbour
<1> QED
  BY <1>1, <1>2

(* dwg_fixup_BLOCKS_entities sets links, no more. *)
LEMMA FixedObjectFacts ==
  ASSUME NEW H, NEW x \in ObjectSet(H), NEW hdrs \in [Blocks -> HeaderSet(H)],
         NEW y, y = FixedObject(x, hdrs)
  PROVE  /\ y \in ObjectSet(H) /\ SameObject(x, y)
         /\ \E j : /\ j = PlaceIn(hdrs[x.block].entities, x.handle)
                   /\ j # 0 =>
                        y = FixedLinks(x, Neighbour(hdrs[x.block].entities, j - 1),
                                       Neighbour(hdrs[x.block].entities, j + 1))
<1>1. PICK s, j : s = hdrs[x.block].entities /\ j = PlaceIn(s, x.handle)
  OBVIOUS
<1>2. s \in Seq(H)
  <2>1. x.block \in Blocks
    BY ObjectFields
  <2> QED
    BY <1>1, <2>1 DEF HeaderSet
<1>3. y = IF j = 0 THEN x ELSE FixedLinks(x, Neighbour(s, j - 1), Neighbour(s, j + 1))
  BY <1>1 DEF FixedObject, PlaceIn
<1>4. CASE j = 0
  BY <1>1, <1>3, <1>4, Itself
<1>5. CASE j # 0
  <2>1. PICK p, q : p = Neighbour(s, j - 1) /\ q = Neighbour(s, j + 1)
    OBVIOUS
  <2>2. p \in H \cup {0} /\ q \in H \cup {0}
    BY <1>2, <2>1, NeighbourFacts
  <2>3. y = FixedLinks(x, p, q)
    BY <1>3, <1>5, <2>1
  <2>4. y \in ObjectSet(H) /\ SameObject(x, y)
    BY <2>2, <2>3, FixedLinksFacts
  <2> QED
    BY <1>1, <2>1, <2>3, <2>4
<1> QED
  BY <1>4, <1>5

(* dwg_fixup_BLOCKS_entities runs over vectors that hold what the blocks   *)
(* own.                                                                    *)
FixReady(objs, hdrs) ==
  /\ IsDrawing(objs)
  /\ hdrs \in [Blocks -> HeaderSet(HandlesOf(objs))]
  /\ owned \in [Blocks -> Seq(HandlesOf(objs))]
  /\ \A b \in Blocks : hdrs[b].entities = owned[b] /\ OwnedOnce(objs, b)

SameDrawing(objs, F) ==
  /\ F \in [1 .. Len(objs) -> ObjectSet(HandlesOf(objs))]
  /\ \A o \in 1 .. Len(objs) : SameObject(objs[o], F[o])

(* ... and leaves the objects where they are. *)
LEMMA FixedDrawing ==
  ASSUME NEW objs, NEW hdrs, FixReady(objs, hdrs)
  PROVE  SameDrawing(objs, FixedObjects(objs, hdrs))
<1>1. PICK n, H, F : n = Len(objs) /\ H = HandlesOf(objs) /\ F = FixedObjects(objs, hdrs)
  OBVIOUS
<1>2. /\ n \in Nat \ {0} /\ DOMAIN objs = 1 .. n
      /\ \A o \in 1 .. n : objs[o] \in ObjectSet(H)
  BY <1>1, DrawingFacts DEF FixReady
<1>3. hdrs \in [Blocks -> HeaderSet(H)]
  BY <1>1 DEF FixReady
<1>4. F = [o \in 1 .. n |-> FixedObject(objs[o], hdrs)]
  BY <1>1, <1>2 DEF FixedObjects
<1>5. \A o \in 1 .. n : F[o] \in ObjectSet(H) /\ SameObject(objs[o], F[o])
  <2> TAKE o \in 1 .. n
  <2>1. PICK x, y : x = objs[o] /\ y = F[o]
    OBVIOUS
  <2>2. x \in ObjectSet(H) /\ y = FixedObject(x, hdrs)
    BY <1>2, <1>4, <2>1
  <2>3. y \in ObjectSet(H) /\ SameObject(x, y)
    BY <1>3, <2>2, FixedObjectFacts
  <2> QED
    BY <2>1, <2>3
<1>6. F \in [1 .. n -> ObjectSet(H)]
  BY <1>4, <1>5
<1> QED
  BY <1>1, <1>5, <1>6 DEF SameDrawing

(* The entity at j of a vector is put between those at j - 1 and j + 1. *)
LEMMA FixedAt ==
  ASSUME NEW objs, NEW hdrs, FixReady(objs, hdrs), NEW b \in Blocks,
         NEW i \in DOMAIN objs, NEW j \in DOMAIN owned[b],
         objs[i].handle = owned[b][j]
  PROVE  /\ FixedObjects(objs, hdrs)[i]
              = FixedLinks(objs[i], Neighbour(owned[b], j - 1), Neighbour(owned[b], j + 1))
         /\ Neighbour(owned[b], j - 1) \in HandlesOf(objs) \cup {0}
         /\ Neighbour(owned[b], j + 1) \in HandlesOf(objs) \cup {0}
         /\ objs[i] \in ObjectSet(HandlesOf(objs))
<1>1. PICK H, F, x, s : /\ H = HandlesOf(objs) /\ F = FixedObjects(objs, hdrs)
                        /\ x = objs[i] /\ s = owned[b]
  OBVIOUS
<1>2. x \in ObjectSet(H) /\ hdrs \in [Blocks -> HeaderSet(H)] /\ s \in Seq(H)
  BY <1>1, DrawingFacts DEF FixReady
<1>3. F[i] = FixedObject(x, hdrs)
  BY <1>1 DEF FixedObjects
<1>4. x.block = b
  <2>1. PICK p \in DOMAIN objs : objs[p].handle = owned[b][j] /\ objs[p].block = b
    BY DEF FixReady, OwnedOnce
  <2>2. p = i
    BY <2>1 DEF FixReady, IsDrawing
  <2> QED
    BY <1>1, <2>1, <2>2
<1>5. hdrs[b].entities = s
  BY <1>1 DEF FixReady
<1>6. Len(s) \in Nat /\ DOMAIN s = 1 .. Len(s) /\ j \in 1 .. Len(s) /\ s[j] = x.handle
  <2>1. Len(s) \in Nat /\ DOMAIN s = 1 .. Len(s)
    BY <1>2
  <2> QED
    BY <1>1, <2>1
<1>7. PlaceIn(s, x.handle) = j
  <2>1. PICK k : k = PlaceIn(s, x.handle)
    OBVIOUS
  <2>2. k \in 0 .. Len(s) /\ (k # 0 => s[k] = x.handle) /\ k # 0
    BY <1>6, <2>1, PlaceFacts
  <2>3. k \in DOMAIN s /\ s[k] = s[j]
    BY <1>6, <2>2
  <2>4. OwnedOnce(objs, b)
    BY DEF FixReady
  <2>5. k = j
    BY <1>1, <2>3, <2>4 DEF OwnedOnce
  <2> QED
    BY <2>1, <2>5
<1>8. F[i] = FixedLinks(x, Neighbour(s, j - 1), Neighbour(s, j + 1))
  <2>1. PICK y : y = F[i]
    OBVIOUS
  <2>2. \E k : /\ k = PlaceIn(hdrs[x.block].entities, x.handle)
               /\ k # 0 =>
                    y = FixedLinks(x, Neighbour(hdrs[x.block].entities, k - 1),
                                   Neighbour(hdrs[x.block].entities, k + 1))
    BY <1>2, <1>3, <2>1, FixedObjectFacts
  <2>3. j # 0
    BY <1>6
  <2> QED
    BY <1>4, <1>5, <1>7, <2>1, <2>2, <2>3
<1>9. Neighbour(s, j - 1) \in H \cup {0} /\ Neighbour(s, j + 1) \in H \cup {0}
  BY <1>2, NeighbourFacts
<1> QED
  BY <1>1, <1>2, <1>8, <1>9

(* The first entity of a list is not left out for its successor, or is     *)
(* indeed followed by it.                                                  *)
FirstSettled(objs, list) ==
  \A i, k \in DOMAIN objs :
    /\ Len(list) > 1 /\ objs[i].handle = list[1] /\ objs[k].handle = list[2]
    /\ objs[i].nolinks /\ objs[i].prev # NoRef
    => NextHandles(objs, list[1], list[2])

(* The links it makes are the chain of the vector. *)
LEMMA FixedChain ==
  ASSUME NEW objs, NEW hdrs, FixReady(objs, hdrs), NEW b \in Blocks
  PROVE  /\ Chained(FixedObjects(objs, hdrs), owned[b])
         /\ FirstSettled(objs, owned[b]) => Saved(FixedObjects(objs, hdrs), owned[b])
<1>1. PICK F, s, H : F = FixedObjects(objs, hdrs) /\ s = owned[b] /\ H = HandlesOf(objs)
  OBVIOUS
<1>2. /\ s \in Seq(H) /\ Len(s) \in Nat /\ DOMAIN s = 1 .. Len(s)
      /\ H \subseteq Nat \ {0} /\ \A j \in DOMAIN s : s[j] \in H
  <2>1. s \in Seq(H) /\ H \subseteq Nat \ {0}
    BY <1>1, DrawingFacts DEF FixReady
  <2>2. Len(s) \in Nat /\ DOMAIN s = 1 .. Len(s) /\ \A j \in DOMAIN s : s[j] \in H
    BY ONLY <2>1
  <2> QED
    BY <2>1, <2>2
<1>3. /\ DOMAIN F = DOMAIN objs /\ \A i \in DOMAIN objs : F[i].handle = objs[i].handle
      /\ HandlesOf(F) = H
  <2>1. SameDrawing(objs, F)
    BY <1>1, FixedDrawing
  <2>2. DOMAIN objs = 1 .. Len(objs)
    BY DrawingFacts DEF FixReady
  <2>3. DOMAIN F = DOMAIN objs /\ \A i \in DOMAIN objs : F[i].handle = objs[i].handle
    BY <2>1, <2>2 DEF SameDrawing, SameObject
  <2> QED
    BY <1>1, <2>3 DEF HandlesOf
<1>4. ASSUME NEW i \in DOMAIN objs, NEW j \in DOMAIN s, objs[i].handle = s[j]
      PROVE  \E p, q \in H \cup {0} :
               /\ p = Neighbour(s, j - 1) /\ q = Neighbour(s, j + 1)
               /\ F[i].next = q
               /\ F[i].nolinks <=> FixedNolinks(objs[i], p, q)
  <2>1. PICK x, y, p, q : /\ x = objs[i] /\ y = F[i]
                          /\ p = Neighbour(s, j - 1) /\ q = Neighbour(s, j + 1)
    OBVIOUS
  <2>2. y = FixedLinks(x, p, q) /\ p \in H \cup {0} /\ q \in H \cup {0} /\ x \in ObjectSet(H)
    BY <1>1, <1>4, <2>1, FixedAt
  <2>3. y.next = q /\ (y.nolinks <=> FixedNolinks(x, p, q))
    BY <2>2, FixedLinksFacts
  <2> QED
    BY <2>1, <2>2, <2>3
<1>5. ASSUME NEW j \in 1 .. Len(s) - 1, NEW i \in DOMAIN F, NEW k \in DOMAIN F,
             F[i].handle = s[j], F[k].handle = s[j + 1]
      PROVE  Linked(F, i, k) /\ (FirstSettled(objs, s) => NeighbourSaved(F, i, k))
  <2>1. /\ j \in DOMAIN s /\ j + 1 \in DOMAIN s /\ i \in DOMAIN objs /\ k \in DOMAIN objs
        /\ objs[i].handle = s[j] /\ objs[k].handle = s[j + 1]
        /\ s[j + 1] \in Nat \ {0} /\ s[j] \in Nat \ {0}
    <3>1. j \in DOMAIN s /\ j + 1 \in DOMAIN s
      BY <1>2
    <3>2. s[j + 1] \in Nat \ {0} /\ s[j] \in Nat \ {0}
      BY <1>2, <3>1
    <3>3. i \in DOMAIN objs /\ k \in DOMAIN objs
      BY <1>3
    <3> QED
      BY <1>3, <1>5, <3>1, <3>2, <3>3
  <2>2. PICK p, q \in H \cup {0} :
          /\ p = Neighbour(s, j - 1) /\ q = Neighbour(s, j + 1)
          /\ F[i].next = q
          /\ F[i].nolinks <=> FixedNolinks(objs[i], p, q)
    BY <1>4, <2>1
  <2>3. q = s[j + 1]
    BY <2>1, <2>2 DEF Neighbour
  <2>4. Exists(q) /\ q # 0
    BY <2>1, <2>3 DEF Exists, NoRef, NullRef
  <2>5. Linked(F, i, k)
    BY <1>5, <2>2, <2>3, <2>4 DEF Linked
  <2>6. ASSUME FirstSettled(objs, s), F[i].nolinks
        PROVE  NextHandles(F, F[i].handle, F[k].handle)
    <3>1. \/ p # 0 /\ q = objs[i].handle + 1
          \/ p = 0 /\ objs[i].nolinks /\ objs[i].prev # NoRef
      <4>1. FixedNolinks(objs[i], p, q)
        BY <2>2, <2>6
      <4> QED
        BY <2>4, <4>1 DEF FixedNolinks
    <3>2. CASE p # 0 /\ q = objs[i].handle + 1
      <4>1. F[k].handle = F[i].handle + 1
        BY <1>5, <2>1, <2>3, <3>2
      <4>2. F[i].handle \in Nat /\ \A r \in HandlesOf(F) : r \in Nat
        BY <1>2, <1>3, <1>5, <2>1
      <4> QED
        BY <4>1, <4>2 DEF NextHandles
    <3>3. CASE p = 0 /\ objs[i].nolinks /\ objs[i].prev # NoRef
      <4>1. j = 1
        <5> SUFFICES ASSUME j # 1 PROVE FALSE
          OBVIOUS
        <5>1. j - 1 \in DOMAIN s
          BY <1>2, <2>1
        <5>2. p = s[j - 1] /\ s[j - 1] \in H
          BY <1>2, <2>2, <5>1 DEF Neighbour
        <5> QED
          BY <1>2, <3>3, <5>2
      <4>2. Len(s) > 1
        BY <1>2, <4>1
      <4>3. objs[i].handle = s[1] /\ objs[k].handle = s[2]
        BY <2>1, <4>1
      <4>4. NextHandles(objs, s[1], s[2])
        BY <2>1, <2>6, <3>3, <4>2, <4>3 DEF FirstSettled
      <4> QED
        BY <1>1, <1>3, <2>1, <4>3, <4>4 DEF NextHandles
    <3> QED
      BY <3>1, <3>2, <3>3
  <2> QED
    BY <2>5, <2>6 DEF NeighbourSaved
<1>6. ASSUME s # <<>>, NEW i \in DOMAIN F, F[i].handle = s[Len(s)]
      PROVE  LastUnlinked(F, i)
  <2>1. Len(s) \in DOMAIN s /\ ~ (Len(s) + 1 \in DOMAIN s) /\ i \in DOMAIN objs
        /\ objs[i].handle = s[Len(s)]
    <3>1. Len(s) # 0
      BY <1>2, <1>6
    <3> QED
      BY <1>2, <1>3, <1>6, <3>1
  <2>2. PICK p, q \in H \cup {0} :
          /\ p = Neighbour(s, Len(s) - 1) /\ q = Neighbour(s, Len(s) + 1)
          /\ F[i].next = q
    BY <1>4, <2>1
  <2>3. q = 0
    BY <2>1, <2>2 DEF Neighbour
  <2> QED
    BY <2>2, <2>3 DEF LastUnlinked, Exists, NullRef
<1> QED
  BY <1>1, <1>5, <1>6 DEF Chained, Saved

(* The ends it makes are those of the vector. *)
LEMMA FixedHeadersFacts ==
  ASSUME NEW objs, NEW hdrs, FixReady(objs, hdrs)
  PROVE  /\ FixedHeaders(hdrs) \in [Blocks -> HeaderSet(HandlesOf(objs))]
         /\ \A b \in Blocks : /\ Ends(FixedHeaders(hdrs)[b], owned[b])
                             /\ FixedHeaders(hdrs)[b].entities = hdrs[b].entities
                             /\ FixedHeaders(hdrs)[b].iterator = hdrs[b].iterator
<1>1. PICK K, H : K = FixedHeaders(hdrs) /\ H = HandlesOf(objs)
  OBVIOUS
<1>2. ASSUME NEW b \in Blocks
      PROVE  /\ K[b] \in HeaderSet(H) /\ Ends(K[b], owned[b])
             /\ K[b].entities = hdrs[b].entities /\ K[b].iterator = hdrs[b].iterator
  <2>1. PICK x, s, y : x = hdrs[b] /\ s = owned[b] /\ y = K[b]
    OBVIOUS
  <2>2. /\ x \in HeaderSet(H) /\ s \in Seq(H) /\ x.entities = s /\ y = FixedHeader(x)
        /\ x.first \in RefSet(H) /\ x.last \in RefSet(H) /\ x.iterator \in Nat
    <3>1. x \in HeaderSet(H) /\ s \in Seq(H) /\ x.entities = s
      BY <1>1, <2>1 DEF FixReady
    <3>2. y = FixedHeader(x)
      BY <1>1, <2>1 DEF FixedHeaders
    <3> QED
      BY <3>1, <3>2 DEF HeaderSet
  <2> DEFINE f == IF s = <<>> THEN Shared(NullRef)
                  ELSE IF x.first.to = s[1] THEN x.first ELSE Relative(s[1], "first")
             l == IF s = <<>> THEN Shared(NullRef)
                  ELSE IF x.last.to = s[Len(s)] THEN x.last
                  ELSE Relative(s[Len(s)], "last")
  <2>3. y = WithEnds(x, f, l, s)
    <3>1. CASE s = <<>>
      <4>1. y = [x EXCEPT !.first = Shared(NullRef), !.last = Shared(NullRef)]
        BY <2>2, <3>1 DEF FixedHeader
      <4> QED
        BY <2>2, <3>1, <4>1 DEF WithEnds, HeaderSet
    <3>2. CASE s # <<>>
      <4>1. y = [x EXCEPT !.first = f, !.last = l]
        BY <2>2, <3>2 DEF FixedHeader, Last
      <4> HIDE DEF f, l
      <4> QED
        BY <2>2, <4>1 DEF WithEnds, HeaderSet
    <3> QED
      BY <3>1, <3>2
  <2>4. f \in RefSet(H) /\ l \in RefSet(H)
    <3>1. s # <<>> => s[1] \in H /\ s[Len(s)] \in H
      <4>1. s # <<>> => 1 \in 1 .. Len(s) /\ Len(s) \in 1 .. Len(s)
        BY <2>2
      <4> QED
        BY <2>2, <4>1
    <3>2. Shared(NullRef) \in RefSet(H)
      BY DEF Shared, RefSet, Nulls
    <3>3. \A h \in H : Relative(h, "first") \in RefSet(H) /\ Relative(h, "last") \in RefSet(H)
      BY DEF Relative, RefSet
    <3> QED
      BY <2>2, <3>1, <3>2, <3>3
  <2>5. IF s = <<>> THEN f.to = NullRef /\ l.to = NullRef
        ELSE f.to = s[1] /\ l.to = s[Len(s)]
    BY DEF Shared, Relative
  <2>6. PICK g, m : g = f /\ m = l
    OBVIOUS
  <2> HIDE DEF f, l
  <2>7. y = WithEnds(x, g, m, s)
    BY <2>3, <2>6
  <2>8. /\ y.first = g /\ y.last = m /\ y.entities = s /\ y.iterator = x.iterator
        /\ y = [first |-> y.first, last |-> y.last, entities |-> y.entities,
                iterator |-> y.iterator]
    BY <2>2, <2>7, EndsOnly
  <2>9. y \in HeaderSet(H)
    BY <2>2, <2>4, <2>6, <2>8 DEF HeaderSet
  <2>10. Ends(y, s)
    BY <2>5, <2>6, <2>8 DEF Ends, Exists
  <2> QED
    BY <2>1, <2>2, <2>8, <2>9, <2>10
<1>3. K \in [Blocks -> HeaderSet(H)]
  <2>1. K = [b \in Blocks |-> K[b]]
    BY <1>1 DEF FixedHeaders
  <2> QED
    BY <1>2, <2>1
<1> QED
  BY <1>1, <1>2, <1>3

(* Writing and reading *)

(* An object that is read is the one that was written, with links when     *)
(* nolinks was not set.                                                    *)
LEMMA ReadObjectFacts ==
  ASSUME NEW H, NEW x \in ObjectSet(H), NEW y, y = ReadObject(x), version \in Versions
  PROVE  /\ y \in ObjectSet(H) /\ SameObject(x, y)
         /\ version = "R2000" =>
              /\ y.nolinks = x.nolinks
              /\ x.nolinks => y.next = NoRef
              /\ ~ x.nolinks => y.next = InFile(x.next)
         /\ version = "R2004" => y.prev = NoRef /\ y.next = NoRef
<1> DEFINE chain == version = "R2000" /\ ~ x.nolinks
           p == IF chain THEN InFile(x.prev) ELSE NoRef
           q == IF chain THEN InFile(x.next) ELSE NoRef
           l == x.nolinks /\ version = "R2000"
           w == x.entmode = 0
<1>1. /\ x.prev \in H \cup Nulls /\ x.next \in H \cup Nulls
      /\ x.nolinks \in BOOLEAN
  BY ObjectFields
<1>2. p \in H \cup Nulls /\ q \in H \cup Nulls /\ l \in BOOLEAN /\ w \in BOOLEAN
  BY <1>1 DEF InFile, Nulls
<1>3. y = [x EXCEPT !.prev = p, !.next = q, !.nolinks = l, !.ownerhandle = w]
  BY DEF ReadObject, ObjectSet
<1>4. PICK pp, qq, ll, ww : pp = p /\ qq = q /\ ll = l /\ ww = w
  OBVIOUS
<1>5. /\ pp \in H \cup Nulls /\ qq \in H \cup Nulls /\ ll \in BOOLEAN /\ ww \in BOOLEAN
      /\ y = [x EXCEPT !.prev = pp, !.next = qq, !.nolinks = ll, !.ownerhandle = ww]
  BY <1>2, <1>3, <1>4
<1>6. y.prev = pp /\ y.next = qq /\ y.nolinks = ll /\ y \in ObjectSet(H) /\ SameObject(x, y)
  BY ONLY <1>5, x \in ObjectSet(H) DEF ObjectSet, SameObject
<1>7. version = "R2000" => (l <=> x.nolinks)
  BY <1>1
<1>8. version = "R2004" => version # "R2000"
  OBVIOUS
<1> QED
  BY <1>1, <1>4, <1>6, <1>7, <1>8

FileOf(W) == ByHandle([o \in DOMAIN W |-> ReadObject(W[o])])

(* The object at k of the file is the one at at[k] of what was written. *)
FiledBy(W, F, at) ==
  /\ at \in [1 .. Len(W) -> 1 .. Len(W)]
  /\ \A o \in 1 .. Len(W) : \E k \in 1 .. Len(W) : at[k] = o
  /\ \A k, l \in 1 .. Len(W) : k < l => F[k].handle < F[l].handle
  /\ \A k \in 1 .. Len(W) : F[k] = ReadObject(W[at[k]]) /\ F[k].handle = W[at[k]].handle

(* The file has every object once, by rising handles. *)
LEMMA Filed ==
  ASSUME NEW W, IsDrawing(W), version \in Versions
  PROVE  /\ FileOf(W) \in [1 .. Len(W) -> ObjectSet(HandlesOf(W))]
         /\ \E at : FiledBy(W, FileOf(W), at)
<1>1. PICK n, H, R, F : /\ n = Len(W) /\ H = HandlesOf(W)
                        /\ R = [o \in DOMAIN W |-> ReadObject(W[o])]
                        /\ F = FileOf(W)
  OBVIOUS
<1>2. /\ Numbered(W) /\ n \in Nat \ {0} /\ DOMAIN W = 1 .. n
      /\ \A o \in 1 .. n : W[o] \in ObjectSet(H)
  BY <1>1, DrawingFacts
<1>3. \A o \in 1 .. n : /\ R[o] = ReadObject(W[o])
                        /\ R[o] \in ObjectSet(H) /\ R[o].handle = W[o].handle
  <2> TAKE o \in 1 .. n
  <2>1. PICK x, y : x = W[o] /\ y = R[o]
    OBVIOUS
  <2>2. x \in ObjectSet(H) /\ y = ReadObject(x)
    BY <1>1, <1>2, <2>1
  <2>3. y \in ObjectSet(H) /\ SameObject(x, y)
    BY ONLY <2>2, version \in Versions, ReadObjectFacts
  <2> QED
    BY <2>1, <2>2, <2>3 DEF SameObject
<1>4. R \in [1 .. n -> ObjectSet(H)]
  BY <1>1, <1>2, <1>3
<1>5. Len(R) = n /\ DOMAIN R = 1 .. n
  BY <1>2, <1>4, AsSequence
<1>6. Numbered(R)
  <2>1. \A o \in 1 .. n : R[o].handle \in Nat
    BY <1>1, <1>2, <1>3 DEF Numbered
  <2>2. \A o, p \in 1 .. n : R[o].handle = R[p].handle => o = p
    BY <1>1, <1>2, <1>3 DEF Numbered
  <2> QED
    BY <1>2, <1>5, <2>1, <2>2 DEF Numbered
<1>7. F = ByHandle(R)
  BY <1>1 DEF FileOf
<1>8. F = [k \in 1 .. n |-> F[k]] /\ \E at : Places(R, at)
  BY <1>5, <1>6, <1>7, SortedByHandle
<1>9. PICK at : Places(R, at)
  BY <1>8
<1>10. /\ at \in [1 .. n -> 1 .. n]
       /\ \A o \in 1 .. n : \E k \in 1 .. n : at[k] = o
       /\ \A k, l \in 1 .. n : k < l => R[at[k]].handle < R[at[l]].handle
       /\ \A k \in 1 .. n : F[k] = R[at[k]]
  BY <1>5, <1>7, <1>9 DEF Places
<1>11. \A k \in 1 .. n : /\ F[k] = ReadObject(W[at[k]]) /\ F[k].handle = W[at[k]].handle
                         /\ F[k] \in ObjectSet(H)
  <2> TAKE k \in 1 .. n
  <2>1. PICK o \in 1 .. n : o = at[k]
    BY <1>10
  <2>2. F[k] = R[o]
    BY <1>10, <2>1
  <2> QED
    BY <1>3, <2>1, <2>2
<1>12. \A k, l \in 1 .. n : k < l => F[k].handle < F[l].handle
  <2> TAKE k \in 1 .. n, l \in 1 .. n
  <2>1. F[k] = R[at[k]] /\ F[l] = R[at[l]]
    BY <1>10
  <2> QED
    BY <1>10, <2>1
<1>13. F \in [1 .. n -> ObjectSet(H)]
  BY <1>8, <1>11
<1>14. FiledBy(W, F, at)
  BY <1>1, <1>10, <1>11, <1>12 DEF FiledBy
<1> QED
  BY <1>1, <1>13, <1>14

(* The drawing that is read: the same objects, sorted. *)
FiledDrawing(W, F) ==
  /\ IsDrawing(F) /\ HandlesOf(F) = HandlesOf(W) /\ Len(F) = Len(W)
  /\ ~ Unsorted(F)
  /\ \A o \in DOMAIN W : \E k \in DOMAIN F : SameObject(W[o], F[k])
  /\ \A k \in DOMAIN F : \E o \in DOMAIN W :
       F[k] = ReadObject(W[o]) /\ F[k].handle = W[o].handle

(* What is read is a drawing of the same objects, in order. *)
LEMMA FiledObjects ==
  ASSUME NEW W, IsDrawing(W), version \in Versions
  PROVE  FiledDrawing(W, FileOf(W))
<1>1. PICK n, H, F : n = Len(W) /\ H = HandlesOf(W) /\ F = FileOf(W)
  OBVIOUS
<1>2. /\ Numbered(W) /\ n \in Nat \ {0} /\ DOMAIN W = 1 .. n
      /\ \A o \in 1 .. n : W[o] \in ObjectSet(H) /\ W[o].handle \in H
      /\ H \subseteq Nat \ {0}
  BY <1>1, DrawingFacts
<1>3. F \in [1 .. n -> ObjectSet(H)]
  BY <1>1, Filed
<1>4. PICK at : FiledBy(W, F, at)
  BY <1>1, Filed
<1>5. /\ at \in [1 .. n -> 1 .. n]
      /\ \A o \in 1 .. n : \E k \in 1 .. n : at[k] = o
      /\ \A k, l \in 1 .. n : k < l => F[k].handle < F[l].handle
      /\ \A k \in 1 .. n : F[k] = ReadObject(W[at[k]]) /\ F[k].handle = W[at[k]].handle
  BY <1>1, <1>4 DEF FiledBy
<1>6. Len(F) = n /\ DOMAIN F = 1 .. n /\ F \in Seq(ObjectSet(H)) /\ F # <<>>
  <2>1. Len(F) = n /\ DOMAIN F = 1 .. n /\ F \in Seq(ObjectSet(H))
    BY <1>2, <1>3, AsSequence
  <2> QED
    BY <1>2, <2>1
<1>7. HandlesOf(F) = H
  <2>1. \A k \in 1 .. n : F[k].handle \in H
    BY <1>2, <1>5
  <2>2. \A o \in 1 .. n : W[o].handle \in HandlesOf(F)
    <3> TAKE o \in 1 .. n
    <3>1. PICK k \in 1 .. n : at[k] = o
      BY <1>5
    <3>2. F[k].handle = W[o].handle
      BY <1>5, <3>1
    <3> QED
      BY <1>6, <3>2 DEF HandlesOf
  <2> QED
    BY <1>1, <1>2, <1>6, <2>1, <2>2 DEF HandlesOf
<1>8. \A k, l \in 1 .. n : k < l => F[k].handle < F[l].handle
  BY <1>5
<1>9. \A k \in 1 .. n : F[k].handle \in Nat
  BY <1>2, <1>5
<1>10. ~ Unsorted(F)
  BY <1>6, <1>8, <1>9 DEF Unsorted
<1>11. \A k, l \in DOMAIN F : F[k].handle = F[l].handle => k = l
  <2> SUFFICES ASSUME NEW k \in 1 .. n, NEW l \in 1 .. n, F[k].handle = F[l].handle
               PROVE  k = l
    BY <1>6
  <2>1. ~ (k < l)
    BY <1>8, <1>9
  <2>2. ~ (l < k)
    BY <1>8, <1>9
  <2> QED
    BY <1>2, <2>1, <2>2
<1>12. IsDrawing(F)
  <2>1. n <= MaxObjects /\ H \subseteq 1 .. 2 * MaxObjects + n
    BY <1>1 DEF IsDrawing
  <2> QED
    BY <1>6, <1>7, <1>11, <2>1 DEF IsDrawing
<1>13. \A o \in DOMAIN W : \E k \in DOMAIN F : SameObject(W[o], F[k])
  <2> TAKE o \in DOMAIN W
  <2>1. PICK k \in 1 .. n : at[k] = o
    BY <1>2, <1>5
  <2>2. PICK x, y : x = W[o] /\ y = F[k]
    OBVIOUS
  <2>3. y = ReadObject(x) /\ x \in ObjectSet(H)
    BY <1>2, <1>5, <2>1, <2>2
  <2>4. SameObject(x, y)
    BY ONLY <2>3, version \in Versions, ReadObjectFacts
  <2> QED
    BY <1>6, <2>2, <2>4
<1>14. \A k \in DOMAIN F : \E o \in DOMAIN W :
         F[k] = ReadObject(W[o]) /\ F[k].handle = W[o].handle
  BY <1>2, <1>5, <1>6
<1> QED
  BY <1>1, <1>6, <1>7, <1>10, <1>12, <1>13, <1>14 DEF FiledDrawing

(* A chain that can be saved is read as it was written. *)
LEMMA FiledChain ==
  ASSUME NEW W, IsDrawing(W), version = "R2000", NEW s, s \in Seq(HandlesOf(W)),
         Chained(W, s), Saved(W, s)
  PROVE  Chained(FileOf(W), s) /\ Saved(FileOf(W), s)
<1>0. version \in Versions
  BY DEF Versions
<1>1. PICK n, H, F : n = Len(W) /\ H = HandlesOf(W) /\ F = FileOf(W)
  OBVIOUS
<1>2. /\ n \in Nat \ {0} /\ DOMAIN W = 1 .. n
      /\ \A o \in 1 .. n : W[o] \in ObjectSet(H) /\ W[o].handle \in H
      /\ H \subseteq Nat \ {0}
  BY <1>1, DrawingFacts
<1>3. FiledDrawing(W, F)
  BY <1>0, <1>1, FiledObjects
<1>4. PICK at : FiledBy(W, F, at)
  BY <1>0, <1>1, Filed
<1>5. /\ at \in [1 .. n -> 1 .. n]
      /\ \A k, l \in 1 .. n : k < l => F[k].handle < F[l].handle
      /\ \A k \in 1 .. n : F[k] = ReadObject(W[at[k]]) /\ F[k].handle = W[at[k]].handle
      /\ DOMAIN F = 1 .. n /\ Len(F) = n /\ HandlesOf(F) = H
  <2>1. Len(F) = n /\ HandlesOf(F) = H /\ IsDrawing(F)
    BY <1>1, <1>3 DEF FiledDrawing
  <2>2. DOMAIN F = 1 .. n
    BY <2>1, DrawingFacts
  <2> QED
    BY <1>1, <1>4, <2>1, <2>2 DEF FiledBy
<1>6. ASSUME NEW k \in 1 .. n
      PROVE  \E w \in DOMAIN W :
               /\ W[w].handle = F[k].handle /\ W[w].handle \in H
               /\ F[k].nolinks = W[w].nolinks
               /\ W[w].nolinks => F[k].next = NoRef
               /\ ~ W[w].nolinks => F[k].next = InFile(W[w].next)
  <2>1. PICK w \in 1 .. n : w = at[k]
    BY <1>5
  <2>2. PICK x, y : x = W[w] /\ y = F[k]
    OBVIOUS
  <2>3. x \in ObjectSet(H) /\ y = ReadObject(x) /\ y.handle = x.handle /\ x.handle \in H
    BY <1>2, <1>5, <2>1, <2>2
  <2>4. /\ y.nolinks = x.nolinks
        /\ x.nolinks => y.next = NoRef
        /\ ~ x.nolinks => y.next = InFile(x.next)
    BY ONLY <1>0, <2>3, version = "R2000", ReadObjectFacts
  <2> QED
    BY <1>2, <2>2, <2>3, <2>4
<1>7. ASSUME NEW j \in 1 .. Len(s) - 1, NEW i \in DOMAIN F, NEW k \in DOMAIN F,
             F[i].handle = s[j], F[k].handle = s[j + 1]
      PROVE  Linked(F, i, k) /\ NeighbourSaved(F, i, k)
  <2>1. PICK w \in DOMAIN W :
          /\ W[w].handle = F[i].handle
          /\ F[i].nolinks = W[w].nolinks
          /\ W[w].nolinks => F[i].next = NoRef
          /\ ~ W[w].nolinks => F[i].next = InFile(W[w].next)
    BY <1>5, <1>6
  <2>2. PICK v \in DOMAIN W : W[v].handle = F[k].handle /\ W[v].handle \in H
    BY <1>5, <1>6
  <2>3. Linked(W, w, v) /\ NeighbourSaved(W, w, v)
    BY <1>7, <2>1, <2>2 DEF Chained, Saved
  <2>4. NeighbourSaved(F, i, k)
    BY <1>1, <1>5, <2>1, <2>2, <2>3 DEF NeighbourSaved, NextHandles
  <2>5. CASE W[w].nolinks
    <3>1. F[i].next = NoRef /\ F[i].nolinks
      BY <2>1, <2>5
    <3>2. F[i].handle < F[k].handle /\ \A q \in H : ~ (F[i].handle < q /\ q < F[k].handle)
      BY <1>5, <2>4, <3>1 DEF NeighbourSaved, NextHandles
    <3>3. \A o \in 1 .. n : F[o].handle \in H /\ F[o].handle \in Nat
      BY <1>2, <1>6
    <3>4. i < k
      <4>1. i # k /\ ~ (k < i)
        BY <1>5, <3>2, <3>3
      <4> QED
        BY <1>5, <4>1
    <3>5. k = i + 1
      <4> SUFFICES ASSUME k # i + 1 PROVE FALSE
        OBVIOUS
      <4>1. i + 1 \in 1 .. n /\ i < i + 1 /\ i + 1 < k
        <5>1. i \in 1 .. n /\ k \in 1 .. n
          BY <1>5
        <5> QED
          BY <1>2, <3>4, <5>1
      <4>2. F[i].handle < F[i + 1].handle /\ F[i + 1].handle < F[k].handle
        BY <1>5, <4>1
      <4> QED
        BY <3>2, <3>3, <4>1, <4>2
    <3>6. ~ Exists(NoRef)
      BY DEF Exists
    <3> QED
      BY <2>4, <3>1, <3>5, <3>6 DEF Linked
  <2>6. CASE ~ W[w].nolinks
    <3>1. Exists(W[w].next) /\ W[w].next = W[v].handle
      BY <2>3, <2>6 DEF Linked
    <3>2. F[i].next = F[k].handle /\ ~ F[i].nolinks /\ Exists(F[i].next)
      BY <2>1, <2>2, <2>6, <3>1 DEF InFile, Exists
    <3> QED
      BY <2>4, <3>2 DEF Linked
  <2> QED
    BY <2>5, <2>6
<1>8. ASSUME s # <<>>, NEW i \in DOMAIN F, F[i].handle = s[Len(s)]
      PROVE  LastUnlinked(F, i)
  <2>1. PICK w \in DOMAIN W :
          /\ W[w].handle = F[i].handle
          /\ W[w].nolinks => F[i].next = NoRef
          /\ ~ W[w].nolinks => F[i].next = InFile(W[w].next)
    BY <1>5, <1>6
  <2>2. LastUnlinked(W, w)
    BY <1>8, <2>1 DEF Chained
  <2>3. ASSUME Exists(F[i].next)
        PROVE  /\ i # Len(F) /\ \E q \in HandlesOf(F) : q > F[i].handle
    <3>1. Exists(W[w].next)
      BY <2>1, <2>3 DEF InFile, Exists
    <3>2. PICK q \in H : q > W[w].handle
      BY <1>1, <2>2, <3>1 DEF LastUnlinked
    <3>3. PICK k \in 1 .. n : F[k].handle = q
      BY <1>5, <3>2 DEF HandlesOf
    <3>4. F[i].handle \in Nat /\ F[k].handle \in Nat /\ F[k].handle > F[i].handle
      BY <1>2, <1>5, <1>6, <2>1, <3>2, <3>3
    <3>5. i # n
      <4> SUFFICES ASSUME i = n PROVE FALSE
        OBVIOUS
      <4>1. k = i \/ k < i
        BY <1>2, <3>3
      <4>2. k = i => F[k].handle = F[i].handle
        OBVIOUS
      <4>3. k < i => F[k].handle < F[i].handle
        BY <1>5
      <4> QED
        BY <3>4, <4>1, <4>2, <4>3
    <3> QED
      BY <1>5, <3>3, <3>4, <3>5
  <2> QED
    BY <2>3 DEF LastUnlinked
<1> QED
  BY <1>1, <1>7, <1>8 DEF Chained, Saved

-----------------------------------------------------------------------------
(* dwg_write_file and dwg_read_file. *)

(* Mended objects are a drawing as they were. *)
LEMMA SameDrawingFacts ==
  ASSUME NEW objs, NEW F, IsDrawing(objs), SameDrawing(objs, F)
  PROVE  /\ IsDrawing(F) /\ HandlesOf(F) = HandlesOf(objs) /\ Len(F) = Len(objs)
         /\ DOMAIN F = DOMAIN objs
         /\ Unsorted(F) <=> Unsorted(objs)
         /\ \A b : OwnedOnce(objs, b) => OwnedOnce(F, b)
<1>1. PICK n, H : n = Len(objs) /\ H = HandlesOf(objs)
  OBVIOUS
<1>2. n \in Nat \ {0} /\ DOMAIN objs = 1 .. n
  BY <1>1, DrawingFacts
<1>3. /\ F \in [1 .. n -> ObjectSet(H)]
      /\ \A o \in 1 .. n : /\ F[o].handle = objs[o].handle /\ F[o].kind = objs[o].kind
                           /\ F[o].block = objs[o].block
  BY <1>1 DEF SameDrawing, SameObject
<1>4. Len(F) = n /\ DOMAIN F = 1 .. n /\ F \in Seq(ObjectSet(H)) /\ F # <<>>
  <2>1. Len(F) = n /\ DOMAIN F = 1 .. n /\ F \in Seq(ObjectSet(H))
    BY <1>2, <1>3, AsSequence
  <2> QED
    BY <1>2, <2>1
<1>5. HandlesOf(F) = H
  BY <1>1, <1>2, <1>3, <1>4 DEF HandlesOf
<1>6. IsDrawing(F)
  <2>1. /\ n <= MaxObjects /\ H \subseteq 1 .. 2 * MaxObjects + n
        /\ \A o, p \in 1 .. n : objs[o].handle = objs[p].handle => o = p
    BY <1>1, <1>2 DEF IsDrawing
  <2>2. \A o, p \in 1 .. n : F[o].handle = F[p].handle => o = p
    BY <1>3, <2>1
  <2> QED
    BY <1>4, <1>5, <2>1, <2>2 DEF IsDrawing
<1>7. Unsorted(F) <=> Unsorted(objs)
  BY <1>2, <1>3, <1>4 DEF Unsorted
<1>8. \A b : OwnedOnce(objs, b) => OwnedOnce(F, b)
  BY <1>2, <1>3, <1>4 DEF OwnedOnce
<1> QED
  BY <1>1, <1>2, <1>4, <1>5, <1>6, <1>7, <1>8

Written == IF WrittenFixed THEN FixedObjects(object, header) ELSE object
WrittenHeaders == IF WrittenFixed THEN FixedHeaders(header) ELSE header

(* The vectors of a drawing to be mended hold what the blocks own. *)
LEMMA ReadyFromVectors ==
  ASSUME Types, Vectors, \A b \in Blocks : OwnedOnce(object, b),
         version = "R2004" \/ from_version = "R2004" \/ opts # "file"
  PROVE  FixReady(object, header)
<1>1. \A b \in Blocks : header[b].entities = owned[b]
  BY DEF Vectors
<1> QED
  BY <1>1 DEF FixReady, Types

(* A chain that can be saved is ready to be mended. *)
LEMMA SettledFromSaved ==
  ASSUME NEW objs, NEW s, s \in Seq(HandlesOf(objs)), Saved(objs, s)
  PROVE  FirstSettled(objs, s)
<1> SUFFICES ASSUME NEW i \in DOMAIN objs, NEW k \in DOMAIN objs, Len(s) > 1,
                    objs[i].handle = s[1], objs[k].handle = s[2], objs[i].nolinks
             PROVE  NextHandles(objs, s[1], s[2])
  BY DEF FirstSettled
<1>1. 1 \in 1 .. Len(s) - 1 /\ 1 + 1 = 2
  OBVIOUS
<1>2. NeighbourSaved(objs, i, k)
  BY <1>1 DEF Saved
<1> QED
  BY <1>2 DEF NeighbourSaved

WrittenIs(W, K) ==
  /\ IsDrawing(W) /\ HandlesOf(W) = HandlesOf(object) /\ Len(W) = Len(object)
  /\ DOMAIN W = DOMAIN object
  /\ K \in [Blocks -> HeaderSet(HandlesOf(object))]
  /\ \A b \in Blocks :
       /\ OwnedOnce(W, b)
       /\ K[b].entities = header[b].entities
       /\ version = "R2000" =>
            Ends(K[b], owned[b]) /\ Chained(W, owned[b]) /\ Saved(W, owned[b])

(* What dwg_write_file writes has the chains of the blocks. *)
LEMMA WrittenFacts ==
  ASSUME IInv, opts # "import", ~ (version = "R2000" /\ Extended /\ Unsorted(object))
  PROVE  WrittenIs(Written, WrittenHeaders)
<1>1. /\ Types /\ Vectors /\ \A b \in Blocks : OwnedOnce(object, b)
      /\ IsDrawing(object)
  BY DEF IInv, Types
<1>2. version = "R2000" =>
        \A b \in Blocks : /\ Ends(header[b], owned[b]) /\ Chained(object, owned[b])
                          /\ Saved(object, owned[b])
  BY DEF IInv, ChainInv
<1>3. CASE ~ WrittenFixed
  <2>1. Written = object /\ WrittenHeaders = header
    BY <1>3 DEF Written, WrittenHeaders
  <2>2. header \in [Blocks -> HeaderSet(HandlesOf(object))]
    BY <1>1 DEF Types
  <2> QED
    BY <1>1, <1>2, <2>1, <2>2 DEF WrittenIs
<1>4. CASE WrittenFixed
  <2>1. version = "R2000" /\ from_version = "R2004"
    BY <1>4 DEF WrittenFixed
  <2>2. FixReady(object, header)
    BY <1>1, <2>1, ReadyFromVectors
  <2>3. PICK W, K : W = FixedObjects(object, header) /\ K = FixedHeaders(header)
    OBVIOUS
  <2>4. Written = W /\ WrittenHeaders = K
    BY <1>4, <2>3 DEF Written, WrittenHeaders
  <2>5. SameDrawing(object, W)
    BY <2>2, <2>3, FixedDrawing
  <2>6. /\ IsDrawing(W) /\ HandlesOf(W) = HandlesOf(object) /\ Len(W) = Len(object)
        /\ DOMAIN W = DOMAIN object /\ \A b \in Blocks : OwnedOnce(W, b)
    BY <1>1, <2>5, SameDrawingFacts
  <2>7. /\ K \in [Blocks -> HeaderSet(HandlesOf(object))]
        /\ \A b \in Blocks : Ends(K[b], owned[b]) /\ K[b].entities = header[b].entities
    BY <2>2, <2>3, FixedHeadersFacts
  <2>8. ASSUME NEW b \in Blocks PROVE Chained(W, owned[b]) /\ Saved(W, owned[b])
    <3>1. owned[b] \in Seq(HandlesOf(object)) /\ Saved(object, owned[b])
      BY <1>1, <1>2, <2>1 DEF Types
    <3>2. FirstSettled(object, owned[b])
      BY <3>1, SettledFromSaved
    <3> QED
      BY <2>2, <2>3, <3>2, FixedChain
  <2> QED
    BY <2>4, <2>6, <2>7, <2>8 DEF WrittenIs
<1> QED
  BY <1>3, <1>4

(* Every entity of a block is in the file. *)
LEMMA OnceFiled ==
  ASSUME NEW W, NEW F, FiledDrawing(W, F), NEW b, OwnedOnce(W, b)
  PROVE  OwnedOnce(F, b)
BY DEF OwnedOnce, FiledDrawing, SameObject

(* A block header that is read has the ends, or the vector. *)
LEMMA ReadHeaderFacts ==
  ASSUME NEW H, NEW x \in HeaderSet(H), NEW y, y = ReadHeader(x), version \in Versions
  PROVE  /\ y \in HeaderSet(H)
         /\ version = "R2000" => /\ y.entities = <<>> /\ y.first.to = InFile(x.first.to)
                                 /\ y.last.to = InFile(x.last.to)
         /\ version = "R2004" => /\ y.entities = x.entities
                                 /\ y.first.to = NoRef /\ y.last.to = NoRef
<1>1. /\ x.first \in RefSet(H) /\ x.last \in RefSet(H) /\ x.entities \in Seq(H)
  BY DEF HeaderSet
<1>2. InFile(x.first.to) \in H \cup Nulls /\ InFile(x.last.to) \in H \cup Nulls
  BY <1>1 DEF RefSet, InFile, Nulls
<1>3. \A r \in H \cup Nulls : Shared(r) \in RefSet(H)
  BY DEF Shared, RefSet
<1>4. \A r : Shared(r).to = r
  BY DEF Shared
<1>5. NoRef \in H \cup Nulls
  BY DEF Nulls
<1>6. CASE version = "R2000"
  <2>1. y = [first |-> Shared(InFile(x.first.to)), last |-> Shared(InFile(x.last.to)),
             entities |-> <<>>, iterator |-> 0]
    BY <1>6 DEF ReadHeader, EmptyHeader
  <2>2. <<>> \in Seq(H) /\ 0 \in Nat
    OBVIOUS
  <2>3. y \in HeaderSet(H)
    BY <1>2, <1>3, <2>1, <2>2 DEF HeaderSet
  <2> QED
    BY <1>4, <1>6, <2>1, <2>3
<1>7. CASE version # "R2000"
  <2>1. y = [first |-> Shared(NoRef), last |-> Shared(NoRef),
             entities |-> x.entities, iterator |-> 0]
    BY <1>7 DEF ReadHeader, EmptyHeader, None
  <2>2. y \in HeaderSet(H)
    BY <1>1, <1>3, <1>5, <2>1 DEF HeaderSet
  <2> QED
    BY <1>4, <1>7, <2>1, <2>2
<1> QED
  BY <1>6, <1>7

FileIs(F, K) ==
  /\ IsDrawing(F) /\ HandlesOf(F) = HandlesOf(object) /\ Len(F) = Len(object)
  /\ ~ Unsorted(F)
  /\ K \in [Blocks -> HeaderSet(HandlesOf(object))]
  /\ \A b \in Blocks :
       /\ OwnedOnce(F, b)
       /\ version = "R2000" =>
            /\ Ends(K[b], owned[b]) /\ Chained(F, owned[b]) /\ Saved(F, owned[b])
            /\ K[b].entities = <<>>
       /\ version = "R2004" =>
            /\ K[b].entities = header[b].entities
            /\ K[b].first.to = NoRef /\ K[b].last.to = NoRef
  /\ version = "R2004" => \A o \in DOMAIN F : F[o].prev = NoRef

(* What dwg_read_file reads has the chains, or the vectors. *)
LEMMA FileFacts ==
  ASSUME IInv, opts # "import", ~ (version = "R2000" /\ Extended /\ Unsorted(object))
  PROVE  FileIs(FileObjects, FileHeaders)
<1>1. PICK W, K, F, G : /\ W = Written /\ K = WrittenHeaders
                        /\ F = FileObjects /\ G = FileHeaders
  OBVIOUS
<1>2. WrittenIs(W, K)
  BY <1>1, WrittenFacts
<1>3. /\ IsDrawing(W) /\ HandlesOf(W) = HandlesOf(object) /\ Len(W) = Len(object)
      /\ DOMAIN W = DOMAIN object
  BY <1>2 DEF WrittenIs
<1>4. F = FileOf(W)
  BY <1>1, <1>3 DEF FileObjects, FileOf, Written, Objects
<1>5. version \in Versions
  BY DEF IInv, Types
<1>6. FiledDrawing(W, F)
  BY <1>3, <1>4, <1>5, FiledObjects
<1>7. /\ IsDrawing(F) /\ HandlesOf(F) = HandlesOf(object) /\ Len(F) = Len(object)
      /\ ~ Unsorted(F)
  BY <1>3, <1>6 DEF FiledDrawing
<1>8. ASSUME NEW b \in Blocks, version = "R2000"
      PROVE  Chained(F, owned[b]) /\ Saved(F, owned[b])
  <2>1. owned[b] \in Seq(HandlesOf(W))
    BY <1>3 DEF IInv, Types
  <2>2. Chained(W, owned[b]) /\ Saved(W, owned[b])
    BY <1>2, <1>8 DEF WrittenIs
  <2> QED
    BY <1>3, <1>4, <1>8, <2>1, <2>2, FiledChain
<1>9. ASSUME NEW b \in Blocks
      PROVE  /\ G[b] \in HeaderSet(HandlesOf(object))
             /\ version = "R2000" => /\ G[b].entities = <<>> /\ Ends(G[b], owned[b])
             /\ version = "R2004" => /\ G[b].entities = header[b].entities
                                     /\ G[b].first.to = NoRef /\ G[b].last.to = NoRef
  <2>1. PICK H, x, y : H = HandlesOf(object) /\ x = K[b] /\ y = G[b]
    OBVIOUS
  <2>2. y = ReadHeader(x)
    BY <1>1, <2>1 DEF FileHeaders, WrittenHeaders
  <2>3. x \in HeaderSet(H) /\ x.entities = header[b].entities
    BY <1>2, <2>1 DEF WrittenIs
  <2>4. /\ y \in HeaderSet(H)
        /\ version = "R2000" => /\ y.entities = <<>> /\ y.first.to = InFile(x.first.to)
                                /\ y.last.to = InFile(x.last.to)
        /\ version = "R2004" => /\ y.entities = x.entities
                                /\ y.first.to = NoRef /\ y.last.to = NoRef
    BY <1>5, <2>2, <2>3, ReadHeaderFacts
  <2>5. version = "R2000" => Ends(y, owned[b])
    <3> SUFFICES ASSUME version = "R2000" PROVE Ends(y, owned[b])
      OBVIOUS
    <3>1. Ends(x, owned[b])
      BY <1>2, <2>1 DEF WrittenIs
    <3>2. y.first.to = InFile(x.first.to) /\ y.last.to = InFile(x.last.to)
      BY <2>4
    <3>3. CASE owned[b] = <<>>
      BY <3>1, <3>2, <3>3 DEF Ends, InFile, Exists
    <3>4. CASE owned[b] # <<>>
      <4>1. x.first.to = owned[b][1] /\ x.last.to = owned[b][Len(owned[b])]
        BY <3>1, <3>4 DEF Ends
      <4>2. x.first.to # NoRef /\ x.last.to # NoRef
        <5>1. Types
          BY DEF IInv
        <5>2. 1 \in DOMAIN owned[b] /\ Len(owned[b]) \in DOMAIN owned[b]
          BY <3>4, <5>1, OwnedList
        <5>3. x.first.to \in HandlesOf(object) /\ x.last.to \in HandlesOf(object)
          BY <4>1, <5>1, <5>2, OwnedList
        <5>4. HandlesOf(object) \subseteq Nat \ {0}
          BY <5>1, DrawingFacts DEF Types
        <5> QED
          BY <5>3, <5>4 DEF NoRef
      <4> QED
        BY <3>2, <3>4, <4>1, <4>2 DEF Ends, InFile
    <3> QED
      BY <3>3, <3>4
  <2> QED
    BY <2>1, <2>3, <2>4, <2>5
<1>10. G \in [Blocks -> HeaderSet(HandlesOf(object))]
  <2>1. G = [b \in Blocks |-> G[b]]
    BY <1>1 DEF FileHeaders
  <2> QED
    BY <1>9, <2>1
<1>11. ASSUME version = "R2004", NEW o \in DOMAIN F PROVE F[o].prev = NoRef
  <2>1. PICK p \in DOMAIN W : F[o] = ReadObject(W[p])
    BY <1>6 DEF FiledDrawing
  <2>2. PICK x, y : x = W[p] /\ y = F[o]
    OBVIOUS
  <2>3. x \in ObjectSet(HandlesOf(W)) /\ y = ReadObject(x)
    BY <1>3, <2>1, <2>2, DrawingFacts
  <2>4. y.prev = NoRef
    BY <1>5, <1>11, <2>3, ReadObjectFacts
  <2> QED
    BY <2>2, <2>4
<1>12. \A b \in Blocks : OwnedOnce(F, b)
  BY <1>2, <1>6, OnceFiled DEF WrittenIs
<1> QED
  BY <1>1, <1>7, <1>8, <1>9, <1>10, <1>11, <1>12 DEF FileIs

-----------------------------------------------------------------------------
(* The properties follow from the invariant. *)

(* dwg_next_entity follows the chain. *)
LEMMA NextOfChain ==
  ASSUME NEW objs, IsDrawing(objs), NEW i \in DOMAIN objs, NEW k \in DOMAIN objs,
         i # k, objs[k].kind = "ENTITY", Linked(objs, i, k)
  PROVE  NextEntity(objs, i) = k
<1>1. /\ Numbered(objs) /\ Len(objs) \in Nat \ {0} /\ DOMAIN objs = 1 .. Len(objs)
  BY DrawingFacts
<1>2. CASE Exists(objs[i].next)
  <2>1. objs[i].next = objs[k].handle
    BY <1>2 DEF Linked
  <2>2. IndexIn(objs, objs[i].next) = k
    BY <1>1, <2>1, AtHandle
  <2> QED
    BY <1>2, <2>2 DEF NextEntity
<1>3. CASE ~ Exists(objs[i].next)
  <2>1. k = i + 1
    BY <1>3 DEF Linked
  <2>2. PICK B : B = {j \in i + 1 .. Len(objs) : IsEntity(objs[j])}
    OBVIOUS
  <2>3. k \in B /\ B \subseteq Nat /\ B # {}
    BY <1>1, <2>1, <2>2 DEF IsEntity
  <2>4. Min(B) \in B /\ Min(B) <= k
    BY <2>3, LeastExists
  <2>5. Min(B) = k
    BY <1>1, <2>1, <2>2, <2>4
  <2>6. NextEntity(objs, i) = IF B = {} THEN 0 ELSE Min(B)
    BY <1>3, <2>2 DEF NextEntity
  <2> QED
    BY <2>3, <2>5, <2>6
<1> QED
  BY <1>2, <1>3

(* The object of the j-th entity of a block. *)
LEMMA OwnedObject ==
  ASSUME NEW objs, IsDrawing(objs), NEW b, OwnedOnce(objs, b), NEW j \in DOMAIN owned[b]
  PROVE  /\ IndexIn(objs, owned[b][j]) \in DOMAIN objs
         /\ IndexIn(objs, owned[b][j]) # 0
         /\ objs[IndexIn(objs, owned[b][j])].handle = owned[b][j]
         /\ objs[IndexIn(objs, owned[b][j])].kind = "ENTITY"
         /\ objs[IndexIn(objs, owned[b][j])].block = b
<1>1. PICK o \in DOMAIN objs : /\ objs[o].handle = owned[b][j]
                               /\ objs[o].kind = "ENTITY" /\ objs[o].block = b
  BY DEF OwnedOnce
<1>2. Numbered(objs) /\ DOMAIN objs = 1 .. Len(objs) /\ Len(objs) \in Nat
  BY DrawingFacts
<1>3. IndexIn(objs, owned[b][j]) = o
  BY <1>1, <1>2, AtHandle
<1>4. o # 0
  BY <1>2
<1> QED
  BY <1>1, <1>3, <1>4

(* dwg_next_entity leads from an entity of a block to the next one. *)
LEMMA NextOwned ==
  ASSUME NEW objs, IsDrawing(objs), NEW b, OwnedOnce(objs, b), Chained(objs, owned[b]),
         Len(owned[b]) \in Nat, DOMAIN owned[b] = 1 .. Len(owned[b]),
         NEW j \in 1 .. Len(owned[b]) - 1
  PROVE  NextEntity(objs, IndexIn(objs, owned[b][j])) = IndexIn(objs, owned[b][j + 1])
<1>1. j \in DOMAIN owned[b] /\ j + 1 \in DOMAIN owned[b] /\ j # j + 1
  OBVIOUS
<1>2. PICK i, k : i = IndexIn(objs, owned[b][j]) /\ k = IndexIn(objs, owned[b][j + 1])
  OBVIOUS
<1>3. /\ i \in DOMAIN objs /\ objs[i].handle = owned[b][j]
      /\ k \in DOMAIN objs /\ objs[k].handle = owned[b][j + 1] /\ objs[k].kind = "ENTITY"
  BY <1>1, <1>2, OwnedObject
<1>4. Linked(objs, i, k)
  BY <1>3 DEF Chained
<1>5. i # k
  BY <1>1, <1>3 DEF OwnedOnce
<1> QED
  BY <1>2, <1>3, <1>4, <1>5, NextOfChain

(* A chain that holds by links and neighbours is a chain of the file. *)
LEMMA ChainHolds ==
  ASSUME NEW objs, IsDrawing(objs), NEW b, OwnedOnce(objs, b), Chained(objs, owned[b]),
         owned[b] \in Seq(HandlesOf(objs)), NEW h, Ends(h, owned[b])
  PROVE  IsChain(objs, h, owned[b])
<1>1. PICK s, H : s = owned[b] /\ H = HandlesOf(objs)
  OBVIOUS
<1>2. s \in Seq(H)
  BY <1>1
<1>3. Len(s) \in Nat /\ DOMAIN s = 1 .. Len(s) /\ Last(s) = s[Len(s)]
  BY <1>2 DEF Last
<1>4. CASE s = <<>>
  BY <1>1, <1>4 DEF Ends, IsChain
<1>5. CASE s # <<>>
  <2>1. 1 \in DOMAIN s /\ Len(s) \in DOMAIN s
    BY <1>2, <1>3, <1>5
  <2>2. h.first.to = s[1] /\ h.last.to = s[Len(s)]
    BY <1>1, <1>5 DEF Ends
  <2>3. IndexIn(objs, s[1]) # 0
    BY <1>1, <2>1, OwnedObject
  <2>4. ASSUME NEW k \in 1 .. Len(s) - 1
        PROVE  /\ s[k] # h.last.to
               /\ IndexIn(objs, s[k + 1]) = NextEntity(objs, IndexIn(objs, s[k]))
               /\ IndexIn(objs, s[k + 1]) # 0
    <3>1. k \in DOMAIN s /\ k + 1 \in DOMAIN s /\ k # Len(s)
      <4>1. PICK m \in Nat : m = Len(s)
        BY <1>3
      <4>2. k \in 1 .. m /\ k + 1 \in 1 .. m /\ k # m
        BY <4>1
      <4> QED
        BY <1>3, <4>1, <4>2
    <3>2. s[k] # s[Len(s)]
      BY <1>1, <2>1, <3>1 DEF OwnedOnce
    <3>3. IndexIn(objs, s[k + 1]) # 0
      BY <1>1, <3>1, OwnedObject
    <3>4. NextEntity(objs, IndexIn(objs, s[k])) = IndexIn(objs, s[k + 1])
      BY <1>1, <1>3, NextOwned
    <3> QED
      BY <2>2, <3>2, <3>3, <3>4
  <2> QED
    BY <1>1, <1>3, <1>5, <2>2, <2>3, <2>4 DEF IsChain
<1> QED
  BY <1>4, <1>5

(* The first property: a file of R2000 has the chains of the blocks.       *)
LEMMA SavedFromInv ==
  ASSUME IInv
  PROVE  SavedChainListsOwned
<1> SUFFICES ASSUME version = "R2000", opts # "import", ~ ExtendedUnsorted,
                    ~ misordered, NEW b \in Blocks
             PROVE  IsChain(FileObjects, FileHeaders[b], owned[b])
  BY DEF SavedChainListsOwned
<1>1. ~ (Extended /\ Unsorted(object))
  BY DEF ExtendedUnsorted, Extended, Unsorted, Objects
<1>2. FileIs(FileObjects, FileHeaders)
  BY <1>1, FileFacts
<1>3. PICK F, h : F = FileObjects /\ h = FileHeaders[b]
  OBVIOUS
<1>4. /\ IsDrawing(F) /\ OwnedOnce(F, b) /\ Chained(F, owned[b]) /\ Ends(h, owned[b])
      /\ HandlesOf(F) = HandlesOf(object)
  BY <1>2, <1>3 DEF FileIs
<1>5. owned[b] \in Seq(HandlesOf(F))
  BY <1>4 DEF IInv, Types
<1>6. IsChain(F, h, owned[b])
  BY <1>4, <1>5, ChainHolds
<1> QED
  BY <1>3, <1>6

(* The second: an iteration that ends has listed the block. *)
LEMMA SettledFromInv ==
  ASSUME IInv
  PROVE  SettledIterationListsOwned
<1> SUFFICES ASSUME Done, reader.settled, ~ misordered
             PROVE  reader.seen = owned[reader.block]
  BY DEF SettledIterationListsOwned
<1>1. PICK b, k, s, t : /\ b = reader.block /\ s = reader.seen /\ k = Len(s)
                        /\ t = owned[b]
  OBVIOUS
<1>2. k <= Len(t) /\ (\A j \in 1 .. k : s[j] = t[j]) /\ k = Len(t)
  <2>1. reader.fn # "none" /\ reader.at = 0
    BY DEF Done
  <2> QED
    BY <1>1, <2>1 DEF IInv, ReaderInv
<1>3. PICK H : H = HandlesOf(object)
  OBVIOUS
<1>4. s \in Seq(H) /\ t \in Seq(H)
  BY <1>1, <1>3 DEF IInv, Types, ReaderSet
<1>5. s = t
  <2>1. s = [j \in 1 .. k |-> s[j]] /\ t = [j \in 1 .. k |-> t[j]]
    BY <1>1, <1>2, <1>4, AsFunction
  <2>2. [j \in 1 .. k |-> s[j]] = [j \in 1 .. k |-> t[j]]
    BY <1>2
  <2> QED
    BY <2>1, <2>2
<1> QED
  BY <1>1, <1>5

(* The types. *)
LEMMA TypesFromInv ==
  ASSUME Types, misordered \in BOOLEAN
  PROVE  TypeOK
<1>1. PICK n, H : n = Len(object) /\ H = HandlesOf(object)
  OBVIOUS
<1>2. /\ Types /\ IsDrawing(object)
  BY DEF Types
<1>3. /\ Numbered(object) /\ n \in Nat \ {0} /\ DOMAIN object = 1 .. n
      /\ \A o \in 1 .. n : object[o] \in ObjectSet(H) /\ object[o].handle \in H
  BY <1>1, <1>2, DrawingFacts
<1>4. H \subseteq Handles
  <2>1. H \subseteq 1 .. 2 * MaxObjects + n /\ n <= MaxObjects
    BY <1>1, <1>2 DEF IsDrawing
  <2>2. 2 * MaxObjects + n <= 3 * MaxObjects
    BY <1>3, <2>1, BoundsType
  <2> QED
    BY <1>3, <2>1, <2>2, BoundsType DEF Handles
<1>5. \A q \in H : Index(q) # 0 /\ Index(q) \in 1 .. n
  <2> TAKE q \in H
  <2>1. Index(q) \in 1 .. n
    BY <1>1, <1>3, OfHandle DEF Index
  <2> QED
    BY <2>1
<1>6. \A o, p \in Objects : object[o].handle = object[p].handle => o = p
  BY <1>2 DEF IsDrawing, Objects
<1>7. \A o \in Objects :
        /\ object[o].kind \in Kinds /\ object[o].block \in Blocks
        /\ object[o].handle \in Handles /\ object[o].entmode \in 0 .. 3
        /\ \A ref \in {object[o].prev, object[o].next} :
             ref \in {NoRef, NullRef} \/ Index(ref) # 0
        /\ {object[o].nolinks, object[o].ownerhandle} \subseteq BOOLEAN
  <2> TAKE o \in Objects
  <2>1. PICK x : x = object[o] /\ x \in ObjectSet(H)
    BY <1>3 DEF Objects
  <2>2. /\ x.kind \in Kinds /\ x.block \in Blocks /\ x.ownerhandle \in BOOLEAN
        /\ x.handle \in H /\ x.entmode \in 0 .. 3
        /\ x.prev \in H \cup Nulls /\ x.next \in H \cup Nulls
        /\ x.nolinks \in BOOLEAN
    BY <2>1, ObjectFields
  <2>3. \A ref \in {x.prev, x.next} : ref \in {NoRef, NullRef} \/ Index(ref) # 0
    BY <1>5, <2>2 DEF Nulls
  <2> QED
    BY <1>4, <2>1, <2>2, <2>3
<1>8. RefSet(H) \subseteq Refs
  BY <1>4 DEF RefSet, Refs, Nulls
<1>9. \A b \in Blocks :
        /\ {header[b].first, header[b].last} \subseteq Refs
        /\ header[b].entities \in Seq(Handles) /\ header[b].iterator \in Nat
  <2> TAKE b \in Blocks
  <2>1. /\ header[b].first \in RefSet(H) /\ header[b].last \in RefSet(H)
        /\ header[b].entities \in Seq(H) /\ header[b].iterator \in Nat
    BY <1>1, <1>2, BlockHeader
  <2> QED
    BY <1>4, <1>8, <2>1
<1>10. resolved \subseteq Refs /\ \A r \in resolved : Exists(r.to) => Index(r.to) # 0
  <2>1. resolved \subseteq RefSet(H)
    BY <1>1, <1>2 DEF Types
  <2>2. \A r \in resolved : r.to \in H \cup Nulls
    BY <2>1 DEF RefSet
  <2> QED
    BY <1>5, <1>8, <2>1, <2>2 DEF Exists, Nulls
<1>11. reader.at \in 0 .. Len(object) /\ reader.seen \in Seq(Handles)
  <2>1. reader.at \in 0 .. Len(object) /\ reader.seen \in Seq(H)
    BY <1>1, <1>2 DEF Types, ReaderSet
  <2> QED
    BY <1>4, <2>1
<1> QED
  BY <1>6, <1>7, <1>9, <1>10, <1>11 DEF TypeOK

-----------------------------------------------------------------------------
(* The block headers with the new entity. *)

NewHeaders(b, kind) == [header EXCEPT ![b] = PlacedHeader(b, kind)]

(* Another handle in use makes no header wrong. *)
LEMMA WiderHeader ==
  ASSUME NEW H, NEW G, H \subseteq G, NEW x \in HeaderSet(H)
  PROVE  x \in HeaderSet(G)
BY DEF HeaderSet, RefSet

(* The objects with the new one are a drawing. *)
LEMMA PlacedTypes ==
  ASSUME Types, NEW b \in Blocks, NEW kind, NEW n, NEW h, NEW H, NEW P,
         n = Len(object), n < MaxObjects, h = NextHandle,
         H = HandlesOf(object) \cup {h}, PlacedFacts(P, b, kind, H, n, h)
  PROVE  IsDrawing(P) /\ HandlesOf(P) = H
<1>1. PlacedDrawing(P, kind, n, h)
  BY PlacedHandles
<1>2. /\ n \in Nat \ {0} /\ DOMAIN P = 1 .. n + 1 /\ Len(P) = n + 1
      /\ \A o \in 1 .. n : P[o].handle = object[o].handle /\ P[o].handle # h
      /\ P[n + 1].handle = h /\ HandlesOf(P) = H
      /\ \A o \in DOMAIN P : o \in 1 .. n \/ (o = n + 1 /\ P[o].handle = h)
  BY <1>1 DEF PlacedDrawing, PlacedFacts
<1>3. P \in Seq(ObjectSet(H)) /\ P # <<>>
  <2>1. P \in [1 .. n + 1 -> ObjectSet(H)] /\ n + 1 \in Nat
    <3>1. P \in [1 .. n + 1 -> ObjectSet(H)]
      BY DEF PlacedFacts
    <3>2. n + 1 \in Nat
      BY <1>2
    <3> QED
      BY <3>1, <3>2
  <2>2. P \in Seq(ObjectSet(H))
    BY <2>1, AsSequence
  <2>3. Len(P) # 0
    BY <1>2
  <2> QED
    BY <2>2, <2>3
<1>4. \A o, p \in DOMAIN P : P[o].handle = P[p].handle => o = p
  <2>1. \A o, p \in 1 .. n : object[o].handle = object[p].handle => o = p
    BY DrawingFacts DEF Types, IsDrawing
  <2> QED
    BY <1>2, <2>1
<1>5. n + 1 <= MaxObjects
  BY <1>2, BoundsType
<1>6. H \subseteq 1 .. 2 * MaxObjects + Len(P)
  <2>1. PICK m \in Nat : m = 2 * MaxObjects
    BY BoundsType
  <2>2. HandlesOf(object) \subseteq 1 .. m + n
    BY <2>1 DEF Types, IsDrawing
  <2>3. h \in Nat \ {0} /\ h <= m + n + 1
    BY <2>1, NewHandle DEF Types
  <2>4. 1 .. m + n \subseteq 1 .. m + (n + 1) /\ h \in 1 .. m + (n + 1)
    BY <1>2, <2>1, <2>3
  <2> QED
    BY <1>2, <2>1, <2>2, <2>4
<1> QED
  BY <1>2, <1>3, <1>4, <1>5, <1>6 DEF IsDrawing

HeadersAre(K, b, kind, h, H) ==
  /\ K \in [Blocks -> HeaderSet(H)]
  /\ \A c \in Blocks :
       /\ K[c].entities = IF kind = "ENTITY" /\ c = b
                            THEN Append(header[c].entities, h) ELSE header[c].entities
       /\ K[c].iterator = header[c].iterator
       /\ c # b \/ kind # "ENTITY" => K[c] = header[c]
  /\ PlacedHeaderIs(K[b], b, kind, h)

(* Only the header of the block of the new entity changes. *)
LEMMA PlacedHeaders ==
  ASSUME Types, NEW b \in Blocks, NEW kind, NEW h, NEW H, NEW K,
         H = HandlesOf(object) \cup {h}, K = NewHeaders(b, kind),
         PlacedHeaderIs(PlacedHeader(b, kind), b, kind, h)
  PROVE  HeadersAre(K, b, kind, h, H)
<1>1. PICK y : y = PlacedHeader(b, kind)
  OBVIOUS
<1>2. header \in [Blocks -> HeaderSet(HandlesOf(object))]
  BY DEF Types
<1>3. /\ K = [header EXCEPT ![b] = y] /\ DOMAIN header = Blocks
      /\ K[b] = y /\ \A c \in Blocks : c # b => K[c] = header[c]
  BY <1>1, <1>2 DEF NewHeaders
<1>4. PlacedHeaderIs(y, b, kind, h)
  BY <1>1
<1>5. \A c \in Blocks : header[c] \in HeaderSet(H)
  <2>1. HandlesOf(object) \subseteq H
    OBVIOUS
  <2> QED
    BY <1>2, <2>1, WiderHeader
<1>6. y \in HeaderSet(H)
  <2>1. CASE kind # "ENTITY"
    BY <1>4, <1>5, <2>1 DEF PlacedHeaderIs
  <2>2. CASE kind = "ENTITY"
    <3>1. Shared(h) \in RefSet(H)
      BY DEF Shared, RefSet
    <3>2. PICK x : x = header[b] /\ x \in HeaderSet(H)
      BY <1>5
    <3>3. x.first \in RefSet(H) /\ x.entities \in Seq(H) /\ x.iterator \in Nat /\ h \in H
      BY <3>2 DEF HeaderSet
    <3>4. Append(x.entities, h) \in Seq(H)
      BY <3>3
    <3>5. /\ y.first \in RefSet(H) /\ y.last \in RefSet(H) /\ y.entities \in Seq(H)
          /\ y.iterator \in Nat
          /\ y = [first |-> y.first, last |-> y.last, entities |-> y.entities,
                  iterator |-> y.iterator]
      BY <1>4, <2>2, <3>1, <3>2, <3>3, <3>4 DEF PlacedHeaderIs
    <3> QED
      BY ONLY <3>5 DEF HeaderSet
  <2> QED
    BY <2>1, <2>2
<1>7. K \in [Blocks -> HeaderSet(H)]
  BY <1>2, <1>3, <1>5, <1>6
<1>8. y.iterator = header[b].iterator
  BY <1>4 DEF PlacedHeaderIs
<1>9. y.entities = IF kind = "ENTITY" THEN Append(header[b].entities, h) ELSE header[b].entities
  BY <1>4 DEF PlacedHeaderIs
<1>10. kind # "ENTITY" => y = header[b]
  BY <1>4 DEF PlacedHeaderIs
<1> QED
  BY <1>3, <1>4, <1>7, <1>8, <1>9, <1>10 DEF HeadersAre

(* A handle in use is no null reference. *)
LEMMA HandlesExist ==
  ASSUME NEW objs, IsDrawing(objs), NEW h \in HandlesOf(objs)
  PROVE  Exists(h)
<1>1. h \in Nat \ {0}
  BY DrawingFacts
<1> QED
  BY <1>1 DEF Exists, NoRef, NullRef

(* The new entity is owned once. *)
LEMMA AddedOnce ==
  ASSUME Types, \A c \in Blocks : OwnedOnce(object, c), NEW b \in Blocks, NEW kind,
         NEW n, NEW h, NEW H, NEW P, NEW c \in Blocks,
         n = Len(object), h = NextHandle, PlacedFacts(P, b, kind, H, n, h),
         owned'[c] = Longer(b, kind, h, c)
  PROVE  (\A j, k \in DOMAIN owned'[c] : owned'[c][j] = owned'[c][k] => j = k)
         /\ \A j \in DOMAIN owned'[c] :
              \E o \in DOMAIN P : /\ P[o].handle = owned'[c][j]
                                  /\ P[o].kind = "ENTITY" /\ P[o].block = c
<1>1. PICK list : list = owned'[c]
  OBVIOUS
<1>2. PlacedDrawing(P, kind, n, h)
  BY PlacedHandles
<1>3. ~ (h \in HandlesOf(object))
  <2>1. \A q \in HandlesOf(object) : q \in Nat /\ q < h
    BY <1>2 DEF PlacedDrawing
  <2> QED
    BY <2>1
<1>4. LongerFacts(b, kind, h, c, list)
  BY <1>1, <1>3, LongerList
<1>5. DOMAIN list = 1 .. Len(list)
  <2>1. CASE kind = "ENTITY" /\ c = b
    <3>1. owned[c] \in Seq(HandlesOf(object))
      BY DEF Types
    <3>2. list = Append(owned[c], h)
      BY <1>1, <2>1 DEF Longer
    <3> QED
      BY <3>1, <3>2
  <2>2. CASE ~ (kind = "ENTITY" /\ c = b)
    BY <1>1, <2>2, OwnedList DEF Longer
  <2> QED
    BY <2>1, <2>2
<1>6. OwnedOnce(object, c)
  OBVIOUS
<1>7. \A j \in 1 .. Len(list) : j \in DOMAIN owned[c] \/ (j = Len(list) /\ list[j] = h)
  BY <1>4 DEF LongerFacts
<1>8. \A j \in DOMAIN owned[c] : list[j] = owned[c][j] /\ list[j] # h
  BY <1>4 DEF LongerFacts
<1>9. \A j, k \in DOMAIN list : list[j] = list[k] => j = k
  <2> SUFFICES ASSUME NEW j \in DOMAIN list, NEW k \in DOMAIN list, list[j] = list[k]
               PROVE  j = k
    OBVIOUS
  <2>1. /\ j \in DOMAIN owned[c] \/ (j = Len(list) /\ list[j] = h)
        /\ k \in DOMAIN owned[c] \/ (k = Len(list) /\ list[k] = h)
    BY <1>5, <1>7
  <2>2. CASE j \in DOMAIN owned[c]
    <3>1. list[k] # h /\ k \in DOMAIN owned[c]
      BY <1>8, <2>1, <2>2
    <3>2. owned[c][j] = owned[c][k]
      BY <1>8, <2>2, <3>1
    <3> QED
      BY <1>6, <2>2, <3>1, <3>2 DEF OwnedOnce
  <2>3. CASE ~ (j \in DOMAIN owned[c])
    <3>1. j = Len(list) /\ list[k] = h
      BY <2>1, <2>3
    <3>2. k = Len(list)
      BY <1>8, <2>1, <3>1
    <3> QED
      BY <3>1, <3>2
  <2> QED
    BY <2>2, <2>3
<1>10. \A j \in DOMAIN list :
         \E o \in DOMAIN P : /\ P[o].handle = list[j]
                             /\ P[o].kind = "ENTITY" /\ P[o].block = c
  <2> TAKE j \in DOMAIN list
  <2>1. CASE j \in DOMAIN owned[c]
    <3>1. PICK o \in DOMAIN object : /\ object[o].handle = owned[c][j]
                                     /\ object[o].kind = "ENTITY" /\ object[o].block = c
      BY <1>6, <2>1 DEF OwnedOnce
    <3>2. o \in 1 .. n /\ o \in DOMAIN P
      BY <1>2, <3>1 DEF PlacedDrawing
    <3>3. P[o].handle = list[j] /\ P[o].kind = "ENTITY" /\ P[o].block = c
      BY <1>2, <1>8, <2>1, <3>1, <3>2 DEF PlacedDrawing
    <3> QED
      BY <3>2, <3>3
  <2>2. CASE ~ (j \in DOMAIN owned[c])
    <3>1. list[j] = h
      BY <1>5, <1>7, <2>2
    <3>2. kind = "ENTITY" /\ c = b
      BY <1>1, <2>2 DEF Longer
    <3>3. n + 1 \in DOMAIN P
      BY <1>2 DEF PlacedDrawing
    <3>4. P[n + 1].handle = h /\ P[n + 1].kind = kind /\ P[n + 1].block = b
      BY DEF PlacedFacts
    <3> QED
      BY <3>1, <3>2, <3>3, <3>4
  <2> QED
    BY <2>1, <2>2
<1> QED
  BY <1>1, <1>9, <1>10

(* dwg_insert_entity takes an entity for the first one only in a block     *)
(* that owns none.                                                         *)
LEMMA EmptyVectors ==
  ASSUME Types, Vectors, NEW b \in Blocks, IsFirst(header[b]),
         \/ Ends(header[b], owned[b])
         \/ header[b].entities = owned[b]
  PROVE  owned[b] = <<>>
<1>1. ~ Exists(header[b].first.to) /\ header[b].entities = <<>>
  BY DEF IsFirst
<1>2. ASSUME owned[b] # <<>>, Ends(header[b], owned[b]) PROVE FALSE
  <2>1. header[b].first.to = owned[b][1]
    BY <1>2 DEF Ends
  <2>2. owned[b][1] \in HandlesOf(object)
    <3>1. 1 \in DOMAIN owned[b]
      BY <1>2, OwnedList
    <3> QED
      BY <3>1, OwnedList
  <2>3. Exists(owned[b][1])
    BY <2>2, HandlesExist DEF Types
  <2> QED
    BY <1>1, <2>1, <2>3
<1> QED
  BY <1>1, <1>2

(* The ends of every block are those of its longer list. *)
LEMMA AddedEnds ==
  ASSUME IInv, version = "R2000", opts # "import", NEW b \in Blocks, NEW kind,
         NEW n, NEW h, NEW H, NEW K, NEW c \in Blocks,
         n = Len(object), h = NextHandle, ~ (h \in HandlesOf(object)),
         HeadersAre(K, b, kind, h, H)
  PROVE  Ends(K[c], Longer(b, kind, h, c))
<1>1. Types /\ Vectors /\ Ends(header[c], owned[c])
  BY DEF IInv, ChainInv
<1>2. CASE ~ (kind = "ENTITY" /\ c = b)
  BY <1>1, <1>2 DEF HeadersAre, Longer
<1>3. CASE kind = "ENTITY" /\ c = b
  <2>1. PICK list : list = Longer(b, kind, h, c)
    OBVIOUS
  <2>2. LongerFacts(b, kind, h, c, list)
    BY <1>1, <2>1, LongerList
  <2>3. list # <<>> /\ list[Len(list)] = h /\ Len(list) = Len(owned[c]) + 1
    BY <1>3, <2>2 DEF LongerFacts
  <2>4. /\ K[c].last = Shared(h)
        /\ K[b].first = IF \/ IsFirst(header[b])
                           \/ LastOf(b, kind) = 0 /\ ~ Exists(header[b].first.to)
                          THEN Shared(h) ELSE header[b].first
    BY <1>3 DEF HeadersAre, PlacedHeaderIs
  <2>5. K[c].first.to = list[1]
    <3>1. CASE owned[c] = <<>>
      <4>1. ~ Exists(header[b].first.to) /\ header[b].entities = <<>>
        BY <1>1, <1>3, <3>1 DEF Ends, Vectors
      <4>2. K[c].first = Shared(h)
        BY <1>3, <2>4, <4>1 DEF IsFirst
      <4>3. Len(list) = 1
        BY <2>3, <3>1
      <4>4. list[1] = h
        BY <2>3, <4>3
      <4>5. K[c].first.to = h
        BY <1>3, <4>2 DEF Shared
      <4> QED
        BY <4>4, <4>5
    <3>2. CASE owned[c] # <<>>
      <4>1. header[b].first.to = owned[c][1] /\ 1 \in DOMAIN owned[c]
        BY <1>1, <1>3, <3>2, OwnedList DEF Ends
      <4>2. Exists(header[b].first.to)
        <5>1. header[b].first.to \in HandlesOf(object)
          BY <1>1, <4>1, OwnedList
        <5> QED
          BY <1>1, <5>1, HandlesExist DEF Types
      <4>3. K[c].first = header[b].first
        BY <1>3, <2>4, <4>2 DEF IsFirst
      <4>4. list[1] = owned[c][1]
        BY <2>2, <4>1 DEF LongerFacts
      <4> QED
        BY <4>1, <4>3, <4>4
    <3> QED
      BY <3>1, <3>2
  <2> QED
    BY <2>1, <2>3, <2>4, <2>5 DEF Ends, Shared
<1> QED
  BY <1>2, <1>3

-----------------------------------------------------------------------------
(* The vectors with the new entity. *)

AddedVectorIs(P, K, c, list) ==
  /\ LooseEnds(K[c], list)
  /\ list # <<>> => FirstReady(P, K[c], list)

(* The vectors stay ready to be mended. *)
LEMMA AddedVector ==
  ASSUME IInv, version = "R2004", opts # "import", NEW b \in Blocks, NEW kind,
         NEW n, NEW h, NEW H, NEW K, NEW P, NEW c \in Blocks,
         n = Len(object), h = NextHandle, PlacedFacts(P, b, kind, H, n, h),
         HeadersAre(K, b, kind, h, H)
  PROVE  AddedVectorIs(P, K, c, Longer(b, kind, h, c))
<1>1. /\ Types /\ VectorInv /\ \A d \in Blocks : OwnedOnce(object, d)
      /\ IsDrawing(object) /\ \A d \in Blocks : header[d].entities = owned[d]
  BY DEF IInv, Types, Vectors
<1>2. PlacedDrawing(P, kind, n, h)
  BY <1>1, PlacedHandles
<1>3. PICK list, l : list = Longer(b, kind, h, c) /\ l = LastOf(b, kind)
  OBVIOUS
<1>4. ~ (h \in HandlesOf(object)) /\ Exists(h)
  <2>1. \A q \in HandlesOf(object) : q \in Nat /\ q < h
    BY <1>2 DEF PlacedDrawing
  <2>2. h \in Nat \ {0}
    BY <1>1, NewHandle
  <2> QED
    BY <2>1, <2>2 DEF Exists, NoRef, NullRef
<1>5. LongerFacts(b, kind, h, c, list)
  BY <1>1, <1>3, <1>4, LongerList
<1>6. \A d \in Blocks : LooseEnds(header[d], owned[d])
  BY <1>1 DEF VectorInv
<1>7. owned[c] # <<>> => FirstReady(object, header[c], owned[c])
  BY <1>1 DEF VectorInv
<1>8. kind = "ENTITY" /\ c = b =>
        K[c].last.to = h /\ list # <<>> /\ list[Len(list)] = h /\ Len(list) = Len(owned[c]) + 1
  BY <1>5 DEF HeadersAre, PlacedHeaderIs, Shared, LongerFacts
<1>9. ~ (kind = "ENTITY" /\ c = b) => K[c] = header[c] /\ list = owned[c]
  BY <1>5 DEF HeadersAre, LongerFacts
<1>10. LooseEnds(K[c], list)
  BY <1>6, <1>8, <1>9 DEF LooseEnds
<1>11. l \in 0 .. n
  BY <1>1, <1>3, LastOfFacts
<1>12. l # 0 => /\ kind = "ENTITY" /\ owned[b] # <<>>
                /\ header[b].last.to = owned[b][Len(owned[b])]
                /\ object[l].handle = owned[b][Len(owned[b])]
  <2> SUFFICES ASSUME l # 0
               PROVE  /\ kind = "ENTITY" /\ owned[b] # <<>>
                      /\ header[b].last.to = owned[b][Len(owned[b])]
                      /\ object[l].handle = owned[b][Len(owned[b])]
    OBVIOUS
  <2>1. kind = "ENTITY" /\ header[b].last.to \in HandlesOf(object)
        /\ object[l].handle = header[b].last.to
    BY <1>1, <1>3, LastOfFacts
  <2>2. Exists(header[b].last.to)
    BY <1>1, <2>1, HandlesExist
  <2> QED
    BY <1>6, <2>1, <2>2 DEF LooseEnds
<1>13. ASSUME NEW o \in 1 .. n, o # l PROVE Kept(object[o], P[o])
  <2>1. ~ Mended(o)
    BY DEF Mended
  <2> QED
    BY <1>3, <1>13, <2>1 DEF PlacedFacts
<1>14. ASSUME list # <<>>, NEW i \in DOMAIN P, P[i].handle = list[1]
       PROVE  \/ P[i].prev = NoRef
              \/ /\ P[i].prev = NullRef /\ Exists(K[c].last.to)
                 /\ Len(list) > 1 => ~ P[i].nolinks
  <2>1. CASE owned[c] = <<>>
    <3>1. kind = "ENTITY" /\ c = b
      BY <1>9, <1>14, <2>1
    <3>2. Len(list) = 1 /\ list[1] = h
      <4>1. Len(owned[c]) = 0
        BY <2>1
      <4>2. Len(list) = 1 /\ list[Len(list)] = h
        BY <1>8, <3>1, <4>1
      <4> QED
        BY <4>2
    <3>3. i = n + 1
      BY <1>2, <1>14, <3>2 DEF PlacedDrawing
    <3>4. IsFirst(header[b])
      <4>1. ~ Exists(header[b].first.to)
        BY <1>6, <2>1, <3>1 DEF LooseEnds
      <4>2. header[b].entities = <<>>
        BY <1>1, <2>1, <3>1
      <4> QED
        BY <4>1, <4>2 DEF IsFirst
    <3>5. P[i].prev = NullRef
      BY <3>1, <3>3, <3>4 DEF PlacedFacts
    <3> QED
      BY <1>4, <1>8, <3>1, <3>2, <3>5
  <2>2. CASE owned[c] # <<>>
    <3>1. 1 \in DOMAIN owned[c] /\ Len(owned[c]) \in Nat /\ DOMAIN owned[c] = 1 .. Len(owned[c])
      BY <1>1, <2>2, OwnedList
    <3>2. list[1] = owned[c][1] /\ list[1] # h
      BY <1>5, <3>1 DEF LongerFacts
    <3>3. i \in 1 .. n /\ object[i].handle = owned[c][1] /\ i \in DOMAIN object
      BY <1>2, <1>14, <3>2 DEF PlacedDrawing
    <3>4. \/ object[i].prev = NoRef
          \/ /\ object[i].prev = NullRef /\ Exists(header[c].last.to)
             /\ Len(owned[c]) > 1 => ~ object[i].nolinks
      BY <1>7, <2>2, <3>3 DEF FirstReady
    <3>5. i = l => c = b /\ Len(owned[c]) = 1
      <4> SUFFICES ASSUME i = l PROVE c = b /\ Len(owned[c]) = 1
        OBVIOUS
      <4>1. l # 0
        BY <1>2, <3>3 DEF PlacedDrawing
      <4>2. c = b /\ 1 = Len(owned[b])
        <5>1. object[LastOf(b, kind)].handle = owned[c][1] /\ LastOf(b, kind) # 0
          BY <1>3, <3>3, <4>1
        <5>2. PICK j \in DOMAIN owned[c] : j = 1
          BY <3>1
        <5>3. object[LastOf(b, kind)].handle = owned[c][j]
          BY <5>1, <5>2
        <5>4. owned[b] # <<>> /\ header[b].last.to = owned[b][Len(owned[b])]
          BY <1>12, <4>1
        <5>5. c = b /\ j = Len(owned[b])
          BY ONLY <1>1, <5>1, <5>3, <5>4, j \in DOMAIN owned[c], b \in Blocks, c \in Blocks,
                  OnlyLastFollowed
        <5> QED
          BY <5>2, <5>5
      <4> QED
        BY <4>2
    <3>6. CASE ~ (kind = "ENTITY" /\ c = b)
      <4>1. i # l
        <5>1. l # 0 => kind = "ENTITY"
          BY <1>12
        <5>2. i # 0
          BY <1>2, <3>3 DEF PlacedDrawing
        <5> QED
          BY <3>5, <3>6, <5>1, <5>2
      <4>2. Kept(object[i], P[i])
        BY <1>13, <3>3, <4>1
      <4> QED
        BY <1>9, <3>4, <3>6, <4>2 DEF Kept
    <3>7. CASE kind = "ENTITY" /\ c = b /\ i # l
      <4>1. Kept(object[i], P[i])
        BY <1>13, <3>3, <3>7
      <4>2. CASE object[i].prev = NoRef
        BY <4>1, <4>2 DEF Kept
      <4>3. CASE object[i].prev # NoRef
        <5>1. Exists(header[c].last.to) /\ object[i].prev = NullRef
          BY <3>4, <4>3
        <5>2. l # 0
          <6>1. header[b].entities # <<>>
            BY <1>1, <2>2, <3>7
          <6> QED
            BY <1>1, <1>3, <3>7, <5>1, <6>1, LastOfFacts DEF IsFirst
        <5>3. Len(owned[c]) > 1
          <6>1. object[l].handle = owned[c][Len(owned[c])]
            BY <1>12, <3>7, <5>2
          <6>2. Len(owned[c]) # 1
            <7> SUFFICES ASSUME Len(owned[c]) = 1 PROVE FALSE
              OBVIOUS
            <7>1. object[l].handle = object[i].handle /\ l \in DOMAIN object
              BY <1>2, <1>11, <3>3, <5>2, <6>1 DEF PlacedDrawing
            <7> QED
              BY <1>1, <3>3, <3>7, <7>1 DEF IsDrawing
          <6>3. PICK m \in Nat : m = Len(owned[c])
            BY <3>1
          <6>4. 1 \in 1 .. m /\ m # 1
            BY <3>1, <6>2, <6>3
          <6>5. m > 1
            BY <6>4
          <6> QED
            BY <6>3, <6>5
        <5>4. ~ P[i].nolinks /\ P[i].prev = NullRef
          BY <3>4, <4>1, <4>3, <5>1, <5>3 DEF Kept
        <5> QED
          BY <1>4, <1>8, <3>7, <5>4
      <4> QED
        BY <4>2, <4>3
    <3>8. CASE kind = "ENTITY" /\ c = b /\ i = l
      <4>1. l # 0
        BY <1>2, <3>3, <3>8 DEF PlacedDrawing
      <4>2. \/ LeadsTo(object[l], P[l], h)
            \/ l = n /\ Exists(object[l].prev) /\ LeftOut(object[l], P[l])
        BY <1>3, <4>1 DEF PlacedFacts
      <4>3. ~ Exists(object[l].prev)
        BY <3>4, <3>8 DEF Exists
      <4>4. P[i].prev = object[i].prev /\ ~ P[i].nolinks
        BY <3>8, <4>2, <4>3 DEF LeadsTo
      <4> QED
        BY <1>4, <1>8, <3>4, <3>8, <4>4
    <3> QED
      BY <3>6, <3>7, <3>8
  <2> QED
    BY <2>1, <2>2
<1> QED
  BY <1>3, <1>10, <1>14 DEF AddedVectorIs, FirstReady

-----------------------------------------------------------------------------
(* An entity is added. *)

(* What dwg_add_<entity> does, in named steps. *)
LEMMA AddEntitySteps ==
  ASSUME NEW b \in Blocks, NEW kind, AddEntity(b, kind)
  PROVE  /\ opts # "import" /\ Len(object) < MaxObjects
         /\ reader.fn # "none" => reader.at # 0
         /\ IF kind = "ENDBLK" /\ NeedsFixup
              THEN /\ object' = FixedObjects(Placed(b, kind), NewHeaders(b, kind))
                   /\ header' = FixedHeaders(NewHeaders(b, kind))
              ELSE object' = Placed(b, kind) /\ header' = NewHeaders(b, kind)
         /\ resolved' \subseteq resolved \cup {header[b].last}
         /\ prev_entity_index' = Len(object) + 1
         /\ owned' = IF kind = "ENTITY"
                       THEN [owned EXCEPT ![b] = Append(@, NextHandle)] ELSE owned
         /\ reader' = Unsettled
         /\ UNCHANGED <<version, from_version, opts, reloads>>
<1>1. /\ opts # "import" /\ Len(object) < MaxObjects
      /\ reader.fn # "none" => reader.at # 0
  BY DEF AddEntity, MayAdd
<1>2. IF kind = "ENDBLK" /\ NeedsFixup
        THEN /\ object' = FixedObjects(Placed(b, kind), NewHeaders(b, kind))
             /\ header' = FixedHeaders(NewHeaders(b, kind))
        ELSE object' = Placed(b, kind) /\ header' = NewHeaders(b, kind)
  BY DEF AddEntity, Placed, NewHeaders, PlacedHeader, InsertedIn, Early, NewOne
<1>3. resolved' \in {resolved \cup {header[b].last}, StillResolved, resolved}
  BY DEF AddEntity
<1>4. resolved' \subseteq resolved \cup {header[b].last}
  BY <1>3 DEF StillResolved
<1> QED
  BY <1>1, <1>2, <1>4 DEF AddEntity

(* The lists after it. *)
LEMMA AddedLists ==
  ASSUME Types, NEW b \in Blocks, NEW kind, NEW h,
         owned' = IF kind = "ENTITY" THEN [owned EXCEPT ![b] = Append(@, h)] ELSE owned
  PROVE  /\ \A c \in Blocks : owned'[c] = Longer(b, kind, h, c)
         /\ owned' \in [Blocks -> Seq(HandlesOf(object) \cup {h})]
<1>1. PICK H : H = HandlesOf(object)
  OBVIOUS
<1>2. owned \in [Blocks -> Seq(H)] /\ DOMAIN owned = Blocks
  BY <1>1 DEF Types
<1>3. \A c \in Blocks : owned'[c] = Longer(b, kind, h, c)
  <2> TAKE c \in Blocks
  <2>1. CASE kind = "ENTITY"
    BY <1>2, <2>1 DEF Longer
  <2>2. CASE kind # "ENTITY"
    BY <2>2 DEF Longer
  <2> QED
    BY <2>1, <2>2
<1>4. owned' = [c \in Blocks |-> owned'[c]]
  BY <1>2
<1>5. \A c \in Blocks : owned'[c] \in Seq(H \cup {h})
  <2> TAKE c \in Blocks
  <2>1. owned[c] \in Seq(H \cup {h}) /\ h \in H \cup {h}
    BY <1>2
  <2>2. Append(owned[c], h) \in Seq(H \cup {h})
    BY <2>1
  <2> QED
    BY <1>3, <2>1, <2>2 DEF Longer
<1> QED
  BY <1>1, <1>3, <1>4, <1>5

(* The drawing after an entity was added, mended or not. *)
AddedDrawing(b, kind, n, h, H, D, E) ==
  /\ n \in Nat \ {0} /\ h \in Nat \ {0} /\ ~ (h \in HandlesOf(object))
  /\ IsDrawing(D) /\ HandlesOf(D) = H /\ Len(D) = n + 1 /\ DOMAIN D = 1 .. n + 1
  /\ DOMAIN object = 1 .. n
  /\ \A o \in 1 .. n : /\ D[o].handle = object[o].handle /\ D[o].kind = object[o].kind
                       /\ D[o].block = object[o].block
  /\ D[n + 1].handle = h /\ D[n + 1].kind = kind /\ D[n + 1].block = b
  /\ Unsorted(D) <=> Unsorted(object)
  /\ E \in [Blocks -> HeaderSet(H)]
  /\ \A c \in Blocks :
       /\ E[c].entities = IF kind = "ENTITY" /\ c = b
                            THEN Append(header[c].entities, h) ELSE header[c].entities
       /\ E[c].iterator = header[c].iterator

(* The drawing after it, mended or not. *)
LEMMA EntityAdded ==
  ASSUME IInv, NEW b \in Blocks, NEW kind \in {"ENTITY", "BLOCK", "ENDBLK"},
         AddEntity(b, kind), NEW n, NEW h, NEW H,
         n = Len(object), h = NextHandle, H = HandlesOf(object) \cup {h}
  PROVE  /\ AddedDrawing(b, kind, n, h, H, object', header')
         /\ \A c \in Blocks : OwnedOnce(object, c)'
         /\ version = "R2000" =>
              \A c \in Blocks : /\ Ends(header'[c], owned'[c])
                                /\ AddedChain(object', owned'[c])
         /\ version = "R2004" =>
              \A c \in Blocks : AddedVectorIs(object', header', c, owned'[c])
<1>1. Types /\ Vectors /\ \A c \in Blocks : OwnedOnce(object, c)
  BY DEF IInv
<1>2. PICK P, K : P = Placed(b, kind) /\ K = NewHeaders(b, kind)
  OBVIOUS
<1>3. /\ opts # "import" /\ n < MaxObjects
      /\ IF kind = "ENDBLK" /\ NeedsFixup
           THEN object' = FixedObjects(P, K) /\ header' = FixedHeaders(K)
           ELSE object' = P /\ header' = K
      /\ owned' = IF kind = "ENTITY" THEN [owned EXCEPT ![b] = Append(@, h)] ELSE owned
  BY <1>2, AddEntitySteps
<1>4. PlacedFacts(P, b, kind, H, n, h) /\ PlacedHeaderIs(PlacedHeader(b, kind), b, kind, h)
  BY <1>1, <1>2, PlacedOne
<1>5. IsDrawing(P) /\ HandlesOf(P) = H
  BY <1>1, <1>3, <1>4, PlacedTypes
<1>6. PlacedDrawing(P, kind, n, h)
  BY <1>1, <1>4, PlacedHandles
<1>7. HeadersAre(K, b, kind, h, H)
  BY <1>1, <1>2, <1>4, PlacedHeaders
<1>8. h \in Nat \ {0} /\ ~ (h \in HandlesOf(object))
  <2>1. h \in Nat \ {0}
    BY <1>1, NewHandle DEF Types
  <2>2. \A q \in HandlesOf(object) : q \in Nat /\ q < h
    BY <1>6 DEF PlacedDrawing
  <2> QED
    BY <2>1, <2>2
<1>9. \A c \in Blocks : owned'[c] = Longer(b, kind, h, c)
  BY <1>1, <1>3, AddedLists
<1>10. ASSUME NEW c \in Blocks
       PROVE  /\ \A j, k \in DOMAIN owned'[c] : owned'[c][j] = owned'[c][k] => j = k
              /\ \A j \in DOMAIN owned'[c] :
                   \E o \in DOMAIN P : /\ P[o].handle = owned'[c][j]
                                       /\ P[o].kind = "ENTITY" /\ P[o].block = c
  BY <1>1, <1>4, <1>9, AddedOnce
<1>11. AddedDrawing(b, kind, n, h, H, P, K)
  BY <1>4, <1>5, <1>6, <1>7, <1>8 DEF AddedDrawing, PlacedDrawing, HeadersAre, PlacedFacts
<1>12. CASE ~ (kind = "ENDBLK" /\ NeedsFixup)
  <2>1. object' = P /\ header' = K
    BY <1>3, <1>12
  <2>2. \A c \in Blocks : OwnedOnce(object, c)'
    BY <1>10, <2>1 DEF OwnedOnce
  <2>3. ASSUME version = "R2000", NEW c \in Blocks
        PROVE  Ends(header'[c], owned'[c]) /\ AddedChain(object', owned'[c])
    <3>1. Ends(K[c], Longer(b, kind, h, c))
      BY <1>3, <1>7, <1>8, <2>3, AddedEnds
    <3>2. AddedChain(P, Longer(b, kind, h, c))
      BY <1>3, <1>4, <2>3, AddedChains
    <3> QED
      BY <1>9, <2>1, <3>1, <3>2
  <2>4. ASSUME version = "R2004", NEW c \in Blocks
        PROVE  AddedVectorIs(object', header', c, owned'[c])
    <3>1. AddedVectorIs(P, K, c, Longer(b, kind, h, c))
      BY <1>3, <1>4, <1>7, <2>4, AddedVector
    <3> QED
      BY <1>9, <2>1, <3>1
  <2> QED
    BY <1>11, <2>1, <2>2, <2>3, <2>4
<1>13. CASE kind = "ENDBLK" /\ NeedsFixup
  <2>1. /\ object' = FixedObjects(P, K) /\ header' = FixedHeaders(K) /\ owned' = owned
        /\ version = "R2000" /\ (from_version = "R2004" \/ opts = "dxf")
        /\ kind # "ENTITY"
    BY <1>3, <1>13 DEF NeedsFixup
  <2>2. \A c \in Blocks : OwnedOnce(P, c)
    BY <1>10, <2>1 DEF OwnedOnce
  <2>3. \A c \in Blocks : K[c].entities = owned[c]
    <3>1. \A c \in Blocks : header[c].entities = owned[c]
      BY <1>1, <2>1 DEF Vectors
    <3> QED
      BY <1>7, <2>1, <3>1 DEF HeadersAre
  <2>4. owned \in [Blocks -> Seq(H)]
    BY <1>1, <1>3, <2>1, AddedLists
  <2>5. FixReady(P, K)
    BY <1>5, <1>7, <2>2, <2>3, <2>4 DEF FixReady, HeadersAre
  <2>6. PICK D, E : D = FixedObjects(P, K) /\ E = FixedHeaders(K)
    OBVIOUS
  <2>7. SameDrawing(P, D)
    BY <2>5, <2>6, FixedDrawing
  <2>8. /\ IsDrawing(D) /\ HandlesOf(D) = H /\ Len(D) = Len(P) /\ DOMAIN D = DOMAIN P
        /\ Unsorted(D) <=> Unsorted(P)
        /\ \A c \in Blocks : OwnedOnce(D, c)
    BY <1>5, <2>2, <2>7, SameDrawingFacts
  <2>9. \A o \in DOMAIN P : /\ D[o].handle = P[o].handle /\ D[o].kind = P[o].kind
                            /\ D[o].block = P[o].block
    <3>1. DOMAIN P = 1 .. Len(P)
      BY <1>6 DEF PlacedDrawing
    <3> QED
      BY <2>7, <3>1 DEF SameDrawing, SameObject
  <2>10. /\ E \in [Blocks -> HeaderSet(H)]
         /\ \A c \in Blocks : /\ Ends(E[c], owned[c])
                              /\ E[c].entities = K[c].entities
                              /\ E[c].iterator = K[c].iterator
    BY <1>5, <2>5, <2>6, FixedHeadersFacts
  <2>11. ASSUME NEW c \in Blocks PROVE AddedChain(D, owned[c])
    <3>1. AddedChain(P, owned[c])
      <4>1. AddedChain(P, Longer(b, kind, h, c))
        BY <1>3, <1>4, <2>1, AddedChains
      <4> QED
        BY <2>1, <4>1 DEF Longer
    <3>2. Chained(D, owned[c]) /\ (FirstSettled(P, owned[c]) => Saved(D, owned[c]))
      BY <2>5, <2>6, FixedChain
    <3>3. owned[c] \in Seq(HandlesOf(P))
      BY <1>5, <2>4
    <3>4. Saved(P, owned[c]) => Saved(D, owned[c])
      BY <3>2, <3>3, SettledFromSaved
    <3> QED
      BY <2>8, <3>1, <3>2, <3>4 DEF AddedChain
  <2>12. AddedDrawing(b, kind, n, h, H, D, E)
    <3>1. n \in Nat \ {0} /\ Len(P) = n + 1 /\ DOMAIN P = 1 .. n + 1 /\ DOMAIN object = 1 .. n
      BY <1>11 DEF AddedDrawing
    <3>2. /\ \A o \in 1 .. n : /\ P[o].handle = object[o].handle
                               /\ P[o].kind = object[o].kind
                               /\ P[o].block = object[o].block
          /\ P[n + 1].handle = h /\ P[n + 1].kind = kind /\ P[n + 1].block = b
          /\ Unsorted(P) <=> Unsorted(object)
      BY <1>11 DEF AddedDrawing
    <3>3. /\ \A o \in 1 .. n : o \in DOMAIN P
          /\ n + 1 \in DOMAIN P
      BY <3>1
    <3>4. \A o \in 1 .. n : /\ D[o].handle = object[o].handle
                            /\ D[o].kind = object[o].kind
                            /\ D[o].block = object[o].block
      BY <2>9, <3>2, <3>3
    <3>5. D[n + 1].handle = h /\ D[n + 1].kind = kind /\ D[n + 1].block = b
      BY <2>9, <3>2, <3>3
    <3>6. \A c \in Blocks :
            /\ E[c].entities = IF kind = "ENTITY" /\ c = b
                                 THEN Append(header[c].entities, h)
                                 ELSE header[c].entities
            /\ E[c].iterator = header[c].iterator
      <4>1. \A c \in Blocks :
              /\ K[c].entities = IF kind = "ENTITY" /\ c = b
                                   THEN Append(header[c].entities, h)
                                   ELSE header[c].entities
              /\ K[c].iterator = header[c].iterator
        BY <1>11 DEF AddedDrawing
      <4> QED
        BY <2>10, <4>1
    <3>7. IsDrawing(D) /\ HandlesOf(D) = H /\ Len(D) = n + 1 /\ DOMAIN D = 1 .. n + 1
          /\ (Unsorted(D) <=> Unsorted(object)) /\ E \in [Blocks -> HeaderSet(H)]
      BY <2>8, <2>10, <3>1, <3>2
    <3> QED
      BY <1>8, <3>1, <3>4, <3>5, <3>6, <3>7 DEF AddedDrawing
  <2>13. \A c \in Blocks : OwnedOnce(object, c)'
    BY <2>1, <2>6, <2>8 DEF OwnedOnce
  <2>14. version # "R2004"
    BY <2>1
  <2> QED
    BY <2>1, <2>6, <2>10, <2>11, <2>12, <2>13, <2>14
<1> QED
  BY <1>12, <1>13

-----------------------------------------------------------------------------
(* The invariant is kept: AddEntity. *)

(* The fields of an iteration. *)
LEMMA ReaderFields ==
  ASSUME Types
  PROVE  /\ reader.block \in Blocks /\ reader.at \in 0 .. Len(object)
         /\ reader.seen \in Seq(HandlesOf(object)) /\ Len(reader.seen) \in Nat
         /\ reader.fn \in {"none", "entity", "block_entity"}
         /\ reader.settled \in BOOLEAN
<1>1. PICK n, H : n = Len(object) /\ H = HandlesOf(object)
  OBVIOUS
<1>2. reader \in ReaderSet(n, H)
  BY <1>1 DEF Types
<1> QED
  BY <1>1, <1>2 DEF ReaderSet

(* A longer drawing makes no iteration wrong. *)
LEMMA WiderReader ==
  ASSUME NEW n \in Nat, NEW m \in Nat, n <= m, NEW H, NEW G, H \subseteq G,
         NEW r \in ReaderSet(n, H)
  PROVE  r \in ReaderSet(m, G)
<1>1. 0 .. n \subseteq 0 .. m
  OBVIOUS
<1>2. \A s \in Seq(H) : s \in Seq(G)
  OBVIOUS
<1> QED
  BY <1>1, <1>2 DEF ReaderSet

(* An entity is added: an iteration over a vector goes on. *)
LEMMA UnsettledIs ==
  ASSUME Types, NEW r, r = Unsettled
  PROVE  /\ r.block = reader.block /\ r.at = reader.at /\ r.seen = reader.seen
         /\ r.fn = reader.fn /\ (r.settled <=> reader.settled /\ version = "R2004")
         /\ r \in ReaderSet(Len(object), HandlesOf(object))
<1>1. PICK n, H : n = Len(object) /\ H = HandlesOf(object)
  OBVIOUS
<1>2. reader \in ReaderSet(n, H)
  BY <1>1 DEF Types
<1>3. (reader.settled /\ version = "R2004") \in BOOLEAN
  OBVIOUS
<1>4. PICK l \in BOOLEAN : l <=> (reader.settled /\ version = "R2004")
  BY <1>3
<1>5. r = [reader EXCEPT !.settled = l]
  BY <1>2, <1>4 DEF Unsettled, ReaderSet
<1>6. /\ r.block = reader.block /\ r.at = reader.at /\ r.seen = reader.seen
      /\ r.fn = reader.fn /\ r.settled = l
      /\ r \in ReaderSet(n, H)
  BY <1>2, <1>4, <1>5 DEF ReaderSet
<1> QED
  BY <1>1, <1>4, <1>6

(* dwg_add_<entity> keeps the invariant. *)
LEMMA AddEntityKeeps ==
  ASSUME IInv, NEW b \in Blocks, NEW kind \in {"ENTITY", "BLOCK", "ENDBLK"},
         AddEntity(b, kind)
  PROVE  IInv'
<1>1. PICK n, h, G, H : /\ n = Len(object) /\ h = NextHandle /\ G = HandlesOf(object)
                        /\ H = HandlesOf(object) \cup {h}
  OBVIOUS
<1>2. Types /\ Vectors /\ Sorted /\ ReaderInv /\ \A c \in Blocks : OwnedOnce(object, c)
  BY DEF IInv
<1>3. /\ AddedDrawing(b, kind, n, h, H, object', header')
      /\ \A c \in Blocks : OwnedOnce(object, c)'
      /\ version = "R2000" =>
           \A c \in Blocks : /\ Ends(header'[c], owned'[c])
                             /\ AddedChain(object', owned'[c])
      /\ version = "R2004" =>
           \A c \in Blocks : AddedVectorIs(object', header', c, owned'[c])
  BY <1>1, EntityAdded
<1>4. /\ opts # "import" /\ n < MaxObjects
      /\ reader.fn # "none" => reader.at # 0
      /\ resolved' \subseteq resolved \cup {header[b].last}
      /\ prev_entity_index' = n + 1
      /\ owned' = IF kind = "ENTITY" THEN [owned EXCEPT ![b] = Append(@, h)] ELSE owned
      /\ reader' = Unsettled
      /\ UNCHANGED <<version, from_version, opts, reloads>>
  BY <1>1, AddEntitySteps
<1>5. /\ \A c \in Blocks : owned'[c] = Longer(b, kind, h, c)
      /\ owned' \in [Blocks -> Seq(H)]
  BY <1>1, <1>2, <1>4, AddedLists
<1>6. \A c \in Blocks : LongerFacts(b, kind, h, c, owned'[c])
  <2>1. ~ (h \in HandlesOf(object))
    BY <1>3 DEF AddedDrawing
  <2> QED
    BY <1>2, <1>5, <2>1, LongerList
<1>7. /\ n \in Nat \ {0} /\ Len(object') = n + 1 /\ HandlesOf(object') = H
      /\ IsDrawing(object') /\ DOMAIN object = 1 .. n /\ header' \in [Blocks -> HeaderSet(H)]
      /\ Unsorted(object') <=> Unsorted(object)
  BY <1>3 DEF AddedDrawing
<1>8. Types'
  <2>1. IsDrawing(object)'
    BY <1>7
  <2>2. resolved' \subseteq RefSet(H)
    <3>1. RefSet(G) \subseteq RefSet(H)
      BY <1>1 DEF RefSet
    <3>2. resolved \subseteq RefSet(G) /\ header[b].last \in RefSet(G)
      BY <1>1, <1>2, BlockHeader DEF Types
    <3> QED
      BY <1>4, <3>1, <3>2
  <2>3. reader' \in ReaderSet(n + 1, H)
    <3>1. reader' \in ReaderSet(n, G)
      BY <1>1, <1>2, <1>4, UnsettledIs
    <3> QED
      BY <1>1, <1>7, <3>1, WiderReader
  <2>4. prev_entity_index' \in 0 .. n + 1
    BY <1>4, <1>7
  <2>5. version \in Versions /\ from_version \in Versions
        /\ opts \in {"api", "dxf", "import", "file"}
    BY <1>2 DEF Types
  <2> QED
    BY <1>4, <1>5, <1>7, <2>1, <2>2, <2>3, <2>4, <2>5 DEF Types
<1>9. Latest'
  <2> SUFFICES ASSUME object'[n + 1].kind = "ENTITY"
               PROVE  \E c \in Blocks : /\ owned'[c] # <<>>
                                        /\ object'[n + 1].handle = owned'[c][Len(owned'[c])]
    BY <1>4 DEF Latest
  <2>1. kind = "ENTITY" /\ object'[n + 1].handle = h
    BY <1>3 DEF AddedDrawing
  <2>2. LongerFacts(b, kind, h, b, owned'[b])
    BY <1>6
  <2> QED
    BY <2>1, <2>2 DEF LongerFacts
<1>10. Vectors'
  <2>1. \A c \in Blocks :
          header'[c].entities = IF kind = "ENTITY" /\ c = b
                                  THEN Append(header[c].entities, h) ELSE header[c].entities
    BY <1>3 DEF AddedDrawing
  <2>2. ASSUME NEW c \in Blocks, owned'[c] = <<>> PROVE header'[c].entities = <<>>
    <3>1. ~ (kind = "ENTITY" /\ c = b) /\ owned[c] = <<>>
      BY <1>6, <2>2 DEF LongerFacts
    <3> QED
      BY <1>2, <2>1, <3>1 DEF Vectors
  <2>3. ASSUME version = "R2004" \/ from_version = "R2004" \/ opts # "file", NEW c \in Blocks
        PROVE  header'[c].entities = owned'[c]
    <3>1. header[c].entities = owned[c]
      BY <1>2, <2>3 DEF Vectors
    <3> QED
      BY <1>5, <2>1, <3>1 DEF Longer
  <2> QED
    BY <1>4, <2>2, <2>3 DEF Vectors
<1>11. ASSUME version = "R2000" PROVE ChainInv'
  <2>1. /\ \A c \in Blocks : Ends(header'[c], owned'[c]) /\ AddedChain(object', owned'[c])
        /\ opts' = opts
    BY <1>3, <1>4, <1>11
  <2>2. \A c \in Blocks : /\ Ends(header'[c], owned'[c]) /\ Chained(object', owned'[c])
                          /\ \/ opts = "dxf" /\ Unsorted(object')
                             \/ Saved(object', owned'[c])
    BY <2>1 DEF AddedChain
  <2>3. Extended' <=> opts = "dxf"
    BY <1>4, <1>7 DEF Extended
  <2> QED
    BY <2>2, <2>3 DEF ChainInv
<1>12. ASSUME version = "R2004" PROVE VectorInv'
  <2>1. \A c \in Blocks : AddedVectorIs(object', header', c, owned'[c])
    BY <1>3, <1>12
  <2> QED
    BY <2>1 DEF VectorInv, AddedVectorIs
<1>13. Imported' /\ Sorted'
  BY <1>2, <1>4, <1>7 DEF Imported, Sorted
<1>14. ReaderInv'
  <2> SUFFICES ASSUME reader'.fn # "none"
               PROVE  ReaderInv'
    BY DEF ReaderInv
  <2>1. PICK r, c, k : r = reader' /\ c = reader.block /\ k = Len(reader.seen)
    OBVIOUS
  <2>2. /\ r.block = c /\ r.at = reader.at /\ r.seen = reader.seen
        /\ r.fn = reader.fn /\ (r.settled <=> reader.settled /\ version = "R2004")
    BY <1>2, <1>4, <2>1, UnsettledIs
  <2>3. c \in Blocks /\ reader.at \in 0 .. n /\ k \in Nat
    BY <1>1, <1>2, <2>1, ReaderFields
  <2>4. reader.fn # "none" /\ reader.at # 0
    BY <1>4, <2>1, <2>2
  <2>5. version = "R2004" => r.settled
    BY <1>2, <2>2, <2>4 DEF ReaderInv
  <2>6. ASSUME r.settled
        PROVE  /\ k <= Len(owned'[c])
               /\ \A j \in 1 .. k : reader.seen[j] = owned'[c][j]
               /\ k # 0 /\ object'[reader.at].handle = owned'[c][k]
               /\ header'[c].iterator + 1 = k
               /\ version = "R2004"
    <3>1. reader.settled /\ version = "R2004"
      BY <2>2, <2>6
    <3>2. /\ k <= Len(owned[c]) /\ \A j \in 1 .. k : reader.seen[j] = owned[c][j]
          /\ k # 0 /\ object[reader.at].handle = owned[c][k]
          /\ header[c].iterator + 1 = k
      BY <1>2, <2>1, <2>4, <3>1 DEF ReaderInv
    <3>3. LongerFacts(b, kind, h, c, owned'[c])
      BY <1>6, <2>3
    <3>4. \A j \in 1 .. k : owned'[c][j] = owned[c][j]
      BY <2>3, <3>2, <3>3 DEF LongerFacts
    <3>5. object'[reader.at].handle = object[reader.at].handle
      BY <1>3, <2>3, <2>4 DEF AddedDrawing
    <3>6. header'[c].iterator = header[c].iterator
      BY <1>3, <2>3 DEF AddedDrawing
    <3>7. k \in 1 .. k
      BY <2>3, <3>2
    <3>8. k <= Len(owned'[c])
      BY <2>3, <3>2, <3>3 DEF LongerFacts
    <3> QED
      BY <3>1, <3>2, <3>4, <3>5, <3>6, <3>7, <3>8
  <2> QED
    BY <1>4, <2>1, <2>2, <2>4, <2>5, <2>6 DEF ReaderInv
<1>15. (\A c \in Blocks : OwnedOnce(object, c))'
  BY <1>3
<1> QED
  BY <1>4, <1>8, <1>9, <1>10, <1>11, <1>12, <1>13, <1>14, <1>15 DEF IInv

-----------------------------------------------------------------------------
(* AddObject *)

(* An object that is no entity comes last, the others are as they were. *)
LEMMA ObjectAdded ==
  ASSUME Types, NEW n, NEW h, NEW H, NEW N,
         n = Len(object), n < MaxObjects, h = NextHandle,
         H = HandlesOf(object) \cup {h},
         N = Append(object, NewObject("OBJECT", ModelSpace, h))
  PROVE  /\ IsDrawing(N) /\ HandlesOf(N) = H
         /\ PlacedDrawing(N, "OBJECT", n, h)
         /\ \A o \in 1 .. n : N[o] = object[o]
<1>1. PICK b \in Blocks, kind \in {"ENTITY", "BLOCK", "ENDBLK", "OBJECT"} :
        b = ModelSpace /\ kind = "OBJECT"
  BY BlocksType
<1>2. NewFacts(N, b, kind, H, n, h)
  BY <1>1, NewOneFacts
<1>3. LastOf(b, kind) = 0
  BY <1>1 DEF LastOf
<1>4. \A o \in 1 .. n : SameObject(object[o], N[o]) /\ Kept(object[o], N[o])
  BY <1>2 DEF NewFacts, SameObject, Kept
<1>5. PlacedFacts(N, b, kind, H, n, h)
  <2>1. N \in [1 .. n + 1 -> ObjectSet(H)] /\ n \in Nat \ {0}
        /\ N[n + 1].handle = h /\ N[n + 1].kind = kind /\ N[n + 1].block = b
    BY <1>2 DEF NewFacts
  <2>2. kind # "ENTITY" /\ 0 \in 0 .. n
    BY <1>1, <2>1
  <2> QED
    BY <1>3, <1>4, <2>1, <2>2 DEF PlacedFacts
<1>6. PlacedDrawing(N, kind, n, h)
  BY <1>5, PlacedHandles
<1>7. IsDrawing(N) /\ HandlesOf(N) = H
  BY <1>5, PlacedTypes
<1> QED
  BY <1>1, <1>2, <1>6, <1>7 DEF NewFacts

(* The types after it. *)
LEMMA AddObjectTypes ==
  ASSUME Types, AddObject
  PROVE  Types'
<1>1. PICK n, h, G, H, N :
        /\ n = Len(object) /\ h = NextHandle /\ G = HandlesOf(object)
        /\ H = HandlesOf(object) \cup {h}
        /\ N = Append(object, NewObject("OBJECT", ModelSpace, h))
  OBVIOUS
<1>2. /\ opts # "import" /\ n < MaxObjects /\ object' = N
      /\ UNCHANGED <<header, resolved, version, from_version, opts,
                     prev_entity_index, owned, reader>>
  BY <1>1 DEF AddObject, MayAdd
<1>3. /\ IsDrawing(N) /\ HandlesOf(N) = H /\ PlacedDrawing(N, "OBJECT", n, h)
  BY <1>1, <1>2, ObjectAdded
<1>4. n \in Nat \ {0} /\ Len(N) = n + 1
  BY <1>3 DEF PlacedDrawing
<1>5. IsDrawing(object)'
  BY <1>2, <1>3
<1>6. header \in [Blocks -> HeaderSet(H)]
  <2>1. header \in [Blocks -> HeaderSet(G)] /\ G \subseteq H
    BY <1>1 DEF Types
  <2>2. \A c \in Blocks : header[c] \in HeaderSet(H)
    BY <2>1, WiderHeader
  <2> QED
    BY <2>1, <2>2
<1>7. resolved \subseteq RefSet(H)
  <2>1. RefSet(G) \subseteq RefSet(H)
    BY <1>1 DEF RefSet
  <2> QED
    BY <1>1, <2>1 DEF Types
<1>8. owned \in [Blocks -> Seq(H)]
  <2>1. owned \in [Blocks -> Seq(G)] /\ G \subseteq H
    BY <1>1 DEF Types
  <2>2. \A s \in Seq(G) : s \in Seq(H)
    BY <2>1
  <2> QED
    BY <2>1, <2>2
<1>9. reader \in ReaderSet(n + 1, H)
  <2>1. reader \in ReaderSet(n, G) /\ G \subseteq H
    BY <1>1 DEF Types
  <2> QED
    BY <1>4, <2>1, WiderReader
<1>10. /\ prev_entity_index \in 0 .. n + 1
       /\ version \in Versions /\ from_version \in Versions
       /\ opts \in {"api", "dxf", "import", "file"}
  BY <1>1, <1>4 DEF Types
<1> QED
  BY <1>2, <1>3, <1>4, <1>5, <1>6, <1>7, <1>8, <1>9, <1>10 DEF Types

(* An object that is no entity keeps it: its handle is above all others,   *)
(* so it comes between no two neighbours.                                  *)
LEMMA AddObjectKeeps ==
  ASSUME IInv, AddObject
  PROVE  IInv'
<1>1. PICK n, h, G, H, N :
        /\ n = Len(object) /\ h = NextHandle /\ G = HandlesOf(object)
        /\ H = HandlesOf(object) \cup {h}
        /\ N = Append(object, NewObject("OBJECT", ModelSpace, h))
  OBVIOUS
<1>2. Types /\ Latest /\ Vectors /\ Sorted /\ ReaderInv
      /\ \A c \in Blocks : OwnedOnce(object, c)
  BY DEF IInv
<1>3. /\ opts # "import" /\ n < MaxObjects /\ object' = N
      /\ UNCHANGED <<header, resolved, version, from_version, opts,
                     prev_entity_index, owned, reloads, reader>>
  BY <1>1 DEF AddObject, MayAdd
<1>4. /\ IsDrawing(N) /\ HandlesOf(N) = H
      /\ PlacedDrawing(N, "OBJECT", n, h)
      /\ \A o \in 1 .. n : N[o] = object[o]
  BY <1>1, <1>2, <1>3, ObjectAdded
<1>5. /\ n \in Nat \ {0} /\ DOMAIN N = 1 .. n + 1 /\ Len(N) = n + 1
      /\ DOMAIN object = 1 .. n /\ h \in Nat
      /\ \A o \in 1 .. n : object[o].handle < h
      /\ \A o \in DOMAIN N : o \in 1 .. n \/ N[o].handle = h
      /\ \A q \in G : q \in Nat /\ q < h
      /\ Unsorted(N) <=> Unsorted(object)
  BY <1>1, <1>4 DEF PlacedDrawing
<1>6. \A c \in Blocks : /\ Len(owned[c]) \in Nat /\ DOMAIN owned[c] = 1 .. Len(owned[c])
                        /\ \A j \in DOMAIN owned[c] : owned[c][j] \in G
                        /\ owned[c] # <<>> => Len(owned[c]) \in DOMAIN owned[c]
  BY <1>1, <1>2, OwnedList
<1>7. \A o \in DOMAIN N : N[o].handle \in G => o \in 1 .. n /\ N[o] = object[o]
  BY <1>4, <1>5
<1>8. Types'
  BY <1>2, AddObjectTypes
<1>9. (\A c \in Blocks : OwnedOnce(object, c))'
  <2>1. ASSUME NEW c \in Blocks PROVE OwnedOnce(N, c)
    <3>1. OwnedOnce(object, c)
      BY <1>2
    <3>2. \A o \in 1 .. n : o \in DOMAIN N
      BY <1>5
    <3> QED
      BY <1>4, <1>5, <3>1, <3>2 DEF OwnedOnce
  <2> QED
    BY <1>3, <2>1 DEF OwnedOnce
<1>10. Latest'
  <2>1. prev_entity_index \in 0 .. n
    BY <1>1, <1>2 DEF Types
  <2>2. prev_entity_index # 0 => N[prev_entity_index] = object[prev_entity_index]
    BY <1>4, <1>5, <2>1
  <2> QED
    BY <1>2, <1>3, <2>2 DEF Latest
<1>11. Vectors' /\ Imported' /\ Sorted'
  BY <1>2, <1>3, <1>5 DEF Vectors, Imported, Sorted
<1>12. ASSUME version = "R2000" PROVE ChainInv'
  <2>1. ChainInv
    BY <1>3, <1>12 DEF IInv
  <2>2. ASSUME NEW c \in Blocks PROVE Chained(N, owned[c])
    <3>1. Chained(object, owned[c])
      BY <2>1 DEF ChainInv
    <3>2. ASSUME NEW j \in 1 .. Len(owned[c]) - 1, NEW i \in DOMAIN N, NEW k \in DOMAIN N,
                 N[i].handle = owned[c][j], N[k].handle = owned[c][j + 1]
          PROVE  Linked(N, i, k)
      <4>1. j \in DOMAIN owned[c] /\ j + 1 \in DOMAIN owned[c]
        BY <1>6
      <4>2. i \in 1 .. n /\ k \in 1 .. n /\ N[i] = object[i] /\ N[k] = object[k]
        BY <1>6, <1>7, <3>2, <4>1
      <4>3. Linked(object, i, k)
        BY <1>5, <3>1, <3>2, <4>2 DEF Chained
      <4> QED
        BY <4>2, <4>3 DEF Linked
    <3>3. ASSUME owned[c] # <<>>, NEW i \in DOMAIN N, N[i].handle = owned[c][Len(owned[c])]
          PROVE  LastUnlinked(N, i)
      <4>1. i \in 1 .. n /\ N[i] = object[i]
        BY <1>6, <1>7, <3>3
      <4>2. n + 1 \in DOMAIN N /\ i # n + 1 /\ N[n + 1].handle = h
        BY <1>5, <4>1
      <4>3. h \in HandlesOf(N) /\ h > N[i].handle
        BY <1>5, <4>1, <4>2 DEF HandlesOf
      <4> QED
        BY <1>5, <4>2, <4>3 DEF LastUnlinked
    <3> QED
      BY <3>2, <3>3 DEF Chained
  <2>3. ASSUME NEW c \in Blocks, Saved(object, owned[c]) PROVE Saved(N, owned[c])
    <3> SUFFICES ASSUME NEW j \in 1 .. Len(owned[c]) - 1,
                        NEW i \in DOMAIN N, NEW k \in DOMAIN N,
                        N[i].handle = owned[c][j], N[k].handle = owned[c][j + 1]
                 PROVE  NeighbourSaved(N, i, k)
      BY DEF Saved
    <3>1. j \in DOMAIN owned[c] /\ j + 1 \in DOMAIN owned[c]
      BY <1>6
    <3>2. i \in 1 .. n /\ k \in 1 .. n /\ N[i] = object[i] /\ N[k] = object[k]
      BY <1>6, <1>7, <3>1
    <3>3. NeighbourSaved(object, i, k)
      BY <1>5, <2>3, <3>2 DEF Saved
    <3>4. object[i].handle \in G /\ object[k].handle \in G
      BY <1>1, <1>5, <3>2 DEF HandlesOf
    <3>5. NextHandles(object, object[i].handle, object[k].handle) =>
            NextHandles(N, object[i].handle, object[k].handle)
      BY <1>1, <1>4, <1>5, <3>4 DEF NextHandles
    <3> QED
      BY <3>2, <3>3, <3>5 DEF NeighbourSaved
  <2>4. ASSUME NEW c \in Blocks
        PROVE  /\ Ends(header[c], owned[c]) /\ Chained(N, owned[c])
               /\ (Extended /\ Unsorted(N)) \/ Saved(N, owned[c])
    BY <1>5, <2>1, <2>2, <2>3 DEF ChainInv
  <2>5. Extended' <=> Extended
    BY <1>3 DEF Extended
  <2> QED
    BY <1>3, <2>4, <2>5 DEF ChainInv
<1>13. ASSUME version = "R2004" PROVE VectorInv'
  <2>1. VectorInv
    BY <1>13 DEF IInv
  <2>2. ASSUME NEW c \in Blocks, owned[c] # <<>> PROVE FirstReady(N, header[c], owned[c])
    <3>1. FirstReady(object, header[c], owned[c])
      BY <2>1, <2>2 DEF VectorInv
    <3>2. owned[c][1] \in G
      BY <1>6, <2>2
    <3> QED
      BY <1>5, <1>7, <3>1, <3>2 DEF FirstReady
  <2> QED
    BY <1>3, <2>1, <2>2 DEF VectorInv
<1>14. ReaderInv'
  <2>1. reader.at # 0 => N[reader.at] = object[reader.at]
    BY <1>1, <1>2, <1>4, <1>5, ReaderFields
  <2>2. HeaderRefs(header') = HeaderRefs(header)
    BY <1>3
  <2> QED
    BY <1>2, <1>3, <2>1, <2>2 DEF ReaderInv
<1>15. version' = version /\ opts' = opts /\ opts # "import"
  BY <1>3
<1> QED
  BY <1>8, <1>9, <1>10, <1>11, <1>12, <1>13, <1>14, <1>15 DEF IInv

(* The DXF reader *)
LongerDrawing(N, x, n, H) ==
  /\ n \in Nat \ {0} /\ DOMAIN object = 1 .. n
  /\ IsDrawing(N) /\ HandlesOf(N) = H /\ Len(N) = n + 1 /\ DOMAIN N = 1 .. n + 1
  /\ N[n + 1] = x /\ \A o \in 1 .. n : N[o] = object[o]

(* One more object with a handle that is not in use. *)
LEMMA DrawingWith ==
  ASSUME IsDrawing(object), NEW n, NEW h, NEW H, NEW x, NEW N,
         n = Len(object), n < MaxObjects, h \in 1 .. 2 * MaxObjects,
         ~ (h \in HandlesOf(object)), H = HandlesOf(object) \cup {h},
         x \in ObjectSet(H), x.handle = h, N = Append(object, x)
  PROVE  LongerDrawing(N, x, n, H)
<1>1. PICK G : G = HandlesOf(object)
  OBVIOUS
<1>2. /\ n \in Nat \ {0} /\ DOMAIN object = 1 .. n
      /\ \A o \in 1 .. n : object[o] \in ObjectSet(G) /\ object[o].handle \in G
  BY <1>1, DrawingFacts
<1>3. object \in Seq(ObjectSet(H))
  <2>1. ObjectSet(G) \subseteq ObjectSet(H)
    BY <1>1 DEF ObjectSet
  <2>2. object \in Seq(ObjectSet(G))
    BY <1>1 DEF IsDrawing
  <2>3. PICK S, T : S = ObjectSet(G) /\ T = ObjectSet(H)
    OBVIOUS
  <2>4. S \subseteq T
    BY <2>1, <2>3
  <2>5. \A s \in Seq(S) : s \in Seq(T)
    BY ONLY <2>4
  <2> QED
    BY <2>2, <2>3, <2>5
<1>4. /\ N \in [1 .. n + 1 -> ObjectSet(H)] /\ N[n + 1] = x
      /\ \A o \in 1 .. n : N[o] = object[o]
  BY <1>3, Appended
<1>5. N \in Seq(ObjectSet(H)) /\ Len(N) = n + 1 /\ DOMAIN N = 1 .. n + 1
  <2>1. PICK m, S : m = n + 1 /\ m \in Nat /\ S = ObjectSet(H)
    BY <1>2
  <2>2. N \in [1 .. m -> S]
    BY <1>4, <2>1
  <2>3. N \in Seq(S) /\ Len(N) = m /\ DOMAIN N = 1 .. m
    BY ONLY <2>1, <2>2, AsSequence
  <2> QED
    BY <2>1, <2>3
<1>6. HandlesOf(N) = H
  <2>1. \A o \in 1 .. n : N[o].handle \in G
    BY <1>2, <1>4
  <2>2. \A o \in DOMAIN N : N[o].handle \in H
    BY <1>1, <1>2, <1>4, <1>5, <2>1
  <2>3. \A q \in G : \E o \in DOMAIN N : N[o].handle = q
    <3> TAKE q \in G
    <3>1. PICK o \in 1 .. n : object[o].handle = q
      BY <1>1, <1>2 DEF HandlesOf
    <3> QED
      BY <1>2, <1>4, <1>5, <3>1
  <2>4. n + 1 \in DOMAIN N /\ N[n + 1].handle = h
    BY <1>2, <1>4, <1>5
  <2> QED
    BY <1>1, <2>2, <2>3, <2>4 DEF HandlesOf
<1>7. \A o, p \in DOMAIN N : N[o].handle = N[p].handle => o = p
  <2>1. \A o, p \in 1 .. n : object[o].handle = object[p].handle => o = p
    BY <1>2 DEF IsDrawing
  <2>2. \A o \in 1 .. n : N[o].handle # h
    BY <1>1, <1>2, <1>4
  <2>3. \A o \in DOMAIN N : o \in 1 .. n \/ o = n + 1
    BY <1>2, <1>5
  <2> QED
    BY <1>4, <2>1, <2>2, <2>3
<1>8. H \subseteq 1 .. 2 * MaxObjects + (n + 1) /\ n + 1 <= MaxObjects
  <2>1. G \subseteq 1 .. 2 * MaxObjects + n
    BY <1>1 DEF IsDrawing
  <2> QED
    BY <1>1, <1>2, <2>1, BoundsType
<1>9. N # <<>>
  BY <1>2, <1>5
<1>10. IsDrawing(N)
  <2>1. N \in Seq(ObjectSet(HandlesOf(N))) /\ Len(N) <= MaxObjects
        /\ HandlesOf(N) \subseteq 1 .. 2 * MaxObjects + Len(N)
    BY <1>5, <1>6, <1>8
  <2> QED
    BY <1>7, <1>9, <2>1 DEF IsDrawing
<1> QED
  BY <1>2, <1>4, <1>5, <1>6, <1>10 DEF LongerDrawing

ImportedObject(b, h) ==
  [NewObject("ENTITY", b, h) EXCEPT
     !.entmode = IF b = ModelSpace THEN 2 ELSE 3, !.nolinks = b = ModelSpace]

(* An entity of a DXF file has no links yet. *)
LEMMA ImportedObjectFacts ==
  ASSUME NEW b \in Blocks, NEW H, NEW h \in H, NEW x, x = ImportedObject(b, h)
  PROVE  /\ x \in ObjectSet(H) /\ x.handle = h /\ x.kind = "ENTITY" /\ x.block = b
         /\ x.prev = NoRef
<1>1. PICK l \in BOOLEAN, m \in 0 .. 3 :
        l = (b = ModelSpace) /\ m = IF b = ModelSpace THEN 2 ELSE 3
  <2>1. (b = ModelSpace) \in BOOLEAN /\ (IF b = ModelSpace THEN 2 ELSE 3) \in 0 .. 3
    OBVIOUS
  <2> QED
    BY <2>1
<1>2. x = [NewObject("ENTITY", b, h) EXCEPT !.entmode = m, !.nolinks = l]
  BY <1>1 DEF ImportedObject
<1>3. x = [kind |-> "ENTITY", block |-> b, ownerhandle |-> TRUE, handle |-> h,
           entmode |-> m, prev |-> NoRef, next |-> NoRef, nolinks |-> l]
  BY <1>2 DEF NewObject
<1> QED
  BY <1>3 DEF ObjectSet, Kinds, Nulls

ImportedHeaders(b, h, K) ==
  LET chained == b = ModelSpace \/ version = "R2000"
  IN  /\ \A c \in Blocks \ {b} : K[c] = header[c]
      /\ K[b].entities = Append(header[b].entities, h)
      /\ K[b].last = IF chained THEN Shared(h) ELSE header[b].last
      /\ K[b].first = IF chained /\ header[b].first = None THEN Shared(h) ELSE header[b].first
      /\ K[b].iterator = header[b].iterator
      /\ K[b] = [first |-> K[b].first, last |-> K[b].last,
                 entities |-> K[b].entities, iterator |-> K[b].iterator]

(* What add_to_BLOCK_HEADER does, in named steps. *)
LEMMA ImportEntitySteps ==
  ASSUME Types, NEW b \in Blocks, NEW h, ImportEntity(b, h)
  PROVE  /\ opts = "import" /\ Len(object) < MaxObjects
         /\ ~ (h \in HandlesOf(object))
         /\ object' = Append(object, ImportedObject(b, h))
         /\ DOMAIN header' = Blocks
         /\ header' = [c \in Blocks |-> header'[c]]
         /\ ImportedHeaders(b, h, header')
         /\ owned' = [owned EXCEPT ![b] = Append(@, h)]
         /\ UNCHANGED <<resolved, version, from_version, opts,
                        prev_entity_index, reloads, reader>>
<1>1. Len(object) < MaxObjects
  <2>1. Len(object) < MaxImported /\ Len(object) \in Nat
    BY DrawingFacts DEF ImportEntity, Types
  <2> QED
    BY <2>1, BoundsType
<1>2. ~ (h \in HandlesOf(object))
  <2>1. Index(h) = 0
    BY DEF ImportEntity
  <2>2. h \in HandlesOf(object) => Index(h) \in 1 .. Len(object) /\ Len(object) \in Nat
    BY OfHandle, DrawingFacts DEF Index, Types
  <2> QED
    BY <2>1, <2>2
<1>3. object' = Append(object, ImportedObject(b, h))
  BY DEF ImportEntity, ImportedObject
<1>4. PICK G, u : G = HandlesOf(object) /\ u = (b = ModelSpace \/ version = "R2000")
  OBVIOUS
<1>5. header \in [Blocks -> HeaderSet(G)] /\ header[b] \in HeaderSet(G)
  BY <1>4 DEF Types
<1>6. header' = [header EXCEPT
                   ![b].entities = Append(@, h),
                   ![b].last = IF u THEN Shared(h) ELSE @,
                   ![b].first = IF u /\ @ = None THEN Shared(h) ELSE @]
  BY <1>4 DEF ImportEntity
<1>7. DOMAIN header' = Blocks /\ header' = [c \in Blocks |-> header'[c]]
      /\ \A c \in Blocks \ {b} : header'[c] = header[c]
  BY <1>5, <1>6
<1>8. header'[b] = [header[b] EXCEPT
                      !.entities = Append(@, h),
                      !.last = IF u THEN Shared(h) ELSE @,
                      !.first = IF u /\ @ = None THEN Shared(h) ELSE @]
  BY <1>5, <1>6
<1>9. header'[b] = [first |-> IF u /\ header[b].first = None THEN Shared(h)
                              ELSE header[b].first,
                    last |-> IF u THEN Shared(h) ELSE header[b].last,
                    entities |-> Append(header[b].entities, h),
                    iterator |-> header[b].iterator]
  BY <1>5, <1>8 DEF HeaderSet
<1>10. ImportedHeaders(b, h, header')
  <2>1. /\ header'[b].entities = Append(header[b].entities, h)
        /\ header'[b].last = IF u THEN Shared(h) ELSE header[b].last
        /\ header'[b].first = IF u /\ header[b].first = None THEN Shared(h)
                              ELSE header[b].first
        /\ header'[b].iterator = header[b].iterator
    BY <1>9
  <2>2. header'[b] = [first |-> header'[b].first, last |-> header'[b].last,
                      entities |-> header'[b].entities,
                      iterator |-> header'[b].iterator]
    BY <1>9, <2>1
  <2> QED
    BY <1>4, <1>7, <2>1, <2>2 DEF ImportedHeaders
<1> QED
  BY <1>1, <1>2, <1>3, <1>7, <1>10 DEF ImportEntity

-----------------------------------------------------------------------------
(* The invariant is kept while a DXF file is read. *)

(* An entity read from a DXF file keeps the invariant, whatever its        *)
(* handle.                                                                 *)
LEMMA ImportEntityKeeps ==
  ASSUME IInv, NEW b \in Blocks, NEW h \in DxfHandles, ImportEntity(b, h)
  PROVE  IInv'
<1>1. PICK n, G, H, x, kind :
        /\ n = Len(object) /\ G = HandlesOf(object) /\ H = HandlesOf(object) \cup {h}
        /\ x = ImportedObject(b, h) /\ kind = "ENTITY"
  OBVIOUS
<1>2. Types /\ Vectors /\ Imported /\ \A c \in Blocks : OwnedOnce(object, c)
  BY DEF IInv
<1>3. /\ opts = "import" /\ n < MaxObjects /\ ~ (h \in G)
      /\ object' = Append(object, x) /\ header' = [c \in Blocks |-> header'[c]]
      /\ ImportedHeaders(b, h, header')
      /\ owned' = [owned EXCEPT ![b] = Append(@, h)]
      /\ UNCHANGED <<resolved, version, from_version, opts,
                     prev_entity_index, reloads, reader>>
  BY <1>1, <1>2, ImportEntitySteps
<1>4. x \in ObjectSet(H) /\ x.handle = h /\ x.kind = "ENTITY" /\ x.block = b
      /\ x.prev = NoRef
  BY <1>1, ImportedObjectFacts
<1>5. LongerDrawing(object', x, n, H)
  <2>1. h \in 1 .. 2 * MaxObjects
    BY DxfHandlesType, BoundsType
  <2> QED
    BY <1>1, <1>2, <1>3, <1>4, <2>1, DrawingWith DEF Types
<1>6. /\ n \in Nat \ {0} /\ DOMAIN object = 1 .. n
      /\ IsDrawing(object') /\ HandlesOf(object') = H /\ Len(object') = n + 1
      /\ DOMAIN object' = 1 .. n + 1
      /\ object'[n + 1] = x /\ \A o \in 1 .. n : object'[o] = object[o]
  BY <1>5 DEF LongerDrawing
<1>7. /\ \A c \in Blocks : owned'[c] = Longer(b, kind, h, c)
      /\ owned' \in [Blocks -> Seq(H)]
  BY <1>1, <1>2, <1>3, AddedLists
<1>8. \A c \in Blocks : LongerFacts(b, kind, h, c, owned'[c])
  <2>1. ~ (h \in HandlesOf(object))
    BY <1>1, <1>3
  <2> QED
    BY <1>2, <1>7, <2>1, LongerList
<1>9. \A c \in Blocks : header'[c] \in HeaderSet(H)
  <2> TAKE c \in Blocks
  <2>1. header[c] \in HeaderSet(H)
    <3>1. header[c] \in HeaderSet(G) /\ G \subseteq H
      BY <1>1, <1>2 DEF Types
    <3> QED
      BY <3>1, WiderHeader
  <2>2. CASE c # b
    BY <1>3, <2>1, <2>2 DEF ImportedHeaders
  <2>3. CASE c = b
    <3>1. PICK K : K = header'[b]
      OBVIOUS
    <3>2. /\ header[b].first \in RefSet(H) /\ header[b].last \in RefSet(H)
          /\ header[b].entities \in Seq(H) /\ header[b].iterator \in Nat
      BY <2>1, <2>3 DEF HeaderSet
    <3>3. Shared(h) \in RefSet(H) /\ h \in H
      BY <1>1 DEF Shared, RefSet
    <3>4. K.first \in RefSet(H) /\ K.last \in RefSet(H) /\ K.iterator \in Nat
      BY <1>3, <3>1, <3>2, <3>3 DEF ImportedHeaders
    <3>5. K.entities \in Seq(H)
      <4>1. K.entities = Append(header[b].entities, h)
        BY <1>3, <3>1 DEF ImportedHeaders
      <4> QED
        BY <3>2, <3>3, <4>1
    <3>6. K = [first |-> K.first, last |-> K.last, entities |-> K.entities,
               iterator |-> K.iterator]
      BY <1>3, <3>1 DEF ImportedHeaders
    <3> QED
      BY <2>3, <3>1, <3>4, <3>5, <3>6 DEF HeaderSet
  <2> QED
    BY <2>2, <2>3
<1>10. Types'
  <2>1. IsDrawing(object)'
    BY <1>6
  <2>2. header' \in [Blocks -> HeaderSet(H)]
    BY <1>3, <1>9
  <2>3. resolved \subseteq RefSet(H)
    <3>1. RefSet(G) \subseteq RefSet(H)
      BY <1>1 DEF RefSet
    <3> QED
      BY <1>1, <1>2, <3>1 DEF Types
  <2>4. reader \in ReaderSet(n + 1, H)
    <3>1. reader \in ReaderSet(n, G) /\ G \subseteq H
      BY <1>1, <1>2 DEF Types
    <3> QED
      BY <1>6, <3>1, WiderReader
  <2>5. /\ prev_entity_index \in 0 .. n + 1
        /\ version \in Versions /\ from_version \in Versions
        /\ opts \in {"api", "dxf", "import", "file"}
        /\ opts = "import" => reader.fn = "none" /\ prev_entity_index = 0
    BY <1>1, <1>2, <1>6 DEF Types
  <2> QED
    BY <1>3, <1>6, <1>7, <2>1, <2>2, <2>3, <2>4, <2>5 DEF Types
<1>11. (\A c \in Blocks : OwnedOnce(object, c))'
  <2>1. ASSUME NEW c \in Blocks
        PROVE  /\ \A j, k \in DOMAIN owned'[c] : owned'[c][j] = owned'[c][k] => j = k
               /\ \A j \in DOMAIN owned'[c] :
                    \E o \in DOMAIN object' : /\ object'[o].handle = owned'[c][j]
                                              /\ object'[o].kind = "ENTITY"
                                              /\ object'[o].block = c
    <3>1. OwnedOnce(object, c)
      BY <1>2
    <3>2. PICK s, t, l : s = owned[c] /\ t = owned'[c] /\ l = Len(owned'[c])
      OBVIOUS
    <3>3. /\ l \in Nat /\ Len(s) \in Nat /\ DOMAIN s = 1 .. Len(s)
          /\ \A j \in 1 .. Len(s) : t[j] = s[j] /\ t[j] # h
          /\ \A j \in 1 .. l : j \in DOMAIN s \/ (j = l /\ t[j] = h)
          /\ (kind = "ENTITY" /\ c = b) \/ t = s
      BY <1>8, <3>2 DEF LongerFacts
    <3>4. DOMAIN t = 1 .. l
      <4>1. t \in Seq(H)
        BY <1>7, <3>2
      <4> QED
        BY <3>2, <4>1
    <3>5. \A j, k \in 1 .. l : t[j] = t[k] => j = k
      BY <3>1, <3>2, <3>3 DEF OwnedOnce
    <3>6. ASSUME NEW j \in 1 .. l
          PROVE  \E o \in 1 .. n + 1 : /\ object'[o].handle = t[j]
                                       /\ object'[o].kind = "ENTITY"
                                       /\ object'[o].block = c
      <4>1. CASE j \in DOMAIN s
        <5>1. PICK o \in 1 .. n : /\ object[o].handle = s[j]
                                  /\ object[o].kind = "ENTITY" /\ object[o].block = c
          BY <1>6, <3>1, <3>2, <4>1 DEF OwnedOnce
        <5> QED
          BY <1>6, <3>3, <4>1, <5>1
      <4>2. CASE ~ (j \in DOMAIN s)
        <5>1. t[j] = h /\ c = b
          BY <3>2, <3>3, <4>2
        <5> QED
          BY <1>4, <1>6, <5>1
      <4> QED
        BY <4>1, <4>2
    <3>7. \A j, k \in DOMAIN owned'[c] : owned'[c][j] = owned'[c][k] => j = k
      BY <3>2, <3>4, <3>5
    <3>8. \A j \in DOMAIN owned'[c] :
            \E o \in DOMAIN object' : /\ object'[o].handle = owned'[c][j]
                                      /\ object'[o].kind = "ENTITY"
                                      /\ object'[o].block = c
      BY <1>6, <3>2, <3>4, <3>6
    <3> QED
      BY <3>7, <3>8
  <2> QED
    BY <2>1 DEF OwnedOnce
<1>12. Latest' /\ Sorted' /\ ReaderInv'
  BY <1>2, <1>3 DEF Latest, Sorted, ReaderInv, Types
<1>13. Vectors'
  <2>1. \A c \in Blocks : header'[c].entities = owned'[c]
    <3> TAKE c \in Blocks
    <3>1. header[c].entities = owned[c]
      BY <1>2, <1>3 DEF Vectors
    <3> QED
      BY <1>1, <1>3, <1>7, <3>1 DEF Longer, ImportedHeaders
  <2> QED
    BY <2>1 DEF Vectors
<1>14. \A o \in DOMAIN object' : object'[o].prev = NoRef
  <2>1. \A o \in 1 .. n : object[o].prev = NoRef
    BY <1>2, <1>3, <1>6 DEF Imported
  <2>2. \A o \in DOMAIN object' : o \in 1 .. n \/ o = n + 1
    BY <1>6
  <2> QED
    BY <1>4, <1>6, <2>1, <2>2
<1>15. Imported'
  <2>1. ASSUME version = "R2004", NEW c \in Blocks \ {ModelSpace}
        PROVE  ~ Exists(header'[c].last.to)
    <3>1. ~ Exists(header[c].last.to)
      BY <1>2, <1>3, <2>1 DEF Imported
    <3> QED
      BY <1>3, <2>1, <3>1 DEF ImportedHeaders
  <2> QED
    BY <1>3, <1>14, <2>1 DEF Imported
<1>16. VectorInv'
  <2>1. VectorInv
    BY <1>3 DEF IInv
  <2>2. ASSUME NEW c \in Blocks PROVE LooseEnds(header'[c], owned'[c])
    <3>1. LooseEnds(header[c], owned[c])
      BY <2>1 DEF VectorInv
    <3>2. CASE c # b
      BY <1>3, <1>7, <3>1, <3>2 DEF ImportedHeaders, Longer
    <3>3. CASE c = b
      <4>1. owned'[b] # <<>> /\ owned'[b][Len(owned'[b])] = h
        BY <1>1, <1>8, <3>3 DEF LongerFacts
      <4>2. CASE b = ModelSpace \/ version = "R2000"
        <5>1. header'[b].last.to = h
          BY <1>3, <4>2 DEF ImportedHeaders, Shared
        <5> QED
          BY <3>3, <4>1, <5>1 DEF LooseEnds
      <4>3. CASE ~ (b = ModelSpace \/ version = "R2000")
        <5>1. version = "R2004"
          BY <1>2, <4>3 DEF Types, Versions
        <5>2. ~ Exists(header'[b].last.to)
          BY <1>3, <1>15, <4>3, <5>1 DEF Imported
        <5> QED
          BY <3>3, <4>1, <5>2 DEF LooseEnds
      <4> QED
        BY <4>2, <4>3
    <3> QED
      BY <3>2, <3>3
  <2>3. ASSUME NEW c \in Blocks PROVE FirstReady(object', header'[c], owned'[c])
    BY <1>14 DEF FirstReady
  <2> QED
    BY <2>2, <2>3 DEF VectorInv
<1> QED
  BY <1>3, <1>10, <1>11, <1>12, <1>13, <1>15, <1>16 DEF IInv

(* dwg_fixup_BLOCKS_entities makes the chains from the vectors. *)
MendedDrawing(D, K) ==
  /\ IsDrawing(D) /\ HandlesOf(D) = HandlesOf(object) /\ Len(D) = Len(object)
  /\ DOMAIN D = DOMAIN object
  /\ Unsorted(D) <=> Unsorted(object)
  /\ \A o \in DOMAIN object : D[o].handle = object[o].handle /\ D[o].kind = object[o].kind
  /\ K \in [Blocks -> HeaderSet(HandlesOf(object))]
  /\ \A c \in Blocks :
       /\ OwnedOnce(D, c) /\ K[c].entities = header[c].entities
       /\ Ends(K[c], owned[c]) /\ Chained(D, owned[c]) /\ Saved(D, owned[c])

(* The vectors of a drawing, ready as VectorInv says, become its chains. *)
LEMMA VectorsMended ==
  ASSUME Types, Vectors, \A c \in Blocks : OwnedOnce(object, c), VectorInv,
         version = "R2004" \/ opts # "file"
  PROVE  MendedDrawing(FixedObjects(object, header), FixedHeaders(header))
<1>1. FixReady(object, header)
  BY ReadyFromVectors
<1>2. PICK D, K : D = FixedObjects(object, header) /\ K = FixedHeaders(header)
  OBVIOUS
<1>3. SameDrawing(object, D)
  BY <1>1, <1>2, FixedDrawing
<1>4. IsDrawing(object)
  BY DEF Types
<1>5. /\ IsDrawing(D) /\ HandlesOf(D) = HandlesOf(object) /\ Len(D) = Len(object)
      /\ DOMAIN D = DOMAIN object
      /\ Unsorted(D) <=> Unsorted(object)
      /\ \A c \in Blocks : OwnedOnce(D, c)
  BY <1>3, <1>4, SameDrawingFacts
<1>6. \A o \in DOMAIN object :
        D[o].handle = object[o].handle /\ D[o].kind = object[o].kind
  <2>1. DOMAIN object = 1 .. Len(object)
    BY <1>4, DrawingFacts
  <2> QED
    BY <1>3, <2>1 DEF SameDrawing, SameObject
<1>7. /\ K \in [Blocks -> HeaderSet(HandlesOf(object))]
      /\ \A c \in Blocks : /\ Ends(K[c], owned[c])
                           /\ K[c].entities = header[c].entities
  BY <1>1, <1>2, FixedHeadersFacts
<1>8. ASSUME NEW c \in Blocks PROVE Chained(D, owned[c]) /\ Saved(D, owned[c])
  <2>1. owned[c] # <<>> => FirstReady(object, header[c], owned[c])
    BY DEF VectorInv
  <2>2. FirstSettled(object, owned[c])
    <3> SUFFICES ASSUME NEW i \in DOMAIN object, Len(owned[c]) > 1,
                        object[i].handle = owned[c][1], object[i].nolinks,
                        object[i].prev # NoRef
                 PROVE  FALSE
      BY DEF FirstSettled
    <3>1. owned[c] # <<>>
      OBVIOUS
    <3> QED
      BY <2>1, <3>1 DEF FirstReady
  <2> QED
    BY <1>1, <1>2, <2>2, FixedChain
<1> QED
  BY <1>2, <1>5, <1>6, <1>7, <1>8 DEF MendedDrawing

(* The references of the block headers are references. *)
LEMMA HeaderRefsTypes ==
  ASSUME NEW H, NEW K \in [Blocks -> HeaderSet(H)]
  PROVE  HeaderRefs(K) \subseteq RefSet(H)
BY DEF HeaderRefs, HeaderSet

(* The end of dwg_read_dxf keeps the invariant. *)
LEMMA EndImportKeeps ==
  ASSUME IInv, EndImport
  PROVE  IInv'
<1>1. /\ Types /\ Vectors /\ VectorInv /\ Imported
      /\ \A c \in Blocks : OwnedOnce(object, c)
  BY DEF IInv, EndImport
<1>2. PICK H : H = HandlesOf(object)
  OBVIOUS
<1>3. /\ opts = "import" /\ opts' = "dxf" /\ resolved' = HeaderRefs(header)
      /\ UNCHANGED <<version, from_version, prev_entity_index, owned, reloads, reader>>
  BY DEF EndImport
<1>4. /\ reader.fn = "none" /\ prev_entity_index = 0
      /\ IsDrawing(object) /\ header \in [Blocks -> HeaderSet(H)]
      /\ owned \in [Blocks -> Seq(H)] /\ reader \in ReaderSet(Len(object), H)
      /\ version \in Versions /\ from_version \in Versions
  BY <1>1, <1>2, <1>3 DEF Types
<1>5. resolved' \subseteq RefSet(H)
  BY <1>3, <1>4, HeaderRefsTypes
<1>6. \A c \in Blocks : header[c].entities = owned[c]
  BY <1>1, <1>3 DEF Vectors
<1>7. Latest' /\ Imported' /\ Sorted' /\ ReaderInv'
  BY <1>3, <1>4 DEF Latest, Imported, Sorted, ReaderInv
<1>8. CASE version = "R2000"
  <2>1. object' = FixedObjects(object, header) /\ header' = FixedHeaders(header)
    BY <1>8 DEF EndImport
  <2>2. MendedDrawing(object', header')
    BY <1>1, <1>3, <2>1, VectorsMended
  <2>3. /\ IsDrawing(object') /\ HandlesOf(object') = H /\ Len(object') = Len(object)
        /\ header' \in [Blocks -> HeaderSet(H)]
        /\ \A c \in Blocks :
             /\ OwnedOnce(object', c) /\ header'[c].entities = header[c].entities
             /\ Ends(header'[c], owned[c]) /\ Chained(object', owned[c])
             /\ Saved(object', owned[c])
    BY <1>2, <2>2 DEF MendedDrawing
  <2>4. Types'
    <3>1. IsDrawing(object)' /\ 0 \in 0 .. Len(object)
      BY <1>4, <2>3, DrawingFacts
    <3> QED
      BY <1>3, <1>4, <1>5, <2>3, <3>1 DEF Types
  <2>5. (\A c \in Blocks : OwnedOnce(object, c))'
    BY <1>3, <2>3 DEF OwnedOnce
  <2>6. Vectors'
    BY <1>3, <1>6, <2>3 DEF Vectors
  <2>7. ChainInv'
    BY <1>3, <2>3 DEF ChainInv
  <2>8. version' = "R2000" /\ opts' # "import"
    BY <1>3, <1>8
  <2> QED
    BY <1>7, <2>4, <2>5, <2>6, <2>7, <2>8 DEF IInv
<1>9. CASE version = "R2004"
  <2>1. object' = object /\ header' = header
    BY <1>9 DEF EndImport
  <2>2. Types'
    BY <1>1, <1>2, <1>3, <1>4, <1>5, <2>1 DEF Types
  <2>3. (\A c \in Blocks : OwnedOnce(object, c))'
    BY <1>1, <1>3, <2>1 DEF OwnedOnce
  <2>4. Vectors'
    BY <1>3, <1>6, <2>1 DEF Vectors
  <2>5. VectorInv'
    BY <1>1, <1>3, <2>1 DEF VectorInv
  <2>6. version' = "R2004"
    BY <1>3, <1>9
  <2> QED
    BY <1>7, <2>2, <2>3, <2>4, <2>5, <2>6 DEF IInv
<1> QED
  BY <1>4, <1>8, <1>9 DEF Versions

(* So does a conversion to the version with chains. *)
LEMMA DowngradeKeeps ==
  ASSUME IInv, Downgrade
  PROVE  IInv'
<1>1. /\ Types /\ Vectors /\ VectorInv /\ Latest /\ Sorted
      /\ \A c \in Blocks : OwnedOnce(object, c)
  BY DEF IInv, Downgrade
<1>2. PICK H : H = HandlesOf(object)
  OBVIOUS
<1>3. /\ opts # "import" /\ version = "R2004" /\ version' = "R2000"
      /\ reader.fn = "none" /\ resolved' = StillResolved
      /\ object' = FixedObjects(object, header) /\ header' = FixedHeaders(header)
      /\ UNCHANGED <<from_version, opts, prev_entity_index, owned, reloads, reader>>
  BY DEF Downgrade
<1>4. /\ IsDrawing(object) /\ resolved \subseteq RefSet(H)
      /\ owned \in [Blocks -> Seq(H)] /\ reader \in ReaderSet(Len(object), H)
      /\ from_version \in Versions /\ opts \in {"api", "dxf", "import", "file"}
      /\ prev_entity_index \in 0 .. Len(object)
  BY <1>1, <1>2 DEF Types
<1>5. MendedDrawing(object', header')
  BY <1>1, <1>3, VectorsMended
<1>6. /\ IsDrawing(object') /\ HandlesOf(object') = H /\ Len(object') = Len(object)
      /\ DOMAIN object' = DOMAIN object
      /\ Unsorted(object') <=> Unsorted(object)
      /\ \A o \in DOMAIN object : /\ object'[o].handle = object[o].handle
                                  /\ object'[o].kind = object[o].kind
      /\ header' \in [Blocks -> HeaderSet(H)]
      /\ \A c \in Blocks :
           /\ OwnedOnce(object', c) /\ header'[c].entities = header[c].entities
           /\ Ends(header'[c], owned[c]) /\ Chained(object', owned[c])
           /\ Saved(object', owned[c])
  BY <1>2, <1>5 DEF MendedDrawing
<1>7. Types'
  <2>1. IsDrawing(object)' /\ resolved' \subseteq RefSet(H)
    BY <1>3, <1>4, <1>6 DEF StillResolved
  <2> QED
    BY <1>3, <1>4, <1>6, <2>1 DEF Types, Versions
<1>8. (\A c \in Blocks : OwnedOnce(object, c))'
  BY <1>3, <1>6 DEF OwnedOnce
<1>9. Latest'
  <2>1. prev_entity_index # 0 => prev_entity_index \in DOMAIN object
    BY <1>4, DrawingFacts
  <2> QED
    BY <1>1, <1>3, <1>6, <2>1 DEF Latest
<1>10. Vectors'
  <2>1. \A c \in Blocks : header[c].entities = owned[c]
    BY <1>1, <1>3 DEF Vectors
  <2> QED
    BY <1>3, <1>6, <2>1 DEF Vectors
<1>11. ChainInv'
  BY <1>3, <1>6 DEF ChainInv
<1>12. Imported' /\ Sorted' /\ ReaderInv'
  BY <1>1, <1>3, <1>6 DEF Imported, Sorted, ReaderInv
<1> QED
  BY <1>3, <1>7, <1>8, <1>9, <1>10, <1>11, <1>12 DEF IInv

-----------------------------------------------------------------------------
(* Reload, ResolveObjectrefs and EndOfLoop. *)

(* What dwg_write_file and dwg_read_file leave is a drawing, with or        *)
(* without chains that lead through it.                                    *)
LEMMA ReloadTypes ==
  ASSUME Types, Reload, WrittenFixed => FixReady(object, header)
  PROVE  Types'
<1>1. PICK H, W, K : H = HandlesOf(object) /\ W = Written /\ K = WrittenHeaders
  OBVIOUS
<1>2. /\ object' = FileObjects /\ header' = FileHeaders
      /\ resolved' = HeaderRefs(FileHeaders) /\ from_version' = version
      /\ opts' = "file" /\ prev_entity_index' = 0
      /\ UNCHANGED <<version, owned, reader>>
  BY DEF Reload
<1>3. /\ IsDrawing(W) /\ HandlesOf(W) = H /\ Len(W) = Len(object)
      /\ DOMAIN W = DOMAIN object /\ K \in [Blocks -> HeaderSet(H)]
  <2>1. IsDrawing(object) /\ header \in [Blocks -> HeaderSet(H)]
    BY <1>1 DEF Types
  <2>2. CASE ~ WrittenFixed
    BY <1>1, <2>1, <2>2 DEF Written, WrittenHeaders
  <2>3. CASE WrittenFixed
    <3>1. W = FixedObjects(object, header) /\ K = FixedHeaders(header)
      BY <1>1, <2>3 DEF Written, WrittenHeaders
    <3>2. SameDrawing(object, W)
      BY <2>3, <3>1, FixedDrawing
    <3>3. K \in [Blocks -> HeaderSet(H)]
      BY <1>1, <2>3, <3>1, FixedHeadersFacts
    <3> QED
      BY <1>1, <2>1, <3>2, <3>3, SameDrawingFacts
  <2> QED
    BY <2>2, <2>3
<1>4. version \in Versions
  BY DEF Types
<1>5. object' = FileOf(W)
  BY <1>1, <1>2, <1>3 DEF FileObjects, FileOf, Written, Objects
<1>6. IsDrawing(object') /\ HandlesOf(object') = H /\ Len(object') = Len(object)
  BY <1>3, <1>4, <1>5, FiledObjects DEF FiledDrawing
<1>7. header' \in [Blocks -> HeaderSet(H)]
  <2>1. ASSUME NEW b \in Blocks PROVE ReadHeader(K[b]) \in HeaderSet(H)
    BY <1>3, <1>4, ReadHeaderFacts
  <2>2. header' = [b \in Blocks |-> ReadHeader(K[b])]
    BY <1>1, <1>2 DEF FileHeaders, WrittenHeaders
  <2> QED
    BY <2>1, <2>2
<1>8. IsDrawing(object)' /\ 0 \in 0 .. Len(object)
  BY <1>6, DrawingFacts DEF Types
<1>9. resolved' \subseteq RefSet(H)
  BY <1>2, <1>7, HeaderRefsTypes
<1>10. /\ owned \in [Blocks -> Seq(H)] /\ reader \in ReaderSet(Len(object), H)
  BY <1>1 DEF Types
<1> QED
  BY <1>2, <1>4, <1>6, <1>7, <1>8, <1>9, <1>10 DEF Types

(* So does a file that is written and read. *)
LEMMA ReloadKeeps ==
  ASSUME IInv, Reload, ~ ExtendedUnsorted
  PROVE  IInv'
<1>1. Types /\ Vectors
  BY DEF IInv
<1>2. PICK H : H = HandlesOf(object)
  OBVIOUS
<1>3. /\ opts # "import" /\ reader.fn = "none"
      /\ object' = FileObjects /\ header' = FileHeaders
      /\ resolved' = HeaderRefs(FileHeaders) /\ from_version' = version
      /\ opts' = "file" /\ prev_entity_index' = 0
      /\ UNCHANGED <<version, owned, reader>>
  BY DEF Reload
<1>4. ~ (version = "R2000" /\ Extended /\ Unsorted(object))
  BY DEF ExtendedUnsorted, Extended, Unsorted, Objects
<1>5. FileIs(object', header')
  BY <1>3, <1>4, FileFacts
<1>6. /\ IsDrawing(object') /\ HandlesOf(object') = H /\ Len(object') = Len(object)
      /\ ~ Unsorted(object')
      /\ header' \in [Blocks -> HeaderSet(H)]
      /\ \A c \in Blocks : OwnedOnce(object', c)
  BY <1>2, <1>5 DEF FileIs
<1>7. ASSUME version = "R2000", NEW c \in Blocks
      PROVE  /\ Ends(header'[c], owned[c]) /\ Chained(object', owned[c])
             /\ Saved(object', owned[c]) /\ header'[c].entities = <<>>
  BY <1>5, <1>7 DEF FileIs
<1>8. ASSUME version = "R2004", NEW c \in Blocks
      PROVE  /\ header'[c].entities = header[c].entities
             /\ header'[c].first.to = NoRef /\ header'[c].last.to = NoRef
             /\ \A o \in DOMAIN object' : object'[o].prev = NoRef
  BY <1>5, <1>8 DEF FileIs
<1>9. version \in {"R2000", "R2004"}
  BY <1>1 DEF Types, Versions
<1>10. Types'
  <2>1. WrittenFixed => FixReady(object, header)
    BY <1>1, ReadyFromVectors DEF IInv, WrittenFixed
  <2> QED
    BY <1>1, <2>1, ReloadTypes
<1>11. (\A c \in Blocks : OwnedOnce(object, c))'
  BY <1>3, <1>6 DEF OwnedOnce
<1>12. Vectors'
  <2>1. ASSUME NEW c \in Blocks, owned[c] = <<>> PROVE header'[c].entities = <<>>
    <3>1. header[c].entities = <<>>
      BY <1>1, <2>1 DEF Vectors
    <3> QED
      BY <1>7, <1>8, <1>9, <3>1
  <2>2. ASSUME version = "R2004", NEW c \in Blocks PROVE header'[c].entities = owned[c]
    <3>1. header[c].entities = owned[c]
      BY <1>1, <2>2 DEF Vectors
    <3> QED
      BY <1>8, <2>2, <3>1
  <2> QED
    BY <1>3, <2>1, <2>2 DEF Vectors
<1>13. Latest' /\ Imported' /\ Sorted' /\ ReaderInv'
  BY <1>3, <1>6 DEF Latest, Imported, Sorted, ReaderInv
<1>14. ASSUME version = "R2000" PROVE ChainInv'
  BY <1>3, <1>7, <1>14 DEF ChainInv
<1>15. ASSUME version = "R2004" PROVE VectorInv'
  <2>1. ASSUME NEW c \in Blocks
        PROVE  LooseEnds(header'[c], owned[c]) /\ FirstReady(object', header'[c], owned[c])
    <3>1. /\ header'[c].first.to = NoRef /\ header'[c].last.to = NoRef
          /\ \A o \in DOMAIN object' : object'[o].prev = NoRef
      BY <1>8, <1>15
    <3>2. LooseEnds(header'[c], owned[c])
      BY <3>1 DEF LooseEnds, Exists
    <3>3. FirstReady(object', header'[c], owned[c])
      BY <3>1 DEF FirstReady
    <3> QED
      BY <3>2, <3>3
  <2> QED
    BY <1>3, <2>1 DEF VectorInv
<1> QED
  BY <1>3, <1>10, <1>11, <1>12, <1>13, <1>14, <1>15 DEF IInv

(* References are resolved: the types after it. *)
LEMMA ResolveTypes ==
  ASSUME Types, ResolveObjectrefs
  PROVE  Types'
<1>1. /\ resolved' = resolved \cup HeaderRefs(header)
      /\ UNCHANGED <<object, header, version, from_version, opts,
                     prev_entity_index, owned, reader>>
  BY DEF ResolveObjectrefs
<1>2. PICK H : H = HandlesOf(object)
  OBVIOUS
<1>3. header \in [Blocks -> HeaderSet(H)] /\ resolved \subseteq RefSet(H)
  BY <1>2 DEF Types
<1>4. resolved' \subseteq RefSet(H)
  BY <1>1, <1>3, HeaderRefsTypes
<1> QED
  BY <1>1, <1>2, <1>4 DEF Types

(* Resolved references keep the invariant. *)
LEMMA ResolveKeeps ==
  ASSUME IInv, ResolveObjectrefs
  PROVE  IInv'
<1>1. /\ opts # "import" /\ resolved' = resolved \cup HeaderRefs(header)
      /\ UNCHANGED <<object, header, version, from_version, opts,
                     prev_entity_index, owned, reloads, reader>>
  BY DEF ResolveObjectrefs
<1>2. Types /\ ReaderInv
  BY DEF IInv
<1>3. Types'
  BY <1>2, ResolveTypes
<1>4. ReaderInv'
  BY <1>1, <1>2 DEF ReaderInv
<1>5. (\A b \in Blocks : OwnedOnce(object, b))' /\ Latest' /\ Vectors' /\ Imported' /\ Sorted'
  BY <1>1 DEF IInv, OwnedOnce, Latest, Vectors, Imported, Sorted
<1>6. /\ (version = "R2000" /\ opts # "import" => ChainInv)'
      /\ (version = "R2004" \/ opts = "import" => VectorInv)'
  BY <1>1 DEF IInv, ChainInv, VectorInv, Extended
<1> QED
  BY <1>3, <1>4, <1>5, <1>6 DEF IInv

(* An iteration ends: the types after it. *)
LEMMA EndOfLoopTypes ==
  ASSUME Types, EndOfLoop
  PROVE  Types'
<1>1. /\ reader' = NoReader
      /\ UNCHANGED <<object, header, resolved, version, from_version, opts,
                     prev_entity_index, owned>>
  BY DEF EndOfLoop
<1>2. PICK H, n : H = HandlesOf(object) /\ n = Len(object)
  OBVIOUS
<1>3. n \in Nat
  BY <1>2, DrawingFacts DEF Types
<1>4. NoReader \in ReaderSet(n, H)
  BY <1>3, BlocksType DEF NoReader, ReaderSet
<1>5. NoReader.fn = "none"
  BY DEF NoReader
<1> QED
  BY <1>1, <1>2, <1>4, <1>5 DEF Types

(* So does the end of an iteration. *)
LEMMA EndOfLoopKeeps ==
  ASSUME IInv, EndOfLoop
  PROVE  IInv'
<1>1. /\ reader' = NoReader
      /\ UNCHANGED <<object, header, resolved, version, from_version, opts,
                     prev_entity_index, owned, reloads>>
  BY DEF EndOfLoop
<1>2. Types
  BY DEF IInv
<1>3. Types'
  BY <1>2, EndOfLoopTypes
<1>4. ReaderInv'
  BY <1>1 DEF ReaderInv, NoReader
<1>5. (\A b \in Blocks : OwnedOnce(object, b))' /\ Latest' /\ Vectors' /\ Imported' /\ Sorted'
  BY <1>1 DEF IInv, OwnedOnce, Latest, Vectors, Imported, Sorted
<1>6. /\ (version = "R2000" /\ opts # "import" => ChainInv)'
      /\ (version = "R2004" \/ opts = "import" => VectorInv)'
  BY <1>1 DEF IInv, ChainInv, VectorInv, Extended
<1> QED
  BY <1>3, <1>4, <1>5, <1>6 DEF IInv

(* The iteration moves the position in the block header, no more. *)
Moved(b, m, K) ==
  /\ \A c \in Blocks : /\ K[c].first = header[c].first /\ K[c].last = header[c].last
                       /\ K[c].entities = header[c].entities
  /\ version = "R2004" => K[b].iterator = m
  /\ version = "R2000" => K = header
  /\ K \in [Blocks -> HeaderSet(HandlesOf(object))]

MovedHeader(b, m) ==
  IF version = "R2004" THEN [header EXCEPT ![b].iterator = m] ELSE header

(* The position is no part of the chain or of the vector. *)
LEMMA IteratorMoved ==
  ASSUME Types, NEW b \in Blocks, NEW m \in Nat, NEW K, K = MovedHeader(b, m)
  PROVE  Moved(b, m, K)
<1>1. PICK H : H = HandlesOf(object)
  OBVIOUS
<1>2. header \in [Blocks -> HeaderSet(H)]
  BY <1>1 DEF Types
<1>3. CASE version = "R2004"
  <2>1. K = [header EXCEPT ![b].iterator = m]
    BY <1>3 DEF MovedHeader
  <2>2. \A c \in Blocks \ {b} : K[c] = header[c]
    BY <1>2, <2>1
  <2>3. K[b] = [header[b] EXCEPT !.iterator = m] /\ header[b] \in HeaderSet(H)
    BY <1>2, <2>1
  <2>4. /\ K[b].first = header[b].first /\ K[b].last = header[b].last
        /\ K[b].entities = header[b].entities /\ K[b].iterator = m
        /\ K[b] \in HeaderSet(H)
    BY <2>3 DEF HeaderSet
  <2>5. K \in [Blocks -> HeaderSet(H)]
    <3>1. K = [c \in Blocks |-> K[c]]
      BY <1>2, <2>1
    <3>2. \A c \in Blocks : K[c] \in HeaderSet(H)
      BY <1>2, <2>2, <2>4
    <3> QED
      BY <3>1, <3>2
  <2> QED
    BY <1>1, <1>3, <2>2, <2>4, <2>5 DEF Moved
<1>4. CASE version # "R2004"
  <2>1. K = header
    BY <1>4 DEF MovedHeader
  <2> QED
    BY <1>1, <1>2, <1>4, <2>1 DEF Moved
<1> QED
  BY <1>3, <1>4

(* A step of an iteration keeps all of the invariant but its own part. *)
LEMMA IterationKeeps ==
  ASSUME IInv, opts # "import", NEW b \in Blocks, NEW m \in Nat,
         header' = MovedHeader(b, m),
         UNCHANGED <<object, resolved, version, from_version, opts,
                     prev_entity_index, owned, reloads>>,
         reader' \in ReaderSet(Len(object), HandlesOf(object)), ReaderInv'
  PROVE  IInv'
<1>1. Types
  BY DEF IInv
<1>2. Moved(b, m, header')
  BY <1>1, IteratorMoved
<1>3. /\ header' \in [Blocks -> HeaderSet(HandlesOf(object))]
      /\ \A c \in Blocks : /\ header'[c].first = header[c].first
                           /\ header'[c].last = header[c].last
                           /\ header'[c].entities = header[c].entities
  BY <1>2 DEF Moved
<1>4. Types'
  BY <1>1, <1>3 DEF Types
<1>5. (\A c \in Blocks : OwnedOnce(object, c))' /\ Latest' /\ Imported' /\ Sorted'
  BY DEF IInv, OwnedOnce, Latest, Imported, Sorted
<1>6. Vectors'
  BY <1>3 DEF IInv, Vectors
<1>7. (version = "R2000" /\ opts # "import" => ChainInv)'
  BY <1>3 DEF IInv, ChainInv, Ends, Extended
<1>8. (version = "R2004" \/ opts = "import" => VectorInv)'
  <2>1. ASSUME version = "R2004", NEW c \in Blocks
        PROVE  /\ LooseEnds(header'[c], owned[c])
               /\ owned[c] # <<>> => FirstReady(object, header'[c], owned[c])
    <3>1. /\ LooseEnds(header[c], owned[c])
          /\ owned[c] # <<>> => FirstReady(object, header[c], owned[c])
      BY <2>1 DEF IInv, VectorInv
    <3> QED
      BY <1>3, <3>1 DEF LooseEnds, FirstReady
  <2> QED
    BY <2>1 DEF VectorInv
<1> QED
  BY <1>4, <1>5, <1>6, <1>7, <1>8 DEF IInv

(* The object a reference leads to. *)
LEMMA IndexTypes ==
  ASSUME Types, NEW ref
  PROVE  /\ Index(ref) \in 0 .. Len(object)
         /\ Index(ref) # 0 => object[Index(ref)].handle \in HandlesOf(object)
         /\ ~ Exists(ref) => Index(ref) = 0
<1>1. /\ Numbered(object) /\ Len(object) \in Nat /\ DOMAIN object = 1 .. Len(object)
      /\ HandlesOf(object) \subseteq Nat \ {0}
      /\ \A o \in 1 .. Len(object) : object[o].handle \in HandlesOf(object)
  BY DrawingFacts DEF Types
<1>2. Index(ref) \in 0 .. Len(object)
  BY <1>1, IndexFacts DEF Index
<1>3. Index(ref) # 0 => Index(ref) \in 1 .. Len(object)
  BY <1>1, <1>2
<1>4. ASSUME ~ Exists(ref) PROVE Index(ref) = 0
  <2>1. ~ (ref \in HandlesOf(object))
    BY <1>1, <1>4 DEF Exists, NoRef, NullRef
  <2> QED
    BY <1>1, <2>1, NoHandle DEF Index
<1> QED
  BY <1>1, <1>2, <1>3, <1>4

(* dwg_next_entity gives an object or none. *)
LEMMA NextTypes ==
  ASSUME Types, NEW i \in 1 .. Len(object)
  PROVE  NextEntity(object, i) \in 0 .. Len(object)
<1>1. PICK n \in Nat : n = Len(object)
  BY DrawingFacts DEF Types
<1>2. PICK B : B = {j \in i + 1 .. n : IsEntity(object[j])}
  OBVIOUS
<1>3. IndexIn(object, object[i].next) \in 0 .. n
  BY <1>1, IndexTypes DEF Index
<1>4. B # {} => Min(B) \in 0 .. n
  <2>1. B \subseteq 0 .. n /\ B \subseteq Nat
    BY <1>1, <1>2
  <2>2. B # {} => Min(B) \in B
    BY <2>1, LeastExists
  <2> QED
    BY <2>1, <2>2
<1> QED
  BY <1>1, <1>2, <1>3, <1>4 DEF NextEntity

(* What the cached pointer of a reference leads to. *)
LEMMA CachedFacts ==
  ASSUME Types, NEW ref
  PROVE  /\ Cached(ref) \in 0 .. Len(object)
         /\ ref \in resolved => Cached(ref) = Index(ref.to)
         /\ ~ Exists(ref.to) => Cached(ref) = 0
<1>1. Len(object) \in Nat
  BY DrawingFacts DEF Types
<1> QED
  BY <1>1, IndexTypes DEF Cached

-----------------------------------------------------------------------------
(* GetFirst *)

FirstAt(b) ==
  IF version = "R2000" THEN Cached(header[b].first)
  ELSE IF header[b].entities = <<>> THEN 0
  ELSE Index(header[b].entities[1])

SettledNow == version = "R2004" \/ HeaderRefs(header) \subseteq resolved

(* The references of a block header that are resolved lead to the ends.    *)
LEMMA SettledEnds ==
  ASSUME IInv, version = "R2000", opts # "import", NEW b \in Blocks,
         HeaderRefs(header) \subseteq resolved
  PROVE  IF owned[b] = <<>>
           THEN Cached(header[b].first) = 0
           ELSE /\ Cached(header[b].first) = Index(owned[b][1])
                /\ Cached(header[b].last) = Index(owned[b][Len(owned[b])])
                /\ header[b].last.to # NoRef
<1>1. Types /\ Ends(header[b], owned[b])
  BY DEF IInv, ChainInv
<1>2. PICK t, l : t = owned[b] /\ l = Len(owned[b])
  OBVIOUS
<1>3. CASE t = <<>>
  <2>1. ~ Exists(header[b].first.to)
    BY <1>1, <1>2, <1>3 DEF Ends
  <2> QED
    BY <1>1, <1>2, <1>3, <2>1, CachedFacts
<1>4. CASE t # <<>>
  <2>1. header[b].first.to = t[1] /\ header[b].last.to = t[l]
    BY <1>1, <1>2, <1>4 DEF Ends
  <2>2. l \in Nat /\ DOMAIN t = 1 .. l /\ l \in DOMAIN t
        /\ \A j \in DOMAIN t : t[j] \in HandlesOf(object)
    BY <1>1, <1>2, <1>4, OwnedList
  <2>3. t[1] \in HandlesOf(object) /\ t[l] \in HandlesOf(object)
    BY <2>2
  <2>4. Exists(t[1]) /\ Exists(t[l])
    BY <1>1, <2>3, HandlesExist DEF Types
  <2>5. header[b].first \in resolved /\ header[b].last \in resolved
    <3>1. header[b].first \in HeaderRefs(header) /\ header[b].last \in HeaderRefs(header)
      BY <2>1, <2>4 DEF HeaderRefs
    <3> QED
      BY <3>1
  <2>6. Cached(header[b].first) = Index(t[1]) /\ Cached(header[b].last) = Index(t[l])
    BY <1>1, <2>1, <2>5, CachedFacts
  <2> QED
    BY <1>2, <1>4, <2>1, <2>4, <2>6 DEF Exists
<1> QED
  BY <1>3, <1>4

(* get_first_owned_entity keeps the invariant. *)
LEMMA GetFirstKeeps ==
  ASSUME IInv, NEW b \in Blocks, NEW fn \in {"entity", "block_entity"}, GetFirst(b, fn)
  PROVE  IInv'
<1>1. PICK n, H, f, t, s :
        /\ n = Len(object) /\ H = HandlesOf(object) /\ f = FirstAt(b) /\ t = owned[b]
        /\ s = IF f = 0 THEN <<>> ELSE <<object[f].handle>>
  OBVIOUS
<1>2. Types
  BY DEF IInv
<1>3. PICK u \in BOOLEAN : u <=> SettledNow
  BY DEF SettledNow
<1>4. /\ opts # "import" /\ header' = MovedHeader(b, 0)
      /\ reader' = [block |-> b, at |-> f, fn |-> fn, seen |-> s, settled |-> u]
      /\ UNCHANGED <<object, resolved, version, from_version, opts,
                     prev_entity_index, owned, reloads>>
  BY <1>1, <1>3 DEF GetFirst, FirstAt, SettledNow, MovedHeader
<1>5. f \in 0 .. n /\ (f # 0 => object[f].handle \in H)
  <2>1. Cached(header[b].first) \in 0 .. n
    BY <1>1, <1>2, CachedFacts
  <2>2. Index(header[b].entities[1]) \in 0 .. n /\ 0 \in 0 .. n
    BY <1>1, <1>2, <2>1, IndexTypes
  <2>3. f \in 0 .. n
    BY <1>1, <2>1, <2>2 DEF FirstAt
  <2>4. \A o \in 1 .. n : object[o].handle \in H
    BY <1>1, <1>2, DrawingFacts DEF Types
  <2> QED
    BY <2>3, <2>4
<1>6. s \in Seq(H)
  BY <1>1, <1>5
<1>7. reader' \in ReaderSet(n, H)
  BY <1>3, <1>4, <1>5, <1>6 DEF ReaderSet
<1>8. ASSUME u PROVE IF t = <<>> THEN f = 0 ELSE f # 0 /\ object[f].handle = t[1]
  <2>1. ASSUME t # <<>>
        PROVE  Index(t[1]) # 0 /\ object[Index(t[1])].handle = t[1]
    <3>1. 1 \in DOMAIN owned[b]
      BY <1>1, <1>2, <2>1, OwnedList
    <3>2. OwnedOnce(object, b) /\ IsDrawing(object)
      BY <1>2 DEF IInv, Types
    <3> QED
      BY <1>1, <3>1, <3>2, OwnedObject DEF Index
  <2>2. f = IF t = <<>> THEN 0 ELSE Index(t[1])
    <3>1. CASE version = "R2000"
      <4>1. HeaderRefs(header) \subseteq resolved
        BY <1>3, <1>8, <3>1 DEF SettledNow
      <4> QED
        BY <1>1, <1>4, <3>1, <4>1, SettledEnds DEF FirstAt
    <3>2. CASE version = "R2004"
      <4>1. header[b].entities = t
        BY <1>1, <3>2 DEF IInv, Vectors
      <4> QED
        BY <1>1, <3>2, <4>1 DEF FirstAt
    <3> QED
      BY <1>2, <3>1, <3>2 DEF Types, Versions
  <2> QED
    BY <2>1, <2>2
<1>9. Moved(b, 0, header')
  BY <1>2, <1>4, IteratorMoved
<1>10. ReaderInv'
  <2>1. PICK r : r = reader'
    OBVIOUS
  <2>2. r.block = b /\ r.at = f /\ r.seen = s /\ r.settled = u
    BY <1>4, <2>1
  <2>3. version = "R2004" => u
    BY <1>3 DEF SettledNow
  <2>4. ASSUME u
        PROVE  /\ Len(s) <= Len(t)
               /\ \A j \in 1 .. Len(s) : s[j] = t[j]
               /\ f = 0 => Len(s) = Len(t)
               /\ f # 0 => Len(s) = 1 /\ object[f].handle = t[Len(s)]
    <3>1. Len(t) \in Nat /\ DOMAIN t = 1 .. Len(t) /\ (t # <<>> => Len(t) \in DOMAIN t)
      BY <1>1, <1>2, OwnedList
    <3>2. CASE t = <<>>
      <4>1. f = 0 /\ s = <<>>
        BY <1>1, <1>8, <2>4, <3>2
      <4> QED
        BY <3>2, <4>1
    <3>3. CASE t # <<>>
      <4>1. f # 0 /\ object[f].handle = t[1]
        BY <1>8, <2>4, <3>3
      <4>2. s = <<t[1]>>
        BY <1>1, <4>1
      <4>3. Len(s) = 1 /\ s[1] = t[1] /\ Len(t) >= 1
        BY <3>1, <3>3, <4>2
      <4> QED
        BY <4>1, <4>3
    <3> QED
      BY <3>2, <3>3
  <2>5. version = "R2004" => header'[b].iterator = 0
    BY <1>9 DEF Moved
  <2>6. version = "R2000" /\ u => HeaderRefs(header') \subseteq resolved
    <3>1. version = "R2000" => header' = header
      BY <1>9 DEF Moved
    <3> QED
      BY <1>3, <3>1 DEF SettledNow
  <2> QED
    BY <1>1, <1>4, <2>1, <2>2, <2>3, <2>4, <2>5, <2>6 DEF ReaderInv
<1> QED
  <2>1. 0 \in Nat
    OBVIOUS
  <2> QED
    BY <1>1, <1>4, <1>7, <1>10, <2>1, IterationKeeps

-----------------------------------------------------------------------------
(* GetNext *)

NextAt(b) ==
  LET entities == header[b].entities
      iterator == header[b].iterator + 1
  IN  IF version = "R2000" THEN NextInChain(b, reader.at, reader.fn)
      ELSE IF iterator = Len(entities) THEN 0
      ELSE Index(entities[iterator + 1])

(* The next entity of an iteration is an object, or there is none. *)
LEMMA NextAtTypes ==
  ASSUME Types, NEW b, reader.at \in 1 .. Len(object)
  PROVE  NextAt(b) \in 0 .. Len(object)
<1>1. PICK n \in Nat : n = Len(object)
  BY DrawingFacts DEF Types
<1>2. NextEntity(object, reader.at) \in 0 .. n
  BY <1>1, NextTypes
<1>3. NextInChain(b, reader.at, reader.fn) \in 0 .. n
  BY <1>2 DEF NextInChain
<1>4. \A ref : Index(ref) \in 0 .. n
  BY <1>1, IndexTypes
<1> QED
  BY <1>1, <1>3, <1>4 DEF NextAt

(* An iteration through resolved references goes from an entity of the     *)
(* block to the one that was added after it, and ends behind the last.     *)
LEMMA NextAtOwned ==
  ASSUME IInv, opts # "import", reader.fn # "none", reader.at # 0, reader.settled,
         NEW b, NEW k, b = reader.block, k = Len(reader.seen)
  PROVE  /\ k \in 1 .. Len(owned[b])
         /\ version = "R2004" => header[b].iterator + 1 = k
         /\ IF k = Len(owned[b]) THEN NextAt(b) = 0
            ELSE /\ NextAt(b) # 0 /\ NextAt(b) \in DOMAIN object
                 /\ object[NextAt(b)].handle = owned[b][k + 1]
<1>1. PICK t, l, i : t = owned[b] /\ l = Len(owned[b]) /\ i = reader.at
  OBVIOUS
<1>2. Types /\ OwnedOnce(object, b) /\ b \in Blocks /\ k \in Nat
  BY ReaderFields DEF IInv
<1>3. IsDrawing(object) /\ Numbered(object) /\ DOMAIN object = 1 .. Len(object)
      /\ Len(object) \in Nat
  BY <1>2, DrawingFacts DEF Types
<1>4. i \in 1 .. Len(object) /\ i \in DOMAIN object
  BY <1>1, <1>2, <1>3, ReaderFields
<1>5. l \in Nat /\ DOMAIN t = 1 .. l
  BY <1>1, <1>2, OwnedList
<1>6. /\ k \in 1 .. l /\ object[i].handle = t[k]
      /\ version = "R2004" => header[b].iterator + 1 = k
      /\ version = "R2000" => HeaderRefs(header) \subseteq resolved
  <2>1. /\ k <= l /\ k # 0 /\ object[i].handle = t[k]
        /\ version = "R2004" => header[b].iterator + 1 = k
        /\ version = "R2000" => HeaderRefs(header) \subseteq resolved
    BY <1>1 DEF IInv, ReaderInv
  <2> QED
    BY <1>2, <1>5, <2>1
<1>7. i = Index(t[k])
  BY <1>3, <1>4, <1>6, AtHandle DEF Index
<1>8. \A j \in 1 .. l : /\ Index(t[j]) \in DOMAIN object /\ Index(t[j]) # 0
                        /\ object[Index(t[j])].handle = t[j]
                        /\ object[Index(t[j])].block = b
  BY <1>1, <1>2, <1>3, <1>5, OwnedObject DEF Index
<1>9. ASSUME k < l PROVE k + 1 \in 1 .. l /\ k \in 1 .. l - 1
  BY <1>2, <1>5, <1>6, <1>9
<1>10. NextAt(b) = IF k = l THEN 0 ELSE Index(t[k + 1])
  <2>1. CASE version = "R2004"
    <3>1. header[b].entities = t
      BY <1>1, <1>2, <2>1 DEF IInv, Vectors
    <3>2. header[b].iterator + 1 = k
      BY <1>6, <2>1
    <3> QED
      BY <1>1, <2>1, <3>1, <3>2 DEF NextAt
  <2>2. CASE version = "R2000"
    <3>1. /\ Cached(header[b].last) = Index(t[l]) /\ header[b].last.to # NoRef
      <4>1. t # <<>>
        BY <1>5, <1>6
      <4>2. HeaderRefs(header) \subseteq resolved
        BY <1>6, <2>2
      <4> QED
        BY <1>1, <1>2, <2>2, <4>1, <4>2, SettledEnds
    <3>2. NextAt(b) = NextInChain(b, i, reader.fn)
      BY <1>1, <2>2 DEF NextAt
    <3>3. CASE k = l
      <4>1. i = Cached(header[b].last)
        BY <1>7, <3>1, <3>3
      <4> QED
        BY <3>2, <3>3, <4>1 DEF NextInChain
    <3>4. CASE k # l
      <4>1. k < l
        BY <1>2, <1>5, <1>6, <3>4
      <4>2. k + 1 \in 1 .. l /\ k \in 1 .. l - 1 /\ l \in 1 .. l
        BY <1>5, <1>9, <4>1
      <4>3. i # Cached(header[b].last)
        <5>1. t[l] # t[k]
          BY <1>1, <1>2, <1>5, <1>6, <3>4, <4>2 DEF OwnedOnce
        <5> QED
          BY <1>6, <1>8, <3>1, <4>2, <5>1
      <4>4. NextEntity(object, i) = Index(t[k + 1])
        <5>1. Chained(object, owned[b])
          BY <1>2, <2>2 DEF IInv, ChainInv
        <5> QED
          BY <1>1, <1>2, <1>3, <1>5, <1>7, <4>2, <5>1, NextOwned DEF Index
      <4>5. ~ Foreign(Index(t[k + 1]), b)
        BY <1>8, <4>2 DEF Foreign
      <4>6. NextInChain(b, i, reader.fn) = Index(t[k + 1])
        BY <3>1, <4>3, <4>4, <4>5 DEF NextInChain
      <4> QED
        BY <3>2, <3>4, <4>6
    <3> QED
      BY <3>3, <3>4
  <2> QED
    BY <1>2, <2>1, <2>2 DEF Types, Versions
<1>11. CASE k = l
  BY <1>1, <1>6, <1>10, <1>11
<1>12. CASE k # l
  <2>1. k < l
    BY <1>2, <1>5, <1>6, <1>12
  <2>2. k + 1 \in 1 .. l
    BY <1>9, <2>1
  <2>3. NextAt(b) = Index(t[k + 1])
    BY <1>10, <1>12
  <2>4. /\ NextAt(b) # 0 /\ NextAt(b) \in DOMAIN object
        /\ object[NextAt(b)].handle = t[k + 1]
    BY <1>8, <2>2, <2>3
  <2> QED
    BY <1>1, <1>6, <1>12, <2>4
<1> QED
  BY <1>11, <1>12

(* get_next_owned_entity and get_next_owned_block_entity keep it. *)
LEMMA GetNextKeeps ==
  ASSUME IInv, GetNext
  PROVE  IInv'
<1>1. PICK n, H, b, k, f, s, m :
        /\ n = Len(object) /\ H = HandlesOf(object) /\ b = reader.block
        /\ k = Len(reader.seen) /\ f = NextAt(b) /\ m = header[b].iterator + 1
        /\ s = IF f = 0 THEN reader.seen ELSE Append(reader.seen, object[f].handle)
  OBVIOUS
<1>2. Types
  BY DEF IInv
<1>3. /\ b \in Blocks /\ reader.at \in 0 .. n /\ reader.seen \in Seq(H) /\ k \in Nat
      /\ reader \in ReaderSet(n, H) /\ m \in Nat /\ n \in Nat
      /\ \A o \in 1 .. n : object[o].handle \in H
  <2>1. /\ b \in Blocks /\ reader.at \in 0 .. n /\ reader.seen \in Seq(H) /\ k \in Nat
        /\ reader \in ReaderSet(n, H)
    BY <1>1, <1>2, ReaderFields DEF Types
  <2>2. m \in Nat
    BY <1>1, <1>2, <2>1, BlockHeader
  <2> QED
    BY <1>1, <1>2, <2>1, <2>2, DrawingFacts DEF Types
<1>4. /\ reader.fn # "none" /\ reader.at # 0
      /\ header' = MovedHeader(b, m)
      /\ reader' = [reader EXCEPT !.at = f, !.seen = s]
      /\ UNCHANGED <<object, resolved, version, from_version, opts,
                     prev_entity_index, owned, reloads>>
  <2>1. reader.fn # "none" /\ reader.at # 0
        /\ UNCHANGED <<object, resolved, version, from_version, opts,
                       prev_entity_index, owned, reloads>>
    BY DEF GetNext
  <2>2. header' = MovedHeader(b, m)
    BY <1>1 DEF GetNext, MovedHeader
  <2>3. reader' = [reader EXCEPT !.at = f,
                     !.seen = IF f = 0 THEN @ ELSE Append(@, object[f].handle)]
    BY <1>1 DEF GetNext, NextAt
  <2>4. reader' = [reader EXCEPT !.at = f, !.seen = s]
    BY <1>1, <1>3, <2>3 DEF ReaderSet
  <2> QED
    BY <2>1, <2>2, <2>4
<1>5. opts # "import"
  BY <1>2, <1>4 DEF Types
<1>6. f \in 0 .. n
  <2>1. reader.at \in 1 .. Len(object)
    BY <1>1, <1>3, <1>4
  <2> QED
    BY <1>1, <1>2, <2>1, NextAtTypes
<1>7. s \in Seq(H)
  <2>1. f # 0 => object[f].handle \in H
    BY <1>3, <1>6
  <2> QED
    BY <1>1, <1>3, <2>1
<1>8. PICK r : r = reader'
  OBVIOUS
<1>9. /\ r.block = b /\ r.at = f /\ r.seen = s /\ r.settled = reader.settled
      /\ r.fn = reader.fn /\ r \in ReaderSet(n, H)
  BY <1>1, <1>3, <1>4, <1>6, <1>7, <1>8 DEF ReaderSet
<1>10. Moved(b, m, header')
  BY <1>2, <1>3, <1>4, IteratorMoved
<1>11. ReaderInv'
  <2>1. version = "R2004" => r.settled
    BY <1>4, <1>9 DEF IInv, ReaderInv
  <2>2. ASSUME r.settled
        PROVE  /\ Len(s) <= Len(owned[b])
               /\ \A j \in 1 .. Len(s) : s[j] = owned[b][j]
               /\ f = 0 => Len(s) = Len(owned[b])
               /\ f # 0 => /\ Len(s) # 0 /\ object[f].handle = owned[b][Len(s)]
                           /\ version = "R2004" => header'[b].iterator + 1 = Len(s)
               /\ version = "R2000" => HeaderRefs(header') \subseteq resolved
    <3>1. reader.settled
      BY <1>9, <2>2
    <3>2. /\ k \in 1 .. Len(owned[b])
          /\ version = "R2004" => m = k
          /\ IF k = Len(owned[b]) THEN f = 0
             ELSE f # 0 /\ object[f].handle = owned[b][k + 1]
      BY <1>1, <1>4, <1>5, <3>1, NextAtOwned
    <3>3. \A j \in 1 .. k : reader.seen[j] = owned[b][j]
      BY <1>1, <1>4, <3>1 DEF IInv, ReaderInv
    <3>4. Len(owned[b]) \in Nat
      BY <1>2, <1>3, OwnedList
    <3>5. version = "R2000" => HeaderRefs(header') \subseteq resolved
      <4>1. version = "R2000" => header' = header
        BY <1>10 DEF Moved
      <4>2. version = "R2000" => HeaderRefs(header) \subseteq resolved
        BY <1>4, <3>1 DEF IInv, ReaderInv
      <4> QED
        BY <4>1, <4>2
    <3>6. CASE f = 0
      <4>1. s = reader.seen /\ Len(s) = k /\ k = Len(owned[b])
        BY <1>1, <3>2, <3>6
      <4> QED
        BY <3>3, <3>4, <3>5, <3>6, <4>1
    <3>7. CASE f # 0
      <4>1. s = Append(reader.seen, object[f].handle) /\ k # Len(owned[b])
            /\ object[f].handle = owned[b][k + 1]
        BY <1>1, <3>2, <3>7
      <4>2. /\ Len(s) = k + 1 /\ s[k + 1] = owned[b][k + 1]
            /\ \A j \in 1 .. k : s[j] = reader.seen[j]
        BY <1>1, <1>3, <4>1
      <4>3. k + 1 <= Len(owned[b])
        BY <1>3, <3>2, <3>4, <4>1
      <4>4. \A j \in 1 .. k + 1 : s[j] = owned[b][j]
        <5>1. \A j \in 1 .. k + 1 : j \in 1 .. k \/ j = k + 1
          BY <1>3
        <5> QED
          BY <3>3, <4>2, <5>1
      <4>5. version = "R2004" => header'[b].iterator + 1 = k + 1
        BY <1>10, <3>2 DEF Moved
      <4>6. k + 1 # 0
        BY <1>3
      <4> QED
        BY <3>5, <3>7, <4>1, <4>2, <4>3, <4>4, <4>5, <4>6
    <3> QED
      BY <3>6, <3>7
  <2> QED
    BY <1>4, <1>8, <1>9, <2>1, <2>2 DEF ReaderInv
<1>12. reader' \in ReaderSet(Len(object), HandlesOf(object))
  BY <1>1, <1>8, <1>9
<1> QED
  BY <1>3, <1>4, <1>5, <1>11, <1>12, IterationKeeps

-----------------------------------------------------------------------------
(* A chain in a wrong order. *)

(* A file is written and read, and the chain of a block may come into a    *)
(* wrong order.                                                            *)
LEMMA BecomesMisordered ==
  ASSUME IInv, Reload, ExtendedUnsorted
  PROVE  Misordered'
<1>1. version = "R2000" /\ opts = "dxf"
  BY DEF ExtendedUnsorted
<1>2. WrittenFixed => FixReady(object, header)
  BY <1>1, ReadyFromVectors DEF IInv
<1>3. Types'
  BY <1>2, ReloadTypes DEF IInv
<1> QED
  BY <1>1, <1>3 DEF Misordered, Reload

(* An entity is added to such a drawing: no fixup is run. *)
LEMMA AddEntityMisordered ==
  ASSUME Misordered, NEW b \in Blocks, NEW kind \in {"ENTITY", "BLOCK", "ENDBLK"},
         AddEntity(b, kind)
  PROVE  Misordered'
<1>1. PICK n, h, G, H, P, K :
        /\ n = Len(object) /\ h = NextHandle /\ G = HandlesOf(object)
        /\ H = HandlesOf(object) \cup {h}
        /\ P = Placed(b, kind) /\ K = NewHeaders(b, kind)
  OBVIOUS
<1>2. Types /\ ~ NeedsFixup
  BY DEF Misordered, NeedsFixup
<1>3. /\ n < MaxObjects /\ object' = P /\ header' = K
      /\ resolved' \subseteq resolved \cup {header[b].last}
      /\ prev_entity_index' = n + 1
      /\ owned' = IF kind = "ENTITY" THEN [owned EXCEPT ![b] = Append(@, h)] ELSE owned
      /\ reader' = Unsettled
      /\ UNCHANGED <<version, from_version, opts>>
  BY <1>1, <1>2, AddEntitySteps
<1>4. PlacedFacts(P, b, kind, H, n, h) /\ PlacedHeaderIs(PlacedHeader(b, kind), b, kind, h)
  BY <1>1, <1>2, PlacedOne
<1>5. IsDrawing(P) /\ HandlesOf(P) = H
  BY <1>1, <1>2, <1>3, <1>4, PlacedTypes
<1>6. n \in Nat \ {0} /\ Len(P) = n + 1
  BY <1>2, <1>1, <1>4, PlacedHandles DEF PlacedDrawing
<1>7. header' \in [Blocks -> HeaderSet(H)]
  BY <1>1, <1>2, <1>3, <1>4, PlacedHeaders DEF HeadersAre
<1>8. owned' \in [Blocks -> Seq(H)]
  BY <1>1, <1>2, <1>3, AddedLists
<1>9. resolved' \subseteq RefSet(H)
  <2>1. RefSet(G) \subseteq RefSet(H)
    BY <1>1 DEF RefSet
  <2>2. resolved \subseteq RefSet(G) /\ header[b].last \in RefSet(G)
    BY <1>1, <1>2, BlockHeader DEF Types
  <2> QED
    BY <1>3, <2>1, <2>2
<1>10. reader' \in ReaderSet(n + 1, H)
  <2>1. reader' \in ReaderSet(n, G)
    BY <1>1, <1>2, <1>3, UnsettledIs
  <2> QED
    BY <1>1, <1>6, <2>1, WiderReader
<1>11. prev_entity_index' \in 0 .. n + 1
  BY <1>3, <1>6
<1>12. version \in Versions /\ from_version \in Versions /\ opts = "file"
  BY <1>2 DEF Misordered, Types
<1>13. Types'
  BY <1>3, <1>5, <1>6, <1>7, <1>8, <1>9, <1>10, <1>11, <1>12 DEF Types
<1> QED
  BY <1>3, <1>13 DEF Misordered

(* What is written and read again is such a drawing still. *)
LEMMA ReloadMisordered ==
  ASSUME Misordered, Reload
  PROVE  Misordered'
<1>1. ~ WrittenFixed
  BY DEF Misordered, WrittenFixed
<1>2. Types'
  BY <1>1, ReloadTypes DEF Misordered
<1> QED
  BY <1>2 DEF Misordered, Reload

(* An iteration starts in such a drawing, wherever it leads. *)
LEMMA GetFirstMisordered ==
  ASSUME Misordered, NEW b \in Blocks, NEW fn \in {"entity", "block_entity"},
         GetFirst(b, fn)
  PROVE  Misordered'
<1>1. PICK n, H, f, s :
        /\ n = Len(object) /\ H = HandlesOf(object) /\ f = FirstAt(b)
        /\ s = IF f = 0 THEN <<>> ELSE <<object[f].handle>>
  OBVIOUS
<1>2. Types
  BY DEF Misordered
<1>3. PICK u \in BOOLEAN : u <=> SettledNow
  BY DEF SettledNow
<1>4. /\ header' = header
      /\ reader' = [block |-> b, at |-> f, fn |-> fn, seen |-> s, settled |-> u]
      /\ UNCHANGED <<object, resolved, version, from_version, opts,
                     prev_entity_index, owned>>
  BY <1>1, <1>3 DEF GetFirst, FirstAt, SettledNow, Misordered
<1>5. f \in 0 .. n
  BY <1>1, <1>2, CachedFacts DEF FirstAt, Misordered
<1>6. \A o \in 1 .. n : object[o].handle \in H
  BY <1>1, <1>2, DrawingFacts DEF Types
<1>7. s \in Seq(H)
  BY <1>1, <1>5, <1>6
<1>8. reader' \in ReaderSet(n, H)
  BY <1>3, <1>4, <1>5, <1>7 DEF ReaderSet
<1>9. opts = "file"
  BY DEF Misordered
<1>10. Types'
  BY <1>1, <1>2, <1>4, <1>8, <1>9 DEF Types
<1> QED
  BY <1>4, <1>10 DEF Misordered

(* It goes on to an object or ends. *)
LEMMA GetNextMisordered ==
  ASSUME Misordered, GetNext
  PROVE  Misordered'
<1>1. PICK n, H, b, f, s :
        /\ n = Len(object) /\ H = HandlesOf(object) /\ b = reader.block /\ f = NextAt(b)
        /\ s = IF f = 0 THEN reader.seen ELSE Append(reader.seen, object[f].handle)
  OBVIOUS
<1>2. Types
  BY DEF Misordered
<1>3. /\ reader.at \in 0 .. n /\ reader.seen \in Seq(H)
      /\ reader \in ReaderSet(n, H) /\ n \in Nat
      /\ \A o \in 1 .. n : object[o].handle \in H
  <2>1. reader.at \in 0 .. n /\ reader.seen \in Seq(H) /\ reader \in ReaderSet(n, H)
    BY <1>1, <1>2, ReaderFields DEF Types
  <2> QED
    BY <1>1, <1>2, <2>1, DrawingFacts DEF Types
<1>4. /\ reader.at # 0 /\ header' = header
      /\ UNCHANGED <<object, resolved, version, from_version, opts,
                     prev_entity_index, owned>>
  BY DEF GetNext, Misordered
<1>5. reader' = [reader EXCEPT !.at = f, !.seen = s]
  <2>1. reader' = [reader EXCEPT !.at = f,
                     !.seen = IF f = 0 THEN @ ELSE Append(@, object[f].handle)]
    BY <1>1 DEF GetNext, NextAt
  <2> QED
    BY <1>1, <1>3, <2>1 DEF ReaderSet
<1>6. f \in 0 .. n
  <2>1. reader.at \in 1 .. Len(object)
    BY <1>1, <1>3, <1>4
  <2> QED
    BY <1>1, <1>2, <2>1, NextAtTypes
<1>7. s \in Seq(H)
  <2>1. f # 0 => object[f].handle \in H
    BY <1>3, <1>6
  <2> QED
    BY <1>1, <1>3, <2>1
<1>8. reader' \in ReaderSet(n, H)
  BY <1>3, <1>5, <1>6, <1>7 DEF ReaderSet
<1>9. opts = "file"
  BY DEF Misordered
<1>10. Types'
  BY <1>1, <1>2, <1>4, <1>8, <1>9 DEF Types
<1> QED
  BY <1>4, <1>10 DEF Misordered

(* No step mends such a drawing, and none makes its types wrong. *)
LEMMA StaysMisordered ==
  ASSUME Misordered, [Next]_vars
  PROVE  Misordered'
<1>1. Types /\ opts = "file" /\ version = "R2000"
  BY DEF Misordered
<1>2. ASSUME NEW b \in Blocks, NEW kind \in {"ENTITY", "BLOCK", "ENDBLK"},
             AddEntity(b, kind)
      PROVE  Misordered'
  BY <1>2, AddEntityMisordered
<1>3. CASE AddObject
  <2>1. UNCHANGED <<version, from_version, opts>>
    BY <1>3 DEF AddObject
  <2>2. Types'
    BY <1>1, <1>3, AddObjectTypes
  <2> QED
    BY <2>1, <2>2 DEF Misordered
<1>4. ASSUME NEW b \in Blocks, NEW h \in DxfHandles, ImportEntity(b, h)
      PROVE  FALSE
  BY <1>1, <1>4 DEF ImportEntity
<1>5. ~ EndImport /\ ~ Downgrade
  BY <1>1 DEF EndImport, Downgrade
<1>6. CASE Reload
  BY <1>6, ReloadMisordered
<1>7. CASE ResolveObjectrefs
  <2>1. UNCHANGED <<version, from_version, opts>>
    BY <1>7 DEF ResolveObjectrefs
  <2>2. Types'
    BY <1>1, <1>7, ResolveTypes
  <2> QED
    BY <2>1, <2>2 DEF Misordered
<1>8. ASSUME NEW b \in Blocks, NEW fn \in {"entity", "block_entity"}, GetFirst(b, fn)
      PROVE  Misordered'
  BY <1>8, GetFirstMisordered
<1>9. CASE GetNext
  BY <1>9, GetNextMisordered
<1>10. CASE EndOfLoop
  <2>1. UNCHANGED <<version, from_version, opts>>
    BY <1>10 DEF EndOfLoop
  <2>2. Types'
    BY <1>1, <1>10, EndOfLoopTypes
  <2> QED
    BY <2>1, <2>2 DEF Misordered
<1>11. CASE UNCHANGED vars
  <2>1. Types'
    BY <1>1, <1>11 DEF vars, Types
  <2> QED
    BY <1>11, <2>1 DEF vars, Misordered
<1> QED
  BY <1>2, <1>3, <1>4, <1>5, <1>6, <1>7, <1>8, <1>9, <1>10, <1>11 DEF Next

-----------------------------------------------------------------------------
(* The theorems. *)

(* What dwg_add_Document and the DXF reader start with. *)
LEMMA FirstDrawing ==
  ASSUME NEW creation
  PROVE  IsDrawing(FirstObjects(creation)) /\ ~ Unsorted(FirstObjects(creation))
<1>1. PICK D : D = FirstObjects(creation)
  OBVIOUS
<1>2. CASE creation = "dxf"
  <2>1. PICK x : x = NewObject("OBJECT", ModelSpace, 1)
    OBVIOUS
  <2>2. x \in ObjectSet({1}) /\ x.handle = 1
    BY <2>1, BlocksType DEF NewObject, ObjectSet, Kinds, Nulls
  <2>3. D = <<x>>
    BY <1>1, <1>2, <2>1 DEF FirstObjects
  <2>4. HandlesOf(D) = {1}
    BY <2>2, <2>3 DEF HandlesOf
  <2>5. 1 <= MaxObjects /\ 1 \in 1 .. 2 * MaxObjects + 1
    BY BoundsType
  <2>6. D \in Seq(ObjectSet({1})) /\ D # <<>> /\ Len(D) = 1 /\ DOMAIN D = 1 .. 1
    BY <2>2, <2>3
  <2>7. IsDrawing(D)
    BY <2>4, <2>5, <2>6 DEF IsDrawing
  <2>8. ~ Unsorted(D)
    BY <2>6 DEF Unsorted
  <2> QED
    BY <1>1, <2>7, <2>8
<1>3. CASE creation # "dxf"
  <2>1. PICK x, y :
          /\ x = [NewObject("BLOCK", ModelSpace, 1) EXCEPT
                    !.entmode = 2, !.prev = NullRef, !.next = NullRef]
          /\ y = [NewObject("ENDBLK", ModelSpace, 2) EXCEPT !.entmode = 2]
    OBVIOUS
  <2>2. x \in ObjectSet({1, 2}) /\ x.handle = 1
    <3>1. x = [kind |-> "BLOCK", block |-> ModelSpace, ownerhandle |-> TRUE,
               handle |-> 1, entmode |-> 2, prev |-> NullRef, next |-> NullRef,
               nolinks |-> FALSE]
      BY <2>1 DEF NewObject
    <3>2. PICK G : G = {1, 2}
      OBVIOUS
    <3>3. 1 \in G /\ ModelSpace \in Blocks /\ NullRef \in G \cup Nulls
      BY <3>2, BlocksType DEF Nulls
    <3>4. x \in ObjectSet(G)
      BY <3>1, <3>3 DEF ObjectSet, Kinds
    <3> QED
      BY <3>1, <3>2, <3>4
  <2>3. y \in ObjectSet({1, 2}) /\ y.handle = 2
    <3>1. y = [kind |-> "ENDBLK", block |-> ModelSpace, ownerhandle |-> TRUE,
               handle |-> 2, entmode |-> 2, prev |-> NoRef, next |-> NoRef,
               nolinks |-> FALSE]
      BY <2>1 DEF NewObject
    <3>2. PICK G : G = {1, 2}
      OBVIOUS
    <3>3. 2 \in G /\ ModelSpace \in Blocks /\ NoRef \in G \cup Nulls
      BY <3>2, BlocksType DEF Nulls
    <3>4. y \in ObjectSet(G)
      BY <3>1, <3>3 DEF ObjectSet, Kinds
    <3> QED
      BY <3>1, <3>2, <3>4
  <2>4. D = <<x, y>>
    BY <1>1, <1>3, <2>1 DEF FirstObjects
  <2>5. D \in Seq(ObjectSet({1, 2})) /\ D # <<>> /\ Len(D) = 2 /\ DOMAIN D = {1, 2}
    BY <2>2, <2>3, <2>4
  <2>6. D[1].handle = 1 /\ D[2].handle = 2
    BY <2>2, <2>3, <2>4
  <2>7. HandlesOf(D) = {1, 2}
    BY <2>5, <2>6 DEF HandlesOf
  <2>8. 2 <= MaxObjects /\ {1, 2} \subseteq 1 .. 2 * MaxObjects + 2
    BY BoundsType
  <2>9. IsDrawing(D)
    BY <2>5, <2>6, <2>7, <2>8 DEF IsDrawing
  <2>10. ~ Unsorted(D)
    BY <2>5, <2>6 DEF Unsorted
  <2> QED
    BY <1>1, <2>9, <2>10
<1> QED
  BY <1>2, <1>3

(* The invariant holds at the beginning. *)
LEMMA InitHolds ==
  ASSUME Init
  PROVE  IInv
<1>1. PICK creation \in Creations :
        /\ object = FirstObjects(creation)
        /\ opts = IF creation = "dxf" THEN "import" ELSE "api"
        /\ prev_entity_index = IF creation = "dxf" THEN 0 ELSE 2
  BY DEF Init
<1>2. /\ version \in Versions /\ from_version = version
      /\ header = [b \in Blocks |-> EmptyHeader] /\ resolved = {}
      /\ owned = [b \in Blocks |-> <<>>] /\ reader = NoReader
  BY DEF Init
<1>3. PICK n, H : n = Len(object) /\ H = HandlesOf(object)
  OBVIOUS
<1>4. IsDrawing(object) /\ ~ Unsorted(object)
  BY <1>1, FirstDrawing
<1>5. n \in Nat
  BY <1>3, <1>4, DrawingFacts
<1>6. Types
  <2>1. header \in [Blocks -> HeaderSet(H)]
    <3>1. EmptyHeader \in HeaderSet(H)
      BY DEF EmptyHeader, HeaderSet, RefSet, Nulls, None, Shared
    <3> QED
      BY <1>2, <3>1
  <2>2. owned \in [Blocks -> Seq(H)] /\ resolved \subseteq RefSet(H)
    BY <1>2
  <2>3. reader \in ReaderSet(n, H)
    BY <1>2, <1>5, BlocksType DEF NoReader, ReaderSet
  <2>4. prev_entity_index \in 0 .. n
    <3>1. creation # "dxf" => n = 2
      BY <1>1, <1>3 DEF FirstObjects
    <3> QED
      BY <1>1, <1>5, <3>1
  <2>5. opts \in {"api", "dxf", "import", "file"}
        /\ (opts = "import" => reader.fn = "none" /\ prev_entity_index = 0)
    BY <1>1, <1>2 DEF NoReader
  <2> QED
    BY <1>2, <1>3, <1>4, <2>1, <2>2, <2>3, <2>4, <2>5 DEF Types
<1>7. \A b \in Blocks : /\ owned[b] = <<>> /\ header[b] = EmptyHeader
                        /\ Len(owned[b]) = 0 /\ DOMAIN owned[b] = {}
  BY <1>2
<1>8. \A b \in Blocks : OwnedOnce(object, b)
  BY <1>7 DEF OwnedOnce
<1>9. Latest
  <2>1. creation # "dxf" => object[2].kind = "ENDBLK"
    BY <1>1 DEF FirstObjects, NewObject
  <2> QED
    BY <1>1, <2>1 DEF Latest
<1>10. Vectors
  BY <1>7 DEF Vectors, EmptyHeader
<1>11. \A b \in Blocks : ~ Exists(header[b].first.to) /\ ~ Exists(header[b].last.to)
  BY <1>7 DEF EmptyHeader, None, Shared, Exists
<1>12. ChainInv
  <2>1. ASSUME NEW b \in Blocks
        PROVE  Ends(header[b], owned[b]) /\ Chained(object, owned[b])
               /\ Saved(object, owned[b])
    BY <1>7, <1>11 DEF Ends, Chained, Saved
  <2> QED
    BY <2>1 DEF ChainInv
<1>13. VectorInv
  BY <1>7, <1>11 DEF VectorInv, LooseEnds
<1>14. Imported
  <2> SUFFICES ASSUME opts = "import"
               PROVE  \A o \in DOMAIN object : object[o].prev = NoRef
    BY <1>11 DEF Imported
  <2>1. object = <<NewObject("OBJECT", ModelSpace, 1)>>
    BY <1>1 DEF FirstObjects
  <2> QED
    BY <2>1 DEF NewObject
<1>15. Sorted /\ ReaderInv
  BY <1>2, <1>4 DEF Sorted, ReaderInv, NoReader
<1> QED
  BY <1>6, <1>8, <1>9, <1>10, <1>12, <1>13, <1>14, <1>15 DEF IInv

(* Nothing changes. *)
LEMMA StutterKeeps ==
  ASSUME IInv, UNCHANGED vars
  PROVE  IInv'
<1>1. UNCHANGED <<object, header, resolved, version, from_version, opts,
                  prev_entity_index, owned, reader>>
  BY DEF vars
<1>2. Types'
  BY <1>1 DEF IInv, Types
<1>3. ReaderInv'
  BY <1>1 DEF IInv, ReaderInv
<1>4. (\A b \in Blocks : OwnedOnce(object, b))' /\ Latest' /\ Vectors' /\ Imported' /\ Sorted'
  BY <1>1 DEF IInv, OwnedOnce, Latest, Vectors, Imported, Sorted
<1>5. /\ (version = "R2000" /\ opts # "import" => ChainInv)'
      /\ (version = "R2004" \/ opts = "import" => VectorInv)'
  BY <1>1 DEF IInv, ChainInv, VectorInv, Extended
<1> QED
  BY <1>2, <1>3, <1>4, <1>5 DEF IInv

(* Every step keeps it, or writes such a chain. *)
LEMMA StaysInOrder ==
  ASSUME IInv, [Next]_vars, ~ (Reload /\ ExtendedUnsorted)
  PROVE  IInv'
<1>1. ASSUME NEW b \in Blocks, NEW kind \in {"ENTITY", "BLOCK", "ENDBLK"},
             AddEntity(b, kind)
      PROVE  IInv'
  BY <1>1, AddEntityKeeps
<1>2. CASE AddObject
  BY <1>2, AddObjectKeeps
<1>3. ASSUME NEW b \in Blocks, NEW h \in DxfHandles, ImportEntity(b, h)
      PROVE  IInv'
  BY <1>3, ImportEntityKeeps
<1>4. CASE EndImport
  BY <1>4, EndImportKeeps
<1>5. CASE Downgrade
  BY <1>5, DowngradeKeeps
<1>6. CASE Reload
  BY <1>6, ReloadKeeps
<1>7. CASE ResolveObjectrefs
  BY <1>7, ResolveKeeps
<1>8. ASSUME NEW b \in Blocks, NEW fn \in {"entity", "block_entity"}, GetFirst(b, fn)
      PROVE  IInv'
  BY <1>8, GetFirstKeeps
<1>9. CASE GetNext
  BY <1>9, GetNextKeeps
<1>10. CASE EndOfLoop
  BY <1>10, EndOfLoopKeeps
<1>11. CASE UNCHANGED vars
  BY <1>11, StutterKeeps
<1> QED
  BY <1>1, <1>2, <1>3, <1>4, <1>5, <1>6, <1>7, <1>8, <1>9, <1>10, <1>11 DEF Next

(* The block headers, the links and the iteration are as the invariant     *)
(* says, however dwg_add_<entity>, the DXF reader, conversions,            *)
(* dwg_write_file, dwg_read_file and the iteration follow each other, as   *)
(* long as no chain was written in a wrong order.                          *)
THEOREM Invariant ==
  Spec => []Whole
<1>1. Init => Whole
  BY InitHolds DEF Init, Whole
<1>2. Whole /\ [Next]_vars => Whole'
  <2> SUFFICES ASSUME Whole, [Next]_vars
               PROVE  Whole'
    OBVIOUS
  <2>1. \/ Reload /\ (misordered' <=> misordered \/ ExtendedUnsorted)
           /\ misordered' \in BOOLEAN
        \/ ~ Reload /\ misordered' = misordered
    BY DEF Next, vars, Reload, AddEntity, AddObject, ImportEntity, EndImport, Downgrade,
           ResolveObjectrefs, GetFirst, GetNext, EndOfLoop, ExtendedUnsorted
  <2>2. CASE misordered
    <3>1. Misordered'
      BY <2>2, StaysMisordered DEF Whole
    <3> QED
      BY <2>1, <2>2, <3>1 DEF Whole
  <2>3. CASE ~ misordered /\ Reload /\ ExtendedUnsorted
    <3>1. Misordered'
      BY <2>3, BecomesMisordered DEF Whole
    <3> QED
      BY <2>1, <2>3, <3>1 DEF Whole
  <2>4. CASE ~ misordered /\ ~ (Reload /\ ExtendedUnsorted)
    <3>1. IInv'
      BY <2>4, StaysInOrder DEF Whole
    <3> QED
      BY <2>1, <2>4, <3>1 DEF Whole
  <2> QED
    BY <2>2, <2>3, <2>4
<1> QED
  BY <1>1, <1>2, PTL DEF Spec

(* Every link and every resolved reference leads to an object. *)
THEOREM TypeCorrect ==
  Spec => []TypeOK
<1>1. Whole => TypeOK
  BY TypesFromInv DEF Whole, Misordered, IInv
<1> QED
  BY <1>1, Invariant, PTL

(* The chain of each block in a file of R2000, as dwg_write_file and       *)
(* dwg_read_file leave it, lists exactly the entities that were added to   *)
(* it, unless the drawing is an unsorted DXF import that the API extended, *)
(* or comes from a file of one.                                            *)
THEOREM SavedChains ==
  Spec => []SavedChainListsOwned
<1>1. Whole => SavedChainListsOwned
  BY SavedFromInv DEF Whole, SavedChainListsOwned
<1> QED
  BY <1>1, Invariant, PTL

(* An iteration with get_first_owned_entity and its successors through     *)
(* resolved references lists exactly what the block owns, unless the       *)
(* drawing comes from the file of an extended unsorted DXF import.         *)
THEOREM SettledIterations ==
  Spec => []SettledIterationListsOwned
<1>1. Whole => SettledIterationListsOwned
  BY SettledFromInv DEF Whole, SettledIterationListsOwned
<1> QED
  BY <1>1, Invariant, PTL
=============================================================================

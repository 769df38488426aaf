-------------------------- MODULE ObjectPoolProofs --------------------------
(***************************************************************************)
(* Proofs about ObjectPool, for every set of handles, every capacity and   *)
(* every sequence of additions, rejections, moves and lookups.             *)
(***************************************************************************)
EXTENDS ObjectPool, TLAPS

USE HandlesType, SizesType

-----------------------------------------------------------------------------
(* A lookup by handle. *)

(* The pointers that may be cached in a reference to h. *)
GoodIn(p, h, at, num, obj) ==
  p # NULL => p.base = at /\ p.index < num /\ obj[p.index] = h

(* A map that names the objects of a pool, as in MapNamesObjects. *)
Names(map, num, obj) ==
  \A k \in Handles : map[k] # NotFound =>
    map[k] \in 0 .. num - 1 /\ obj[map[k]] = k

(* A map that names the objects of a pool leads to the right object or to  *)
(* none.                                                                   *)
LEMMA ResolveInIsGood ==
  ASSUME NEW at \in Nat, NEW num \in Nat, NEW obj, NEW h \in Handles,
         NEW map \in [Handles -> Nat \cup {NotFound}],
         num > 0 => at # 0, Names(map, num, obj)
  PROVE  LET p == ResolveIn(at, map, num, h)
         IN  /\ p \in Pointer \cup {NULL}
             /\ GoodIn(p, h, at, num, obj)
             /\ p = NULL <=> map[h] = NotFound
<1> DEFINE p == ResolveIn(at, map, num, h)
<1>1. CASE map[h] = NotFound
  <2>1. p = NULL
    BY <1>1 DEF ResolveIn
  <2> QED
    BY <1>1, <2>1 DEF GoodIn
<1>2. CASE map[h] # NotFound
  <2>1. map[h] \in Nat /\ map[h] < num /\ obj[map[h]] = h /\ at \in Nat \ {0}
    BY <1>2 DEF NotFound, Names
  <2>2. p = [base |-> at, index |-> map[h]]
    BY <1>2, <2>1 DEF ResolveIn
  <2>3. [base |-> at, index |-> map[h]] # NULL
    BY <2>1 DEF NULL
  <2> QED
    BY <1>2, <2>1, <2>2, <2>3 DEF GoodIn, Pointer
<1> QED
  BY <1>1, <1>2

(* Storing a pointer in a reference. *)
LEMMA StorePointer ==
  ASSUME NEW x \in Reference, NEW p \in Pointer \cup {NULL}
  PROVE  LET y == [x EXCEPT !.obj = p]
         IN  y \in Reference /\ y.absolute_ref = x.absolute_ref /\ y.obj = p
  BY DEF Reference

(* The vector is a sequence of references. *)
LEMMA VectorIndex ==
  ASSUME TypeOK
  PROVE  /\ Len(object_ref) \in Nat /\ DOMAIN object_ref = RefIds
         /\ \A r \in RefIds :
              /\ object_ref[r] \in Reference
              /\ object_ref[r].absolute_ref \in Handles
              /\ object_ref[r].obj \in Pointer \cup {NULL}
<1>1. object_ref \in Seq(Reference)
  BY DEF TypeOK
<1>2. Len(object_ref) \in Nat /\ DOMAIN object_ref = RefIds
      /\ \A r \in RefIds : object_ref[r] \in Reference
  BY <1>1 DEF RefIds
<1>3. \A x \in Reference : x.absolute_ref \in Handles /\ x.obj \in Pointer \cup {NULL}
  BY DEF Reference
<1> QED
  BY <1>2, <1>3

LEMMA VectorType ==
  ASSUME NEW n \in Nat, NEW refs, refs = [r \in 1 .. n |-> refs[r]],
         \A r \in 1 .. n : refs[r] \in Reference
  PROVE  refs \in Seq(Reference) /\ Len(refs) = n
<1>1. refs \in [1 .. n -> Reference]
  OBVIOUS
<1> QED
  BY <1>1

(* After a refresh, every reference is good. *)
LEMMA AllResolvedGood ==
  ASSUME TypeOK, NEW at \in Nat, NEW num \in Nat, NEW obj,
         NEW map \in [Handles -> Nat \cup {NotFound}],
         num > 0 => at # 0, Names(map, num, obj)
  PROVE  LET refs == AllResolved(at, map, num)
         IN  /\ refs \in Seq(Reference) /\ Len(refs) = Len(object_ref)
             /\ \A r \in RefIds :
                  /\ refs[r].absolute_ref = object_ref[r].absolute_ref
                  /\ GoodIn(refs[r].obj, refs[r].absolute_ref, at, num, obj)
                  /\ refs[r].obj =
                       ResolveIn(at, map, num, object_ref[r].absolute_ref)
<1> DEFINE refs == AllResolved(at, map, num)
<1>1. ASSUME NEW r \in RefIds
      PROVE  /\ refs[r] \in Reference
             /\ refs[r].absolute_ref = object_ref[r].absolute_ref
             /\ GoodIn(refs[r].obj, refs[r].absolute_ref, at, num, obj)
             /\ refs[r].obj =
                  ResolveIn(at, map, num, object_ref[r].absolute_ref)
  <2> DEFINE h == object_ref[r].absolute_ref
             p == ResolveIn(at, map, num, h)
  <2>1. object_ref[r] \in Reference /\ h \in Handles
    BY VectorIndex
  <2>2. p \in Pointer \cup {NULL} /\ GoodIn(p, h, at, num, obj)
    BY <2>1, ResolveInIsGood
  <2>3. refs[r] = [object_ref[r] EXCEPT !.obj = p]
    BY DEF AllResolved
  <2> HIDE DEF p, refs
  <2>4. refs[r] \in Reference /\ refs[r].absolute_ref = h /\ refs[r].obj = p
    BY <2>1, <2>2, <2>3, StorePointer
  <2> QED
    BY <2>2, <2>4 DEF p
<1>2. refs = [r \in 1 .. Len(object_ref) |-> refs[r]] /\ Len(object_ref) \in Nat
  BY VectorIndex DEF AllResolved, RefIds
<1> HIDE DEF refs
<1>3. refs \in Seq(Reference) /\ Len(refs) = Len(object_ref)
  BY <1>1, <1>2, VectorType DEF RefIds
<1> QED
  BY <1>1, <1>3 DEF refs

(* What led to an object of the pool still does, when the pool has grown   *)
(* and the objects it leads to are what they were.                         *)
LEMMA GoodStays ==
  ASSUME NEW at, NEW num \in Nat, NEW num2 \in Nat, NEW obj, NEW obj2,
         NEW p \in Pointer \cup {NULL}, NEW h \in Handles,
         GoodIn(p, h, at, num, obj),
         \A o \in 0 .. num - 1 : obj[o] # 0 => o < num2 /\ obj2[o] = obj[o]
  PROVE  GoodIn(p, h, at, num2, obj2)
<1> SUFFICES ASSUME p # NULL
             PROVE  p.base = at /\ p.index < num2 /\ obj2[p.index] = h
  BY DEF GoodIn
<1>1. p.index \in Nat
  BY DEF Pointer
<1>2. p.base = at /\ p.index < num /\ obj[p.index] = h /\ h # 0
  BY DEF GoodIn
<1>3. p.index \in 0 .. num - 1
  BY <1>1, <1>2
<1> QED
  BY <1>2, <1>3

LEMMA NamesStay ==
  ASSUME NEW num \in Nat, NEW num2 \in Nat, NEW obj, NEW obj2,
         NEW map \in [Handles -> Nat \cup {NotFound}], Names(map, num, obj),
         \A o \in 0 .. num - 1 : obj[o] # 0 => o < num2 /\ obj2[o] = obj[o]
  PROVE  Names(map, num2, obj2)
<1> SUFFICES ASSUME NEW k \in Handles, map[k] # NotFound
             PROVE  map[k] \in 0 .. num2 - 1 /\ obj2[map[k]] = k
  BY DEF Names
<1>1. map[k] \in 0 .. num - 1 /\ obj[map[k]] = k /\ k # 0
  BY DEF Names
<1> QED
  BY <1>1

(* A registration under the handle of the object. *)
LEMMA NamesRegistered ==
  ASSUME NEW num \in Nat, NEW obj, NEW o \in 0 .. num - 1, NEW h \in Handles,
         NEW map \in [Handles -> Nat \cup {NotFound}], Names(map, num, obj),
         obj[o] = h
  PROVE  LET map2 == [map EXCEPT ![h] = o]
         IN  map2 \in [Handles -> Nat \cup {NotFound}] /\ Names(map2, num, obj)
  BY DEF Names

-----------------------------------------------------------------------------
(* The invariant, in the terms of the lemmas. *)

AllGood ==
  \A r \in RefIds : GoodIn(object_ref[r].obj, object_ref[r].absolute_ref,
                           base, num_objects, object)

LEMMA InvParts ==
  ASSUME IInv
  PROVE  /\ TypeOK /\ Names(object_map, num_objects, object)
         /\ num_objects > 0 => base # 0
         /\ ~ dirty_refs => AllGood
         /\ CachedAreRegistered
  BY DEF IInv, Names, MapNamesObjects, CleanRefsAreLive, Live, AllGood, GoodIn,
         CachedAreRegistered, Last

(* Without a pool no handle is registered. *)
LEMMA NothingRegistered ==
  ASSUME IInv, base = 0, NEW h \in Handles
  PROVE  object_map[h] = NotFound /\ Resolve(h) = NULL
<1>1. num_objects = 0 /\ object_map[h] \in Nat \cup {NotFound}
  BY DEF IInv, TypeOK
<1>2. object_map[h] = NotFound
  BY <1>1 DEF IInv, MapNamesObjects, Last
<1> QED
  BY <1>2 DEF Resolve, ResolveIn

(* A resolved handle is good. *)
LEMMA ResolveIsGood ==
  ASSUME IInv, NEW h \in Handles
  PROVE  /\ Resolve(h) \in Pointer \cup {NULL}
         /\ GoodIn(Resolve(h), h, base, num_objects, object)
         /\ Resolve(h) = NULL <=> object_map[h] = NotFound
<1>1. /\ base \in Nat /\ num_objects \in Nat
      /\ object_map \in [Handles -> Nat \cup {NotFound}]
      /\ num_objects > 0 => base # 0
      /\ Names(object_map, num_objects, object)
  BY InvParts DEF TypeOK
<1> QED
  BY <1>1, ResolveInIsGood DEF Resolve

(* After a refresh the references are good, whether they were dirty or not. *)
LEMMA RefreshIsGood ==
  ASSUME IInv
  PROVE  \A refs \in {Refreshed, AllResolved(base, object_map, num_objects)} :
           /\ refs \in Seq(Reference) /\ Len(refs) = Len(object_ref)
           /\ \A r \in RefIds :
                /\ refs[r] \in Reference
                /\ refs[r].obj \in Pointer \cup {NULL}
                /\ refs[r].absolute_ref = object_ref[r].absolute_ref
                /\ refs[r].absolute_ref \in Handles
                /\ GoodIn(refs[r].obj, refs[r].absolute_ref,
                          base, num_objects, object)
                /\ refs[r].obj # NULL =>
                     object_map[refs[r].absolute_ref] # NotFound
<1> DEFINE all == AllResolved(base, object_map, num_objects)
           Fine(refs) ==
             /\ refs \in Seq(Reference) /\ Len(refs) = Len(object_ref)
             /\ \A r \in RefIds :
                  /\ refs[r] \in Reference
                  /\ refs[r].obj \in Pointer \cup {NULL}
                  /\ refs[r].absolute_ref = object_ref[r].absolute_ref
                  /\ refs[r].absolute_ref \in Handles
                  /\ GoodIn(refs[r].obj, refs[r].absolute_ref,
                            base, num_objects, object)
                  /\ refs[r].obj # NULL =>
                     object_map[refs[r].absolute_ref] # NotFound
<1>1. /\ base \in Nat /\ num_objects \in Nat
      /\ object_map \in [Handles -> Nat \cup {NotFound}]
      /\ num_objects > 0 => base # 0
      /\ Names(object_map, num_objects, object)
      /\ TypeOK
  BY InvParts DEF TypeOK
<1>2. /\ all \in Seq(Reference) /\ Len(all) = Len(object_ref)
      /\ \A r \in RefIds :
           /\ all[r].absolute_ref = object_ref[r].absolute_ref
           /\ GoodIn(all[r].obj, all[r].absolute_ref, base, num_objects, object)
           /\ all[r].obj = Resolve(object_ref[r].absolute_ref)
  BY <1>1, AllResolvedGood DEF Resolve
<1> HIDE DEF all
<1>3. ASSUME NEW r \in RefIds
      PROVE  /\ all[r] \in Reference
             /\ all[r].obj \in Pointer \cup {NULL}
             /\ all[r].absolute_ref \in Handles
             /\ all[r].obj # NULL =>
                  object_map[all[r].absolute_ref] # NotFound
  <2>1. object_ref[r].absolute_ref \in Handles
    BY <1>1, VectorIndex
  <2>2. all[r] \in Reference
    BY <1>1, <1>2, VectorIndex DEF RefIds
  <2> QED
    BY <1>2, <2>1, <2>2, ResolveIsGood
<1>4. Fine(all)
  BY <1>2, <1>3
<1>5. ~ dirty_refs => Fine(object_ref)
  BY <1>1, InvParts, VectorIndex DEF AllGood, CachedAreRegistered, TypeOK
<1>6. Refreshed = all \/ (~ dirty_refs /\ Refreshed = object_ref)
  BY DEF Refreshed, all
<1> QED
  BY <1>4, <1>5, <1>6 DEF all

-----------------------------------------------------------------------------
(* The steps that change the pool. *)

(* IInv from its parts, after a step. *)
LEMMA Rebuild ==
  ASSUME TypeOK',
         Names(object_map, num_objects, object)',
         (num_objects > 0 => base # 0)', (base # 0 => num_alloced > 0)',
         PoolHoldsObjects', (~ dirty_refs => AllGood)', CachedAreRegistered',
         OwnerIsLive', (pc \in Users => object[Last] = 0)'
  PROVE  IInv'
<1>1. MapNamesObjects'
  BY DEF Names, MapNamesObjects, Last
<1>2. CleanRefsAreLive'
  BY DEF AllGood, GoodIn, CleanRefsAreLive, Live
<1> QED
  BY <1>1, <1>2 DEF IInv, CachedAreRegistered

(* A step that changes no object with a handle. *)
Kept == /\ num_objects' \in Nat
        /\ \A o \in 0 .. Last : object[o] # 0 =>
             o < num_objects' /\ object'[o] = object[o]

LEMMA NamesStep ==
  ASSUME IInv, Kept, UNCHANGED object_map
  PROVE  Names(object_map, num_objects, object)'
<1>1. TypeOK /\ Names(object_map, num_objects, object)
  BY InvParts
<1>2. num_objects \in Nat /\ object_map \in [Handles -> Nat \cup {NotFound}]
  BY <1>1 DEF TypeOK
<1>3. Names(object_map, num_objects', object')
  BY <1>1, <1>2, NamesStay DEF Last, Kept
<1> QED
  BY <1>3

(* A registration is never taken back. *)
MapGrows ==
  \A h \in Handles : object_map[h] # NotFound => object_map'[h] # NotFound

LEMMA CachedStep ==
  ASSUME IInv, Kept, MapGrows, UNCHANGED <<object_ref, base>>
  PROVE  (~ dirty_refs => AllGood') /\ CachedAreRegistered'
<1>1. TypeOK /\ CachedAreRegistered /\ (~ dirty_refs => AllGood)
  BY InvParts
<1>2. num_objects \in Nat
  BY <1>1 DEF TypeOK
<1>3. AllGood => AllGood'
  <2> SUFFICES ASSUME AllGood, NEW r \in RefIds
               PROVE  GoodIn(object_ref[r].obj, object_ref[r].absolute_ref,
                             base, num_objects', object')
    BY DEF AllGood, RefIds
  <2>1. /\ object_ref[r].obj \in Pointer \cup {NULL}
        /\ object_ref[r].absolute_ref \in Handles
    BY <1>1, VectorIndex
  <2>2. GoodIn(object_ref[r].obj, object_ref[r].absolute_ref,
               base, num_objects, object)
    BY DEF AllGood
  <2> QED
    BY <1>2, <2>1, <2>2, GoodStays DEF Last, Kept
<1> QED
  BY <1>1, <1>3, VectorIndex DEF CachedAreRegistered, MapGrows, RefIds

LEMMA Appended ==
  ASSUME IInv, AppendObject
  PROVE  /\ Kept /\ num_objects' \in Nat /\ num_objects' = num_objects + 1
         /\ Last' = num_objects
         /\ object' \in [0 .. num_objects -> Handles \cup {0}]
         /\ object'[num_objects] = 0
  BY DEF AppendObject, IInv, TypeOK, Last, Kept

LEMMA AddFirstKeeps ==
  ASSUME IInv, NEW u \in Users \ {"entity"}, AddFirst(u)
  PROVE  IInv'
<1> USE DEF AddFirst
<1>1. /\ Kept /\ num_objects' = 1 /\ Last' = 0 /\ object'[0] = 0
      /\ object' \in [0 .. Last' -> Handles \cup {0}]
  BY Appended DEF FirstObject
<1>2. TypeOK'
  <2>1. base' \in Nat /\ num_alloced' \in Nat /\ pc' \in Users
    OBVIOUS
  <2>2. object_ref' \in Seq(Reference) /\ dirty_refs' \in BOOLEAN
    BY DEF IInv, TypeOK
  <2> QED
    BY <1>1, <2>1, <2>2 DEF IInv, TypeOK
<1>3. Names(object_map, num_objects, object)'
  BY <1>1, NamesStep
<1>4. AllGood'
  BY InvParts, VectorIndex, NothingRegistered
     DEF CachedAreRegistered, AllGood, GoodIn, FirstObject, RefIds
<1>5. /\ PoolHoldsObjects' /\ CachedAreRegistered' /\ OwnerIsLive'
      /\ (pc \in Users => object[Last] = 0)'
  BY <1>1, InvParts
     DEF PoolHoldsObjects, CachedAreRegistered, OwnerIsLive, Users, Readers, RefIds
<1> QED
  BY <1>1, <1>2, <1>3, <1>4, <1>5, Rebuild

(* What AddInPlace and AddMoving do to the pool. *)
LEMMA Grown ==
  ASSUME IInv, NEW u \in Users, NEW b \in 0 .. Last \cup {0}, MayAdd(u, b),
         ~ FirstObject, AppendObject, pc' = u,
         num_alloced' = IF PoolFull THEN 2 * num_alloced ELSE num_alloced,
         base' \in {base, base + 1}, blkobj' = BlockAt(u, b, base')
  PROVE  /\ base # 0 /\ base' \in Nat \ {0}
         /\ num_alloced' \in Nat \ {0}
         /\ PoolHoldsObjects' /\ OwnerIsLive'
         /\ blkobj' \in Pointer \cup {NULL}
         /\ (pc \in Users => object[Last] = 0)'
<1>1. /\ num_objects \in Nat /\ num_alloced \in Nat /\ base \in Nat
      /\ num_objects > 0 => base # 0
      /\ base # 0 => num_alloced > 0 /\ num_objects <= num_alloced
  BY DEF IInv, TypeOK, PoolHoldsObjects
<1>2. base # 0 /\ base' \in Nat \ {0}
  BY <1>1 DEF FirstObject
<1>3. num_alloced' \in Nat \ {0} /\ num_objects + 1 <= num_alloced'
  BY <1>1, <1>2 DEF PoolFull, FirstObject
<1>4. u = "entity" => b \in Nat /\ b < num_objects + 1
  BY <1>1 DEF MayAdd, Last
<1>5. blkobj' \in Pointer \cup {NULL}
  BY <1>2, <1>4 DEF BlockAt, Pointer
<1>6. OwnerIsLive'
  BY <1>4, Appended DEF OwnerIsLive, Live, BlockAt
<1> QED
  BY <1>2, <1>3, <1>5, <1>6, Appended DEF PoolHoldsObjects

LEMMA AddInPlaceKeeps ==
  ASSUME IInv, NEW u \in Users, NEW b \in 0 .. Last \cup {0}, AddInPlace(u, b)
  PROVE  IInv'
<1> USE DEF AddInPlace
<1>1. /\ Kept /\ num_objects' \in Nat /\ num_objects' = num_objects + 1
      /\ Last' = num_objects
      /\ object' \in [0 .. Last' -> Handles \cup {0}]
  BY Appended
<1>2. /\ base # 0 /\ base \in Nat /\ num_alloced' \in Nat \ {0}
      /\ PoolHoldsObjects' /\ OwnerIsLive'
      /\ blkobj' \in Pointer \cup {NULL}
      /\ (pc \in Users => object[Last] = 0)'
  BY Grown DEF IInv, TypeOK
<1>3. TypeOK'
  BY <1>1, <1>2 DEF IInv, TypeOK
<1>4. Names(object_map, num_objects, object)'
  BY <1>1, NamesStep
<1>5. (~ dirty_refs => AllGood)' /\ CachedAreRegistered'
  BY <1>1, CachedStep DEF MapGrows
<1> QED
  BY <1>2, <1>3, <1>4, <1>5, Rebuild

LEMMA AddMovingKeeps ==
  ASSUME IInv, NEW u \in Users, NEW b \in 0 .. Last \cup {0}, AddMoving(u, b)
  PROVE  IInv'
<1>1. /\ Kept /\ num_objects' \in Nat /\ num_objects' = num_objects + 1
      /\ Last' = num_objects
      /\ object' \in [0 .. Last' -> Handles \cup {0}]
  BY Appended DEF AddMoving
<1>2. /\ base' \in Nat \ {0} /\ num_alloced' \in Nat \ {0}
      /\ PoolHoldsObjects' /\ OwnerIsLive'
      /\ blkobj' \in Pointer \cup {NULL}
      /\ (pc \in Users => object[Last] = 0)'
  BY Grown DEF AddMoving, PoolFull
<1>3. Names(object_map, num_objects, object)'
  BY <1>1, NamesStep DEF AddMoving
<1>4. TypeOK
  BY DEF IInv
<1>5. /\ object_map' \in [Handles -> Nat \cup {NotFound}]
      /\ pc' \in Users /\ status' \in {"ok", "crash"} /\ num_objects' > 0
  BY <1>1, <1>4 DEF AddMoving, TypeOK
<1>6. CASE u \in Readers
  <2>1. dirty_refs' = TRUE /\ object_ref' = object_ref
    BY <1>6 DEF AddMoving
  <2>2. object_ref' \in Seq(Reference) /\ dirty_refs' \in BOOLEAN
    BY <1>4, <2>1 DEF TypeOK
  <2>3. TypeOK'
    BY <1>1, <1>2, <1>5, <2>2 DEF TypeOK
  <2>4. CachedAreRegistered'
    BY <2>1, InvParts DEF AddMoving, CachedAreRegistered, RefIds
  <2> QED
    BY <1>2, <1>3, <2>1, <2>3, <2>4, Rebuild
<1>7. CASE u \notin Readers
  <2>1. /\ base' = base + 1 /\ base + 1 \in Nat /\ base + 1 # 0
        /\ num_objects + 1 \in Nat
        /\ object_ref' = AllResolved(base + 1, object_map, num_objects + 1)
        /\ object_map \in [Handles -> Nat \cup {NotFound}]
        /\ Names(object_map, num_objects + 1, object')
    BY <1>1, <1>2, <1>3, <1>4, <1>7 DEF AddMoving, TypeOK
  <2>2. /\ object_ref' \in Seq(Reference) /\ Len(object_ref') = Len(object_ref)
        /\ \A r \in RefIds :
             GoodIn(object_ref'[r].obj, object_ref'[r].absolute_ref,
                    base + 1, num_objects + 1, object')
        /\ \A r \in RefIds :
             /\ object_ref'[r].absolute_ref = object_ref[r].absolute_ref
             /\ object_ref'[r].obj =
                  ResolveIn(base + 1, object_map, num_objects + 1,
                            object_ref[r].absolute_ref)
    BY <1>4, <2>1, AllResolvedGood
  <2>3. dirty_refs' \in BOOLEAN
    BY <1>7 DEF AddMoving
  <2>4. TypeOK'
    BY <1>1, <1>2, <1>5, <2>2, <2>3 DEF TypeOK
  <2>5. AllGood'
    BY <1>1, <2>1, <2>2 DEF AllGood, RefIds
  <2>6. CachedAreRegistered'
    BY <2>1, <2>2 DEF AddMoving, CachedAreRegistered, RefIds, ResolveIn
  <2> QED
    BY <1>2, <1>3, <2>4, <2>5, <2>6, Rebuild
<1> QED
  BY <1>6, <1>7

(* A crash in the middle of an operation changes nothing else. *)
LEMMA StatusStep ==
  ASSUME IInv, UNCHANGED <<pool, object_map, object_ref, blkobj>>,
         pc' = pc \/ pc' = "idle",
         dirty_refs' = dirty_refs,
         status' \in {"ok", "crash"}
  PROVE  IInv'
  BY DEF IInv, TypeOK, pool, PoolHoldsObjects, MapNamesObjects,
         CleanRefsAreLive, OwnerIsLive, CachedAreRegistered, Live, Last,
         RefIds, Users, Readers

LEMMA AddFirstFailsKeeps ==
  ASSUME IInv, NEW u \in Users \ {"entity"}, AddFirstFails(u)
  PROVE  IInv'
<1> USE DEF AddFirstFails
<1>1. TypeOK /\ CachedAreRegistered /\ base = 0 /\ num_objects = 0 /\ pc = "idle"
  BY InvParts DEF FirstObject, MayAdd
<1>2. Kept
  BY <1>1 DEF Kept, Last
<1>3. /\ num_alloced' \in Nat /\ dirty_refs' \in BOOLEAN
      /\ status' \in {"ok", "crash"} /\ Last' = Last
  BY DEF Last
<1>4. TypeOK'
  BY <1>1, <1>3 DEF TypeOK
<1>5. AllGood' /\ CachedAreRegistered'
  BY <1>1, VectorIndex, NothingRegistered
     DEF CachedAreRegistered, AllGood, GoodIn, RefIds
<1>6. Names(object_map, num_objects, object)'
  BY <1>2, NamesStep
<1>7. /\ PoolHoldsObjects' /\ OwnerIsLive'
      /\ (pc \in Users => object[Last] = 0)'
  BY <1>1 DEF PoolHoldsObjects, OwnerIsLive, Users, Readers
<1> QED
  BY <1>1, <1>4, <1>5, <1>6, <1>7, Rebuild

(* The steps of dwg_decode_add_object. *)
LEMMA RejectedKeeps ==
  ASSUME IInv, Rejected
  PROVE  IInv'
<1> USE DEF Rejected, Busy
<1>1. /\ TypeOK /\ num_objects > 0 /\ object[Last] = 0 /\ base # 0
      /\ num_objects <= num_alloced /\ num_objects \in Nat
      /\ num_alloced \in Nat
  BY DEF IInv, Users, Readers, TypeOK, PoolHoldsObjects
<1>2. num_objects' \in Nat /\ num_objects' = Last /\ Last' = Last - 1
  BY <1>1 DEF Last
<1>3. \A o \in 0 .. Last : object[o] # 0 => o \in 0 .. Last - 1
  BY <1>1 DEF Last
<1>4. Kept
  BY <1>2, <1>3 DEF Kept
<1>5. object' \in [0 .. Last' -> Handles \cup {0}]
  BY <1>1, <1>2 DEF TypeOK, Last
<1>6. TypeOK'
  BY <1>1, <1>2, <1>5 DEF TypeOK
<1>7. Names(object_map, num_objects, object)'
      /\ (~ dirty_refs => AllGood)' /\ CachedAreRegistered'
  BY <1>4, NamesStep, CachedStep DEF MapGrows
<1>8. /\ PoolHoldsObjects' /\ OwnerIsLive'
      /\ (pc \in Users => object[Last] = 0)'
  BY <1>1, <1>2 DEF PoolHoldsObjects, OwnerIsLive, Users, Readers, Last
<1> QED
  BY <1>1, <1>6, <1>7, <1>8, Rebuild DEF IInv

LEMMA DecodeHandleKeeps ==
  ASSUME IInv, NEW h \in Handles \cup {0}, DecodeHandle(h)
  PROVE  IInv'
<1> USE DEF DecodeHandle, Busy
<1>1. /\ TypeOK /\ num_objects > 0 /\ object[Last] = 0 /\ num_objects \in Nat
      /\ object \in [0 .. Last -> Handles \cup {0}]
  BY DEF IInv, Users, Readers, TypeOK
<1>2. num_objects' = num_objects /\ Last' = Last
  BY DEF Last
<1>3. Kept
  BY <1>1, <1>2 DEF Kept, Last
<1>4. object' \in [0 .. Last' -> Handles \cup {0}]
  BY <1>1, <1>2
<1>5. TypeOK'
  BY <1>1, <1>2, <1>4 DEF TypeOK
<1>6. Names(object_map, num_objects, object)'
      /\ (~ dirty_refs => AllGood)' /\ CachedAreRegistered'
  BY <1>3, NamesStep, CachedStep DEF MapGrows
<1>7. /\ PoolHoldsObjects' /\ OwnerIsLive'
      /\ (pc \in Users => object[Last] = 0)'
  BY DEF IInv, PoolHoldsObjects, OwnerIsLive, Users, Readers
<1> QED
  BY <1>5, <1>6, <1>7, Rebuild DEF IInv

(* A registration. *)
LEMMA RegisterStep ==
  ASSUME IInv, Kept, UNCHANGED <<num_objects, base>>,
         NEW h \in Handles \cup {0}, RegisterLast(h), num_objects > 0,
         h # 0 => object'[Last] = h
  PROVE  /\ object_map' \in [Handles -> Nat \cup {NotFound}]
         /\ Names(object_map, num_objects, object)'
         /\ MapGrows
<1>1. /\ TypeOK /\ num_objects \in Nat
      /\ object_map \in [Handles -> Nat \cup {NotFound}]
      /\ Names(object_map, num_objects, object)
      /\ Last \in 0 .. num_objects - 1
  BY InvParts DEF TypeOK, Last
<1>2. Names(object_map, num_objects, object')
  BY <1>1, NamesStay DEF Kept, Last
<1>3. CASE h = 0
  BY <1>1, <1>2, <1>3 DEF RegisterLast, MapGrows
<1>4. CASE h # 0
  <2>1. object_map' = [object_map EXCEPT ![h] = Last] /\ h \in Handles
    BY <1>4 DEF RegisterLast
  <2>2. MapGrows
    BY <1>1, <2>1 DEF MapGrows, NotFound
  <2> QED
    BY <1>1, <1>2, <1>4, <2>1, <2>2, NamesRegistered
<1> QED
  BY <1>3, <1>4

LEMMA RegistersKeep ==
  ASSUME IInv, RegisterSeqend \/ DecodeRegisters
  PROVE  IInv'
<1> USE DEF RegisterSeqend, DecodeRegisters, Busy, pool
<1>1. /\ TypeOK /\ num_objects > 0 /\ num_objects \in Nat
      /\ object[Last] \in Handles \cup {0} /\ Last' = Last
  BY DEF IInv, TypeOK, Last
<1>2. Kept
  BY <1>1 DEF Kept, Last
<1>3. /\ object_map' \in [Handles -> Nat \cup {NotFound}]
      /\ Names(object_map, num_objects, object)' /\ MapGrows
  BY <1>1, <1>2, RegisterStep
<1>4. TypeOK'
  BY <1>1, <1>3 DEF TypeOK
<1>5. (~ dirty_refs => AllGood)' /\ CachedAreRegistered'
  BY <1>2, <1>3, CachedStep
<1>6. /\ PoolHoldsObjects' /\ OwnerIsLive'
      /\ (pc \in Users => object[Last] = 0)'
  BY DEF IInv, PoolHoldsObjects, OwnerIsLive, Users, Readers
<1> QED
  BY <1>3, <1>4, <1>5, <1>6, Rebuild DEF IInv

LEMMA DxfRegistersKeeps ==
  ASSUME IInv, NEW h \in Handles, DxfRegisters(h)
  PROVE  IInv'
<1> USE DEF DxfRegisters, Busy
<1>1. /\ TypeOK /\ num_objects > 0 /\ num_objects \in Nat
      /\ object[Last] = 0 /\ Last' = Last
      /\ object \in [0 .. Last -> Handles \cup {0}]
  BY DEF IInv, TypeOK, Last, Users, Readers
<1>2. /\ object' \in [0 .. Last' -> Handles \cup {0}] /\ object'[Last] = h
  BY <1>1 DEF Last
<1>3. Kept
  BY <1>1, <1>2 DEF Kept, Last
<1>4. /\ object_map' \in [Handles -> Nat \cup {NotFound}]
      /\ Names(object_map, num_objects, object)' /\ MapGrows
  <2>1. PICK g \in {0, h} : RegisterLast(g)
    BY DEF RegisterLast
  <2> QED
    BY <1>1, <1>2, <1>3, <2>1, RegisterStep
<1>5. TypeOK'
  BY <1>1, <1>2, <1>4 DEF TypeOK
<1>6. (~ dirty_refs => AllGood)' /\ CachedAreRegistered'
  BY <1>3, <1>4, CachedStep
<1>7. /\ PoolHoldsObjects' /\ OwnerIsLive'
      /\ (pc \in Users => object[Last] = 0)'
  BY DEF IInv, PoolHoldsObjects, OwnerIsLive, Users, Readers
<1> QED
  BY <1>4, <1>5, <1>6, <1>7, Rebuild DEF IInv

LEMMA ApiRegistersKeeps ==
  ASSUME IInv, NEW h \in Handles, ApiRegisters(h)
  PROVE  IInv'
<1> USE DEF ApiRegisters
<1>1. /\ TypeOK /\ num_objects > 0 /\ num_objects \in Nat
      /\ object[Last] = 0 /\ Last' = Last
      /\ object \in [0 .. Last -> Handles \cup {0}]
  BY DEF IInv, TypeOK, Last, Users, Readers
<1>2. /\ object' \in [0 .. Last' -> Handles \cup {0}] /\ object'[Last] = h
  BY <1>1 DEF Last
<1>3. Kept
  BY <1>1, <1>2 DEF Kept, Last
<1>4. /\ object_map' \in [Handles -> Nat \cup {NotFound}]
      /\ Names(object_map, num_objects, object)' /\ MapGrows
  BY <1>1, <1>2, <1>3, RegisterStep
<1>5. TypeOK'
  BY <1>1, <1>2, <1>4 DEF TypeOK
<1>6. (~ dirty_refs => AllGood)' /\ CachedAreRegistered'
  BY <1>3, <1>4, CachedStep
<1>7. /\ PoolHoldsObjects' /\ OwnerIsLive'
      /\ (pc \in Users => object[Last] = 0)'
  BY DEF IInv, PoolHoldsObjects, OwnerIsLive, Users, Readers
<1> QED
  BY <1>4, <1>5, <1>6, <1>7, Rebuild DEF IInv

-----------------------------------------------------------------------------
(* The steps that change the references. *)

(* A step that leaves the pool alone. *)
LEMMA ReferenceStep ==
  ASSUME IInv, UNCHANGED <<pool, object_map, pc, blkobj>>,
         status' \in {"ok", "crash"}, dirty_refs' \in BOOLEAN,
         object_ref' \in Seq(Reference),
         (~ dirty_refs => AllGood)', CachedAreRegistered'
  PROVE  IInv'
<1> USE DEF pool
<1>1. TypeOK' /\ Last' = Last
  BY DEF IInv, TypeOK, Last
<1>2. Kept
  BY DEF IInv, TypeOK, Kept, Last
<1>3. Names(object_map, num_objects, object)'
  BY <1>2, NamesStep
<1>4. /\ PoolHoldsObjects' /\ OwnerIsLive'
      /\ (pc \in Users => object[Last] = 0)'
  BY <1>1 DEF IInv, PoolHoldsObjects, OwnerIsLive, Live
<1> QED
  BY <1>1, <1>3, <1>4, Rebuild DEF IInv

LEMMA AddRefKeeps ==
  ASSUME IInv, NEW h \in Handles, AddRef(h)
  PROVE  IInv'
<1> USE DEF AddRef
<1> DEFINE new == [absolute_ref |-> h, obj |-> NULL]
           n == Len(object_ref)
<1>1. /\ TypeOK /\ object_ref \in Seq(Reference) /\ dirty_refs \in BOOLEAN
      /\ ~ dirty_refs => AllGood
      /\ CachedAreRegistered
  BY InvParts DEF TypeOK
<1>2. new \in Reference /\ new.obj = NULL
  BY DEF Reference
<1>3. object_ref' = Append(object_ref, new)
  OBVIOUS
<1> HIDE DEF new
<1>4. /\ object_ref' \in Seq(Reference) /\ n \in Nat
      /\ Len(object_ref') = n + 1
      /\ object_ref'[n + 1] = new
      /\ \A r \in 1 .. n : object_ref'[r] = object_ref[r]
  BY <1>1, <1>2, <1>3
<1>5. \A r \in 1 .. n + 1 : r \in 1 .. n \/ r = n + 1
  BY <1>4
<1>6. AllGood => AllGood'
  BY <1>2, <1>4, <1>5 DEF AllGood, GoodIn, RefIds, pool
<1>7. CachedAreRegistered'
  BY <1>1, <1>2, <1>4, <1>5 DEF CachedAreRegistered, RefIds, pool
<1>8. dirty_refs' \in BOOLEAN /\ (~ dirty_refs' => ~ dirty_refs)
  BY <1>1
<1>9. UNCHANGED <<pool, object_map, pc, blkobj>> /\ status' \in {"ok", "crash"}
  BY <1>1 DEF TypeOK
<1> QED
  BY <1>1, <1>4, <1>6, <1>7, <1>8, <1>9, ReferenceStep

LEMMA OwnerRefKeeps ==
  ASSUME IInv, OwnerRef
  PROVE  IInv'
<1>1. CASE Live(blkobj)
  <2>1. blkobj \in Pointer \cup {NULL} /\ base # 0 /\ TypeOK
    BY <1>1 DEF IInv, TypeOK, OwnerRef, Busy
  <2>2. blkobj.index \in 0 .. Last
    BY <1>1, <2>1 DEF Live, Pointer, NULL, TypeOK, Last
  <2>3. object[blkobj.index] \in Handles
    BY <1>1, <2>1, <2>2 DEF OwnerRef, TypeOK
  <2> QED
    BY <1>1, <2>3, AddRefKeeps DEF OwnerRef
<1>2. CASE ~ Live(blkobj)
  BY <1>2, StatusStep DEF OwnerRef
<1> QED
  BY <1>1, <1>2

LEMMA ResolveObjectrefsKeeps ==
  ASSUME IInv, ResolveObjectrefs
  PROVE  IInv'
<1> USE DEF ResolveObjectrefs
<1> DEFINE all == AllResolved(base, object_map, num_objects)
<1>1. /\ all \in Seq(Reference) /\ Len(all) = Len(object_ref)
      /\ \A r \in RefIds :
           /\ GoodIn(all[r].obj, all[r].absolute_ref, base, num_objects, object)
           /\ all[r].obj # NULL =>
                object_map[all[r].absolute_ref] # NotFound
  BY RefreshIsGood
<1>2. object_ref' = all /\ dirty_refs' \in BOOLEAN /\ status' \in {"ok", "crash"}
  BY DEF IInv, TypeOK
<1> HIDE DEF all
<1>3. AllGood' /\ CachedAreRegistered'
  BY <1>1, <1>2 DEF AllGood, CachedAreRegistered, RefIds, pool
<1> QED
  BY <1>1, <1>2, <1>3, ReferenceStep

(* Caching a good pointer in one reference of a good vector. *)
LEMMA StoreStep ==
  ASSUME IInv, UNCHANGED <<pool, object_map, pc, blkobj>>,
         status' \in {"ok", "crash"}, dirty_refs' \in BOOLEAN,
         NEW r \in RefIds, NEW refs \in Seq(Reference), NEW p \in Pointer \cup {NULL},
         Len(refs) = Len(object_ref),
         object_ref' = [refs EXCEPT ![r].obj = p],
         GoodIn(p, refs[r].absolute_ref, base, num_objects, object),
         p # NULL => object_map[refs[r].absolute_ref] # NotFound,
         \A s \in RefIds : refs[s].obj # NULL =>
           object_map[refs[s].absolute_ref] # NotFound,
         ~ dirty_refs' => \A s \in RefIds :
           GoodIn(refs[s].obj, refs[s].absolute_ref, base, num_objects, object)
  PROVE  IInv'
<1>1. Len(object_ref) \in Nat /\ RefIds = 1 .. Len(refs)
  BY InvParts, VectorIndex DEF RefIds
<1>2. \A s \in RefIds : refs[s] \in Reference
  BY <1>1
<1> DEFINE y == [refs[r] EXCEPT !.obj = p]
<1>3. y \in Reference /\ y.absolute_ref = refs[r].absolute_ref /\ y.obj = p
  BY <1>2, StorePointer
<1>4. object_ref' = [refs EXCEPT ![r] = y]
  OBVIOUS
<1> HIDE DEF y
<1>5. /\ object_ref' \in Seq(Reference) /\ Len(object_ref') = Len(object_ref)
      /\ \A s \in RefIds : object_ref'[s] = IF s = r THEN y ELSE refs[s]
  BY <1>1, <1>3, <1>4
<1>6. (~ dirty_refs => AllGood)' /\ CachedAreRegistered'
  BY <1>3, <1>5 DEF AllGood, CachedAreRegistered, RefIds, pool
<1> QED
  BY <1>5, <1>6, ReferenceStep

(* What the lookups return is good, and the cached pointer that            *)
(* dwg_ref_object reads through leads into the pool.                       *)
LEMMA LookupsAreGood ==
  ASSUME IInv, NEW r \in RefIds
  PROVE  /\ Refreshed[r].obj = NULL \/ Live(Refreshed[r].obj)
         /\ \A p \in {RefReturns(r), SilentReturns(r)} :
              /\ p \in Pointer \cup {NULL}
              /\ GoodIn(p, object_ref[r].absolute_ref, base, num_objects, object)
              /\ p = NULL <=>
                   object_map[object_ref[r].absolute_ref] = NotFound
<1> DEFINE h == object_ref[r].absolute_ref
           q == Refreshed[r].obj
<1>1. /\ h \in Handles /\ q \in Pointer \cup {NULL}
      /\ GoodIn(q, h, base, num_objects, object)
      /\ q # NULL => object_map[h] # NotFound
  BY RefreshIsGood
<1>2. /\ Resolve(h) \in Pointer \cup {NULL}
      /\ GoodIn(Resolve(h), h, base, num_objects, object)
      /\ Resolve(h) = NULL <=> object_map[h] = NotFound
  BY <1>1, ResolveIsGood
<1>3. q = NULL \/ Live(q)
  BY <1>1 DEF GoodIn, Live
<1>4. /\ RefReturns(r) = Resolve(h) \/ (q # NULL /\ RefReturns(r) = q)
      /\ SilentReturns(r) = Resolve(h) \/ (q # NULL /\ SilentReturns(r) = q)
  BY DEF RefReturns, SilentReturns
<1> QED
  BY <1>1, <1>2, <1>3, <1>4

LEMMA RefObjectKeeps ==
  ASSUME IInv, NEW r \in RefIds, RefObject(r) \/ RefObjectSilent(r)
  PROVE  IInv' /\ status' = status
<1> PICK p \in {RefReturns(r), SilentReturns(r)} :
           object_ref' = [Refreshed EXCEPT ![r].obj = p] /\ status' = status
  BY LookupsAreGood DEF RefObject, RefObjectSilent
<1>1. /\ p \in Pointer \cup {NULL}
      /\ GoodIn(p, object_ref[r].absolute_ref, base, num_objects, object)
      /\ p # NULL => object_map[object_ref[r].absolute_ref] # NotFound
  BY LookupsAreGood
<1>2. /\ UNCHANGED <<pool, object_map, pc, blkobj>>
      /\ status' \in {"ok", "crash"} /\ dirty_refs' \in BOOLEAN
  BY DEF RefObject, RefObjectSilent, IInv, TypeOK
<1>3. /\ Refreshed \in Seq(Reference) /\ Len(Refreshed) = Len(object_ref)
      /\ Refreshed[r].absolute_ref = object_ref[r].absolute_ref
      /\ \A s \in RefIds :
           /\ GoodIn(Refreshed[s].obj, Refreshed[s].absolute_ref,
                     base, num_objects, object)
           /\ Refreshed[s].obj # NULL =>
                object_map[Refreshed[s].absolute_ref] # NotFound
  BY RefreshIsGood
<1> QED
  BY <1>1, <1>2, <1>3, StoreStep

LEMMA RefObjectRelativeKeeps ==
  ASSUME IInv, NEW r \in RefIds, RefObjectRelative(r)
  PROVE  IInv'
<1> DEFINE h == object_ref[r].absolute_ref
           p == Resolve(h)
<1>1. /\ TypeOK /\ object_ref \in Seq(Reference) /\ h \in Handles
      /\ ~ dirty_refs => AllGood
      /\ CachedAreRegistered
  BY InvParts, VectorIndex DEF TypeOK
<1>2. /\ p \in Pointer \cup {NULL}
      /\ GoodIn(p, h, base, num_objects, object)
      /\ p # NULL => object_map[h] # NotFound
  BY <1>1, ResolveIsGood
<1>3. /\ UNCHANGED <<pool, object_map, pc, blkobj>>
      /\ status' \in {"ok", "crash"} /\ dirty_refs' \in BOOLEAN
      /\ dirty_refs' = dirty_refs
      /\ object_ref' = [object_ref EXCEPT ![r].obj = p]
  BY <1>1 DEF RefObjectRelative, TypeOK
<1>4. /\ \A s \in RefIds : object_ref[s].obj # NULL =>
           object_map[object_ref[s].absolute_ref] # NotFound
      /\ ~ dirty_refs' => \A s \in RefIds :
           GoodIn(object_ref[s].obj, object_ref[s].absolute_ref,
                  base, num_objects, object)
  BY <1>1, <1>3 DEF CachedAreRegistered, AllGood
<1> HIDE DEF p
<1> QED
  BY <1>1, <1>2, <1>3, <1>4, StoreStep

-----------------------------------------------------------------------------
(* The invariant is inductive. *)

LEMMA InitEstablishes == Init => IInv
<1> SUFFICES ASSUME Init PROVE IInv
  OBVIOUS
<1>1. object_ref = <<>> /\ RefIds = {} /\ Last = -1
  BY DEF Init, RefIds, Last
<1>2. object \in [0 .. Last -> Handles \cup {0}]
  BY <1>1 DEF Init
<1>3. object_map \in [Handles -> Nat \cup {NotFound}]
  BY DEF Init
<1>4. TypeOK
  BY <1>1, <1>2, <1>3 DEF Init, TypeOK
<1>5. MapNamesObjects
  BY DEF Init, MapNamesObjects
<1> QED
  BY <1>1, <1>4, <1>5 DEF Init, IInv, PoolHoldsObjects, CleanRefsAreLive,
                          OwnerIsLive, CachedAreRegistered, Users, Readers

LEMMA NextKeeps == IInv /\ [Next]_vars => IInv'
<1> SUFFICES ASSUME IInv, [Next]_vars PROVE IInv'
  OBVIOUS
<1>1. CASE UNCHANGED vars
  BY <1>1, StatusStep DEF vars, pool, IInv, TypeOK
<1>2. CASE AddObject
  <2>1. ASSUME NEW u \in Users, NEW b \in 0 .. Last \cup {0},
               AddMovingFails(u, b)
        PROVE  IInv'
    BY <2>1, StatusStep DEF AddMovingFails
  <2> QED
    BY <1>2, <2>1, AddFirstKeeps, AddFirstFailsKeeps, AddInPlaceKeeps,
       AddMovingKeeps DEF AddObject
<1>3. CASE Rejected
  BY <1>3, RejectedKeeps
<1>5. CASE RegisterSeqend \/ DecodeRegisters
  BY <1>5, RegistersKeep
<1>6. ASSUME NEW h \in Handles \cup {0}, DecodeHandle(h)
      PROVE  IInv'
  BY <1>6, DecodeHandleKeeps
<1>7. ASSUME NEW h \in Handles, DxfRegisters(h) \/ ApiRegisters(h) \/ NewRef(h)
      PROVE  IInv'
  BY <1>7, DxfRegistersKeeps, ApiRegistersKeeps, AddRefKeeps DEF NewRef
<1>8. CASE OwnerRef
  BY <1>8, OwnerRefKeeps
<1>9. CASE AddRefFails
  BY <1>9, StatusStep DEF AddRefFails
<1>10. CASE ResolveObjectrefs
  BY <1>10, ResolveObjectrefsKeeps
<1>11. ASSUME NEW r \in RefIds,
              RefObject(r) \/ RefObjectSilent(r) \/ RefObjectRelative(r)
       PROVE  IInv'
  BY <1>11, RefObjectKeeps, RefObjectRelativeKeeps
<1> QED
  BY <1>1, <1>2, <1>3, <1>5, <1>6, <1>7, <1>8, <1>9, <1>10, <1>11
     DEF Next

(* IInv holds in every state that additions, rejections, registrations,    *)
(* moves, lookups and failures can reach.                                  *)
THEOREM InductiveInvariant == Spec => []IInv
<1>1. Init => IInv
  BY InitEstablishes
<1>2. IInv /\ [Next]_vars => IInv'
  BY NextKeeps
<1> QED
  BY <1>1, <1>2, PTL DEF Spec

(* The pool, the map, the references and the held pointers keep their types. *)
THEOREM TypeCorrect == Spec => []TypeOK
<1>1. IInv => TypeOK
  BY DEF IInv
<1> QED
  BY <1>1, InductiveInvariant, PTL

(* The pool holds its objects, and the map leads to objects of the handle  *)
(* asked for, after any rejections and duplicates.                         *)
THEOREM MapStaysSound == Spec => []MapIsSound
<1>1. IInv => MapIsSound
  BY DEF IInv, MapIsSound
<1> QED
  BY <1>1, InductiveInvariant, PTL

(* While dirty_refs is clear, every cached pointer leads into the pool, to *)
(* the object its reference names.                                         *)
THEOREM CachedPointersAreLive == Spec => []CleanRefsAreLive
<1>1. IInv => CleanRefsAreLive
  BY DEF IInv
<1> QED
  BY <1>1, InductiveInvariant, PTL

(* A lookup through a reference finds the object whenever there is one, in *)
(* the pool as it is when the lookup is made.                              *)
THEOREM LookupsFind == Spec => []RefsFindObjects
<1>1. IInv => RefsFindObjects
  <2> SUFFICES ASSUME IInv, NEW r \in RefIds,
                      NEW p \in {RefReturns(r), SilentReturns(r)},
                      NEW h \in Handles, h = object_ref[r].absolute_ref
               PROVE  IF object_map[h] = NotFound
                        THEN p = NULL ELSE Live(p) /\ object[p.index] = h
    BY InvParts, VectorIndex DEF RefsFindObjects
  <2> QED
    BY LookupsAreGood DEF GoodIn, Live
<1> QED
  BY <1>1, InductiveInvariant, PTL

(* No lookup reads through a pointer that does not lead into the pool, and *)
(* NEW_ENTITY never does: only a failed allocation can crash.              *)
THEOREM DanglingNeverFollowed == Spec => NothingDangles
<1> DEFINE Step == status = "ok" /\ status' = "crash" => OutOfMemory
<1>1. IInv /\ [Next]_vars => [Step]_vars
  <2> SUFFICES ASSUME IInv, status = "ok", status' = "crash", Next
               PROVE  OutOfMemory
    BY DEF vars
  <2>1. ~ OwnerRef
    BY DEF IInv, OwnerIsLive, OwnerRef, Busy, AddRef
  <2>2. \A r \in RefIds : ~ (RefObject(r) \/ RefObjectSilent(r))
    BY RefObjectKeeps
  <2>3. AddObject => OutOfMemory
    BY DEF AddObject, AddFirst, AddInPlace, AddMoving, OutOfMemory
  <2>4. AddRefFails => OutOfMemory
    BY DEF OutOfMemory
  <2> QED
    BY <2>1, <2>2, <2>3, <2>4
       DEF Next, Rejected, RegisterSeqend, DecodeRegisters, DecodeHandle,
           DxfRegisters, ApiRegisters, NewRef, AddRef,
           ResolveObjectrefs, RefObjectRelative
<1> QED
  BY <1>1, InductiveInvariant, PTL DEF Spec, NothingDangles
=============================================================================

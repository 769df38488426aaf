----------------------------- MODULE ObjectPool -----------------------------
(***************************************************************************)
(* The object pool of a drawing, its handle references and their cached    *)
(* pointers: dwg_add_object, as it is used by dwg_decode_add_object, by    *)
(* the DXF reader and by the API, on one side, dwg_ref_object and its      *)
(* variants on the other.                                                  *)
(*                                                                         *)
(* dwg->object is one array that realloc may move.  A reference caches a   *)
(* pointer into it, and dwg->dirty_refs says that the cached pointers      *)
(* cannot be trusted.  A pointer is modelled as [base, index], where base  *)
(* numbers the places the array has been at: base 0 is NULL, and a pointer *)
(* with another base than the current one dangles.                         *)
(*                                                                         *)
(* object_map is the map that IntMap specifies and IntHash implements.     *)
(* References without a handle, which are not in the object_ref vector,    *)
(* resolve to nothing and are left out.                                    *)
(***************************************************************************)
EXTENDS Integers, Sequences

CONSTANTS
  Handles,        (* the handles that occur, without the null handle 0 *)
  InitialAlloc,   (* objects in the first allocation, 1024 in the code *)
  RefsPerRealloc, (* REFS_PER_REALLOC, 16384 in the code *)
  MaxObjects,     (* bound on the objects of the pool *)
  MaxRefs         (* bound on the references *)

ASSUME HandlesType == Handles \subseteq Nat \ {0}
ASSUME SizesType ==
  InitialAlloc \in Nat \ {0} /\ RefsPerRealloc \in Nat \ {0}

VARIABLES
  num_objects,    (* dwg->num_objects *)
  num_alloced,    (* dwg->num_alloced_objects *)
  base,           (* where dwg->object is *)
  object,         (* dwg->object: index |-> handle.value, 0 when not set *)
  object_map,     (* dwg->object_map: handle |-> index *)
  object_ref,     (* dwg->object_ref: sequence of [absolute_ref, obj] *)
  dirty_refs,     (* dwg->dirty_refs *)
  pc,             (* who is adding the last object of the pool, or "idle" *)
  blkobj,         (* the pointer dwg_add_<entity> holds across NEW_ENTITY *)
  status          (* "crash" after a write to or a read of memory not owned *)

pool == <<num_objects, num_alloced, base, object>>
vars == <<num_objects, num_alloced, base, object, object_map, object_ref,
          dirty_refs, pc, blkobj, status>>

-----------------------------------------------------------------------------
NotFound == -1                     (* HASH_NOT_FOUND *)
Pointer == [base : Nat \ {0}, index : Nat]
NULL == [base |-> 0, index |-> 0]
Reference == [absolute_ref : Handles, obj : Pointer \cup {NULL}]

Last == num_objects - 1            (* the object being added *)
RefIds == 1 .. Len(object_ref)

(* A pointer to an object that is in the pool, where the pool is now. *)
Live(p) == p.base = base /\ p.index < num_objects

(* dwg_resolve_handle, and its silent variant. *)
ResolveIn(at, map, num, h) ==
  IF map[h] = NotFound \/ map[h] >= num
    THEN NULL
    ELSE [base |-> at, index |-> map[h]]

Resolve(h) == ResolveIn(base, object_map, num_objects, h)

(* The loop of dwg_resolve_objectrefs_silent and resolve_objectref_vector. *)
AllResolved(at, map, num) ==
  [r \in RefIds |->
     [object_ref[r] EXCEPT
        !.obj = ResolveIn(at, map, num, object_ref[r].absolute_ref)]]

Init ==
  /\ num_objects = 0 /\ num_alloced = 0 /\ base = 0
  /\ object = [o \in 0 .. -1 |-> 0]
  /\ object_map = [h \in Handles |-> NotFound]
  /\ object_ref = <<>>
  /\ dirty_refs \in BOOLEAN   (* the readers set it, dwg_add_document clears it *)
  /\ pc = "idle" /\ blkobj = NULL
  /\ status = "ok"

-----------------------------------------------------------------------------
(* dwg_add_object *)

FirstObject == num_objects = 0 /\ base = 0
PoolFull == ~ FirstObject /\ num_objects >= num_alloced

(* The zeroed object at the end of the pool. *)
AppendObject ==
  /\ object' = [o \in 0 .. num_objects |->
                  IF o = num_objects THEN 0 ELSE object[o]]
  /\ num_objects' = num_objects + 1

(* dwg_add_object is called by dwg_decode_add_object, by the NEW_OBJECT    *)
(* and NEW_ENTITY of the DXF reader, by the NEW_OBJECT and the NEW_ENTITY  *)
(* of the API; the latter adds to the block header b.                      *)
Readers == {"decode", "dxf"}
Users == Readers \cup {"object", "entity"}
MayAdd(u, b) ==
  /\ pc = "idle" /\ status = "ok" /\ num_objects < MaxObjects
  /\ u = "entity" => b \in 0 .. Last

(* Mutant: NEW_ENTITY goes on with the block header it had. *)
MutBlockNotRefetched(u, b, at) ==
  IF u = "entity" THEN [base |-> base, index |-> b] ELSE NULL

(* The block header that NEW_ENTITY holds once the pool is at a place. *)
BlockAt(u, b, at) == IF u = "entity" THEN [base |-> at, index |-> b] ELSE NULL

(* The first object: the pool is allocated, and the references are taken   *)
(* to be clean.                                                            *)
AddFirst(u) ==
  /\ MayAdd(u, 0) /\ FirstObject
  /\ AppendObject
  /\ base' = 1 /\ num_alloced' = InitialAlloc
  /\ dirty_refs' = FALSE
  /\ pc' = u
  /\ UNCHANGED <<object_map, object_ref, blkobj, status>>

(* There is room in the pool, or realloc finds room behind it. *)
AddInPlace(u, b) ==
  /\ MayAdd(u, b) /\ ~ FirstObject
  /\ AppendObject
  /\ num_alloced' = IF PoolFull THEN 2 * num_alloced ELSE num_alloced
  /\ blkobj' = BlockAt(u, b, base)
  /\ pc' = u
  /\ UNCHANGED <<base, object_map, object_ref, dirty_refs, status>>

(* Mutant: a move in a decoder does not set dirty_refs. *)
MutAddMovingClean(u, b) ==
  /\ MayAdd(u, b) /\ PoolFull
  /\ AppendObject
  /\ num_alloced' = 2 * num_alloced
  /\ base' = base + 1
  /\ blkobj' = BlockAt(u, b, base + 1)
  /\ pc' = u
  /\ UNCHANGED <<object_map, object_ref, dirty_refs, status>>

(* realloc moves the array.  A reader goes on with dirty references; the   *)
(* API resolves them at once, and looks up its block header again.         *)
AddMoving(u, b) ==
  /\ MayAdd(u, b) /\ PoolFull
  /\ AppendObject
  /\ num_alloced' = 2 * num_alloced
  /\ base' = base + 1
  /\ IF u \in Readers
       THEN dirty_refs' = TRUE /\ UNCHANGED object_ref
       ELSE /\ dirty_refs' = FALSE
            /\ object_ref' = AllResolved(base + 1, object_map, num_objects + 1)
  /\ blkobj' = BlockAt(u, b, base + 1)
  /\ pc' = u
  /\ UNCHANGED <<object_map, status>>

(* Without memory for the first object, dwg_add_object answers             *)
(* DWG_ERR_OUTOFMEM, and the decoder gives the object up; NEW_OBJECT does  *)
(* not look at the answer, or not for that, and writes behind NULL.        *)
AddFirstFails(u) ==
  /\ MayAdd(u, 0) /\ FirstObject
  /\ num_alloced' = InitialAlloc
  /\ dirty_refs' = FALSE
  /\ status' = IF u = "decode" THEN "ok" ELSE "crash"
  /\ UNCHANGED <<num_objects, base, object, object_map, object_ref, pc, blkobj>>

(* Without memory to grow the pool, the NULL of realloc counts as a move,  *)
(* and the memory behind it is cleared before it is tested for NULL.       *)
AddMovingFails(u, b) ==
  /\ MayAdd(u, b) /\ PoolFull
  /\ status' = "crash"
  /\ UNCHANGED <<pool, object_map, object_ref, dirty_refs, pc, blkobj>>

AddObject ==
  \/ \E u \in Users \ {"entity"} : AddFirst(u) \/ AddFirstFails(u)
  \/ \E u \in Users, b \in 0 .. Last \cup {0} :
        AddInPlace(u, b) \/ AddMoving(u, b) \/ AddMovingFails(u, b)

-----------------------------------------------------------------------------
(* The rest of dwg_decode_add_object *)

Busy(u) == pc = u /\ status = "ok"

(* Mutant: an object is registered before it is rejected. *)
MutRejectedLate ==
  /\ pc = "decoding" /\ status = "ok"
  /\ num_objects' = Last
  /\ object' = [o \in 0 .. Last - 1 |-> object[o]]
  /\ object_map' = IF object[Last] = 0 THEN object_map
                   ELSE [object_map EXCEPT ![object[Last]] = Last]
  /\ pc' = "idle"
  /\ UNCHANGED <<num_alloced, base, object_ref, dirty_refs, blkobj, status>>

(* Mutant: the object is taken back for its class, and again for its size. *)
MutRejectedTwice ==
  /\ Busy("decode") \/ Busy("dxf")
  /\ num_objects' = Last - 1
  /\ object' = [o \in 0 .. Last - 2 |-> object[o]]
  /\ pc' = "idle"
  /\ UNCHANGED <<num_alloced, base, object_map, object_ref, dirty_refs, blkobj,
                 status>>

(* The object is taken back: its size does not fit, its class is not one   *)
(* of the file, its DXF table is unknown.                                  *)
Rejected ==
  /\ Busy("decode") \/ Busy("dxf")
  /\ num_objects' = Last
  /\ object' = [o \in 0 .. Last - 1 |-> object[o]]
  /\ pc' = "idle"
  /\ UNCHANGED <<num_alloced, base, object_map, object_ref, dirty_refs, blkobj,
                 status>>

(* Its handle is read, 0 if it has none. *)
DecodeHandle(h) ==
  /\ Busy("decode")
  /\ object' = [object EXCEPT ![Last] = h]
  /\ pc' = "decoding"
  /\ UNCHANGED <<num_objects, num_alloced, base, object_map, object_ref,
                 dirty_refs, blkobj, status>>

(* hash_set under the handle of the object, when it has one. *)
RegisterLast(h) ==
  object_map' = IF h = 0 THEN object_map ELSE [object_map EXCEPT ![h] = Last]

(* A SEQEND is registered early, for the validation of its owner. *)
RegisterSeqend ==
  /\ Busy("decoding")
  /\ object[Last] # 0
  /\ RegisterLast(object[Last])
  /\ UNCHANGED <<pool, object_ref, dirty_refs, pc, blkobj, status>>

DecodeRegisters ==
  /\ Busy("decoding")
  /\ RegisterLast(object[Last])
  /\ pc' = "idle"
  /\ UNCHANGED <<pool, object_ref, dirty_refs, blkobj, status>>

-----------------------------------------------------------------------------
(* The handles of the other objects *)

(* dwg_add_handle of the DXF reader: a handle that is registered already   *)
(* stays with its first object.                                            *)
DxfRegisters(h) ==
  /\ Busy("dxf")
  /\ object' = [object EXCEPT ![Last] = h]
  /\ RegisterLast(IF object_map[h] = NotFound THEN h ELSE 0)
  /\ pc' = "idle"
  /\ UNCHANGED <<num_objects, num_alloced, base, object_ref, dirty_refs, blkobj,
                 status>>

(* dwg_set_next_objhandle: a handle is chosen and registered. *)
ApiRegisters(h) ==
  /\ pc \in {"object", "entity"} /\ status = "ok"
  /\ object' = [object EXCEPT ![Last] = h]
  /\ RegisterLast(h)
  /\ pc' = "idle" /\ blkobj' = NULL
  /\ UNCHANGED <<num_objects, num_alloced, base, object_ref, dirty_refs, status>>

-----------------------------------------------------------------------------
(* The object_ref vector *)

(* dwg_decode_add_object_ref, called with a new reference by               *)
(* dwg_decode_handleref and by dwg_add_handleref.                          *)
AddRef(h) ==
  /\ Len(object_ref) < MaxRefs
  /\ object_ref' = Append(object_ref, [absolute_ref |-> h, obj |-> NULL])
  /\ dirty_refs' = IF object_ref # <<>> /\ Len(object_ref) % RefsPerRealloc = 0
                     THEN TRUE ELSE dirty_refs
  /\ UNCHANGED <<pool, object_map, pc, blkobj, status>>

NewRef(h) == pc # "entity" /\ status = "ok" /\ AddRef(h)

(* The entity macros make a reference to the block header they hold: a     *)
(* read through a pointer obtained before the pool was extended.           *)
OwnerRef ==
  /\ Busy("entity")
  /\ IF Live(blkobj)
       THEN object[blkobj.index] # 0 /\ AddRef(object[blkobj.index])
       ELSE /\ status' = "crash"
            /\ UNCHANGED <<pool, object_map, object_ref, dirty_refs, pc, blkobj>>

(* As in dwg_add_object, the memory that realloc did not return is cleared. *)
AddRefFails ==
  /\ status = "ok"
  /\ object_ref # <<>> /\ Len(object_ref) % RefsPerRealloc = 0
  /\ status' = "crash"
  /\ UNCHANGED <<pool, object_map, object_ref, dirty_refs, pc, blkobj>>

(* dwg_resolve_objectrefs_silent, called at the end of a decoder and by    *)
(* whoever finds the references dirty.                                     *)
Refreshed ==
  IF dirty_refs THEN AllResolved(base, object_map, num_objects) ELSE object_ref

ResolveObjectrefs ==
  /\ status = "ok"
  /\ object_ref' = AllResolved(base, object_map, num_objects)
  /\ dirty_refs' = FALSE
  /\ UNCHANGED <<pool, object_map, pc, blkobj, status>>

(* What dwg_ref_object returns.  A cached pointer to another object than   *)
(* the reference names is dropped.                                         *)
RefReturns(r) ==
  LET p == Refreshed[r].obj
      h == object_ref[r].absolute_ref
  IN  IF p # NULL /\ Live(p) /\ object[p.index] = h THEN p ELSE Resolve(h)

RefObject(r) ==
  /\ status = "ok"
  /\ dirty_refs' = FALSE
  /\ LET p == Refreshed[r].obj
     IN IF p = NULL \/ Live(p)
          THEN /\ object_ref' = [Refreshed EXCEPT ![r].obj = RefReturns(r)]
               /\ UNCHANGED status
          ELSE /\ status' = "crash"   (* p->handle is read in freed memory *)
               /\ object_ref' = Refreshed
  /\ UNCHANGED <<pool, object_map, pc, blkobj>>

(* Mutant: a lookup that fails is cached, and trusted. *)
MutSilentReturnsCachedNull(r) == object_ref[r].obj

(* dwg_ref_object_silent trusts the cached pointer. *)
SilentReturns(r) ==
  LET p == Refreshed[r].obj
  IN  IF p # NULL THEN p ELSE Resolve(object_ref[r].absolute_ref)

RefObjectSilent(r) ==
  /\ status = "ok"
  /\ dirty_refs' = FALSE
  /\ object_ref' = [Refreshed EXCEPT ![r].obj = SilentReturns(r)]
  /\ UNCHANGED <<pool, object_map, pc, blkobj, status>>

(* check_POLYLINE_handles stores what dwg_ref_object_relative returns,     *)
(* which looks at dirty_refs but does not refresh the other references.    *)
RefObjectRelative(r) ==
  /\ pc = "decoding" /\ status = "ok"
  /\ object_ref[r].obj = NULL
  /\ object_ref' =
       [object_ref EXCEPT ![r].obj = Resolve(object_ref[r].absolute_ref)]
  /\ UNCHANGED <<pool, object_map, dirty_refs, pc, blkobj, status>>

-----------------------------------------------------------------------------
Next ==
  \/ AddObject
  \/ Rejected \/ RegisterSeqend \/ DecodeRegisters
  \/ \E h \in Handles \cup {0} : DecodeHandle(h)
  \/ \E h \in Handles : DxfRegisters(h) \/ ApiRegisters(h) \/ NewRef(h)
  \/ OwnerRef \/ AddRefFails \/ ResolveObjectrefs
  \/ \E r \in RefIds : RefObject(r) \/ RefObjectSilent(r) \/ RefObjectRelative(r)

Spec == Init /\ [][Next]_vars

-----------------------------------------------------------------------------
TypeOK ==
  /\ num_objects \in Nat /\ num_alloced \in Nat /\ base \in Nat
  /\ object \in [0 .. Last -> Handles \cup {0}]
  /\ object_map \in [Handles -> Nat \cup {NotFound}]
  /\ object_ref \in Seq(Reference)
  /\ dirty_refs \in BOOLEAN
  /\ pc \in Users \cup {"idle", "decoding"}
  /\ pc # "idle" => num_objects > 0
  /\ blkobj \in Pointer \cup {NULL}
  /\ status \in {"ok", "crash"}

(* The pool is as large as dwg_add_object believes: no object is written   *)
(* past num_alloced_objects, whatever was added, rejected and extended.    *)
PoolHoldsObjects == base # 0 => num_objects <= num_alloced

(* An object found by handle has that handle, although hash_set overwrites *)
(* the entry of a duplicate and rejected objects give their index back.    *)
MapNamesObjects ==
  \A h \in Handles : object_map[h] # NotFound =>
    object_map[h] \in 0 .. Last /\ object[object_map[h]] = h

(* Through additions, rejections, moves of the array and duplicate handles *)
(* both hold: what dwg_resolve_handle returns is the object asked for.     *)
MapIsSound == PoolHoldsObjects /\ MapNamesObjects

(* As long as dirty_refs is clear, every pointer cached in the object_ref  *)
(* vector leads into the pool where it is now, to the object that the      *)
(* reference names.  This is what lets the library hand out ref->obj.      *)
CleanRefsAreLive ==
  ~ dirty_refs => \A r \in RefIds :
    LET p == object_ref[r].obj
    IN  p # NULL => Live(p) /\ object[p.index] = object_ref[r].absolute_ref

(* In any state, dwg_ref_object and dwg_ref_object_silent return the       *)
(* object of the handle, in the pool as it is now, when one is registered: *)
(* a realloc, or a lookup that failed earlier, does not hide it.           *)
RefsFindObjects ==
  status = "ok" => \A r \in RefIds : \A p \in {RefReturns(r), SilentReturns(r)} :
    LET h == object_ref[r].absolute_ref
    IN  IF object_map[h] = NotFound THEN p = NULL
                                    ELSE Live(p) /\ object[p.index] = h

(* The pointer to the block header that an API call holds while it extends *)
(* the pool is not left behind by a move.                                  *)
OwnerIsLive == pc = "entity" => Live(blkobj)

-----------------------------------------------------------------------------
(* The inductive invariant: an object that is being added has no handle    *)
(* yet, so nothing leads to it and it may still be taken back; and a       *)
(* pointer is cached only under a handle that is registered, so that none  *)
(* is cached before there is a pool, when dwg_add_object clears dirty_refs *)
(* without looking at the references.                                      *)
CachedAreRegistered ==
  \A r \in RefIds :
    object_ref[r].obj # NULL => object_map[object_ref[r].absolute_ref] # NotFound

IInv ==
  /\ TypeOK
  /\ num_objects > 0 => base # 0
  /\ base # 0 => num_alloced > 0
  /\ PoolHoldsObjects
  /\ MapNamesObjects
  /\ CleanRefsAreLive
  /\ OwnerIsLive
  /\ pc \in Users => object[Last] = 0
  /\ CachedAreRegistered

-----------------------------------------------------------------------------
OutOfMemory ==
  \/ \E u \in Users, b \in 0 .. Last \cup {0} :
        AddFirstFails(u) \/ AddMovingFails(u, b)
  \/ AddRefFails

(* No call reads or writes memory that is not the pool's: unless memory    *)
(* cannot be had, no dangling pointer is ever followed.                    *)
NothingDangles ==
  [][status = "ok" /\ status' = "crash" => OutOfMemory]_vars
=============================================================================

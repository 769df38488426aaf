----------------------------- MODULE OrderedRefs -----------------------------
(***************************************************************************)
(* dwg_add_handleref and the index it searches: dwg->object_ordered_ref,   *)
(* references ordered by code and absolute handle, filled by               *)
(* ordered_ref_add through bsearch_ex and read by ordered_ref_find through *)
(* the bsearch of the C library, both with Ref_cmp.                        *)
(*                                                                         *)
(* A reference is named by its place in the object_ref vector, so 0 is the *)
(* NULL reference.  References are shared: the index holds pointers, and   *)
(* callers write to the references they were given.  Of an object that is  *)
(* passed along only its handle matters, and whether it is of a type whose *)
(* code 4 handles stay relative.                                           *)
(***************************************************************************)
EXTENDS Integers, Sequences, SequencesExt, FiniteSetsExt

CONSTANTS
  Codes,           (* the handle codes that are asked for *)
  Absrefs,         (* the absolute handles that occur, 0 among them *)
  Objects,         (* the objects passed along: [handle, relative] *)
  RefsPerRealloc,  (* REFS_PER_REALLOC, 16384 in the code *)
  AllocMayFail,    (* TRUE: the index may fail to grow *)
  MaxRefs          (* bound on the references *)

ASSUME CodesType == Codes \subseteq 0 .. 14
ASSUME AbsrefsType == Absrefs \subseteq Nat /\ 0 \in Absrefs
ASSUME ObjectsType == Objects \subseteq [handle : Nat, relative : BOOLEAN]
ASSUME ReallocType == RefsPerRealloc \in Nat \ {0}

VARIABLES
  oldVersion,      (* header.from_version <= R_12 *)
  object_ref,      (* dwg->object_ref: sequence of [code, absolute_ref] *)
  ordered,         (* dwg->object_ordered_ref, <<>> when NULL *)
  disabled,        (* dwg->num_object_ordered_refs = (BITCODE_BL)-1 *)
  HANDSEED,        (* header_vars.HANDSEED *)
  request,         (* the arguments of dwg_add_handleref ... *)
  returned,        (* ... and what it has just returned, 0 after other steps *)
  retyped          (* history: a caller has changed the code of a reference *)

index == <<ordered, disabled>>
vars == <<oldVersion, object_ref, index, HANDSEED, request, returned, retyped>>

-----------------------------------------------------------------------------
NoObject == [handle |-> 0, relative |-> FALSE]     (* obj is NULL *)
NoRequest == [code |-> 0, absref |-> 0, obj |-> NoObject]
IndexedCodes == {0, 2, 3, 4, 5}
RefIds == 1 .. Len(object_ref)

Init ==
  /\ oldVersion \in BOOLEAN
  /\ object_ref = <<>> /\ ordered = <<>> /\ disabled = FALSE
  /\ HANDSEED = 0 /\ retyped = FALSE
  /\ request = NoRequest /\ returned = 0

(* Mutant: handles are compared without their codes. *)
MutRefCmpNoCode(code, absref, ref) ==
  IF absref = ref.absolute_ref THEN 0 ELSE 1

(* Ref_cmp.  Larger and smaller handles of the same code give the same 1.  *)
RefCmp(code, absref, ref) ==
  IF code # ref.code THEN code - ref.code
                     ELSE IF absref = ref.absolute_ref THEN 0 ELSE 1

-----------------------------------------------------------------------------
(* ordered_ref_add, on the vector refs that already has its new reference. *)

(* What Ref_cmp says of the references of the index, one after the other.  *)
Cmps(refs, code, absref) ==
  [i \in DOMAIN ordered |-> RefCmp(code, absref, refs[ordered[i]])]

(* The ranges of an index of n references that bsearch_ex looks at.        *)
Ranges(n) == {w \in [lo : 1 .. n, num : 0 .. n] : w.lo + w.num <= n + 1}

(* The loop of bsearch_ex: where it ends, or an equal one.                 *)
BsearchExLoop(cmp) ==
  LET search[w \in Ranges(Len(cmp))] ==
        LET mid == w.lo + (w.num - 1) \div 2
        IN  IF w.num = 0 THEN [equal |-> FALSE, at |-> w.lo]
            ELSE IF cmp[mid] = 0 THEN [equal |-> TRUE, at |-> mid]
            ELSE IF w.num = 1 THEN [equal |-> FALSE, at |-> w.lo]
            ELSE IF cmp[mid] < 0
            THEN search[[lo |-> w.lo, num |-> (w.num - 1) \div 2]]
            ELSE search[[lo |-> mid + 1, num |-> w.num \div 2]]
  IN  search[[lo |-> 1, num |-> Len(cmp)]]

(* bsearch_ex: whether there is an equal reference, and the place to       *)
(* insert at.                                                              *)
BsearchEx(cmp) ==
  IF cmp = <<>> THEN [equal |-> FALSE, before |-> 1]
  ELSE LET end == BsearchExLoop(cmp)
       IN  [equal |-> end.equal,
            before |-> IF cmp[end.at] > 0 THEN end.at + 1 ELSE end.at]

IndexFull == ordered # <<>> /\ Len(ordered) % RefsPerRealloc = 0

(* A duplicate, or no memory: back to the linear search, for good. *)
DisableIndex == ordered' = <<>> /\ disabled' = TRUE

(* Mutant: references are put into the index in the order they come. *)
MutOrderedRefAddAppends(refs, r) ==
  IF refs[r].code \notin IndexedCodes \/ disabled
    THEN UNCHANGED index
    ELSE ordered' = Append(ordered, r) /\ UNCHANGED disabled

OrderedRefAdd(refs, r) ==
  IF refs[r].code \notin IndexedCodes \/ disabled
    THEN UNCHANGED index
    ELSE \/ AllocMayFail /\ IndexFull /\ DisableIndex
         \/ LET at == BsearchEx(Cmps(refs, refs[r].code, refs[r].absolute_ref))
            IN  IF at.equal
                  THEN DisableIndex
                  ELSE /\ ordered' = InsertAt(ordered, at.before, r)
                       /\ UNCHANGED disabled

-----------------------------------------------------------------------------
(* ordered_ref_find *)

(* bsearch of the C library: an equal one, or 0.                           *)
Bsearch(cmp) ==
  LET search[w \in [l : 0 .. Len(cmp), u : 0 .. Len(cmp)]] ==
        LET mid == (w.l + w.u) \div 2
        IN  IF w.l >= w.u THEN 0
            ELSE IF cmp[mid + 1] = 0 THEN mid + 1
            ELSE IF cmp[mid + 1] < 0 THEN search[[l |-> w.l, u |-> mid]]
            ELSE search[[l |-> mid + 1, u |-> w.u]]
  IN  search[[l |-> 0, u |-> Len(cmp)]]

BinarySearch(code, absref) ==
  LET at == Bsearch(Cmps(object_ref, code, absref))
  IN  IF at = 0 THEN 0 ELSE ordered[at]

Named(code, absref) ==
  {r \in RefIds : RefCmp(code, absref, object_ref[r]) = 0}

LinearSearch(code, absref) ==
  IF Named(code, absref) = {} THEN 0 ELSE Min(Named(code, absref))

(* Mutant: without an index nothing is found. *)
MutOrderedRefFindNoFallback(code, absref) == BinarySearch(code, absref)

OrderedRefFind(code, absref) ==
  IF ordered # <<>> THEN BinarySearch(code, absref) ELSE LinearSearch(code, absref)

-----------------------------------------------------------------------------
(* dwg_add_handleref *)

(* The code that dwg_add_handle stores: relative to the object it can be.  *)
StoredCode(code, absref, obj) ==
  LET offset == absref - obj.handle
  IN  IF (code = 4 \/ code > 5) /\ obj # NoObject /\ absref # 0
        THEN CASE offset = 1 -> 6  [] offset = -1 -> 8
               [] offset > 1 -> 10 [] offset < -1 -> 12
               [] offset = 0 -> code
        ELSE code

(* A code that may be relative, of an object whose handles are, is not     *)
(* searched for; neither is the null handle in the old versions.           *)
Searched(code, absref, obj) ==
  /\ ~ (code > 5 \/ (code = 4 /\ obj # NoObject /\ obj.relative))
  /\ ~ oldVersion \/ absref # 0

ExistingRef(code, absref, obj) ==
  IF Searched(code, absref, obj) THEN OrderedRefFind(code, absref) ELSE 0

(* The old versions keep HANDSEED at the highest handle referred to. *)
RaisedSeed(absref) ==
  IF oldVersion /\ HANDSEED # 0
    THEN LET seed == object_ref[HANDSEED].absolute_ref
         IN  IF seed # 0 /\ absref > seed
               THEN [object_ref EXCEPT ![HANDSEED].absolute_ref = absref]
               ELSE object_ref
    ELSE object_ref

(* Mutant: the new reference is not counted in the vector. *)
MutNewRefUncounted(code, absref, obj) ==
  LET refs == Append(RaisedSeed(absref),
                     [code |-> StoredCode(code, absref, obj),
                      absolute_ref |-> absref])
  IN  /\ Len(object_ref) < MaxRefs
      /\ UNCHANGED object_ref
      /\ returned' = Len(refs)
      /\ OrderedRefAdd(refs, Len(refs))

NewRef(code, absref, obj) ==
  LET refs == Append(RaisedSeed(absref),
                     [code |-> StoredCode(code, absref, obj),
                      absolute_ref |-> absref])
  IN  /\ Len(object_ref) < MaxRefs
      /\ object_ref' = refs
      /\ returned' = Len(refs)
      /\ OrderedRefAdd(refs, Len(refs))

AddHandleref(code, absref, obj) ==
  /\ request' = [code |-> code, absref |-> absref, obj |-> obj]
  /\ LET ref == ExistingRef(code, absref, obj) IN
      \/ /\ ref # 0
         /\ returned' = ref
         /\ UNCHANGED <<object_ref, index>>
      \/ /\ ref = 0
         /\ NewRef(code, absref, obj)

AddsHandleref ==
  /\ \E code \in Codes, absref \in Absrefs, obj \in Objects \cup {NoObject} :
       AddHandleref(code, absref, obj)
  /\ UNCHANGED <<oldVersion, HANDSEED, retyped>>

-----------------------------------------------------------------------------
(* What else happens to the references *)

NoCall == request' = NoRequest /\ returned' = 0

(* dwg_init_handseed and dwg_add_Document *)
InitHandseed ==
  /\ HANDSEED = 0
  /\ \E absref \in Absrefs \ {0} : AddHandleref(0, absref, NoObject)
  /\ HANDSEED' = returned'
  /\ UNCHANGED <<oldVersion, retyped>>

(* dwg_new_handseed and dwg_next_handseed move HANDSEED in place, although *)
(* it is in the index with its old handle.                                 *)
MoveHandseed ==
  /\ HANDSEED # 0
  /\ \E absref \in Absrefs :
       /\ absref > object_ref[HANDSEED].absolute_ref
       /\ object_ref' = [object_ref EXCEPT ![HANDSEED].absolute_ref = absref]
  /\ NoCall
  /\ UNCHANGED <<oldVersion, index, HANDSEED, retyped>>

(* dwg_decode_handleref adds what it reads to the vector, not to the index. *)
DecodeHandleref ==
  /\ Len(object_ref) < MaxRefs
  /\ \E code \in Codes, absref \in Absrefs :
       object_ref' =
         Append(object_ref, [code |-> code, absolute_ref |-> absref])
  /\ NoCall
  /\ UNCHANGED <<oldVersion, index, HANDSEED, retyped>>

(* The DXF reader completes the null references of an LTYPE_CONTROL. *)
CompleteNullRef ==
  /\ \E r \in RefIds, absref \in Absrefs \ {0} :
       /\ object_ref[r].absolute_ref = 0
       /\ object_ref' = [object_ref EXCEPT ![r].absolute_ref = absref]
  /\ NoCall
  /\ UNCHANGED <<oldVersion, index, HANDSEED, retyped>>

(* The DXF reader makes a hard pointer of the line type it has found. *)
RetypeRef ==
  /\ ~ retyped                               (* bound: once *)
  /\ \E r \in RefIds :
       /\ object_ref[r].code # 5
       /\ object_ref' = [object_ref EXCEPT ![r].code = 5]
  /\ retyped' = TRUE
  /\ NoCall
  /\ UNCHANGED <<oldVersion, index, HANDSEED>>

Next ==
  \/ AddsHandleref \/ InitHandseed \/ MoveHandseed
  \/ DecodeHandleref \/ CompleteNullRef \/ RetypeRef

Spec == Init /\ [][Next]_vars

-----------------------------------------------------------------------------
TypeOK ==
  /\ oldVersion \in BOOLEAN /\ retyped \in BOOLEAN
  /\ object_ref \in Seq([code : 0 .. 14, absolute_ref : Nat])
  /\ ordered \in Seq(RefIds)
  /\ disabled \in BOOLEAN
  /\ HANDSEED \in RefIds \cup {0}
  /\ request \in [code : Codes \cup {0}, absref : Absrefs,
                  obj : Objects \cup {NoObject}]
  /\ returned \in RefIds \cup {0}

(* The index holds every reference at most once, and nothing but references *)
(* that it may hold; once it has been given up it stays empty.             *)
IndexedOnce ==
  /\ IsInjective(ordered)
  /\ disabled => ordered = <<>>
  /\ \A i \in DOMAIN ordered : object_ref[ordered[i]].code \in IndexedCodes

(* Although Ref_cmp does not order the handles of a code, and HANDSEED     *)
(* moves under the index, bsearch_ex inserts so that the references of a   *)
(* code stay together, the codes ascending, until a caller changes a code. *)
IndexGroupedByCode ==
  ~ retyped => \A i, j \in DOMAIN ordered :
    i < j => object_ref[ordered[i]].code <= object_ref[ordered[j]].code

(* The last reference of each code is always found by its present handle:  *)
(* both searches move right within a code.                                 *)
LastOfCodeFound ==
  ~ retyped => \A i \in DOMAIN ordered :
    LET ref == object_ref[ordered[i]]
    IN  (i = Len(ordered) \/ object_ref[ordered[i + 1]].code # ref.code)
        => OrderedRefFind(ref.code, ref.absolute_ref) # 0

(* What is left of the order of the index, whoever wrote to its references. *)
IndexUsable == IndexedOnce /\ IndexGroupedByCode /\ LastOfCodeFound

(* dwg_add_handleref has added a new reference. *)
Added == returned' > Len(object_ref)

(* A request that is repeated at once adds nothing: what dwg_add_handleref *)
(* has just added it finds again, with the index or after giving it up, as *)
(* long as no caller has changed a code.  (From 6 references on, a changed *)
(* code may hide the new one.)                                             *)
RepeatFinds ==
  [][Added /\ ~ retyped /\ request'.code \in IndexedCodes
       /\ request'.obj = NoObject
     => OrderedRefFind(request.code, request.absref)' # 0]_vars

(* The request could be answered with a reference that is already there. *)
CouldExist(q) ==
  Searched(q.code, q.absref, q.obj) /\ Named(q.code, q.absref) # {}

(* With the index given up, no reference is added that there already is.   *)
LinearSearchFinds == [][disabled /\ Added => ~ CouldExist(request')]_vars

(* Both: what is found again, before and after the index is given up. *)
ReferencesFound == RepeatFinds /\ LinearSearchFinds

(* What is returned is a reference to the handle that was asked for, and   *)
(* unless it is a new one, with the code that was asked for.               *)
ReturnsRequested ==
  [][returned' # 0 => LET ref == object_ref'[returned'] IN
       /\ ref.absolute_ref = request'.absref
       /\ ref.code = request'.code \/ Added]_vars

(* dwg.c:2144 says of dwg_add_handleref: "Returns an existing ref with the *)
(* same ownership (hard/soft, owner/pointer) or creates it".               *)
ReturnsExisting ==
  [][Added /\ request'.absref # 0 => ~ CouldExist(request')]_vars
=============================================================================

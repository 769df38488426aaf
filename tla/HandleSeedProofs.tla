-------------------------- MODULE HandleSeedProofs --------------------------
(***************************************************************************)
(* Proofs about HandleSeed, for any bounds on the handles and the objects: *)
(* the handles that dwg_set_next_objhandle and dwg_next_handseed give to   *)
(* new objects.                                                            *)
(***************************************************************************)
EXTENDS HandleSeed, WellFoundedInduction, TLAPS

USE BoundsType

-----------------------------------------------------------------------------
(* The search for a handle that is not in the map. *)

LEMMA NatOrder == IsWellFoundedOn({p \in Nat \X Nat : p[1] < p[2]}, Nat)
  BY NatLessThanWellFounded DEF OpToRel

LEMMA MinOfNats ==
  ASSUME NEW S, S \subseteq Nat, S # {}
  PROVE  Min(S) \in S
<1> DEFINE R == {p \in Nat \X Nat : p[1] < p[2]}
<1>1. \E x \in S : \A y \in S : ~ (<<y, x>> \in R)
  <2> HIDE DEF R
  <2>1. IsWellFoundedOn(R, Nat)
    BY NatOrder DEF R
  <2> QED
    BY <2>1, WFMin
<1>2. PICK x \in S : \A y \in S : ~ (<<y, x>> \in R)
  BY <1>1
<1>3. ASSUME NEW y \in S PROVE x <= y
  <2>1. ~ (<<y, x>> \in R) /\ <<y, x>> \in Nat \X Nat
    BY <1>2
  <2> QED
    BY <2>1
<1> QED
  BY <1>3 DEF Min

(* From h on, the search ends at a handle that is not in the map, or       *)
(* behind all handles.                                                     *)
LEMMA SearchEnds ==
  ASSUME NEW h \in Nat
  PROVE  /\ FirstUnmapped(h) \in 0 .. MaxHandle + 1
         /\ FirstUnmapped(h) <= MaxHandle =>
              h <= FirstUnmapped(h) /\ ~ Mapped(FirstUnmapped(h))
         /\ h <= MaxHandle + 1 => h <= FirstUnmapped(h)
<1> DEFINE S == {k \in h .. MaxHandle : ~ Mapped(k)} \cup {MaxHandle + 1}
<1>1. S \subseteq Nat /\ S # {}
  OBVIOUS
<1>2. Min(S) \in S
  BY <1>1, MinOfNats
<1>3. FirstUnmapped(h) = Min(S)
  BY DEF FirstUnmapped
<1> QED
  BY <1>2, <1>3

-----------------------------------------------------------------------------
(* What the steps that add an object have in common. *)

(* The objects that were there keep their handles. *)
LEMMA Appended ==
  ASSUME TypeOK, NEW h \in Handles \cup {0}, object' = Append(object, h)
  PROVE  /\ Len(object) \in Nat
         /\ object' \in Seq(Handles \cup {0})
         /\ Indices' = Indices \cup {Len(object) + 1}
         /\ Indices = 1 .. Len(object)
         /\ \A i \in Indices : object'[i] = object[i] /\ object[i] \in Handles \cup {0}
         /\ object'[Len(object) + 1] = h
         /\ Len(object') = Len(object) + 1
         /\ InUse' = (InUse \cup {h}) \ {0}
<1>1. object \in Seq(Handles \cup {0}) /\ Len(object) \in Nat
  BY DEF TypeOK
<1>2. Len(object') = Len(object) + 1
  BY <1>1
<1>3. \A i \in 1 .. Len(object) : object'[i] = object[i] /\ object[i] \in Handles \cup {0}
  BY <1>1
<1>4. object'[Len(object) + 1] = h
  BY <1>1
<1>5. Indices' = Indices \cup {Len(object) + 1}
  BY <1>1, <1>2 DEF Indices
<1>6. object' \in Seq(Handles \cup {0})
  BY <1>1
<1>7. InUse' = (InUse \cup {h}) \ {0}
  <2>1. InUse' = {object'[i] : i \in Indices'} \ {0}
    BY DEF InUse
  <2> QED
    BY <2>1, <1>3, <1>4, <1>5 DEF InUse, Indices
<1> QED
  BY <1>1, <1>2, <1>3, <1>4, <1>5, <1>6, <1>7 DEF Indices

(* The part of the invariant about the objects and the map. *)
MapInv ==
  /\ object \in Seq(Handles \cup {0})
  /\ object_map \in [Handles -> Indices \cup {NotFound}]
  /\ MapNamesObjects

LEMMA MapStays ==
  ASSUME TypeOK, MapNamesObjects, Known, NEW h \in Handles \cup {0},
         object' = Append(object, h), UNCHANGED <<object_map, source, fileSeed>>,
         strays \subseteq strays',
         h # 0 => source = "R11" /\ (h < fileSeed \/ h \in strays')
  PROVE  MapInv' /\ Known'
<1> USE Appended DEF TypeOK
<1>1. \A k \in Handles : Mapped(k)' <=> Mapped(k)
  BY DEF Mapped
<1>2. MapNamesObjects'
  BY <1>1 DEF MapNamesObjects, Mapped, NotFound
<1>3. Known'
  BY <1>1 DEF Known, Mapped
<1> QED
  BY <1>2, <1>3 DEF MapInv

LEMMA RegisterStep ==
  ASSUME TypeOK, MapNamesObjects, Known, NEW h \in Handles,
         object' = Append(object, h), Register(h), UNCHANGED <<source, fileSeed, strays>>
  PROVE  MapInv' /\ Known'
<1> USE Appended DEF TypeOK
<1>1. object_map' = [object_map EXCEPT ![h] = Len(object) + 1]
  BY DEF Register
<1>2. object_map' \in [Handles -> Indices' \cup {NotFound}]
  BY <1>1
<1>3. \A k \in Handles : Mapped(k)' <=> Mapped(k) \/ k = h
  BY <1>1 DEF Mapped, NotFound
<1>4. MapNamesObjects'
  BY <1>1, <1>3 DEF MapNamesObjects, NotFound
<1>5. Known'
  BY <1>3 DEF Known
<1> QED
  BY <1>2, <1>4, <1>5 DEF MapInv

LEMMA AddHandleStep ==
  ASSUME TypeOK, MapNamesObjects, Known, NEW h \in Handles, AddHandle(h),
         UNCHANGED <<source, fileSeed, strays>>
  PROVE  MapInv' /\ Known'
<1>1. CASE ~ Mapped(h)
  BY <1>1, RegisterStep DEF AddHandle, Register
<1>2. CASE Mapped(h)
  <2> USE Appended DEF TypeOK
  <2>1. object' = Append(object, h) /\ object_map' = object_map
    BY <1>2 DEF AddHandle
  <2>2. \A k \in Handles : Mapped(k)' <=> Mapped(k)
    BY <2>1 DEF Mapped
  <2>3. MapNamesObjects'
    BY <2>1, <2>2 DEF MapNamesObjects, Mapped, NotFound
  <2>4. Known'
    BY <1>2, <2>1, <2>2 DEF Known
  <2> QED
    BY <2>1, <2>3, <2>4 DEF MapInv
<1> QED
  BY <1>1, <1>2

(* The steps that leave the objects and the map alone. *)
LEMMA MapUntouched ==
  ASSUME TypeOK, MapNamesObjects, Known, UNCHANGED <<file, object, object_map>>,
         fileSeed = Null \/ fileSeed' = fileSeed, strays' = strays
  PROVE  MapInv' /\ Known' /\ InUse' = InUse
<1>1. Indices' = Indices /\ InUse' = InUse /\ source' = source
  BY DEF Indices, InUse, file
<1>2. \A k \in Handles : Mapped(k)' <=> Mapped(k)
  BY DEF Mapped
<1>3. MapInv'
  BY <1>1, <1>2 DEF MapInv, TypeOK, MapNamesObjects
<1>4. \A i \in Indices : object[i] # 0 => object[i] \in Handles
  BY DEF TypeOK, Indices
<1>5. Known'
  BY <1>1, <1>2, <1>4 DEF Known, TypeOK, Null, Handles
<1> QED
  BY <1>1, <1>3, <1>5

-----------------------------------------------------------------------------
(* The steps, one by one. *)

(* The rest of the invariant: the counter and what else a step may change. *)
SeedInv ==
  /\ source \in {"DXF", "DWG", "R11"} /\ oldVersion \in BOOLEAN
  /\ refs \subseteq Handles \cup {0, MaxHandle + 1}
  /\ HANDSEED \in Null .. MaxHandle + 1 /\ seedIsRef \in BOOLEAN
  /\ next_hdl \in Handles \cup {0}
  /\ fileSeed \in Null .. MaxHandle
  /\ strays \subseteq {h \in Handles : source = "R11" /\ h >= fileSeed}
  /\ SeedAboveFile /\ StraysInFile /\ SeedIsSet /\ NextIsFree

LEMMA IInvParts == IInv <=> MapInv /\ Known /\ SeedInv
  BY DEF IInv, MapInv, SeedInv, TypeOK

(* A reader that adds an object leaves the counter alone. *)
LEMMA ReaderSeed ==
  ASSUME IInv, next_hdl = 0,
         UNCHANGED <<file, refs, HANDSEED, seedIsRef, next_hdl, fileSeed>>,
         strays' \subseteq {h \in Handles : source = "R11" /\ h >= fileSeed},
         StraysInFile'
  PROVE  SeedInv'
  BY DEF IInv, TypeOK, SeedInv, SeedAboveFile, StraysInFile, SeedIsSet, NextIsFree, file

LEMMA ReadHandseedStep ==
  ASSUME IInv, ReadHandseed
  PROVE  MapInv' /\ Known' /\ SeedInv'
<1> USE DEF IInv
<1>1. UNCHANGED <<file, object, object_map, strays>> /\ fileSeed = Null
  BY DEF ReadHandseed
<1>2. MapInv' /\ Known'
  BY <1>1, MapUntouched
<1>3. refs' \subseteq Handles \cup {0, MaxHandle + 1}
  BY DEF ReadHandseed, SeedIsSet, TypeOK, Null, Handles
<1>4. SeedInv'
  BY <1>3 DEF ReadHandseed, SeedInv, TypeOK, SeedAboveFile, StraysInFile, SeedIsSet, NextIsFree,
              Null, Handles, file
<1> QED
  BY <1>2, <1>4

LEMMA ReadTableRecordStep ==
  ASSUME IInv, ReadTableRecord
  PROVE  MapInv' /\ Known' /\ SeedInv' /\ HANDSEED' >= HANDSEED
<1> USE DEF IInv
<1>1. NextHandseed \in Handles /\ AddHandle(NextHandseed) /\ next_hdl = 0
      /\ refs' = refs \cup {NextHandseed}
      /\ UNCHANGED <<file, seedIsRef, next_hdl, fileSeed, strays>>
      /\ HANDSEED' = IF HANDSEED > 0 THEN NextHandseed ELSE HANDSEED
  BY DEF ReadTableRecord, Reading
<1>2. MapInv' /\ Known'
  BY <1>1, AddHandleStep DEF file
<1>3. HANDSEED > 0 => NextHandseed = FirstUnmapped(HANDSEED + 1)
  BY DEF NextHandseed
<1>4. HANDSEED \in Null .. MaxHandle + 1
  BY DEF TypeOK
<1>5. HANDSEED > 0 => NextHandseed > HANDSEED
  BY <1>1, <1>3, <1>4, SearchEnds DEF Handles, Null
<1>6. HANDSEED' \in Null .. MaxHandle + 1 /\ HANDSEED' >= HANDSEED
  BY <1>1, <1>4, <1>5 DEF Handles, Null
<1> HIDE DEF NextHandseed
<1>7. SeedInv'
  BY <1>1, <1>4, <1>6 DEF SeedInv, TypeOK, SeedAboveFile, StraysInFile, SeedIsSet, NextIsFree,
                          Null, file, Handles
<1> QED
  BY <1>2, <1>6, <1>7

LEMMA AddHandlerefStep ==
  ASSUME IInv, NEW h \in Handles, AddHandleref(h)
  PROVE  MapInv' /\ Known' /\ SeedInv' /\ HANDSEED' >= HANDSEED
<1> USE DEF IInv
<1>1. UNCHANGED <<file, object, object_map, seedIsRef, next_hdl, fileSeed, strays>>
      /\ refs' = refs \cup {h}
      /\ (HANDSEED' = SeedAfterRef(h) \/ HANDSEED' = HANDSEED)
  BY DEF AddHandleref
<1>2. MapInv' /\ Known' /\ InUse' = InUse
  BY <1>1, MapUntouched
<1>3. HANDSEED' \in Null .. MaxHandle + 1 /\ HANDSEED' >= HANDSEED
  BY <1>1 DEF SeedAfterRef, TypeOK, Handles, Null
<1>4. SeedInv'
  BY <1>1, <1>2, <1>3 DEF SeedInv, TypeOK, SeedAboveFile, StraysInFile, SeedIsSet, NextIsFree,
                          Null, file, Handles
<1> QED
  BY <1>2, <1>3, <1>4

LEMMA DocumentHandseedStep ==
  ASSUME IInv, DocumentHandseed
  PROVE  MapInv' /\ Known' /\ SeedInv' /\ HANDSEED' >= HANDSEED
<1> USE DEF IInv
<1>1. UNCHANGED <<file, object, object_map, refs, next_hdl, fileSeed, strays>>
      /\ HANDSEED = Null /\ HANDSEED' \in Handles /\ seedIsRef' = TRUE
  BY DEF DocumentHandseed
<1>2. MapInv' /\ Known' /\ InUse' = InUse
  BY <1>1, MapUntouched
<1>3. HANDSEED' \in Null .. MaxHandle + 1 /\ HANDSEED' >= HANDSEED /\ HANDSEED' # Null
  BY <1>1 DEF Handles, Null
<1>4. SeedInv'
  BY <1>1, <1>2, <1>3 DEF SeedInv, TypeOK, SeedAboveFile, StraysInFile, SeedIsSet, NextIsFree, Null, file
<1> QED
  BY <1>2, <1>3, <1>4

LEMMA SetNextHdlStep ==
  ASSUME IInv, SetNextHdl
  PROVE  MapInv' /\ Known' /\ SeedInv' /\ HANDSEED' >= HANDSEED
<1> USE DEF IInv
<1>1. UNCHANGED <<file, object, object_map, refs, HANDSEED, seedIsRef, fileSeed, strays>>
      /\ next_hdl' \in Handles \ InUse
  BY DEF SetNextHdl
<1>2. MapInv' /\ Known' /\ InUse' = InUse
  BY <1>1, MapUntouched
<1>3. SeedInv'
  BY <1>1, <1>2 DEF SeedInv, TypeOK, SeedAboveFile, StraysInFile, SeedIsSet, NextIsFree, file
<1>4. HANDSEED' >= HANDSEED
  BY <1>1 DEF TypeOK, Null
<1> QED
  BY <1>2, <1>3, <1>4

(* The handle of an object the API adds: the one that dwg_add_Document     *)
(* wanted, or one that HANDSEED leads to.                                  *)
NewHandle == IF next_hdl # 0 THEN next_hdl ELSE SeedHandle

LEMMA NewHandleType ==
  ASSUME IInv
  PROVE  /\ InitialSeed \in 0 .. MaxHandle + 1
         /\ HANDSEED # Null => InitialSeed = HANDSEED
         /\ HANDSEED = Null => InitialSeed # 0
         /\ SeedHandle \in 0 .. MaxHandle + 1
         /\ SeedHandle >= InitialSeed
         /\ SeedHandle = 0 => InitialSeed = 0
         /\ SeedHandle \in Handles => ~ Mapped(SeedHandle)
<1>1. object = <<>> \/ object[Len(object)] \in 0 .. MaxHandle
  <2>1. object \in Seq(Handles \cup {0})
    BY DEF IInv, TypeOK
  <2>2. object # <<>> => Len(object) \in 1 .. Len(object)
    BY <2>1
  <2>3. object # <<>> => object[Len(object)] \in Handles \cup {0}
    BY <2>1, <2>2
  <2> QED
    BY <2>3 DEF Handles
<1>2. HANDSEED \in Null .. MaxHandle + 1
  BY DEF IInv, TypeOK
<1>3. /\ InitialSeed \in 0 .. MaxHandle + 1
      /\ HANDSEED # Null => InitialSeed = HANDSEED
      /\ HANDSEED = Null => InitialSeed # 0
  BY <1>1, <1>2 DEF InitialSeed, Null
<1> HIDE DEF InitialSeed
<1>4. CASE InitialSeed = 0
  BY <1>3, <1>4 DEF SeedHandle, Handles
<1>5. CASE InitialSeed # 0
  <2>1. SeedHandle = FirstUnmapped(InitialSeed)
    BY <1>5 DEF SeedHandle
  <2> QED
    BY <1>3, <1>5, <2>1, SearchEnds DEF Handles
<1> QED
  BY <1>3, <1>4, <1>5

LEMMA SetNextObjhandleStep ==
  ASSUME IInv, SetNextObjhandle
  PROVE  MapInv' /\ Known' /\ SeedInv' /\ HANDSEED' >= HANDSEED
<1> USE DEF IInv
<1>1. /\ NewHandle \in Handles \cup {0}
      /\ object' = Append(object, NewHandle)
      /\ IF NewHandle = 0 THEN UNCHANGED object_map ELSE Register(NewHandle)
      /\ \/ next_hdl # 0 /\ UNCHANGED <<HANDSEED, seedIsRef>>
         \/ /\ next_hdl = 0 /\ HANDSEED' = NewHandle + 1
            /\ seedIsRef' = (seedIsRef \/ HANDSEED = Null)
      /\ next_hdl' = 0
      /\ UNCHANGED <<file, refs, fileSeed, strays>>
  BY DEF SetNextObjhandle, NewHandle
<1>2. MapInv' /\ Known'
  <2> HIDE DEF NewHandle
  <2>1. CASE NewHandle = 0
    BY <1>1, <2>1, MapStays DEF file
  <2>2. CASE NewHandle # 0
    BY <1>1, <2>2, RegisterStep DEF file
  <2> QED
    BY <2>1, <2>2
<1>3. next_hdl = 0 => NewHandle >= HANDSEED
  BY NewHandleType DEF NewHandle, TypeOK, Null
<1> HIDE DEF NewHandle
<1>4. HANDSEED' \in Null .. MaxHandle + 1 /\ HANDSEED' >= HANDSEED
  BY <1>1, <1>3 DEF TypeOK, Handles, Null
<1>5. SeedIsSet'
  <2>1. CASE next_hdl # 0
    BY <1>1, <2>1 DEF SeedIsSet
  <2>2. CASE next_hdl = 0
    <3>1. HANDSEED' # Null
      BY <1>1, <2>2 DEF Handles, Null
    <3> QED
      BY <3>1 DEF SeedIsSet
  <2> QED
    BY <2>1, <2>2
<1>6. NextIsFree'
  BY <1>1 DEF NextIsFree
<1>7. SeedAboveFile'
  BY <1>1, <1>4 DEF SeedAboveFile, TypeOK, Handles, Null
<1>8. seedIsRef' \in BOOLEAN
  BY <1>1 DEF TypeOK
<1>9. StraysInFile' /\ strays' = strays /\ fileSeed' = fileSeed /\ source' = source
  BY <1>1 DEF StraysInFile, file
<1> QED
  BY <1>1, <1>2, <1>4, <1>5, <1>6, <1>7, <1>8, <1>9 DEF SeedInv, TypeOK, file

(* Objects that come with the file, or without a handle. *)
LEMMA ReaderStep ==
  ASSUME IInv,
         ReadDxfObject \/ ReadDwgObject \/ ReadR11Entity \/ ReadUnknown
           \/ ReadObjectWithoutHandle
  PROVE  MapInv' /\ Known' /\ SeedInv'
<1> USE DEF IInv
<1>1. UNCHANGED <<file, refs, HANDSEED, seedIsRef, next_hdl, fileSeed>> /\ next_hdl = 0
  BY DEF ReadDxfObject, ReadDwgObject, ReadR11Entity, ReadUnknown, ReadObjectWithoutHandle,
         Reading
<1>2. SeedInv'
  <2>1. /\ strays' \subseteq {h \in Handles : source = "R11" /\ h >= fileSeed}
        /\ StraysInFile'
    <3>1. CASE ReadR11Entity
      BY <1>1, <3>1 DEF ReadR11Entity, Reading, TypeOK, StraysInFile
    <3>2. CASE ~ ReadR11Entity
      <4>1. strays' = strays
        BY <3>2 DEF ReadDxfObject, ReadDwgObject, ReadUnknown, ReadObjectWithoutHandle
      <4> QED
        BY <1>1, <4>1 DEF TypeOK, StraysInFile
    <3> QED
      BY <3>1, <3>2
  <2> HIDE DEF IInv
  <2> QED
    BY <1>1, <2>1, ReaderSeed
<1> SUFFICES MapInv' /\ Known'
  BY <1>2
<1>3. UNCHANGED <<source, fileSeed>>
  BY <1>1 DEF file
<1> HIDE DEF IInv
<1>4. CASE ReadDxfObject
  BY <1>3, <1>4, AddHandleStep DEF ReadDxfObject, IInv
<1>5. CASE ReadDwgObject
  BY <1>3, <1>5, RegisterStep DEF ReadDwgObject, IInv
<1>6. CASE ReadR11Entity
  <2>1. PICK h \in Handles : /\ object' = Append(object, h)
                             /\ strays' = IF h >= fileSeed THEN strays \cup {h} ELSE strays
    BY <1>6 DEF ReadR11Entity
  <2>2. source = "R11" /\ (h < fileSeed \/ h \in strays') /\ strays \subseteq strays'
    BY <1>6, <2>1 DEF ReadR11Entity, IInv, TypeOK, Handles, Null
  <2>3. object_map' = object_map
    BY <1>6 DEF ReadR11Entity
  <2>4. h \in Handles \cup {0} /\ object' = Append(object, h)
    BY <2>1
  <2> QED
    BY <1>3, <2>2, <2>3, <2>4, MapStays DEF IInv
<1>7. CASE ReadUnknown
  BY <1>3, <1>7, MapStays DEF ReadUnknown, IInv
<1>8. CASE ReadObjectWithoutHandle
  <2>1. NextHandle \in Handles /\ AddHandle(NextHandle)
    BY <1>8 DEF ReadObjectWithoutHandle
  <2>2. strays' = strays
    BY <1>8 DEF ReadObjectWithoutHandle
  <2> QED
    BY <1>3, <2>1, <2>2, AddHandleStep DEF IInv
<1> QED
  BY <1>4, <1>5, <1>6, <1>7, <1>8

-----------------------------------------------------------------------------
(* The theorems. *)

LEMMA InitHolds == Init => IInv
<1> SUFFICES ASSUME Init PROVE IInv
  OBVIOUS
<1>1. Indices = {} /\ InUse = {}
  BY DEF Init, Indices, InUse
<1>2. TypeOK
  <2>1. object \in Seq(Handles \cup {0}) /\ object_map \in [Handles -> Indices \cup {NotFound}]
    BY DEF Init
  <2>2. Null \in Null .. MaxHandle /\ Null \in Null .. MaxHandle + 1
    BY DEF Null
  <2> QED
    BY <2>1, <2>2 DEF Init, TypeOK
<1>3. MapNamesObjects
  BY DEF Init, MapNamesObjects, Mapped
<1> QED
  BY <1>1, <1>2, <1>3 DEF Init, IInv, Known, SeedAboveFile, StraysInFile, SeedIsSet, NextIsFree, Null

(* Every step keeps the invariant; only the header of a file sets HANDSEED *)
(* back.                                                                   *)
LEMMA StepHolds ==
  ASSUME IInv, [Next]_vars
  PROVE  IInv' /\ (fileSeed' = fileSeed => HANDSEED' >= HANDSEED)
<1>0. HANDSEED \in Int
  BY DEF IInv, TypeOK, Null
<1>1. CASE ReadHandseed
  <2>1. fileSeed = Null /\ fileSeed' # fileSeed
    BY <1>1 DEF ReadHandseed, Null, Handles
  <2> QED
    BY <1>1, <2>1, ReadHandseedStep, IInvParts DEF IInv, MapInv, SeedInv, TypeOK
<1>2. CASE ReadDxfObject \/ ReadDwgObject \/ ReadR11Entity \/ ReadUnknown
           \/ ReadObjectWithoutHandle
  <2>1. HANDSEED' = HANDSEED
    BY <1>2 DEF ReadDxfObject, ReadDwgObject, ReadR11Entity, ReadUnknown,
                ReadObjectWithoutHandle
  <2> QED
    BY <1>0, <1>2, <2>1, ReaderStep DEF IInv, MapInv, SeedInv, TypeOK
<1>3. CASE ReadTableRecord
  BY <1>3, ReadTableRecordStep DEF IInv, MapInv, SeedInv, TypeOK
<1>4. CASE DocumentHandseed
  BY <1>4, DocumentHandseedStep DEF IInv, MapInv, SeedInv, TypeOK
<1>5. CASE SetNextHdl
  BY <1>5, SetNextHdlStep DEF IInv, MapInv, SeedInv, TypeOK
<1>6. CASE SetNextObjhandle
  BY <1>6, SetNextObjhandleStep DEF IInv, MapInv, SeedInv, TypeOK
<1>7. CASE \E h \in Handles : AddHandleref(h)
  BY <1>7, AddHandlerefStep DEF IInv, MapInv, SeedInv, TypeOK
<1>8. CASE UNCHANGED vars
  <2>1. MapInv' /\ Known'
    BY <1>8, MapUntouched DEF IInv, vars
  <2>2. SeedInv' /\ HANDSEED' = HANDSEED
    BY <1>8 DEF vars, file, IInv, TypeOK, SeedInv, SeedAboveFile, StraysInFile, SeedIsSet, NextIsFree,
                InUse, Indices
  <2> QED
    BY <1>0, <2>1, <2>2 DEF IInv, MapInv, SeedInv, TypeOK
<1> QED
  BY <1>1, <1>2, <1>3, <1>4, <1>5, <1>6, <1>7, <1>8 DEF Next

(* The inductive invariant: which objects the map knows, and where         *)
(* HANDSEED stands against the file's.                                     *)
THEOREM InductiveInvariant == Spec => []IInv
<1>1. IInv /\ [Next]_vars => IInv'
  BY StepHolds
<1> QED
  BY <1>1, InitHolds, PTL DEF Spec

(* The types: an index in the map is one of an object.                     *)
THEOREM TypeCorrect == Spec => []TypeOK
<1>1. IInv => TypeOK
  BY DEF IInv
<1> QED
  BY <1>1, InductiveInvariant, PTL

(* What the map finds under a handle has that handle, whichever of the     *)
(* readers' registrations put it there.                                    *)
THEOREM MapFindsHandle == Spec => []MapNamesObjects
<1>1. IInv => MapNamesObjects
  BY DEF IInv
<1> QED
  BY <1>1, InductiveInvariant, PTL

(* Every handle in use is in the map, or below HANDSEED, or one that an    *)
(* entity of an old DWG file came with although it was not below the       *)
(* HANDSEED of the file.                                                   *)
THEOREM HandlesAreKnown == Spec => []HandlesKnown
<1>1. IInv => HandlesKnown
  <2> SUFFICES ASSUME IInv, NEW i \in Indices, object[i] # 0, ~ Mapped(object[i]),
                      object[i] \notin strays
               PROVE  source = "R11" /\ object[i] < HANDSEED
    BY DEF HandlesKnown, IInv, Known
  <2>1. source = "R11" /\ object[i] < fileSeed /\ fileSeed <= HANDSEED
    BY DEF IInv, Known, SeedAboveFile
  <2>2. object[i] \in Int /\ fileSeed \in Int /\ HANDSEED \in Int
    BY DEF IInv, TypeOK, Indices, Handles, Null
  <2> QED
    BY <2>1, <2>2
<1> QED
  BY <1>1, InductiveInvariant, PTL

(* A handle that is not in the map, from HANDSEED on, is a new one, if it  *)
(* is not one of the strays.                                               *)
LEMMA NewFromSeed ==
  ASSUME IInv, NEW h \in Handles, ~ Mapped(h), fileSeed # Null => h >= HANDSEED
  PROVE  h \notin InUse \ strays
<1> SUFFICES ASSUME NEW i \in Indices, object[i] = h, h \notin strays PROVE FALSE
  BY DEF InUse
<1>1. h < fileSeed /\ fileSeed <= HANDSEED /\ h \in Nat \ {0}
  BY DEF IInv, Known, SeedAboveFile, Handles
<1>2. fileSeed \in Int /\ HANDSEED \in Int
  BY DEF IInv, TypeOK, Null
<1>3. fileSeed # Null
  BY <1>1, <1>2 DEF Null
<1> QED
  BY <1>1, <1>2, <1>3

(* dwg_set_next_objhandle gives an object no handle that another one has,  *)
(* unless HANDSEED is 0, but for those that entities of an old DWG file    *)
(* came with although they were not below the HANDSEED of the file.        *)
THEOREM ApiHandlesAreNew == Spec => ApiHandlesUnique
<1>1. ASSUME IInv, SetNextObjhandle, HANDSEED # 0
      PROVE  object'[Len(object')] \notin (InUse \ strays) \cup {0}
  <2>1. NewHandle \in Handles \cup {0} /\ object' = Append(object, NewHandle)
    BY <1>1 DEF SetNextObjhandle, NewHandle
  <2>2. object'[Len(object')] = NewHandle
    <3> HIDE DEF NewHandle
    <3> QED
      BY <1>1, <2>1, Appended DEF IInv
  <2>3. CASE next_hdl # 0
    BY <1>1, <2>2, <2>3 DEF NewHandle, IInv, NextIsFree
  <2>4. CASE next_hdl = 0
    <3>1. NewHandle = SeedHandle
      BY <2>4 DEF NewHandle
    <3>2. SeedHandle # 0 /\ InitialSeed # 0
      BY <1>1, NewHandleType
    <3>3. SeedHandle \in Handles /\ ~ Mapped(SeedHandle)
      BY <1>1, <2>1, <3>1, <3>2, NewHandleType
    <3>4. fileSeed # Null => SeedHandle >= HANDSEED
      <4>1. fileSeed # Null => HANDSEED # Null
        BY <1>1 DEF IInv, TypeOK, SeedAboveFile, Null
      <4> QED
        BY <1>1, <4>1, NewHandleType
    <3>5. SeedHandle \notin InUse \ strays
      <4> HIDE DEF SeedHandle
      <4> QED
        BY <1>1, <3>3, <3>4, NewFromSeed
    <3> QED
      BY <2>2, <3>1, <3>2, <3>5
  <2> QED
    BY <2>3, <2>4
<1>2. IInv => [SetNextObjhandle /\ HANDSEED # 0 =>
                 object'[Len(object')] \notin (InUse \ strays) \cup {0}]_vars
  BY <1>1
<1> QED
  BY <1>2, InductiveInvariant, PTL DEF ApiHandlesUnique

(* Nor does dwg_next_handseed give one to a table record when HANDSEED is  *)
(* not 0, with the same exception.                                         *)
THEOREM TableHandlesAreNew == Spec => TableRecordsUnique
<1>1. ASSUME IInv, ReadTableRecord, HANDSEED > 0
      PROVE  object'[Len(object')] \notin InUse \ strays
  <2>1. NextHandseed \in Handles /\ object' = Append(object, NextHandseed)
    BY <1>1 DEF ReadTableRecord, AddHandle
  <2>2. object'[Len(object')] = NextHandseed
    <3> HIDE DEF NextHandseed
    <3> QED
      BY <1>1, <2>1, Appended DEF IInv
  <2>3. NextHandseed = FirstUnmapped(HANDSEED + 1)
    BY <1>1 DEF NextHandseed
  <2>4. HANDSEED \in Nat
    BY <1>1 DEF IInv, TypeOK, Null
  <2>5. ~ Mapped(NextHandseed) /\ NextHandseed >= HANDSEED
    BY <2>1, <2>3, <2>4, SearchEnds DEF Handles
  <2>6. NextHandseed \notin InUse \ strays
    <3> HIDE DEF NextHandseed
    <3> QED
      BY <1>1, <2>1, <2>5, NewFromSeed
  <2> QED
    BY <2>2, <2>6
<1>2. IInv => [ReadTableRecord /\ HANDSEED > 0 => object'[Len(object')] \notin InUse \ strays]_vars
  BY <1>1
<1> QED
  BY <1>2, InductiveInvariant, PTL DEF TableRecordsUnique

(* HANDSEED never falls back, except to that of the file.                  *)
THEOREM SeedGrows == Spec => SeedNeverFalls
<1>1. IInv /\ [Next]_vars => [fileSeed' = fileSeed => HANDSEED' >= HANDSEED]_vars
  BY StepHolds
<1> QED
  BY <1>1, InductiveInvariant, PTL DEF SeedNeverFalls, Spec
=============================================================================

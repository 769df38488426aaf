----------------------------- MODULE HandleSeed -----------------------------
(***************************************************************************)
(* How new objects get their handles: dwg_next_handle for the objects of a *)
(* DXF or an old DWG file that come without one, dwg_next_handseed for the *)
(* table records of an old DWG file, dwg_set_next_objhandle for the        *)
(* objects the API adds.  They look at three records of what is in use:    *)
(* the objects, the object map and HANDSEED, which dwg_add_handleref also  *)
(* writes to in the old versions.                                          *)
(*                                                                         *)
(* The entities of an old DWG file come with handles that the map does not *)
(* know.  A file should have its HANDSEED above them; strays are those of  *)
(* a file that has not, and the properties say what they do to the handles *)
(* that are given out.                                                     *)
(*                                                                         *)
(* object_map is the map that IntMap specifies.  Of a reference only its   *)
(* absolute handle matters here.                                           *)
(***************************************************************************)
EXTENDS Integers, Sequences, FiniteSetsExt

CONSTANTS
  MaxHandle,    (* bound on the handles *)
  MaxObjects    (* bound on the objects *)

ASSUME BoundsType == MaxHandle \in Nat \ {0} /\ MaxObjects \in Nat

VARIABLES
  source,       (* what is read: a "DXF" file, a "DWG" file of R13 or later, *)
                (* or one of "R11" or before                                 *)
  oldVersion,   (* header.from_version <= R_12 *)
  object,       (* dwg->object: index |-> handle.value, 0 when not set *)
  object_map,   (* dwg->object_map: handle |-> index *)
  refs,         (* the absolute handles in dwg->object_ref, without HANDSEED *)
  HANDSEED,     (* header_vars.HANDSEED->absolute_ref, or Null *)
  seedIsRef,    (* HANDSEED is in dwg->object_ref *)
  next_hdl,     (* dwg->next_hdl, 0 when not set *)
  fileSeed,     (* the HANDSEED the file came with, Null before it is read *)
  strays        (* history: the handles at or above it that entities of an *)
                (* old DWG file came with                                  *)

file == <<source, oldVersion>>
vars == <<file, object, object_map, refs, HANDSEED, seedIsRef, next_hdl, fileSeed, strays>>

-----------------------------------------------------------------------------
Handles == 1 .. MaxHandle
Indices == 1 .. Len(object)
NotFound == 0                      (* HASH_NOT_FOUND; indices count from 1 *)
Null == -1

Mapped(h) == object_map[h] # NotFound
InUse == {object[i] : i \in Indices} \ {0}

Init ==
  /\ source \in {"DXF", "DWG", "R11"} /\ oldVersion \in BOOLEAN
  /\ source = "DWG" => ~ oldVersion
  /\ source = "R11" => oldVersion
  /\ object = <<>>
  /\ object_map = [h \in Handles |-> NotFound]
  /\ refs = {}
  /\ HANDSEED = Null /\ seedIsRef = FALSE
  /\ next_hdl = 0 /\ fileSeed = Null /\ strays = {}

(* The first handle from h on that is not in the map; MaxHandle + 1 stands *)
(* for those beyond the bound.                                             *)
FirstUnmapped(h) ==
  Min({k \in h .. MaxHandle : ~ Mapped(k)} \cup {MaxHandle + 1})

-----------------------------------------------------------------------------
(* Mutant: HANDSEED follows every reference. *)
MutSeedAfterRefLatest(h) == IF oldVersion /\ HANDSEED > 0 THEN h ELSE HANDSEED

(* dwg_add_handleref, for its effect on HANDSEED: in the old versions it   *)
(* follows the highest handle referred to.  A reference that is there may  *)
(* be returned instead of a new one.                                       *)
SeedAfterRef(h) ==
  IF oldVersion /\ HANDSEED > 0 /\ h > HANDSEED THEN h ELSE HANDSEED

AddHandleref(h) ==
  /\ refs' = refs \cup {h}
  /\ \/ HANDSEED' = SeedAfterRef(h)
     \/ h \in refs /\ HANDSEED' = HANDSEED
  /\ UNCHANGED <<file, object, object_map, seedIsRef, next_hdl, fileSeed, strays>>

(* Mutant: the map is given the index behind the object. *)
MutAddHandleNextIndex(h) ==
  /\ object' = Append(object, h)
  /\ object_map' = IF Mapped(h) THEN object_map
                   ELSE [object_map EXCEPT ![h] = Len(object) + 2]

(* Mutant: the object gets its handle without being registered. *)
MutAddHandleUnmapped(h) == object' = Append(object, h) /\ UNCHANGED object_map

(* dwg_add_handle of the new object: a handle that is in the map already   *)
(* stays with its first object, but the new one has it nevertheless.       *)
AddHandle(h) ==
  /\ object' = Append(object, h)
  /\ object_map' = IF Mapped(h) THEN object_map
                   ELSE [object_map EXCEPT ![h] = Len(object) + 1]

(* hash_set of the new object: the map follows the last object of a handle. *)
Register(h) == object_map' = [object_map EXCEPT ![h] = Len(object) + 1]

(* dwg_next_handle: the handle of the last object that has one, or a       *)
(* higher one that is referred to, plus 1.                                 *)
NextHandle ==
  LET set  == {i \in Indices : object[i] # 0}
      last == IF set = {} THEN 0 ELSE object[Max(set)]
      seed == IF seedIsRef THEN {HANDSEED} ELSE {}    (* a reference, too *)
  IN  Max({last} \cup refs \cup seed) + 1

(* Mutant: handles that are in the map are not skipped. *)
MutNextHandseedUnchecked == IF HANDSEED > 0 THEN HANDSEED + 1 ELSE NextHandle

(* dwg_next_handseed *)
NextHandseed == IF HANDSEED > 0 THEN FirstUnmapped(HANDSEED + 1) ELSE NextHandle

-----------------------------------------------------------------------------
(* The readers *)

Room == Len(object) < MaxObjects
Reading ==
  /\ Room /\ next_hdl = 0
  /\ source = "R11" => fileSeed # Null     (* the header comes first *)

(* The header variables.  HANDSEED may be there already, from the document *)
(* that decode_preR13 begins with; that one stays among the references.    *)
ReadHandseed ==
  /\ next_hdl = 0 /\ fileSeed = Null
  /\ fileSeed' \in {0} \cup Handles
  /\ HANDSEED' = fileSeed'
  /\ seedIsRef' = (source # "R11")
  /\ refs' = IF seedIsRef THEN refs \cup {HANDSEED} ELSE refs
  /\ UNCHANGED <<file, object, object_map, next_hdl, strays>>

(* An object of a DXF file that comes with its handle. *)
ReadDxfObject ==
  /\ Reading /\ source = "DXF"
  /\ \E h \in Handles : AddHandle(h)
  /\ UNCHANGED <<file, refs, HANDSEED, seedIsRef, next_hdl, fileSeed, strays>>

(* dwg_decode_add_object *)
ReadDwgObject ==
  /\ Reading /\ source = "DWG"
  /\ \E h \in Handles : object' = Append(object, h) /\ Register(h)
  /\ UNCHANGED <<file, refs, HANDSEED, seedIsRef, next_hdl, fileSeed, strays>>

(* decode_entity_preR13, FLAG_R11_HAS_HANDLING: an entity of an old DWG    *)
(* file that comes with its handle.  It is not registered in the map.      *)
ReadR11Entity ==
  /\ Reading /\ source = "R11"
  /\ \E h \in Handles :
       /\ object' = Append(object, h)
       /\ strays' = IF h >= fileSeed THEN strays \cup {h} ELSE strays
  /\ UNCHANGED <<file, object_map, refs, HANDSEED, seedIsRef, next_hdl, fileSeed>>

(* An object whose handle cannot be read stays without. *)
ReadUnknown ==
  /\ Reading
  /\ object' = Append(object, 0)
  /\ UNCHANGED <<file, object_map, refs, HANDSEED, seedIsRef, next_hdl, fileSeed, strays>>

(* An object of a minimal DXF file, or an entity of an old DWG file. *)
ReadObjectWithoutHandle ==
  /\ Reading /\ source # "DWG" /\ NextHandle \in Handles
  /\ AddHandle(NextHandle)
  /\ UNCHANGED <<file, refs, HANDSEED, seedIsRef, next_hdl, fileSeed, strays>>

(* ADD_CTRL_ENTRY: a table record of an old DWG file gets a handle.  The   *)
(* reference to it, which its control object gets, is a new one, and that  *)
(* registers the record.                                                   *)
ReadTableRecord ==
  /\ Reading /\ source = "R11" /\ NextHandseed \in Handles
  /\ AddHandle(NextHandseed)
  /\ refs' = refs \cup {NextHandseed}
  /\ HANDSEED' = IF HANDSEED > 0 THEN NextHandseed ELSE HANDSEED
  /\ UNCHANGED <<file, seedIsRef, next_hdl, fileSeed, strays>>

-----------------------------------------------------------------------------
(* The API *)

(* dwg_add_Document begins with a HANDSEED. *)
DocumentHandseed ==
  /\ object = <<>> /\ HANDSEED = Null
  /\ HANDSEED' \in Handles
  /\ seedIsRef' = TRUE
  /\ UNCHANGED <<file, object, object_map, refs, next_hdl, fileSeed, strays>>

(* dwg_set_next_hdl: dwg_add_Document wants certain handles, each once. *)
SetNextHdl ==
  /\ next_hdl' \in Handles \ InUse
  /\ UNCHANGED <<file, object, object_map, refs, HANDSEED, seedIsRef, fileSeed, strays>>

(* dwg_init_handseed, when the new object is behind the others. *)
InitialSeed ==
  IF HANDSEED # Null THEN HANDSEED
  ELSE IF object = <<>> THEN 1 ELSE object[Len(object)] + 1

(* Mutant: the handles of HANDSEED are not looked up. *)
MutSeedHandleUnchecked == InitialSeed

(* The handle dwg_new_handseed gives, again until it is a new one.  0 is   *)
(* never in the map.                                                       *)
SeedHandle == IF InitialSeed = 0 THEN 0 ELSE FirstUnmapped(InitialSeed)

(* dwg_set_next_objhandle of an object that was just added. *)
SetNextObjhandle ==
  /\ Room
  /\ LET h == IF next_hdl # 0 THEN next_hdl ELSE SeedHandle IN
     /\ h \in Handles \cup {0}
     /\ object' = Append(object, h)
     /\ IF h = 0 THEN UNCHANGED object_map    (* hash_set: key 0 is forbidden *)
                 ELSE Register(h)
     /\ \/ next_hdl # 0 /\ UNCHANGED <<HANDSEED, seedIsRef>>
        \/ /\ next_hdl = 0
           /\ HANDSEED' = h + 1
           /\ seedIsRef' = (seedIsRef \/ HANDSEED = Null)
     /\ next_hdl' = 0
  /\ UNCHANGED <<file, refs, fileSeed, strays>>

-----------------------------------------------------------------------------
Next ==
  \/ ReadHandseed
  \/ ReadDxfObject \/ ReadDwgObject \/ ReadR11Entity \/ ReadUnknown
  \/ ReadObjectWithoutHandle \/ ReadTableRecord
  \/ DocumentHandseed \/ SetNextHdl \/ SetNextObjhandle
  \/ \E h \in Handles : AddHandleref(h)

Spec == Init /\ [][Next]_vars

-----------------------------------------------------------------------------
TypeOK ==
  /\ source \in {"DXF", "DWG", "R11"} /\ oldVersion \in BOOLEAN
  /\ object \in Seq(Handles \cup {0})
  /\ object_map \in [Handles -> Indices \cup {NotFound}]
  /\ refs \subseteq Handles \cup {0, MaxHandle + 1}
  /\ HANDSEED \in Null .. MaxHandle + 1 /\ seedIsRef \in BOOLEAN
  /\ next_hdl \in Handles \cup {0}
  /\ fileSeed \in Null .. MaxHandle
  /\ strays \subseteq {h \in Handles : source = "R11" /\ h >= fileSeed}

(* What the map finds under a handle has that handle. *)
MapNamesObjects ==
  \A h \in Handles : Mapped(h) =>
    object_map[h] \in Indices /\ object[object_map[h]] = h

(* Whatever way an object came to its handle, the map knows the handle,    *)
(* so that a reference to it can be resolved.  Only the entities of an old *)
(* DWG file may not be in the map; they are below HANDSEED, unless they    *)
(* came with a handle that was not below the HANDSEED of their file: going *)
(* up from HANDSEED, past what is in the map, no other handle is met that  *)
(* an object has.                                                          *)
HandlesKnown ==
  \A i \in Indices :
    object[i] # 0 =>
      \/ Mapped(object[i])
      \/ source = "R11" /\ (object[i] < HANDSEED \/ object[i] \in strays)

(* An object the API adds gets a handle that no object has, although the   *)
(* readers may have left HANDSEED below handles that are in use; but it    *)
(* may get the handle of an entity of an old DWG file that was not below   *)
(* the HANDSEED of this file, which neither the map nor HANDSEED knows of. *)
(* Not so when a file came with a HANDSEED of 0: then it gets the handle 0. *)
ApiHandlesUnique ==
  [][SetNextObjhandle /\ HANDSEED # 0
       => object'[Len(object')] \notin (InUse \ strays) \cup {0}]_vars

(* So does a table record of an old DWG file, when it has a HANDSEED that  *)
(* is not 0, with the same exception.                                      *)
TableRecordsUnique ==
  [][ReadTableRecord /\ HANDSEED > 0
       => object'[Len(object')] \notin InUse \ strays]_vars

(* HANDSEED never falls back after the file was read, so that no handle    *)
(* is given out again, not even the one of a deleted object.               *)
SeedNeverFalls == [][fileSeed' = fileSeed => HANDSEED' >= HANDSEED]_vars

-----------------------------------------------------------------------------
(* The inductive invariant.  An object that the map does not know came     *)
(* with its handle, a stray or below the HANDSEED of its file, which       *)
(* HANDSEED has not fallen below since; and the handle that dwg_add_Document wants next is  *)
(* still a free one.                                                       *)
Known ==
  \A i \in Indices :
    object[i] # 0 =>
      \/ Mapped(object[i])
      \/ source = "R11" /\ (object[i] < fileSeed \/ object[i] \in strays)
SeedAboveFile == fileSeed <= HANDSEED
StraysInFile == fileSeed = Null => strays = {}
SeedIsSet == seedIsRef => HANDSEED # Null
NextIsFree == next_hdl # 0 => next_hdl \notin InUse

IInv ==
  /\ TypeOK /\ MapNamesObjects /\ Known
  /\ SeedAboveFile /\ StraysInFile /\ SeedIsSet /\ NextIsFree
=============================================================================

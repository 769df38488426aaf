---------------------------- MODULE OwnedEntities ----------------------------
(***************************************************************************)
(* The entities of a block.  A block header owns them in two ways: from    *)
(* R13 to R2000 as a chain from first_entity to last_entity, linked by the *)
(* prev_entity and next_entity of the entities; before and since as the    *)
(* vector entities[].  A link is left out of the file when nolinks is set: *)
(* the entity is then followed by its neighbour in the object array.       *)
(*                                                                         *)
(* dwg_insert_entity (the API) and add_to_BLOCK_HEADER (the DXF reader)    *)
(* keep both, in_postprocess_handles mends the links of the entity just    *)
(* added, dwg_fixup_BLOCKS_entities makes the chain from the vector, the   *)
(* file keeps one of them, and get_first_owned_entity with its successors  *)
(* walks the one that belongs to the version.                              *)
(*                                                                         *)
(* A reference is modelled by the handle it leads to.  The references of   *)
(* the block header are used through their cached pointer ref->obj, so     *)
(* they also have a name and a set of those that are resolved.  Blocks are *)
(* there from the start; the entities owned by entities (attributes,       *)
(* vertices) are left out.                                                 *)
(***************************************************************************)
EXTENDS Integers, SequencesExt, FiniteSetsExt

CONSTANTS
  Blocks,         (* the block headers *)
  ModelSpace,     (* the one that is *MODEL_SPACE *)
  Creations,      (* how the drawing comes about: "api" and "dxf" *)
  MaxImported,    (* the objects of a DXF file, a bound *)
  DxfHandles,     (* the handles of the entities in a DXF file *)
  MaxObjects,     (* bound on the objects of the drawing *)
  MaxReloads      (* bound on the times it is written and read again *)

ASSUME BlocksType == ModelSpace \in Blocks
ASSUME BoundsType == MaxObjects \in Nat \ {0, 1} /\ MaxReloads \in Nat
                     /\ MaxImported \in 1 .. MaxObjects
ASSUME DxfHandlesType == DxfHandles \subseteq 2 .. 2 * MaxObjects

VARIABLES
  object,         (* dwg->object, from 1 *)
  header,         (* the block headers *)
  resolved,       (* the references of block headers whose obj is cached *)
  version,        (* dwg->header.version *)
  from_version,   (* dwg->header.from_version *)
  opts,           (* how the drawing came about: "api", "dxf" or "file" *)
  prev_entity_index, (* dwg->prev_entity_index; at 0 is no entity *)
  owned,          (* history: what was added to each block, by handle *)
  reloads,        (* history: how often the drawing was written and read *)
  misordered,     (* history: whether a file may have got a wrong chain *)
  reader          (* an iteration over the entities of a block *)

vars == <<object, header, resolved, version, from_version, opts,
          prev_entity_index, owned, reloads, misordered, reader>>

-----------------------------------------------------------------------------
NoRef == -1                        (* NULL in place of a reference *)
NullRef == 0                       (* a reference to the handle 0 *)
Versions == {"R2000", "R2004"}     (* with a chain, with a vector *)
Kinds == {"ENTITY", "BLOCK", "ENDBLK", "OBJECT"}
Objects == DOMAIN object
Exists(ref) == ref \notin {NoRef, NullRef}

(* The index an object with this handle has: dwg_resolve_handle. *)
IndexIn(objs, handle) == SelectInSeq(objs, LAMBDA o : o.handle = handle)
Index(handle) == IndexIn(object, handle)
IsEntity(o) == o.kind # "OBJECT"

(* A reference of a block header.  dwg_add_handleref returns the one there *)
(* is with the same handle, unless it makes a relative one for an entity.  *)
Shared(handle) == [to |-> handle, made |-> "shared"]
Relative(handle, field) == [to |-> handle, made |-> field]
None == Shared(NoRef)

(* Mutant: handles are taken to be numbered as the objects are. *)
MutNextHandleOfCount == Len(object) + 1

NextHandle == 1 + Max({object[o].handle : o \in Objects})
EntMode(b) == IF b = ModelSpace THEN 2 ELSE 0

EmptyHeader == [first |-> None, last |-> None, entities |-> <<>>, iterator |-> 0]
NewObject(kind, b, handle) ==
  [kind |-> kind, block |-> b, ownerhandle |-> TRUE, handle |-> handle,
   entmode |-> 0, prev |-> NoRef, next |-> NoRef, nolinks |-> FALSE]
NoReader == [block |-> ModelSpace, at |-> 0, seen |-> <<>>, fn |-> "none",
             settled |-> FALSE]

-----------------------------------------------------------------------------
(* in_postprocess_handles *)

(* find_prev_entity: the entity that was added before. *)
PrevEntity(objs, i, before) ==
  IF /\ before \in 1 .. i - 1
     /\ IsEntity(objs[before]) /\ objs[before].kind # "ENDBLK"
     /\ objs[before].entmode = objs[i].entmode
    THEN before ELSE 0

(* The links of the object that was just added.                           *)
Apart(prev, i) == prev # 0 /\ prev + 1 # i
OwnLinks(objs, i, prev) ==
  LET block == prev = 0 /\ objs[i].kind = "BLOCK"
  IN  [objs[i] EXCEPT
         !.prev = IF Apart(prev, i) THEN objs[prev].handle
                  ELSE IF block THEN NullRef ELSE NoRef,
         !.next = IF block THEN NullRef ELSE NoRef,
         !.nolinks = ~ (Apart(prev, i) \/ block)]

(* The entity that is followed by h. *)
Before(o, h) == [o EXCEPT !.next = h, !.nolinks = FALSE]

(* An entity that was added before in the same mode, but not right before, *)
(* is mended as well.                                                      *)
Postprocessed(objs, i, before, ver) ==
  LET prev == PrevEntity(objs, i, before)
  IN  IF objs[i].kind \in {"ENDBLK", "OBJECT"} THEN objs
      ELSE IF ver = "R2004" THEN [objs EXCEPT ![i].nolinks = TRUE]
      ELSE [o \in DOMAIN objs |->
              IF o = i THEN OwnLinks(objs, i, prev)
              ELSE IF o = prev /\ Apart(prev, i) THEN Before(objs[o], objs[i].handle)
              ELSE objs[o]]

-----------------------------------------------------------------------------
(* dwg_fixup_BLOCKS_entities *)

(* The links of an entity between the handles p and n of its neighbours in *)
(* the vector, 0 when there is none.                                       *)
FixedLinks(o, p, n) ==
  LET between == \/ p = 0 /\ n = 0
                 \/ p # 0 /\ p = o.handle - 1 /\ n = o.handle + 1
                 \/ (p = 0 \/ n = 0) /\ o.nolinks
      ends == (o.prev = NoRef /\ p = 0) \/ (o.next = NoRef /\ n = 0)
  IN  [o EXCEPT !.nolinks = between /\ ~ ends, !.prev = p, !.next = n]

Neighbour(entities, j) == IF j \in DOMAIN entities THEN entities[j] ELSE 0

FixedObject(o, hdrs) ==
  LET entities == hdrs[o.block].entities
      j == SelectInSeq(entities, LAMBDA h : h = o.handle)
  IN  IF j = 0
        THEN o
        ELSE FixedLinks(o, Neighbour(entities, j - 1), Neighbour(entities, j + 1))

FixedHeader(h) ==
  LET end(field, ref, handle) ==
        IF ref.to = handle THEN ref ELSE Relative(handle, field)
  IN  IF h.entities = <<>>
        THEN [h EXCEPT !.first = Shared(NullRef), !.last = Shared(NullRef)]
        ELSE [h EXCEPT !.first = end("first", @, h.entities[1]),
                       !.last = end("last", @, Last(h.entities))]

(* It runs only for a drawing that comes from a later version or from DXF. *)
NeedsFixup ==
  version = "R2000" /\ (from_version = "R2004" \/ opts = "dxf")
FixedObjects(objs, hdrs) == [o \in DOMAIN objs |-> FixedObject(objs[o], hdrs)]
FixedHeaders(hdrs) == [b \in Blocks |-> FixedHeader(hdrs[b])]

-----------------------------------------------------------------------------
(* dwg_insert_entity *)

(* The first entity of a block that has none. *)
InsertedFirst(objs, i, hdr) ==
  LET h == objs[i].handle
  IN  [object |-> [objs EXCEPT ![i].prev = NullRef, ![i].next = NullRef,
                               ![i].nolinks = FALSE],
       header |-> [hdr EXCEPT !.first = Shared(h), !.last = Shared(h),
                              !.entities = <<h>>]]

(* Mutant: the last one is taken for the neighbour without a look at their *)
(* places.                                                                 *)
MutFollows(objs, prev, i) == prev # 0 /\ Exists(objs[prev].prev)

(* Any other entity follows the last one.  If that one is its neighbour    *)
(* and has a predecessor itself, both links are left to nolinks.           *)
Follows(objs, prev, i) == prev # 0 /\ prev + 1 = i /\ Exists(objs[prev].prev)

LinkedLast(objs, i, prev) ==
  [o \in DOMAIN objs |->
     IF o = i
       THEN [objs[i] EXCEPT
               !.next = NullRef,
               !.prev = IF prev = 0 THEN NullRef
                        ELSE IF Follows(objs, prev, i) THEN @
                        ELSE objs[prev].handle]
     ELSE IF o # prev THEN objs[o]
     ELSE IF Follows(objs, prev, i) THEN [objs[o] EXCEPT !.nolinks = TRUE]
     ELSE Before(objs[o], objs[i].handle)]

InsertedLast(objs, i, hdr) ==
  LET h == objs[i].handle
      prev == IF Exists(hdr.last.to) THEN IndexIn(objs, hdr.last.to) ELSE 0
  IN  [object |-> LinkedLast(objs, i, prev),
       header |-> [hdr EXCEPT
                     !.first = IF prev = 0 /\ ~ Exists(@.to) THEN Shared(h) ELSE @,
                     !.last = Shared(h),
                     !.entities = Append(@, h)]]

IsFirst(hdr) == ~ Exists(hdr.first.to) /\ hdr.entities = <<>>
Inserted(objs, i, hdr) ==
  IF objs[i].kind # "ENTITY" THEN [object |-> objs, header |-> hdr]
  ELSE IF IsFirst(hdr) THEN InsertedFirst(objs, i, hdr)
  ELSE InsertedLast(objs, i, hdr)

HeaderRefs(hdrs) ==
  {r \in UNION {{hdrs[b].first, hdrs[b].last} : b \in Blocks} : Exists(r.to)}

(* The references kept from before a fixup: the ones it makes are new. *)
StillResolved == {r \in resolved : r.made = "shared" \/ r \in HeaderRefs(header)}

MayAdd ==
  /\ opts # "import" /\ Len(object) < MaxObjects
  /\ reader.fn # "none" => reader.at # 0
Unsettled == [reader EXCEPT !.settled = @ /\ version = "R2004"]

(* dwg_add_<entity>: in_postprocess_handles runs twice, before and after   *)
(* the entity gets its mode and its place.  dwg_add_ENDBLK ends with       *)
(* dwg_fixup_BLOCKS_entities.  Every drawing has the BLOCK and the ENDBLK  *)
(* of the model space from the start.                                      *)
AddEntity(b, kind) ==
  LET i == Len(object) + 1
      new == Append(object, NewObject(kind, b, NextHandle))
      first == Postprocessed(new, i, prev_entity_index, version)
      at == Inserted([first EXCEPT ![i].entmode = EntMode(b)], i, header[b])
      after == Postprocessed(at.object, i, prev_entity_index, version)
      hdrs == [header EXCEPT ![b] = at.header]
      fixup == kind = "ENDBLK" /\ NeedsFixup
  IN  /\ MayAdd
      /\ kind \in {"BLOCK", "ENDBLK"} =>
           /\ b # ModelSpace
           /\ \A o \in Objects : object[o].kind # kind \/ object[o].block # b
      /\ object' = IF fixup THEN FixedObjects(after, hdrs) ELSE after
      /\ header' = IF fixup THEN FixedHeaders(hdrs) ELSE hdrs
      /\ resolved' = IF kind = "ENTITY" /\ ~ IsFirst(header[b]) /\ Exists(header[b].last.to)
                       THEN resolved \cup {header[b].last}
                       ELSE IF fixup THEN StillResolved ELSE resolved
      /\ prev_entity_index' = i
      /\ owned' = IF kind = "ENTITY"
                    THEN [owned EXCEPT ![b] = Append(@, NextHandle)] ELSE owned
      /\ reader' = Unsettled
      /\ UNCHANGED <<version, from_version, opts, reloads, misordered>>

(* A table record, a dictionary or another object that is no entity. *)
AddObject ==
  /\ MayAdd
  /\ object' = Append(object, NewObject("OBJECT", ModelSpace, NextHandle))
  /\ UNCHANGED <<header, resolved, version, from_version, opts,
                 prev_entity_index, owned, reloads, misordered, reader>>

-----------------------------------------------------------------------------
(* The DXF reader *)

(* dxf_blocks_read and, for the model space, dxf_entities_read with        *)
(* add_to_BLOCK_HEADER.  The handle is the one in the file.                *)
ImportEntity(b, h) ==
  LET chained == b = ModelSpace \/ version = "R2000"
      ent == [NewObject("ENTITY", b, h) EXCEPT
                !.entmode = IF b = ModelSpace THEN 2 ELSE 3,
                !.nolinks = b = ModelSpace]
  IN  /\ opts = "import" /\ Len(object) < MaxImported
      /\ Index(h) = 0
      /\ object' = Append(object, ent)
      /\ header' = [header EXCEPT
                      ![b].entities = Append(@, h),
                      ![b].last = IF chained THEN Shared(h) ELSE @,
                      ![b].first = IF chained /\ @ = None THEN Shared(h) ELSE @]
      /\ owned' = [owned EXCEPT ![b] = Append(@, h)]
      /\ UNCHANGED <<resolved, version, from_version, opts,
                     prev_entity_index, reloads, misordered, reader>>

(* The end of dwg_read_dxf. *)
EndImport ==
  /\ opts = "import" /\ Len(object) = MaxImported
  /\ opts' = "dxf"
  /\ resolved' = HeaderRefs(header)
  /\ object' = IF version = "R2000" THEN FixedObjects(object, header) ELSE object
  /\ header' = IF version = "R2000" THEN FixedHeaders(header) ELSE header
  /\ UNCHANGED <<version, from_version, prev_entity_index, owned, reloads,
                 misordered, reader>>

-----------------------------------------------------------------------------
(* Conversion, writing and reading *)

(* header.version set to an earlier one, and dwg_write_dxf: it starts with *)
(* dwg_fixup_BLOCKS_entities.                                              *)
Downgrade ==
  /\ opts # "import" /\ version = "R2004" /\ reader.fn = "none"
  /\ version' = "R2000"
  /\ object' = FixedObjects(object, header)
  /\ header' = FixedHeaders(header)
  /\ resolved' = StillResolved
  /\ UNCHANGED <<from_version, opts, prev_entity_index, owned, reloads,
                 misordered, reader>>

(* What dwg_write_file has of the objects and of the block headers once it *)
(* has run dwg_fixup_BLOCKS_entities, and what is read back: the objects   *)
(* in the order of their handles, no links when nolinks is set, and either *)
(* the ends of the chain or the vector.                                    *)
WrittenFixed == version = "R2000" /\ from_version = "R2004"
InFile(ref) == IF ref = NoRef THEN NullRef ELSE ref
ReadObject(o) ==
  LET chain == version = "R2000" /\ ~ o.nolinks
  IN  [o EXCEPT !.prev = IF chain THEN InFile(@) ELSE NoRef,
                !.next = IF chain THEN InFile(@) ELSE NoRef,
                !.nolinks = @ /\ version = "R2000",
                !.ownerhandle = o.entmode = 0]

(* The k-th object in the order of the handles has k - 1 before it.        *)
Below(objs, o) == {p \in DOMAIN objs : objs[p].handle < objs[o].handle}
ByHandle(objs) ==
  [k \in DOMAIN objs |->
     objs[CHOOSE o \in DOMAIN objs : Cardinality(Below(objs, o)) = k - 1]]

FileObjects ==
  LET written == IF WrittenFixed THEN FixedObjects(object, header) ELSE object
  IN  ByHandle([o \in Objects |-> ReadObject(written[o])])
ReadHeader(h) ==
  IF version = "R2000"
    THEN [EmptyHeader EXCEPT !.first = Shared(InFile(h.first.to)),
                             !.last = Shared(InFile(h.last.to))]
    ELSE [EmptyHeader EXCEPT !.entities = h.entities]
FileHeaders ==
  [b \in Blocks |->
     ReadHeader(IF WrittenFixed THEN FixedHeaders(header)[b] ELSE header[b])]

(* The API added an entity since the drawing was imported from a DXF file  *)
(* whose handles are not in the order of its objects.  A link left out     *)
(* then means the neighbour in the array, and the written file of R2000    *)
(* keeps the order of the handles instead: dwg_fixup_BLOCKS_entities would *)
(* mend the links (decode.c:6240), but dwg_write_file runs it only for a   *)
(* from_version later than R2000 (dwg.c:458), which such a drawing need    *)
(* not have.                                                               *)
ExtendedUnsorted ==
  /\ version = "R2000" /\ opts = "dxf" /\ prev_entity_index # 0
  /\ \E i, j \in Objects : i < j /\ object[i].handle > object[j].handle

(* dwg_write_file, and dwg_read_file of what it wrote. *)
Reload ==
  /\ opts # "import" /\ reader.fn = "none" /\ reloads < MaxReloads
  /\ object' = FileObjects
  /\ header' = FileHeaders
  /\ resolved' = HeaderRefs(FileHeaders)
  /\ from_version' = version
  /\ opts' = "file"
  /\ prev_entity_index' = 0
  /\ reloads' = reloads + 1
  /\ misordered' = (misordered \/ ExtendedUnsorted)
  /\ UNCHANGED <<version, owned, reader>>

(* dwg_resolve_objectrefs_silent, as when the object array has moved. *)
ResolveObjectrefs ==
  /\ opts # "import"
  /\ ~ HeaderRefs(header) \subseteq resolved
  /\ resolved' = resolved \cup HeaderRefs(header)
  /\ UNCHANGED <<object, header, version, from_version, opts,
                 prev_entity_index, owned, reloads, misordered, reader>>

-----------------------------------------------------------------------------
(* The iteration *)

(* dwg_next_entity: the link, or else the next entity of the array. *)
NextEntity(objs, i) ==
  LET next == objs[i].next
      linked == IndexIn(objs, next)
      behind == {j \in i + 1 .. Len(objs) : IsEntity(objs[j])}
  IN  IF Exists(next) THEN IF linked = i THEN 0 ELSE linked
      ELSE IF behind = {} THEN 0
      ELSE Min(behind)

(* ref->obj of a reference of the block header, 0 for NULL. *)
Cached(ref) == IF ref \in resolved THEN Index(ref.to) ELSE 0

(* get_first_owned_entity *)
GetFirst(b, fn) ==
  LET entities == header[b].entities
      first == IF version = "R2000" THEN Cached(header[b].first)
               ELSE IF entities = <<>> THEN 0
               ELSE Index(entities[1])
  IN  /\ opts # "import" /\ reader.fn = "none"
      /\ reader' = [block |-> b, at |-> first, fn |-> fn,
                    seen |-> IF first = 0 THEN <<>> ELSE <<object[first].handle>>,
                    settled |-> version = "R2004"
                                \/ HeaderRefs(header) \subseteq resolved]
      /\ header' = IF version = "R2004" THEN [header EXCEPT ![b].iterator = 0]
                   ELSE header
      /\ UNCHANGED <<object, resolved, version, from_version, opts,
                     prev_entity_index, owned, reloads, misordered>>

(* Only get_next_owned_block_entity looks whose entity it is. *)
Foreign(i, b) == i # 0 /\ object[i].ownerhandle /\ object[i].block # b

(* Mutant: the end is not compared with last_entity. *)
MutNextInChainWithoutEnd(b, i, fn) ==
  LET next == NextEntity(object, i)
  IN  IF \/ header[b].last.to = NoRef
         \/ fn = "block_entity" /\ Foreign(next, b)
        THEN 0 ELSE next

NextInChain(b, i, fn) ==
  LET next == NextEntity(object, i)
  IN  IF \/ header[b].last.to = NoRef \/ i = Cached(header[b].last)
         \/ fn = "block_entity" /\ Foreign(next, b)
        THEN 0 ELSE next

(* get_next_owned_entity and get_next_owned_block_entity. *)
GetNext ==
  LET b == reader.block
      entities == header[b].entities
      iterator == header[b].iterator + 1
      next == IF version = "R2000" THEN NextInChain(b, reader.at, reader.fn)
              ELSE IF iterator = Len(entities) THEN 0
              ELSE Index(entities[iterator + 1])
  IN  /\ reader.fn # "none" /\ reader.at # 0 /\ Len(reader.seen) <= MaxObjects
      /\ reader' = [reader EXCEPT
                      !.at = next,
                      !.seen = IF next = 0 THEN @ ELSE Append(@, object[next].handle)]
      /\ header' = IF version = "R2004" THEN [header EXCEPT ![b].iterator = iterator]
                   ELSE header
      /\ UNCHANGED <<object, resolved, version, from_version, opts,
                     prev_entity_index, owned, reloads, misordered>>

Done == reader.fn # "none" /\ reader.at = 0
EndOfLoop ==
  /\ Done
  /\ reader' = NoReader
  /\ UNCHANGED <<object, header, resolved, version, from_version, opts,
                 prev_entity_index, owned, reloads, misordered>>

-----------------------------------------------------------------------------
(* dwg_add_Document leaves a drawing with the BLOCK and the ENDBLK of the  *)
(* model space, the DXF reader starts with its block header.               *)
FirstObjects(creation) ==
  IF creation = "dxf"
    THEN <<NewObject("OBJECT", ModelSpace, 1)>>
    ELSE <<[NewObject("BLOCK", ModelSpace, 1) EXCEPT
              !.entmode = 2, !.prev = NullRef, !.next = NullRef],
           [NewObject("ENDBLK", ModelSpace, 2) EXCEPT !.entmode = 2]>>

Init ==
  /\ \E creation \in Creations :
       /\ object = FirstObjects(creation)
       /\ opts = IF creation = "dxf" THEN "import" ELSE "api"
       /\ prev_entity_index = IF creation = "dxf" THEN 0 ELSE 2
  /\ version \in Versions /\ from_version = version
  /\ header = [b \in Blocks |-> EmptyHeader]
  /\ resolved = {}
  /\ owned = [b \in Blocks |-> <<>>]
  /\ reloads = 0
  /\ misordered = FALSE
  /\ reader = NoReader

Next ==
  \/ \E b \in Blocks, kind \in {"ENTITY", "BLOCK", "ENDBLK"} : AddEntity(b, kind)
  \/ AddObject
  \/ \E b \in Blocks, h \in DxfHandles : ImportEntity(b, h)
  \/ EndImport
  \/ Downgrade
  \/ Reload
  \/ ResolveObjectrefs
  \/ \E b \in Blocks, fn \in {"entity", "block_entity"} : GetFirst(b, fn)
  \/ GetNext
  \/ EndOfLoop

Spec == Init /\ [][Next]_vars

-----------------------------------------------------------------------------
(* Properties *)

Handles == 1 .. 3 * MaxObjects
Refs == [to : Handles \cup {NoRef, NullRef}, made : {"shared", "first", "last"}]

(* Types.  A handle is that of one object, and every link and every         *)
(* resolved reference leads to an object.                                  *)
TypeOK ==
  /\ \A o, p \in Objects : object[o].handle = object[p].handle => o = p
  /\ \A o \in Objects :
       /\ object[o].kind \in Kinds /\ object[o].block \in Blocks
       /\ object[o].handle \in Handles /\ object[o].entmode \in 0 .. 3
       /\ \A ref \in {object[o].prev, object[o].next} :
            ref \in {NoRef, NullRef} \/ Index(ref) # 0
       /\ {object[o].nolinks, object[o].ownerhandle} \subseteq BOOLEAN
  /\ \A b \in Blocks :
       /\ {header[b].first, header[b].last} \subseteq Refs
       /\ header[b].entities \in Seq(Handles) /\ header[b].iterator \in Nat
  /\ resolved \subseteq Refs
  /\ \A r \in resolved : Exists(r.to) => Index(r.to) # 0
  /\ misordered \in BOOLEAN
  /\ reader.at \in 0 .. Len(object) /\ reader.seen \in Seq(Handles)

(* The chain of a block in a file, from first_entity to last_entity. *)
IsChain(objs, h, list) ==
  IF list = <<>>
    THEN ~ Exists(h.first.to)
    ELSE /\ h.first.to = list[1] /\ h.last.to = Last(list)
         /\ IndexIn(objs, list[1]) # 0
         /\ \A k \in 1 .. Len(list) - 1 :
              /\ list[k] # h.last.to
              /\ IndexIn(objs, list[k + 1])
                   = NextEntity(objs, IndexIn(objs, list[k]))
              /\ IndexIn(objs, list[k + 1]) # 0

(* A file of R2000 written now has for each block a chain of exactly the   *)
(* entities that were added to it, in this order, whatever lies between    *)
(* them in the object array.  Left out are the drawings whose chain may    *)
(* skip entities: an unsorted DXF import that the API extended, which      *)
(* dwg_write_file does not mend (dwg.c:458), and what was read from a file *)
(* of one.                                                                 *)
SavedChainListsOwned ==
  version = "R2000" /\ opts # "import" /\ ~ ExtendedUnsorted /\ ~ misordered =>
    \A b \in Blocks : IsChain(FileObjects, FileHeaders[b], owned[b])

(* An iteration through resolved references lists what is in the block, in *)
(* this order, unless the drawing was read from the file of an extended    *)
(* unsorted DXF import.                                                    *)
SettledIterationListsOwned ==
  Done /\ reader.settled /\ ~ misordered => reader.seen = owned[reader.block]

(* ... and so does any iteration: "Returns the next entity owned by the    *)
(* block hdr, or NULL." (dwg.c:1250)                                       *)
IterationListsOwned == Done => reader.seen = owned[reader.block]
=============================================================================

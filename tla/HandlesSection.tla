--------------------------- MODULE HandlesSection ---------------------------
(***************************************************************************)
(* The object map of a DWG file (AcDb:Handles): how encode_objects_handles *)
(* sorts the objects by handle, writes them one after the other and then   *)
(* writes the paged map of their handles and addresses, and how the two    *)
(* readers, decode_R13_R2000 and read_2004_section_handles, find the       *)
(* objects again from it.                                                  *)
(*                                                                         *)
(* Both streams are modelled by byte position: the objects stream by the   *)
(* length of what each object writes, the map by the cell written at each  *)
(* position.  Positions of the map count from its start.  A checksum is    *)
(* the content it was computed over, so two checksums agree only when the  *)
(* contents do.                                                            *)
(***************************************************************************)
EXTENDS Integers, Sequences, FiniteSetsExt

CONSTANTS
  Handles,      (* the handles of the objects *)
  Lengths,      (* the bytes an object writes, its size and checksum included *)
  MaxObjects,   (* bound on dwg->num_objects *)
  FirstAddress, (* where the objects start: 4 since R2004 *)
  PageLimit,    (* the size over which the writer closes a page: 2030 *)
  ReadLimit,    (* the size over which the readers refuse a page: 2040 *)
  UmcMin,       (* the least bytes of a handle offset: 4 *)
  UmcSteps,     (* where it takes one more: 2^27, 2^34, 2^41, 2^48 *)
  McSteps       (* where an address offset does: 2^6, 2^13, 2^20, 2^27 *)

ASSUME SectionConstants ==
  /\ Handles \subseteq Nat
  /\ Lengths \subseteq Nat \ {0}
  /\ MaxObjects \in Nat /\ FirstAddress \in Nat
  /\ PageLimit \in Nat /\ PageLimit >= 2
  /\ ReadLimit \in Nat /\ ReadLimit >= PageLimit
  /\ UmcMin \in Nat \ {0}
  /\ UmcSteps \subseteq Nat /\ IsFiniteSet(UmcSteps)
  /\ McSteps \subseteq Nat /\ IsFiniteSet(McSteps)

VARIABLES
  object,       (* dwg->object: kind, handle.value and the bytes written *)
  phase,        (* where the writer, then the reader, is *)
  i,            (* the loop counter of the writer *)
  omap,         (* the object map: index, handle, address *)
  at,           (* dat->byte of the objects stream *)
  skipped,      (* the writer returned DWG_ERR_VALUEOUTOFBOUNDS for an object *)
  stream,       (* the map as written: position |-> cell *)
  byte,         (* dat->byte of the map stream *)
  size_adr,     (* where the current page starts *)
  last_offset,  (* the address and the handle of the previous pair of the *)
  last_handle,  (* page, 0 at its start                                    *)
  ckr_missing,  (* the page has pairs that no checksum follows yet *)
  version,      (* dat->from_version when the file is read *)
  pos,          (* dat->byte of the reader *)
  startpos,     (* where the page being read starts *)
  section_size, (* its size *)
  offset,       (* last_offset of the reader *)
  added,        (* the objects read, by their index in the written file *)
  readError     (* the errors the reader has collected *)

writer == <<omap, at, skipped>>
pages == <<stream, byte, size_adr, last_offset, last_handle, ckr_missing>>
reader == <<version, pos, startpos, section_size, offset, added, readError>>
vars == <<object, phase, i, writer, pages, reader>>

-----------------------------------------------------------------------------
NumObjects == Len(object)

(* "live" objects are written, "unused" ones are DWG_TYPE_UNUSED or        *)
(* DWG_TYPE_FREED, "huge" ones are larger than DWG_MAX_OBJSIZE.  Only the  *)
(* first write anything, and the handle of an unused one is never used.    *)
Objects ==
  [kind : {"live"}, handle : Handles, length : Lengths]
    \cup [kind : {"huge"}, handle : Handles, length : {0}]
    \cup [kind : {"unused"}, handle : {0}, length : {0}]

(* The entry of the map for the o-th object, before it has an address.     *)
Entry(o) ==
  IF object[o].kind = "unused"
  THEN [index |-> 0, handle |-> 0, address |-> 0]
  ELSE [index |-> o - 1, handle |-> object[o].handle, address |-> 0]

InMap(e) == e.index # 0 \/ e.handle # 0
ObjectOf(e) == object[e.index + 1]

(* The bytes of an unsigned and of a signed modular char, and the most     *)
(* that a pair of them takes.                                              *)
UmcSize(v) == UmcMin + Cardinality({s \in UmcSteps : s <= v})
McSize(v) == 1 + Cardinality({s \in McSteps : s <= v})
MaxPair == UmcMin + Cardinality(UmcSteps) + 1 + Cardinality(McSteps)

SizeCell(n) == [kind |-> "size", value |-> n]
PairCell(h, o) ==
  [kind |-> "pair", offset |-> o, width |-> UmcSize(h) + McSize(o)]
CrcCell(sum) == [kind |-> "crc", sum |-> sum]

Put(s, p, c) == [q \in DOMAIN s \cup {p} |-> IF q = p THEN c ELSE s[q]]
Content(s, from, to) == [p \in {q \in DOMAIN s : from <= q /\ q < to} |-> s[p]]

Init ==
  /\ object \in UNION {[1 .. n -> Objects] : n \in 0 .. MaxObjects}
  /\ phase = "start" /\ i = 1
  /\ omap = <<>> /\ at = FirstAddress /\ skipped = FALSE
  /\ stream = <<>> /\ byte = 0 /\ size_adr = 0
  /\ last_offset = 0 /\ last_handle = 0 /\ ckr_missing = TRUE
  /\ version = "none" /\ pos = 0 /\ startpos = 0 /\ section_size = 0
  /\ offset = 0 /\ added = <<>> /\ readError = {}

-----------------------------------------------------------------------------
(* The writer: the map is allocated and filled in the order of the         *)
(* objects, or there is no memory for it.                                  *)
FillMap ==
  /\ phase = "start"
  /\ omap' = [o \in 1 .. NumObjects |-> Entry(o)]
  /\ phase' = "sort" /\ i' = 1
  /\ UNCHANGED <<object, at, skipped, pages, reader>>

NoMemory ==
  /\ phase = "start"
  /\ phase' = "failed"
  /\ UNCHANGED <<object, i, writer, pages, reader>>

(* One turn of the insertion sort: entry i moves behind the last of the    *)
(* entries before it that is not above it.                                 *)
InsertAt(k) ==
  [o \in DOMAIN omap |->
     IF o < k \/ o > i THEN omap[o]
     ELSE IF o = k THEN omap[i]
     ELSE omap[o - 1]]

(* Mutant: the sort also moves an entry in front of its equals.            *)
MutSortUnstable ==
  /\ phase = "sort" /\ i <= NumObjects
  /\ \E k \in 1 .. i :
       /\ k > 1 => omap[k - 1].handle < omap[i].handle
       /\ \A o \in k .. i - 1 : omap[o].handle >= omap[i].handle
       /\ omap' = InsertAt(k)
  /\ i' = i + 1
  /\ UNCHANGED <<object, phase, at, skipped, pages, reader>>

SortEntry ==
  /\ phase = "sort" /\ i <= NumObjects
  /\ \E k \in 1 .. i :
       /\ k > 1 => omap[k - 1].handle <= omap[i].handle
       /\ \A o \in k .. i - 1 : omap[o].handle > omap[i].handle
       /\ omap' = InsertAt(k)
  /\ i' = i + 1
  /\ UNCHANGED <<object, phase, at, skipped, pages, reader>>

SortDone ==
  /\ phase = "sort" /\ i > NumObjects
  /\ phase' = "objects" /\ i' = 1
  /\ UNCHANGED <<object, writer, pages, reader>>

(* The objects, in the order of the map.  One that is too large gets an    *)
(* address, but dwg_encode_add_object returns before it writes anything.   *)
SkipObject ==
  /\ phase = "objects" /\ i <= NumObjects /\ ~ InMap(omap[i])
  /\ i' = i + 1
  /\ UNCHANGED <<object, phase, writer, pages, reader>>

(* Mutant: the next object overwrites the last byte of the checksum.       *)
MutWriteTooClose ==
  /\ phase = "objects" /\ i <= NumObjects /\ InMap(omap[i])
  /\ ObjectOf(omap[i]).kind = "live"
  /\ omap' = [omap EXCEPT ![i].address = at]
  /\ at' = at + ObjectOf(omap[i]).length - 1
  /\ i' = i + 1
  /\ UNCHANGED <<object, phase, skipped, pages, reader>>

WriteObject ==
  /\ phase = "objects" /\ i <= NumObjects /\ InMap(omap[i])
  /\ ObjectOf(omap[i]).kind = "live"
  /\ omap' = [omap EXCEPT ![i].address = at]
  /\ at' = at + ObjectOf(omap[i]).length
  /\ i' = i + 1
  /\ UNCHANGED <<object, phase, skipped, pages, reader>>

HugeObject ==
  /\ phase = "objects" /\ i <= NumObjects /\ InMap(omap[i])
  /\ ObjectOf(omap[i]).kind = "huge"
  /\ omap' = [omap EXCEPT ![i].address = at]
  /\ skipped' = TRUE
  /\ i' = i + 1
  /\ UNCHANGED <<object, phase, at, pages, reader>>

(* The map starts with a page whose size is filled in later.               *)
StartPages ==
  /\ phase = "objects" /\ i > NumObjects
  /\ stream' = Put(stream, 0, SizeCell(0))
  /\ size_adr' = 0 /\ byte' = 2
  /\ last_offset' = 0 /\ last_handle' = 0 /\ ckr_missing' = TRUE
  /\ phase' = "map" /\ i' = 1
  /\ UNCHANGED <<object, writer, reader>>

-----------------------------------------------------------------------------
(* Mutant: the checksum is computed before the size is patched in.         *)
MutChecksumFirst(s, end) ==
  Put(Put(s, size_adr, SizeCell(end - size_adr)), end,
      CrcCell(Content(s, size_adr, end)))

(* A page that ends at "end": its size is patched in, then the checksum    *)
(* over the page is written.                                               *)
ClosePage(s, end) ==
  LET patched == Put(s, size_adr, SizeCell(end - size_adr))
  IN Put(patched, end, CrcCell(Content(patched, size_adr, end)))

SkipPair ==
  /\ phase = "map" /\ i <= NumObjects /\ ~ InMap(omap[i])
  /\ i' = i + 1
  /\ UNCHANGED <<object, phase, writer, pages, reader>>

(* Mutant: the address offset is taken the wrong way round.                *)
MutPairBackwards ==
  PairCell(omap[i].handle - last_handle, last_offset - omap[i].address)

NextPair == PairCell(omap[i].handle - last_handle, omap[i].address - last_offset)
PairEnd == byte + NextPair.width

(* Mutant: the pair of a new page does not ask for its checksum.           *)
MutChecksumForgotten ==
  /\ phase = "map" /\ i <= NumObjects /\ InMap(omap[i])
  /\ PairEnd - size_adr <= PageLimit
  /\ stream' = Put(stream, byte, NextPair)
  /\ byte' = PairEnd
  /\ last_handle' = omap[i].handle /\ last_offset' = omap[i].address
  /\ i' = i + 1
  /\ UNCHANGED <<object, phase, writer, size_adr, ckr_missing, reader>>

WritePair ==
  /\ phase = "map" /\ i <= NumObjects /\ InMap(omap[i])
  /\ PairEnd - size_adr <= PageLimit
  /\ stream' = Put(stream, byte, NextPair)
  /\ byte' = PairEnd
  /\ last_handle' = omap[i].handle /\ last_offset' = omap[i].address
  /\ ckr_missing' = TRUE
  /\ i' = i + 1
  /\ UNCHANGED <<object, phase, writer, size_adr, reader>>

(* The pair that takes the page over the limit is its last one, and room   *)
(* for the size of the next page is left behind it.                        *)
WriteLastPair ==
  /\ phase = "map" /\ i <= NumObjects /\ InMap(omap[i])
  /\ PairEnd - size_adr > PageLimit
  /\ stream' = Put(ClosePage(Put(stream, byte, NextPair), PairEnd),
                   PairEnd + 2, SizeCell(0))
  /\ size_adr' = PairEnd + 2 /\ byte' = PairEnd + 4
  /\ last_handle' = 0 /\ last_offset' = 0
  /\ ckr_missing' = FALSE
  /\ i' = i + 1
  /\ UNCHANGED <<object, phase, writer, reader>>

(* The open page is closed if it has pairs, and a page of size 2 ends the  *)
(* map.                                                                    *)
EndMap ==
  /\ phase = "map" /\ i > NumObjects
  /\ LET closed == IF ckr_missing THEN ClosePage(stream, byte) ELSE stream
         last == IF ckr_missing THEN byte + 2 ELSE byte
         sized == Put(closed, last, SizeCell(2))
     IN /\ stream' = Put(sized, last + 2, CrcCell(Content(sized, last, last + 2)))
        /\ size_adr' = last /\ byte' = last + 4
  /\ phase' = "written"
  /\ UNCHANGED <<object, i, writer, last_offset, last_handle, ckr_missing, reader>>

-----------------------------------------------------------------------------
(* The reader.  R13 to R2000 files are read by decode_R13_R2000, the later *)
(* ones by read_2004_section_handles; both start with no objects.          *)
OpenFile ==
  /\ phase = "written"
  /\ version' \in {"R_14", "R_2000", "R_2004"}
  /\ pos' = 0 /\ added' = <<>> /\ readError' = {}
  /\ phase' = "page"
  /\ UNCHANGED <<object, i, writer, pages, startpos, section_size, offset>>

(* Mutants: the offsets go on from the page before; the limit itself is    *)
(* refused.                                                                *)
MutOffsetGoesOn ==
  /\ phase = "page"
  /\ startpos' = pos /\ pos' = pos + 2
  /\ section_size' = stream[pos].value
  /\ IF section_size' > ReadLimit
     THEN /\ phase' = "refused"
          /\ readError' = readError \cup {"VALUEOUTOFBOUNDS"}
     ELSE phase' = "pairs" /\ UNCHANGED readError
  /\ UNCHANGED <<object, i, writer, pages, version, offset, added>>

MutRefuseAtLimit ==
  /\ phase = "page"
  /\ startpos' = pos /\ pos' = pos + 2
  /\ section_size' = stream[pos].value
  /\ offset' = 0
  /\ IF section_size' >= ReadLimit
     THEN /\ phase' = "refused"
          /\ readError' = readError \cup {"VALUEOUTOFBOUNDS"}
     ELSE phase' = "pairs" /\ UNCHANGED readError
  /\ UNCHANGED <<object, i, writer, pages, version, added>>

OpenPage ==
  /\ phase = "page"
  /\ startpos' = pos /\ pos' = pos + 2
  /\ section_size' = stream[pos].value
  /\ offset' = 0
  /\ IF section_size' > ReadLimit
     THEN /\ phase' = "refused"
          /\ readError' = readError \cup {"VALUEOUTOFBOUNDS"}
     ELSE phase' = "pairs" /\ UNCHANGED readError
  /\ UNCHANGED <<object, i, writer, pages, version, added>>

(* The objects whose bytes start at an address.                            *)
ObjectsAt(a) ==
  {e.index : e \in {omap[k] : k \in {m \in DOMAIN omap :
       /\ InMap(omap[m]) /\ ObjectOf(omap[m]).kind = "live"
       /\ omap[m].address = a}}}
Garbage == -1

(* A pair, and dwg_decode_add_object at the address it leads to.  Behind   *)
(* the last object there are bytes that no object wrote: they may look     *)
(* like one, or not fit the stream.                                        *)
ReadPair ==
  /\ phase = "pairs" /\ pos - startpos < section_size
  /\ stream[pos].kind = "pair"
  /\ LET a == offset + stream[pos].offset IN
     /\ offset' = a
     /\ pos' = pos + stream[pos].width
     /\ \/ /\ \E o \in ObjectsAt(a) : added' = Append(added, o)
           /\ UNCHANGED readError
        \/ /\ ObjectsAt(a) = {}
           /\ added' = Append(added, Garbage)
           /\ UNCHANGED readError
        \/ /\ ObjectsAt(a) = {}
           /\ readError' = readError \cup {"VALUEOUTOFBOUNDS"}
           /\ UNCHANGED added
  /\ UNCHANGED <<object, phase, i, writer, pages, version, startpos, section_size>>

(* The checksum: over section_size bytes in R13 to R2000, over what was    *)
(* read in R2004.  A file of R14 may have a wrong one.                     *)
ChecksumEnd == IF version = "R_2004" THEN pos ELSE startpos + section_size
ChecksumAgrees ==
  /\ stream[pos].kind = "crc"
  /\ stream[pos].sum = Content(stream, startpos, ChecksumEnd)

(* Mutant: a page with a wrong checksum is read again.                     *)
MutReadAgain ==
  /\ phase = "pairs" /\ pos - startpos >= section_size
  /\ IF ChecksumAgrees \/ version = "R_14"
     THEN /\ pos' = pos + 2
          /\ phase' = IF pos + 2 >= byte \/ section_size <= 2 THEN "read" ELSE "page"
     ELSE pos' = startpos /\ phase' = "page"
  /\ UNCHANGED <<object, i, writer, pages, version, startpos, section_size,
                 offset, added, readError>>

EndPage ==
  /\ phase = "pairs" /\ pos - startpos >= section_size
  /\ readError' = IF ChecksumAgrees \/ version = "R_14" THEN readError
                  ELSE readError \cup {"WRONGCRC"}
  /\ pos' = pos + 2
  /\ phase' = IF pos + 2 >= byte \/ section_size <= 2 THEN "read" ELSE "page"
  /\ UNCHANGED <<object, i, writer, pages, version, startpos, section_size,
                 offset, added>>

-----------------------------------------------------------------------------
Finished == phase \in {"failed", "read", "refused"} /\ UNCHANGED vars

Write ==
  \/ FillMap \/ NoMemory \/ SortEntry \/ SortDone
  \/ SkipObject \/ WriteObject \/ HugeObject
  \/ StartPages \/ SkipPair \/ WritePair \/ WriteLastPair \/ EndMap
Read == OpenFile \/ OpenPage \/ ReadPair \/ EndPage

Next == Write \/ Read \/ Finished

(* The writer and the reader are loops that run to their end.              *)
Fairness == WF_vars(Write \/ Read)

Spec == Init /\ [][Next]_vars /\ Fairness

-----------------------------------------------------------------------------
(* The types of the variables: every cell of the map is one the writer     *)
(* writes, and the handle and address offsets are never negative.          *)
Cells ==
  [kind : {"size"}, value : Nat]
    \cup [kind : {"pair"}, offset : Nat, width : Nat]

TypeOK ==
  /\ object \in Seq(Objects) /\ NumObjects <= MaxObjects
  /\ phase \in {"start", "failed", "sort", "objects", "map", "written",
                "page", "pairs", "read", "refused"}
  /\ i \in 1 .. NumObjects + 1
  /\ omap \in Seq([index : Nat, handle : Nat, address : Nat])
  /\ at \in Nat /\ skipped \in BOOLEAN
  /\ DOMAIN stream \subseteq Nat
  /\ \A p \in DOMAIN stream : stream[p].kind # "crc" => stream[p] \in Cells
  /\ byte \in Nat /\ size_adr \in Nat
  /\ last_offset \in Nat /\ last_handle \in Nat /\ ckr_missing \in BOOLEAN
  /\ version \in {"none", "R_14", "R_2000", "R_2004"}
  /\ pos \in Nat /\ startpos \in Nat /\ section_size \in Nat /\ offset \in Nat
  /\ added \in Seq(Nat \cup {Garbage})
  /\ readError \subseteq {"VALUEOUTOFBOUNDS", "WRONGCRC"}

Sorting == phase \in {"start", "failed", "sort"}

(* The sort neither loses nor repeats an entry, orders the map by handle   *)
(* and keeps objects of the same handle in the order of their index.       *)
MapAscends ==
  ~ Sorting =>
    /\ Len(omap) = NumObjects
    /\ \A o \in 1 .. NumObjects : \E k \in 1 .. NumObjects :
         omap[k].index = Entry(o).index /\ omap[k].handle = Entry(o).handle
    /\ \A k, m \in 1 .. NumObjects : k < m =>
         /\ omap[k].handle <= omap[m].handle
         /\ InMap(omap[k]) /\ InMap(omap[m]) /\ omap[k].handle = omap[m].handle
              => omap[k].index < omap[m].index

(* No two objects share a byte of the objects stream, whatever was skipped *)
(* between them.                                                           *)
ObjectsApart ==
  phase \notin {"start", "failed", "sort", "objects"} =>
    \A k, m \in 1 .. NumObjects :
      k < m /\ InMap(omap[k]) /\ InMap(omap[m])
            /\ ObjectOf(omap[k]).kind = "live"
        => omap[k].address + ObjectOf(omap[k]).length <= omap[m].address

(* The pairs of the first m entries, the entries of the objects that were  *)
(* written, and those of them from the k-th pair on.                       *)
Pairs(m) == Cardinality({o \in 1 .. m : InMap(omap[o])})
Live(m) == InMap(omap[m]) /\ ObjectOf(omap[m]).kind = "live"
LiveFrom(k) == {m \in 1 .. NumObjects : Live(m) /\ Pairs(m) >= k}

(* The reader adds the objects in the order of the map, across the pages.  *)
(* The entry of an object that was too large makes it add the next object  *)
(* that was written, which is then there twice; only when there is none    *)
(* does it read bytes that are no object.                                  *)
ReadInMapOrder ==
  \A k \in 1 .. Len(added) :
    added[k] = IF LiveFrom(k) = {} THEN Garbage ELSE omap[Min(LiveFrom(k))].index

(* A map that is read to its end leads to every object that was written,   *)
(* except the first one if it has no handle: its entry looks like that of  *)
(* an unused object.                                                       *)
EverythingRead ==
  phase = "read" =>
    \A o \in 1 .. NumObjects :
      object[o].kind = "live" /\ InMap(Entry(o)) =>
        \E k \in 1 .. Len(added) : added[k] = o - 1

(* The checksum of a page the writer wrote is wrong in one case only, and  *)
(* always in it: the last pair of the map filled its page, and the reader  *)
(* finds the size left for a next page, 0, in front of the last page.      *)
ChecksumsOfFullPages ==
  /\ "WRONGCRC" \in readError => ~ ckr_missing /\ section_size = 0
  /\ phase = "read" /\ ~ ckr_missing /\ version # "R_14"
       => "WRONGCRC" \in readError

(* A page is closed by the pair that takes it over the limit: no page is   *)
(* larger than the limit and one pair.                                     *)
PagesBounded ==
  \A p \in DOMAIN stream :
    stream[p].kind = "size" => stream[p].value <= PageLimit + MaxPair

(* The readers refuse a map only when the last pair of a page is wider     *)
(* than the slack between the two limits.                                  *)
RefusedOnlyWidePair ==
  phase = "refused" =>
    \E p \in DOMAIN stream :
      stream[p].kind = "pair" /\ stream[p].width > ReadLimit - PageLimit

(* So the readers complain of what they were written in two cases only. *)
ComplaintsExplained == ChecksumsOfFullPages /\ RefusedOnlyWidePair

(* The inductive invariant behind MapAscends, ObjectsApart and             *)
(* PagesBounded: what each loop of the writer has done up to i.            *)
Prefix == IF phase = "sort" THEN 1 .. i - 1 ELSE 1 .. NumObjects
SameObject(e, f) == e.index = f.index /\ e.handle = f.handle

Filled ==
  /\ omap \in [1 .. NumObjects -> [index : Nat, handle : Nat, address : Nat]]
  /\ \A k \in 1 .. NumObjects : InMap(omap[k]) => omap[k].index + 1 \in 1 .. NumObjects

Sorted ==
  /\ \A k, m \in Prefix : k < m =>
       /\ omap[k].handle <= omap[m].handle
       /\ InMap(omap[k]) /\ InMap(omap[m]) /\ omap[k].handle = omap[m].handle
            => omap[k].index < omap[m].index
  /\ \A o \in Prefix : \E k \in Prefix : SameObject(omap[k], Entry(o))
  /\ phase = "sort" =>
       /\ \A k \in Prefix : InMap(omap[k]) => omap[k].index + 1 < i
       /\ \A o \in i .. NumObjects : omap[o] = Entry(o)

Done == IF phase = "objects" THEN 1 .. i - 1 ELSE 1 .. NumObjects
Laid ==
  /\ \A k \in Done : InMap(omap[k]) =>
       /\ omap[k].address <= at
       /\ ObjectOf(omap[k]).kind = "live"
            => omap[k].address + ObjectOf(omap[k]).length <= at
  /\ \A k, m \in Done :
       k < m /\ InMap(omap[k]) /\ InMap(omap[m])
             /\ ObjectOf(omap[k]).kind = "live"
         => omap[k].address + ObjectOf(omap[k]).length <= omap[m].address

IInv ==
  /\ object \in Seq(Objects) /\ i \in Nat \ {0} /\ at \in Nat
  /\ byte \in Nat /\ size_adr \in Nat
  /\ phase \notin {"start", "failed"} => Filled /\ Sorted
  /\ ~ Sorting => Laid
  /\ phase \in {"sort", "objects", "map"} => i <= NumObjects + 1
  /\ phase = "map" => byte - size_adr <= PageLimit
  /\ PagesBounded

(* The inductive invariant behind what is read: where the writer stands    *)
(* after the first m entries of a sorted map, which the map alone decides. *)
FirstPage == [byte |-> 2, start |-> 0, offset |-> 0, handle |-> 0, open |-> TRUE]
PairAt(map, w, m) ==
  PairCell(map[m].handle - w.handle, map[m].address - w.offset)
EndAt(map, w, m) == w.byte + PairAt(map, w, m).width
Closes(map, w, m) == EndAt(map, w, m) - w.start > PageLimit
StandsAfter(map, w, m) ==
  IF ~ InMap(map[m]) THEN w
  ELSE IF Closes(map, w, m)
  THEN [byte |-> EndAt(map, w, m) + 4, start |-> EndAt(map, w, m) + 2,
        offset |-> 0, handle |-> 0, open |-> FALSE]
  ELSE [byte |-> EndAt(map, w, m), start |-> w.start,
        offset |-> map[m].address, handle |-> map[m].handle, open |-> TRUE]
Course(map) ==
  LET course[m \in 0 .. Len(map)] ==
        IF m = 0 THEN FirstPage ELSE StandsAfter(map, course[m - 1], m)
  IN  course

(* What the first n entries have left in a stream.                         *)
PageAt(s, start, end) ==
  /\ start \in DOMAIN s /\ s[start] = SizeCell(end - start)
  /\ end \in DOMAIN s /\ s[end] = CrcCell(Content(s, start, end))
PairsWritten(map, s, n) ==
  \A m \in 1 .. n : InMap(map[m]) =>
    LET w == Course(map)[m - 1] IN
    /\ w.byte \in DOMAIN s /\ s[w.byte] = PairAt(map, w, m)
    /\ Closes(map, w, m) => PageAt(s, w.start, EndAt(map, w, m))

Stands(w) ==
  /\ byte = w.byte /\ size_adr = w.start /\ ckr_missing = w.open
  /\ last_offset = w.offset /\ last_handle = w.handle
  /\ DOMAIN stream \subseteq 0 .. w.byte - 1
  /\ w.start \in DOMAIN stream /\ stream[w.start] = SizeCell(0)

Reading == phase \in {"page", "pairs", "read", "refused"}
Standing == Course(omap)[NumObjects]
LastPage == IF Standing.open THEN Standing.byte + 2 ELSE Standing.byte
MapEnds ==
  /\ ckr_missing = Standing.open /\ byte = LastPage + 4
  /\ IF Standing.open THEN PageAt(stream, Standing.start, Standing.byte)
     ELSE Standing.start \in DOMAIN stream /\ stream[Standing.start] = SizeCell(0)
  /\ PageAt(stream, LastPage, LastPage + 2)

StreamWritten ==
  /\ phase = "map" => PairsWritten(omap, stream, i - 1) /\ Stands(Course(omap)[i - 1])
  /\ phase = "written" \/ Reading =>
       PairsWritten(omap, stream, NumObjects) /\ MapEnds

(* The objects that are not written share the address of the next one.     *)
HugeShare ==
  \A k \in Done :
    InMap(omap[k]) =>
      /\ \A m \in Done :
           k < m /\ InMap(omap[m]) /\ (\A o \in k .. m - 1 : ~ Live(o)) =>
             omap[m].address = omap[k].address
      /\ (\A o \in Done : k <= o => ~ Live(o)) => omap[k].address = at

(* The reader has come to what the first j entries have written, or to the *)
(* end of the page that the j-th one closes, or to the last page.          *)
AddedUpTo(j) ==
  /\ Len(added) <= Pairs(j)
  /\ Len(added) = Pairs(j) \/ LiveFrom(Len(added) + 1) = {}
InPage(w) ==
  /\ phase = "pairs" /\ startpos = w.start /\ pos = w.byte /\ offset = w.offset
  /\ section_size = stream[startpos].value
AtPageEnd(w, j) ==
  /\ phase = "pairs" /\ j > 0 /\ InMap(omap[j]) /\ Closes(omap, w, j)
  /\ startpos = w.start /\ pos = EndAt(omap, w, j) /\ section_size = pos - startpos
AtPageStart(w) ==
  phase = "page" /\ pos = w.start /\ w.byte = pos + 2 /\ w.offset = 0
AtLastPage ==
  /\ Standing.open
  /\ \/ phase = "page" /\ pos = LastPage
     \/ phase = "pairs" /\ startpos = LastPage /\ pos = LastPage + 2 /\ section_size = 2

InStep ==
  /\ phase \in {"page", "pairs"} =>
       /\ "WRONGCRC" \notin readError
       /\ \E j \in 0 .. NumObjects :
            /\ AddedUpTo(j)
            /\ LET w == Course(omap)[j] IN
               \/ InPage(w)
               \/ AtPageEnd(Course(omap)[j - 1], j)
               \/ AtPageStart(w)
               \/ j = NumObjects /\ AtLastPage
  /\ phase = "read" => AddedUpTo(NumObjects)

(* Reading a map that was written comes to an end.                         *)
ReadingEnds == phase = "written" ~> phase \in {"read", "refused"}

-----------------------------------------------------------------------------
(* encode.c calls the page it ends the map with the one of "last           *)
(* section_size 2": the last page a reader sees is that one.               *)
LastPageIsTerminal == phase = "read" => section_size = 2
=============================================================================

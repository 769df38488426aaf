----------------------------- MODULE SectionPages -----------------------------
(***************************************************************************)
(* The section pages of an R2004 file: how dwg_encode lays the sections    *)
(* out in pages, writes them with the section info and the section map,    *)
(* and how decode_R2004 finds the pages and puts a section together again. *)
(*                                                                         *)
(* A page in the file is a record at its address; the bytes of a section   *)
(* are pairs of the section and the offset.  A pointer to a page           *)
(* descriptor is the block of header.section it points into, which moves   *)
(* when realloc enlarges it, and an index.  Files of other programs        *)
(* compress their pages, may have freed pages, and may leave the section   *)
(* map out of the section map.  The encryption and the checksums of the    *)
(* page headers are left out: the reader does not compare them.  Of the    *)
(* compression of the two system sections only the size is here; that they *)
(* are read back is in Lz77 (the map is stored, and the info ends in a     *)
(* page number found nowhere before it, so no match reaches its end).      *)
(***************************************************************************)
EXTENDS Integers, SequencesExt, FiniteSetsExt

CONSTANTS
  StreamOrder,  (* the data sections, in the order of the stream *)
  MapOrder,     (* ... and in the order of the section info *)
  PageSize,     (* section_max_decomp_size, of all sections *)
  Lengths,      (* of the data sections; an empty one is not written *)
  FirstAddress, (* 0x100 *)
  DataHeader,   (* the size of the header of a data page: 32 *)
  SystemHeader, (* of a system page: 20 *)
  EntrySize,    (* of an entry of the section map: 8 *)
  CompSizes,    (* what compression may make of a page *)
  Leftover      (* header.section before: none, or pages of the file read *)

DataTypes == Range(StreamOrder)
Types == DataTypes \cup {"info", "map"}

ASSUME SectionPagesConstants ==
  /\ {"info", "map", ""} \cap DataTypes = {}
  /\ StreamOrder \in Seq(DataTypes) /\ IsInjective(StreamOrder)
  /\ MapOrder \in Seq(DataTypes) /\ Range(MapOrder) = DataTypes
  /\ PageSize \in [Types -> Nat \ {0}]
  /\ Lengths \subseteq Nat /\ CompSizes \subseteq Nat \ {0}
  /\ Leftover \subseteq Seq([type : Types, number : Nat, address : Nat,
                            size : Nat])
  /\ {FirstAddress, DataHeader, SystemHeader, EntrySize} \subseteq Nat \ {0}

VARIABLES
  program,      (* who writes the file: this one or another *)
  content,      (* sec_dat[type].byte of the data sections *)
  phase,        (* where the writer, then the reader, is *)
  next,         (* the loop over the sections *)
  k,            (* ... and over the pages of one *)
  section,      (* header.section *)
  block,        (* the block of memory it is in *)
  si,           (* how many of them are laid out *)
  section_info, (* header.section_info *)
  fhdr,         (* the r2004_header *)
  byte,         (* dat->byte of the writer *)
  file,         (* the pages of the file *)
  freed,        (* the pages another program has freed *)
  map,          (* the section map as written *)
  address,      (* the running address of the reader *)
  found,        (* header.section of the reader *)
  mapError,     (* read_R2004_section_map returned an error *)
  infos,        (* header.section_info of the reader *)
  type,         (* the section that is read *)
  dec,          (* its bytes *)
  error         (* the error of read_2004_compressed_section *)

layout == <<section, block, si, section_info>>
written == <<fhdr, byte, file, freed, map>>
reader == <<address, found, mapError, infos, type, dec, error>>
vars == <<program, content, phase, next, k, layout, written, reader>>

-----------------------------------------------------------------------------
AllTypes == StreamOrder \o <<"info", "map">>
Zero == <<"", 0>>
NullPointer == [block |-> 0, at |-> 0]
NoAddress == 0

Bytes(t) == IF t \in DataTypes THEN content[t] ELSE 1

NumPages(t) == (Bytes(t) + PageSize[t] - 1) \div PageSize[t]

(* What the section map takes, which is stored: see Lz77, where a longer   *)
(* section takes length bytes, too.                                        *)
StoredSize(bytes) == bytes + 2

Descriptor(t, number) ==
  [type |-> t, number |-> number, address |-> NoAddress,
   size |-> IF t \in DataTypes THEN DataHeader + PageSize[t]
            ELSE SystemHeader + Bytes(t)]

(* find_section_info_type, for a section that has pages.                   *)
InfoOf(t) == SelectInSeq(section_info, LAMBDA s : s.type = t)
PagesOf(t) == section_info[InfoOf(t)].pages

(* What is written of the sections, in an order, that it finds.            *)
InfosIn(order, Part(_)) ==
  FlattenSeq([i \in 1 .. Len(order) |->
                IF InfoOf(order[i]) = 0 THEN <<>> ELSE Part(order[i])])

Init ==
  /\ program \in {"this", "other"}
  /\ content \in [DataTypes -> Lengths]
  /\ phase = "layout" /\ next = 1 /\ k = 1
  /\ section \in Leftover /\ block = 1 /\ si = 0 /\ section_info = <<>>
  /\ fhdr = <<>> /\ byte = FirstAddress /\ file = {} /\ freed = {}
  /\ map = <<>>
  /\ address = FirstAddress /\ found = <<>> /\ mapError = FALSE
  /\ infos = <<>> /\ type = "" /\ dec = <<>> /\ error = "none"

-----------------------------------------------------------------------------
(* The layout.                                                             *)
SkipEmpty ==
  /\ phase = "layout" /\ next <= Len(AllTypes) /\ Bytes(AllTypes[next]) = 0
  /\ next' = next + 1
  /\ UNCHANGED <<program, content, phase, k, layout, written, reader>>

(* The p-th page of a section in sections, or none.                       *)
PthOfType(sections, t, p) ==
  {i \in 1 .. Len(sections) :
     /\ sections[i].type = t
     /\ Cardinality({j \in 1 .. i : sections[j].type = t}) = p}

Repointed(info, sections, blk) ==
  [info EXCEPT !.pages =
     [p \in DOMAIN @ |->
        LET own == PthOfType(sections, info.type, p)
        IN  IF own = {} THEN @[p]
            ELSE [block |-> blk, at |-> CHOOSE i \in own : TRUE]]]

(* Mutant: the index of the page is not reset for the next section.        *)
MutSectionInfoRebuild(list, sections, blk) ==
  [d \in 1 .. Len(list) |->
     IF d = 1 THEN Repointed(list[d], sections, blk) ELSE list[d]]

(* section_info_rebuild: the pages of the block are dealt out again by     *)
(* their type, to the sections that have them already, too.                *)
SectionInfoRebuild(list, sections, blk) ==
  [d \in 1 .. Len(list) |-> Repointed(list[d], sections, blk)]

(* The new descriptors of a block that grows are not initialised, so any   *)
(* type may be in them.                                                    *)
LayOut ==
  /\ phase = "layout" /\ next <= Len(AllTypes) /\ Bytes(AllTypes[next]) > 0
  /\ \E moved \in BOOLEAN : \E garbage \in IF moved THEN Types ELSE {"map"} :
       LET t == AllTypes[next]
           n == NumPages(t)
           grows == si + n > Len(section)
           room == [i \in 1 .. IF grows THEN si + n ELSE Len(section) |->
                      IF i <= Len(section) THEN section[i]
                      ELSE Descriptor(garbage, 0)]
           listed == Append(section_info,
                            [type |-> t, size |-> Bytes(t),
                             pages |-> [p \in 1 .. n |-> NullPointer]])
           blk == IF grows /\ moved THEN block + 1 ELSE block
           rebuilt == IF blk # block
                      THEN SectionInfoRebuild(listed, room, blk) ELSE listed
       IN  /\ section' = [i \in 1 .. Len(room) |->
                            IF i > si /\ i <= si + n THEN Descriptor(t, i)
                            ELSE room[i]]
           /\ block' = blk
           /\ section_info' = [rebuilt EXCEPT ![Len(rebuilt)].pages =
                                 [p \in 1 .. n |-> [block |-> blk,
                                                    at |-> si + p]]]
           /\ si' = si + n
  /\ next' = next + 1
  /\ UNCHANGED <<program, content, phase, k, written, reader>>

(* The two system pages get the numbers above the range of the others.     *)
EndLayout ==
  /\ phase = "layout" /\ next > Len(AllTypes)
  /\ fhdr' = [numsections |-> si, numgaps |-> 0,
              section_info_id |-> si + 1, section_map_id |-> si + 2,
              section_array_size |-> si + 2,
              section_map_address |-> NoAddress,
              last_section_address |-> NoAddress]
  /\ section' = [section EXCEPT ![si - 1].number = si + 1,
                                ![si].number = si + 2]
  /\ phase' = "pages" /\ next' = 1 /\ k' = 1
  /\ UNCHANGED <<program, content, block, si, section_info, byte, file, freed,
                 map, reader>>

-----------------------------------------------------------------------------
(* The pages, in the order of the stream.                                  *)
Current == AllTypes[next]
PageOf(t, p) == section[PagesOf(t)[p].at]
InPages == phase = "pages" /\ next <= Len(AllTypes)

SkipUnlisted ==
  /\ InPages /\ InfoOf(Current) = 0
  /\ next' = next + 1
  /\ UNCHANGED <<program, content, phase, k, layout, written, reader>>

NextPage(t) ==
  IF k < NumPages(t) THEN k' = k + 1 /\ UNCHANGED next
  ELSE k' = 1 /\ next' = next + 1

(* The page at its place, with its size in the descriptor.                 *)
PutPage(t, page, size) ==
  LET i == PagesOf(t)[k].at
  IN  /\ section' = [section EXCEPT ![i].address = byte, ![i].size = size]
      /\ file' = file \cup {page}
      /\ byte' = byte + size
      /\ NextPage(t)
      /\ UNCHANGED <<program, content, phase, block, si, section_info, map,
                     reader>>

(* The bytes from "first" on, with "start" as their offset in the header.  *)
DataPage(t, ok) ==
  [at |-> byte, kind |-> "data", type |-> t, ok |-> ok,
   first |-> (k - 1) * PageSize[t], start |-> (k - 1) * PageSize[t]]

(* This program copies the page as it is, padded to its full size.         *)
WriteDataPage ==
  /\ InPages /\ InfoOf(Current) # 0 /\ Current \in DataTypes
  /\ program = "this"
  /\ PutPage(Current, DataPage(Current, TRUE),
             DataHeader + PageSize[Current])
  /\ UNCHANGED <<fhdr, freed>>

(* Another program compresses it, and the decompression of a page may end  *)
(* with an error; or it frees the page, which leaves a gap.                *)
OtherDataPage ==
  /\ InPages /\ InfoOf(Current) # 0 /\ Current \in DataTypes
  /\ program = "other"
  /\ \E size \in CompSizes, ok \in BOOLEAN, free \in BOOLEAN :
       /\ PutPage(Current, DataPage(Current, ok), DataHeader + size)
       /\ freed' = IF free THEN freed \cup {PageOf(Current, k).number}
                   ELSE freed
  /\ UNCHANGED fhdr

SystemPage(kind) ==
  [at |-> byte, kind |-> kind, type |-> kind, ok |-> TRUE,
   first |-> 0, start |-> 0]

WriteInfo ==
  /\ InPages /\ Current = "info"
  /\ \E size \in CompSizes :
       PutPage("info", SystemPage("info"), SystemHeader + size)
  /\ UNCHANGED <<fhdr, freed>>

(* The section map lists what is in the stream, and itself at last, with   *)
(* the size it is going to take.                                           *)
Entry(number, size) ==
  [number |-> IF number \in freed THEN - number ELSE number, size |-> size]

(* Mutant: all of header.section, as in the preliminary map.               *)
MutStreamEntries ==
  [i \in 1 .. Len(section) |-> Entry(section[i].number, section[i].size)]

StreamEntries ==
  InfosIn(StreamOrder,
          LAMBDA t : [p \in 1 .. NumPages(t) |->
                        Entry(PageOf(t, p).number, PageOf(t, p).size)])

InfoEntry(number) == Entry(number, PageOf("info", 1).size)

MapSize(entries) == SystemHeader + StoredSize(EntrySize * entries)

(* Mutant: the size of the map does not count its own entry.               *)
MutWholeMap ==
  LET before == Append(StreamEntries, InfoEntry(fhdr.section_info_id))
  IN  Append(before, Entry(fhdr.section_map_id, MapSize(Len(before))))

WholeMap ==
  LET before == Append(StreamEntries, InfoEntry(fhdr.section_info_id))
  IN  Append(before, Entry(fhdr.section_map_id, MapSize(Len(before) + 1)))

(* Another program may leave out the map, and the info as well or give it  *)
(* an old number.                                                          *)
OtherMaps ==
  {WholeMap, StreamEntries,
   Append(StreamEntries, InfoEntry(fhdr.section_info_id)),
   Append(StreamEntries, InfoEntry(fhdr.section_info_id + 2))}

WriteMap ==
  /\ InPages /\ Current = "map"
  /\ map' \in IF program = "this" THEN {WholeMap} ELSE OtherMaps
  /\ LET size == MapSize(Len(map'))
     IN  /\ section' = [section EXCEPT ![si].address = byte, ![si].size = size]
         /\ file' = file \cup {SystemPage("map")}
         /\ byte' = byte + size
         /\ fhdr' = [fhdr EXCEPT
                       !.numgaps = Cardinality(freed),
                       !.numsections = si - Cardinality(freed),
                       !.section_map_address = byte - FirstAddress,
                       !.last_section_address = byte + size - FirstAddress]
  /\ phase' = "map" /\ k' = 1
  /\ UNCHANGED <<program, content, next, block, si, section_info, freed, reader>>

-----------------------------------------------------------------------------
(* read_R2004_section_map: the addresses are not stored, they add up.      *)
FindIn(list, number) == SelectInSeq(list, LAMBDA s : s.number = number)
MapAddress == fhdr.section_map_address + FirstAddress
KindAt(a) == IF \E p \in file : p.at = a
             THEN (CHOOSE p \in file : p.at = a).kind ELSE "none"

(* Mutant: a gap does not count.                                           *)
MutAfter(e) == IF e.number \in 0 .. fhdr.section_array_size
               THEN address + e.size ELSE address

After(e) == IF e.number <= fhdr.section_array_size
            THEN address + e.size ELSE address

ReadMapEntry ==
  /\ phase = "map" /\ k <= Len(map)
  /\ LET e == map[k]
         isMap == e.number = fhdr.section_map_id
         repaired == isMap /\ address # MapAddress
     IN  /\ found' = Append(found,
                       [number |-> e.number, size |-> e.size,
                        address |-> IF isMap THEN MapAddress ELSE address])
         /\ address' = After(e)
         /\ mapError' = (mapError \/ repaired \/ k > fhdr.section_array_size)
  /\ k' = k + 1
  /\ UNCHANGED <<program, content, phase, next, layout, written, infos, type,
                 dec, error>>

(* With the map in the map, nothing is repaired but the counts compared.   *)
CountsAgree ==
  /\ address = fhdr.last_section_address + FirstAddress
  /\ Len(found) = fhdr.numgaps + fhdr.numsections

MapComplete ==
  /\ phase = "map" /\ k > Len(map)
  /\ FindIn(found, fhdr.section_map_id) # 0
  /\ mapError' = (mapError \/ ~ CountsAgree)
  /\ phase' = "info"
  /\ UNCHANGED <<program, content, next, k, layout, written, address, found,
                 infos, type, dec, error>>

(* Without it, it is added, and the section info is looked for by its      *)
(* number, and else by the pages at the addresses.                         *)
WithMap ==
  Append(found, [number |-> fhdr.section_map_id, address |-> MapAddress,
                 size |-> IF found = <<>> THEN 0
                          ELSE MapAddress - found[Len(found)].address])

InfoPages(list) == {i \in 1 .. Len(list) : KindAt(list[i].address) = "info"}

(* The one found by its number, or the first of the pages, is overwritten  *)
(* with each of them.                                                      *)
Repaired(list) ==
  LET byNumber == FindIn(list, fhdr.section_info_id)
      pages == InfoPages(list)
      target == IF byNumber # 0 THEN byNumber ELSE Min(pages)
  IN  IF byNumber # 0 /\ KindAt(list[byNumber].address) = "info" THEN list
      ELSE IF pages # {}
      THEN [list EXCEPT ![target] =
              [number |-> fhdr.section_info_id, size |-> list[Max(pages)].size,
               address |-> list[Max(pages)].address]]
      ELSE IF byNumber # 0 THEN list
      ELSE Append(list, [number |-> fhdr.section_info_id, size |-> 0,
                         address |-> list[Len(list)].address
                                       + list[Len(list)].size])

RepairMap ==
  /\ phase = "map" /\ k > Len(map)
  /\ FindIn(found, fhdr.section_map_id) = 0
  /\ found' = Repaired(WithMap)
  /\ mapError' = TRUE
  /\ phase' = "info"
  /\ UNCHANGED <<program, content, next, k, layout, written, address, infos,
                 type, dec, error>>

-----------------------------------------------------------------------------
(* read_R2004_section_info: the sections with the pages that are found.    *)
(* The two system sections have no name there.                             *)
Described(t) ==
  [type |-> IF t \in DataTypes THEN t ELSE "", size |-> Bytes(t),
   pages |-> [p \in 1 .. NumPages(t) |-> FindIn(found, PageOf(t, p).number)]]

InfoSection == FindIn(found, fhdr.section_info_id)

ReadInfo ==
  /\ phase = "info"
  /\ InfoSection # 0 /\ KindAt(found[InfoSection].address) = "info"
  /\ infos' = InfosIn(MapOrder \o <<"info", "map">>,
                      LAMBDA t : <<Described(t)>>)
  /\ phase' = "open"
  /\ UNCHANGED <<program, content, next, k, layout, written, address, found,
                 mapError, type, dec, error>>

NoInfo ==
  /\ phase = "info"
  /\ InfoSection = 0 \/ KindAt(found[InfoSection].address) # "info"
  /\ phase' = "failed"
  /\ UNCHANGED <<program, content, next, k, layout, written, reader>>

(* read_2004_compressed_section, for one of the sections.                  *)
OpenSection ==
  /\ phase = "open"
  /\ \E t \in DataTypes :
       /\ type' = t
       /\ IF \E d \in 1 .. Len(infos) : infos[d].type = t
          THEN /\ dec' = [b \in 0 .. NumPages(t) * PageSize[t] - 1 |-> Zero]
               /\ phase' = "read" /\ error' = "none"
          ELSE /\ dec' = <<>>
               /\ phase' = "done" /\ error' = "notfound"
  /\ k' = 1
  /\ UNCHANGED <<program, content, next, layout, written, address, found,
                 mapError, infos>>

Info == infos[SelectInSeq(infos, LAMBDA d : d.type = type)]
PageHere == CHOOSE p \in file : p.at = found[Info.pages[k]].address
ByteOf(p, b) == IF p.first + b < content[p.type] THEN <<p.type, p.first + b>>
                ELSE Zero
LastPage == k = Len(Info.pages)

SkipPage ==
  /\ phase = "read" /\ k <= Len(Info.pages) /\ Info.pages[k] = 0
  /\ IF LastPage
     THEN phase' = "done" /\ error' = "notfound" /\ dec' = <<>>
     ELSE UNCHANGED <<phase, error, dec>>
  /\ k' = k + 1
  /\ UNCHANGED <<program, content, next, layout, written, address, found,
                 mapError, infos, type>>

(* Mutant: the pages that are there are put one behind the other, by the   *)
(* counter j of the loop.                                                  *)
MutPlaced(p, n) ==
  LET start == PageSize[type] * Cardinality({q \in 1 .. k - 1 :
                                               Info.pages[q] # 0})
  IN  [b \in DOMAIN dec |->
         IF b >= start /\ b < start + n THEN ByteOf(p, b - start) ELSE dec[b]]

(* The first n bytes of the page, at the offset its header names.          *)
Placed(p, n) ==
  [b \in DOMAIN dec |->
     IF b >= p.start /\ b < p.start + n THEN ByteOf(p, b - p.start)
     ELSE dec[b]]

(* A page of this program is copied as far as the section goes.            *)
CopyPage ==
  /\ phase = "read" /\ k <= Len(Info.pages) /\ Info.pages[k] # 0
  /\ program = "this"
  /\ LET p == PageHere
         left == Info.size - p.start
     IN  dec' = Placed(p, IF left < PageSize[type] THEN left
                          ELSE PageSize[type])
  /\ k' = k + 1
  /\ UNCHANGED <<program, content, phase, next, layout, written, address,
                 found, mapError, infos, type, error>>

(* A page of another one is decompressed; its error, or none, takes the    *)
(* place of the error of the page before.  It may be wrong only after the  *)
(* bytes up to there.                                                      *)
DecompressPage ==
  /\ phase = "read" /\ k <= Len(Info.pages) /\ Info.pages[k] # 0
  /\ program = "other"
  /\ LET p == PageHere
     IN  \/ /\ p.ok
            /\ dec' = Placed(p, PageSize[type]) /\ error' = "none"
         \/ /\ ~ p.ok
            /\ \E n \in 0 .. PageSize[type] - 1 : dec' = Placed(p, n)
            /\ error' = "valueoutofbounds"
  /\ k' = k + 1
  /\ UNCHANGED <<program, content, phase, next, layout, written, address,
                 found, mapError, infos, type>>

EndSection ==
  /\ phase = "read" /\ k > Len(Info.pages)
  /\ phase' = "done"
  /\ UNCHANGED <<program, content, next, k, layout, written, reader>>

-----------------------------------------------------------------------------
Encode ==
  \/ SkipEmpty \/ LayOut \/ EndLayout
  \/ SkipUnlisted \/ WriteDataPage \/ OtherDataPage \/ WriteInfo \/ WriteMap

Decode ==
  \/ ReadMapEntry \/ MapComplete \/ RepairMap \/ ReadInfo \/ NoInfo
  \/ OpenSection \/ SkipPage \/ CopyPage \/ DecompressPage \/ EndSection

Next == Encode \/ Decode

Spec == Init /\ [][Next]_vars
-----------------------------------------------------------------------------
Phases == {"layout", "pages", "map", "info", "open", "read", "done", "failed"}

(* header.section has room for all pages, the pages of a section are what  *)
(* its size takes, and the reader reads as many as were written.           *)
TypeOK ==
  /\ phase \in Phases /\ next \in 1 .. Len(AllTypes) + 1 /\ k \in Nat \ {0}
  /\ si \in 0 .. Len(section) /\ block \in Nat \ {0}
  /\ \A d \in 1 .. Len(section_info) :
       /\ section_info[d].type \in Types
       /\ Len(section_info[d].pages) = NumPages(section_info[d].type)
  /\ byte >= FirstAddress /\ address >= FirstAddress
  /\ freed \subseteq 1 .. si
  /\ Len(map) \in 0 .. si /\ Len(found) \in 0 .. Len(map) + 2

(* The page pointers of the section infos survive the moves of             *)
(* header.section: they point into the block it is in, to the pages of     *)
(* their own section, in order and without a gap (section_info_rebuild).   *)
PointersFollow ==
  \A d \in 1 .. Len(section_info) :
    LET pages == section_info[d].pages
    IN  /\ \A p \in DOMAIN pages :
             /\ pages[p].block = block
             /\ pages[p].at \in 1 .. si
             /\ phase = "layout" =>
                  section[pages[p].at].type = section_info[d].type
        /\ \A p \in 2 .. Len(pages) : pages[p].at = pages[p - 1].at + 1

(* The addresses that read_R2004_section_map adds up are those at which    *)
(* the pages were written, over freed pages and up to the map itself, and  *)
(* those it repairs by the header or by the pages it finds are, too.       *)
AddressesAgree ==
  \A f \in 1 .. Len(found), s \in 1 .. si :
    (/\ found[f].number = section[s].number
     /\ f <= Len(map) \/ found[f].number = fhdr.section_map_id) =>
      found[f].address = section[s].address

(* decode_R2004 reads a file that dwg_encode wrote without an error, and   *)
(* every section of it completely.                                         *)
OwnFileReads ==
  program = "this" =>
    /\ phase # "failed" /\ ~ mapError
    /\ phase = "done" =>
         IF content[type] = 0 THEN error = "notfound"
         ELSE /\ error = "none"
              /\ \A b \in 0 .. content[type] - 1 : dec[b] = <<type, b>>

(* In every file, with pages freed and pages that do not decompress, a     *)
(* byte that read_2004_compressed_section returns is the byte of the       *)
(* section at its offset, or zero: pages behind a missing one do not move. *)
BytesInPlace ==
  phase \in {"read", "done"} =>
    \A b \in DOMAIN dec : dec[b] \in {Zero, <<type, b>>}
===============================================================================

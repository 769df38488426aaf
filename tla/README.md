# TLA+ models of libdwg

libdwg reads, edits and writes drawings in the DWG format and its relatives
(DXF, JSON). This directory holds TLA+ specifications of the parts of it that
carry state, the TLC configurations that check them on small instances, and
proofs, checked by TLAPS, that hold for every value of the constants.

All paths below are relative to `src/src/`.

## 1. The system

A drawing is one structure, `Dwg_Data` (`include/dwg.h`). A reader fills it, the
API edits it, a writer walks it. Everything is sequential: there are no threads,
no callbacks into user code and no persistent state but the files. What is
difficult is the sharing inside `Dwg_Data`: one array of objects that `realloc`
moves, pointers into it cached all over the drawing, a hash table that maps
handles to indices of that array, an index over the references, and a counter
for new handles, all written by every reader and by the API, each in its own way.

| Component | State | Operations | Hard to get right |
|---|---|---|---|
| Object map (`hash.c`) | open-addressing table, its size and fill count | `hash_new`, `hash_get`, `hash_set`, `hash_resize` | collisions, wrap-around, `hash_set` and `hash_resize` calling each other, failing `calloc` |
| Object pool (`decode.c`, `dwg_api.c`, `in_dxf.c`) | `object`, `num_objects`, `num_alloced_objects` | `dwg_add_object` and its three kinds of callers | the array moves; an object may be taken back after it was added |
| References (`dwg.c`, `decode.c`) | `object_ref`, `dirty_refs`, the cached `obj` of each | `dwg_ref_object`, `_silent`, `_relative`, `dwg_resolve_objectrefs_silent`, `dwg_decode_add_object_ref` | cached pointers that dangle, or that belong to another handle |
| Index of references (`dwg.c`) | `object_ordered_ref` | `ordered_ref_add`, `ordered_ref_find`, `dwg_add_handleref` | a comparison that is not an order; references written to while they are in the index; the fallback to a linear search |
| Handle allocation (`dwg.c`) | `header_vars.HANDSEED`, `next_hdl` | `dwg_next_handle`, `dwg_next_handseed`, `dwg_new_handseed`, `dwg_set_next_objhandle` | files with any HANDSEED, objects that are not in the map |
| Sections and pages, R2004 (`decode.c`, `encode.c`) | section map, section infos, page pointers, an LZ77 window | `read_R2004_section_map`, `read_2004_compressed_section`, `(de)compress_R2004_section` | overlapping copies, pointers into a vector that moves, addresses that are not stored, partial and missing pages |
| Object map section (`decode.c`, `encode.c`) | offsets by handle, as deltas in pages with a checksum | `encode_objects_handles`, the reading loops | deltas at the borders of a page, objects that move when they are written |
| R2007 (`decode_r2007.c`, `reedsolomon.c`) | pages with Reed-Solomon parity | reading of pages, recovery of the handle stream | resynchronisation after damage |
| Ownership (`dwg.c`, `dwg_api.c`, `decode.c`, `encode.c`) | first/last/next/previous links, `nolinks`, entity vectors, SEQEND | `get_first_owned_entity`, `get_next_owned_entity`, `dwg_insert_entity`, `in_postprocess_handles`, `dwg_fixup_BLOCKS_entities` | two representations of the same list, one of them partly implied by places in the array |
| Decoder drivers (`decode.c`, `decode_r11.c`) | position, tables, object counts | `decode_R13_R2000`, `decode_R2004`, `decode_preR13` | order of the sections, error accumulation |
| DXF, JSON readers (`in_dxf.c`, `in_json.c`) | position in the pairs or tokens | a table of fields for each type of object | mostly data; their use of the pool and of the references is modelled |
| Writers (`encode.c`, `out_*.c`) | none but the output | traversals | formatting |
| Bit streams (`bits.c`) | position in byte and bit | readers and writers of variable-length codes | boundaries of the codes, end of the buffer |
| Dynamic API, release, code pages (`dynapi.c`, `free.c`, `codepages.c`) | none | generated accessors, traversals and tables | data |

How they interact. A reader asks `dwg_add_object` for an object, decodes into it,
and either registers it in the object map or takes it back. It creates references
(`dwg_decode_handleref`, `dwg_add_handleref`), which name objects by handle; the
pointer `obj` in each is only a cache, filled through the object map. When the
object array moves, the readers set `dirty_refs`, and whoever needs a pointer
resolves all references again; the API resolves them at once. `dwg_add_handleref`
shares references: it looks for an old one in the index before it makes one. New
handles come from `HANDSEED`, which is itself one of these references, and which
in old versions follows them. A file of R2004 is cut into pages, which a section
map and a section info find again; the map itself is LZ77-coded, as every system
section. The entities of a block are a chain through the entities in one version
and a vector in another, and every way to add one has to keep both.

`PROJECT.json` lists every component, those that are not modelled with the reason,
and under `hazards` each place where a sequence of legal calls could go wrong that a
test would hardly build.

## 2. Modules

| Module | Models | Extends / instantiates |
|---|---|---|
| `IntMap` | what the object map promises: a partial map | |
| `IntHash` | `hash.c`, one step per turn of each probing loop | `Abstract == INSTANCE IntMap` |
| `IntHashProofs` | theorems on `IntHash` | `IntHash`, `TLAPS` |
| `ObjectPool` | pool, object map (as a map), reference vector, cached pointers | |
| `ObjectPoolProofs` | theorems on `ObjectPool` | `ObjectPool`, `TLAPS` |
| `OrderedRefs` | `dwg_add_handleref` and its index | |
| `OrderedRefsProofs` | theorems on `OrderedRefs` | `OrderedRefs`, `TLAPS` |
| `HandleSeed` | the three ways to choose a handle | |
| `HandleSeedProofs` | theorems on `HandleSeed` | `HandleSeed`, `TLAPS` |
| `HandlesSection` | the object map of a file: sorting, writing, reading back | |
| `HandlesSectionProofs` | theorems on `HandlesSection` | `HandlesSection`, `TLAPS` |
| `Lz77` | the compression of system sections, both ways | |
| `Lz77Proofs` | theorems on `Lz77` | `Lz77`, `TLAPS` |
| `SectionPages` | sections in pages: layout, writing, finding, assembling | |
| `SectionPagesProofs` | theorems on `SectionPages` | `SectionPages`, `TLAPS` |
| `OwnedEntities` | the entities of blocks as chain and as vector | |
| `OwnedEntitiesProofs` | theorems on `OwnedEntities` | `OwnedEntities`, `TLAPS` |
| `MC...` | small instances for TLC | the module they are named after |

### IntHash

A running call is the frame `pc, key, value, i`: `Get` and `Set` begin a call,
`GetStep`, `Advance`, `Insert`, `Overwrite`, `FullTurn` are turns of the loops.
`hash_set` grows the table only when a walk came back to its home slot
(`FullTurn`). `hash_resize` is `ResizeAllocates`, then a `RehashSlot` for every
slot of the old table, each of which runs `hash_set` again with the same actions,
then `RehashDone`, after which the interrupted `hash_set` (`pending`) starts over.
`ResizeFails` is the failing `calloc`. The hash function is any member of
`HashFuncs`: what the code promises does not depend on how well it mixes.
`hash_free` and the (untested) `calloc` of `hash_new` are left out.

### ObjectPool

A pointer into `dwg->object` is `[base, index]`; each move of the array gives it a
new `base`, so that an old pointer can be told from a new one. Base 0 is NULL.
`AddFirst`, `AddInPlace`, `AddMoving` and the two failing variants are
`dwg_add_object` together with what its caller does about the result: a reader
goes on with `dirty_refs`, `NEW_OBJECT` and `NEW_ENTITY` of the API resolve the
references, `NEW_ENTITY` looks up its block header again. `pc` says whose object is
not complete yet: it may be `Rejected` (the size does not fit, the class or the
table is unknown), or get its handle and be registered (`DecodeHandle`,
`RegisterSeqend`, `DecodeRegisters`; `DxfRegisters`; `ApiRegisters`), each with its
own treatment of a handle that is there already. `NewRef` and `OwnerRef` append to
the reference vector. `RefObject`, `RefObjectSilent`, `RefObjectRelative` and
`ResolveObjectrefs` are the lookups, which differ in what they trust. A read or a
write through a dangling pointer, or behind NULL, sets `status = "crash"`.

### OrderedRefs

A reference is its place in the vector; the index `ordered` is a sequence of such
places. `BsearchEx` (insertion) and `Bsearch` (the C library's search, modelled
from its use) are both driven by `RefCmp`, which answers 1 for a smaller and for a
larger handle. Both see of the index only the answers of the comparison, so they
are functions of the sequence `Cmps` of those; `BinarySearch` is the search of the
index with them. `AddHandleref` is the whole of `dwg_add_handleref`. The other
actions are what callers do to references while they are in the index: HANDSEED is
counted up in place, null references are completed, the code of a shared reference
is changed. `request` and `returned` are the arguments and the result of the last
call; `retyped` remembers that a code was changed, which takes the index out of its
order.

### HandleSeed

`object` holds the handle of each object, 0 when there is none, `object_map` what
the map knows. The readers register handles in three ways (`AddHandle` keeps the
first object of a handle, `Register` the last, an entity of an old DWG file is not
registered), and a file may bring any `HANDSEED`, also one that is not above the
handles of those entities; `strays` is the history of the handles for which it is
not. `NextHandle`, `NextHandseed` and
`SeedHandle` are what the three functions compute from this state.

### HandlesSection

The first half is `encode_objects_handles`: `FillMap` and a `SortEntry` for each
turn of the insertion sort, `WriteObject` and `HugeObject` for what
`dwg_encode_add_object` does (an object over `DWG_MAX_OBJSIZE` gets an address
and writes nothing), `WritePair` and `WriteLastPair` for the pairs of the map,
`EndMap` for what follows the loop. The map is a function from byte positions to
cells, so that the sizes of the pages come from the widths of the pairs; a
checksum is the content it was computed over. The second half is the two loops
that read it (`OpenPage`, `ReadPair`, `EndPage`): they differ in the bytes the
checksum is computed over and in what they make of a wrong one. `ReadPair` is
`dwg_decode_add_object` as far as the address goes: the object that starts
there, or, behind the last one, bytes that no object wrote.

The end of the module states what the stream is in every state: `Course` is where
the writer stands after each entry (position, open page, last handle and address),
`StreamWritten` that the pairs and pages are where the course puts them, and `InStep`
that the reader is at a place of the course, or at an end of a page between two. The
proofs rest on these; the run `handles` checks what follows from them.

### Lz77

The stream has one cell for each byte, and a cell says what the writer meant by it
(opcode, length, offset, literal); the reader takes the cells in turn, and
is `lost` when it takes one for another kind. `StartScan`, `ScanOn`, `FindMatch`,
`EndScan` are `compress_R2004_section` with its pending match and literals: as the
hash decides which earlier positions a slot still has, `Candidates` are any of those
entered so far that pass the distance tests. `Store` is `store_R2004_section`.
`FirstLiterals`, `Turn` and `EndOfInput` are `decompress_R2004_section`. The limits of
the format (a compact match up to 14 bytes and 0x400 back, a long one
beyond 0x4000) are constants, so that every form occurs on short sections.

### SectionPages

`LayOut` gives a section its descriptors in `header.section`, which `realloc` may
move (`block`), with what `section_info_rebuild` makes of the pointers into it
(`Repointed`: the descriptors of the type, counted by `PthOfType`); `WriteDataPage`, `WriteInfo`, `WriteMap` put the pages at their places, and the map
is built from what the stream holds. `ReadMapEntry` adds up the addresses,
`MapComplete` or `RepairMap` is what `read_R2004_section_map` does at the end of the
map; `ReadInfo` is `read_R2004_section_info`, and `OpenSection`, `SkipPage`,
`CopyPage`, `DecompressPage`, `EndSection` are `read_2004_compressed_section`. A
byte is a pair of its section and its offset, so that a byte in the wrong place
shows. Files of other programs (`OtherDataPage`, `OtherMaps`) have compressed pages
that may not decompress, freed pages, and maps without their own entry or with
another one for the section info. The orders of the sections in the stream and in the
map of infos are constants, each section once in the stream, as
`section_map_order` and `stream_order` in `encode.c` are (`InfosIn` is the infos of an order, without the empty
sections). The model rests on `Lz77` in two places:
what a stored section takes (`StoredSize`, proved there as `AnnouncedSize`),
and that system pages are read back (`RoundTrips`, `RefusesAtEnd`).

### OwnedEntities

`header` has both lists of each block, `object` the links of the entities. `AddEntity`
is `dwg_add_<entity>` as a whole: `in_postprocess_handles` (`Postprocessed`: the links of the new entity, `OwnLinks`, and
those of the one before it, `Before`), `dwg_insert_entity` (`Inserted`; `LinkedLast` is the
link from the last entity of the block, left out when the new one `Follows` it in the
array), and `in_postprocess_handles` again. `ImportEntity` and
`EndImport` are the DXF reader, `Downgrade` is the conversion to R2000, `Reload` is
saving and reading, which keeps one of the two lists and orders the objects by
their handles (`ByHandle`). It takes the one kind of drawing whose chain is written
wrongly as well (`ExtendedUnsorted`, see 5); `misordered` is the history of that.
`FixedObjects` and `FixedHeaders` are `dwg_fixup_BLOCKS_entities`. The
references of the block header are used through their cached pointer, so the model
has the set of those that are `resolved`. `GetFirst` and `GetNext` are the two
iterations, interleaved with additions.

## 3. Runs

| Run | Distinct states | Question |
|---|---|---|
| `hash` | 724 thousand | Does the table implement the map, resizes and failed resizes included? |
| `hash_live` | 40 thousand | Does every call end? |
| `pool` | 668 thousand | Do clean references point to the objects they name, do lookups find what is registered, is a dangling pointer ever followed? |
| `refs` | 1.7 million | What does the index guarantee in spite of its comparison? |
| `refs_existing` (violation) | | Is an existing reference returned? |
| `seed` | 762 thousand | Do new objects get handles that no object has? |
| `handles` | 603 thousand | Is what was written read back, and when do the readers complain? |
| `handles_last` (violation) | | Does the reader end on the page of size 2? |
| `lz` | 670 thousand | Is what was compressed decompressed to the same bytes, and what is refused? |
| `pages` | 1.7 million | Do the reader's addresses, sections and bytes agree with the writer's? |
| `owned` | 1.8 million | Do chain and vector list what was added, in a file and in an iteration? |
| `owned_api` (violation) | | Does every iteration list the entities of its block? |

Bounds, and why they are enough:

- `hash`: 5 keys against a table of 4 slots that doubles once to 8. A full turn,
  a resize, a failed resize and the re-insertion of every slot all happen. The
  homes 3, 6 and 7 (2 and 3 in the small table) give chains that collide, merge and
  wrap around; all 243 functions are taken, up to the symmetry of the keys.
  `hash_live` has no symmetry, hence two functions and one value.
- `pool`: one object in the first allocation, up to 4 objects, so that the array may
  move twice and stay in place in between; a reference vector of 3 that grows at the
  second one; two handles, so that duplicates occur in all three registrations.
- `refs`: up to 4 references, an index that is full at the third, handles 0 to 2,
  codes 0 and 4, and 5 by retyping, an object whose handle is between the others so
  that every relative code arises. One retyping per run. A search over 3 elements
  takes both of its branches.
- `refs_existing`: references that only `dwg_add_handleref` makes and nobody changes
  (`CallsOnly`).
- `seed`: handles up to 4, three objects; the behaviours are those of the first
  handle in use, the gap above it, and the seed on either side of them.
- `handles`: up to 4 objects, three handles (none, and gaps on either side of the
  step in the width of a handle offset), two lengths (likewise for an address
  offset), and the limits scaled to 6 and 10 bytes for pairs of 3 to 5: pages of one
  and of two pairs, maps of one to three pages, a last pair that fills its page,
  and a page over the limit of the readers, which takes the widest pair, as with the
  real 2030, 2040 and 13.

- `lz`: all sections of 4 to 14 bytes over two values, with the constants of the
  format scaled to a few bytes: matches of all three forms, with their length in the
  opcode, in one and in several bytes, overlapping themselves, followed by 0 to 3
  literals and by runs; a long match of length 3, which would look like the
  end, is tempting at 14 bytes.
- `pages`: three data sections of 0 to 4 bytes over pages of 2, 3 and 4, so that
  they have none, one or two pages; the vector of descriptors moves or not at
  every section; blank, fresh and stale descriptors; any page freed or broken.
- `owned`: the model space and one block; up to 6 objects, among them 4 entities, so
  that the last of a block is the neighbour of the new one or not, with and without
  a predecessor; DXF files of three entities whose handles 2, 3 and 5 come in any
  order, with a gap; a conversion, one saving and reading, an
  iteration at any time. The properties leave out a drawing of R2000 that was
  imported from unsorted handles and then extended by the API, and what is read from
  its file (`ExtendedUnsorted`, `misordered`, see 5); `TypeOK` does not.

Deadlock is checked for `IntHash`, where a call can always begin, and for
`HandlesSection`, which stutters when it is finished. The other modules stop at their bounds and say `CHECK_DEADLOCK FALSE`.

Fairness. `hash_live` assumes `WF_vars(Run)`, that a call which has begun goes on,
and `handles` assumes `WF_vars(Write \/ Read)`, that the loops do. The code is
sequential and waits for nothing. With `CallocMayFail`
`CallsReturn` would not hold: `hash_set` calls itself again with the same full table as
long as `calloc` fails.

The mutants in `PROJECT.json` change one definition each the way a plausible bug
would: a probe without wrap-around, a load factor of 100%, a capacity that is not
counted, a move that leaves `dirty_refs` alone, an object registered before it may
be rejected, a search without fallback, a copy that does not see what it has just
written, page pointers that are not rebuilt, an end of the chain that is not
compared. Every property fails on at least one.

## 4. Proofs

`IntHashProofs`, for any set of handles, any hash function and any table size:

- `InductiveInvariant`: `IInv` is `TypeOK`, `ProbeChain` and `UniqueKeys`,
  strengthened by `Walked` (no slot that the running walk has left behind is free
  or has its key), `Copied` (while the table is being doubled, the new one holds
  exactly the old slots before `ri`) and `Counted` (`elems` counts the used slots,
  and does not pass what was copied). `ProbeChain` alone is not inductive: that
  `Insert` closes no gap behind it needs `Walked`; that the new table has the
  bindings of the old one needs `Copied`.
- `SecondLoopIsDead`: the second probing loop of `hash_set` is never entered,
  because a walk around a full table means `elems = size`, and the rounding in
  `hash_need_resize` lets no table of 3 or more slots be full and under its load.
- `ResizeNotReentered`: the nested `hash_set` always finds a slot: at most as
  many slots are copied as the old table had, half of the new one.
- `Refinement`: `Spec => ImplementsMap`, with `Contents` (the old table while it is
  being copied) as the refinement mapping.

`ObjectPoolProofs`, for any handles, capacities and numbers of objects:

- `InductiveInvariant`: `IInv` adds to the checked invariants that an object which
  is being added has no handle yet (so that nothing leads to it and it may be taken
  back), and that a pointer is cached only under a handle that is registered (so
  that none is cached when the first `dwg_add_object` clears `dirty_refs`
  without looking at the references).
- `MapStaysSound`: the pool holds its objects, and the map names them.
- `CachedPointersAreLive`, `LookupsFind`, `DanglingNeverFollowed`: the three
  promises of the cache.

`OrderedRefsProofs`, for any handles, codes and objects and any length of the index:

- Both searches are proved over all lengths, by induction over the width of the range
  they still look at. They only need what the comparison does say: it orders
  the codes. Hence `bsearch_ex` inserts between the references of smaller and of larger
  codes (`Invariant`: every reference is in the index once, and the index is grouped
  by code until a caller changes one), and `bsearch` finds the last reference of a code.
- `IndexStaysUsable`, `TypeCorrect`, `CallsReturnRequested`, `AddedAreFound`: what the index
  guarantees in spite of its comparison. That an old reference is found does not follow,
  see `refs_existing`.

`HandleSeedProofs`, for any bounds on handles and objects:

- `InductiveInvariant`: `IInv` strengthens `HandlesKnown` to `Known`, which has the
  file's HANDSEED in the place of the present one, and adds that HANDSEED has not
  fallen below that (`SeedAboveFile`), that there are no `strays` before the header is
  read, that a HANDSEED among the references is set, and that the handle `dwg_set_next_hdl` asked for is still free. `HandlesKnown` alone
  is not inductive: the header of a file may set HANDSEED back.
- `ApiHandlesAreNew`, `TableHandlesAreNew`: no handle is given twice, but for a HANDSEED
  of 0 and the `strays`. The search over the map ends, and every other handle in use is
  in the map or below HANDSEED.
- `HandlesAreKnown`, `MapFindsHandle`, `SeedGrows`, `TypeCorrect`.

`HandlesSectionProofs`, for any objects, widths and limits:

- `InductiveInvariant`: `IInv` is one conjunct for each loop of the writer:
  `Sorted` (the entries before `i` are in order, are the entries of the first
  `i - 1` objects, and the rest are untouched), `Laid` (the objects that have an
  address end before the next one and before the current position) and the size of
  the open page. Without the second part of `Sorted`, that a new entry has the
  highest index so far, the order of equal handles would not follow.
- `SortedMap`, `NoOverlap`, `PageSizes`: what the map promises the reader.
- `ReaderInvariant`: `Course` puts every pair and every page at a place of the stream,
  by recursion over the entries; the stream has them there (`StreamWritten`) and
  the reader stands at one of these places, with the offset and the number of
  objects that belong to it (`InStep`). That the course only ever grows, and two
  pages share no byte, is an induction over the entries. A checksum is
  wrong at one place only, at the end of a map whose last pair filled its page.
- `ReadsInMapOrder`, `ReadsEverything`, `Complaints`, `TypeCorrect`: what the readers make of a map,
  across any number of pages. `ReadInMapOrder` needs that objects which are not
  written share the address of the next one (`HugeShare`).

`Lz77Proofs`, for any constants of the format and sections of any size over any
values:

- `StreamInvariant`: `StreamInv` says that there is a sequence of groups, each a match and
  the literals behind it, that tiles the stream as well as the section. During the
  scan it is what has been written, with the pending match as the next group
  (`ScanFits`); later it is all of the stream, and the reader stands at the opcode of a
  group and has the section up to it (`StandsAt`). `RoundTrip` alone says nothing before
  the end, so the groups are the whole argument.
- A match that overlaps itself is copied byte by byte, and what is copied is periodic
  with its distance (`%`); a length over several bytes is summed up again; a long match of
  length 3 would read as the end, and is excluded because the scan tests a fourth byte
  at such distances.
- `RoundTrips`, `ReadsInStep`, `RefusesAtEnd`, `TypeCorrect`: what is written is read back, in step, and
  refused only where the last match reaches the end.
- `AnnouncedSize`: a stored section takes as many bytes as
  `stored_R2004_section_size` says, which the section map uses for the
  addresses behind itself before it is written.

`SectionPagesProofs`, for any sections, sizes of pages and files of other programs:

- `Invariant`: `IInv` has one part for each stage of a file. `LaidInv`: the pages of the
  types come one type after the other (`Laid` sums them up), each info has its pages with
  pointers into the current block. `FileInv`: the pages that are written lie one
  behind the other. `HeaderInv`: what the file header says of map and info. `MapInv`: the
  `m`-th entry of the section map has the number and the size of page `m`. `FoundInv`: the running
  address of the reader is the address of the next page, and so are the
  entries that it repairs. `ReadInv`: the infos it read are those of the layout, and the
  bytes of a section so far are in place.
- `PointersStay`, `AddressesRead`, `OwnFilesRead`, `BytesReadInPlace`, `TypeCorrect`. That the
  addresses agree, which no page stores, needs `MapInv` and `InOrder` together: the reader
  adds up sizes of pages that the writer placed by adding up the same sizes.

`OwnedEntitiesProofs`, for any blocks, handles in a DXF file, and number of objects,
conversions and reloads:

- `Invariant`: `IInv` says that the two representations are at any time what `owned`, the
  history of additions, lists. `ChainInv` is about a drawing with chains: the ends of a block are
  its first and last entity (`Ends`); in the order of the array every link leads to the next
  one, or is left out before a neighbour (`Chained`); and a link that is left out in the file
  is followed by its neighbour in the order of the handles as well (`Saved`), since that is
  the order in which a file is read. `Saved` fails where the API has
  extended an unsorted DXF drawing (`ExtendedUnsorted`). What is read from the file of
  one is `Misordered` from then on: only the types are left, which no step makes wrong,
  and since such a drawing comes from a file of R2000 nothing mends its chains. The theorem
  is about `Whole`, which has `IInv` before that and `Misordered` after it. `VectorInv` is about a drawing with vectors: the vectors are what
  the blocks own, and the links some entities happen to have are such that
  `dwg_fixup_BLOCKS_entities` makes the chains of them (`FirstReady`: the first
  entity of a block has no stale predecessor). `ReaderInv`: an iteration has seen a prefix of the
  list and stands at its last element.
- `SavedChains`, `SettledIterations`: for every drawing that is neither; `TypeCorrect`, for all.

The proofs rest on the named assumptions of the modules: handles are not 0 in
`IntHash` and `ObjectPool`, sizes are positive, a table has at least 3 slots after
`hash_new`, a page has room for its own size and the readers' limit on it is not below the
writer's, a section has more than three bytes, each section has one place
in the stream, and the handles of a DXF file are below twice the bound on objects.

Where a proof is an induction over data (the length of an index, the entries of a map,
the groups of a stream, the entities of a list), it argues with the least number without
the property: `NatLessThanWellFounded` and `WFMin` of the library give it, and a lemma in each
module (`Least`, `Induction`) puts this in the form the proofs use.

Every invariant and action property of the passing runs is stated by a theorem. Only
model-checked are the liveness properties (`CallsReturn`, `ReadingEnds`): fairness is out of the
provers' reach.

## 5. Findings

Each of the first three is a run that TLC finds violated.

- `dwg.c:3918`: `Ref_cmp` is not an order; existing references are not found, are
  added again, and the duplicate then disables the index for good. Run
  `refs_existing`.
- `encode.c:2561`: when the last pair of the object map fills its page, two bytes are
  left for a next one; the readers take them for a page of size 0 and report a
  wrong checksum. Run `handles_last`.
- `dwg.c:1188`: the API does not resolve the references it puts into a block header,
  and in R2000 the iteration uses them unresolved: it finds no first entity, or
  misses the last one and runs on into other blocks. Run `owned_api`.

Seen while modelling, as parts of properties that hold or as steps of the models:

- `hash.c:65`: a `calloc` that fails in `hash_resize` goes unnoticed, and
  `hash_set` calls itself with the same full table (`hash.c:170` says it "guarantees
  new empty slots"). `ResizeFails` in `IntHash`.
- `decode.c:5461`: `dwg_add_object` clears memory behind the NULL of a failed
  `realloc` before it tests for it. `AddMovingFails` in `ObjectPool`.
- `dwg.c:3387`: `dwg_next_handle` looks at the last object with a handle, where its
  comment wants the highest. `NextHandle` in `HandleSeed`.
- `encode.c:5534`: an object that is too large is reported as skipped but keeps its
  entry, so that the object after it is read twice (`ReadInMapOrder`).
- `decode.c:2507`: a pair of more than 10 bytes at the end of a page, which takes a gap
  of 2^34 or more between handles, makes a page that the readers refuse
  (`ComplaintsExplained`).
- `decode.c:1275`: the comment wants a match that is too long capped, the code returns
  `DWG_ERR_VALUEOUTOFBOUNDS`, and also for a match that ends exactly at the end of
  the section, which `compress_R2004_section` writes (`RefusedAtEndOnly`). The
  files of the library itself escape it: the section map is stored, and the section
  info, which is compressed, ends in the entry of a page whose number occurs nowhere
  before it, so that no match reaches its end.
- `decode.c:2161`: the error of a page is overwritten with the result of the next one
  (`DecompressPage`): a section with a broken page is reported as read, with zeros in
  it (`BytesInPlace`).
- `decode.c:6240`: `nolinks` is set by the place in the object array, but a file has
  the objects in the order of their handles. A DXF import with unsorted handles
  is fixed up when it is read, not when it is extended afterwards and saved
  as R2000: `dwg_write_file` runs the fixup only for a `from_version` later than R2000
  (`dwg.c:458`), and the chain in the file may skip entities. `Reload` takes this step,
  and `SavedChainListsOwned` does not hold without its exception `ExtendedUnsorted`, nor
  `SettledIterationListsOwned` without `misordered`.
- `common_entity_data.spec:284`: an entity of an old DWG file comes with any handle and
  is not registered in the map. If it is not below the HANDSEED of the file, which nothing
  checks, neither the map nor HANDSEED knows of it, and a table record or an object of
  the API may get the same handle (`ReadR11Entity`, `strays`).
- `dwg.c:2236`: a HANDSEED of 0 makes 0 the handle of the next object (`ApiHandlesUnique`).
- `in_dxf.c` makes hard pointers of line types that it finds, in references that are in
  the index under another code (`RetypeRef`). The index is then not grouped by code any
  more, and from six references on even the one that was added last may not be
  found. `LastOfCodeFound` and `RepeatFinds` are therefore said of an index whose
  references have kept their codes.

## 6. Plan

1. Proofs: every invariant of the runs is a theorem by now. What is left is what the
   invariants say of single steps (the reads of two iterations one after the other,
   the moves of the pages in one step), and the links between modules: that the map
   of `ObjectPool` is what `IntHash` implements, and the system pages of
   `SectionPages` what `Lz77` reads back, stated over one specification.
2. The entities owned by entities (`INSERT` with its attributes, `POLYLINE` with its
   vertices, and their `SEQEND`), as an extension of `OwnedEntities`.
3. The pre-R13 pool, which grows with code of its own.

## 7. Assumptions and what is left out

Not modelled, with the reasons; `PROJECT.json` has the list of components.

- The fields of objects, their order and their encoding are generated from `.spec`
  files: data, not control. So are `dynapi.c`, `free.c` and the code pages, whose
  tables are four fifths of the lines of the repository. Formatting and logging
  are left out.
- The Reed-Solomon code (`reedsolomon.c`), the page checksums and the encryption of
  R2004 headers are arithmetic on bytes, which tests over their inputs
  decide better. The pages of R2007 rest on them.
- The pre-R13 decoder (`decode.c:6956-6968`, `decode_r11.c:313-325`) and the JSON
  reader (`in_json.c:3064-3085`) grow the object array with code of their own.

Assumptions of the modules:

- `ObjectPool` has the object map as a map, which is what `IntHash` implements, and
  leaves out references without a handle, which resolve to nothing.
- `HandlesSection` has addresses below 2^31, which is what the offsets of the map are
  masked to, and objects that are decoded without error. Positions are those of one
  file: that R2004 compresses the two sections is not in it. The reader of R2007
  files is not modelled.
- `Lz77` has sections below the largest distance of the format, streams that this
  writer wrote, and a hash table that is there; without one the section is
  stored.
- `SectionPages` has a section info and a section map of one page each, as they are
  in practice, no encryption, and no negative page numbers in the section info.
- `OwnedEntities` has blocks from the start, no paper space, one iteration at a time
  which ends when it has returned NULL, and no entities that own entities. The versions before
  R13 iterate as R2004 does but for their `JUMP`s.

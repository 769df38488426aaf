-------------------------- MODULE SectionPagesProofs --------------------------
(***************************************************************************)
(* Proofs about SectionPages, for any sections of any length, any size of  *)
(* the pages and anything left in header.section: the pointers to the      *)
(* pages, the addresses of the pages, and what is read of a section.       *)
(***************************************************************************)
EXTENDS SectionPages, FiniteSetTheorems, WellFoundedInduction, TLAPS

-----------------------------------------------------------------------------
(* The invariant.                                                          *)
NumTypes == Len(AllTypes)

(* How many pages the first types have together: the pages of the j-th     *)
(* type are Laid[j - 1] + 1 .. Laid[j].                                    *)
Laid[j \in 0 .. Len(AllTypes)] ==
  IF j = 0 THEN 0 ELSE Laid[j - 1] + NumPages(AllTypes[j])

Descriptors == [type : Types, number : Nat, address : Nat, size : Nat]
InfoType == [type : Types, size : Nat, pages : Seq([block : Nat, at : Nat])]

Done == IF phase = "layout" THEN next - 1 ELSE NumTypes

Listed(j) ==
  [type |-> AllTypes[j], size |-> Bytes(AllTypes[j]),
   pages |-> [p \in 1 .. NumPages(AllTypes[j]) |->
                [block |-> block, at |-> Laid[j - 1] + p]]]

Number(i) == IF phase # "layout" /\ i > si - 2 THEN i + 2 ELSE i

(* What is laid out has its info and its descriptors.                      *)
InfosLaid ==
  /\ \A d \in 1 .. Len(section_info) : \E j \in 1 .. Done :
       Bytes(AllTypes[j]) > 0 /\ section_info[d] = Listed(j)
  /\ \A j \in 1 .. Done : Bytes(AllTypes[j]) > 0 =>
       \E d \in 1 .. Len(section_info) : section_info[d] = Listed(j)

PagesLaid ==
  /\ \A j \in 1 .. Done : \A p \in 1 .. NumPages(AllTypes[j]) :
       section[Laid[j - 1] + p].type = AllTypes[j]
  /\ \A i \in 1 .. si : section[i].number = Number(i)

LaidInv ==
  /\ program \in {"this", "other"} /\ content \in [DataTypes -> Lengths]
  /\ phase \in Phases /\ next \in 1 .. NumTypes + 1
  /\ k \in Nat \ {0} /\ block \in Nat \ {0}
  /\ si = Laid[Done] /\ si <= Len(section)
  /\ section \in Seq(Descriptors) /\ section_info \in Seq(InfoType)
  /\ InfosLaid /\ PagesLaid

(* The pages that are written, one behind the other from FirstAddress on.  *)
Written ==
  IF phase = "layout" THEN 0
  ELSE IF phase = "pages" THEN Laid[next - 1] + k - 1 ELSE si

AddressAfter(w) ==
  IF w = 0 THEN FirstAddress ELSE section[w].address + section[w].size

InOrder ==
  /\ byte = AddressAfter(Written)
  /\ \A i \in 1 .. Written :
       /\ section[i].address = AddressAfter(i - 1) /\ section[i].size > 0
       /\ FirstAddress <= section[i].address /\ section[i].address < byte
  /\ \A i, j \in 1 .. Written : i < j => section[i].address < section[j].address

IsPage(p, j, q) ==
  /\ p.at = section[Laid[j - 1] + q].address /\ p.type = AllTypes[j]
  /\ p.kind = IF AllTypes[j] \in DataTypes THEN "data" ELSE AllTypes[j]
  /\ p.first = (q - 1) * PageSize[AllTypes[j]] /\ p.start = p.first
  /\ program = "this" => p.ok

Filed ==
  /\ \A p \in file :
       \E j \in 1 .. NumTypes : \E q \in 1 .. NumPages(AllTypes[j]) :
         Laid[j - 1] + q <= Written /\ IsPage(p, j, q)
  /\ \A i \in 1 .. Written : \E p \in file : p.at = section[i].address

FileInv ==
  /\ Written \in 0 .. si
  /\ phase = "pages" =>
       /\ next <= NumTypes
       /\ k = 1 \/ k <= NumPages(AllTypes[next])
  /\ InOrder /\ Filed
  /\ phase = "layout" => freed = {}
  /\ freed \subseteq 1 .. si - 2 /\ (program = "this" => freed = {})

Headers ==
  [numsections : Int, numgaps : Int, section_info_id : Int,
   section_map_id : Int, section_array_size : Int,
   section_map_address : Int, last_section_address : Int]

HeaderInv ==
  /\ phase # "layout" =>
       /\ fhdr \in Headers
       /\ fhdr.section_info_id = si + 1 /\ fhdr.section_map_id = si + 2
       /\ fhdr.section_array_size = si + 2
  /\ phase \notin {"layout", "pages"} =>
       /\ fhdr.section_map_address = section[si].address - FirstAddress
       /\ fhdr.last_section_address = AddressAfter(si) - FirstAddress
       /\ fhdr.numsections + fhdr.numgaps = si

(* The section map has the sizes of the pages, in their order.             *)
MapEntry(m) ==
  /\ map[m].size = section[m].size
  /\ m <= si - 2 => map[m].number = IF m \in freed THEN - m ELSE m
  /\ m = si - 1 => map[m].number = si + 1
                     \/ (map[m].number = si + 3 /\ Len(map) = si - 1)
  /\ m = si => map[m].number = si + 2

MapInv ==
  /\ phase \in {"layout", "pages"} => map = <<>>
  /\ phase \notin {"layout", "pages"} =>
       /\ map \in Seq([number : Int, size : Int])
       /\ Len(map) \in si - 2 .. si
       /\ \A m \in 1 .. Len(map) : MapEntry(m)
       /\ program = "this" => Len(map) = si

(* What the reader found so far.                                           *)
FoundHere(f) ==
  [number |-> map[f].number, size |-> map[f].size,
   address |-> section[f].address]

FoundRight ==
  \A f \in 1 .. Len(found) :
    /\ \A i \in 1 .. si - 2 :
         found[f].number = i => found[f].address = section[i].address
    /\ found[f].number = si + 2 => found[f].address = section[si].address
    /\ f <= Len(map) /\ found[f].number = si + 1 =>
         found[f].address = section[si - 1].address

FoundInv ==
  /\ phase \in {"layout", "pages"} =>
       found = <<>> /\ mapError = FALSE /\ address = FirstAddress
  /\ phase = "map" =>
       /\ k <= Len(map) + 1 /\ found = [f \in 1 .. k - 1 |-> FoundHere(f)]
       /\ mapError = FALSE
       /\ address = AddressAfter(k - 1)
            \/ (k = Len(map) + 1 /\ k = si /\ address = section[k - 1].address)
  /\ phase \notin {"layout", "pages", "map"} =>
       /\ found \in Seq([number : Int, size : Int, address : Int])
       /\ Len(found) <= Len(map) + 2 /\ FoundRight
       /\ program = "this" =>
            /\ mapError = FALSE /\ Len(found) = si
            /\ \A i \in 1 .. si : found[i].number = Number(i)
  /\ address \in Int /\ address >= FirstAddress

(* The sections the reader knows, and the one it reads.                    *)
InfosRead ==
  /\ Len(infos) \in Nat
  /\ \A d \in 1 .. Len(infos) : \E j \in 1 .. NumTypes :
       Bytes(AllTypes[j]) > 0 /\ infos[d] = Described(AllTypes[j])
  /\ \A t \in DataTypes : content[t] > 0 =>
       \E d \in 1 .. Len(infos) : infos[d].type = t

ReadSoFar ==
  /\ content[type] > 0 /\ k <= NumPages(type) + 1
  /\ DOMAIN dec = 0 .. NumPages(type) * PageSize[type] - 1
  /\ program = "this" =>
       /\ error = "none"
       /\ \A b \in 0 .. content[type] - 1 :
            b < (k - 1) * PageSize[type] => dec[b] = <<type, b>>

ReadInv ==
  /\ phase \in {"open", "read", "done"} => InfosRead
  /\ phase \in {"read", "done"} => type \in DataTypes
  /\ phase = "read" => ReadSoFar
  /\ OwnFileReads /\ BytesInPlace

IInv == LaidInv /\ FileInv /\ HeaderInv /\ MapInv /\ FoundInv /\ ReadInv

-----------------------------------------------------------------------------
(* Numbers, and functions that are defined by the value before.            *)

(* A set of numbers has a least one. *)
LEMMA Least ==
  ASSUME NEW T, T \subseteq Nat, T # {}
  PROVE  \E x \in T : \A y \in T : x <= y
<1>1. IsWellFoundedOn(OpToRel(<, Nat), Nat)
  BY NatLessThanWellFounded
<1>2. PICK x \in T : \A y \in T : ~ (<<y, x>> \in OpToRel(<, Nat))
  BY <1>1, WFMin
<1>3. \A y \in T : ~ (y < x)
  BY <1>2 DEF OpToRel
<1> QED
  BY <1>3

(* What holds of 0, and of the number after each that it holds of, up to   *)
(* n, holds of all of them.                                                *)
LEMMA Induction ==
  ASSUME NEW n \in Nat, NEW G, 0 \in G,
         \A m \in 0 .. n - 1 : m \in G => m + 1 \in G
  PROVE  \A m \in 0 .. n : m \in G
<1> SUFFICES ASSUME NEW b \in 0 .. n, b \notin G PROVE FALSE
  OBVIOUS
<1> DEFINE Bad == {m \in 0 .. n : m \notin G}
<1>1. Bad \subseteq Nat /\ Bad # {}
  OBVIOUS
<1>2. PICK m \in Bad : \A j \in Bad : m <= j
  BY <1>1, Least
<1>3. m # 0 /\ m - 1 \in 0 .. n - 1 /\ m - 1 \notin Bad
  BY <1>2
<1> QED
  BY <1>2, <1>3

Iteration(f, S, b, n, step) ==
  /\ f \in [0 .. n -> S] /\ f[0] = b
  /\ \A i \in 1 .. n : f[i] = step[<<f[i - 1], i>>]

LEMMA Iterated ==
  ASSUME NEW S, NEW b \in S, NEW n \in Nat, NEW step \in [S \X (1 .. n) -> S]
  PROVE  \E f : Iteration(f, S, b, n, step)
<1> DEFINE Upto(m, f) == /\ f \in [0 .. m -> S] /\ f[0] = b
                         /\ \A i \in 1 .. m : f[i] = step[<<f[i - 1], i>>]
           G == {m \in Nat : \E f : Upto(m, f)}
<1>1. 0 \in G
  <2>1. Upto(0, [m \in 0 .. 0 |-> b])
    OBVIOUS
  <2> QED
    BY <2>1
<1>2. ASSUME NEW m \in 0 .. n - 1, m \in G PROVE m + 1 \in G
  <2>1. PICK f : Upto(m, f)
    BY <1>2
  <2>2. step[<<f[m], m + 1>>] \in S
    BY <2>1
  <2> DEFINE g == [i \in 0 .. m + 1 |->
                     IF i = m + 1 THEN step[<<f[m], m + 1>>] ELSE f[i]]
  <2>3. /\ g \in [0 .. m + 1 -> S] /\ g[0] = b
        /\ g[m + 1] = step[<<f[m], m + 1>>] /\ \A i \in 0 .. m : g[i] = f[i]
    BY <2>1, <2>2
  <2> HIDE DEF g
  <2>4. ASSUME NEW i \in 1 .. m + 1 PROVE g[i] = step[<<g[i - 1], i>>]
    <3>1. CASE i = m + 1
      <4>1. m \in 0 .. m /\ i - 1 = m
        BY <3>1
      <4> QED
        BY <2>3, <3>1, <4>1
    <3>2. CASE i # m + 1
      <4>1. i \in 1 .. m /\ i \in 0 .. m /\ i - 1 \in 0 .. m
        BY <3>2
      <4>2. f[i] = step[<<f[i - 1], i>>]
        BY <2>1, <4>1
      <4> QED
        BY <2>3, <4>1, <4>2
    <3> QED
      BY <3>1, <3>2
  <2> QED
    BY <2>3, <2>4
<1> HIDE DEF G
<1>3. \A m \in 0 .. n : m \in G
  BY <1>1, <1>2, Induction
<1>4. n \in G
  BY <1>3
<1> QED
  BY <1>4 DEF G, Iteration

(* The smallest and the largest number of a set. *)
LEMMA MinIs ==
  ASSUME NEW T, T \subseteq Nat, NEW l \in T, \A y \in T : l <= y
  PROVE  Min(T) = l
<1>1. Min(T) \in T /\ \A y \in T : Min(T) <= y
  <2> DEFINE P(x) == x \in T /\ \A y \in T : x <= y
  <2>1. P(l)
    OBVIOUS
  <2>2. P(CHOOSE x : P(x))
    BY <2>1
  <2> QED
    BY <2>2, Zenon DEF Min
<1>2. PICK x \in T : x = Min(T) /\ x <= l
  BY <1>1
<1>3. l <= x /\ l \in Nat /\ x \in Nat
  OBVIOUS
<1> QED
  BY <1>2, <1>3

LEMMA MinIn ==
  ASSUME NEW T, T \subseteq Nat, T # {}
  PROVE  Min(T) \in T /\ \A y \in T : Min(T) <= y
<1>1. PICK l \in T : \A y \in T : l <= y
  BY Least
<1>2. Min(T) = l
  BY <1>1, MinIs
<1> QED
  BY <1>1, <1>2

LEMMA MaxIn ==
  ASSUME NEW n \in Nat, NEW T, T \subseteq 0 .. n, T # {}
  PROVE  Max(T) \in T
<1> DEFINE U == {n - x : x \in T}
<1>1. U \subseteq Nat /\ U # {}
  <2>1. \A x \in T : n - x \in Nat
    OBVIOUS
  <2> QED
    BY <2>1
<1>2. PICK u \in U : \A y \in U : u <= y
  BY <1>1, Least
<1>3. PICK l \in T : u = n - l
  OBVIOUS
<1>4. ASSUME NEW y \in T PROVE l >= y
  <2>1. n - y \in U /\ y \in 0 .. n /\ l \in 0 .. n
    OBVIOUS
  <2> QED
    BY <1>2, <1>3, <2>1
<1> DEFINE P(x) == x \in T /\ \A y \in T : x >= y
<1>5. P(l)
  BY <1>4
<1>6. P(CHOOSE x : P(x))
  BY <1>5
<1> QED
  BY <1>6, Zenon DEF Max

(* How many pages a section takes. *)
LEMMA RoundedUp ==
  ASSUME NEW b \in Nat, NEW s \in Nat \ {0}, NEW n, n = (b + s - 1) \div s
  PROVE  /\ n \in Nat /\ b <= n * s /\ (b > 0 => n > 0 /\ (n - 1) * s < b)
         /\ (b = 0 => n = 0)
<1>1. /\ n \in Int /\ b + s - 1 = s * n + ((b + s - 1) % s)
      /\ (b + s - 1) % s \in 0 .. s - 1
  OBVIOUS
<1>2. PICK r \in 0 .. s - 1 : b + s - 1 = s * n + r
  BY <1>1
<1>3. n >= 0
  <2> SUFFICES ASSUME n <= -1 PROVE FALSE
    BY <1>1
  <2>1. s * n <= - s
    BY <1>1
  <2> QED
    BY <1>1, <1>2, <2>1
<1>4. b <= n * s
  BY <1>1, <1>2
<1>5. (n - 1) * s = s * n - s
  BY <1>1
<1>6. ASSUME b > 0 PROVE n > 0 /\ (n - 1) * s < b
  <2>1. n # 0
    BY <1>4, <1>6
  <2> QED
    BY <1>1, <1>2, <1>3, <1>5, <2>1
<1>7. ASSUME b = 0 PROVE n = 0
  <2> SUFFICES ASSUME n >= 1 PROVE FALSE
    BY <1>1, <1>3
  <2>1. s * n >= s
    BY <1>1
  <2> QED
    BY <1>1, <1>2, <1>7, <2>1
<1> QED
  BY <1>1, <1>3, <1>4, <1>6, <1>7

-----------------------------------------------------------------------------
(* The sections, and their pages.                                          *)

LEMMA TypeFacts ==
  /\ NumTypes \in Nat /\ NumTypes >= 2 /\ AllTypes \in Seq(Types)
  /\ AllTypes[NumTypes - 1] = "info" /\ AllTypes[NumTypes] = "map"
  /\ \A j \in 1 .. NumTypes :
       /\ AllTypes[j] \in Types
       /\ AllTypes[j] \in DataTypes <=> j <= NumTypes - 2
  /\ \A i, j \in 1 .. NumTypes : AllTypes[i] = AllTypes[j] => i = j
  /\ \A t \in DataTypes : \E j \in 1 .. NumTypes - 2 : AllTypes[j] = t
  /\ "info" \notin DataTypes /\ "map" \notin DataTypes /\ "" \notin DataTypes
<1>1. /\ "info" \notin DataTypes /\ "map" \notin DataTypes
      /\ "" \notin DataTypes
  BY SectionPagesConstants
<1>0. /\ StreamOrder \in Seq(DataTypes)
      /\ \A i, j \in DOMAIN StreamOrder :
           StreamOrder[i] = StreamOrder[j] => i = j
  BY SectionPagesConstants DEF IsInjective
<1>2. DataTypes = {StreamOrder[i] : i \in DOMAIN StreamOrder}
  BY DEF DataTypes, Range
<1> DEFINE n == Len(StreamOrder)
<1>3. /\ n \in Nat /\ DOMAIN StreamOrder = 1 .. n
      /\ \A j \in 1 .. n : StreamOrder[j] \in DataTypes
  <2>1. StreamOrder \in Seq(DataTypes)
    BY <1>0
  <2> QED
    BY <2>1
<1>4. DataTypes \subseteq Types /\ "info" \in Types /\ "map" \in Types
  BY DEF Types
<1>5. StreamOrder \in Seq(Types) /\ <<"info", "map">> \in Seq(Types)
  <2>1. StreamOrder \in Seq(Types)
    BY <1>0, <1>4
  <2>2. <<"info", "map">> \in Seq(Types)
    BY <1>4
  <2> QED
    BY <2>1, <2>2
<1>6. AllTypes \in Seq(Types) /\ Len(AllTypes) = n + 2
  BY <1>5 DEF AllTypes
<1>7. /\ \A j \in 1 .. n : AllTypes[j] = StreamOrder[j]
      /\ AllTypes[n + 1] = "info" /\ AllTypes[n + 2] = "map"
  BY <1>3, <1>5 DEF AllTypes
<1>8. NumTypes = n + 2
  BY <1>6 DEF NumTypes
<1> HIDE DEF n
<1>9. ASSUME NEW j \in 1 .. NumTypes
      PROVE  /\ AllTypes[j] \in Types
             /\ AllTypes[j] \in DataTypes <=> j <= NumTypes - 2
  <2>1. j \in 1 .. n \/ j = n + 1 \/ j = n + 2
    BY <1>3, <1>8
  <2> QED
    <3>1. CASE j \in 1 .. n
      BY <1>3, <1>4, <1>7, <1>8, <3>1
    <3>2. CASE j = n + 1
      <4>1. AllTypes[j] = "info" /\ ~ (j <= NumTypes - 2)
        BY <1>3, <1>7, <1>8, <3>2
      <4>2. AllTypes[j] \in Types /\ AllTypes[j] \notin DataTypes
        BY ONLY <1>1, <1>4, <4>1
      <4> QED
        BY ONLY <4>1, <4>2
    <3>3. CASE j = n + 2
      <4>1. AllTypes[j] = "map" /\ ~ (j <= NumTypes - 2)
        BY <1>3, <1>7, <1>8, <3>3
      <4>2. AllTypes[j] \in Types /\ AllTypes[j] \notin DataTypes
        BY ONLY <1>1, <1>4, <4>1
      <4> QED
        BY ONLY <4>1, <4>2
    <3> QED
      BY <2>1, <3>1, <3>2, <3>3
<1>10. ASSUME NEW i \in 1 .. NumTypes, NEW j \in 1 .. NumTypes,
              AllTypes[i] = AllTypes[j]
       PROVE  i = j
  <2>1. /\ i \in 1 .. n \/ i = n + 1 \/ i = n + 2
        /\ j \in 1 .. n \/ j = n + 1 \/ j = n + 2
    BY <1>3, <1>8
  <2>2. "info" # "map"
    OBVIOUS
  <2>3. CASE i \in 1 .. n /\ j \in 1 .. n
    BY <1>0, <1>3, <1>7, <1>10, <2>3
  <2>4. CASE ~ (i \in 1 .. n /\ j \in 1 .. n)
    BY <1>1, <1>3, <1>7, <1>10, <2>1, <2>2, <2>4
  <2> QED
    BY <2>3, <2>4
<1>11. ASSUME NEW t \in DataTypes
       PROVE  \E j \in 1 .. NumTypes - 2 : AllTypes[j] = t
  <2>1. PICK i \in 1 .. n : t = StreamOrder[i]
    BY <1>2, <1>3
  <2> QED
    BY <1>3, <1>7, <1>8, <2>1
<1>12. /\ NumTypes - 1 = n + 1 /\ NumTypes = n + 2 /\ NumTypes \in Nat
       /\ NumTypes >= 2
  BY <1>3, <1>8
<1>13. AllTypes[NumTypes - 1] = "info" /\ AllTypes[NumTypes] = "map"
  BY ONLY <1>7, <1>12
<1> QED
  BY ONLY <1>1, <1>6, <1>9, <1>10, <1>11, <1>12, <1>13

LEMMA TypesNumber == NumTypes \in Nat /\ NumTypes >= 2
BY TypeFacts

LEMMA TypeOnce ==
  \A i, j \in 1 .. NumTypes : AllTypes[i] = AllTypes[j] => i = j
BY TypeFacts

LEMMA LastTypes ==
  /\ AllTypes[NumTypes - 1] = "info" /\ AllTypes[NumTypes] = "map"
  /\ "info" \notin DataTypes /\ "map" \notin DataTypes /\ "" \notin DataTypes
BY TypeFacts

(* The sizes of the pages and of what is around them. *)
LEMMA Sizes ==
  /\ PageSize \in [Types -> Nat \ {0}] /\ Lengths \subseteq Nat
  /\ CompSizes \subseteq Nat \ {0}
  /\ FirstAddress \in Nat /\ FirstAddress > 0 /\ DataHeader \in Nat \ {0}
  /\ SystemHeader \in Nat \ {0} /\ EntrySize \in Nat \ {0}
<1>1. /\ PageSize \in [Types -> Nat \ {0}] /\ Lengths \subseteq Nat
      /\ CompSizes \subseteq Nat \ {0}
      /\ {FirstAddress, DataHeader, SystemHeader, EntrySize}
           \subseteq Nat \ {0}
  BY SectionPagesConstants
<1>2. /\ FirstAddress \in Nat \ {0} /\ DataHeader \in Nat \ {0}
      /\ SystemHeader \in Nat \ {0} /\ EntrySize \in Nat \ {0}
  BY <1>1
<1> QED
  BY <1>1, <1>2

(* A section has as many pages as its bytes take. *)
LEMMA Pages ==
  ASSUME content \in [DataTypes -> Lengths], NEW t \in Types
  PROVE  /\ Bytes(t) \in Nat /\ NumPages(t) \in Nat
         /\ Bytes(t) > 0 <=> NumPages(t) > 0
         /\ Bytes(t) <= NumPages(t) * PageSize[t]
         /\ Bytes(t) > 0 => (NumPages(t) - 1) * PageSize[t] < Bytes(t)
         /\ t \in DataTypes => Bytes(t) = content[t]
         /\ t \notin DataTypes => NumPages(t) = 1 /\ Bytes(t) = 1
         /\ Bytes(t) = 0 <=> NumPages(t) = 0
<1> DEFINE s == PageSize[t]
           b == Bytes(t)
           n == NumPages(t)
<1>1. s \in Nat \ {0}
  BY Sizes
<1>2. b \in Nat /\ (t \in DataTypes => b = content[t])
      /\ (t \notin DataTypes => b = 1)
  BY Sizes DEF Bytes
<1>3. n = (b + s - 1) \div s
  BY DEF NumPages
<1> HIDE DEF s, b, n
<1>4. /\ n \in Nat /\ b <= n * s /\ (b > 0 => n > 0 /\ (n - 1) * s < b)
      /\ (b = 0 => n = 0)
  BY ONLY <1>1, <1>2, <1>3, RoundedUp
<1>5. ASSUME b = 1 PROVE n = 1
  <2> SUFFICES ASSUME n - 1 >= 1 PROVE FALSE
    BY <1>4, <1>5
  <2>1. \A m \in Nat : m >= 1 => m * s >= s
    BY <1>1
  <2>2. (n - 1) * s >= s
    BY <1>4, <2>1
  <2> QED
    BY <1>1, <1>4, <1>5, <2>2
<1>6. b > 0 <=> n > 0
  BY <1>2, <1>4
<1> QED
  BY <1>2, <1>4, <1>5, <1>6 DEF s, b, n

LEMMA LaidUnfolds ==
  ASSUME content \in [DataTypes -> Lengths]
  PROVE  /\ Laid \in [0 .. NumTypes -> Nat] /\ Laid[0] = 0
         /\ \A j \in 1 .. NumTypes :
              Laid[j] = Laid[j - 1] + NumPages(AllTypes[j])
<1> DEFINE step == [x \in Nat \X (1 .. NumTypes) |->
                      x[1] + NumPages(AllTypes[x[2]])]
<1>1. NumTypes \in Nat
  BY TypeFacts
<1>2. \A j \in 1 .. NumTypes : NumPages(AllTypes[j]) \in Nat
  BY TypeFacts, Pages
<1>3. step \in [Nat \X (1 .. NumTypes) -> Nat]
  BY <1>2
<1>4. \A a \in Nat, j \in 1 .. NumTypes :
        step[<<a, j>>] = a + NumPages(AllTypes[j])
  OBVIOUS
<1> HIDE DEF step
<1>5. PICK f \in [0 .. NumTypes -> Nat] :
        f[0] = 0 /\ \A j \in 1 .. NumTypes : f[j] = step[<<f[j - 1], j>>]
  <2>1. 0 \in Nat
    OBVIOUS
  <2>2. PICK f : Iteration(f, Nat, 0, NumTypes, step)
    BY <1>1, <1>3, <2>1, Iterated
  <2> QED
    BY <2>2 DEF Iteration
<1>6. ASSUME NEW j \in 0 .. NumTypes
      PROVE  f[j] = IF j = 0 THEN 0 ELSE f[j - 1] + NumPages(AllTypes[j])
  <2>1. CASE j = 0
    BY <1>5, <2>1
  <2>2. CASE j # 0
    <3>1. j \in 1 .. NumTypes /\ j - 1 \in 0 .. NumTypes
      BY <1>1, <2>2
    <3>2. f[j - 1] \in Nat /\ f[j] = step[<<f[j - 1], j>>]
      BY <1>5, <3>1
    <3> QED
      BY <1>4, <2>2, <3>1, <3>2
  <2> QED
    BY <2>1, <2>2
<1>7. f = [j \in 0 .. NumTypes |->
             IF j = 0 THEN 0 ELSE f[j - 1] + NumPages(AllTypes[j])]
  <2>1. f = [j \in 0 .. NumTypes |-> f[j]]
    BY <1>5
  <2> QED
    BY <1>6, <2>1
<1> DEFINE l == Laid
<1>8. l = [j \in 0 .. NumTypes |->
             IF j = 0 THEN 0 ELSE l[j - 1] + NumPages(AllTypes[j])]
  BY <1>7, Zenon DEF Laid, NumTypes
<1> HIDE DEF l
<1>9. \A j \in 0 .. NumTypes :
        l[j] = IF j = 0 THEN 0 ELSE l[j - 1] + NumPages(AllTypes[j])
  BY <1>8
<1>10. l[0] = 0
  BY <1>1, <1>9
<1>11. \A j \in 1 .. NumTypes : l[j] = l[j - 1] + NumPages(AllTypes[j])
  BY <1>1, <1>9
<1>12. \A j \in 0 .. NumTypes : l[j] \in Nat
  <2> DEFINE G == {j \in 0 .. NumTypes : l[j] \in Nat}
  <2>1. 0 \in G
    BY <1>1, <1>10
  <2>2. ASSUME NEW m \in 0 .. NumTypes - 1, m \in G PROVE m + 1 \in G
    <3>1. m + 1 \in 1 .. NumTypes /\ m + 1 \in 0 .. NumTypes
          /\ (m + 1) - 1 = m /\ l[m] \in Nat
      BY <1>1, <2>2
    <3>2. l[m + 1] = l[m] + NumPages(AllTypes[m + 1])
      BY <1>11, <3>1
    <3> QED
      BY <1>2, <3>1, <3>2
  <2> HIDE DEF G
  <2>3. \A m \in 0 .. NumTypes : m \in G
    BY <1>1, <2>1, <2>2, Induction
  <2> QED
    BY <2>3 DEF G
<1>13. l = [j \in 0 .. NumTypes |-> l[j]]
  BY <1>8
<1>14. l \in [0 .. NumTypes -> Nat]
  BY <1>12, <1>13
<1> QED
  BY <1>10, <1>11, <1>14 DEF l

(* The sums of a sequence of lengths do not fall, and every number up to   *)
(* one of them is in one of the parts.                                     *)
LEMMA Sums ==
  ASSUME NEW n \in Nat, NEW s \in [0 .. n -> Nat], NEW len \in [1 .. n -> Nat],
         s[0] = 0, \A j \in 1 .. n : s[j] = s[j - 1] + len[j]
  PROVE  /\ \A i, j \in 0 .. n : i <= j => s[i] <= s[j]
         /\ \A j \in 0 .. n : \A e \in 1 .. s[j] :
              \E i \in 1 .. j : \E p \in 1 .. len[i] : e = s[i - 1] + p
<1>1. ASSUME NEW i \in 0 .. n PROVE \A j \in 0 .. n : i <= j => s[i] <= s[j]
  <2> DEFINE G == {j \in 0 .. n : i <= j => s[i] <= s[j]}
  <2>1. 0 \in G
    OBVIOUS
  <2>2. ASSUME NEW m \in 0 .. n - 1, m \in G PROVE m + 1 \in G
    <3>1. /\ m + 1 \in 1 .. n /\ m + 1 \in 0 .. n /\ m \in 0 .. n
          /\ (m + 1) - 1 = m
      OBVIOUS
    <3>2. s[m + 1] = s[m] + len[m + 1]
      BY <3>1
    <3>3. s[m] \in Nat /\ len[m + 1] \in Nat /\ s[i] \in Nat
          /\ s[m + 1] \in Nat
      BY <3>1
    <3>4. CASE i <= m
      <4>1. s[i] <= s[m]
        BY <2>2, <3>4
      <4> QED
        BY <3>1, <3>2, <3>3, <4>1
    <3>5. CASE i > m
      <4>1. i <= m + 1 => i = m + 1
        BY <3>5
      <4> QED
        BY <3>1, <3>3, <4>1
    <3> QED
      BY <3>4, <3>5
  <2> HIDE DEF G
  <2>3. \A m \in 0 .. n : m \in G
    BY <2>1, <2>2, Induction
  <2> QED
    BY <2>3 DEF G
<1>2. ASSUME NEW j \in 0 .. n, NEW e \in 1 .. s[j]
      PROVE  \E i \in 1 .. j : \E p \in 1 .. len[i] : e = s[i - 1] + p
  <2> DEFINE U == {i \in 0 .. j : e <= s[i]}
  <2>1. s[j] \in Nat
    OBVIOUS
  <2>2. j \in U /\ U \subseteq Nat
    BY <2>1
  <2>3. PICK i \in U : \A x \in U : i <= x
    BY <2>2, Least
  <2>4. i \in 0 .. j /\ e <= s[i] /\ i \in 0 .. n
    OBVIOUS
  <2>5. i # 0
    BY <2>1, <2>4
  <2>6. i - 1 \in 0 .. j /\ i - 1 \notin U /\ i - 1 \in 0 .. n /\ i \in 1 .. n
        /\ i \in 1 .. j
    BY <2>3, <2>4, <2>5
  <2>7. s[i - 1] \in Nat /\ len[i] \in Nat /\ s[i] = s[i - 1] + len[i]
    BY <2>6
  <2>8. ~ (e <= s[i - 1])
    BY <2>6
  <2>9. e - s[i - 1] \in 1 .. len[i] /\ e = s[i - 1] + (e - s[i - 1])
    <3>1. PICK a, b, c : a = s[i - 1] /\ b = len[i] /\ c = s[i]
      OBVIOUS
    <3>2. a \in Nat /\ b \in Nat /\ c = a + b /\ e <= c /\ ~ (e <= a)
      BY <2>4, <2>7, <2>8, <3>1
    <3>3. e \in Int
      BY <2>1
    <3>4. e - a \in 1 .. b /\ e = a + (e - a)
      BY ONLY <3>2, <3>3
    <3> QED
      BY <3>1, <3>4
  <2> QED
    BY <2>6, <2>9
<1> QED
  BY <1>1, <1>2

-----------------------------------------------------------------------------
(* One sequence behind the other.                                          *)

LEMMA FlattenUnfolds ==
  ASSUME NEW S, NEW seqs \in Seq(Seq(S)), Len(seqs) # 0
  PROVE  \E g : /\ g = [i \in 1 .. Len(seqs) |->
                          IF i = 1 THEN seqs[i] ELSE g[i - 1] \o seqs[i]]
                /\ FlattenSeq(seqs) = g[Len(seqs)]
<1> DEFINE n == Len(seqs)
           step == [x \in Seq(S) \X (1 .. n) |-> x[1] \o seqs[x[2]]]
<1>1. n \in Nat /\ \A i \in 1 .. n : seqs[i] \in Seq(S)
  OBVIOUS
<1>2. step \in [Seq(S) \X (1 .. n) -> Seq(S)]
  BY <1>1
<1>3. \A a \in Seq(S), i \in 1 .. n : step[<<a, i>>] = a \o seqs[i]
  OBVIOUS
<1>4. <<>> \in Seq(S)
  OBVIOUS
<1> HIDE DEF step, n
<1>5. PICK f : Iteration(f, Seq(S), <<>>, n, step)
  BY <1>1, <1>2, <1>4, Iterated
<1>6. /\ \A i \in 0 .. n : f[i] \in Seq(S)
      /\ f[0] = <<>>
      /\ \A i \in 1 .. n : f[i] = step[<<f[i - 1], i>>]
  BY <1>5 DEF Iteration
<1> DEFINE h == [i \in 1 .. n |-> f[i]]
<1>7. ASSUME NEW i \in 1 .. n
      PROVE  h[i] = IF i = 1 THEN seqs[i] ELSE h[i - 1] \o seqs[i]
  <2>1. i - 1 \in 0 .. n /\ f[i - 1] \in Seq(S) /\ seqs[i] \in Seq(S)
        /\ f[i] = f[i - 1] \o seqs[i]
    <3>1. i - 1 \in 0 .. n
      BY <1>1
    <3>2. f[i - 1] \in Seq(S) /\ seqs[i] \in Seq(S)
          /\ f[i] = step[<<f[i - 1], i>>]
      BY <1>1, <1>6, <3>1
    <3> QED
      BY <1>3, <3>1, <3>2
  <2>2. CASE i = 1
    <3>1. f[0] \o seqs[i] = seqs[i]
      BY <1>6, <2>1
    <3>2. i - 1 = 0
      BY <2>2
    <3> QED
      BY <2>1, <2>2, <3>1, <3>2
  <2>3. CASE i # 1
    <3>1. i - 1 \in 1 .. n
      BY <2>3, <1>1
    <3> QED
      BY <2>1, <2>3, <3>1
  <2> QED
    BY <2>2, <2>3
<1>8. h = [i \in 1 .. n |-> IF i = 1 THEN seqs[i] ELSE h[i - 1] \o seqs[i]]
  <2>1. h = [i \in 1 .. n |-> h[i]]
    OBVIOUS
  <2> HIDE DEF h
  <2> QED
    BY <1>7, <2>1
<1> HIDE DEF h
<1> DEFINE Q(g) == g = [i \in 1 .. Len(seqs) |->
                          IF i = 1 THEN seqs[i] ELSE g[i - 1] \o seqs[i]]
<1>9. Q(h)
  BY <1>8 DEF n
<1>10. Q(CHOOSE g : Q(g))
  <2> HIDE DEF Q
  <2> QED
    BY <1>9
<1>11. FlattenSeq(seqs) = (CHOOSE g : Q(g))[Len(seqs)]
  BY Zenon DEF FlattenSeq
<1> QED
  BY <1>10, <1>11

(* Where the parts end, and where they are in the whole. *)
Ends(o, seqs) ==
  /\ o \in [0 .. Len(seqs) -> Nat] /\ o[0] = 0
  /\ \A j \in 1 .. Len(seqs) : o[j] = o[j - 1] + Len(seqs[j])

PartsAt(whole, o, seqs) ==
  /\ Len(whole) = o[Len(seqs)]
  /\ \A i \in 1 .. Len(seqs) : \A p \in 1 .. Len(seqs[i]) :
       whole[o[i - 1] + p] = seqs[i][p]

LEMMA FlattenFacts ==
  ASSUME NEW S, NEW seqs \in Seq(Seq(S)), NEW o, Ends(o, seqs)
  PROVE  FlattenSeq(seqs) \in Seq(S) /\ PartsAt(FlattenSeq(seqs), o, seqs)
<1> SUFFICES /\ FlattenSeq(seqs) \in Seq(S)
             /\ Len(FlattenSeq(seqs)) = o[Len(seqs)]
             /\ \A i \in 1 .. Len(seqs) : \A p \in 1 .. Len(seqs[i]) :
                  FlattenSeq(seqs)[o[i - 1] + p] = seqs[i][p]
  BY DEF PartsAt
<1>0. /\ o \in [0 .. Len(seqs) -> Nat] /\ o[0] = 0
      /\ \A j \in 1 .. Len(seqs) : o[j] = o[j - 1] + Len(seqs[j])
  BY DEF Ends
<1> USE <1>0
<1> DEFINE n == Len(seqs)
<1>1. n \in Nat /\ \A i \in 1 .. n : seqs[i] \in Seq(S)
  OBVIOUS
<1>2. CASE n = 0
  <2>1. seqs = <<>> /\ seqs \in Seq(S)
    BY <1>2
  <2>2. FlattenSeq(seqs) = seqs
    BY <1>2 DEF FlattenSeq
  <2> QED
    BY <1>2, <2>1, <2>2
<1>3. CASE n # 0
  <2>1. PICK g : /\ g = [i \in 1 .. Len(seqs) |->
                          IF i = 1 THEN seqs[i] ELSE g[i - 1] \o seqs[i]]
                 /\ FlattenSeq(seqs) = g[Len(seqs)]
    BY <1>3, FlattenUnfolds
  <2>2. \A i \in 1 .. n : g[i] = IF i = 1 THEN seqs[i] ELSE g[i - 1] \o seqs[i]
    BY <2>1
  <2> DEFINE R(m) == /\ g[m] \in Seq(S) /\ Len(g[m]) = o[m]
                     /\ \A i \in 1 .. m : \A p \in 1 .. Len(seqs[i]) :
                          g[m][o[i - 1] + p] = seqs[i][p]
             G == {m \in 0 .. n : m # 0 => R(m)}
  <2>3. 0 \in G
    BY <1>1
  <2>4. ASSUME NEW m \in 0 .. n - 1, m \in G PROVE m + 1 \in G
    <3>1. m + 1 \in 1 .. n /\ m + 1 \in 0 .. n /\ (m + 1) - 1 = m /\ m \in 0 .. n
      BY <1>1
    <3> DEFINE s == seqs[m + 1]
    <3>2. /\ s \in Seq(S) /\ Len(s) \in Nat /\ o[m + 1] = o[m] + Len(s)
          /\ o[m] \in Nat
      <4>1. s \in Seq(S) /\ o[m] \in Nat
        BY <1>1, <3>1
      <4>2. o[m + 1] = o[m] + Len(s)
        BY <3>1
      <4> QED
        BY <4>1, <4>2
    <3>3. \A i \in 1 .. n : o[i - 1] \in Nat
      <4> TAKE i \in 1 .. n
      <4>1. i - 1 \in 0 .. n
        BY <1>1
      <4> QED
        BY <4>1
    <3>4. CASE m = 0
      <4>1. g[m + 1] = s /\ o[m] = 0
        BY <2>2, <3>1, <3>4
      <4>2. Len(g[m + 1]) = o[m + 1] /\ g[m + 1] \in Seq(S)
        BY <3>2, <4>1
      <4>3. ASSUME NEW i \in 1 .. m + 1, NEW p \in 1 .. Len(seqs[i])
            PROVE  g[m + 1][o[i - 1] + p] = seqs[i][p]
        <5>1. i = m + 1 /\ o[i - 1] = 0
          BY <3>4
        <5>2. o[i - 1] + p = p
          BY <3>2, <5>1
        <5> QED
          BY <4>1, <5>1, <5>2
      <4> QED
        BY <3>1, <4>2, <4>3
    <3>5. CASE m # 0
      <4>0. g[m + 1] = g[m] \o s
        <5>1. PICK i \in 1 .. n : i = m + 1
          BY <3>1
        <5>2. i # 1 /\ i - 1 = m
          BY <3>1, <3>5, <5>1
        <5>3. g[i] = g[i - 1] \o seqs[i]
          BY <2>2, <5>2
        <5> QED
          BY <5>1, <5>2, <5>3
      <4>1. /\ g[m] \in Seq(S) /\ Len(g[m]) = o[m]
            /\ \A i \in 1 .. m : \A p \in 1 .. Len(seqs[i]) :
                 g[m][o[i - 1] + p] = seqs[i][p]
        BY <2>4, <3>5
      <4>2. /\ g[m + 1] \in Seq(S) /\ Len(g[m + 1]) = o[m + 1]
            /\ \A e \in 1 .. o[m] : g[m + 1][e] = g[m][e]
            /\ \A p \in 1 .. Len(s) : g[m + 1][o[m] + p] = s[p]
        <5>1. PICK a, b, x : a = g[m] /\ b = s /\ x = g[m + 1]
          OBVIOUS
        <5>2. a \in Seq(S) /\ b \in Seq(S) /\ x = a \o b
          BY <3>2, <4>0, <4>1, <5>1
        <5>3. /\ x \in Seq(S) /\ Len(x) = Len(a) + Len(b)
              /\ \A e \in 1 .. Len(a) : x[e] = a[e]
              /\ \A p \in 1 .. Len(b) : x[Len(a) + p] = b[p]
          BY ONLY <5>2
        <5> QED
          BY <3>2, <4>1, <5>1, <5>3
      <4>3. ASSUME NEW i \in 1 .. m + 1, NEW p \in 1 .. Len(seqs[i])
            PROVE  g[m + 1][o[i - 1] + p] = seqs[i][p]
        <5>1. CASE i = m + 1
          <6>1. i - 1 = m
            BY <3>1, <5>1
          <6> QED
            BY <4>2, <5>1, <6>1
        <5>2. CASE i # m + 1
          <6>1. i \in 1 .. m /\ i - 1 \in 0 .. n /\ i \in 0 .. n /\ i \in 1 .. n
            BY <1>1, <5>2
          <6>2. o[i] = o[i - 1] + Len(seqs[i]) /\ o[i] <= o[m]
            <7> DEFINE len == [j \in 1 .. n |-> Len(seqs[j])]
            <7>1. len \in [1 .. n -> Nat]
              BY <1>1
            <7>2. \A j \in 1 .. n : o[j] = o[j - 1] + len[j]
              OBVIOUS
            <7> HIDE DEF len
            <7>3. \A a, b \in 0 .. n : a <= b => o[a] <= o[b]
              BY <1>1, <7>1, <7>2, Sums
            <7>4. i <= m
              BY <6>1
            <7> QED
              BY <3>1, <6>1, <7>3, <7>4
          <6>3. Len(seqs[i]) \in Nat /\ o[i - 1] \in Nat
            BY <1>1, <3>3, <6>1
          <6>4. o[i - 1] + p \in 1 .. o[m]
            <7>1. PICK a, b, c, d : /\ a = o[i - 1] /\ b = Len(seqs[i])
                                    /\ c = o[m] /\ d = o[i]
              OBVIOUS
            <7>2. a \in Nat /\ b \in Nat /\ c \in Nat /\ d = a + b /\ d <= c
                  /\ p \in 1 .. b
              BY <3>2, <6>2, <6>3, <7>1
            <7>3. a + p \in 1 .. c
              BY ONLY <7>2
            <7> QED
              BY <7>1, <7>3
          <6> QED
            BY <4>1, <4>2, <6>1, <6>4
        <5> QED
          BY <5>1, <5>2
      <4> QED
        BY <3>1, <4>2, <4>3
    <3> QED
      BY <3>4, <3>5
  <2> HIDE DEF G
  <2>5. \A m \in 0 .. n : m \in G
    BY <1>1, <2>3, <2>4, Induction
  <2>6. R(n)
    BY <1>1, <1>3, <2>5 DEF G
  <2> QED
    BY <2>1, <2>6
<1> QED
  BY <1>2, <1>3

(* What is in the parts is in the whole, and nothing else. *)
LEMMA FlattenElements ==
  ASSUME NEW S, NEW seqs \in Seq(Seq(S))
  PROVE  /\ FlattenSeq(seqs) \in Seq(S)
         /\ \A e \in 1 .. Len(FlattenSeq(seqs)) :
              \E i \in 1 .. Len(seqs) : \E p \in 1 .. Len(seqs[i]) :
                FlattenSeq(seqs)[e] = seqs[i][p]
         /\ \A i \in 1 .. Len(seqs) : \A p \in 1 .. Len(seqs[i]) :
              \E e \in 1 .. Len(FlattenSeq(seqs)) :
                FlattenSeq(seqs)[e] = seqs[i][p]
<1> DEFINE n == Len(seqs)
           len == [j \in 1 .. n |-> Len(seqs[j])]
           step == [x \in Nat \X (1 .. n) |-> x[1] + len[x[2]]]
<1>1. n \in Nat /\ len \in [1 .. n -> Nat]
  OBVIOUS
<1>2. step \in [Nat \X (1 .. n) -> Nat] /\ 0 \in Nat
  BY <1>1
<1>3. /\ \A a \in Nat, i \in 1 .. n : step[<<a, i>>] = a + len[i]
      /\ \A i \in 1 .. n : len[i] = Len(seqs[i]) /\ len[i] \in Nat
  BY <1>1
<1> HIDE DEF step, len
<1>4. PICK o : Iteration(o, Nat, 0, n, step)
  BY <1>1, <1>2, Iterated
<1>5. /\ o \in [0 .. n -> Nat] /\ o[0] = 0
      /\ \A i \in 1 .. n : o[i] = step[<<o[i - 1], i>>]
  BY <1>4 DEF Iteration
<1>6. ASSUME NEW i \in 1 .. n PROVE o[i] = o[i - 1] + len[i]
  <2>1. i - 1 \in 0 .. n
    BY <1>1
  <2>2. o[i - 1] \in Nat
    BY <1>5, <2>1
  <2> QED
    BY <1>3, <1>5, <2>2
<1>7. /\ FlattenSeq(seqs) \in Seq(S) /\ Len(FlattenSeq(seqs)) = o[n]
      /\ \A i \in 1 .. n : \A p \in 1 .. Len(seqs[i]) :
           FlattenSeq(seqs)[o[i - 1] + p] = seqs[i][p]
  <2>1. \A i \in 1 .. n : o[i] = o[i - 1] + Len(seqs[i])
    BY <1>3, <1>6
  <2>2. Ends(o, seqs)
    BY <1>5, <2>1 DEF Ends
  <2> QED
    BY <2>2, FlattenFacts DEF PartsAt
<1>8. /\ \A i, j \in 0 .. n : i <= j => o[i] <= o[j]
      /\ \A j \in 0 .. n : \A e \in 1 .. o[j] :
           \E i \in 1 .. j : \E p \in 1 .. len[i] : e = o[i - 1] + p
  BY <1>1, <1>5, <1>6, Sums
<1>9. ASSUME NEW e \in 1 .. Len(FlattenSeq(seqs))
      PROVE  \E i \in 1 .. n : \E p \in 1 .. Len(seqs[i]) :
               FlattenSeq(seqs)[e] = seqs[i][p]
  <2>1. n \in 0 .. n
    BY <1>1
  <2>2. PICK i \in 1 .. n : \E p \in 1 .. len[i] : e = o[i - 1] + p
    <3>1. e \in 1 .. o[n]
      BY <1>7
    <3> QED
      BY <1>8, <2>1, <3>1
  <2>3. PICK p \in 1 .. len[i] : e = o[i - 1] + p
    BY <2>2
  <2> QED
    BY <1>3, <1>7, <2>3
<1>10. ASSUME NEW i \in 1 .. n, NEW p \in 1 .. Len(seqs[i])
       PROVE  \E e \in 1 .. Len(FlattenSeq(seqs)) :
                FlattenSeq(seqs)[e] = seqs[i][p]
  <2>1. i - 1 \in 0 .. n /\ i \in 0 .. n /\ n \in 0 .. n /\ i <= n
    BY <1>1
  <2>2. o[i] = o[i - 1] + len[i] /\ o[i] <= o[n] /\ o[i - 1] \in Nat
        /\ len[i] \in Nat /\ o[n] \in Nat /\ p \in 1 .. len[i]
    BY <1>3, <1>5, <1>6, <1>8, <2>1
  <2>3. o[i - 1] + p \in 1 .. o[n]
    BY <2>2
  <2> QED
    BY <1>7, <2>3
<1> QED
  BY <1>7, <1>9, <1>10

-----------------------------------------------------------------------------
(* The pages of the sections in header.section.                            *)

LEMMA LaidFacts ==
  ASSUME content \in [DataTypes -> Lengths]
  PROVE  /\ Laid[0] = 0 /\ \A j \in 0 .. NumTypes : Laid[j] \in Nat
         /\ \A i, j \in 0 .. NumTypes : i <= j => Laid[i] <= Laid[j]
         /\ \A j \in 0 .. NumTypes : \A e \in 1 .. Laid[j] :
              \E i \in 1 .. j : \E p \in 1 .. NumPages(AllTypes[i]) :
                e = Laid[i - 1] + p
<1> DEFINE len == [j \in 1 .. NumTypes |-> NumPages(AllTypes[j])]
<1>1. NumTypes \in Nat
  BY TypeFacts
<1>2. len \in [1 .. NumTypes -> Nat]
  BY TypeFacts, Pages
<1>3. /\ Laid \in [0 .. NumTypes -> Nat] /\ Laid[0] = 0
      /\ \A j \in 1 .. NumTypes : Laid[j] = Laid[j - 1] + NumPages(AllTypes[j])
  BY LaidUnfolds
<1>4. PICK s : s = Laid
  OBVIOUS
<1>5. s \in [0 .. NumTypes -> Nat] /\ s[0] = 0
  BY <1>3, <1>4
<1>6. \A j \in 1 .. NumTypes : s[j] = s[j - 1] + len[j]
  BY <1>3, <1>4
<1>7. \A j \in 1 .. NumTypes : len[j] = NumPages(AllTypes[j])
  OBVIOUS
<1> HIDE DEF len
<1>8. /\ \A i, j \in 0 .. NumTypes : i <= j => s[i] <= s[j]
      /\ \A j \in 0 .. NumTypes : \A e \in 1 .. s[j] :
           \E i \in 1 .. j : \E p \in 1 .. len[i] : e = s[i - 1] + p
  BY ONLY <1>1, <1>2, <1>5, <1>6, Sums
<1>9. ASSUME NEW j \in 0 .. NumTypes, NEW e \in 1 .. s[j]
      PROVE  \E i \in 1 .. j : \E p \in 1 .. NumPages(AllTypes[i]) :
               e = s[i - 1] + p
  <2>1. PICK i \in 1 .. j : \E p \in 1 .. len[i] : e = s[i - 1] + p
    BY <1>8
  <2>2. i \in 1 .. NumTypes
    BY <1>1
  <2> QED
    BY <1>7, <2>1, <2>2
<1> QED
  BY <1>4, <1>5, <1>8, <1>9

LEMMA PageFacts ==
  ASSUME content \in [DataTypes -> Lengths], NEW j \in 1 .. NumTypes
  PROVE  /\ NumPages(AllTypes[j]) \in Nat /\ Laid[j - 1] \in Nat
         /\ Laid[j] \in Nat /\ Laid[j] = Laid[j - 1] + NumPages(AllTypes[j])
         /\ Laid[NumTypes] \in Nat /\ Laid[j] <= Laid[NumTypes]
         /\ Bytes(AllTypes[j]) \in Nat
         /\ Bytes(AllTypes[j]) > 0 <=> NumPages(AllTypes[j]) > 0
         /\ Bytes(AllTypes[j]) = 0 <=> NumPages(AllTypes[j]) = 0
<1>1. /\ NumTypes \in Nat /\ j - 1 \in 0 .. NumTypes /\ j \in 0 .. NumTypes
      /\ NumTypes \in 0 .. NumTypes /\ j <= NumTypes
  BY TypesNumber
<1>2. AllTypes[j] \in Types
  BY TypeFacts
<1> QED
  BY <1>1, <1>2, Pages, LaidFacts, LaidUnfolds

(* A page is of one section only. *)
LEMMA PageOnce ==
  ASSUME content \in [DataTypes -> Lengths],
         NEW i \in 1 .. NumTypes, NEW j \in 1 .. NumTypes,
         NEW p \in 1 .. NumPages(AllTypes[i]),
         NEW q \in 1 .. NumPages(AllTypes[j]),
         Laid[i - 1] + p = Laid[j - 1] + q
  PROVE  i = j /\ p = q
<1>1. /\ NumPages(AllTypes[i]) \in Nat /\ Laid[i - 1] \in Nat
      /\ Laid[i] = Laid[i - 1] + NumPages(AllTypes[i])
  BY PageFacts
<1>2. /\ NumPages(AllTypes[j]) \in Nat /\ Laid[j - 1] \in Nat
      /\ Laid[j] = Laid[j - 1] + NumPages(AllTypes[j])
  BY PageFacts
<1>3. NumTypes \in Nat
  BY TypeFacts
<1>4. ~ (i < j)
  <2> SUFFICES ASSUME i < j PROVE FALSE
    OBVIOUS
  <2>1. i \in 0 .. NumTypes /\ j - 1 \in 0 .. NumTypes /\ i <= j - 1
    BY <1>3
  <2>2. Laid[i] <= Laid[j - 1]
    BY <2>1, LaidFacts
  <2> QED
    BY <1>1, <1>2, <2>2
<1>5. ~ (j < i)
  <2> SUFFICES ASSUME j < i PROVE FALSE
    OBVIOUS
  <2>1. j \in 0 .. NumTypes /\ i - 1 \in 0 .. NumTypes /\ j <= i - 1
    BY <1>3
  <2>2. Laid[j] <= Laid[i - 1]
    BY <2>1, LaidFacts
  <2> QED
    BY <1>1, <1>2, <2>2
<1>6. i = j
  BY <1>3, <1>4, <1>5
<1> QED
  BY <1>1, <1>2, <1>6

(* The two system sections have one page each, the last ones. *)
LEMMA SystemPages ==
  ASSUME content \in [DataTypes -> Lengths]
  PROVE  /\ NumTypes \in Nat /\ NumTypes >= 2 /\ Laid[NumTypes] \in Nat
         /\ Laid[NumTypes] >= 2
         /\ Laid[NumTypes - 1] = Laid[NumTypes] - 1
         /\ Laid[NumTypes - 2] = Laid[NumTypes] - 2
         /\ NumPages(AllTypes[NumTypes - 1]) = 1
         /\ NumPages(AllTypes[NumTypes]) = 1
         /\ AllTypes[NumTypes - 1] = "info" /\ AllTypes[NumTypes] = "map"
<1>1. /\ NumTypes \in Nat /\ NumTypes >= 2
      /\ AllTypes[NumTypes - 1] = "info" /\ AllTypes[NumTypes] = "map"
      /\ "info" \notin DataTypes /\ "map" \notin DataTypes
  BY TypeFacts
<1>2. "info" \in Types /\ "map" \in Types
  BY DEF Types
<1>3. NumPages("info") = 1 /\ NumPages("map") = 1
  BY <1>1, <1>2, Pages
<1>4. PICK n \in 1 .. NumTypes : n = NumTypes - 1
  BY <1>1
<1>5. PICK m \in 1 .. NumTypes : m = NumTypes
  BY <1>1
<1>6. Laid[n] = Laid[n - 1] + NumPages(AllTypes[n]) /\ Laid[n - 1] \in Nat
  BY PageFacts
<1>7. Laid[m] = Laid[m - 1] + NumPages(AllTypes[m]) /\ Laid[m - 1] \in Nat
  BY PageFacts
<1>8. m - 1 = n /\ n - 1 = NumTypes - 2
  BY <1>1, <1>4, <1>5
<1>9. Laid[n] = Laid[NumTypes - 2] + 1 /\ Laid[m] = Laid[n] + 1
      /\ Laid[NumTypes - 2] \in Nat
  BY <1>1, <1>3, <1>4, <1>5, <1>6, <1>7, <1>8
<1> QED
  BY <1>1, <1>3, <1>4, <1>5, <1>9

(* The sums change only with the contents of the sections. *)
LEMMA LaidStays ==
  ASSUME content' = content
  PROVE  /\ Laid' = Laid
         /\ \A t : Bytes(t)' = Bytes(t) /\ NumPages(t)' = NumPages(t)
<1>1. \A t : Bytes(t)' = Bytes(t)
  BY DEF Bytes
<1>2. \A t : NumPages(t)' = NumPages(t)
  BY <1>1 DEF NumPages
<1>3. Laid' = Laid
  BY <1>2 DEF Laid
<1> QED
  BY <1>1, <1>2, <1>3

(* find_section_info_type finds the section that was laid out. *)
LEMMA InfoFacts ==
  ASSUME LaidInv, NEW j \in 1 .. NumTypes
  PROVE  /\ j <= Done /\ Bytes(AllTypes[j]) > 0 =>
              /\ InfoOf(AllTypes[j]) \in 1 .. Len(section_info)
              /\ section_info[InfoOf(AllTypes[j])] = Listed(j)
              /\ PagesOf(AllTypes[j]) = Listed(j).pages
         /\ Bytes(AllTypes[j]) = 0 => InfoOf(AllTypes[j]) = 0
<1> DEFINE t == AllTypes[j]
           I == {d \in 1 .. Len(section_info) : section_info[d].type = t}
<1>1. InfoOf(t) = IF I # {} THEN Min(I) ELSE 0
  BY DEF InfoOf, SelectInSeq
<1>2. Len(section_info) \in Nat
  BY DEF LaidInv
<1>3. I \subseteq Nat
  BY <1>2
<1>4. Done \in 0 .. NumTypes /\ NumTypes \in Nat
  BY TypesNumber DEF LaidInv, Done
<1>5. ASSUME NEW d \in I PROVE section_info[d] = Listed(j) /\ Bytes(t) > 0
  <2>1. PICK i \in 1 .. Done :
          Bytes(AllTypes[i]) > 0 /\ section_info[d] = Listed(i)
    BY DEF LaidInv, InfosLaid
  <2>2. Listed(i).type = AllTypes[i]
    BY DEF Listed
  <2>3. AllTypes[i] = AllTypes[j] /\ i \in 1 .. NumTypes
    BY <1>4, <2>1, <2>2
  <2>4. i = j
    BY <2>3, TypeFacts
  <2> QED
    BY <2>1, <2>4
<1>6. ASSUME j <= Done, Bytes(t) > 0 PROVE I # {}
  <2>1. j \in 1 .. Done
    BY <1>4, <1>6
  <2>2. PICK d \in 1 .. Len(section_info) : section_info[d] = Listed(j)
    BY <1>6, <2>1 DEF LaidInv, InfosLaid
  <2>3. Listed(j).type = t
    BY DEF Listed
  <2> QED
    BY <2>2, <2>3
<1>7. ASSUME j <= Done, Bytes(t) > 0
      PROVE  /\ InfoOf(t) \in 1 .. Len(section_info)
             /\ section_info[InfoOf(t)] = Listed(j)
             /\ PagesOf(t) = Listed(j).pages
  <2>1. I # {}
    BY <1>6, <1>7
  <2>2. InfoOf(t) \in I
    <3> HIDE DEF I
    <3>1. Min(I) \in I
      BY <1>3, <2>1, MinIn
    <3> QED
      BY <1>1, <2>1, <3>1
  <2> QED
    BY <1>5, <2>2 DEF PagesOf
<1>8. ASSUME Bytes(t) = 0 PROVE InfoOf(t) = 0
  BY <1>1, <1>5, <1>8
<1> QED
  BY <1>7, <1>8

-----------------------------------------------------------------------------
(* The layout.                                                             *)

(* The first m sections have their pages in a block of descriptors.        *)
LaidOutIn(room, m) ==
  /\ Len(room) \in Nat /\ Laid[m] <= Len(room)
  /\ \A i \in 1 .. m : \A q \in 1 .. NumPages(AllTypes[i]) :
       room[Laid[i - 1] + q].type = AllTypes[i]

(* The p-th page of a section that is laid out is where it was put.        *)
LEMMA PthPage ==
  ASSUME content \in [DataTypes -> Lengths], NEW m \in 0 .. NumTypes,
         NEW room, LaidOutIn(room, m), NEW j \in 1 .. m, NEW p \in 1 .. NumPages(AllTypes[j])
  PROVE  PthOfType(room, AllTypes[j], p) = {Laid[j - 1] + p}
<1> DEFINE t == AllTypes[j]
           C(i) == {x \in 1 .. i : room[x].type = t}
<1>1. NumTypes \in Nat /\ j \in 1 .. NumTypes
  BY TypesNumber
<1>2. PICK a, n, s : a = Laid[j - 1] /\ n = NumPages(t) /\ s = Laid[m]
  OBVIOUS
<1>3. a \in Nat /\ n \in Nat /\ p \in 1 .. n /\ s \in Nat /\ a + n <= s
  <2>1. /\ NumPages(t) \in Nat /\ Laid[j - 1] \in Nat
        /\ Laid[j] = Laid[j - 1] + NumPages(t)
    BY <1>1, PageFacts
  <2>2. j \in 0 .. NumTypes /\ j <= m
    BY <1>1
  <2>3. Laid[j] <= Laid[m] /\ Laid[m] \in Nat
    BY <2>2, LaidFacts
  <2> QED
    BY <1>2, <2>1, <2>3
<1>4. s <= Len(room) /\ Len(room) \in Nat
  BY <1>2 DEF LaidOutIn
<1>5. ASSUME NEW x \in 1 .. s PROVE room[x].type = t <=> x \in a + 1 .. a + n
  <2>1. PICK i \in 1 .. m : \E q \in 1 .. NumPages(AllTypes[i]) :
          x = Laid[i - 1] + q
    BY <1>2, LaidFacts
  <2>2. PICK q \in 1 .. NumPages(AllTypes[i]) : x = Laid[i - 1] + q
    BY <2>1
  <2>3. i \in 1 .. NumTypes /\ room[x].type = AllTypes[i]
    BY <1>1, <2>2 DEF LaidOutIn
  <2>4. ASSUME room[x].type = t PROVE x \in a + 1 .. a + n
    <3>1. i = j
      BY <1>1, <2>3, <2>4, TypeFacts
    <3>2. q \in 1 .. n /\ x = a + q
      BY <1>2, <2>2, <3>1
    <3> QED
      BY <1>3, <3>2
  <2>5. ASSUME x \in a + 1 .. a + n PROVE room[x].type = t
    <3>1. x - a \in 1 .. n /\ x = a + (x - a)
      BY <1>3, <2>5
    <3>2. PICK r \in 1 .. n : x = a + r
      BY <3>1
    <3> QED
      BY <1>2, <3>2 DEF LaidOutIn
  <2> QED
    BY <2>4, <2>5
<1> HIDE DEF t
<1>6. ASSUME NEW i \in a + 1 .. a + n PROVE Cardinality(C(i)) = i - a
  <2>1. i \in Int /\ i <= s /\ a + 1 \in Int /\ i \in Nat
    BY <1>3
  <2>2. C(i) = a + 1 .. i
    <3>1. ASSUME NEW x \in 1 .. i PROVE room[x].type = t <=> x \in a + 1 .. i
      BY <1>3, <1>5, <2>1
    <3>2. \A x \in a + 1 .. i : x \in 1 .. i
      BY <1>3
    <3> QED
      BY <3>1, <3>2
  <2>3. Cardinality(a + 1 .. i) = IF a + 1 > i THEN 0 ELSE i - (a + 1) + 1
    BY <2>1, FS_Interval
  <2>4. ~ (a + 1 > i) /\ i - (a + 1) + 1 = i - a
    BY <1>3, <2>1
  <2> HIDE DEF C
  <2> QED
    BY <2>2, <2>3, <2>4
<1>7. ASSUME NEW i \in s + 1 .. Len(room), room[i].type = t
      PROVE  Cardinality(C(i)) >= n + 1
  <2>1. i \in Nat /\ i \in Int /\ 1 \in Int
    BY <1>3
  <2>2. IsFiniteSet(1 .. i)
    BY <2>1, FS_Interval
  <2>3. IsFiniteSet(C(i)) /\ Cardinality(C(i)) \in Nat
    <3>1. C(i) \in SUBSET (1 .. i)
      OBVIOUS
    <3> HIDE DEF C
    <3>2. IsFiniteSet(C(i))
      BY <2>2, <3>1, FS_Subset
    <3> QED
      BY <3>2, FS_CardinalityType
  <2>4. i \in C(i)
    BY <1>3, <1>7, <2>1
  <2>5. a + 1 .. a + n \in SUBSET (C(i) \ {i})
    <3> SUFFICES ASSUME NEW x \in a + 1 .. a + n PROVE x \in C(i) /\ x # i
      OBVIOUS
    <3>1. x \in 1 .. s /\ x \in 1 .. i /\ x # i
      BY <1>3
    <3> QED
      BY <1>5, <3>1
  <2> HIDE DEF C
  <2>6. IsFiniteSet(C(i) \ {i}) /\ Cardinality(C(i) \ {i}) = Cardinality(C(i)) - 1
    BY <2>3, <2>4, FS_RemoveElement
  <2>7. Cardinality(a + 1 .. a + n) <= Cardinality(C(i) \ {i})
    BY <2>5, <2>6, FS_Subset
  <2>8. Cardinality(a + 1 .. a + n) = n
    <3>1. a + 1 \in Int /\ a + n \in Int
      BY <1>3
    <3>2. Cardinality(a + 1 .. a + n) =
            IF a + 1 > a + n THEN 0 ELSE (a + n) - (a + 1) + 1
      BY <3>1, FS_Interval
    <3> QED
      BY <1>3, <3>2
  <2> QED
    BY <1>3, <2>3, <2>6, <2>7, <2>8
<1>8. PthOfType(room, t, p) =
        {i \in 1 .. Len(room) : room[i].type = t /\ Cardinality(C(i)) = p}
  BY DEF PthOfType
<1> HIDE DEF C
<1>9. ASSUME NEW i \in 1 .. Len(room)
      PROVE  room[i].type = t /\ Cardinality(C(i)) = p <=> i = a + p
  <2>1. i \in 1 .. s \/ i \in s + 1 .. Len(room)
    BY <1>3
  <2>2. CASE i \in s + 1 .. Len(room)
    BY <1>3, <1>7, <2>2
  <2>3. CASE i \in 1 .. s
    <3>1. CASE i \in a + 1 .. a + n
      BY <1>3, <1>5, <1>6, <2>3, <3>1
    <3>2. CASE i \notin a + 1 .. a + n
      BY <1>3, <1>5, <2>3, <3>2
    <3> QED
      BY <3>1, <3>2
  <2> QED
    BY <2>1, <2>2, <2>3
<1>10. a + p \in 1 .. Len(room)
  BY <1>3, <1>4
<1>11. PthOfType(room, t, p) = {a + p}
  BY <1>8, <1>9, <1>10
<1> QED
  BY <1>2, <1>11 DEF t

(* section_info_rebuild points a section that is laid out to its pages in  *)
(* the new block.                                                          *)
ListedIn(j, blk) ==
  [type |-> AllTypes[j], size |-> Bytes(AllTypes[j]),
   pages |-> [p \in 1 .. NumPages(AllTypes[j]) |->
                [block |-> blk, at |-> Laid[j - 1] + p]]]

LEMMA RepointedListed ==
  ASSUME content \in [DataTypes -> Lengths], NEW m \in 0 .. NumTypes,
         NEW room, LaidOutIn(room, m), NEW j \in 1 .. m, NEW blk
  PROVE  Repointed(Listed(j), room, blk) = ListedIn(j, blk)
<1> DEFINE t == AllTypes[j]
           n == NumPages(t)
           Own(p) == PthOfType(room, t, p)
           At(p) == IF Own(p) = {} THEN Listed(j).pages[p]
                    ELSE [block |-> blk, at |-> CHOOSE i \in Own(p) : TRUE]
<1>1. ASSUME NEW p \in 1 .. n
      PROVE  At(p) = [block |-> blk, at |-> Laid[j - 1] + p]
  <2>1. Own(p) = {Laid[j - 1] + p}
    BY PthPage
  <2>2. PICK x : x = Laid[j - 1] + p
    OBVIOUS
  <2> HIDE DEF Own
  <2>3. (CHOOSE i \in {x} : TRUE) = x
    OBVIOUS
  <2> QED
    BY <2>1, <2>2, <2>3
<1>2. Listed(j).type = t /\ Listed(j).size = Bytes(t)
      /\ DOMAIN Listed(j).pages = 1 .. n
  BY DEF Listed
<1>3. Repointed(Listed(j), room, blk) =
        [Listed(j) EXCEPT !.pages = [p \in 1 .. n |-> At(p)]]
  BY <1>2 DEF Repointed
<1>4. [p \in 1 .. n |-> At(p)] =
        [p \in 1 .. n |-> [block |-> blk, at |-> Laid[j - 1] + p]]
  <2> HIDE DEF At
  <2> QED
    BY <1>1
<1> HIDE DEF At, Own
<1>5. PICK f : f = [p \in 1 .. n |-> At(p)]
  OBVIOUS
<1>6. [Listed(j) EXCEPT !.pages = f] =
        [type |-> t, size |-> Bytes(t), pages |-> f]
  <2>1. \A a, b, c : [[type |-> a, size |-> b, pages |-> c] EXCEPT !.pages = f]
                       = [type |-> a, size |-> b, pages |-> f]
    OBVIOUS
  <2>2. \E c : Listed(j) = [type |-> t, size |-> Bytes(t), pages |-> c]
    BY DEF Listed
  <2> HIDE DEF t
  <2> QED
    BY <2>1, <2>2
<1> QED
  BY <1>3, <1>4, <1>5, <1>6 DEF ListedIn

LEMMA DescriptorType ==
  ASSUME content \in [DataTypes -> Lengths], NEW t \in Types, NEW i \in Nat
  PROVE  /\ Descriptor(t, i) \in Descriptors
         /\ Descriptor(t, i).type = t /\ Descriptor(t, i).number = i
<1>1. Bytes(t) \in Nat
  BY Pages
<1>2. DataHeader + PageSize[t] \in Nat /\ SystemHeader + Bytes(t) \in Nat
  BY <1>1, Sizes
<1>3. PICK s \in Nat : s = IF t \in DataTypes THEN DataHeader + PageSize[t]
                           ELSE SystemHeader + Bytes(t)
  BY <1>2
<1>4. Descriptor(t, i) =
        [type |-> t, number |-> i, address |-> 0, size |-> s]
  BY <1>3 DEF Descriptor, NoAddress
<1> QED
  BY <1>4 DEF Descriptors

(* The pages of one more section are laid out. *)
LEMMA LayOutStep == LaidInv /\ LayOut => LaidInv'
<1> SUFFICES ASSUME LaidInv, LayOut PROVE LaidInv'
  OBVIOUS
<1>1. /\ program' = program /\ content' = content /\ phase' = phase
      /\ phase = "layout" /\ next' = next + 1 /\ k' = k
      /\ next <= NumTypes /\ Bytes(AllTypes[next]) > 0
  BY DEF LayOut, NumTypes
<1>2. /\ NumTypes \in Nat /\ next \in 1 .. NumTypes /\ Done = next - 1
      /\ Done' = next /\ next - 1 \in 0 .. NumTypes /\ k \in Nat \ {0}
      /\ block \in Nat \ {0} /\ si = Laid[next - 1]
      /\ content \in [DataTypes -> Lengths]
  BY <1>1, TypesNumber DEF LaidInv, Done
<1>3. Laid' = Laid /\ \A t : Bytes(t)' = Bytes(t) /\ NumPages(t)' = NumPages(t)
  BY <1>1, LaidStays
<1> DEFINE t == AllTypes[next]
           n == NumPages(t)
<1>4. /\ t \in Types /\ n \in Nat /\ n > 0 /\ si \in Nat
      /\ Laid[next] = si + n /\ Bytes(t) \in Nat
  BY <1>1, <1>2, PageFacts, TypeFacts
<1>5. /\ section \in Seq(Descriptors) /\ section_info \in Seq(InfoType)
      /\ si <= Len(section) /\ Len(section) \in Nat
      /\ Len(section_info) \in Nat
  BY DEF LaidInv
<1>6. PICK moved \in BOOLEAN, garbage \in Types :
       LET grows == si + n > Len(section)
           room == [i \in 1 .. IF grows THEN si + n ELSE Len(section) |->
                      IF i <= Len(section) THEN section[i]
                      ELSE Descriptor(garbage, 0)]
           listed == Append(section_info,
                            [type |-> t, size |-> Bytes(t),
                             pages |-> [p \in 1 .. n |-> NullPointer]])
           blk == IF grows /\ moved THEN block + 1 ELSE block
           rebuilt == IF blk # block
                      THEN SectionInfoRebuild(listed, room, blk) ELSE listed
       IN  /\ section' = [i \in 1 .. Len(room) |->
                            IF i > si /\ i <= si + n THEN Descriptor(t, i)
                            ELSE room[i]]
           /\ block' = blk
           /\ section_info' = [rebuilt EXCEPT ![Len(rebuilt)].pages =
                                 [p \in 1 .. n |-> [block |-> blk,
                                                    at |-> si + p]]]
           /\ si' = si + n
  <2>1. \A moved \in BOOLEAN :
          (IF moved THEN Types ELSE {"map"}) \subseteq Types
    BY DEF Types
  <2> QED
    BY <2>1, Zenon DEF LayOut
<1> DEFINE grows == si + n > Len(section)
           L == IF grows THEN si + n ELSE Len(section)
           room == [i \in 1 .. L |->
                      IF i <= Len(section) THEN section[i]
                      ELSE Descriptor(garbage, 0)]
           fresh == [type |-> t, size |-> Bytes(t),
                     pages |-> [p \in 1 .. n |-> NullPointer]]
           listed == Append(section_info, fresh)
           blk == IF grows /\ moved THEN block + 1 ELSE block
           rebuilt == IF blk # block
                      THEN SectionInfoRebuild(listed, room, blk) ELSE listed
           own == [p \in 1 .. n |-> [block |-> blk, at |-> si + p]]
<1>7. /\ section' = [i \in 1 .. Len(room) |->
                       IF i > si /\ i <= si + n THEN Descriptor(t, i)
                       ELSE room[i]]
      /\ block' = blk /\ si' = si + n
      /\ section_info' = [rebuilt EXCEPT ![Len(rebuilt)].pages = own]
  BY <1>6
<1> DEFINE D == Len(section_info)
<1>8. /\ L \in Nat /\ L >= si + n /\ L >= Len(section)
      /\ Len(room) = L /\ DOMAIN room = 1 .. L
  BY <1>4, <1>5
<1>9. \A i \in 1 .. Len(section) : room[i] = section[i]
  BY <1>5, <1>8
<1>10. \A i \in 1 .. L : room[i] \in Descriptors
  <2> TAKE i \in 1 .. L
  <2>1. CASE i <= Len(section)
    BY <1>5, <2>1
  <2>2. CASE ~ (i <= Len(section))
    BY <1>2, <1>8, <2>2, DescriptorType
  <2> QED
    BY <2>1, <2>2
<1> HIDE DEF room
<1>11. /\ DOMAIN section' = 1 .. L /\ Len(section') = L
       /\ section' \in Seq(Descriptors)
       /\ \A i \in 1 .. si : section'[i] = section[i]
       /\ \A i \in si + 1 .. si + n : section'[i] = Descriptor(t, i)
  <2>1. section' = [i \in 1 .. L |-> IF i > si /\ i <= si + n
                                     THEN Descriptor(t, i) ELSE room[i]]
    BY <1>7, <1>8
  <2>2. \A i \in 1 .. L : section'[i] \in Descriptors
    <3> TAKE i \in 1 .. L
    <3>1. CASE i > si /\ i <= si + n
      BY <1>2, <1>4, <1>8, <2>1, <3>1, DescriptorType
    <3>2. CASE ~ (i > si /\ i <= si + n)
      BY <1>10, <2>1, <3>2
    <3> QED
      BY <3>1, <3>2
  <2>3. section' = [i \in 1 .. L |-> section'[i]]
    BY <2>1
  <2>4. section' \in Seq(Descriptors) /\ Len(section') = L
        /\ DOMAIN section' = 1 .. L
    BY <1>8, <2>2, <2>3
  <2>5. ASSUME NEW i \in 1 .. si PROVE section'[i] = section[i]
    <3>1. i \in 1 .. L /\ i \in 1 .. Len(section) /\ ~ (i > si)
      BY <1>4, <1>5, <1>8
    <3> QED
      BY <1>9, <2>1, <3>1
  <2>6. ASSUME NEW i \in si + 1 .. si + n PROVE section'[i] = Descriptor(t, i)
    <3>1. i \in 1 .. L /\ i > si /\ i <= si + n
      BY <1>4, <1>8
    <3> QED
      BY <2>1, <3>1
  <2> QED
    BY <2>4, <2>5, <2>6
<1>12. \A j \in 1 .. NumTypes : Listed(j)' = ListedIn(j, blk)
  BY <1>3, <1>7 DEF Listed, ListedIn
<1>13. ASSUME NEW d \in 1 .. D
       PROVE  \E j \in 1 .. next - 1 :
                /\ Bytes(AllTypes[j]) > 0 /\ section_info[d] = Listed(j)
                /\ rebuilt[d] = ListedIn(j, blk)
  <2>1. PICK j \in 1 .. next - 1 :
          Bytes(AllTypes[j]) > 0 /\ section_info[d] = Listed(j)
    BY <1>2 DEF LaidInv, InfosLaid
  <2>2. listed[d] = Listed(j) /\ d \in 1 .. Len(listed)
    BY <1>5, <2>1
  <2>3. CASE blk = block
    BY <2>1, <2>2, <2>3 DEF Listed, ListedIn
  <2>4. CASE blk # block
    <3>1. rebuilt[d] = Repointed(Listed(j), room, blk)
      BY <2>2, <2>4 DEF SectionInfoRebuild
    <3>2. \A i \in 1 .. next - 1 : \A q \in 1 .. NumPages(AllTypes[i]) :
            room[Laid[i - 1] + q].type = AllTypes[i]
      <4> SUFFICES ASSUME NEW i \in 1 .. next - 1,
                          NEW q \in 1 .. NumPages(AllTypes[i])
                   PROVE  room[Laid[i - 1] + q].type = AllTypes[i]
        OBVIOUS
      <4>1. section[Laid[i - 1] + q].type = AllTypes[i]
        BY <1>2 DEF LaidInv, PagesLaid
      <4>2. i \in 1 .. NumTypes /\ i \in 0 .. NumTypes /\ i <= next - 1
        BY <1>2
      <4>3. /\ Laid[i - 1] \in Nat /\ NumPages(AllTypes[i]) \in Nat
            /\ Laid[i] = Laid[i - 1] + NumPages(AllTypes[i])
        BY <1>2, <4>2, PageFacts
      <4>4. Laid[i] <= si
        BY <1>2, <4>2, LaidFacts
      <4>5. Laid[i - 1] + q \in 1 .. Len(section)
        BY <1>4, <1>5, <4>3, <4>4
      <4> QED
        BY <1>9, <4>1, <4>5
    <3>3. Laid[next - 1] <= Len(room) /\ Len(room) \in Nat
      BY <1>2, <1>4, <1>8
    <3> HIDE DEF blk, rebuilt, listed
    <3>5. LaidOutIn(room, next - 1)
      BY <3>2, <3>3 DEF LaidOutIn
    <3>4. Repointed(Listed(j), room, blk) = ListedIn(j, blk)
      BY <1>2, <3>5, RepointedListed
    <3> QED
      BY <2>1, <3>1, <3>4
  <2> QED
    BY <2>3, <2>4
<1>14. /\ Len(rebuilt) = D + 1 /\ DOMAIN rebuilt = 1 .. D + 1
       /\ \E pages : rebuilt[D + 1] =
                       [type |-> t, size |-> Bytes(t), pages |-> pages]
  <2>1. Len(listed) = D + 1 /\ DOMAIN listed = 1 .. D + 1
        /\ listed[D + 1] = fresh
    BY <1>5
  <2>2. CASE blk = block
    BY <2>1, <2>2
  <2>3. CASE blk # block
    <3>1. rebuilt = [d \in 1 .. D + 1 |-> Repointed(listed[d], room, blk)]
      BY <2>1, <2>3 DEF SectionInfoRebuild
    <3>2. rebuilt[D + 1] = Repointed(fresh, room, blk)
      <4> HIDE DEF rebuilt, listed, fresh, blk
      <4>1. D + 1 \in 1 .. D + 1
        BY <1>5
      <4> QED
        BY <2>1, <3>1, <4>1
    <3>3. \E pages : Repointed(fresh, room, blk) = [fresh EXCEPT !.pages = pages]
      BY DEF Repointed
    <3>4. Len(rebuilt) = D + 1 /\ DOMAIN rebuilt = 1 .. D + 1
      BY <1>5, <3>1
    <3> HIDE DEF rebuilt, listed, blk
    <3> QED
      BY <3>2, <3>3, <3>4
  <2> QED
    BY <2>2, <2>3
<1> HIDE DEF rebuilt, listed
<1>15. ListedIn(next, blk) = [type |-> t, size |-> Bytes(t), pages |-> own]
  BY <1>2 DEF ListedIn
<1>16. /\ Len(section_info') = D + 1 /\ DOMAIN section_info' = 1 .. D + 1
       /\ \A d \in 1 .. D : section_info'[d] = rebuilt[d]
       /\ section_info'[D + 1] = ListedIn(next, blk)
  <2> HIDE DEF own, fresh, t, n, blk
  <2>1. section_info' = [rebuilt EXCEPT ![D + 1].pages = own]
    BY <1>7, <1>14
  <2>2. PICK pages : rebuilt[D + 1] =
                       [type |-> t, size |-> Bytes(t), pages |-> pages]
    BY <1>14
  <2>3. Len(section_info') = D + 1 /\ DOMAIN section_info' = 1 .. D + 1
        /\ \A d \in 1 .. D : section_info'[d] = rebuilt[d]
    BY <1>5, <1>14, <2>1
  <2>4. section_info'[D + 1] = [rebuilt[D + 1] EXCEPT !.pages = own]
    BY <1>5, <1>14, <2>1
  <2>5. section_info'[D + 1] = [type |-> t, size |-> Bytes(t), pages |-> own]
    BY <2>2, <2>4
  <2> QED
    BY <1>15, <2>3, <2>5
<1> HIDE DEF t, n, fresh, own, L, grows, D
<1>17. InfosLaid'
  <2>1. ASSUME NEW d \in 1 .. Len(section_info')
        PROVE  \E j \in 1 .. next :
                 Bytes(AllTypes[j]) > 0 /\ section_info'[d] = ListedIn(j, blk)
    <3>1. D \in Nat
      BY <1>5 DEF D
    <3>2. d \in 1 .. D \/ d = D + 1
      BY <1>16, <3>1
    <3>3. CASE d \in 1 .. D
      <4>1. PICK j \in 1 .. next - 1 :
              Bytes(AllTypes[j]) > 0 /\ rebuilt[d] = ListedIn(j, blk)
        BY <1>13, <3>3
      <4> QED
        BY <1>2, <1>16, <3>3, <4>1
    <3>4. CASE d = D + 1
      BY <1>1, <1>2, <1>16, <3>4
    <3> QED
      BY <3>2, <3>3, <3>4
  <2>2. ASSUME NEW j \in 1 .. next, Bytes(AllTypes[j]) > 0
        PROVE  \E d \in 1 .. Len(section_info') :
                 section_info'[d] = ListedIn(j, blk)
    <3>1. D \in Nat
      BY <1>5 DEF D
    <3>2. CASE j = next
      BY <1>16, <3>1, <3>2
    <3>3. CASE j # next
      <4>1. j \in 1 .. next - 1 /\ j \in 1 .. NumTypes
        BY <1>2, <3>3
      <4>2. PICK d \in 1 .. D : section_info[d] = Listed(j)
        BY <1>2, <2>2, <4>1 DEF LaidInv, InfosLaid, D
      <4>3. PICK i \in 1 .. next - 1 :
              section_info[d] = Listed(i) /\ rebuilt[d] = ListedIn(i, blk)
        BY <1>13
      <4>4. Listed(i).type = AllTypes[i] /\ Listed(j).type = AllTypes[j]
        BY DEF Listed
      <4>5. i \in 1 .. NumTypes /\ AllTypes[i] = AllTypes[j]
        BY <1>2, <4>2, <4>3, <4>4
      <4>6. i = j
        BY <4>1, <4>5, TypeFacts
      <4> QED
        BY <1>16, <3>1, <4>3, <4>6
    <3> QED
      BY <3>2, <3>3
  <2>3. \A j \in 1 .. next : Listed(j)' = ListedIn(j, blk)
    BY <1>2, <1>12
  <2> QED
    BY <1>2, <1>3, <2>1, <2>2, <2>3 DEF InfosLaid, AllTypes
<1>18. PagesLaid'
  <2>1. ASSUME NEW j \in 1 .. next, NEW p \in 1 .. NumPages(AllTypes[j])
        PROVE  section'[Laid[j - 1] + p].type = AllTypes[j]
    <3>1. CASE j = next
      <4>1. Laid[j - 1] + p \in si + 1 .. si + n
        BY <1>2, <1>4, <3>1 DEF n, t
      <4>2. section'[Laid[j - 1] + p] = Descriptor(t, Laid[j - 1] + p)
        BY <1>11, <4>1
      <4>3. Laid[j - 1] + p \in Nat
        BY <1>4, <4>1
      <4>4. Descriptor(t, Laid[j - 1] + p).type = t
        BY <1>2, <1>4, <4>3, DescriptorType
      <4> QED
        BY <3>1, <4>2, <4>4 DEF t
    <3>2. CASE j # next
      <4>1. j \in 1 .. next - 1 /\ j \in 1 .. NumTypes /\ j <= next - 1
            /\ j \in 0 .. NumTypes
        BY <1>2, <3>2
      <4>2. /\ Laid[j - 1] \in Nat /\ NumPages(AllTypes[j]) \in Nat
            /\ Laid[j] = Laid[j - 1] + NumPages(AllTypes[j])
        BY <1>2, <4>1, PageFacts
      <4>3. Laid[j] <= si
        BY <1>2, <4>1, LaidFacts
      <4>4. Laid[j - 1] + p \in 1 .. si
        BY <1>4, <4>2, <4>3
      <4>5. section[Laid[j - 1] + p].type = AllTypes[j]
        BY <1>2, <4>1 DEF LaidInv, PagesLaid
      <4> QED
        BY <1>11, <4>4, <4>5
    <3> QED
      BY <3>1, <3>2
  <2>2. ASSUME NEW i \in 1 .. si + n PROVE section'[i].number = i
    <3>1. CASE i \in 1 .. si
      BY <1>1, <1>11, <3>1 DEF LaidInv, PagesLaid, Number
    <3>2. CASE i \notin 1 .. si
      <4>1. i \in si + 1 .. si + n /\ i \in Nat
        BY <1>4, <3>2
      <4>2. Descriptor(t, i).number = i
        BY <1>2, <1>4, <4>1, DescriptorType
      <4> QED
        BY <1>11, <4>1, <4>2
    <3> QED
      BY <3>1, <3>2
  <2>3. \A i : Number(i)' = i
    BY <1>1 DEF Number
  <2> QED
    BY <1>2, <1>3, <1>7, <2>1, <2>2, <2>3 DEF PagesLaid, AllTypes
<1>19. section_info' \in Seq(InfoType)
  <2>1. ASSUME NEW d \in 1 .. D + 1 PROVE section_info'[d] \in InfoType
    <3>1. PICK j \in 1 .. NumTypes : section_info'[d] = ListedIn(j, blk)
      <4>1. D \in Nat
        BY <1>5 DEF D
      <4>2. CASE d \in 1 .. D
        BY <1>2, <1>13, <1>16, <4>2
      <4>3. CASE d = D + 1
        BY <1>2, <1>16, <4>3
      <4> QED
        BY <4>1, <4>2, <4>3
    <3>2. /\ AllTypes[j] \in Types /\ Bytes(AllTypes[j]) \in Nat
          /\ NumPages(AllTypes[j]) \in Nat /\ Laid[j - 1] \in Nat
      BY <1>2, PageFacts, TypeFacts
    <3>3. blk \in Nat
      BY <1>2
    <3>4. [p \in 1 .. NumPages(AllTypes[j]) |->
             [block |-> blk, at |-> Laid[j - 1] + p]]
            \in Seq([block : Nat, at : Nat])
      <4>1. PICK m \in Nat, a \in Nat, b \in Nat :
              m = NumPages(AllTypes[j]) /\ a = Laid[j - 1] /\ b = blk
        BY <3>2, <3>3
      <4>2. [p \in 1 .. m |-> [block |-> b, at |-> a + p]]
              \in Seq([block : Nat, at : Nat])
        OBVIOUS
      <4> HIDE DEF blk
      <4> QED
        BY <4>1, <4>2
    <3> QED
      BY <3>1, <3>2, <3>4 DEF ListedIn, InfoType
  <2>2. D \in Nat
    BY <1>5 DEF D
  <2>3. section_info' = [d \in 1 .. D + 1 |-> section_info'[d]]
    BY <1>16, <1>7
  <2> QED
    BY <2>1, <2>2, <2>3
<1> QED
  <2>1. /\ block' \in Nat \ {0} /\ si' = Laid[next] /\ si' <= Len(section')
        /\ next' \in 1 .. NumTypes' + 1
    <3>1. block' \in Nat \ {0}
      BY <1>2, <1>7
    <3>2. si' = Laid[next]
      BY <1>4, <1>7 DEF n, t
    <3>3. si' <= Len(section')
      BY <1>7, <1>8, <1>11 DEF n, t
    <3>4. next' \in 1 .. NumTypes + 1
      BY <1>1, <1>2
    <3> QED
      BY <3>1, <3>2, <3>3, <3>4 DEF NumTypes, AllTypes
  <2> QED
    BY <1>1, <1>2, <1>3, <1>11, <1>17, <1>18, <1>19, <2>1 DEF LaidInv

(* The other steps keep what is laid out. *)
LEMMA KeepsLaid ==
  ASSUME LaidInv, content' = content, program' = program, block' = block,
         si' = si, section_info' = section_info,
         phase # "layout", phase' # "layout", phase' \in Phases,
         next' \in 1 .. NumTypes + 1, k' \in Nat \ {0},
         section' \in Seq(Descriptors), Len(section') = Len(section),
         \A i \in 1 .. si : /\ section'[i].type = section[i].type
                            /\ section'[i].number = section[i].number
  PROVE  LaidInv'
<1>1. Laid' = Laid /\ \A t : Bytes(t)' = Bytes(t) /\ NumPages(t)' = NumPages(t)
  BY LaidStays
<1>2. /\ Done = NumTypes /\ Done' = NumTypes /\ NumTypes' = NumTypes
      /\ si = Laid[NumTypes] /\ AllTypes' = AllTypes
  BY DEF LaidInv, Done, NumTypes, AllTypes
<1>3. \A j \in 1 .. NumTypes : Listed(j)' = Listed(j)
  BY <1>1, <1>2 DEF Listed
<1>4. InfosLaid'
  BY <1>1, <1>2, <1>3 DEF LaidInv, InfosLaid
<1>5. PagesLaid'
  <2>1. ASSUME NEW j \in 1 .. NumTypes, NEW p \in 1 .. NumPages(AllTypes[j])
        PROVE  section'[Laid[j - 1] + p].type = AllTypes[j]
    <3>1. content \in [DataTypes -> Lengths]
      BY DEF LaidInv
    <3>2. Laid[j - 1] + p \in 1 .. si
      BY <1>2, <3>1, PageFacts
    <3> QED
      BY <1>2, <3>2 DEF LaidInv, PagesLaid
  <2>2. \A i : Number(i)' = Number(i)
    BY DEF Number
  <2> QED
    BY <1>1, <1>2, <2>1, <2>2 DEF LaidInv, PagesLaid
<1> QED
  BY <1>1, <1>2, <1>4, <1>5 DEF LaidInv

LEMMA SkipEmptyStep == LaidInv /\ SkipEmpty => LaidInv'
<1> SUFFICES ASSUME LaidInv, SkipEmpty PROVE LaidInv'
  OBVIOUS
<1>1. /\ program' = program /\ content' = content /\ phase' = phase
      /\ phase = "layout" /\ next' = next + 1 /\ k' = k /\ section' = section
      /\ block' = block /\ si' = si /\ section_info' = section_info
      /\ next <= NumTypes /\ Bytes(AllTypes[next]) = 0
  BY DEF SkipEmpty, NumTypes, layout
<1>2. Laid' = Laid /\ \A t : Bytes(t)' = Bytes(t) /\ NumPages(t)' = NumPages(t)
  BY <1>1, LaidStays
<1>3. /\ NumTypes \in Nat /\ next \in 1 .. NumTypes /\ Done = next - 1
      /\ Done' = next /\ next - 1 \in 0 .. NumTypes
      /\ si = Laid[next - 1] /\ content \in [DataTypes -> Lengths]
      /\ NumTypes' = NumTypes /\ AllTypes' = AllTypes
  BY <1>1, TypesNumber DEF LaidInv, Done, NumTypes, AllTypes
<1>4. Laid[next] = si /\ NumPages(AllTypes[next]) = 0
  BY <1>1, <1>3, PageFacts
<1>5. \A j : Listed(j)' = Listed(j)
  BY <1>1, <1>2, <1>3 DEF Listed
<1>6. \A j \in 1 .. next : j \in 1 .. next - 1 \/ j = next
  BY <1>3
<1>7. InfosLaid'
  <2>1. ASSUME NEW d \in 1 .. Len(section_info)
        PROVE  \E j \in 1 .. next :
                 Bytes(AllTypes[j]) > 0 /\ section_info[d] = Listed(j)
    <3>1. PICK j \in 1 .. next - 1 :
            Bytes(AllTypes[j]) > 0 /\ section_info[d] = Listed(j)
      BY <1>3 DEF LaidInv, InfosLaid
    <3>2. j \in 1 .. next
      BY <1>3
    <3> QED
      BY <3>1, <3>2
  <2>2. ASSUME NEW j \in 1 .. next, Bytes(AllTypes[j]) > 0
        PROVE  \E d \in 1 .. Len(section_info) : section_info[d] = Listed(j)
    <3>1. j \in 1 .. next - 1
      BY <1>1, <1>6, <2>2
    <3> QED
      BY <1>3, <2>2, <3>1 DEF LaidInv, InfosLaid
  <2> QED
    BY <1>1, <1>2, <1>3, <1>5, <2>1, <2>2 DEF InfosLaid
<1>8. PagesLaid'
  <2>1. \A i : Number(i)' = Number(i)
    BY <1>1 DEF Number
  <2> QED
    BY <1>1, <1>2, <1>3, <1>4, <1>6, <2>1 DEF LaidInv, PagesLaid
<1> QED
  BY <1>1, <1>2, <1>3, <1>4, <1>7, <1>8 DEF LaidInv

(* The two system pages get their numbers. *)
LEMMA EndLayoutStep ==
  LaidInv /\ EndLayout => LaidInv' /\ si' = si /\ si = Laid[NumTypes] /\ si >= 2
<1> SUFFICES ASSUME LaidInv, EndLayout
             PROVE  LaidInv' /\ si' = si /\ si = Laid[NumTypes] /\ si >= 2
  OBVIOUS
<1>1. /\ program' = program /\ content' = content /\ phase' = "pages"
      /\ phase = "layout" /\ next' = 1 /\ k' = 1 /\ next > NumTypes
      /\ block' = block /\ si' = si /\ section_info' = section_info
      /\ section' = [section EXCEPT ![si - 1].number = si + 1,
                                    ![si].number = si + 2]
  BY DEF EndLayout, NumTypes
<1>2. Laid' = Laid /\ \A t : Bytes(t)' = Bytes(t) /\ NumPages(t)' = NumPages(t)
  BY <1>1, LaidStays
<1>3. /\ NumTypes \in Nat /\ next = NumTypes + 1 /\ Done = NumTypes
      /\ Done' = NumTypes /\ NumTypes' = NumTypes /\ AllTypes' = AllTypes
      /\ si = Laid[NumTypes] /\ content \in [DataTypes -> Lengths]
  BY <1>1, TypesNumber DEF LaidInv, Done, NumTypes, AllTypes
<1>4. si \in Nat /\ si >= 2
  BY <1>3, SystemPages
<1>5. /\ section \in Seq(Descriptors) /\ si <= Len(section)
      /\ Len(section) \in Nat /\ DOMAIN section = 1 .. Len(section)
  BY DEF LaidInv
<1>6. /\ si - 1 \in 1 .. Len(section) /\ si \in 1 .. Len(section)
      /\ si - 1 # si
  BY <1>4, <1>5
<1>7. \A s \in Descriptors, m \in Nat :
        /\ [s EXCEPT !.number = m] \in Descriptors
        /\ [s EXCEPT !.number = m].type = s.type
        /\ [s EXCEPT !.number = m].number = m
  BY DEF Descriptors
<1>8. /\ Len(section') = Len(section) /\ DOMAIN section' = 1 .. Len(section)
      /\ \A i \in 1 .. Len(section) :
           section'[i] = IF i = si - 1
                         THEN [section[i] EXCEPT !.number = si + 1]
                         ELSE IF i = si
                         THEN [section[i] EXCEPT !.number = si + 2]
                         ELSE section[i]
  BY <1>1, <1>4, <1>5, <1>6
<1>9. ASSUME NEW i \in 1 .. Len(section)
      PROVE  section'[i] \in Descriptors /\ section'[i].type = section[i].type
  <2>1. PICK s \in Descriptors, m \in Nat, n \in Nat :
          s = section[i] /\ m = si + 1 /\ n = si + 2
    BY <1>4, <1>5
  <2>2. section'[i] \in {[s EXCEPT !.number = m], [s EXCEPT !.number = n], s}
    BY <1>8, <2>1
  <2>3. \A r \in {[s EXCEPT !.number = m], [s EXCEPT !.number = n], s} :
          r \in Descriptors /\ r.type = s.type
    <3>1. [s EXCEPT !.number = m] \in Descriptors
          /\ [s EXCEPT !.number = m].type = s.type
      BY <1>7
    <3>2. [s EXCEPT !.number = n] \in Descriptors
          /\ [s EXCEPT !.number = n].type = s.type
      BY <1>7
    <3> QED
      BY <3>1, <3>2
  <2> QED
    BY <2>1, <2>2, <2>3
<1>10. ASSUME NEW i \in 1 .. si PROVE section'[i].number = Number(i)'
  <2>1. section[i] \in Descriptors /\ section[i].number = i
        /\ i \in 1 .. Len(section)
    BY <1>1, <1>4, <1>5 DEF LaidInv, PagesLaid, Number
  <2>2. Number(i)' = IF i > si - 2 THEN i + 2 ELSE i
    BY <1>1 DEF Number
  <2>6. PICK s \in Descriptors, m \in Nat, n \in Nat :
          s = section[i] /\ m = si + 1 /\ n = si + 2
    BY <1>4, <2>1
  <2>3. CASE i = si - 1
    <3>1. section'[i] = [s EXCEPT !.number = m]
      BY <1>8, <2>1, <2>3, <2>6
    <3> QED
      BY <1>4, <1>7, <2>2, <2>3, <2>6, <3>1
  <2>4. CASE i = si
    <3>1. section'[i] = [s EXCEPT !.number = n]
      BY <1>6, <1>8, <2>1, <2>4, <2>6
    <3> QED
      BY <1>4, <1>7, <2>2, <2>4, <2>6, <3>1
  <2>5. CASE i # si - 1 /\ i # si
    BY <1>4, <1>8, <2>1, <2>2, <2>5
  <2> QED
    BY <2>3, <2>4, <2>5
<1>11. section' \in Seq(Descriptors)
  <2>1. section' = [i \in 1 .. Len(section) |-> section'[i]]
    BY <1>1, <1>5
  <2> QED
    BY <1>5, <1>9, <2>1
<1>12. InfosLaid'
  <2>1. \A j : Listed(j)' = Listed(j)
    BY <1>1, <1>2, <1>3 DEF Listed
  <2> QED
    BY <1>1, <1>2, <1>3, <2>1 DEF LaidInv, InfosLaid
<1>13. PagesLaid'
  <2>1. ASSUME NEW j \in 1 .. NumTypes, NEW p \in 1 .. NumPages(AllTypes[j])
        PROVE  section'[Laid[j - 1] + p].type = AllTypes[j]
    <3>1. Laid[j - 1] + p \in 1 .. si
      BY <1>3, PageFacts
    <3>2. Laid[j - 1] + p \in 1 .. Len(section)
      BY <1>4, <1>5, <3>1
    <3> QED
      BY <1>3, <1>9, <3>2 DEF LaidInv, PagesLaid
  <2> QED
    BY <1>1, <1>2, <1>3, <1>10, <2>1 DEF PagesLaid
<1>14. LaidInv'
  <2>1. next' \in 1 .. NumTypes' + 1 /\ k' \in Nat \ {0} /\ phase' \in Phases
        /\ si' <= Len(section') /\ si' = Laid'[Done']
    BY <1>1, <1>2, <1>3, <1>5, <1>8 DEF Phases
  <2> QED
    BY <1>1, <1>11, <1>12, <1>13, <2>1 DEF LaidInv
<1> QED
  BY <1>1, <1>3, <1>4, <1>14

-----------------------------------------------------------------------------
(* The pages in the file.                                                  *)

(* The record in the file is the page q of the j-th section. *)
Right(p, j, q, at) ==
  /\ p.at = at /\ p.type = AllTypes[j]
  /\ p.kind = IF AllTypes[j] \in DataTypes THEN "data" ELSE AllTypes[j]
  /\ p.first = (q - 1) * PageSize[AllTypes[j]] /\ p.start = p.first
  /\ program = "this" => p.ok

(* One more page behind the others. *)
LEMMA PageWritten ==
  ASSUME LaidInv, FileInv, phase # "layout",
         NEW j \in 1 .. NumTypes, NEW q \in 1 .. NumPages(AllTypes[j]),
         NEW i \in 1 .. si, i = Laid[j - 1] + q, Written = i - 1, Written' = i,
         NEW size \in Nat \ {0}, NEW page, Right(page, j, q, byte),
         section' = [section EXCEPT ![i].address = byte, ![i].size = size],
         file' = file \cup {page}, byte' = byte + size,
         content' = content, program' = program
  PROVE  /\ InOrder' /\ Filed'
         /\ section' \in Seq(Descriptors) /\ Len(section') = Len(section)
         /\ \A x \in 1 .. si : /\ section'[x].type = section[x].type
                               /\ section'[x].number = section[x].number
<1>1. /\ section \in Seq(Descriptors) /\ Len(section) \in Nat
      /\ si <= Len(section) /\ content \in [DataTypes -> Lengths]
      /\ DOMAIN section = 1 .. Len(section) /\ i \in 1 .. Len(section)
      /\ i \in Nat /\ si \in Nat
  <2>1. content \in [DataTypes -> Lengths] /\ si = Laid[NumTypes]
    BY DEF LaidInv, Done
  <2>2. si \in Nat
    BY <2>1, SystemPages
  <2> QED
    BY <2>1, <2>2 DEF LaidInv
<1>2. Laid' = Laid /\ NumTypes' = NumTypes /\ AllTypes' = AllTypes
      /\ \A t : NumPages(t)' = NumPages(t)
  BY LaidStays DEF NumTypes, AllTypes
<1>3. /\ byte = AddressAfter(i - 1)
      /\ \A x \in 1 .. i - 1 :
           /\ section[x].address = AddressAfter(x - 1) /\ section[x].size > 0
           /\ FirstAddress <= section[x].address /\ section[x].address < byte
      /\ \A x, y \in 1 .. i - 1 : x < y =>
           section[x].address < section[y].address
  BY DEF FileInv, InOrder
<1>4. \A x \in 1 .. Len(section) :
        /\ section[x].address \in Nat /\ section[x].size \in Nat
        /\ section[x] \in Descriptors
  <2>1. \A x \in 1 .. Len(section) : section[x] \in Descriptors
    BY <1>1
  <2>2. \A s \in Descriptors : s.address \in Nat /\ s.size \in Nat
    BY DEF Descriptors
  <2> QED
    BY <2>1, <2>2
<1>5. FirstAddress \in Nat
  BY Sizes
<1>6. byte \in Nat /\ byte >= FirstAddress
  <2>1. CASE i = 1
    BY <1>3, <1>5, <2>1 DEF AddressAfter
  <2>2. CASE i # 1
    <3>1. i - 1 \in 1 .. i - 1 /\ i - 1 \in 1 .. Len(section) /\ i - 1 # 0
      BY <1>1, <2>2
    <3>2. byte = section[i - 1].address + section[i - 1].size
      BY <1>3, <3>1 DEF AddressAfter
    <3>3. /\ section[i - 1].address \in Nat /\ section[i - 1].size \in Nat
          /\ FirstAddress <= section[i - 1].address
      BY <1>3, <1>4, <3>1
    <3> QED
      BY <1>5, <3>2, <3>3
  <2> QED
    BY <2>1, <2>2
<1>7. /\ DOMAIN section' = 1 .. Len(section)
      /\ \A x \in 1 .. Len(section) : x # i => section'[x] = section[x]
      /\ section'[i] = [section[i] EXCEPT !.address = byte, !.size = size]
  BY <1>1
<1>8. /\ section'[i].address = byte /\ section'[i].size = size
      /\ section'[i].type = section[i].type
      /\ section'[i].number = section[i].number
      /\ section'[i] \in Descriptors
  <2>1. PICK s \in Descriptors : s = section[i]
    BY <1>1
  <2>2. PICK a \in Nat, b \in Nat : a = byte /\ b = size
    BY <1>6
  <2>3. PICK r : r = [s EXCEPT !.address = a, !.size = b]
    OBVIOUS
  <2>4. /\ r.address = a /\ r.size = b /\ r.type = s.type
        /\ r.number = s.number /\ r \in Descriptors
    BY <2>3 DEF Descriptors
  <2> QED
    BY <1>7, <2>1, <2>2, <2>3, <2>4
<1>9. /\ section' \in Seq(Descriptors) /\ Len(section') = Len(section)
      /\ \A x \in 1 .. si : /\ section'[x].type = section[x].type
                            /\ section'[x].number = section[x].number
  <2>1. \A x \in 1 .. Len(section) : section'[x] \in Descriptors
    BY <1>4, <1>7, <1>8
  <2>2. section' = [x \in 1 .. Len(section) |-> section'[x]]
    BY <1>1, <1>7
  <2>3. \A x \in 1 .. si : x \in 1 .. Len(section)
    BY <1>1
  <2> QED
    <3>1. section' \in Seq(Descriptors) /\ Len(section') = Len(section)
      <4>1. PICK n \in Nat : n = Len(section)
        BY <1>1
      <4>2. section' \in [1 .. n -> Descriptors]
        BY <2>1, <2>2, <4>1
      <4>3. section' \in Seq(Descriptors) /\ Len(section') = n
        BY ONLY <4>2, n \in Nat
      <4> QED
        BY <4>1, <4>3
    <3>2. \A x \in 1 .. si : /\ section'[x].type = section[x].type
                              /\ section'[x].number = section[x].number
      BY <1>7, <1>8, <2>3
    <3> QED
      BY <3>1, <3>2
<1>10. \A x \in 0 .. i - 1 : AddressAfter(x)' = AddressAfter(x)
  <2> TAKE x \in 0 .. i - 1
  <2>1. x # 0 => x \in 1 .. Len(section) /\ x # i
    BY <1>1
  <2> QED
    BY <1>7, <2>1 DEF AddressAfter
<1>11. AddressAfter(i)' = byte'
  BY <1>1, <1>8 DEF AddressAfter
<1>12. \A x \in 1 .. i : x \in 1 .. i - 1 \/ x = i
  BY <1>1
<1>13. InOrder'
  <2>1. byte' = AddressAfter(Written)'
    <3>1. AddressAfter(Written)' = AddressAfter(i)'
      BY DEF AddressAfter
    <3> QED
      BY <1>11, <3>1
  <2>2. ASSUME NEW x \in 1 .. i
        PROVE  /\ section'[x].address = AddressAfter(x - 1)'
               /\ section'[x].size > 0
               /\ FirstAddress <= section'[x].address
               /\ section'[x].address < byte'
    <3>1. x - 1 \in 0 .. i - 1
      BY <1>1
    <3>2. AddressAfter(x - 1)' = AddressAfter(x - 1)
      BY <1>10, <3>1
    <3>3. CASE x = i
      BY <1>3, <1>6, <1>8, <3>2, <3>3
    <3>4. CASE x # i
      <4>1. x \in 1 .. i - 1 /\ x \in 1 .. Len(section)
        BY <1>1, <3>4
      <4>2. section'[x] = section[x]
        BY <1>7, <3>4, <4>1
      <4> QED
        BY <1>3, <1>4, <1>6, <3>2, <4>1, <4>2
    <3> QED
      BY <3>3, <3>4
  <2>3. ASSUME NEW x \in 1 .. i, NEW y \in 1 .. i, x < y
        PROVE  section'[x].address < section'[y].address
    <3>1. x \in 1 .. i - 1 /\ x \in 1 .. Len(section) /\ x # i
      BY <1>1, <2>3
    <3>2. section'[x] = section[x]
      BY <1>7, <3>1
    <3>3. CASE y = i
      BY <1>3, <1>8, <3>1, <3>2, <3>3
    <3>4. CASE y # i
      <4>1. y \in 1 .. i - 1 /\ y \in 1 .. Len(section)
        BY <1>1, <3>4
      <4> QED
        BY <1>3, <1>7, <2>3, <3>1, <3>2, <3>4, <4>1
    <3> QED
      BY <3>3, <3>4
  <2> HIDE DEF AddressAfter
  <2> QED
    BY <2>1, <2>2, <2>3 DEF InOrder
<1>14. ASSUME NEW p \in file'
       PROVE  \E a \in 1 .. NumTypes : \E b \in 1 .. NumPages(AllTypes[a]) :
                /\ Laid[a - 1] + b <= i
                /\ Right(p, a, b, section'[Laid[a - 1] + b].address)
  <2>1. CASE p \in file
    <3>1. PICK a \in 1 .. NumTypes : \E b \in 1 .. NumPages(AllTypes[a]) :
            Laid[a - 1] + b <= i - 1 /\ IsPage(p, a, b)
      BY <2>1 DEF FileInv, Filed
    <3>2. PICK b \in 1 .. NumPages(AllTypes[a]) :
            Laid[a - 1] + b <= i - 1 /\ IsPage(p, a, b)
      BY <3>1
    <3>3. Laid[a - 1] \in Nat /\ NumPages(AllTypes[a]) \in Nat
      BY <1>1, PageFacts
    <3>4. Laid[a - 1] + b \in 1 .. Len(section) /\ Laid[a - 1] + b # i
          /\ Laid[a - 1] + b <= i
      BY <1>1, <3>2, <3>3
    <3>5. section'[Laid[a - 1] + b] = section[Laid[a - 1] + b]
      BY <1>7, <3>4
    <3>6. Right(p, a, b, section'[Laid[a - 1] + b].address)
      BY <3>2, <3>5 DEF Right, IsPage
    <3> QED
      BY <3>4, <3>6
  <2>2. CASE p = page
    <3>1. Right(p, j, q, section'[Laid[j - 1] + q].address)
      BY <1>8, <2>2
    <3>2. Laid[j - 1] + q <= i
      BY <1>1
    <3> QED
      BY <3>1, <3>2
  <2> QED
    BY <2>1, <2>2
<1>15. ASSUME NEW x \in 1 .. i PROVE \E p \in file' : p.at = section'[x].address
  <2>1. CASE x = i
    BY <1>8, <2>1 DEF Right
  <2>2. CASE x # i
    <3>1. x \in 1 .. i - 1 /\ x \in 1 .. Len(section)
      BY <1>1, <2>2
    <3>2. section'[x] = section[x]
      BY <1>7, <2>2, <3>1
    <3> QED
      BY <3>1, <3>2 DEF FileInv, Filed
  <2> QED
    BY <2>1, <2>2
<1>16. Filed'
  <2>1. ASSUME NEW p, NEW a, NEW b,
               Right(p, a, b, section'[Laid[a - 1] + b].address)
        PROVE  IsPage(p, a, b)'
    BY <1>2, <2>1 DEF Right, IsPage
  <2> QED
    BY <1>2, <1>14, <1>15, <2>1 DEF Filed
<1> QED
  BY <1>9, <1>13, <1>16

(* Where the loop over the pages is. *)
LEMMA PageNow ==
  ASSUME LaidInv, FileInv, InPages, InfoOf(Current) # 0
  PROVE  /\ next \in 1 .. NumTypes /\ Current = AllTypes[next]
         /\ k \in 1 .. NumPages(AllTypes[next])
         /\ PagesOf(Current)[k].at = Laid[next - 1] + k
         /\ Laid[next - 1] + k \in 1 .. si /\ Written = Laid[next - 1] + k - 1
         /\ Laid[next - 1] \in Nat
         /\ Laid[next] = Laid[next - 1] + NumPages(AllTypes[next])
         /\ NumPages(AllTypes[next]) \in Nat /\ si \in Nat
         /\ si = Laid[NumTypes]
<1>1. /\ phase = "pages" /\ next \in 1 .. NumTypes /\ k \in Nat \ {0}
      /\ content \in [DataTypes -> Lengths] /\ Done = NumTypes
      /\ si = Laid[NumTypes] /\ Current = AllTypes[next]
  BY TypesNumber DEF LaidInv, InPages, Done, NumTypes, Current
<1>2. /\ NumPages(AllTypes[next]) \in Nat /\ Laid[next - 1] \in Nat
      /\ Laid[next] = Laid[next - 1] + NumPages(AllTypes[next])
      /\ Laid[NumTypes] \in Nat /\ Laid[next] <= Laid[NumTypes]
      /\ Bytes(AllTypes[next]) \in Nat
      /\ Bytes(AllTypes[next]) > 0 <=> NumPages(AllTypes[next]) > 0
  BY <1>1, PageFacts
<1>3. Bytes(AllTypes[next]) > 0
  BY <1>1, <1>2, InfoFacts
<1>4. k \in 1 .. NumPages(AllTypes[next])
  BY <1>1, <1>2, <1>3 DEF FileInv
<1>5. PagesOf(AllTypes[next]) = Listed(next).pages
  BY <1>1, <1>3, TypesNumber, InfoFacts
<1>6. Listed(next).pages[k].at = Laid[next - 1] + k
  BY <1>4 DEF Listed
<1>7. Laid[next - 1] + k \in 1 .. si
  BY <1>1, <1>2, <1>4
<1>8. Written = Laid[next - 1] + k - 1
  BY <1>1 DEF Written
<1> QED
  BY <1>1, <1>2, <1>4, <1>5, <1>6, <1>7, <1>8

(* A page of a section is put into the file. *)
LEMMA PutPageStep ==
  ASSUME LaidInv, FileInv, InPages, InfoOf(Current) # 0, Current # "map",
         NEW size \in Nat \ {0}, NEW page, PutPage(Current, page, size),
         Right(page, next, k, byte), freed' \subseteq 1 .. si - 2,
         program = "this" => freed' = {}
  PROVE  LaidInv' /\ FileInv'
<1>1. PICK i : i = Laid[next - 1] + k
  OBVIOUS
<1>2. /\ next \in 1 .. NumTypes /\ Current = AllTypes[next]
      /\ k \in 1 .. NumPages(AllTypes[next])
      /\ PagesOf(Current)[k].at = i /\ i \in 1 .. si /\ Written = i - 1
      /\ Laid[next - 1] \in Nat
      /\ Laid[next] = Laid[next - 1] + NumPages(AllTypes[next])
      /\ NumPages(AllTypes[next]) \in Nat /\ si \in Nat
  BY <1>1, PageNow
<1>3. /\ phase = "pages" /\ phase' = "pages"
      /\ section' = [section EXCEPT ![i].address = byte, ![i].size = size]
      /\ file' = file \cup {page} /\ byte' = byte + size
      /\ content' = content /\ program' = program /\ block' = block
      /\ si' = si /\ section_info' = section_info /\ NextPage(Current)
  BY <1>2 DEF PutPage, InPages
<1>4. Laid' = Laid /\ NumTypes' = NumTypes /\ AllTypes' = AllTypes
      /\ \A t : NumPages(t)' = NumPages(t)
  BY <1>3, LaidStays DEF NumTypes, AllTypes
<1>5. next < NumTypes /\ NumTypes \in Nat
  <2>1. next # NumTypes
    BY <1>2, LastTypes
  <2> QED
    BY <1>2, <2>1, TypesNumber
<1>6. /\ Written' = i /\ next' \in 1 .. NumTypes /\ k' \in Nat \ {0}
      /\ k' = 1 \/ k' <= NumPages(AllTypes[next'])
  <2>1. Written' = Laid[next' - 1] + k' - 1
    BY <1>3, <1>4 DEF Written
  <2>2. CASE k < NumPages(Current)
    BY <1>1, <1>2, <1>3, <2>1, <2>2 DEF NextPage
  <2>3. CASE ~ (k < NumPages(Current))
    <3>1. k = NumPages(AllTypes[next]) /\ k' = 1 /\ next' = next + 1
          /\ next' - 1 = next
      BY <1>2, <1>3, <2>3 DEF NextPage
    <3>2. Written' = Laid[next] + 1 - 1
      BY <2>1, <3>1
    <3> QED
      BY <1>1, <1>2, <1>5, <3>1, <3>2
  <2> QED
    BY <2>2, <2>3
<1>7. /\ InOrder' /\ Filed'
      /\ section' \in Seq(Descriptors) /\ Len(section') = Len(section)
      /\ \A x \in 1 .. si : /\ section'[x].type = section[x].type
                            /\ section'[x].number = section[x].number
  BY <1>1, <1>2, <1>3, <1>6, PageWritten
<1>8. LaidInv'
  <2>1. /\ phase # "layout" /\ phase' # "layout" /\ phase' \in Phases
        /\ next' \in 1 .. NumTypes + 1
    BY <1>3, <1>5, <1>6 DEF Phases
  <2> QED
    BY <1>3, <1>6, <1>7, <2>1, KeepsLaid
<1>9. FileInv'
  BY <1>2, <1>3, <1>4, <1>6, <1>7 DEF FileInv
<1> QED
  BY <1>8, <1>9

LEMMA SkipUnlistedStep ==
  ASSUME LaidInv, FileInv, SkipUnlisted
  PROVE  LaidInv' /\ FileInv'
<1>1. /\ phase = "pages" /\ phase' = phase /\ next' = next + 1
      /\ next <= NumTypes /\ InfoOf(Current) = 0 /\ k' = k
      /\ section' = section /\ block' = block /\ si' = si
      /\ section_info' = section_info /\ byte' = byte /\ file' = file
      /\ freed' = freed /\ content' = content /\ program' = program
  BY DEF SkipUnlisted, InPages, layout, written, NumTypes
<1>2. /\ NumTypes \in Nat /\ next \in 1 .. NumTypes /\ k \in Nat \ {0}
      /\ content \in [DataTypes -> Lengths] /\ Done = NumTypes
      /\ si = Laid[NumTypes] /\ Current = AllTypes[next]
      /\ section \in Seq(Descriptors)
  BY <1>1, TypesNumber DEF LaidInv, Done, Current
<1>3. /\ NumPages(AllTypes[next]) \in Nat /\ Laid[next - 1] \in Nat
      /\ Laid[next] = Laid[next - 1] + NumPages(AllTypes[next])
      /\ Bytes(AllTypes[next]) \in Nat
      /\ Bytes(AllTypes[next]) > 0 <=> NumPages(AllTypes[next]) > 0
      /\ Bytes(AllTypes[next]) = 0 <=> NumPages(AllTypes[next]) = 0
  BY <1>2, PageFacts
<1>4. Bytes(AllTypes[next]) = 0
  <2> SUFFICES ASSUME Bytes(AllTypes[next]) > 0 PROVE FALSE
    BY <1>3
  <2>1. InfoOf(AllTypes[next]) \in 1 .. Len(section_info)
    BY <1>2, InfoFacts
  <2>2. Len(section_info) \in Nat
    BY DEF LaidInv
  <2> QED
    BY <1>1, <1>2, <2>1, <2>2
<1>5. NumPages(AllTypes[next]) = 0 /\ Laid[next] = Laid[next - 1]
  BY <1>3, <1>4
<1>6. next # NumTypes
  <2>1. NumPages(AllTypes[NumTypes]) = 1
    BY <1>2, SystemPages
  <2> QED
    BY <1>5, <2>1
<1>7. k = 1
  BY <1>1, <1>2, <1>5 DEF FileInv
<1>8. Laid' = Laid /\ NumTypes' = NumTypes /\ AllTypes' = AllTypes
      /\ \A t : NumPages(t)' = NumPages(t)
  BY <1>1, LaidStays DEF NumTypes, AllTypes
<1>9. Written' = Written
  <2>1. Written = Laid[next - 1] + k - 1 /\ Written' = Laid[next' - 1] + k' - 1
    BY <1>1, <1>8 DEF Written
  <2>2. next' - 1 = next
    BY <1>1, <1>2
  <2> QED
    BY <1>1, <1>5, <2>1, <2>2
<1>10. LaidInv'
  <2>1. phase' \in Phases /\ next' \in 1 .. NumTypes + 1 /\ k' \in Nat \ {0}
    BY <1>1, <1>2 DEF Phases
  <2> QED
    BY <1>1, <1>2, <2>1, KeepsLaid
<1>11. InOrder'
  <2>1. \A w : AddressAfter(w)' = AddressAfter(w)
    BY <1>1 DEF AddressAfter
  <2>2. AddressAfter(Written)' = AddressAfter(Written)
    BY <1>1, <1>9 DEF AddressAfter
  <2> QED
    BY <1>1, <1>9, <2>1, <2>2 DEF FileInv, InOrder
<1>12. Filed'
  <2>1. \A p, a, b : IsPage(p, a, b)' = IsPage(p, a, b)
    BY <1>1, <1>8 DEF IsPage
  <2> QED
    BY <1>1, <1>8, <1>9, <2>1 DEF FileInv, Filed
<1>13. FileInv'
  <2>1. next' <= NumTypes /\ k' = 1
    BY <1>1, <1>2, <1>6, <1>7
  <2> QED
    BY <1>1, <1>8, <1>9, <1>11, <1>12, <2>1 DEF FileInv
<1> QED
  BY <1>10, <1>13

(* Nothing is written while the sections are laid out. *)
LEMMA NothingWritten ==
  ASSUME LaidInv, FileInv, phase = "layout"
  PROVE  file = {} /\ byte = FirstAddress /\ freed = {}
<1>1. Written = 0 /\ content \in [DataTypes -> Lengths]
  BY DEF Written, LaidInv
<1>2. ASSUME NEW p \in file PROVE FALSE
  <2>1. PICK j \in 1 .. NumTypes : \E q \in 1 .. NumPages(AllTypes[j]) :
          Laid[j - 1] + q <= 0
    BY <1>1 DEF FileInv, Filed
  <2>2. PICK q \in 1 .. NumPages(AllTypes[j]) : Laid[j - 1] + q <= 0
    BY <2>1
  <2>3. Laid[j - 1] \in Nat /\ NumPages(AllTypes[j]) \in Nat
    BY <1>1, PageFacts
  <2> QED
    BY <2>2, <2>3
<1> QED
  BY <1>1, <1>2 DEF FileInv, InOrder, AddressAfter

LEMMA NoPagesYet ==
  ASSUME Written' = 0, file' = {}, byte' = FirstAddress
  PROVE  InOrder' /\ Filed'
<1>1. InOrder'
  <2>1. AddressAfter(Written)' = FirstAddress
    BY DEF AddressAfter
  <2> QED
    BY <2>1 DEF InOrder
<1> QED
  BY <1>1 DEF Filed

LEMMA LayoutKeeps ==
  ASSUME LaidInv, FileInv, HeaderInv, MapInv, SkipEmpty \/ LayOut
  PROVE  FileInv' /\ HeaderInv' /\ MapInv' /\ LaidInv'
<1>1. /\ phase = "layout" /\ phase' = "layout" /\ content' = content
      /\ file' = file /\ byte' = byte /\ freed' = freed /\ map' = map
      /\ program' = program
  BY DEF SkipEmpty, LayOut, written
<1>2. LaidInv'
  BY SkipEmptyStep, LayOutStep
<1>3. si' \in Nat
  <2>1. Laid' = Laid /\ NumTypes' = NumTypes
    BY <1>1, LaidStays DEF NumTypes, AllTypes
  <2>2. si' = Laid[Done'] /\ Done' = next' - 1 /\ next' \in 1 .. NumTypes + 1
    BY <1>1, <1>2, <2>1 DEF LaidInv, Done
  <2>5. PICK n \in 1 .. NumTypes + 1 : n = next' /\ Done' = n - 1
    BY <2>2
  <2>6. n - 1 \in 0 .. NumTypes
    BY ONLY n \in 1 .. NumTypes + 1, TypesNumber
  <2>3. Done' \in 0 .. NumTypes
    BY <2>5, <2>6
  <2>4. content \in [DataTypes -> Lengths]
    BY DEF LaidInv
  <2> QED
    BY <2>2, <2>3, <2>4, LaidFacts
<1>4. Written' = 0 /\ file' = {} /\ byte' = FirstAddress /\ freed' = {}
  BY <1>1, NothingWritten DEF Written
<1>5. InOrder' /\ Filed'
  BY <1>4, NoPagesYet
<1> QED
  BY <1>1, <1>2, <1>3, <1>4, <1>5 DEF FileInv, HeaderInv, MapInv

LEMMA EndLayoutKeeps ==
  ASSUME LaidInv, FileInv, HeaderInv, MapInv, EndLayout
  PROVE  FileInv' /\ HeaderInv' /\ MapInv' /\ LaidInv'
<1>1. /\ phase = "layout" /\ phase' = "pages" /\ content' = content
      /\ file' = file /\ byte' = byte /\ freed' = freed /\ map' = map
      /\ program' = program /\ next' = 1 /\ k' = 1
      /\ fhdr' = [numsections |-> si, numgaps |-> 0,
                  section_info_id |-> si + 1, section_map_id |-> si + 2,
                  section_array_size |-> si + 2,
                  section_map_address |-> NoAddress,
                  last_section_address |-> NoAddress]
  BY DEF EndLayout
<1>2. LaidInv' /\ si' = si /\ si = Laid[NumTypes] /\ si >= 2
  BY EndLayoutStep
<1>3. si \in Nat /\ Laid[0] = 0
  <2>1. content \in [DataTypes -> Lengths]
    BY DEF LaidInv
  <2> QED
    BY <1>2, <2>1, SystemPages, LaidFacts
<1>4. Laid' = Laid /\ NumTypes' = NumTypes /\ AllTypes' = AllTypes
      /\ \A t : NumPages(t)' = NumPages(t)
  BY <1>1, LaidStays DEF NumTypes, AllTypes
<1>5. file' = {} /\ byte' = FirstAddress /\ freed' = {}
  BY <1>1, NothingWritten
<1>6. Written' = 0
  <2>1. Written' = Laid[1 - 1] + 1 - 1
    BY <1>1, <1>4 DEF Written
  <2> QED
    BY <1>3, <2>1
<1>7. InOrder' /\ Filed'
  BY <1>5, <1>6, NoPagesYet
<1>8. FileInv'
  <2>1. 1 <= NumTypes
    BY TypesNumber
  <2> QED
    BY <1>1, <1>2, <1>3, <1>4, <1>5, <1>6, <1>7, <2>1 DEF FileInv
<1>9. HeaderInv'
  BY <1>1, <1>2, <1>3 DEF HeaderInv, Headers, NoAddress
<1>10. MapInv'
  BY <1>1 DEF MapInv
<1> QED
  BY <1>2, <1>8, <1>9, <1>10

-----------------------------------------------------------------------------
(* The section map.                                                        *)
MapEntries == [number : Int, size : Int]

(* The stream has the data sections. *)
LEMMA StreamTypes ==
  /\ Len(StreamOrder) = NumTypes - 2 /\ Len(StreamOrder) \in Nat
  /\ \A i \in 1 .. Len(StreamOrder) :
       StreamOrder[i] = AllTypes[i] /\ i \in 1 .. NumTypes
<1>1. StreamOrder \in Seq(DataTypes)
  BY SectionPagesConstants
<1>2. StreamOrder \in Seq(Types) /\ <<"info", "map">> \in Seq(Types)
  <2>1. DataTypes \subseteq Types /\ "info" \in Types /\ "map" \in Types
    BY DEF Types
  <2>2. StreamOrder \in Seq(Types)
    BY <1>1, <2>1
  <2>3. <<"info", "map">> \in Seq(Types)
    BY <2>1
  <2> QED
    BY <2>2, <2>3
<1>3. /\ Len(AllTypes) = Len(StreamOrder) + 2 /\ Len(StreamOrder) \in Nat
      /\ \A i \in 1 .. Len(StreamOrder) : AllTypes[i] = StreamOrder[i]
  <2>1. Len(AllTypes) = Len(StreamOrder) + 2 /\ Len(StreamOrder) \in Nat
    BY <1>2 DEF AllTypes
  <2>2. \A i \in 1 .. Len(StreamOrder) : AllTypes[i] = StreamOrder[i]
    BY <1>2 DEF AllTypes
  <2> QED
    BY <2>1, <2>2
<1> QED
  BY <1>3 DEF NumTypes

(* A page is where its section has it. *)
LEMMA PageIs ==
  ASSUME LaidInv, phase # "layout", NEW j \in 1 .. NumTypes,
         NEW p \in 1 .. NumPages(AllTypes[j])
  PROVE  /\ PageOf(AllTypes[j], p) = section[Laid[j - 1] + p]
         /\ Laid[j - 1] + p \in 1 .. si
<1>1. Done = NumTypes /\ content \in [DataTypes -> Lengths]
      /\ si = Laid[NumTypes]
  BY DEF LaidInv, Done
<1>2. /\ NumPages(AllTypes[j]) \in Nat /\ Laid[j - 1] \in Nat
      /\ Laid[j] = Laid[j - 1] + NumPages(AllTypes[j])
      /\ Laid[NumTypes] \in Nat /\ Laid[j] <= Laid[NumTypes]
      /\ Bytes(AllTypes[j]) \in Nat
      /\ Bytes(AllTypes[j]) > 0 <=> NumPages(AllTypes[j]) > 0
  BY <1>1, PageFacts
<1>3. Bytes(AllTypes[j]) > 0
  BY <1>2
<1>4. PagesOf(AllTypes[j]) = Listed(j).pages
  BY <1>1, <1>3, TypesNumber, InfoFacts
<1>5. Listed(j).pages[p].at = Laid[j - 1] + p
  BY DEF Listed
<1>6. PageOf(AllTypes[j], p) = section[Laid[j - 1] + p]
  BY <1>4, <1>5 DEF PageOf
<1> QED
  BY <1>1, <1>2, <1>6

(* The numbers and sizes of the descriptors. *)
LEMMA SectionFacts ==
  ASSUME LaidInv
  PROVE  \A i \in 1 .. si :
           /\ section[i].number = Number(i) /\ i \in 1 .. Len(section)
           /\ section[i].address \in Nat /\ section[i].size \in Nat
           /\ section[i].number \in Nat
<1>1. /\ section \in Seq(Descriptors) /\ Len(section) \in Nat
      /\ si <= Len(section)
  BY DEF LaidInv
<1>2. Done \in 0 .. NumTypes /\ si = Laid[Done]
      /\ content \in [DataTypes -> Lengths]
  BY TypesNumber DEF LaidInv, Done
<1>3. si \in Nat
  BY <1>2, LaidFacts
<1> TAKE i \in 1 .. si
<1>4. i \in 1 .. Len(section)
  BY <1>1, <1>3
<1>5. PICK s \in Descriptors : s = section[i]
  BY <1>1, <1>4
<1>6. s.address \in Nat /\ s.size \in Nat /\ s.number \in Nat
  BY DEF Descriptors
<1> QED
  BY <1>4, <1>5, <1>6 DEF LaidInv, PagesLaid

(* The stream has the pages of the data sections, in their order. *)
LEMMA StreamFacts ==
  ASSUME LaidInv, phase # "layout"
  PROVE  /\ StreamEntries \in Seq(MapEntries) /\ Len(StreamEntries) = si - 2
         /\ si - 2 \in Nat
         /\ \A m \in 1 .. si - 2 : StreamEntries[m] = Entry(m, section[m].size)
<1>1. /\ content \in [DataTypes -> Lengths] /\ si = Laid[NumTypes]
      /\ Done = NumTypes
  BY DEF LaidInv, Done
<1>2. /\ NumTypes \in Nat /\ NumTypes >= 2 /\ si \in Nat /\ si >= 2
      /\ Laid[NumTypes - 2] = si - 2
  BY <1>1, SystemPages
<1>3. \A a \in Int, b \in Int : Entry(a, b) \in MapEntries
  BY DEF Entry, MapEntries
<1> DEFINE L == Len(StreamOrder)
           part(t) == [p \in 1 .. NumPages(t) |->
                         Entry(PageOf(t, p).number, PageOf(t, p).size)]
           seqs == [i \in 1 .. L |->
                      IF InfoOf(StreamOrder[i]) = 0 THEN <<>>
                      ELSE part(StreamOrder[i])]
           o == [j \in 0 .. L |-> Laid[j]]
<1>4. StreamEntries = FlattenSeq(seqs)
  BY DEF StreamEntries, InfosIn
<1>5. L = NumTypes - 2 /\ L \in Nat
  BY StreamTypes
<1>6. ASSUME NEW i \in 1 .. L
      PROVE  /\ seqs[i] \in Seq(MapEntries)
             /\ Len(seqs[i]) = NumPages(AllTypes[i])
             /\ NumPages(AllTypes[i]) \in Nat
             /\ o[i] = o[i - 1] + NumPages(AllTypes[i])
             /\ \A p \in 1 .. NumPages(AllTypes[i]) :
                  seqs[i][p] = Entry(section[Laid[i - 1] + p].number,
                                     section[Laid[i - 1] + p].size)
  <2>1. i \in 1 .. NumTypes /\ StreamOrder[i] = AllTypes[i]
    BY StreamTypes
  <2>2. /\ NumPages(AllTypes[i]) \in Nat
        /\ Laid[i] = Laid[i - 1] + NumPages(AllTypes[i])
        /\ Bytes(AllTypes[i]) \in Nat
        /\ Bytes(AllTypes[i]) > 0 <=> NumPages(AllTypes[i]) > 0
        /\ Bytes(AllTypes[i]) = 0 <=> NumPages(AllTypes[i]) = 0
    BY <1>1, <2>1, PageFacts
  <2>3. o[i] = Laid[i] /\ o[i - 1] = Laid[i - 1]
    BY <1>5
  <2>4. \A p \in 1 .. NumPages(AllTypes[i]) :
          /\ PageOf(AllTypes[i], p) = section[Laid[i - 1] + p]
          /\ Laid[i - 1] + p \in 1 .. si
    BY <2>1, PageIs
  <2>5. CASE Bytes(AllTypes[i]) = 0
    <3>1. InfoOf(AllTypes[i]) = 0
      BY <2>1, <2>5, InfoFacts
    <3>2. seqs[i] = <<>> /\ NumPages(AllTypes[i]) = 0
      BY <2>1, <2>2, <2>5, <3>1
    <3>3. <<>> \in Seq(MapEntries) /\ Len(<<>>) = 0
      OBVIOUS
    <3>4. seqs[i] \in Seq(MapEntries) /\ Len(seqs[i]) = NumPages(AllTypes[i])
      BY ONLY <3>2, <3>3
    <3>5. o[i] = o[i - 1] + NumPages(AllTypes[i])
      BY <2>2, <2>3
    <3>6. \A p \in 1 .. NumPages(AllTypes[i]) : FALSE
      BY ONLY <3>2
    <3> QED
      BY ONLY <2>2, <3>4, <3>5, <3>6
  <2>6. CASE Bytes(AllTypes[i]) # 0
    <3>1. InfoOf(AllTypes[i]) \in 1 .. Len(section_info)
          /\ Len(section_info) \in Nat
      BY <1>1, <2>1, <2>2, <2>6, InfoFacts DEF LaidInv
    <3>2. InfoOf(AllTypes[i]) # 0
      BY <3>1
    <3>3. seqs[i] = part(AllTypes[i])
      BY <2>1, <3>2
    <3>4. PICK n \in Nat : n = NumPages(AllTypes[i])
      BY <2>2
    <3>5. \A p \in 1 .. n :
            part(AllTypes[i])[p] = Entry(section[Laid[i - 1] + p].number,
                                         section[Laid[i - 1] + p].size)
      BY <2>4, <3>4
    <3>6. \A p \in 1 .. n : part(AllTypes[i])[p] \in MapEntries
      <4> TAKE p \in 1 .. n
      <4>1. Laid[i - 1] + p \in 1 .. si
        BY <2>4, <3>4
      <4>2. section[Laid[i - 1] + p].number \in Int
            /\ section[Laid[i - 1] + p].size \in Int
        BY <4>1, SectionFacts
      <4> QED
        BY <1>3, <3>5, <4>2
    <3>7. part(AllTypes[i]) = [p \in 1 .. n |-> part(AllTypes[i])[p]]
      BY <3>4
    <3>8. PICK f : f = part(AllTypes[i])
      OBVIOUS
    <3>9. f \in [1 .. n -> MapEntries]
      BY <3>6, <3>7, <3>8
    <3>10. f \in Seq(MapEntries) /\ Len(f) = n
      BY ONLY <3>9, n \in Nat
    <3>11. seqs[i] \in Seq(MapEntries) /\ Len(seqs[i]) = NumPages(AllTypes[i])
      BY ONLY <3>3, <3>4, <3>8, <3>10
    <3>12. \A p \in 1 .. NumPages(AllTypes[i]) :
             seqs[i][p] = Entry(section[Laid[i - 1] + p].number,
                                section[Laid[i - 1] + p].size)
      BY ONLY <3>3, <3>4, <3>5
    <3>13. o[i] = o[i - 1] + NumPages(AllTypes[i])
      BY <2>2, <2>3
    <3> QED
      BY ONLY <2>2, <3>11, <3>12, <3>13
  <2> QED
    BY <2>5, <2>6
<1>7. Len(seqs) = L /\ DOMAIN seqs = 1 .. L
  BY <1>5
<1>8. seqs \in Seq(Seq(MapEntries))
  <2>1. \A i \in 1 .. L : seqs[i] \in Seq(MapEntries)
    BY <1>6
  <2>2. seqs = [i \in 1 .. L |-> seqs[i]]
    OBVIOUS
  <2>3. PICK n \in Nat : n = L
    BY <1>5
  <2>4. PICK f : f = seqs
    OBVIOUS
  <2>5. f \in [1 .. n -> Seq(MapEntries)]
    BY <2>1, <2>2, <2>3, <2>4
  <2>6. f \in Seq(Seq(MapEntries))
    BY ONLY <2>5, n \in Nat
  <2> QED
    BY <2>4, <2>6
<1>9. Ends(o, seqs)
  <2>1. \A j \in 0 .. L : Laid[j] \in Nat
    BY <1>1, <1>2, <1>5, LaidFacts
  <2>2. o \in [0 .. L -> Nat] /\ o[0] = 0
    BY <1>1, <1>5, <2>1, LaidFacts
  <2>3. \A j \in 1 .. L : o[j] = o[j - 1] + Len(seqs[j])
    BY <1>6
  <2> HIDE DEF o, seqs
  <2> QED
    BY <1>7, <2>2, <2>3 DEF Ends
<1>10. o[L] = si - 2
  BY <1>2, <1>5
<1>11. /\ FlattenSeq(seqs) \in Seq(MapEntries)
       /\ Len(FlattenSeq(seqs)) = si - 2
       /\ \A i \in 1 .. L : \A p \in 1 .. Len(seqs[i]) :
            FlattenSeq(seqs)[o[i - 1] + p] = seqs[i][p]
  <2> HIDE DEF o, seqs
  <2>1. PartsAt(FlattenSeq(seqs), o, seqs) /\ FlattenSeq(seqs) \in Seq(MapEntries)
    BY <1>8, <1>9, FlattenFacts
  <2> QED
    BY <1>7, <1>10, <2>1 DEF PartsAt
<1>12. ASSUME NEW m \in 1 .. si - 2
       PROVE  StreamEntries[m] = Entry(m, section[m].size)
  <2>1. L \in 0 .. NumTypes /\ m \in 1 .. Laid[L]
    BY <1>2, <1>5
  <2>2. PICK i \in 1 .. L : \E p \in 1 .. NumPages(AllTypes[i]) :
          m = Laid[i - 1] + p
    BY <1>1, <2>1, LaidFacts
  <2>3. PICK p \in 1 .. NumPages(AllTypes[i]) : m = Laid[i - 1] + p
    BY <2>2
  <2>4. /\ Len(seqs[i]) = NumPages(AllTypes[i])
        /\ seqs[i][p] = Entry(section[m].number, section[m].size)
    BY <1>6, <2>3
  <2>5. o[i - 1] = Laid[i - 1]
    BY <1>5
  <2>6. FlattenSeq(seqs)[m] = seqs[i][p]
    <3> HIDE DEF o, seqs
    <3> QED
      BY <1>11, <2>3, <2>4, <2>5
  <2>7. section[m].number = m
    BY <1>2, SectionFacts DEF Number
  <2> HIDE DEF seqs
  <2> QED
    BY <1>4, <2>4, <2>6, <2>7
<1> HIDE DEF seqs
<1> QED
  BY <1>2, <1>4, <1>11, <1>12

(* What is appended to a list comes behind it. *)
LEMMA Appended ==
  ASSUME NEW S, NEW s \in Seq(S), NEW e \in S
  PROVE  /\ Append(s, e) \in Seq(S) /\ Len(Append(s, e)) = Len(s) + 1
         /\ \A m \in 1 .. Len(s) : Append(s, e)[m] = s[m]
         /\ Append(s, e)[Len(s) + 1] = e
OBVIOUS

(* The section map another program may write, and this one writes. *)
MapRight(w) ==
  /\ w \in Seq(MapEntries) /\ Len(w) \in si - 2 .. si
  /\ \A m \in 1 .. Len(w) :
       /\ m <= si - 2 => w[m] = Entry(m, section[m].size)
       /\ m = si - 1 => /\ w[m].size = section[si - 1].size
                        /\ \/ w[m].number = si + 1
                           \/ w[m].number = si + 3 /\ Len(w) = si - 1
       /\ m = si => w[m].number = si + 2 /\ w[m].size = MapSize(si)

LEMMA MapsRight ==
  ASSUME LaidInv, FileInv, HeaderInv, phase = "pages"
  PROVE  /\ \A w \in OtherMaps : MapRight(w)
         /\ MapRight(WholeMap) /\ Len(WholeMap) = si
         /\ \A n \in Nat : MapSize(n) \in Nat \ {0}
<1>1. /\ content \in [DataTypes -> Lengths] /\ si = Laid[NumTypes]
      /\ Done = NumTypes
  BY DEF LaidInv, Done
<1>2. /\ NumTypes \in Nat /\ NumTypes >= 2 /\ si \in Nat /\ si >= 2
      /\ Laid[NumTypes - 2] = si - 2 /\ NumPages(AllTypes[NumTypes - 1]) = 1
      /\ AllTypes[NumTypes - 1] = "info"
  BY <1>1, SystemPages
<1>3. \A n \in Nat : MapSize(n) \in Nat \ {0}
  <2>1. \A e \in Nat, n \in Nat : e * n \in Nat
    OBVIOUS
  <2>2. \A n \in Nat : EntrySize * n \in Nat
    BY <2>1, Sizes
  <2> QED
    BY <2>2, Sizes DEF MapSize, StoredSize
<1>4. PICK s : s = StreamEntries
  OBVIOUS
<1>5. /\ s \in Seq(MapEntries) /\ Len(s) = si - 2
      /\ \A m \in 1 .. si - 2 : s[m] = Entry(m, section[m].size)
  BY <1>4, StreamFacts
<1>6. PageOf("info", 1) = section[si - 1]
  <2>1. PICK j \in 1 .. NumTypes : j = NumTypes - 1
    BY <1>2
  <2>2. 1 \in 1 .. NumPages(AllTypes[j]) /\ AllTypes[j] = "info"
        /\ j - 1 = NumTypes - 2
    BY <1>2, <2>1
  <2>3. PageOf(AllTypes[j], 1) = section[Laid[j - 1] + 1]
    BY <2>2, PageIs
  <2> QED
    BY <1>2, <2>2, <2>3
<1>7. section[si - 1].size \in Nat
  <2>1. si - 1 \in 1 .. si
    BY <1>2
  <2> QED
    BY <2>1, SectionFacts
<1>8. \A n \in Int : n > si - 2 => n \notin freed
  BY <1>2 DEF FileInv
<1>9. ASSUME NEW n \in {si + 1, si + 3}
      PROVE  InfoEntry(n) = [number |-> n, size |-> section[si - 1].size]
  BY <1>2, <1>6, <1>8 DEF InfoEntry, Entry
<1>10. ASSUME NEW c \in Int
       PROVE  Entry(si + 2, c) = [number |-> si + 2, size |-> c]
  BY <1>2, <1>8 DEF Entry
<1>11. fhdr.section_info_id = si + 1 /\ fhdr.section_map_id = si + 2
       /\ fhdr.section_info_id + 2 = si + 3
  BY <1>2 DEF HeaderInv
<1>12. MapRight(s)
  <2>1. \A m \in 1 .. Len(s) : m # si - 1 /\ m # si /\ m \in 1 .. si - 2
    BY <1>2, <1>5
  <2>2. Len(s) \in si - 2 .. si
    BY <1>2, <1>5
  <2> QED
    BY <1>5, <2>1, <2>2 DEF MapRight
<1>13. ASSUME NEW n \in {si + 1, si + 3}
       PROVE  /\ MapRight(Append(s, InfoEntry(n)))
              /\ Append(s, InfoEntry(n)) \in Seq(MapEntries)
              /\ Len(Append(s, InfoEntry(n))) = si - 1
  <2>1. PICK e : e = InfoEntry(n)
    OBVIOUS
  <2>2. e.number = n /\ e.size = section[si - 1].size /\ e \in MapEntries
    BY <1>2, <1>7, <1>9, <2>1 DEF MapEntries
  <2>3. PICK w : w = Append(s, e)
    OBVIOUS
  <2>4. /\ w \in Seq(MapEntries) /\ Len(w) = Len(s) + 1
        /\ \A m \in 1 .. Len(s) : w[m] = s[m]
        /\ w[Len(s) + 1] = e
    BY ONLY <1>5, <2>2, <2>3, Appended
  <2>5. /\ Len(w) = si - 1 /\ w[si - 1] = e
        /\ \A m \in 1 .. si - 2 : w[m] = Entry(m, section[m].size)
    BY <1>2, <1>5, <2>4
  <2>6. \A m \in 1 .. Len(w) : m # si /\ (m \in 1 .. si - 2 \/ m = si - 1)
    BY <1>2, <2>5
  <2>7. Len(w) \in si - 2 .. si
    BY <1>2, <2>5
  <2>8. ASSUME NEW m \in 1 .. Len(w)
        PROVE  /\ m <= si - 2 => w[m] = Entry(m, section[m].size)
               /\ m = si - 1 => /\ w[m].size = section[si - 1].size
                                /\ \/ w[m].number = si + 1
                                   \/ w[m].number = si + 3 /\ Len(w) = si - 1
               /\ m # si
    <3>1. CASE m \in 1 .. si - 2
      BY <1>2, <2>5, <3>1
    <3>2. CASE m = si - 1
      BY <1>2, <2>2, <2>5, <3>2
    <3> QED
      BY <2>6, <3>1, <3>2
  <2>9. MapRight(w)
    BY <2>4, <2>7, <2>8 DEF MapRight
  <2> QED
    BY <2>1, <2>3, <2>4, <2>5, <2>9
<1>14. MapRight(WholeMap) /\ Len(WholeMap) = si
  <2>1. PICK b : b = Append(s, InfoEntry(si + 1))
    OBVIOUS
  <2>2. /\ b \in Seq(MapEntries) /\ Len(b) = si - 1 /\ MapRight(b)
    BY <1>13, <2>1
  <2>3. PICK e : e = Entry(si + 2, MapSize(si))
    OBVIOUS
  <2>4. e.number = si + 2 /\ e.size = MapSize(si) /\ e \in MapEntries
    <3>1. PICK c \in Nat : c = MapSize(si)
      BY <1>2, <1>3
    <3>2. e = [number |-> si + 2, size |-> c]
      BY <1>10, <2>3, <3>1
    <3> QED
      BY <1>2, <3>1, <3>2 DEF MapEntries
  <2>5. PICK w : w = Append(b, e)
    OBVIOUS
  <2>6. WholeMap = w
    <3>1. Len(b) + 1 = si
      BY <1>2, <2>2
    <3> QED
      BY <1>4, <1>11, <2>1, <2>3, <2>5, <3>1 DEF WholeMap
  <2>7. /\ w \in Seq(MapEntries) /\ Len(w) = Len(b) + 1
        /\ \A m \in 1 .. Len(b) : w[m] = b[m]
        /\ w[Len(b) + 1] = e
    BY ONLY <2>2, <2>4, <2>5, Appended
  <2>8. /\ Len(w) = si /\ w[si] = e
        /\ \A m \in 1 .. si - 1 : w[m] = b[m]
    BY <1>2, <2>2, <2>7
  <2>9. ASSUME NEW m \in 1 .. Len(w)
        PROVE  /\ m <= si - 2 => w[m] = Entry(m, section[m].size)
               /\ m = si - 1 => /\ w[m].size = section[si - 1].size
                                /\ w[m].number = si + 1
               /\ m = si => w[m].number = si + 2 /\ w[m].size = MapSize(si)
    <3>1. CASE m = si
      BY <1>2, <2>4, <2>8, <3>1
    <3>2. CASE m # si
      <4>1. m \in 1 .. Len(b) /\ w[m] = b[m]
        BY <1>2, <2>2, <2>8, <3>2
      <4>2. m = si - 1 => b[m] = InfoEntry(si + 1)
        BY <1>2, <1>5, <1>9, <2>1, <2>2, <4>1, Appended DEF MapEntries
      <4>3. InfoEntry(si + 1).number = si + 1
            /\ InfoEntry(si + 1).size = section[si - 1].size
        BY <1>9
      <4> QED
        BY <2>2, <3>2, <4>1, <4>2, <4>3 DEF MapRight
    <3> QED
      BY <3>1, <3>2
  <2>10. Len(w) \in si - 2 .. si
    BY <1>2, <2>8
  <2>11. MapRight(w)
    BY <2>7, <2>9, <2>10 DEF MapRight
  <2> QED
    BY <2>6, <2>8, <2>11
<1>15. ASSUME NEW w \in OtherMaps PROVE MapRight(w)
  <2>1. w = WholeMap \/ w = s \/ w = Append(s, InfoEntry(si + 1))
        \/ w = Append(s, InfoEntry(si + 3))
    BY <1>4, <1>11 DEF OtherMaps
  <2> QED
    BY <1>12, <1>13, <1>14, <2>1
<1> QED
  BY <1>3, <1>14, <1>15

(* The section map is written, and the header says where. *)
LEMMA WriteMapStep ==
  ASSUME LaidInv, FileInv, HeaderInv, MapInv, WriteMap
  PROVE  LaidInv' /\ FileInv' /\ HeaderInv' /\ MapInv'
<1>1. /\ phase = "pages" /\ next <= NumTypes /\ Current = "map"
      /\ phase' = "map" /\ k' = 1 /\ program' = program
      /\ content' = content /\ next' = next /\ block' = block /\ si' = si
      /\ section_info' = section_info /\ freed' = freed
      /\ map' \in IF program = "this" THEN {WholeMap} ELSE OtherMaps
      /\ section' = [section EXCEPT ![si].address = byte,
                                    ![si].size = MapSize(Len(map'))]
      /\ file' = file \cup {SystemPage("map")}
      /\ byte' = byte + MapSize(Len(map'))
      /\ fhdr' = [fhdr EXCEPT
                    !.numgaps = Cardinality(freed),
                    !.numsections = si - Cardinality(freed),
                    !.section_map_address = byte - FirstAddress,
                    !.last_section_address =
                       byte + MapSize(Len(map')) - FirstAddress]
  BY DEF WriteMap, InPages, NumTypes
<1>2. /\ content \in [DataTypes -> Lengths] /\ si = Laid[NumTypes]
      /\ Done = NumTypes /\ next \in 1 .. NumTypes /\ Current = AllTypes[next]
  BY <1>1, TypesNumber DEF LaidInv, Done, Current
<1>3. /\ NumTypes \in Nat /\ NumTypes >= 2 /\ si \in Nat /\ si >= 2
      /\ Laid[NumTypes - 1] = si - 1 /\ NumPages(AllTypes[NumTypes]) = 1
      /\ AllTypes[NumTypes] = "map"
  BY <1>2, SystemPages
<1>4. next = NumTypes
  <2>1. NumTypes \in 1 .. NumTypes /\ AllTypes[next] = AllTypes[NumTypes]
    BY <1>1, <1>2, <1>3
  <2> QED
    BY <1>2, <2>1, TypeOnce
<1>5. Bytes(AllTypes[next]) > 0 /\ InfoOf(Current) # 0
  <2>1. Bytes(AllTypes[next]) = 1
    BY <1>1, <1>2, LastTypes DEF Bytes
  <2>2. InfoOf(AllTypes[next]) \in 1 .. Len(section_info)
    BY <1>2, <2>1, InfoFacts
  <2>3. Len(section_info) \in Nat
    BY DEF LaidInv
  <2> QED
    BY <1>2, <2>1, <2>2, <2>3
<1>6. k = 1 /\ Written = si - 1
  <2>1. k \in 1 .. NumPages(AllTypes[next]) /\ Written = Laid[next - 1] + k - 1
    BY <1>1, <1>5, PageNow DEF InPages, NumTypes
  <2> QED
    BY <1>3, <1>4, <2>1
<1>7. MapRight(map') /\ (program = "this" => Len(map') = si)
      /\ \A n \in Nat : MapSize(n) \in Nat \ {0}
  BY <1>1, MapsRight
<1>8. Len(map') \in Nat
  BY <1>7 DEF MapRight
<1>9. PICK size \in Nat \ {0} : size = MapSize(Len(map'))
  BY <1>7, <1>8
<1>10. Written' = si
  BY <1>1 DEF Written
<1>11. Right(SystemPage("map"), NumTypes, 1, byte)
  <2>1. (1 - 1) * PageSize["map"] = 0
    <3>1. "map" \in Types
      BY DEF Types
    <3> QED
      BY <3>1, Sizes
  <2> QED
    BY <1>3, <2>1, LastTypes DEF SystemPage, Right
<1>12. /\ InOrder' /\ Filed'
       /\ section' \in Seq(Descriptors) /\ Len(section') = Len(section)
       /\ \A x \in 1 .. si : /\ section'[x].type = section[x].type
                             /\ section'[x].number = section[x].number
  <2>1. PICK j \in 1 .. NumTypes : j = NumTypes
    BY <1>3
  <2>2. PICK q \in 1 .. NumPages(AllTypes[j]) : q = 1
    BY <1>3, <2>1
  <2>3. PICK i \in 1 .. si : i = si
    BY <1>3
  <2>4. i = Laid[j - 1] + q /\ Written = i - 1 /\ Written' = i
    BY <1>3, <1>6, <1>10, <2>1, <2>2, <2>3
  <2>5. PICK page : page = SystemPage("map")
    OBVIOUS
  <2>6. Right(page, j, q, byte)
    BY <1>11, <2>1, <2>2, <2>5
  <2>7. /\ section' = [section EXCEPT ![i].address = byte, ![i].size = size]
        /\ file' = file \cup {page} /\ byte' = byte + size
    BY <1>1, <1>9, <2>3, <2>5
  <2>8. phase # "layout" /\ content' = content /\ program' = program
    BY <1>1
  <2> QED
    BY <2>4, <2>6, <2>7, <2>8, PageWritten
<1>13. LaidInv'
  <2>1. /\ phase # "layout" /\ phase' # "layout" /\ phase' \in Phases
        /\ next' \in 1 .. NumTypes + 1 /\ k' \in Nat \ {0}
    BY <1>1, <1>2, <1>3 DEF Phases
  <2> QED
    BY <1>1, <1>12, <2>1, KeepsLaid
<1>14. freed \subseteq 1 .. si - 2 /\ (program = "this" => freed = {})
  BY DEF FileInv
<1>15. FileInv'
  BY <1>1, <1>3, <1>10, <1>12, <1>14 DEF FileInv
<1>16. /\ DOMAIN section = 1 .. Len(section) /\ si \in 1 .. Len(section)
       /\ Len(section) \in Nat /\ section[si] \in Descriptors
  BY <1>3 DEF LaidInv
<1>17. /\ section'[si].address = byte /\ section'[si].size = size
       /\ \A x \in 1 .. si - 1 : section'[x] = section[x]
  <2>1. section'[si] = [section[si] EXCEPT !.address = byte, !.size = size]
    BY <1>1, <1>9, <1>16
  <2>2. PICK s \in Descriptors : s = section[si]
    BY <1>16
  <2>3. /\ [s EXCEPT !.address = byte, !.size = size].address = byte
        /\ [s EXCEPT !.address = byte, !.size = size].size = size
    BY DEF Descriptors
  <2>4. \A x \in 1 .. Len(section) : x # si => section'[x] = section[x]
    BY <1>1, <1>16
  <2>5. \A x \in 1 .. si - 1 : x \in 1 .. Len(section) /\ x # si
    BY <1>3, <1>16
  <2> QED
    BY <2>1, <2>2, <2>3, <2>4, <2>5
<1>18. byte \in Nat
  <2>1. section' \in Seq(Descriptors) /\ Len(section') = Len(section)
    BY <1>12
  <2>2. section'[si] \in Descriptors
    BY <1>16, <2>1
  <2>3. \A s \in Descriptors : s.address \in Nat
    BY DEF Descriptors
  <2> QED
    BY <1>17, <2>2, <2>3
<1>19. HeaderInv'
  <2>1. PICK h \in Headers : h = fhdr
    BY <1>1 DEF HeaderInv
  <2>2. PICK c \in Nat : c = Cardinality(freed)
    <3>1. si - 2 \in Int /\ 1 \in Int
      BY <1>3
    <3>2. IsFiniteSet(1 .. si - 2)
      BY <3>1, FS_Interval
    <3> QED
      BY <1>14, <3>2, FS_Subset, FS_CardinalityType
  <2>3. PICK a \in Int, b \in Int, n \in Int :
          a = byte - FirstAddress /\ b = byte + size - FirstAddress /\ n = si - c
    BY <1>3, <1>18, <2>2, Sizes
  <2>4. fhdr' = [h EXCEPT !.numgaps = c, !.numsections = n,
                          !.section_map_address = a,
                          !.last_section_address = b]
    BY <1>1, <1>9, <2>1, <2>2, <2>3
  <2>5. /\ fhdr' \in Headers /\ fhdr'.numgaps = c /\ fhdr'.numsections = n
        /\ fhdr'.section_map_address = a /\ fhdr'.last_section_address = b
        /\ fhdr'.section_info_id = h.section_info_id
        /\ fhdr'.section_map_id = h.section_map_id
        /\ fhdr'.section_array_size = h.section_array_size
    <3>1. PICK r : r = [h EXCEPT !.numgaps = c, !.numsections = n,
                                 !.section_map_address = a,
                                 !.last_section_address = b]
      OBVIOUS
    <3>2. /\ r.numgaps = c /\ r.numsections = n
          /\ r.section_map_address = a /\ r.last_section_address = b
          /\ r.section_info_id = h.section_info_id
          /\ r.section_map_id = h.section_map_id
          /\ r.section_array_size = h.section_array_size
      BY <3>1 DEF Headers
    <3>3. r \in Headers
      <4>1. PICK r1 : r1 = [h EXCEPT !.numgaps = c]
        OBVIOUS
      <4>2. PICK r2 : r2 = [r1 EXCEPT !.numsections = n]
        OBVIOUS
      <4>3. PICK r3 : r3 = [r2 EXCEPT !.section_map_address = a]
        OBVIOUS
      <4>4. r1 \in Headers
        BY <4>1 DEF Headers
      <4>5. r2 \in Headers
        BY <4>2, <4>4 DEF Headers
      <4>6. r3 \in Headers
        BY <4>3, <4>5 DEF Headers
      <4>7. [r3 EXCEPT !.last_section_address = b] \in Headers
        BY <4>6 DEF Headers
      <4>8. r = [r3 EXCEPT !.last_section_address = b]
        BY <3>1, <4>1, <4>2, <4>3
      <4> QED
        BY <4>7, <4>8
    <3> QED
      BY <2>4, <3>1, <3>2, <3>3
  <2>6. AddressAfter(si)' = byte + size
    BY <1>1, <1>3, <1>17 DEF AddressAfter
  <2>7. /\ h.section_info_id = si + 1 /\ h.section_map_id = si + 2
        /\ h.section_array_size = si + 2
    BY <1>1, <2>1 DEF HeaderInv
  <2>8. n + c = si
    BY <1>3, <2>3
  <2>9. fhdr'.section_map_address = section'[si].address - FirstAddress
    BY <1>17, <2>3, <2>5
  <2>10. fhdr'.last_section_address = AddressAfter(si)' - FirstAddress
    <3>1. PICK z : z = byte + size
      OBVIOUS
    <3>2. b = z - FirstAddress
      BY <1>18, <2>3, <3>1, Sizes
    <3> QED
      BY <2>5, <2>6, <3>1, <3>2
  <2> HIDE DEF AddressAfter
  <2> QED
    BY <1>1, <2>5, <2>7, <2>8, <2>9, <2>10 DEF HeaderInv
<1>20. MapInv'
  <2>1. ASSUME NEW m \in 1 .. Len(map') PROVE MapEntry(m)'
    <3>1. Len(map') \in si - 2 .. si /\ m \in 1 .. si
      BY <1>3, <1>7 DEF MapRight
    <3>2. CASE m \in 1 .. si - 2
      <4>1. map'[m] = Entry(m, section[m].size)
        BY <1>3, <1>7, <3>2 DEF MapRight
      <4>2. section'[m] = section[m] /\ m # si /\ m # si - 1
        BY <1>3, <1>17, <3>2
      <4>3. map'[m].size = section'[m].size
            /\ map'[m].number = IF m \in freed THEN - m ELSE m
        BY <4>1, <4>2 DEF Entry
      <4> QED
        BY <1>1, <4>2, <4>3 DEF MapEntry
    <3>3. CASE m = si - 1
      <4>1. /\ map'[m].size = section[si - 1].size
            /\ \/ map'[m].number = si + 1
               \/ map'[m].number = si + 3 /\ Len(map') = si - 1
        BY <1>3, <1>7, <3>3 DEF MapRight
      <4>2. section'[m] = section[m] /\ m # si /\ ~ (m <= si - 2)
        BY <1>3, <1>17, <3>1, <3>3
      <4> QED
        BY <1>1, <3>3, <4>1, <4>2 DEF MapEntry
    <3>4. CASE m = si
      <4>1. map'[m].number = si + 2 /\ map'[m].size = MapSize(si)
        BY <1>3, <1>7, <3>4 DEF MapRight
      <4>2. Len(map') = si
        BY <1>3, <3>1, <3>4
      <4>3. map'[m].size = section'[m].size
        BY <1>9, <1>17, <3>4, <4>1, <4>2
      <4>4. m # si - 1 /\ ~ (m <= si - 2)
        BY <1>3, <3>4
      <4> QED
        BY <1>1, <3>4, <4>1, <4>3, <4>4 DEF MapEntry
    <3> QED
      BY <1>3, <3>1, <3>2, <3>3, <3>4
  <2>2. map' \in Seq(MapEntries) /\ Len(map') \in si - 2 .. si
    BY <1>7 DEF MapRight
  <2> QED
    BY <1>1, <1>7, <2>1, <2>2 DEF MapInv, MapEntries
<1> QED
  BY <1>13, <1>15, <1>19, <1>20

(* A page at an offset of a section that is laid out. *)
LEMMA OffsetType ==
  \A t \in Types : \A n \in Nat \ {0} : (n - 1) * PageSize[t] \in Nat
<1> TAKE t \in Types
<1> TAKE n \in Nat \ {0}
<1>1. PICK s \in Nat, m \in Nat : s = PageSize[t] /\ m = n - 1
  BY Sizes
<1>2. m * s \in Nat
  BY ONLY m \in Nat, s \in Nat
<1> QED
  BY <1>1, <1>2

LEMMA WritePageSteps ==
  ASSUME LaidInv, FileInv, HeaderInv, MapInv,
         WriteDataPage \/ OtherDataPage \/ WriteInfo
  PROVE  LaidInv' /\ FileInv' /\ HeaderInv' /\ MapInv'
<1>1. InPages /\ InfoOf(Current) # 0 /\ Current # "map"
  <2>1. WriteInfo => InfoOf(Current) # 0
    <3> SUFFICES ASSUME WriteInfo PROVE InfoOf(Current) # 0
      OBVIOUS
    <3>1. phase = "pages" /\ next \in 1 .. NumTypes /\ Current = AllTypes[next]
          /\ Current = "info" /\ Done = NumTypes /\ NumTypes \in Nat
          /\ Len(section_info) \in Nat
      BY TypesNumber
      DEF WriteInfo, InPages, LaidInv, Done, Current, NumTypes
    <3>2. Bytes(AllTypes[next]) = 1
      BY <3>1, LastTypes DEF Bytes
    <3>3. next <= Done /\ Bytes(AllTypes[next]) > 0
      BY <3>1, <3>2
    <3>4. InfoOf(AllTypes[next]) \in 1 .. Len(section_info)
      BY <3>1, <3>3, InfoFacts
    <3> QED
      BY <3>1, <3>4
  <2> QED
    BY <2>1, LastTypes DEF WriteDataPage, OtherDataPage, WriteInfo
<1>2. /\ next \in 1 .. NumTypes /\ Current = AllTypes[next]
      /\ k \in 1 .. NumPages(AllTypes[next]) /\ phase = "pages"
      /\ Laid[next - 1] + k \in 1 .. si /\ si \in Nat
      /\ PagesOf(Current)[k].at = Laid[next - 1] + k
      /\ NumPages(AllTypes[next]) \in Nat
  BY <1>1, PageNow DEF InPages
<1>3. freed \subseteq 1 .. si - 2 /\ (program = "this" => freed = {})
  BY DEF FileInv
<1>4. ASSUME Current \in DataTypes, NEW ok \in BOOLEAN,
             program = "this" => ok
      PROVE  Right(DataPage(Current, ok), next, k, byte)
  BY <1>2, <1>4 DEF Right, DataPage
<1>5. CASE WriteDataPage
  <2>1. PICK size, page : /\ size = DataHeader + PageSize[Current]
                          /\ page = DataPage(Current, TRUE)
    OBVIOUS
  <2>2. Current \in Types
    BY <1>5 DEF WriteDataPage, Types
  <2>3. size \in Nat \ {0}
    BY <2>1, <2>2, Sizes
  <2>4. PutPage(Current, page, size) /\ freed' = freed /\ fhdr' = fhdr
    BY <1>5, <2>1 DEF WriteDataPage
  <2>5. Right(page, next, k, byte)
    BY <1>4, <1>5, <2>1 DEF WriteDataPage
  <2>6. LaidInv' /\ FileInv'
    BY <1>1, <1>3, <2>3, <2>4, <2>5, PutPageStep
  <2>7. phase' = phase /\ si' = si /\ map' = map
    BY <2>4 DEF PutPage
  <2> QED
    BY <1>2, <2>4, <2>6, <2>7 DEF HeaderInv, MapInv
<1>6. CASE OtherDataPage
  <2>1. PICK comp \in CompSizes, ok \in BOOLEAN, free \in BOOLEAN :
          /\ PutPage(Current, DataPage(Current, ok), DataHeader + comp)
          /\ freed' = IF free THEN freed \cup {PageOf(Current, k).number}
                      ELSE freed
    BY <1>6 DEF OtherDataPage
  <2>2. PICK size, page : /\ size = DataHeader + comp
                          /\ page = DataPage(Current, ok)
    OBVIOUS
  <2>3. size \in Nat \ {0}
    BY <2>2, Sizes
  <2>4. PutPage(Current, page, size) /\ fhdr' = fhdr
        /\ program = "other" /\ Current \in DataTypes
    BY <1>6, <2>1, <2>2 DEF OtherDataPage
  <2>5. Right(page, next, k, byte)
    BY <1>4, <2>2, <2>4
  <2>6. PageOf(Current, k).number \in 1 .. si - 2
    <3>1. PICK i : i = Laid[next - 1] + k
      OBVIOUS
    <3>2. i \in 1 .. si /\ PageOf(Current, k) = section[i]
          /\ section[i].type = Current /\ section[i].number = Number(i)
      <4>1. PageOf(Current, k) = section[i] /\ i \in 1 .. si
        BY <1>2, <3>1 DEF PageOf
      <4>2. Done = NumTypes
        BY <1>2 DEF Done
      <4> QED
        BY <1>2, <3>1, <4>1, <4>2 DEF LaidInv, PagesLaid
    <3>3. i <= si - 2
      <4>1. content \in [DataTypes -> Lengths] /\ si = Laid[NumTypes]
            /\ NumTypes \in Nat
        BY <1>2, TypesNumber DEF LaidInv, Done
      <4>2. next <= NumTypes - 2
        BY <1>2, <2>4, TypeFacts
      <4>3. next \in 0 .. NumTypes /\ NumTypes - 2 \in 0 .. NumTypes
        BY <1>2, <4>1, <4>2
      <4>4. Laid[next] <= Laid[NumTypes - 2] /\ Laid[NumTypes - 2] = si - 2
        BY <4>1, <4>2, <4>3, LaidFacts, SystemPages
      <4>5. Laid[next] = Laid[next - 1] + NumPages(AllTypes[next])
            /\ Laid[next - 1] \in Nat
        BY <1>2, <4>1, PageFacts
      <4> QED
        BY <1>2, <3>1, <4>4, <4>5
    <3> QED
      BY <1>2, <3>2, <3>3 DEF Number
  <2>7. freed' \subseteq 1 .. si - 2
    BY <1>3, <2>1, <2>6
  <2>8. LaidInv' /\ FileInv'
    BY <1>1, <2>3, <2>4, <2>5, <2>7, PutPageStep
  <2>9. phase' = phase /\ si' = si /\ map' = map
    BY <2>4 DEF PutPage
  <2> QED
    BY <1>2, <2>4, <2>8, <2>9 DEF HeaderInv, MapInv
<1>7. CASE WriteInfo
  <2>1. PICK comp \in CompSizes :
          PutPage("info", SystemPage("info"), SystemHeader + comp)
    BY <1>7 DEF WriteInfo
  <2>2. PICK size, page : /\ size = SystemHeader + comp
                          /\ page = SystemPage("info")
    OBVIOUS
  <2>3. size \in Nat \ {0}
    BY <2>2, Sizes
  <2>4. PutPage(Current, page, size) /\ fhdr' = fhdr /\ freed' = freed
        /\ Current = "info"
    BY <1>7, <2>1, <2>2 DEF WriteInfo
  <2>5. Right(page, next, k, byte)
    <3>1. content \in [DataTypes -> Lengths] /\ "info" \in Types
      BY DEF LaidInv, Types
    <3>2. NumPages("info") = 1
      BY <3>1, LastTypes, Pages
    <3>3. k = 1
      BY <1>2, <2>4, <3>2
    <3>4. PageSize["info"] \in Nat
      BY <3>1, Sizes
    <3>5. (k - 1) * PageSize["info"] = 0
      BY <3>3, <3>4
    <3> QED
      BY <1>2, <2>2, <2>4, <3>5, LastTypes DEF Right, SystemPage
  <2>6. LaidInv' /\ FileInv'
    BY <1>1, <1>3, <2>3, <2>4, <2>5, PutPageStep
  <2>7. phase' = phase /\ si' = si /\ map' = map
    BY <2>4 DEF PutPage
  <2> QED
    BY <1>2, <2>4, <2>6, <2>7 DEF HeaderInv, MapInv
<1> QED
  BY <1>5, <1>6, <1>7

(* The reader leaves the file alone. *)
LEMMA KeepsFile ==
  ASSUME LaidInv, FileInv, HeaderInv, MapInv,
         UNCHANGED <<program, content, next, layout, written>>,
         phase \notin {"layout", "pages"}, phase' \notin {"layout", "pages"},
         phase' \in Phases, k' \in Nat \ {0}
  PROVE  LaidInv' /\ FileInv' /\ HeaderInv' /\ MapInv'
<1>1. /\ program' = program /\ content' = content /\ next' = next
      /\ section' = section /\ block' = block /\ si' = si
      /\ section_info' = section_info /\ fhdr' = fhdr /\ byte' = byte
      /\ file' = file /\ freed' = freed /\ map' = map
  BY DEF layout, written
<1>2. Laid' = Laid /\ NumTypes' = NumTypes /\ AllTypes' = AllTypes
      /\ \A t : NumPages(t)' = NumPages(t)
  BY <1>1, LaidStays DEF NumTypes, AllTypes
<1>3. LaidInv'
  <2>1. next' \in 1 .. NumTypes + 1 /\ section' \in Seq(Descriptors)
        /\ phase # "layout" /\ phase' # "layout"
    BY <1>1 DEF LaidInv
  <2> QED
    BY <1>1, <2>1, KeepsLaid
<1>4. Written = si /\ Written' = si
  BY <1>1 DEF Written
<1>5. \A w : AddressAfter(w)' = AddressAfter(w)
  BY <1>1 DEF AddressAfter
<1>6. AddressAfter(Written)' = AddressAfter(Written)
  BY <1>1, <1>4 DEF AddressAfter
<1>7. InOrder'
  BY <1>1, <1>4, <1>5, <1>6 DEF FileInv, InOrder
<1>8. Filed'
  <2>1. \A p, a, b : IsPage(p, a, b)' = IsPage(p, a, b)
    BY <1>1, <1>2 DEF IsPage
  <2> QED
    BY <1>1, <1>2, <1>4, <2>1 DEF FileInv, Filed
<1>9. FileInv'
  BY <1>1, <1>4, <1>7, <1>8 DEF FileInv
<1>10. HeaderInv'
  <2>1. AddressAfter(si)' = AddressAfter(si)
    BY <1>1 DEF AddressAfter
  <2> QED
    BY <1>1, <2>1 DEF HeaderInv
<1>11. MapInv'
  <2>1. \A m : MapEntry(m)' = MapEntry(m)
    BY <1>1 DEF MapEntry
  <2> QED
    BY <1>1, <2>1 DEF MapInv
<1> QED
  BY <1>3, <1>9, <1>10, <1>11

-----------------------------------------------------------------------------
(* The reader of the section map.                                          *)
Numbered == [number : Int, size : Int, address : Int]

(* The file is written. *)
FileDone ==
  /\ LaidInv /\ FileInv /\ HeaderInv /\ MapInv
  /\ phase \notin {"layout", "pages"}

LEMMA FileFacts ==
  ASSUME FileDone
  PROVE  /\ content \in [DataTypes -> Lengths] /\ si \in Nat /\ si >= 2
         /\ si = Laid[NumTypes] /\ Done = NumTypes /\ Written = si
         /\ NumTypes \in Nat /\ NumTypes >= 2
         /\ \A i \in 1 .. si :
              /\ section[i].number = (IF i > si - 2 THEN i + 2 ELSE i)
              /\ section[i].address \in Nat /\ section[i].size \in Nat
              /\ section[i].address = AddressAfter(i - 1)
              /\ section[i].address >= FirstAddress
         /\ \A i, j \in 1 .. si :
              section[i].address = section[j].address => i = j
         /\ MapAddress = section[si].address
         /\ FirstAddress \in Nat
<1>1. /\ content \in [DataTypes -> Lengths] /\ si = Laid[NumTypes]
      /\ Done = NumTypes /\ Written = si /\ phase # "layout"
  BY DEF FileDone, LaidInv, Done, Written
<1>2. /\ NumTypes \in Nat /\ NumTypes >= 2 /\ si \in Nat /\ si >= 2
  BY <1>1, SystemPages
<1>3. FirstAddress \in Nat
  BY Sizes
<1>4. \A i \in 1 .. si :
        /\ section[i].number = (IF i > si - 2 THEN i + 2 ELSE i)
        /\ section[i].address \in Nat /\ section[i].size \in Nat
  BY <1>1, SectionFacts DEF FileDone, Number
<1>5. /\ \A i \in 1 .. si : /\ section[i].address = AddressAfter(i - 1)
                            /\ FirstAddress <= section[i].address
      /\ \A i, j \in 1 .. si : i < j => section[i].address < section[j].address
  BY <1>1 DEF FileDone, FileInv, InOrder
<1>6. ASSUME NEW i \in 1 .. si, NEW j \in 1 .. si,
             section[i].address = section[j].address
      PROVE  i = j
  <2>1. section[i].address \in Nat /\ section[j].address \in Nat
    BY <1>4
  <2>2. ~ (i < j) /\ ~ (j < i)
    BY <1>5, <1>6, <2>1
  <2> QED
    BY <1>2, <2>2
<1>7. MapAddress = section[si].address
  <2>1. fhdr.section_map_address = section[si].address - FirstAddress
    BY DEF FileDone, HeaderInv
  <2>2. section[si].address \in Nat
    BY <1>2, <1>4
  <2> QED
    BY <1>3, <2>1, <2>2 DEF MapAddress
<1> QED
  BY <1>1, <1>2, <1>3, <1>4, <1>5, <1>6, <1>7

(* Each page is in the file, at its address, and no other is there. *)
LEMMA PageAt ==
  ASSUME FileDone, NEW j \in 1 .. NumTypes,
         NEW q \in 1 .. NumPages(AllTypes[j])
  PROVE  /\ Laid[j - 1] + q \in 1 .. si
         /\ \E p \in file : p.at = section[Laid[j - 1] + q].address
         /\ \A p \in file : p.at = section[Laid[j - 1] + q].address
                              => IsPage(p, j, q)
<1>1. /\ content \in [DataTypes -> Lengths] /\ Written = si /\ si \in Nat
      /\ si = Laid[NumTypes]
      /\ \A x, y \in 1 .. si : section[x].address = section[y].address => x = y
  BY FileFacts
<1>2. ASSUME NEW a \in 1 .. NumTypes, NEW b \in 1 .. NumPages(AllTypes[a])
      PROVE  Laid[a - 1] + b \in 1 .. si
  BY <1>1, PageFacts
<1>3. \E p \in file : p.at = section[Laid[j - 1] + q].address
  BY <1>1, <1>2 DEF FileDone, FileInv, Filed
<1>4. ASSUME NEW p \in file, p.at = section[Laid[j - 1] + q].address
      PROVE  IsPage(p, j, q)
  <2>1. PICK a \in 1 .. NumTypes :
          \E b \in 1 .. NumPages(AllTypes[a]) : IsPage(p, a, b)
    BY DEF FileDone, FileInv, Filed
  <2>2. PICK b \in 1 .. NumPages(AllTypes[a]) : IsPage(p, a, b)
    BY <2>1
  <2>3. p.at = section[Laid[a - 1] + b].address
    BY <2>2 DEF IsPage
  <2>4. Laid[a - 1] + b = Laid[j - 1] + q
    BY <1>1, <1>2, <1>4, <2>3
  <2>5. a = j /\ b = q
    BY <1>1, <2>4, PageOnce
  <2> QED
    BY <2>2, <2>5
<1> QED
  BY <1>2, <1>3, <1>4

(* The page of the section info is where its descriptor says. *)
LEMMA InfoPage ==
  ASSUME FileDone, NEW a
  PROVE  KindAt(a) = "info" <=> a = section[si - 1].address
<1>1. /\ content \in [DataTypes -> Lengths] /\ si \in Nat /\ si >= 2
      /\ si = Laid[NumTypes]
  BY FileFacts
<1>2. PICK j \in 1 .. NumTypes : j = NumTypes - 1
  BY <1>1, SystemPages
<1>3. /\ AllTypes[j] = "info" /\ NumPages(AllTypes[j]) = 1
      /\ Laid[j - 1] + 1 = si - 1
  <2>1. j - 1 = NumTypes - 2 /\ NumTypes \in Nat
    BY <1>2, TypesNumber
  <2> QED
    BY <1>1, <1>2, <2>1, SystemPages
<1>4. PICK q \in 1 .. NumPages(AllTypes[j]) : q = 1
  BY <1>3
<1>5. /\ \E p \in file : p.at = section[si - 1].address
      /\ \A p \in file : p.at = section[si - 1].address => IsPage(p, j, q)
  BY <1>3, <1>4, PageAt
<1>6. ASSUME a = section[si - 1].address PROVE KindAt(a) = "info"
  <2>1. PICK p : p = CHOOSE x \in file : x.at = a
    OBVIOUS
  <2>2. p \in file /\ p.at = a
    BY <1>5, <1>6, <2>1
  <2>3. IsPage(p, j, q)
    BY <1>5, <1>6, <2>2
  <2>4. p.kind = "info"
    BY <1>3, <2>3, LastTypes DEF IsPage
  <2> QED
    BY <1>5, <1>6, <2>1, <2>4 DEF KindAt
<1>7. ASSUME KindAt(a) = "info" PROVE a = section[si - 1].address
  <2>1. \E x \in file : x.at = a
    BY <1>7 DEF KindAt
  <2>2. PICK p : p = CHOOSE x \in file : x.at = a
    OBVIOUS
  <2>3. p \in file /\ p.at = a /\ p.kind = "info"
    BY <1>7, <2>1, <2>2 DEF KindAt
  <2>4. PICK i \in 1 .. NumTypes :
          \E b \in 1 .. NumPages(AllTypes[i]) : IsPage(p, i, b)
    BY <2>3 DEF FileDone, FileInv, Filed
  <2>5. PICK b \in 1 .. NumPages(AllTypes[i]) : IsPage(p, i, b)
    BY <2>4
  <2>6. AllTypes[i] = "info"
    BY <2>3, <2>5 DEF IsPage
  <2>7. i = j
    BY <1>3, <2>6, TypeOnce
  <2>8. b = 1
    BY <1>3, <2>7
  <2> QED
    BY <1>3, <2>3, <2>5, <2>7, <2>8 DEF IsPage
<1> QED
  BY <1>6, <1>7

(* What FindIn finds has the number. *)
LEMMA FindFacts ==
  ASSUME NEW S, NEW list \in Seq(S), NEW number
  PROVE  /\ FindIn(list, number) \in 0 .. Len(list)
         /\ FindIn(list, number) # 0 =>
              list[FindIn(list, number)].number = number
         /\ FindIn(list, number) = 0 =>
              \A f \in 1 .. Len(list) : list[f].number # number
<1> DEFINE I == {f \in 1 .. Len(list) : list[f].number = number}
<1>1. FindIn(list, number) = IF I # {} THEN Min(I) ELSE 0
  BY DEF FindIn, SelectInSeq
<1>2. Len(list) \in Nat /\ I \subseteq Nat
  OBVIOUS
<1>3. I # {} => Min(I) \in I
  <2> HIDE DEF I
  <2> QED
    BY <1>2, MinIn
<1>4. \A f \in I : f \in 1 .. Len(list) /\ f # 0 /\ list[f].number = number
  BY <1>2
<1>5. ASSUME I = {}, NEW f \in 1 .. Len(list) PROVE list[f].number # number
  BY <1>5
<1> HIDE DEF I
<1>6. CASE I = {}
  BY <1>1, <1>2, <1>5, <1>6
<1>7. CASE I # {}
  <2>1. FindIn(list, number) \in I
    BY <1>1, <1>3, <1>7
  <2>2. PICK f : f = FindIn(list, number)
    OBVIOUS
  <2>3. f \in 1 .. Len(list) /\ f # 0 /\ list[f].number = number
    BY <1>4, <2>1, <2>2
  <2>4. f \in 0 .. Len(list)
    BY <1>2, <2>3
  <2> QED
    BY <2>2, <2>3, <2>4
<1> QED
  BY <1>6, <1>7

(* The entries of the map, by their place and by their number. *)
LEMMA MapFacts ==
  ASSUME FileDone
  PROVE  /\ Len(map) \in si - 2 .. si /\ Len(map) \in Nat
         /\ program = "this" => Len(map) = si
         /\ \A m \in 1 .. Len(map) :
              /\ m \in 1 .. si
              /\ map[m].number \in Int /\ map[m].size \in Int
              /\ map[m].size = section[m].size
              /\ \A i \in 1 .. si - 2 : map[m].number = i => m = i
              /\ map[m].number = si + 1 => m = si - 1
              /\ map[m].number = si + 2 <=> m = si
              /\ program = "this" =>
                   map[m].number = (IF m > si - 2 THEN m + 2 ELSE m)
              /\ map[m].number > si + 2 => m = Len(map) /\ m = si - 1
<1>1. si \in Nat /\ si >= 2
  BY FileFacts
<1>2. /\ map \in Seq([number : Int, size : Int]) /\ Len(map) \in si - 2 .. si
      /\ \A m \in 1 .. Len(map) : MapEntry(m)
      /\ program = "this" => Len(map) = si
  BY DEF FileDone, MapInv
<1>3. freed \subseteq 1 .. si - 2 /\ (program = "this" => freed = {})
  BY DEF FileDone, FileInv
<1>4. Len(map) \in Nat
  BY <1>2
<1>5. ASSUME NEW m \in 1 .. Len(map)
      PROVE  /\ m \in 1 .. si
             /\ map[m].number \in Int /\ map[m].size \in Int
             /\ map[m].size = section[m].size
             /\ \A i \in 1 .. si - 2 : map[m].number = i => m = i
             /\ map[m].number = si + 1 => m = si - 1
             /\ map[m].number = si + 2 <=> m = si
             /\ program = "this" =>
                  map[m].number = (IF m > si - 2 THEN m + 2 ELSE m)
             /\ map[m].number > si + 2 => m = Len(map) /\ m = si - 1
  <2>1. m \in 1 .. si
    BY <1>1, <1>2
  <2>2. map[m].number \in Int /\ map[m].size \in Int
    <3>1. map[m] \in [number : Int, size : Int]
      <4>1. PICK S, w : S = [number : Int, size : Int] /\ w = map
        OBVIOUS
      <4>2. w \in Seq(S) /\ m \in 1 .. Len(w)
        BY <1>2, <4>1
      <4>3. w[m] \in S
        BY ONLY <4>2
      <4> QED
        BY <4>1, <4>3
    <3>2. \A e \in [number : Int, size : Int] : e.number \in Int /\ e.size \in Int
      OBVIOUS
    <3> QED
      BY <3>1, <3>2
  <2>3. /\ map[m].size = section[m].size
        /\ m <= si - 2 => map[m].number = IF m \in freed THEN - m ELSE m
        /\ m = si - 1 => map[m].number = si + 1
                           \/ (map[m].number = si + 3 /\ Len(map) = si - 1)
        /\ m = si => map[m].number = si + 2
    BY <1>2 DEF MapEntry
  <2>4. PICK n \in Int : n = map[m].number
    BY <2>2
  <2>5. CASE m <= si - 2
    <3>1. n = m \/ n = - m
      BY <2>3, <2>4, <2>5
    <3>2. program = "this" => n = m
      BY <1>3, <2>3, <2>4, <2>5
    <3> QED
      BY <1>1, <2>1, <2>2, <2>3, <2>4, <2>5, <3>1, <3>2
  <2>6. CASE m = si - 1
    <3>1. n = si + 1 \/ (n = si + 3 /\ Len(map) = si - 1)
      BY <2>3, <2>4, <2>6
    <3>2. program = "this" => n = si + 1
      BY <1>1, <1>2, <3>1
    <3> QED
      BY <1>1, <2>1, <2>2, <2>3, <2>4, <2>6, <3>1, <3>2
  <2>7. CASE m = si
    <3>1. n = si + 2
      BY <2>3, <2>4, <2>7
    <3> QED
      BY <1>1, <2>1, <2>2, <2>3, <2>4, <2>7, <3>1
  <2> QED
    BY <1>1, <2>1, <2>5, <2>6, <2>7
<1> QED
  BY <1>2, <1>4, <1>5

(* An entry of the section map is read. *)
LEMMA ReadMapEntryStep ==
  ASSUME FileDone, FoundInv, ReadMapEntry
  PROVE  FoundInv'
<1>1. /\ phase = "map" /\ phase' = "map" /\ k <= Len(map) /\ k' = k + 1
      /\ address' = After(map[k])
      /\ LET e == map[k]
             isMap == e.number = fhdr.section_map_id
             repaired == isMap /\ address # MapAddress
         IN  /\ found' = Append(found,
                           [number |-> e.number, size |-> e.size,
                            address |-> IF isMap THEN MapAddress ELSE address])
             /\ mapError' = (mapError \/ repaired
                               \/ k > fhdr.section_array_size)
      /\ section' = section /\ si' = si /\ map' = map
  BY DEF ReadMapEntry, layout, written
<1>2. /\ si \in Nat /\ si >= 2 /\ FirstAddress \in Nat
      /\ MapAddress = section[si].address
  BY FileFacts
<1>3. k \in Nat \ {0} /\ k \in 1 .. Len(map) /\ k - 1 \in Nat
  <2>1. k \in Nat \ {0} /\ Len(map) \in Nat
    BY MapFacts DEF FileDone, LaidInv
  <2> QED
    BY <1>1, <2>1
<1>4. /\ Len(map) \in si - 2 .. si /\ Len(map) \in Nat /\ k \in 1 .. si
      /\ map[k].number \in Int /\ map[k].size \in Int
      /\ map[k].size = section[k].size
      /\ map[k].number = si + 2 <=> k = si
      /\ map[k].number > si + 2 => k = Len(map) /\ k = si - 1
  BY <1>3, MapFacts
<1>5. /\ section[k].address \in Nat /\ section[k].size \in Nat
      /\ section[k].address = AddressAfter(k - 1)
      /\ section[k].address >= FirstAddress
  BY <1>4, FileFacts
<1>6. /\ k <= Len(map) + 1 /\ found = [f \in 1 .. k - 1 |-> FoundHere(f)]
      /\ mapError = FALSE
      /\ address = AddressAfter(k - 1)
           \/ (k = Len(map) + 1 /\ k = si /\ address = section[k - 1].address)
  BY <1>1 DEF FoundInv
<1>7. address = section[k].address
  BY <1>3, <1>4, <1>5, <1>6
<1>8. fhdr.section_map_id = si + 2 /\ fhdr.section_array_size = si + 2
  BY <1>1 DEF FileDone, HeaderInv
<1>9. mapError' = FALSE
  <2>1. ~ (k > fhdr.section_array_size)
    BY <1>2, <1>4, <1>8
  <2>2. map[k].number = fhdr.section_map_id => address = MapAddress
    BY <1>2, <1>4, <1>7, <1>8
  <2> QED
    BY <1>1, <1>6, <2>1, <2>2
<1>10. found' = Append(found, FoundHere(k))
  <2>1. map[k].number = fhdr.section_map_id => MapAddress = section[k].address
    BY <1>2, <1>4, <1>8
  <2> QED
    BY <1>1, <1>7, <2>1 DEF FoundHere
<1>11. found' = [f \in 1 .. k |-> FoundHere(f)]
  <2>1. \A n \in Nat : \A g : \A e :
          g = [f \in 1 .. n |-> FoundHere(f)] /\ e = FoundHere(n + 1) =>
            Append(g, e) = [f \in 1 .. n + 1 |-> FoundHere(f)]
    <3> TAKE n \in Nat
    <3> TAKE g
    <3> TAKE e
    <3> HAVE g = [f \in 1 .. n |-> FoundHere(f)] /\ e = FoundHere(n + 1)
    <3>1. Len(g) = n /\ DOMAIN Append(g, e) = 1 .. n + 1
      OBVIOUS
    <3>2. \A f \in 1 .. n + 1 : Append(g, e)[f] = FoundHere(f)
      OBVIOUS
    <3>3. Append(g, e) = [f \in 1 .. n + 1 |-> Append(g, e)[f]]
      BY <3>1
    <3> QED
      BY <3>2, <3>3
  <2>2. FoundHere(k) = FoundHere(k - 1 + 1) /\ k - 1 + 1 = k
    BY <1>3
  <2> QED
    BY <1>3, <1>6, <1>10, <2>1, <2>2
<1>12. \A f : FoundHere(f)' = FoundHere(f)
  BY <1>1 DEF FoundHere
<1>13. address' = IF map[k].number > si + 2 THEN section[k].address
                  ELSE section[k].address + section[k].size
  BY <1>2, <1>4, <1>7, <1>8, <1>1 DEF After
<1>14. PICK n \in Nat : n = k
  BY <1>3
<1>15. address' \in Int /\ address' >= FirstAddress
  BY <1>2, <1>5, <1>13
<1>16. n = k' - 1 /\ k' <= Len(map') + 1
  BY <1>1, <1>3, <1>14
<1>17. (address = AddressAfter(k - 1)
         \/ (k = Len(map) + 1 /\ k = si /\ address = section[k - 1].address))'
  <2>1. AddressAfter(k - 1)' = section[n].address + section[n].size
    <3>1. n # 0
      BY <1>3, <1>14
    <3> QED
      BY <1>1, <1>16, <3>1 DEF AddressAfter
  <2>2. CASE map[k].number > si + 2
    <3>1. /\ address' = section'[k' - 1].address /\ k' = si'
          /\ k' = Len(map') + 1
      BY <1>1, <1>2, <1>3, <1>4, <1>13, <1>14, <1>16, <2>2
    <3> QED
      BY <3>1
  <2>3. CASE ~ (map[k].number > si + 2)
    BY <1>13, <1>14, <2>1, <2>3
  <2> QED
    BY <2>2, <2>3
<1>18. found' = [f \in 1 .. k' - 1 |-> FoundHere(f)']
  BY <1>11, <1>12, <1>14, <1>16
<1> QED
  BY <1>1, <1>9, <1>15, <1>16, <1>17, <1>18 DEF FoundInv

(* What is found at the end of the map. *)
LEMMA MapRead ==
  ASSUME FileDone, FoundInv, phase = "map", k > Len(map)
  PROVE  /\ found \in Seq(Numbered) /\ Len(found) = Len(map) /\ mapError = FALSE
         /\ \A f \in 1 .. Len(map) :
              /\ found[f].number = map[f].number
              /\ found[f].address = section[f].address
         /\ address = AddressAfter(Len(map))
              \/ (Len(map) + 1 = si /\ address = section[Len(map)].address)
         /\ FoundRight /\ address \in Int /\ address >= FirstAddress
<1>1. /\ k <= Len(map) + 1 /\ found = [f \in 1 .. k - 1 |-> FoundHere(f)]
      /\ mapError = FALSE
      /\ address = AddressAfter(k - 1)
           \/ (k = Len(map) + 1 /\ k = si /\ address = section[k - 1].address)
      /\ address \in Int /\ address >= FirstAddress
  BY DEF FoundInv
<1>2. k \in Nat /\ Len(map) \in Nat
  BY MapFacts DEF FileDone, LaidInv
<1>3. k - 1 = Len(map) /\ k = Len(map) + 1
  BY <1>1, <1>2
<1>4. PICK n \in Nat : n = Len(map)
  BY <1>2
<1>5. found = [f \in 1 .. n |-> FoundHere(f)]
  BY <1>1, <1>3, <1>4
<1>6. ASSUME NEW f \in 1 .. n
      PROVE  /\ FoundHere(f) \in Numbered
             /\ FoundHere(f).number = map[f].number
             /\ FoundHere(f).address = section[f].address
  <2>1. map[f].number \in Int /\ map[f].size \in Int /\ f \in 1 .. si
    BY <1>4, MapFacts
  <2>2. section[f].address \in Int
    BY <2>1, FileFacts
  <2> QED
    BY <2>1, <2>2 DEF FoundHere, Numbered
<1>7. found \in Seq(Numbered) /\ Len(found) = n
  <2>1. PICK g : g = found
    OBVIOUS
  <2>2. g \in [1 .. n -> Numbered]
    BY <1>5, <1>6, <2>1
  <2>3. g \in Seq(Numbered) /\ Len(g) = n
    BY ONLY <2>2, n \in Nat
  <2> QED
    BY <2>1, <2>3
<1>8. \A f \in 1 .. n : /\ found[f].number = map[f].number
                        /\ found[f].address = section[f].address
  BY <1>5, <1>6
<1>9. FoundRight
  <2> SUFFICES ASSUME NEW f \in 1 .. n
               PROVE  /\ \A i \in 1 .. si - 2 :
                           found[f].number = i =>
                             found[f].address = section[i].address
                      /\ found[f].number = si + 2 =>
                           found[f].address = section[si].address
                      /\ f <= Len(map) /\ found[f].number = si + 1 =>
                           found[f].address = section[si - 1].address
    BY <1>7 DEF FoundRight
  <2>1. /\ \A i \in 1 .. si - 2 : map[f].number = i => f = i
        /\ map[f].number = si + 1 => f = si - 1
        /\ map[f].number = si + 2 <=> f = si
    BY <1>4, MapFacts
  <2> QED
    BY <1>8, <2>1
<1>10. address = AddressAfter(Len(map))
         \/ (Len(map) + 1 = si /\ address = section[Len(map)].address)
  BY <1>1, <1>3
<1> QED
  BY <1>1, <1>4, <1>7, <1>8, <1>9, <1>10

(* The reader's list stays right while the file does. *)
LEMMA FoundRightStays ==
  ASSUME FoundRight, found' = found, section' = section, si' = si, map' = map
  PROVE  FoundRight'
BY DEF FoundRight

LEMMA MapCompleteStep ==
  ASSUME FileDone, FoundInv, MapComplete
  PROVE  FoundInv'
<1>1. /\ phase = "map" /\ phase' = "info" /\ k > Len(map)
      /\ FindIn(found, fhdr.section_map_id) # 0
      /\ mapError' = (mapError \/ ~ CountsAgree)
      /\ found' = found /\ address' = address /\ section' = section
      /\ si' = si /\ map' = map /\ program' = program
  BY DEF MapComplete, layout, written
<1>2. /\ found \in Seq(Numbered) /\ Len(found) = Len(map) /\ mapError = FALSE
      /\ \A f \in 1 .. Len(map) : found[f].number = map[f].number
      /\ address = AddressAfter(Len(map))
           \/ (Len(map) + 1 = si /\ address = section[Len(map)].address)
      /\ FoundRight /\ address \in Int /\ address >= FirstAddress
  BY <1>1, MapRead
<1>3. /\ fhdr.section_map_id = si + 2
      /\ fhdr.last_section_address = AddressAfter(si) - FirstAddress
      /\ fhdr.numsections + fhdr.numgaps = si /\ fhdr \in Headers
  BY <1>1 DEF FileDone, HeaderInv
<1>4. /\ si \in Nat /\ si >= 2 /\ FirstAddress \in Nat
      /\ section[si].address \in Nat /\ section[si].size \in Nat
  <2>1. si \in Nat /\ si >= 2 /\ FirstAddress \in Nat
    BY FileFacts
  <2>2. si \in 1 .. si
    BY <2>1
  <2> QED
    BY <2>1, <2>2, FileFacts
<1>5. Len(map) = si
  <2>1. PICK f \in 1 .. Len(map) : found[f].number = si + 2
    <3>1. PICK f \in 0 .. Len(found) :
            f # 0 /\ found[f].number = fhdr.section_map_id
      BY <1>1, <1>2, FindFacts
    <3>2. f \in 1 .. Len(map)
      BY <1>2, <3>1
    <3> QED
      BY <1>3, <3>1, <3>2
  <2>2. map[f].number = si + 2
    BY <1>2, <2>1
  <2>3. f = si /\ Len(map) \in si - 2 .. si
    BY <2>2, MapFacts
  <2> QED
    BY <1>4, <2>1, <2>3
<1>6. address = AddressAfter(si)
  BY <1>2, <1>4, <1>5
<1>7. CountsAgree
  <2>1. AddressAfter(si) \in Nat
    BY <1>4 DEF AddressAfter
  <2>2. fhdr.last_section_address + FirstAddress = address
    BY <1>3, <1>4, <1>6, <2>1
  <2>3. fhdr.numgaps \in Int /\ fhdr.numsections \in Int
    BY <1>3 DEF Headers
  <2> QED
    BY <1>2, <1>3, <1>5, <2>2, <2>3 DEF CountsAgree
<1>8. mapError' = FALSE
  BY <1>1, <1>2, <1>7
<1>9. program = "this" => \A i \in 1 .. si :
        found[i].number = IF i > si - 2 THEN i + 2 ELSE i
  BY <1>2, <1>5, MapFacts
<1>10. FoundRight'
  BY <1>1, <1>2, FoundRightStays
<1>11. Len(found) <= Len(map) + 2
  BY <1>2, <1>4, <1>5
<1>12. \A i : Number(i)' = IF i > si - 2 THEN i + 2 ELSE i
  BY <1>1 DEF Number
<1> QED
  BY <1>1, <1>2, <1>5, <1>8, <1>9, <1>10, <1>11, <1>12
  DEF FoundInv, Numbered

(* A list of found sections that is right. *)
ListRight(list) ==
  /\ list \in Seq(Numbered)
  /\ \A f \in 1 .. Len(list) :
       /\ \A i \in 1 .. si - 2 :
            list[f].number = i => list[f].address = section[i].address
       /\ list[f].number = si + 2 => list[f].address = section[si].address
       /\ f <= Len(map) /\ list[f].number = si + 1 =>
            list[f].address = section[si - 1].address

LEMMA AppendRight ==
  ASSUME NEW list, ListRight(list), Len(list) >= Len(map), Len(map) \in Nat,
         NEW e \in Numbered, si \in Nat,
         \/ e.number = si + 1
         \/ e.number = si + 2 /\ e.address = section[si].address
  PROVE  ListRight(Append(list, e)) /\ Len(Append(list, e)) = Len(list) + 1
<1>1. list \in Seq(Numbered) /\ Len(list) \in Nat
  BY DEF ListRight
<1>2. PICK w : w = Append(list, e)
  OBVIOUS
<1>3. /\ w \in Seq(Numbered) /\ Len(w) = Len(list) + 1
      /\ \A m \in 1 .. Len(list) : w[m] = list[m]
      /\ w[Len(list) + 1] = e
  BY ONLY <1>1, <1>2, e \in Numbered, Appended
<1>4. ASSUME NEW f \in 1 .. Len(w)
      PROVE  /\ \A i \in 1 .. si - 2 :
                  w[f].number = i => w[f].address = section[i].address
             /\ w[f].number = si + 2 => w[f].address = section[si].address
             /\ f <= Len(map) /\ w[f].number = si + 1 =>
                  w[f].address = section[si - 1].address
  <2>1. CASE f \in 1 .. Len(list)
    <3>1. w[f] = list[f]
      BY <1>3, <2>1
    <3> QED
      BY <2>1, <3>1 DEF ListRight
  <2>2. CASE f = Len(list) + 1
    <3>1. w[f] = e /\ ~ (f <= Len(map))
      BY <1>1, <1>3, <2>2
    <3> QED
      BY <3>1
  <2> QED
    BY <1>1, <1>3, <2>1, <2>2
<1>5. ListRight(w)
  BY <1>3, <1>4 DEF ListRight
<1> QED
  BY <1>2, <1>3, <1>5

LEMMA RepairedRight ==
  ASSUME FileDone, NEW list, ListRight(list), Len(list) >= Len(map),
         Len(list) >= 1
  PROVE  /\ ListRight(Repaired(list))
         /\ Len(Repaired(list)) <= Len(list) + 1
<1>1. list \in Seq(Numbered) /\ Len(list) \in Nat
      /\ \A f \in 1 .. Len(list) :
           /\ list[f].address \in Int /\ list[f].size \in Int
           /\ list[f] \in Numbered
  <2>1. list \in Seq(Numbered)
    BY DEF ListRight
  <2>2. \A f \in 1 .. Len(list) : list[f] \in Numbered
    BY <2>1
  <2>3. \A e \in Numbered : e.address \in Int /\ e.size \in Int
    BY DEF Numbered
  <2> QED
    BY <2>1, <2>2, <2>3
<1>2. si \in Nat /\ si >= 2 /\ Len(map) \in Nat
  BY FileFacts, MapFacts
<1>3. fhdr.section_info_id = si + 1
  BY DEF FileDone, HeaderInv
<1> DEFINE byNumber == FindIn(list, fhdr.section_info_id)
           pages == InfoPages(list)
           target == IF byNumber # 0 THEN byNumber ELSE Min(pages)
<1>4. byNumber \in 0 .. Len(list)
  BY <1>1, FindFacts
<1>5. pages \subseteq 1 .. Len(list) /\ pages \subseteq Nat
      /\ pages \subseteq 0 .. Len(list)
      /\ \A f \in pages : list[f].address = section[si - 1].address
  BY <1>1, InfoPage DEF InfoPages
<1>6. pages # {} => /\ target \in 1 .. Len(list) /\ Max(pages) \in pages
  <2> SUFFICES ASSUME pages # {}
               PROVE  target \in 1 .. Len(list) /\ Max(pages) \in pages
    OBVIOUS
  <2> HIDE DEF pages, byNumber
  <2>1. Min(pages) \in pages /\ Max(pages) \in pages
    BY <1>1, <1>5, MinIn, MaxIn
  <2>2. Min(pages) \in 1 .. Len(list)
    BY <1>5, <2>1
  <2>3. byNumber # 0 => byNumber \in 1 .. Len(list)
    BY <1>1, <1>4
  <2> QED
    BY <2>1, <2>2, <2>3
<1>7. ASSUME pages # {}
      PROVE  LET w == [list EXCEPT ![target] =
                         [number |-> fhdr.section_info_id,
                          size |-> list[Max(pages)].size,
                          address |-> list[Max(pages)].address]]
             IN  ListRight(w) /\ Len(w) = Len(list)
  <2>1. PICK t \in 1 .. Len(list), m \in pages : t = target /\ m = Max(pages)
    BY <1>6, <1>7
  <2>2. PICK e : e = [number |-> si + 1, size |-> list[m].size,
                      address |-> list[m].address]
    OBVIOUS
  <2>3. e \in Numbered /\ e.number = si + 1
        /\ e.address = section[si - 1].address
    <3>1. m \in 1 .. Len(list)
      BY <1>5, <2>1
    <3>2. list[m].size \in Int /\ list[m].address \in Int
      BY <1>1, <3>1
    <3>3. list[m].address = section[si - 1].address
      BY <1>5
    <3> QED
      BY <1>2, <2>2, <3>2, <3>3 DEF Numbered
  <2>4. PICK w : w = [list EXCEPT ![t] = e]
    OBVIOUS
  <2>5. /\ w \in Seq(Numbered) /\ Len(w) = Len(list) /\ w[t] = e
        /\ \A f \in 1 .. Len(list) : f # t => w[f] = list[f]
    BY ONLY <1>1, <2>3, <2>4, t \in 1 .. Len(list)
  <2>6. ASSUME NEW f \in 1 .. Len(w)
        PROVE  /\ \A i \in 1 .. si - 2 :
                    w[f].number = i => w[f].address = section[i].address
               /\ w[f].number = si + 2 => w[f].address = section[si].address
               /\ f <= Len(map) /\ w[f].number = si + 1 =>
                    w[f].address = section[si - 1].address
    <3>1. CASE f = t
      BY <1>2, <2>3, <2>5, <3>1
    <3>2. CASE f # t
      <4>1. w[f] = list[f] /\ f \in 1 .. Len(list)
        BY <2>5, <3>2
      <4> QED
        BY <4>1 DEF ListRight
    <3> QED
      BY <3>1, <3>2
  <2>7. ListRight(w) /\ Len(w) = Len(list)
    BY <2>5, <2>6 DEF ListRight
  <2> HIDE DEF pages, target, byNumber
  <2> QED
    BY <1>3, <2>1, <2>2, <2>4, <2>7
<1>8. LET w == Append(list, [number |-> fhdr.section_info_id, size |-> 0,
                             address |-> list[Len(list)].address
                                           + list[Len(list)].size])
      IN  ListRight(w) /\ Len(w) = Len(list) + 1
  <2>1. PICK e : e = [number |-> fhdr.section_info_id, size |-> 0,
                      address |-> list[Len(list)].address
                                    + list[Len(list)].size]
    OBVIOUS
  <2>2. Len(list) \in 1 .. Len(list)
    BY <1>1
  <2>3. list[Len(list)].address + list[Len(list)].size \in Int
    BY <1>1, <2>2
  <2>4. e \in Numbered /\ e.number = si + 1
    BY <1>2, <1>3, <2>1, <2>3 DEF Numbered
  <2>5. ListRight(Append(list, e)) /\ Len(Append(list, e)) = Len(list) + 1
    BY <1>2, <2>4, AppendRight
  <2> QED
    BY <2>1, <2>5
<1>9. ListRight(list) /\ Len(list) <= Len(list) + 1
  BY <1>1
<1> HIDE DEF byNumber, pages, target
<1> QED
  BY <1>1, <1>7, <1>8, <1>9 DEF Repaired, byNumber, pages, target

LEMMA RepairMapStep ==
  ASSUME FileDone, FoundInv, RepairMap
  PROVE  FoundInv'
<1>1. /\ phase = "map" /\ phase' = "info" /\ k > Len(map)
      /\ FindIn(found, fhdr.section_map_id) = 0
      /\ found' = Repaired(WithMap)
      /\ address' = address /\ section' = section
      /\ si' = si /\ map' = map /\ program' = program
  BY DEF RepairMap, layout, written
<1>2. /\ found \in Seq(Numbered) /\ Len(found) = Len(map)
      /\ \A f \in 1 .. Len(map) :
           /\ found[f].number = map[f].number
           /\ found[f].address = section[f].address
      /\ FoundRight /\ address \in Int /\ address >= FirstAddress
  BY <1>1, MapRead
<1>3. fhdr.section_map_id = si + 2
  BY <1>1 DEF FileDone, HeaderInv
<1>4. /\ si \in Nat /\ si >= 2 /\ MapAddress = section[si].address
      /\ section[si].address \in Nat
  <2>1. si \in Nat /\ si >= 2 /\ MapAddress = section[si].address
    BY FileFacts
  <2>2. si \in 1 .. si
    BY <2>1
  <2> QED
    BY <2>1, <2>2, FileFacts
<1>5. Len(map) \in Nat /\ Len(found) \in Nat
  BY <1>2, MapFacts
<1>6. program # "this"
  <2> SUFFICES ASSUME program = "this" PROVE FALSE
    OBVIOUS
  <2>1. Len(map) = si
    BY MapFacts
  <2>2. si \in 1 .. Len(map) /\ si \in 1 .. Len(found)
    BY <1>2, <1>4, <2>1
  <2>3. found[si].number = si + 2
    BY <1>2, <2>2, MapFacts
  <2> QED
    BY <1>1, <1>2, <1>3, <2>2, <2>3, FindFacts
<1>7. PICK e : e = [number |-> fhdr.section_map_id, address |-> MapAddress,
                    size |-> IF found = <<>> THEN 0
                             ELSE MapAddress - found[Len(found)].address]
  OBVIOUS
<1>8. e \in Numbered /\ e.number = si + 2 /\ e.address = section[si].address
  <2>1. (IF found = <<>> THEN 0
         ELSE MapAddress - found[Len(found)].address) \in Int
    <3>1. CASE found = <<>>
      BY <3>1
    <3>2. CASE found # <<>>
      <4>1. Len(found) \in 1 .. Len(found)
        BY <1>2, <3>2
      <4>2. found[Len(found)] \in Numbered
        BY <1>2, <4>1
      <4>3. found[Len(found)].address \in Int
        BY <4>2 DEF Numbered
      <4> QED
        BY <1>4, <3>2, <4>3
    <3> QED
      BY <3>1, <3>2
  <2> QED
    BY <1>3, <1>4, <1>7, <2>1 DEF Numbered
<1>9. ListRight(found)
  BY <1>2 DEF FoundRight, ListRight
<1>10. PICK list : list = Append(found, e)
  OBVIOUS
<1>11. ListRight(list) /\ Len(list) = Len(map) + 1
  BY <1>2, <1>4, <1>5, <1>8, <1>9, <1>10, AppendRight
<1>12. WithMap = list
  BY <1>7, <1>10 DEF WithMap
<1>13. ListRight(found') /\ Len(found') <= Len(map) + 2
  <2>1. Len(list) >= Len(map) /\ Len(list) >= 1
    BY <1>5, <1>11
  <2>2. ListRight(Repaired(list)) /\ Len(Repaired(list)) <= Len(list) + 1
    BY <1>11, <2>1, RepairedRight
  <2>3. found' = Repaired(list)
    BY <1>1, <1>12
  <2> QED
    BY <1>5, <1>11, <2>2, <2>3
<1>14. FoundRight' /\ found' \in Seq(Numbered)
  BY <1>1, <1>13 DEF FoundRight, ListRight
<1> QED
  BY <1>1, <1>2, <1>6, <1>13, <1>14 DEF FoundInv, Numbered

LEMMA FoundStays ==
  ASSUME FoundInv, phase \notin {"layout", "pages", "map"},
         phase' \notin {"layout", "pages", "map"},
         program' = program, found' = found, address' = address,
         mapError' = mapError, section' = section, si' = si, map' = map
  PROVE  FoundInv'
<1>1. FoundRight'
  BY FoundRightStays DEF FoundInv
<1>2. \A i : Number(i)' = Number(i)
  BY DEF Number
<1> QED
  BY <1>1, <1>2 DEF FoundInv

-----------------------------------------------------------------------------
(* The reader of a section.                                                *)

(* Every section has its place among the types. *)
LEMMA TypePlace ==
  \A t \in Types : \E j \in 1 .. NumTypes : AllTypes[j] = t
<1> TAKE t \in Types
<1>1. NumTypes \in Nat /\ NumTypes >= 2
  BY TypesNumber
<1>2. CASE t \in DataTypes
  <2>1. PICK j \in 1 .. NumTypes - 2 : AllTypes[j] = t
    BY <1>2, TypeFacts
  <2>2. j \in 1 .. NumTypes
    BY <1>1
  <2> QED
    BY <2>1, <2>2
<1>3. CASE t = "info"
  <2>1. NumTypes - 1 \in 1 .. NumTypes
    BY <1>1
  <2> QED
    BY <1>3, <2>1, LastTypes
<1>4. CASE t = "map"
  <2>1. NumTypes \in 1 .. NumTypes
    BY <1>1
  <2> QED
    BY <1>4, <2>1, LastTypes
<1> QED
  BY <1>2, <1>3, <1>4 DEF Types

(* A page of a data section that is found is found at its address. *)
LEMMA DataPageFound ==
  ASSUME FileDone, FoundInv, phase \notin {"layout", "pages", "map"},
         NEW t \in DataTypes, NEW q \in 1 .. NumPages(t)
  PROVE  LET f == FindIn(found, PageOf(t, q).number)
         IN  /\ program = "this" => f # 0
             /\ f # 0 => LET p == CHOOSE x \in file : x.at = found[f].address
                         IN  /\ p \in file /\ p.type = t
                             /\ p.first = (q - 1) * PageSize[t]
                             /\ p.start = p.first
                             /\ program = "this" => p.ok
<1> DEFINE f == FindIn(found, PageOf(t, q).number)
<1>1. PICK j \in 1 .. NumTypes : AllTypes[j] = t
  BY TypePlace DEF Types
<1>2. PICK i : i = Laid[j - 1] + q
  OBVIOUS
<1>3. /\ i \in 1 .. si /\ PageOf(t, q) = section[i]
      /\ \E p \in file : p.at = section[i].address
      /\ \A p \in file : p.at = section[i].address => IsPage(p, j, q)
  BY <1>1, <1>2, PageAt, PageIs DEF FileDone
<1>4. /\ content \in [DataTypes -> Lengths] /\ si \in Nat /\ si >= 2
      /\ si = Laid[NumTypes] /\ NumTypes \in Nat
  BY FileFacts
<1>5. i \in 1 .. si - 2
  <2>1. j <= NumTypes - 2
    BY <1>1, TypeFacts
  <2>2. j \in 0 .. NumTypes /\ NumTypes - 2 \in 0 .. NumTypes
    BY <1>4, <2>1
  <2>3. Laid[j] <= Laid[NumTypes - 2] /\ Laid[NumTypes - 2] = si - 2
    BY <1>4, <2>1, <2>2, LaidFacts, SystemPages
  <2>4. Laid[j] = Laid[j - 1] + NumPages(AllTypes[j]) /\ Laid[j - 1] \in Nat
        /\ NumPages(AllTypes[j]) \in Nat
    BY <1>4, PageFacts
  <2> QED
    BY <1>1, <1>2, <1>3, <1>4, <2>3, <2>4
<1>6. section[i].number = i
  <2>1. section[i].number = IF i > si - 2 THEN i + 2 ELSE i
    BY <1>3, FileFacts
  <2> QED
    BY <1>4, <1>5, <2>1
<1>7. f = FindIn(found, i)
  BY <1>3, <1>6
<1>8. found \in Seq(Numbered) /\ FoundRight /\ Len(found) \in Nat
      /\ (program = "this" => /\ Len(found) = si
                              /\ \A x \in 1 .. si : found[x].number = Number(x))
  <2>1. found \in Seq(Numbered)
    BY DEF FoundInv, Numbered
  <2> QED
    BY <2>1 DEF FoundInv
<1>9. ASSUME program = "this" PROVE f # 0
  <2>1. found[i].number = i /\ i \in 1 .. Len(found)
    BY <1>3, <1>4, <1>5, <1>8, <1>9 DEF Number
  <2> QED
    BY <1>7, <1>8, <2>1, FindFacts
<1>10. ASSUME f # 0 PROVE found[f].address = section[i].address
  <2>1. PICK g \in 0 .. Len(found) : g = f /\ (g # 0 => found[g].number = i)
    BY <1>7, <1>8, FindFacts
  <2>2. g \in 1 .. Len(found) /\ found[g].number = i
    BY <1>8, <1>10, <2>1
  <2> QED
    BY <1>5, <1>8, <2>1, <2>2 DEF FoundRight
<1>11. ASSUME f # 0
       PROVE  LET p == CHOOSE x \in file : x.at = found[f].address
              IN  /\ p \in file /\ p.type = t
                  /\ p.first = (q - 1) * PageSize[t]
                  /\ p.start = p.first
                  /\ program = "this" => p.ok
  <2>1. PICK p : p = CHOOSE x \in file : x.at = found[f].address
    OBVIOUS
  <2>2. p \in file /\ p.at = section[i].address
    <3> HIDE DEF f
    <3> QED
      BY <1>3, <1>10, <1>11, <2>1
  <2>3. IsPage(p, j, q)
    BY <1>3, <2>2
  <2>4. /\ p.type = t /\ p.first = (q - 1) * PageSize[t]
        /\ p.start = p.first /\ (program = "this" => p.ok)
    BY <1>1, <2>3 DEF IsPage
  <2> QED
    BY <2>1, <2>2, <2>4
<1> QED
  BY <1>9, <1>11

(* A file of this program names its section info. *)
LEMMA InfoFound ==
  ASSUME FileDone, FoundInv, phase \notin {"layout", "pages", "map"},
         program = "this"
  PROVE  InfoSection # 0 /\ KindAt(found[InfoSection].address) = "info"
<1>1. /\ si \in Nat /\ si >= 2
  BY FileFacts
<1>2. fhdr.section_info_id = si + 1
  BY DEF FileDone, HeaderInv
<1>3. found \in Seq(Numbered) /\ FoundRight /\ Len(found) = si
      /\ \A x \in 1 .. si : found[x].number = Number(x)
  <2>1. found \in Seq(Numbered)
    BY DEF FoundInv, Numbered
  <2> QED
    BY <2>1 DEF FoundInv
<1>4. found[si - 1].number = si + 1 /\ si - 1 \in 1 .. Len(found)
  BY <1>1, <1>3 DEF Number
<1>5. PICK g \in 0 .. Len(found) : /\ g = InfoSection
                                   /\ g # 0 => found[g].number = si + 1
                                   /\ g # 0
  BY <1>2, <1>3, <1>4, FindFacts DEF InfoSection
<1>6. g \in 1 .. Len(found) /\ found[g].number = si + 1
  BY <1>1, <1>3, <1>5
<1>7. Len(map) = si
  BY MapFacts
<1>8. found[g].address = section[si - 1].address
  <2>1. g <= Len(map)
    BY <1>1, <1>3, <1>6, <1>7
  <2> QED
    BY <1>3, <1>6, <2>1 DEF FoundRight
<1> QED
  BY <1>5, <1>8, InfoPage

(* Described sections. *)
LEMMA DescribedFacts ==
  ASSUME NEW t
  PROVE  /\ Described(t).type = IF t \in DataTypes THEN t ELSE ""
         /\ Described(t).size = Bytes(t)
         /\ Described(t).pages = [p \in 1 .. NumPages(t) |->
                                    FindIn(found, PageOf(t, p).number)]
BY DEF Described

LEMMA DescribedStays ==
  ASSUME content' = content, section' = section, section_info' = section_info,
         found' = found
  PROVE  \A t : Described(t)' = Described(t)
<1>1. \A t : Bytes(t)' = Bytes(t) /\ NumPages(t)' = NumPages(t)
  BY LaidStays
<1>2. \A t, p : PageOf(t, p)' = PageOf(t, p)
  BY DEF PageOf, PagesOf, InfoOf, SelectInSeq
<1>3. \A t : Described(t)' = [type |-> IF t \in DataTypes THEN t ELSE "",
                             size |-> Bytes(t)',
                             pages |-> [p \in 1 .. NumPages(t)' |->
                               FindIn(found, PageOf(t, p).number)']]
  BY DEF Described
<1>4. \A t, p : FindIn(found, PageOf(t, p).number)'
                  = FindIn(found, PageOf(t, p).number)
  BY <1>2 DEF FindIn, SelectInSeq
<1> QED
  BY <1>1, <1>3, <1>4 DEF Described

LEMMA ReadInfoStep ==
  ASSUME FileDone, FoundInv, ReadInv, ReadInfo
  PROVE  FoundInv' /\ ReadInv'
<1>1. /\ phase = "info" /\ phase' = "open"
      /\ infos' = InfosIn(MapOrder \o <<"info", "map">>,
                          LAMBDA t : <<Described(t)>>)
      /\ program' = program /\ content' = content /\ found' = found
      /\ address' = address /\ mapError' = mapError /\ section' = section
      /\ si' = si /\ map' = map /\ section_info' = section_info
      /\ block' = block
  BY DEF ReadInfo, layout, written
<1>2. FoundInv'
  BY <1>1, FoundStays
<1> DEFINE order == MapOrder \o <<"info", "map">>
           L == Len(order)
           seqs == [i \in 1 .. L |-> IF InfoOf(order[i]) = 0 THEN <<>>
                                     ELSE <<Described(order[i])>>]
           S == {Described(t) : t \in Types}
<1>3. infos' = FlattenSeq(seqs)
  BY <1>1 DEF InfosIn
<1>4. order \in Seq(Types) /\ L \in Nat
      /\ \A t \in DataTypes : \E i \in 1 .. L : order[i] = t
  <2>1. DataTypes \subseteq Types /\ "info" \in Types /\ "map" \in Types
    BY DEF Types
  <2>2. MapOrder \in Seq(DataTypes) /\ Range(MapOrder) = DataTypes
    BY SectionPagesConstants
  <2>3. MapOrder \in Seq(Types) /\ Len(MapOrder) \in Nat
    BY <2>1, <2>2
  <2>4. <<"info", "map">> \in Seq(Types) /\ Len(<<"info", "map">>) = 2
    BY <2>1
  <2>5. order \in Seq(Types)
    BY <2>3, <2>4
  <2>6. L = Len(MapOrder) + 2
    BY <2>3, <2>4
  <2>7. \A i \in 1 .. Len(MapOrder) : order[i] = MapOrder[i]
    BY <2>3, <2>4
  <2>8. ASSUME NEW t \in DataTypes PROVE \E i \in 1 .. L : order[i] = t
    <3>1. PICK i \in DOMAIN MapOrder : MapOrder[i] = t
      BY <2>2 DEF Range
    <3>2. i \in 1 .. Len(MapOrder)
      BY <2>2, <3>1
    <3>3. i \in 1 .. L
      BY <2>3, <2>6, <3>2
    <3> QED
      BY <2>7, <3>1, <3>2, <3>3
  <2> HIDE DEF order
  <2> QED
    BY <2>5, <2>8
<1> HIDE DEF order
<1>5. ASSUME NEW i \in 1 .. L
      PROVE  /\ order[i] \in Types
             /\ seqs[i] = <<>> \/ (seqs[i] = <<Described(order[i])>>
                                     /\ InfoOf(order[i]) # 0)
             /\ InfoOf(order[i]) # 0 => seqs[i] = <<Described(order[i])>>
             /\ seqs[i] \in Seq(S)
  <2>1. order[i] \in Types
    BY <1>4
  <2>2. seqs[i] = IF InfoOf(order[i]) = 0 THEN <<>>
                  ELSE <<Described(order[i])>>
    OBVIOUS
  <2>3. Described(order[i]) \in S
    BY <2>1
  <2>4. <<>> \in Seq(S) /\ <<Described(order[i])>> \in Seq(S)
    <3> HIDE DEF S
    <3> QED
      BY <2>3
  <2> HIDE DEF S, seqs
  <2> QED
    BY <2>1, <2>2, <2>4
<1>6. Len(seqs) = L /\ seqs \in Seq(Seq(S))
  <2>1. PICK n \in Nat : n = L
    BY <1>4
  <2>2. PICK g : g = seqs
    OBVIOUS
  <2>3. g = [i \in 1 .. n |-> g[i]]
    BY <2>1, <2>2
  <2> HIDE DEF S, seqs
  <2>4. \A i \in 1 .. n : g[i] \in Seq(S)
    BY <1>5, <2>1, <2>2
  <2>5. g \in [1 .. n -> Seq(S)]
    BY <2>3, <2>4
  <2>6. g \in Seq(Seq(S)) /\ Len(g) = n
    BY ONLY <2>5, n \in Nat
  <2> QED
    BY <2>1, <2>2, <2>6
<1> HIDE DEF S, seqs
<1>7. /\ infos' \in Seq(S)
      /\ \A e \in 1 .. Len(infos') :
           \E i \in 1 .. L : \E p \in 1 .. Len(seqs[i]) :
             infos'[e] = seqs[i][p]
      /\ \A i \in 1 .. L : \A p \in 1 .. Len(seqs[i]) :
           \E e \in 1 .. Len(infos') : infos'[e] = seqs[i][p]
  <2>1. PICK T, g, w : T = S /\ g = seqs /\ w = infos'
    OBVIOUS
  <2>2. g \in Seq(Seq(T)) /\ w = FlattenSeq(g) /\ Len(g) = L
    BY <1>3, <1>6, <2>1
  <2>3. g \in Seq(Seq(T))
    BY <2>2
  <2>4. /\ FlattenSeq(g) \in Seq(T)
        /\ \A e \in 1 .. Len(FlattenSeq(g)) :
             \E i \in 1 .. Len(g) : \E p \in 1 .. Len(g[i]) :
               FlattenSeq(g)[e] = g[i][p]
        /\ \A i \in 1 .. Len(g) : \A p \in 1 .. Len(g[i]) :
             \E e \in 1 .. Len(FlattenSeq(g)) : FlattenSeq(g)[e] = g[i][p]
    BY ONLY <2>3, FlattenElements
  <2> QED
    BY ONLY <2>1, <2>2, <2>4
<1>8. Done = NumTypes /\ LaidInv /\ content \in [DataTypes -> Lengths]
  BY FileFacts DEF FileDone
<1>9. ASSUME NEW d \in 1 .. Len(infos')
      PROVE  \E j \in 1 .. NumTypes :
               Bytes(AllTypes[j]) > 0 /\ infos'[d] = Described(AllTypes[j])
  <2>1. PICK i \in 1 .. L : \E p \in 1 .. Len(seqs[i]) : infos'[d] = seqs[i][p]
    BY <1>7
  <2>2. PICK p \in 1 .. Len(seqs[i]) : infos'[d] = seqs[i][p]
    BY <2>1
  <2>3. seqs[i] # <<>>
    BY <2>2
  <2>4. seqs[i] = <<Described(order[i])>> /\ InfoOf(order[i]) # 0
        /\ order[i] \in Types
    BY <1>5, <2>3
  <2>5. infos'[d] = Described(order[i])
    BY <2>2, <2>4
  <2>6. PICK j \in 1 .. NumTypes : AllTypes[j] = order[i]
    BY <2>4, TypePlace
  <2>7. Bytes(AllTypes[j]) # 0 /\ Bytes(AllTypes[j]) \in Nat
    BY <1>8, <2>4, <2>6, InfoFacts, PageFacts
  <2> QED
    BY <2>5, <2>6, <2>7
<1>10. ASSUME NEW t \in DataTypes, content[t] > 0
       PROVE  \E d \in 1 .. Len(infos') : infos'[d].type = t
  <2>1. PICK i \in 1 .. L : order[i] = t
    BY <1>4
  <2>2. PICK j \in 1 .. NumTypes : AllTypes[j] = t
    BY TypePlace DEF Types
  <2>3. Bytes(AllTypes[j]) > 0 /\ j <= Done
    BY <1>8, <1>10, <2>2, TypesNumber DEF Bytes
  <2>4. InfoOf(AllTypes[j]) \in 1 .. Len(section_info)
    BY <1>8, <2>3, InfoFacts
  <2>5. Len(section_info) \in Nat
    BY <1>8 DEF LaidInv
  <2>6. seqs[i] = <<Described(t)>>
    BY <1>5, <2>1, <2>2, <2>4, <2>5
  <2>7. Len(seqs[i]) = 1 /\ seqs[i][1] = Described(t)
    BY <2>6
  <2>9. \E d \in 1 .. Len(infos') : infos'[d] = seqs[i][1]
    <3>1. 1 \in 1 .. Len(seqs[i])
      BY <2>7
    <3> QED
      BY <1>7, <3>1
  <2>8. PICK d \in 1 .. Len(infos') : infos'[d] = Described(t)
    BY <2>7, <2>9
  <2> QED
    BY <2>8, DescribedFacts
<1>11. InfosRead'
  <2>1. Len(infos') \in Nat
    BY <1>7
  <2>2. NumTypes' = NumTypes /\ AllTypes' = AllTypes
        /\ \A t : Bytes(t)' = Bytes(t) /\ NumPages(t)' = NumPages(t)
    BY <1>1, LaidStays DEF NumTypes, AllTypes
  <2>3. \A t : Described(t)' = Described(t)
    BY <1>1, DescribedStays
  <2> QED
    BY <1>1, <1>9, <1>10, <2>1, <2>2, <2>3 DEF InfosRead
<1>12. ReadInv'
  <2>1. OwnFileReads'
    BY <1>1 DEF FoundInv, OwnFileReads
  <2>2. BytesInPlace'
    BY <1>1 DEF BytesInPlace
  <2> QED
    BY <1>1, <1>11, <2>1, <2>2 DEF ReadInv
<1> QED
  BY <1>2, <1>12

LEMMA InfosReadStays ==
  ASSUME InfosRead, content' = content, section' = section,
         section_info' = section_info, found' = found, infos' = infos
  PROVE  InfosRead'
<1>1. NumTypes' = NumTypes /\ AllTypes' = AllTypes
      /\ \A t : Bytes(t)' = Bytes(t)
  BY LaidStays DEF NumTypes, AllTypes
<1>2. \A t : Described(t)' = Described(t)
  BY DescribedStays
<1> QED
  BY <1>1, <1>2 DEF InfosRead

LEMMA NoInfoStep ==
  ASSUME FileDone, FoundInv, ReadInv, NoInfo
  PROVE  FoundInv' /\ ReadInv'
<1>1. /\ phase = "info" /\ phase' = "failed"
      /\ InfoSection = 0 \/ KindAt(found[InfoSection].address) # "info"
      /\ program' = program /\ found' = found /\ address' = address
      /\ mapError' = mapError /\ section' = section /\ si' = si /\ map' = map
  BY DEF NoInfo, layout, written, reader
<1>2. FoundInv'
  BY <1>1, FoundStays
<1>3. program # "this"
  BY <1>1, InfoFound
<1> QED
  BY <1>1, <1>2, <1>3 DEF ReadInv, OwnFileReads, BytesInPlace

(* A data section is known when it has bytes. *)
LEMMA KnownHasBytes ==
  ASSUME FileDone, InfosRead, NEW t \in DataTypes, NEW d \in 1 .. Len(infos),
         infos[d].type = t
  PROVE  content[t] > 0 /\ infos[d] = Described(t)
<1>1. PICK j \in 1 .. NumTypes :
        Bytes(AllTypes[j]) > 0 /\ infos[d] = Described(AllTypes[j])
  BY DEF InfosRead
<1>2. AllTypes[j] = t
  <2>1. infos[d].type = IF AllTypes[j] \in DataTypes THEN AllTypes[j] ELSE ""
    BY <1>1, DescribedFacts
  <2>2. "" \notin DataTypes
    BY LastTypes
  <2> QED
    BY <2>1, <2>2
<1> QED
  BY <1>1, <1>2 DEF Bytes

(* The sizes of a data section. *)
LEMMA DataSizes ==
  ASSUME FileDone, NEW t \in DataTypes
  PROVE  /\ content[t] \in Nat /\ NumPages(t) \in Nat
         /\ PageSize[t] \in Nat \ {0} /\ t \in Types
         /\ NumPages(t) * PageSize[t] \in Nat
         /\ content[t] <= NumPages(t) * PageSize[t]
         /\ content[t] > 0 => NumPages(t) > 0
<1>1. t \in Types /\ content \in [DataTypes -> Lengths]
  BY FileFacts DEF Types
<1>2. /\ content[t] \in Nat /\ NumPages(t) \in Nat
      /\ content[t] <= NumPages(t) * PageSize[t]
      /\ content[t] > 0 => NumPages(t) > 0
  BY <1>1, Pages
<1>3. PageSize[t] \in Nat \ {0}
  BY <1>1, Sizes
<1>4. \A a \in Nat, b \in Nat : a * b \in Nat
  OBVIOUS
<1>5. NumPages(t) * PageSize[t] \in Nat
  BY <1>2, <1>3, <1>4
<1> QED
  BY <1>1, <1>2, <1>3, <1>5

LEMMA OpenSectionStep ==
  ASSUME FileDone, FoundInv, ReadInv, OpenSection
  PROVE  FoundInv' /\ ReadInv'
<1>1. PICK t \in DataTypes :
        /\ type' = t
        /\ IF \E d \in 1 .. Len(infos) : infos[d].type = t
           THEN /\ dec' = [b \in 0 .. NumPages(t) * PageSize[t] - 1 |-> Zero]
                /\ phase' = "read" /\ error' = "none"
           ELSE /\ dec' = <<>>
                /\ phase' = "done" /\ error' = "notfound"
  BY DEF OpenSection
<1>2. /\ phase = "open" /\ k' = 1 /\ program' = program /\ content' = content
      /\ found' = found /\ address' = address /\ mapError' = mapError
      /\ section' = section /\ si' = si /\ map' = map
      /\ section_info' = section_info /\ infos' = infos
  BY DEF OpenSection, layout, written
<1>3. FoundInv' /\ phase' \in {"read", "done"}
  <2>1. phase' \in {"read", "done"}
    BY <1>1
  <2> QED
    BY <1>2, <2>1, FoundStays
<1>4. InfosRead /\ InfosRead'
  BY <1>2, InfosReadStays DEF ReadInv
<1>5. \A a : NumPages(a)' = NumPages(a)
  BY <1>2, LaidStays
<1>6. /\ content[t] \in Nat /\ NumPages(t) \in Nat /\ PageSize[t] \in Nat \ {0}
  BY DataSizes
<1>7. mapError' = FALSE \/ program' # "this"
  BY <1>3 DEF FoundInv
<1>8. CASE \E d \in 1 .. Len(infos) : infos[d].type = t
  <2>1. content[t] > 0
    BY <1>4, <1>8, KnownHasBytes
  <2>2. /\ dec' = [b \in 0 .. NumPages(t) * PageSize[t] - 1 |-> Zero]
        /\ phase' = "read" /\ error' = "none"
    BY <1>1, <1>8
  <2>3. ReadSoFar'
    <3>1. (k' - 1) * PageSize[t] = 0 /\ k' <= NumPages(t) + 1
      BY <1>2, <1>6
    <3>2. \A b \in 0 .. content[t] - 1 : ~ (b < (k' - 1) * PageSize[t])
      BY <3>1
    <3>3. DOMAIN dec' = 0 .. NumPages(t) * PageSize[t] - 1
      BY <2>2
    <3> QED
      BY <1>1, <1>2, <1>5, <2>1, <2>2, <3>1, <3>2, <3>3 DEF ReadSoFar
  <2>4. OwnFileReads' /\ BytesInPlace'
    BY <1>1, <1>7, <2>2 DEF OwnFileReads, BytesInPlace
  <2> QED
    BY <1>1, <1>3, <1>4, <2>2, <2>3, <2>4 DEF ReadInv
<1>9. CASE ~ \E d \in 1 .. Len(infos) : infos[d].type = t
  <2>1. content[t] = 0
    BY <1>4, <1>6, <1>9 DEF InfosRead
  <2>2. /\ dec' = <<>> /\ phase' = "done" /\ error' = "notfound"
    BY <1>1, <1>9
  <2>3. OwnFileReads' /\ BytesInPlace'
    BY <1>1, <1>2, <1>7, <2>1, <2>2 DEF OwnFileReads, BytesInPlace
  <2> QED
    BY <1>1, <1>3, <1>4, <2>2, <2>3 DEF ReadInv
<1> QED
  BY <1>3, <1>8, <1>9

(* The section that is read. *)
LEMMA ReadNow ==
  ASSUME FileDone, ReadInv, phase = "read"
  PROVE  /\ type \in DataTypes /\ Info = Described(type) /\ ReadSoFar
         /\ Len(Info.pages) = NumPages(type) /\ Info.size = content[type]
         /\ \A p \in 1 .. NumPages(type) :
              Info.pages[p] = FindIn(found, PageOf(type, p).number)
<1>1. type \in DataTypes /\ ReadSoFar /\ InfosRead
  BY DEF ReadInv
<1> DEFINE I == {d \in 1 .. Len(infos) : infos[d].type = type}
           at == SelectInSeq(infos, LAMBDA d : d.type = type)
<1>2. at = IF I # {} THEN Min(I) ELSE 0
  BY DEF SelectInSeq
<1>3. Len(infos) \in Nat /\ I \subseteq Nat
  BY <1>1 DEF InfosRead
<1>4. I # {}
  BY <1>1 DEF InfosRead, ReadSoFar
<1>5. at \in I
  <2> HIDE DEF I
  <2>1. Min(I) \in I
    BY <1>3, <1>4, MinIn
  <2> QED
    BY <1>2, <1>4, <2>1
<1>6. Info = infos[at]
  BY DEF Info
<1>7. infos[at] = Described(type)
  <2>1. PICK d \in 1 .. Len(infos) : d = at /\ infos[d].type = type
    BY <1>5
  <2> QED
    BY <1>1, <2>1, KnownHasBytes
<1>8. Info = Described(type)
  BY <1>6, <1>7
<1>9. NumPages(type) \in Nat
  BY <1>1, DataSizes
<1>10. Info.pages = [p \in 1 .. NumPages(type) |->
                       FindIn(found, PageOf(type, p).number)]
  BY <1>8, DescribedFacts
<1>11. Info.size = content[type]
  BY <1>1, <1>8, DescribedFacts DEF Bytes
<1>12. Len(Info.pages) = NumPages(type)
       /\ \A p \in 1 .. NumPages(type) :
            Info.pages[p] = FindIn(found, PageOf(type, p).number)
  <2>1. PICK n, g : n \in Nat /\ n = NumPages(type) /\ g = Info.pages
    BY <1>9
  <2>2. g = [p \in 1 .. n |-> FindIn(found, PageOf(type, p).number)]
    BY <1>10, <2>1
  <2>3. Len(g) = n
    <3>1. n \in Nat
      BY <2>1
    <3> QED
      BY ONLY <2>2, <3>1
  <2> QED
    BY <2>1, <2>2, <2>3
<1> QED
  BY <1>1, <1>8, <1>11, <1>12

(* The bytes of a page are put where they belong. *)
PageFor(p, t, st) == p.type = t /\ p.first = st /\ p.start = st

PlacedIn(bytes, n, t, st, e) ==
  /\ DOMAIN bytes = 0 .. e - 1
  /\ \A b \in 0 .. e - 1 :
       bytes[b] = IF b >= st /\ b < st + n
                  THEN IF b < content[t] THEN <<t, b>> ELSE Zero
                  ELSE dec[b]

LEMMA PlacedFacts ==
  ASSUME NEW t, NEW st \in Nat, NEW e \in Nat, NEW p, NEW n \in Int,
         DOMAIN dec = 0 .. e - 1, PageFor(p, t, st)
  PROVE  PlacedIn(Placed(p, n), n, t, st, e)
<1>0. p.type = t /\ p.first = st /\ p.start = st
  BY DEF PageFor
<1>1. \A b \in 0 .. e - 1 : st + (b - st) = b
  OBVIOUS
<1>2. \A b \in 0 .. e - 1 :
        ByteOf(p, b - st) = IF b < content[t] THEN <<t, b>> ELSE Zero
  BY <1>0, <1>1 DEF ByteOf
<1> QED
  BY <1>0, <1>2 DEF Placed, PlacedIn

LEMMA SkipPageStep ==
  ASSUME FileDone, FoundInv, ReadInv, SkipPage
  PROVE  FoundInv' /\ ReadInv'
<1>1. /\ phase = "read" /\ k <= Len(Info.pages) /\ Info.pages[k] = 0
      /\ IF LastPage
         THEN phase' = "done" /\ error' = "notfound" /\ dec' = <<>>
         ELSE phase' = phase /\ error' = error /\ dec' = dec
      /\ k' = k + 1 /\ type' = type
      /\ program' = program /\ content' = content
      /\ found' = found /\ address' = address /\ mapError' = mapError
      /\ section' = section /\ si' = si /\ map' = map
      /\ section_info' = section_info /\ infos' = infos
  BY DEF SkipPage, layout, written
<1>2. /\ type \in DataTypes /\ ReadSoFar /\ Len(Info.pages) = NumPages(type)
      /\ \A p \in 1 .. NumPages(type) :
           Info.pages[p] = FindIn(found, PageOf(type, p).number)
  BY <1>1, ReadNow
<1>3. NumPages(type) \in Nat /\ content[type] > 0 /\ k \in Nat \ {0}
  BY <1>2, DataSizes DEF ReadSoFar, FileDone, LaidInv
<1>4. k \in 1 .. NumPages(type)
  BY <1>1, <1>2, <1>3
<1>5. program # "this"
  BY <1>1, <1>2, <1>4, DataPageFound
<1>6. FoundInv'
  <2>1. phase' \notin {"layout", "pages", "map"}
    BY <1>1
  <2> QED
    BY <1>1, <2>1, FoundStays
<1>7. InfosRead'
  BY <1>1, InfosReadStays DEF ReadInv
<1>8. OwnFileReads'
  BY <1>1, <1>5 DEF OwnFileReads
<1>9. \A a : NumPages(a)' = NumPages(a)
  BY <1>1, LaidStays
<1>10. CASE LastPage
  <2>1. BytesInPlace'
    BY <1>1, <1>10 DEF BytesInPlace
  <2> QED
    BY <1>1, <1>2, <1>6, <1>7, <1>8, <1>10, <2>1 DEF ReadInv
<1>11. CASE ~ LastPage
  <2>1. phase' = "read" /\ error' = error /\ dec' = dec
    BY <1>1, <1>11
  <2>2. BytesInPlace'
    BY <1>1, <2>1 DEF ReadInv, BytesInPlace
  <2>3. k' <= NumPages(type) + 1
    BY <1>1, <1>3, <1>4
  <2>4. NumPages(type)' = NumPages(type)
    BY <1>1, <1>9 DEF NumPages, Bytes
  <2>5. ReadSoFar'
    BY <1>1, <1>2, <1>5, <2>1, <2>3, <2>4 DEF ReadSoFar
  <2> QED
    BY <1>1, <1>2, <1>6, <1>7, <1>8, <2>1, <2>2, <2>5 DEF ReadInv
<1> QED
  BY <1>10, <1>11

(* The frame of the two actions that read a page. *)
PageRead(p, n, err) ==
  /\ phase = "read" /\ k <= Len(Info.pages) /\ Info.pages[k] # 0
  /\ p = PageHere /\ n \in Int /\ dec' = Placed(p, n) /\ error' = err
  /\ k' = k + 1 /\ phase' = "read" /\ type' = type
  /\ program' = program /\ content' = content
  /\ found' = found /\ address' = address /\ mapError' = mapError
  /\ section' = section /\ si' = si /\ map' = map
  /\ section_info' = section_info /\ infos' = infos
  /\ program = "this" => /\ err = error
                         /\ n = IF Info.size - p.start < PageSize[type]
                                THEN Info.size - p.start ELSE PageSize[type]

LEMMA PageReadStep ==
  ASSUME FileDone, FoundInv, ReadInv, NEW p, NEW n, NEW err,
         PageRead(p, n, err)
  PROVE  FoundInv' /\ ReadInv'
<1>1. /\ phase = "read" /\ k <= Len(Info.pages) /\ Info.pages[k] # 0
      /\ p = PageHere /\ n \in Int /\ dec' = Placed(p, n) /\ error' = err
      /\ k' = k + 1 /\ phase' = "read" /\ type' = type
      /\ program' = program /\ content' = content
      /\ found' = found /\ address' = address /\ mapError' = mapError
      /\ section' = section /\ si' = si /\ map' = map
      /\ section_info' = section_info /\ infos' = infos
      /\ program = "this" => /\ err = error
                             /\ n = IF Info.size - p.start < PageSize[type]
                                    THEN Info.size - p.start
                                    ELSE PageSize[type]
  BY DEF PageRead
<1>2. /\ type \in DataTypes /\ ReadSoFar /\ Len(Info.pages) = NumPages(type)
      /\ Info.size = content[type]
      /\ \A q \in 1 .. NumPages(type) :
           Info.pages[q] = FindIn(found, PageOf(type, q).number)
  BY <1>1, ReadNow
<1>3. /\ NumPages(type) \in Nat /\ k \in Nat \ {0} /\ content[type] \in Nat
      /\ PageSize[type] \in Nat \ {0} /\ NumPages(type) * PageSize[type] \in Nat
      /\ content[type] <= NumPages(type) * PageSize[type] /\ type \in Types
  BY <1>2, DataSizes DEF FileDone, LaidInv
<1>4. k \in 1 .. NumPages(type)
  BY <1>1, <1>2, <1>3
<1>5. /\ p.type = type /\ p.first = (k - 1) * PageSize[type]
      /\ p.start = p.first
  BY <1>1, <1>2, <1>4, DataPageFound DEF PageHere
<1>6. PICK s \in Nat \ {0}, c \in Nat, e \in Nat, st \in Nat :
        /\ s = PageSize[type] /\ c = content[type]
        /\ e = NumPages(type) * PageSize[type]
        /\ st = (k - 1) * PageSize[type]
  BY <1>3, OffsetType
<1>7. (k' - 1) * PageSize[type] = st + s
  <2>1. \A a \in Nat \ {0}, b \in Nat : (a + 1 - 1) * b = (a - 1) * b + b
    OBVIOUS
  <2>2. (k + 1 - 1) * s = (k - 1) * s + s
    BY <1>3, <2>1
  <2>3. st = (k - 1) * s
    BY <1>6
  <2>4. (k' - 1) * PageSize[type] = (k + 1 - 1) * s
    <3>1. k' = k + 1 /\ PageSize[type] = s
      BY <1>1, <1>6
    <3>2. k' - 1 = k + 1 - 1
      BY <1>3, <3>1
    <3> QED
      BY ONLY <3>1, <3>2
  <2> QED
    BY ONLY <2>2, <2>3, <2>4
<1>8. DOMAIN dec = 0 .. e - 1
  BY <1>2, <1>6 DEF ReadSoFar
<1>9. /\ DOMAIN dec' = 0 .. e - 1
      /\ \A b \in 0 .. e - 1 :
           dec'[b] = IF b >= st /\ b < st + n
                     THEN IF b < c THEN <<type, b>> ELSE Zero
                     ELSE dec[b]
  <2>1. PICK t : t = type
    OBVIOUS
  <2>2. PageFor(p, t, st)
    BY <1>5, <1>6, <2>1 DEF PageFor
  <2>3. PlacedIn(Placed(p, n), n, t, st, e)
    BY <1>1, <1>8, <2>2, PlacedFacts
  <2> QED
    BY <1>1, <1>6, <2>1, <2>3 DEF PlacedIn
<1>10. FoundInv'
  <2>1. phase' \notin {"layout", "pages", "map"}
    BY <1>1
  <2> QED
    BY <1>1, <2>1, FoundStays
<1>11. InfosRead'
  BY <1>1, InfosReadStays DEF ReadInv
<1>12. OwnFileReads'
  <2>1. program' = "this" => ~ mapError'
    BY <1>1, <1>10 DEF FoundInv
  <2> QED
    BY <1>1, <2>1 DEF OwnFileReads
<1>13. BytesInPlace'
  <2>1. \A b \in 0 .. e - 1 : dec[b] \in {Zero, <<type, b>>}
    BY <1>1, <1>8 DEF ReadInv, BytesInPlace
  <2>2. \A b \in 0 .. e - 1 : dec'[b] \in {Zero, <<type, b>>}
    BY <1>9, <2>1
  <2>3. Zero' = Zero
    BY DEF Zero
  <2> QED
    BY <1>1, <1>9, <2>2, <2>3 DEF BytesInPlace
<1>14. ReadSoFar'
  <2>1. k' <= NumPages(type) + 1
    BY <1>1, <1>3, <1>4
  <2>2. NumPages(type)' = NumPages(type)
    BY <1>1 DEF NumPages, Bytes
  <2>3. ASSUME program = "this", NEW b \in 0 .. c - 1, b < st + s
        PROVE  dec'[b] = <<type, b>>
    <3>1. b \in 0 .. e - 1 /\ b < c
      BY <1>3, <1>6
    <3>2. CASE b < st
      <4>1. dec[b] = <<type, b>>
        BY <1>2, <1>6, <2>3, <3>2 DEF ReadSoFar
      <4> QED
        BY <1>9, <3>1, <3>2, <4>1
    <3>3. CASE ~ (b < st)
      <4>1. n = IF c - st < s THEN c - st ELSE s
        BY <1>1, <1>2, <1>5, <1>6, <2>3
      <4>2. b >= st /\ b < st + n
        BY <2>3, <3>1, <3>3, <4>1
      <4> QED
        BY <1>9, <3>1, <4>2
    <3> QED
      BY <3>2, <3>3
  <2>4. program = "this" => error' = "none"
    BY <1>1, <1>2 DEF ReadSoFar
  <2>5. \A b \in 0 .. content[type] - 1 :
          program = "this" /\ b < (k' - 1) * PageSize[type] =>
            dec'[b] = <<type, b>>
    BY <1>6, <1>7, <2>3
  <2> QED
    BY <1>1, <1>2, <1>6, <1>9, <2>1, <2>2, <2>4, <2>5 DEF ReadSoFar
<1> QED
  BY <1>1, <1>2, <1>10, <1>11, <1>12, <1>13, <1>14 DEF ReadInv

LEMMA CopyPageStep ==
  ASSUME FileDone, FoundInv, ReadInv, CopyPage
  PROVE  FoundInv' /\ ReadInv'
<1>1. phase = "read" /\ k <= Len(Info.pages) /\ Info.pages[k] # 0
  BY DEF CopyPage
<1>2. /\ type \in DataTypes /\ ReadSoFar /\ Len(Info.pages) = NumPages(type)
      /\ Info.size = content[type]
      /\ \A q \in 1 .. NumPages(type) :
           Info.pages[q] = FindIn(found, PageOf(type, q).number)
  BY <1>1, ReadNow
<1>3. /\ k \in Nat \ {0} /\ content[type] \in Nat /\ NumPages(type) \in Nat
      /\ PageSize[type] \in Nat \ {0} /\ type \in Types
  BY <1>2, DataSizes DEF FileDone, LaidInv
<1>4. PICK p : p = PageHere
  OBVIOUS
<1>5. p.start = (k - 1) * PageSize[type] /\ p.start \in Nat
  <2>1. k \in 1 .. NumPages(type)
    BY <1>1, <1>2, <1>3
  <2>2. p.start = (k - 1) * PageSize[type]
    BY <1>1, <1>2, <1>4, <2>1, DataPageFound DEF PageHere
  <2> QED
    BY <1>3, <2>2, OffsetType
<1>6. PICK n : n = IF Info.size - p.start < PageSize[type]
                   THEN Info.size - p.start ELSE PageSize[type]
  OBVIOUS
<1>7. n \in Int
  BY <1>2, <1>3, <1>5, <1>6
<1>8. PageRead(p, n, error)
  <2>1. dec' = Placed(p, n)
    BY <1>4, <1>6 DEF CopyPage
  <2> QED
    BY <1>1, <1>4, <1>6, <1>7, <2>1 DEF CopyPage, PageRead, layout, written
<1> QED
  BY <1>8, PageReadStep

LEMMA DecompressPageStep ==
  ASSUME FileDone, FoundInv, ReadInv, DecompressPage
  PROVE  FoundInv' /\ ReadInv'
<1>1. /\ phase = "read" /\ k <= Len(Info.pages) /\ Info.pages[k] # 0
      /\ program = "other"
  BY DEF DecompressPage
<1>2. PageSize[type] \in Nat \ {0}
  BY <1>1, ReadNow, DataSizes
<1>3. PICK p : p = PageHere
  OBVIOUS
<1>4. \E n \in Int : \E err : dec' = Placed(p, n) /\ error' = err
  BY <1>2, <1>3 DEF DecompressPage
<1>5. PICK n, err : n \in Int /\ dec' = Placed(p, n) /\ error' = err
  BY <1>4
<1>6. PageRead(p, n, err)
  BY <1>1, <1>3, <1>5 DEF DecompressPage, PageRead, layout, written
<1> QED
  BY <1>6, PageReadStep

LEMMA EndSectionStep ==
  ASSUME FileDone, FoundInv, ReadInv, EndSection
  PROVE  FoundInv' /\ ReadInv'
<1>1. /\ phase = "read" /\ k > Len(Info.pages) /\ phase' = "done" /\ k' = k
      /\ type' = type /\ dec' = dec /\ error' = error
      /\ program' = program /\ content' = content
      /\ found' = found /\ address' = address /\ mapError' = mapError
      /\ section' = section /\ si' = si /\ map' = map
      /\ section_info' = section_info /\ infos' = infos
  BY DEF EndSection, layout, written, reader
<1>2. /\ type \in DataTypes /\ ReadSoFar /\ Len(Info.pages) = NumPages(type)
  BY <1>1, ReadNow
<1>3. /\ NumPages(type) \in Nat /\ k \in Nat \ {0} /\ content[type] \in Nat
      /\ content[type] <= NumPages(type) * PageSize[type]
  BY <1>2, DataSizes DEF FileDone, LaidInv
<1>4. k - 1 = NumPages(type)
  BY <1>1, <1>2, <1>3 DEF ReadSoFar
<1>5. FoundInv'
  <2>1. phase' \notin {"layout", "pages", "map"}
    BY <1>1
  <2> QED
    BY <1>1, <2>1, FoundStays
<1>6. InfosRead'
  BY <1>1, InfosReadStays DEF ReadInv
<1>7. BytesInPlace'
  BY <1>1 DEF ReadInv, BytesInPlace
<1>8. OwnFileReads'
  <2>1. program' = "this" => ~ mapError'
    BY <1>1, <1>5 DEF FoundInv
  <2>2. ASSUME program = "this"
        PROVE  /\ content[type] # 0 /\ error = "none"
               /\ \A b \in 0 .. content[type] - 1 : dec[b] = <<type, b>>
    <3>1. PICK c, e : /\ c \in Nat /\ c = content[type]
                      /\ e = (k - 1) * PageSize[type]
      BY <1>3
    <3>2. c <= e
      BY <1>3, <1>4, <3>1
    <3>3. e \in Nat
      BY <1>2, <1>4, <3>1, DataSizes
    <3>4. \A b \in 0 .. c - 1 : b < e
      BY <3>1, <3>2, <3>3
    <3> QED
      BY <1>2, <1>3, <2>2, <3>1, <3>4 DEF ReadSoFar
  <2> QED
    BY <1>1, <2>1, <2>2 DEF OwnFileReads
<1> QED
  BY <1>1, <1>2, <1>5, <1>6, <1>7, <1>8 DEF ReadInv

-----------------------------------------------------------------------------
(* The invariant.                                                          *)

(* While the file is written, the reader has not begun. *)
LEMMA NotYetRead ==
  ASSUME phase \in {"layout", "pages"}, FoundInv, ReadInv, LaidInv',
         \/ phase' \in {"layout", "pages"} \/ (phase' = "map" /\ k' = 1),
         map' \in Seq(MapEntries) \/ map' = <<>>, UNCHANGED reader
  PROVE  FoundInv' /\ ReadInv'
<1>1. /\ found = <<>> /\ mapError = FALSE /\ address = FirstAddress
  BY DEF FoundInv
<1>2. /\ found' = <<>> /\ mapError' = FALSE /\ address' = FirstAddress
  BY <1>1 DEF reader
<1>3. FirstAddress \in Int
  BY Sizes
<1>4. FoundInv'
  <2>1. CASE phase' \in {"layout", "pages"}
    BY <1>2, <1>3, <2>1 DEF FoundInv
  <2>2. CASE phase' = "map" /\ k' = 1
    <3>1. (AddressAfter(k - 1) = FirstAddress)'
      BY <2>2 DEF AddressAfter
    <3>2. found' = [f \in 1 .. k' - 1 |-> FoundHere(f)']
      BY <1>2, <2>2
    <3>3. k' <= Len(map') + 1
      <4>1. Len(map') \in Nat
        OBVIOUS
      <4> QED
        BY <2>2, <4>1
    <3> QED
      BY <1>2, <1>3, <2>2, <3>1, <3>2, <3>3 DEF FoundInv
  <2> QED
    BY <2>1, <2>2
<1>5. ReadInv'
  <2>1. phase' \notin {"open", "read", "done", "failed"}
    OBVIOUS
  <2> QED
    BY <1>2, <2>1 DEF ReadInv, OwnFileReads, BytesInPlace
<1> QED
  BY <1>4, <1>5

LEMMA InitInvariant == Init => IInv
<1> SUFFICES ASSUME Init PROVE IInv
  OBVIOUS
<1>1. /\ program \in {"this", "other"} /\ content \in [DataTypes -> Lengths]
      /\ phase = "layout" /\ next = 1 /\ k = 1
      /\ section \in Leftover /\ block = 1 /\ si = 0 /\ section_info = <<>>
      /\ byte = FirstAddress /\ file = {} /\ freed = {} /\ map = <<>>
      /\ address = FirstAddress /\ found = <<>> /\ mapError = FALSE
  BY DEF Init
<1>2. Done = 0 /\ Laid[0] = 0 /\ NumTypes \in Nat
  BY <1>1, LaidFacts, TypesNumber DEF Done
<1>3. section \in Seq(Descriptors) /\ Len(section) \in Nat
  <2>1. section \in Seq(Descriptors)
    BY <1>1, SectionPagesConstants DEF Descriptors
  <2> QED
    BY <2>1
<1>4. LaidInv
  <2>1. InfosLaid /\ PagesLaid
    BY <1>1, <1>2 DEF InfosLaid, PagesLaid
  <2>2. section_info \in Seq(InfoType)
    BY <1>1
  <2> QED
    BY <1>1, <1>2, <1>3, <2>1, <2>2 DEF LaidInv, Phases
<1>5. FileInv
  <2>1. Written = 0
    BY <1>1 DEF Written
  <2>2. InOrder
    BY <1>1, <2>1 DEF InOrder, AddressAfter
  <2>3. Filed
    BY <1>1, <2>1 DEF Filed
  <2> QED
    BY <1>1, <2>1, <2>2, <2>3 DEF FileInv
<1>6. FirstAddress \in Int
  BY Sizes
<1> QED
  BY <1>1, <1>4, <1>5, <1>6
  DEF IInv, HeaderInv, MapInv, FoundInv, ReadInv, OwnFileReads, BytesInPlace

LEMMA EncodeKeeps == IInv /\ Encode => IInv'
<1> SUFFICES ASSUME IInv, Encode PROVE IInv'
  OBVIOUS
<1>1. LaidInv /\ FileInv /\ HeaderInv /\ MapInv /\ FoundInv /\ ReadInv
  BY DEF IInv
<1>2. LaidInv' /\ FileInv' /\ HeaderInv' /\ MapInv'
  <2>1. CASE SkipEmpty \/ LayOut
    BY <1>1, <2>1, LayoutKeeps
  <2>2. CASE EndLayout
    BY <1>1, <2>2, EndLayoutKeeps
  <2>3. CASE SkipUnlisted
    <3>1. LaidInv' /\ FileInv'
      BY <1>1, <2>3, SkipUnlistedStep
    <3>2. phase = "pages" /\ phase' = phase /\ si' = si /\ map' = map
          /\ fhdr' = fhdr
      BY <2>3 DEF SkipUnlisted, InPages, layout, written
    <3> QED
      BY <1>1, <3>1, <3>2 DEF HeaderInv, MapInv
  <2>4. CASE WriteDataPage \/ OtherDataPage \/ WriteInfo
    BY <1>1, <2>4, WritePageSteps
  <2>5. CASE WriteMap
    BY <1>1, <2>5, WriteMapStep
  <2> QED
    BY <2>1, <2>2, <2>3, <2>4, <2>5 DEF Encode
<1>3. UNCHANGED reader
  BY DEF Encode, SkipEmpty, LayOut, EndLayout, SkipUnlisted, WriteDataPage,
         OtherDataPage, WriteInfo, WriteMap, PutPage
<1>4. phase \in {"layout", "pages"}
      /\ (phase' \in {"layout", "pages"} \/ (phase' = "map" /\ k' = 1))
  BY DEF Encode, SkipEmpty, LayOut, EndLayout, SkipUnlisted, WriteDataPage,
         OtherDataPage, WriteInfo, WriteMap, PutPage, InPages
<1>5. map' \in Seq(MapEntries) \/ map' = <<>>
  <2>1. CASE phase' \in {"layout", "pages"}
    BY <1>2, <2>1 DEF MapInv
  <2>2. CASE phase' = "map"
    BY <1>2, <2>2 DEF MapInv, MapEntries
  <2> QED
    BY <1>4, <2>1, <2>2
<1>6. FoundInv' /\ ReadInv'
  BY <1>1, <1>2, <1>3, <1>4, <1>5, NotYetRead
<1> QED
  BY <1>2, <1>6 DEF IInv

LEMMA DecodeKeeps == IInv /\ Decode => IInv'
<1> SUFFICES ASSUME IInv, Decode PROVE IInv'
  OBVIOUS
<1>1. LaidInv /\ FileInv /\ HeaderInv /\ MapInv /\ FoundInv /\ ReadInv
  BY DEF IInv
<1>2. /\ UNCHANGED <<program, content, next, layout, written>>
      /\ phase \notin {"layout", "pages"} /\ phase' \notin {"layout", "pages"}
      /\ phase' \in Phases /\ k' \in {k, k + 1, 1}
  <2>1. CASE ReadMapEntry \/ MapComplete \/ RepairMap \/ ReadInfo \/ NoInfo
    BY <2>1 DEF ReadMapEntry, MapComplete, RepairMap, ReadInfo, NoInfo, Phases
  <2>2. CASE OpenSection
    BY <2>2 DEF OpenSection, Phases
  <2>3. CASE SkipPage \/ CopyPage \/ DecompressPage \/ EndSection
    BY <2>3 DEF SkipPage, CopyPage, DecompressPage, EndSection, Phases
  <2> QED
    BY <2>1, <2>2, <2>3 DEF Decode
<1>3. k' \in Nat \ {0}
  BY <1>1, <1>2 DEF LaidInv
<1>4. LaidInv' /\ FileInv' /\ HeaderInv' /\ MapInv'
  BY <1>1, <1>2, <1>3, KeepsFile
<1>5. FileDone
  BY <1>1, <1>2 DEF FileDone
<1>6. FoundInv' /\ ReadInv'
  <2>1. CASE ReadMapEntry \/ MapComplete \/ RepairMap
    <3>1. FoundInv'
      BY <1>1, <1>5, <2>1, ReadMapEntryStep, MapCompleteStep, RepairMapStep
    <3>2. phase' \in {"map", "info"}
      BY <2>1 DEF ReadMapEntry, MapComplete, RepairMap
    <3>3. phase = "map" /\ program' = program
          /\ (phase' = "map" => ReadMapEntry)
      BY <2>1 DEF ReadMapEntry, MapComplete, RepairMap
    <3>4. program' = "this" => ~ mapError'
      BY <3>1, <3>2 DEF FoundInv
    <3> QED
      BY <3>1, <3>2, <3>4 DEF ReadInv, OwnFileReads, BytesInPlace
  <2>2. CASE ReadInfo
    BY <1>1, <1>5, <2>2, ReadInfoStep
  <2>3. CASE NoInfo
    BY <1>1, <1>5, <2>3, NoInfoStep
  <2>4. CASE OpenSection
    BY <1>1, <1>5, <2>4, OpenSectionStep
  <2>5. CASE SkipPage
    BY <1>1, <1>5, <2>5, SkipPageStep
  <2>6. CASE CopyPage
    BY <1>1, <1>5, <2>6, CopyPageStep
  <2>7. CASE DecompressPage
    BY <1>1, <1>5, <2>7, DecompressPageStep
  <2>8. CASE EndSection
    BY <1>1, <1>5, <2>8, EndSectionStep
  <2> QED
    BY <2>1, <2>2, <2>3, <2>4, <2>5, <2>6, <2>7, <2>8 DEF Decode
<1> QED
  BY <1>4, <1>6 DEF IInv

LEMMA StutterKeeps == IInv /\ UNCHANGED vars => IInv'
<1> SUFFICES ASSUME IInv, UNCHANGED vars PROVE IInv'
  OBVIOUS
<1>1. /\ program' = program /\ content' = content /\ phase' = phase
      /\ next' = next /\ k' = k /\ section' = section /\ block' = block
      /\ si' = si /\ section_info' = section_info /\ fhdr' = fhdr
      /\ byte' = byte /\ file' = file /\ freed' = freed /\ map' = map
      /\ address' = address /\ found' = found /\ mapError' = mapError
      /\ infos' = infos /\ type' = type /\ dec' = dec /\ error' = error
  BY DEF vars, layout, written, reader
<1>2. Laid' = Laid /\ NumTypes' = NumTypes /\ AllTypes' = AllTypes
      /\ \A t : Bytes(t)' = Bytes(t) /\ NumPages(t)' = NumPages(t)
  BY <1>1, LaidStays DEF NumTypes, AllTypes
<1>3. LaidInv'
  <2>1. /\ \A j : Listed(j)' = Listed(j)
        /\ \A i : Number(i)' = Number(i)
        /\ Done' = Done
    BY <1>1, <1>2 DEF Listed, Number, Done
  <2>2. InfosLaid' /\ PagesLaid'
    BY <1>1, <1>2, <2>1 DEF IInv, LaidInv, InfosLaid, PagesLaid
  <2> QED
    BY <1>1, <1>2, <2>1, <2>2 DEF IInv, LaidInv
<1>4. FileInv'
  <2>1. /\ Written' = Written /\ \A w : AddressAfter(w)' = AddressAfter(w)
        /\ \A p, a, b : IsPage(p, a, b)' = IsPage(p, a, b)
    BY <1>1, <1>2 DEF Written, AddressAfter, IsPage
  <2>2. AddressAfter(Written)' = AddressAfter(Written)
    BY <1>1, <2>1 DEF AddressAfter
  <2>3. InOrder'
    BY <1>1, <2>1, <2>2 DEF IInv, FileInv, InOrder
  <2>4. Filed'
    BY <1>1, <1>2, <2>1 DEF IInv, FileInv, Filed
  <2> QED
    BY <1>1, <1>2, <2>1, <2>3, <2>4 DEF IInv, FileInv
<1>5. HeaderInv' /\ MapInv'
  <2>1. AddressAfter(si)' = AddressAfter(si)
    BY <1>1 DEF AddressAfter
  <2>2. \A m : MapEntry(m)' = MapEntry(m)
    BY <1>1 DEF MapEntry
  <2> QED
    BY <1>1, <2>1, <2>2 DEF IInv, HeaderInv, MapInv
<1>6. FoundInv'
  <2>1. /\ AddressAfter(k - 1)' = AddressAfter(k - 1)
        /\ \A f : FoundHere(f)' = FoundHere(f)
        /\ \A i : Number(i)' = Number(i)
    BY <1>1 DEF AddressAfter, FoundHere, Number
  <2>2. FoundRight' = FoundRight
    BY <1>1 DEF FoundRight
  <2> QED
    BY <1>1, <2>1, <2>2 DEF IInv, FoundInv
<1>7. ReadInv'
  <2>1. InfosRead => InfosRead'
    BY <1>1, InfosReadStays
  <2>2. ReadSoFar' = ReadSoFar
    <3>1. NumPages(type)' = NumPages(type)
      BY <1>1 DEF NumPages, Bytes
    <3> QED
      BY <1>1, <3>1 DEF ReadSoFar
  <2>3. OwnFileReads' = OwnFileReads /\ BytesInPlace' = BytesInPlace
    BY <1>1 DEF OwnFileReads, BytesInPlace
  <2> QED
    BY <1>1, <2>1, <2>2, <2>3 DEF IInv, ReadInv
<1> QED
  BY <1>3, <1>4, <1>5, <1>6, <1>7 DEF IInv

(* The writer lays the pages out in the order of the stream, section after  *)
(* section, and writes them one behind the other; the map names them in     *)
(* that order; and the reader, that adds their sizes up, is always at the   *)
(* address of the page it reads of next.                                    *)
THEOREM Invariant == Spec => []IInv
<1>1. Init => IInv
  BY InitInvariant
<1>2. IInv /\ [Next]_vars => IInv'
  BY EncodeKeeps, DecodeKeeps, StutterKeeps DEF Next
<1> QED
  BY <1>1, <1>2, PTL DEF Spec

(* header.section has room for all pages, the pages of a section are what   *)
(* its size takes, and the reader reads as many as were written.            *)
THEOREM TypeCorrect == Spec => []TypeOK
<1>1. IInv => TypeOK
  <2> SUFFICES ASSUME IInv PROVE TypeOK
    OBVIOUS
  <2>1. LaidInv /\ FileInv /\ HeaderInv /\ MapInv /\ FoundInv
    BY DEF IInv
  <2>2. /\ Done \in 0 .. NumTypes /\ content \in [DataTypes -> Lengths]
        /\ si = Laid[Done] /\ NumTypes \in Nat
    BY <2>1, TypesNumber DEF LaidInv, Done
  <2>3. si \in Nat /\ si <= Len(section) /\ Len(section) \in Nat
    BY <2>1, <2>2, LaidFacts DEF LaidInv
  <2>4. ASSUME NEW d \in 1 .. Len(section_info)
        PROVE  /\ section_info[d].type \in Types
               /\ Len(section_info[d].pages) = NumPages(section_info[d].type)
    <3>1. PICK j \in 1 .. Done : section_info[d] = Listed(j)
      BY <2>1 DEF LaidInv, InfosLaid
    <3>2. j \in 1 .. NumTypes
      BY <2>2
    <3>3. AllTypes[j] \in Types /\ NumPages(AllTypes[j]) \in Nat
      BY <2>2, <3>2, TypeFacts, PageFacts
    <3>4. Listed(j).type = AllTypes[j]
          /\ Len(Listed(j).pages) = NumPages(AllTypes[j])
      BY <3>3 DEF Listed
    <3> QED
      BY <3>1, <3>3, <3>4
  <2>5. byte >= FirstAddress
    <3>1. Written \in 0 .. si /\ byte = AddressAfter(Written)
      BY <2>1 DEF FileInv, InOrder
    <3>2. FirstAddress \in Nat
      BY Sizes
    <3>3. CASE Written = 0
      BY <3>1, <3>2, <3>3 DEF AddressAfter
    <3>4. CASE Written # 0
      <4>1. PICK w \in 1 .. Written : w = Written
        BY <2>3, <3>1, <3>4
      <4>2. w \in 1 .. si
        BY <2>3, <3>1
      <4>3. /\ section[w].address \in Nat /\ section[w].size \in Nat
            /\ FirstAddress <= section[w].address
        BY <2>1, <4>2, SectionFacts DEF FileInv, InOrder
      <4>4. byte = section[w].address + section[w].size
        BY <3>1, <3>4, <4>1 DEF AddressAfter
      <4> QED
        BY <3>2, <4>3, <4>4
    <3> QED
      BY <3>3, <3>4
  <2>6. freed \subseteq 1 .. si
    BY <2>1, <2>3 DEF FileInv
  <2>7. Len(map) \in 0 .. si /\ Len(found) \in 0 .. Len(map) + 2
    <3>1. CASE phase \in {"layout", "pages"}
      <4>1. map = <<>> /\ found = <<>>
        BY <2>1, <3>1 DEF MapInv, FoundInv
      <4> QED
        BY <2>3, <4>1
    <3>2. CASE phase \notin {"layout", "pages"}
      <4>1. FileDone
        BY <2>1, <3>2 DEF FileDone
      <4>2. Len(map) \in si - 2 .. si /\ Len(map) \in Nat
        BY <4>1, MapFacts
      <4>3. CASE phase = "map"
        <5>1. k \in Nat \ {0} /\ k <= Len(map) + 1
              /\ found = [f \in 1 .. k - 1 |-> FoundHere(f)]
          BY <2>1, <4>3 DEF LaidInv, FoundInv
        <5>2. PICK n \in Nat : n = k - 1
          BY <5>1
        <5>3. Len(found) = n
          BY <5>1, <5>2
        <5> QED
          BY <2>3, <4>2, <5>1, <5>2, <5>3
      <4>4. CASE phase # "map"
        <5>1. found \in Seq(Numbered) /\ Len(found) <= Len(map) + 2
          BY <2>1, <3>2, <4>4 DEF FoundInv, Numbered
        <5>2. Len(found) \in Nat
          BY <5>1
        <5> QED
          BY <2>3, <4>2, <5>1, <5>2
      <4> QED
        BY <4>3, <4>4
    <3> QED
      BY <3>1, <3>2
  <2>8. address >= FirstAddress
    BY <2>1 DEF FoundInv
  <2> QED
    BY <2>1, <2>3, <2>4, <2>5, <2>6, <2>7, <2>8 DEF TypeOK, LaidInv, NumTypes
<1> QED
  BY <1>1, Invariant, PTL

(* The page pointers of every section survive the moves of header.section   *)
(* by realloc, whatever is in its new descriptors.                          *)
THEOREM PointersStay == Spec => []PointersFollow
<1>1. IInv => PointersFollow
  <2> SUFFICES ASSUME IInv, NEW d \in 1 .. Len(section_info)
               PROVE  LET pages == section_info[d].pages
                      IN  /\ \A p \in DOMAIN pages :
                               /\ pages[p].block = block
                               /\ pages[p].at \in 1 .. si
                               /\ phase = "layout" =>
                                    section[pages[p].at].type
                                      = section_info[d].type
                          /\ \A p \in 2 .. Len(pages) :
                               pages[p].at = pages[p - 1].at + 1
    BY DEF PointersFollow
  <2>1. LaidInv
    BY DEF IInv
  <2>2. PICK j \in 1 .. Done : section_info[d] = Listed(j)
    BY <2>1 DEF LaidInv, InfosLaid
  <2>3. /\ Done \in 0 .. NumTypes /\ content \in [DataTypes -> Lengths]
        /\ si = Laid[Done] /\ NumTypes \in Nat
    BY <2>1, TypesNumber DEF LaidInv, Done
  <2>4. j \in 1 .. NumTypes /\ j \in 0 .. NumTypes /\ j <= Done
    BY <2>3
  <2>5. /\ NumPages(AllTypes[j]) \in Nat /\ Laid[j - 1] \in Nat
        /\ Laid[j] = Laid[j - 1] + NumPages(AllTypes[j])
    BY <2>3, <2>4, PageFacts
  <2>6. Laid[j] <= si /\ Laid[j] \in Nat /\ si \in Nat
    BY <2>3, <2>4, LaidFacts
  <2>7. PICK n \in Nat, o \in Nat :
          n = NumPages(AllTypes[j]) /\ o = Laid[j - 1]
    BY <2>5
  <2>8. PICK g : g = [p \in 1 .. n |-> [block |-> block, at |-> o + p]]
    OBVIOUS
  <2>9. section_info[d].pages = g /\ section_info[d].type = AllTypes[j]
    BY <2>2, <2>7, <2>8 DEF Listed
  <2>10. /\ DOMAIN g = 1 .. n /\ Len(g) = n
         /\ \A p \in 1 .. n : g[p].block = block /\ g[p].at = o + p
    BY ONLY <2>8, n \in Nat
  <2>11. \A p \in 1 .. n : o + p \in 1 .. si
    BY <2>5, <2>6, <2>7
  <2>12. \A p \in 1 .. n : section[o + p].type = AllTypes[j]
    BY <2>1, <2>7 DEF LaidInv, PagesLaid
  <2>13. \A p \in 2 .. n : g[p].at = g[p - 1].at + 1
    <3> TAKE p \in 2 .. n
    <3>1. p \in 1 .. n /\ p - 1 \in 1 .. n
      OBVIOUS
    <3>2. g[p].at = o + p /\ g[p - 1].at = o + (p - 1)
      BY <2>10, <3>1
    <3> QED
      BY <3>2
  <2> QED
    BY <2>9, <2>10, <2>11, <2>12, <2>13
<1> QED
  BY <1>1, Invariant, PTL

(* The addresses the reader adds up, over freed pages and up to the map, and *)
(* those it repairs, are those at which the pages were written.             *)
THEOREM AddressesRead == Spec => []AddressesAgree
<1>1. IInv => AddressesAgree
  <2> SUFFICES ASSUME IInv, NEW f \in 1 .. Len(found), NEW s \in 1 .. si,
                      found[f].number = section[s].number,
                      f <= Len(map) \/ found[f].number = fhdr.section_map_id
               PROVE  found[f].address = section[s].address
    BY DEF AddressesAgree
  <2>1. phase \notin {"layout", "pages"}
    <3>1. phase \in {"layout", "pages"} => found = <<>>
      BY DEF IInv, FoundInv
    <3> QED
      BY <3>1
  <2>2. FileDone /\ FoundInv
    BY <2>1 DEF IInv, FileDone
  <2>3. /\ si \in Nat /\ si >= 2
        /\ section[s].number = (IF s > si - 2 THEN s + 2 ELSE s)
    BY <2>2, FileFacts
  <2>4. fhdr.section_map_id = si + 2
    BY <2>1, <2>2 DEF FileDone, HeaderInv
  <2>5. CASE phase = "map"
    <3>1. /\ k \in Nat \ {0} /\ k <= Len(map) + 1
          /\ found = [x \in 1 .. k - 1 |-> FoundHere(x)]
      BY <2>2, <2>5 DEF FileDone, LaidInv, FoundInv
    <3>2. Len(map) \in Nat
      BY <2>2, MapFacts
    <3>3. PICK n \in Nat : n = k - 1
      BY <3>1
    <3>4. Len(found) = n
      BY <3>1, <3>3
    <3>5. f \in 1 .. k - 1 /\ f \in 1 .. Len(map)
      BY <3>1, <3>2, <3>3, <3>4
    <3>6. found[f].number = map[f].number
          /\ found[f].address = section[f].address
      BY <3>1, <3>5 DEF FoundHere
    <3>7. /\ \A i \in 1 .. si - 2 : map[f].number = i => f = i
          /\ map[f].number = si + 1 => f = si - 1
          /\ map[f].number = si + 2 <=> f = si
      BY <2>2, <3>5, MapFacts
    <3>8. f = s
      <4>1. CASE s \in 1 .. si - 2
        BY <2>3, <3>6, <3>7, <4>1
      <4>2. CASE s = si - 1
        BY <2>3, <3>6, <3>7, <4>2
      <4>3. CASE s = si
        BY <2>3, <3>6, <3>7, <4>3
      <4> QED
        BY <2>3, <4>1, <4>2, <4>3
    <3> QED
      BY <3>6, <3>8
  <2>6. CASE phase # "map"
    <3>1. FoundRight
      BY <2>1, <2>2, <2>6 DEF FoundInv
    <3>2. CASE s \in 1 .. si - 2
      BY <2>3, <3>1, <3>2 DEF FoundRight
    <3>3. CASE s = si - 1
      <4>1. found[f].number = si + 1
        BY <2>3, <3>3
      <4>2. f <= Len(map)
        BY <2>3, <2>4, <4>1
      <4> QED
        BY <3>1, <3>3, <4>1, <4>2 DEF FoundRight
    <3>4. CASE s = si
      <4>1. found[f].number = si + 2
        BY <2>3, <3>4
      <4> QED
        BY <3>1, <3>4, <4>1 DEF FoundRight
    <3> QED
      BY <2>3, <3>2, <3>3, <3>4
  <2> QED
    BY <2>5, <2>6
<1> QED
  BY <1>1, Invariant, PTL

(* decode_R2004 reads a file that dwg_encode wrote without an error, and    *)
(* every section of it completely, of any number of pages.                  *)
THEOREM OwnFilesRead == Spec => []OwnFileReads
BY Invariant, PTL DEF IInv, ReadInv

(* In every file, with pages freed and pages that do not decompress, a byte *)
(* that is read is the byte of the section at its offset, or zero.          *)
THEOREM BytesReadInPlace == Spec => []BytesInPlace
BY Invariant, PTL DEF IInv, ReadInv
===============================================================================

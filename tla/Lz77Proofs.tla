------------------------------ MODULE Lz77Proofs ------------------------------
(***************************************************************************)
(* Theorems on Lz77, for any constants of the format and sections of any   *)
(* size over any values: what compress_R2004_section writes is read back   *)
(* by decompress_R2004_section.                                            *)
(*                                                                         *)
(* The stream is a sequence of groups, each a match and the literals       *)
(* behind it, and the groups tile the section as well as the stream.  The  *)
(* invariant StreamInv says so of what the scan has written, with the      *)
(* match that is not written yet as the next group, and that the reader    *)
(* stands at the first byte of a group, with the section up to it.         *)
(***************************************************************************)
EXTENDS Lz77, WellFoundedInduction, TLAPS

-----------------------------------------------------------------------------
(* The cells of a stream, and its parts. *)

(* What a compressed section is made of. *)
Forms == {"literal", "compact", "medium", "long"}

Cells ==
  {Op(f, n, h, l) : f \in Forms, n \in Int, h \in Int, l \in Int}
    \cup {LengthByte(n) : n \in Int}
    \cup {OffsetByte(n, l) : n \in Int, l \in Int}
    \cup {LiteralByte(v) : v \in Values}

(* What the writer writes are cells. *)
LEMMA OpCell ==
  ASSUME NEW f \in Forms, NEW n \in Int, NEW h \in Int, NEW l \in Int
  PROVE  Op(f, n, h, l) \in Cells
BY DEF Cells

(* So are the length and offset bytes, *)
LEMMA OtherCells ==
  ASSUME NEW n \in Int, NEW l \in Int
  PROVE  LengthByte(n) \in Cells /\ OffsetByte(n, l) \in Cells
BY DEF Cells

(* and the literals. *)
LEMMA LiteralCell ==
  ASSUME NEW v \in Values
  PROVE  LiteralByte(v) \in Cells
BY DEF Cells

(* Two parts written one behind the other. *)
LEMMA Behind ==
  ASSUME NEW S, NEW s \in Seq(S), NEW t \in Seq(S)
  PROVE  s \o t \in Seq(S) /\ Len(s \o t) = Len(s) + Len(t)
OBVIOUS

(* Where the bytes of the two parts are. *)
LEMMA Parts ==
  ASSUME NEW S, NEW s \in Seq(S), NEW t \in Seq(S)
  PROVE  /\ \A p \in 1 .. Len(s) : (s \o t)[p] = s[p]
         /\ \A p \in 1 .. Len(t) : (s \o t)[Len(s) + p] = t[p]
OBVIOUS

(* The part s of a stream c that begins behind the place "at".             *)
Holds(c, at, s) ==
  /\ at + Len(s) <= Len(c)
  /\ \A p \in 1 .. Len(s) : c[at + p] = s[p]

(* A stream that holds two parts holds each of them in its place. *)
LEMMA HoldsParts ==
  ASSUME NEW S, NEW c \in Seq(S), NEW s \in Seq(S), NEW t \in Seq(S),
         NEW at \in Nat, Holds(c, at, s \o t)
  PROVE  Holds(c, at, s) /\ Holds(c, at + Len(s), t)
<1>1. /\ Len(s \o t) = Len(s) + Len(t) /\ Len(s) \in Nat /\ Len(t) \in Nat
      /\ Len(c) \in Nat
  OBVIOUS
<1>2. \A p \in 1 .. Len(s) : (s \o t)[p] = s[p]
  OBVIOUS
<1>3. \A p \in 1 .. Len(t) : (s \o t)[Len(s) + p] = t[p]
  OBVIOUS
<1>4. Holds(c, at, s)
  BY <1>1, <1>2 DEF Holds
<1>5. ASSUME NEW p \in 1 .. Len(t)
      PROVE  c[(at + Len(s)) + p] = t[p]
  <2>1. Len(s) + p \in 1 .. Len(s \o t)
    BY <1>1
  <2>2. c[at + (Len(s) + p)] = (s \o t)[Len(s) + p]
    BY <2>1 DEF Holds
  <2>3. at + (Len(s) + p) = (at + Len(s)) + p
    BY <1>1
  <2> QED
    BY <1>3, <2>2, <2>3
<1>6. (at + Len(s)) + Len(t) <= Len(c)
  BY <1>1 DEF Holds
<1> QED
  BY <1>4, <1>5, <1>6 DEF Holds

(* What is written stays when the writer goes on. *)
LEMMA HoldsStays ==
  ASSUME NEW S, NEW c \in Seq(S), NEW x \in Seq(S), NEW s, Len(s) \in Nat,
         NEW at \in Nat, Holds(c, at, s)
  PROVE  Holds(c \o x, at, s)
<1>1. /\ Len(c \o x) = Len(c) + Len(x) /\ Len(c) \in Nat /\ Len(x) \in Nat
  OBVIOUS
<1>2. \A p \in 1 .. Len(c) : (c \o x)[p] = c[p]
  OBVIOUS
<1>3. \A p \in 1 .. Len(s) : at + p \in 1 .. Len(c)
  BY <1>1 DEF Holds
<1> QED
  BY <1>1, <1>2, <1>3 DEF Holds

(* The writer writes at the end of the stream. *)
LEMMA HoldsNew ==
  ASSUME NEW S, NEW c \in Seq(S), NEW s \in Seq(S)
  PROVE  Holds(c \o s, Len(c), s)
<1>1. /\ Len(c \o s) = Len(c) + Len(s) /\ Len(c) \in Nat /\ Len(s) \in Nat
  OBVIOUS
<1>2. \A p \in 1 .. Len(s) : (c \o s)[Len(c) + p] = s[p]
  OBVIOUS
<1> QED
  BY <1>1, <1>2 DEF Holds

(* The length bytes of write_long_compression_offset: zeros, and a rest    *)
(* that is none.                                                           *)
Zeros(n) == (n - 1) \div LengthStep
Rest(n) == n - Zeros(n) * LengthStep

(* The zero bytes and the last byte give the length again. *)
LEMMA Remainder ==
  ASSUME NEW n \in Nat \ {0}
  PROVE  /\ Zeros(n) \in Nat
         /\ Rest(n) \in Nat \ {0}
         /\ Zeros(n) * LengthStep \in Nat
         /\ Zeros(n) * LengthStep + Rest(n) = n
<1>1. LengthStep \in Nat \ {0}
  BY Lz77Constants
<1>2. Zeros(n) \in Nat
  BY <1>1 DEF Zeros
<1>3. PICK z \in Nat, r \in Nat : /\ z = Zeros(n) /\ n - 1 = z * LengthStep + r
  <2>1. (n - 1) % LengthStep \in Nat
    BY <1>1
  <2>2. n - 1 = ((n - 1) \div LengthStep) * LengthStep + ((n - 1) % LengthStep)
    BY <1>1
  <2> QED
    BY <1>2, <2>1, <2>2 DEF Zeros
<1>4. z * LengthStep \in Nat
  BY <1>1
<1>5. PICK w \in Nat : w = z * LengthStep
  BY <1>4
<1>6. n - 1 = w + r
  BY <1>3, <1>5
<1>7. Rest(n) = n - w
  BY <1>3, <1>5 DEF Rest
<1>8. Rest(n) = r + 1 /\ w + (r + 1) = n
  BY ONLY <1>6, <1>7, n \in Nat, w \in Nat, r \in Nat
<1> QED
  BY <1>3, <1>4, <1>5, <1>8

(* The bytes that write_long_compression_offset writes. *)
LEMMA LongOffsetFacts ==
  ASSUME NEW n \in Nat \ {0}
  PROVE  /\ LongOffset(n) \in Seq(Cells)
         /\ Len(LongOffset(n)) = Zeros(n) + 1
         /\ \A b \in 1 .. Zeros(n) : LongOffset(n)[b] = LengthByte(0)
         /\ LongOffset(n)[Zeros(n) + 1] = LengthByte(Rest(n))
<1> DEFINE at(b) == LengthByte(IF b <= Zeros(n) THEN 0 ELSE Rest(n))
<1>1. Zeros(n) \in Nat /\ Rest(n) \in Int
  BY Remainder
<1>2. \A b \in 1 .. Zeros(n) + 1 : at(b) \in Cells
  BY <1>1, OtherCells
<1>3. LongOffset(n) = [b \in 1 .. Zeros(n) + 1 |-> at(b)]
  BY DEF LongOffset, Zeros, Rest
<1>4. /\ \A b \in 1 .. Zeros(n) : at(b) = LengthByte(0)
      /\ at(Zeros(n) + 1) = LengthByte(Rest(n))
  BY <1>1
<1> HIDE DEF at
<1>5. PICK z \in Nat : z = Zeros(n)
  BY <1>1
<1>6. LongOffset(n) = [b \in 1 .. z + 1 |-> at(b)]
  BY <1>3, <1>5
<1>7. \A b \in 1 .. z + 1 : at(b) \in Cells
  BY <1>2, <1>5
<1>8. LongOffset(n) \in Seq(Cells) /\ Len(LongOffset(n)) = z + 1
      /\ \A b \in 1 .. z + 1 : LongOffset(n)[b] = at(b)
  BY ONLY <1>6, <1>7, z \in Nat
<1> QED
  BY <1>4, <1>5, <1>8

(* An opcode with a length from 3 on, which is written less 2.             *)
Field(n, limit) == IF limit < n THEN 0 ELSE n - 2

LengthWritten(s, form, high, n, limit) ==
  /\ s \in Seq(Cells)
  /\ Len(s) = (IF limit < n THEN Zeros(n - limit) + 2 ELSE 1)
  /\ s[1] = Op(form, Field(n, limit), high, 0)
  /\ limit < n =>
       /\ \A b \in 1 .. Zeros(n - limit) : s[b + 1] = LengthByte(0)
       /\ s[Zeros(n - limit) + 2] = LengthByte(Rest(n - limit))

(* An opcode is written with its field, or with length bytes behind it.    *)
LEMMA WriteLengthFacts ==
  ASSUME NEW form \in Forms, NEW high \in Int, NEW n \in Nat, n >= 3,
         NEW limit \in Nat
  PROVE  LengthWritten(WriteLength(form, high, n, limit), form, high, n, limit)
<1> DEFINE s == WriteLength(form, high, n, limit)
<1>1. CASE ~ (limit < n)
  <2>1. s = <<Op(form, n - 2, high, 0)>>
    BY <1>1 DEF WriteLength
  <2>2. Op(form, n - 2, high, 0) \in Cells
    BY OpCell
  <2> QED
    BY <1>1, <2>1, <2>2 DEF Field, LengthWritten
<1>2. CASE limit < n
  <2>1. PICK m \in Nat \ {0} : m = n - limit
    BY <1>2
  <2>2. s = <<Op(form, 0, high, 0)>> \o LongOffset(m)
    BY <1>2, <2>1 DEF WriteLength
  <2>3. Op(form, 0, high, 0) \in Cells
    BY OpCell
  <2>4. PICK first : first = <<Op(form, 0, high, 0)>>
    OBVIOUS
  <2>5. first \in Seq(Cells) /\ Len(first) = 1 /\ first[1] = Op(form, 0, high, 0)
    BY <2>3, <2>4
  <2>6. PICK tail, z, r : tail = LongOffset(m) /\ z = Zeros(m) /\ r = Rest(m)
    OBVIOUS
  <2>7. /\ tail \in Seq(Cells) /\ Len(tail) = z + 1 /\ z \in Nat
        /\ \A b \in 1 .. z : tail[b] = LengthByte(0)
        /\ tail[z + 1] = LengthByte(r)
    BY <2>6, LongOffsetFacts, Remainder
  <2>8. s = first \o tail
    BY <2>2, <2>4, <2>6
  <2> HIDE DEF s
  <2>9. /\ s \in Seq(Cells) /\ Len(s) = z + 2 /\ s[1] = first[1]
        /\ \A b \in 1 .. z + 1 : s[b + 1] = tail[b]
    <3>1. first \o tail \in Seq(Cells)
          /\ Len(first \o tail) = Len(first) + Len(tail)
      BY ONLY <2>5, <2>7, Behind
    <3>2. \A b \in 1 .. Len(tail) : (first \o tail)[Len(first) + b] = tail[b]
      BY ONLY <2>5, <2>7, Parts
    <3>3. (first \o tail)[1] = first[1]
      BY ONLY <2>5, <2>7
    <3>4. \A b \in 1 .. z + 1 : Len(first) + b = b + 1
      BY ONLY <2>5, <2>7
    <3> QED
      BY ONLY <2>5, <2>7, <2>8, <3>1, <3>2, <3>3, <3>4
  <2>10. /\ \A b \in 1 .. z : s[b + 1] = LengthByte(0)
         /\ s[z + 2] = LengthByte(r)
    <3>1. \A b \in 1 .. z : b \in 1 .. z + 1
      BY <2>7
    <3>2. z + 1 \in 1 .. z + 1 /\ (z + 1) + 1 = z + 2
      BY <2>7
    <3> QED
      BY <2>7, <2>9, <3>1, <3>2
  <2> QED
    BY <1>2, <2>1, <2>5, <2>6, <2>9, <2>10 DEF Field, s, LengthWritten
<1> QED
  BY <1>1, <1>2

-----------------------------------------------------------------------------
(* Reading a length. *)

(* Min is the least element. *)
LEMMA LeastOf ==
  ASSUME NEW T, T \subseteq Nat, NEW m \in T, \A y \in T : m <= y
  PROVE  Min(T) = m
<1>1. \A x \in T : (\A y \in T : x <= y) => x = m
  OBVIOUS
<1> QED
  BY <1>1 DEF Min

(* The reader finds the length bytes that the writer wrote, and their end. *)
LEMMA LastFound ==
  ASSUME NEW from \in Nat, NEW z \in Nat, NEW r \in Nat \ {0},
         chain \in Seq(Cells), from + z + 1 <= Len(chain),
         \A b \in 1 .. z : chain[from + b] = LengthByte(0),
         chain[from + z + 1] = LengthByte(r)
  PROVE  LastLengthByte(from) = from + z + 1
<1> DEFINE T == {b \in from + 1 .. Len(chain) :
                   \/ chain[b] # LengthByte(0)
                   \/ b = Len(chain)}
<1>1. Len(chain) \in Nat
  BY DEF Cells
<1>2. LengthByte(r) # LengthByte(0)
  BY DEF LengthByte
<1>3. from + z + 1 \in T
  BY <1>1, <1>2
<1>4. ASSUME NEW y \in T PROVE from + z + 1 <= y
  <2>1. y \in Nat /\ y >= from + 1 /\ y <= Len(chain)
    BY <1>1
  <2>2. SUFFICES ASSUME y < from + z + 1 PROVE FALSE
    BY <1>1, <2>1
  <2>3. y - from \in 1 .. z /\ from + (y - from) = y
    BY <2>1, <2>2
  <2>4. chain[y] = LengthByte(0)
    BY <2>3
  <2> QED
    BY <1>1, <2>1, <2>2, <2>4
<1>5. T \subseteq Nat
  BY <1>1
<1> HIDE DEF T
<1>6. Min(T) = from + z + 1
  BY ONLY <1>3, <1>4, <1>5, LeastOf
<1> QED
  BY <1>6 DEF LastLengthByte, T

IsRead(op, at, s, form, high, n, limit) ==
  /\ op = Op(form, Field(n, limit + 2), high, 0)
  /\ Len(s) \in Nat \ {0}
  /\ \A any \in Nat : /\ ReadLength(op, at + 1, any).end = at + Len(s)
                      /\ ReadLength(op, at + 1, any).ok
  /\ ReadLength(op, at + 1, limit).value = n - 2

(* The reader takes a length that was written for what it is, and ends    *)
(* behind its last byte.                                                   *)
LEMMA LengthRead ==
  ASSUME NEW form \in Forms, NEW high \in Int, NEW n \in Nat, n >= 3,
         NEW limit \in Nat, NEW at \in Nat, chain \in Seq(Cells),
         Holds(chain, at, WriteLength(form, high, n, limit + 2))
  PROVE  IsRead(chain[at + 1], at, WriteLength(form, high, n, limit + 2),
                form, high, n, limit)
<1> DEFINE s  == WriteLength(form, high, n, limit + 2)
           op == chain[at + 1]
           m  == n - (limit + 2)
<1>1. /\ s \in Seq(Cells)
      /\ Len(s) = (IF limit + 2 < n THEN Zeros(m) + 2 ELSE 1)
      /\ s[1] = Op(form, Field(n, limit + 2), high, 0)
      /\ limit + 2 < n =>
           /\ \A b \in 1 .. Zeros(m) : s[b + 1] = LengthByte(0)
           /\ s[Zeros(m) + 2] = LengthByte(Rest(m))
  <2>1. PICK l \in Nat : l = limit + 2
    OBVIOUS
  <2>2. LengthWritten(WriteLength(form, high, n, l), form, high, n, l)
    BY WriteLengthFacts
  <2> QED
    BY <2>1, <2>2 DEF LengthWritten
<1>2. limit + 2 < n => m \in Nat \ {0}
  OBVIOUS
<1>3. Len(s) \in Nat \ {0}
  <2>1. limit + 2 < n => Zeros(m) \in Nat
    BY <1>2, Remainder
  <2> QED
    BY <1>1, <2>1
<1>4. \A p \in 1 .. Len(s) : chain[at + p] = s[p]
  BY DEF Holds
<1>5. op = Op(form, Field(n, limit + 2), high, 0)
  BY <1>1, <1>3, <1>4
<1>6. op.field = Field(n, limit + 2)
  BY <1>5 DEF Op
<1>7. CASE ~ (limit + 2 < n)
  <2>1. op.field = n - 2 /\ op.field # 0
    BY <1>6, <1>7 DEF Field
  <2>2. \A any \in Nat :
          ReadLength(op, at + 1, any) =
            [value |-> n - 2, end |-> at + 1, ok |-> TRUE]
    BY <2>1 DEF ReadLength
  <2> QED
    <3>1. Len(s) = 1
      BY <1>1, <1>7
    <3> HIDE DEF s, m
    <3> HIDE DEF op
    <3>2. \A any \in Nat : /\ ReadLength(op, at + 1, any).end = at + Len(s)
                            /\ ReadLength(op, at + 1, any).ok
                            /\ ReadLength(op, at + 1, any).value = n - 2
      BY <2>2, <3>1
    <3>3. IsRead(op, at, s, form, high, n, limit)
      BY <1>3, <1>5, <3>2 DEF IsRead
    <3> QED
      BY <3>3 DEF op, s
<1>8. CASE limit + 2 < n
  <2>1. op.field = 0
    BY <1>6, <1>8 DEF Field
  <2>2. PICK k \in Nat \ {0} : k = m
    BY <1>2, <1>8
  <2>3. PICK z, r : z = Zeros(m) /\ r = Rest(m)
    OBVIOUS
  <2>4. z \in Nat /\ r \in Nat \ {0} /\ z * LengthStep \in Nat
        /\ z * LengthStep + r = m
    BY <2>2, <2>3, Remainder
  <2>5. Len(s) = z + 2
    BY <1>1, <1>8, <2>3
  <2>6. ASSUME NEW b \in 1 .. z PROVE chain[(at + 1) + b] = LengthByte(0)
    <3>1. b + 1 \in 1 .. Len(s) /\ at + (b + 1) = (at + 1) + b
      BY <2>4, <2>5
    <3>2. s[b + 1] = LengthByte(0)
      BY <1>1, <1>8, <2>3
    <3> QED
      BY <1>4, <3>1, <3>2
  <2>7. chain[(at + 1) + z + 1] = LengthByte(r)
    <3>1. z + 2 \in 1 .. Len(s) /\ at + (z + 2) = (at + 1) + z + 1
      BY <2>4, <2>5
    <3>2. s[z + 2] = LengthByte(r)
      BY <1>1, <1>8, <2>3
    <3> QED
      BY <1>4, <3>1, <3>2
  <2>8. (at + 1) + z + 1 <= Len(chain)
    BY <2>4, <2>5 DEF Holds
  <2>9. LastLengthByte(at + 1) = (at + 1) + z + 1
    <3>1. PICK a \in Nat : a = at + 1
      OBVIOUS
    <3>2. /\ \A b \in 1 .. z : chain[a + b] = LengthByte(0)
          /\ chain[a + z + 1] = LengthByte(r) /\ a + z + 1 <= Len(chain)
      BY <2>6, <2>7, <2>8, <3>1
    <3>3. LastLengthByte(a) = a + z + 1
      BY <2>4, <3>2, LastFound
    <3> QED
      BY <3>1, <3>3
  <2>10. PICK last : last = (at + 1) + z + 1
    OBVIOUS
  <2>11. chain[last].kind = "length" /\ chain[last].value = r
    BY <2>7, <2>10 DEF LengthByte
  <2>12. \A any \in Nat :
           ReadLength(op, at + 1, any) =
             [value |-> (last - (at + 1) - 1) * LengthStep + any + r,
              end |-> last, ok |-> TRUE]
    BY <2>1, <2>9, <2>10, <2>11 DEF ReadLength
  <2>13. last - (at + 1) - 1 = z /\ last = at + Len(s)
    BY <2>4, <2>5, <2>10
  <2>14. (last - (at + 1) - 1) * LengthStep + limit + r = n - 2
    <3>1. PICK w \in Nat : w = z * LengthStep
      BY <2>4
    <3>2. w + r = n - (limit + 2)
      BY <2>4, <3>1
    <3>3. w + limit + r = n - 2
      BY ONLY <3>2, w \in Nat, <2>4, n \in Nat, limit \in Nat
    <3> QED
      BY <2>13, <3>1, <3>3
  <2> HIDE DEF op, s, m
  <2>15. \A any \in Nat : /\ ReadLength(op, at + 1, any).end = at + Len(s)
                           /\ ReadLength(op, at + 1, any).ok
    <3> SUFFICES ASSUME NEW any \in Nat
                 PROVE  /\ ReadLength(op, at + 1, any).end = last
                        /\ ReadLength(op, at + 1, any).ok
      BY <2>13
    <3>1. PICK v : v = (last - (at + 1) - 1) * LengthStep + any + r
      OBVIOUS
    <3>2. ReadLength(op, at + 1, any) = [value |-> v, end |-> last, ok |-> TRUE]
      BY <2>12, <3>1
    <3> QED
      BY <3>2
  <2>16. ReadLength(op, at + 1, limit).value = n - 2
    <3>1. PICK v : v = (last - (at + 1) - 1) * LengthStep + limit + r
      OBVIOUS
    <3>2. ReadLength(op, at + 1, limit) = [value |-> v, end |-> last, ok |-> TRUE]
      BY <2>12, <3>1
    <3> QED
      BY <2>14, <3>1, <3>2
  <2>17. IsRead(op, at, s, form, high, n, limit)
    BY <1>3, <1>5, <2>15, <2>16 DEF IsRead
  <2> QED
    BY <2>17 DEF op, s
<1> QED
  BY <1>7, <1>8

-----------------------------------------------------------------------------
(* Writing a match: its opcode and length, and its offset. *)
(* A match. *)
CompactForm(d, n) == n < CompactLen /\ d <= CompactDist
MediumForm(d, n) == ~ CompactForm(d, n) /\ d <= MediumDist
LongForm(d, n) == ~ CompactForm(d, n) /\ ~ (d <= MediumDist)

(* What the constants of the format give. *)
LEMMA FormFacts ==
  /\ CompactLen \in Nat /\ CompactDist \in Nat \ {0}
  /\ MediumDist \in Nat /\ CompactDist <= MediumDist
  /\ HighDist \in Nat \ {0} /\ MaxDist \in Nat
  /\ LiteralField \in Nat \ {0} /\ MediumField \in Nat \ {0}
  /\ LongField \in Nat \ {0} /\ LongField >= 2
BY Lz77Constants DEF MaxDist

Match(d, n) == [dist |-> d, len |-> n]

(* The opcode with its length, and the offset behind it. *)
MatchHead(d, n, lits) ==
  IF CompactForm(d, n)
  THEN <<Op("compact", n, 0, Trailing(lits))>>
  ELSE IF MediumForm(d, n)
  THEN WriteLength("medium", 0, n, MediumField + 2)
  ELSE WriteLength("long", (d - MediumDist) \div HighDist, n, LongField + 2)

MatchOffset(d, n, lits) ==
  IF CompactForm(d, n)
  THEN <<OffsetByte(d - 1, 0)>>
  ELSE IF MediumForm(d, n)
  THEN <<OffsetByte(d - 1, Trailing(lits)), OffsetByte(0, 0)>>
  ELSE <<OffsetByte((d - MediumDist) % HighDist, Trailing(lits)),
         OffsetByte(0, 0)>>

(* A match is its head and its offset, in each of the three forms. *)
LEMMA MatchParts ==
  ASSUME NEW d \in Nat, NEW n \in Nat \ {0}, NEW lits
  PROVE  WriteMatch(Match(d, n), lits)
           = MatchHead(d, n, lits) \o MatchOffset(d, n, lits)
<1>1. Match(d, n).dist = d /\ Match(d, n).len = n
  BY DEF Match
<1>2. CASE CompactForm(d, n)
  BY <1>1, <1>2 DEF WriteMatch, MatchHead, MatchOffset, CompactForm
<1>3. CASE MediumForm(d, n)
  BY <1>1, <1>3 DEF WriteMatch, MatchHead, MatchOffset, CompactForm, MediumForm
<1>4. CASE LongForm(d, n)
  BY <1>1, <1>4 DEF WriteMatch, MatchHead, MatchOffset, CompactForm, MediumForm,
                    LongForm
<1> QED
  BY <1>2, <1>3, <1>4 DEF MediumForm, LongForm

(* The count of the literals that are counted in a match. *)
LEMMA TrailingType ==
  ASSUME NEW lits \in Nat
  PROVE  Trailing(lits) \in Nat
BY DEF Trailing

(* The distance beyond the medium form, in the high bit and the offset.    *)
High(d) == (d - MediumDist) \div HighDist
Low(d) == (d - MediumDist) % HighDist

(* It is got back from the two. *)
LEMMA FarDistance ==
  ASSUME NEW d \in Nat, d > MediumDist
  PROVE  /\ High(d) \in Int /\ Low(d) \in Int
         /\ Low(d) + (MediumDist + High(d) * HighDist) = d
<1>1. PICK e \in Nat : e = d - MediumDist
  BY FormFacts
<1>2. /\ e \div HighDist \in Int /\ e % HighDist \in Int
      /\ e = (e \div HighDist) * HighDist + (e % HighDist)
  BY FormFacts
<1>3. PICK h \in Int, l \in Int : h = High(d) /\ l = Low(d)
  BY <1>1, <1>2 DEF High, Low
<1>4. h * HighDist \in Int
  BY FormFacts
<1>5. PICK w \in Int : w = h * HighDist
  BY <1>4
<1>6. d = MediumDist + (w + l)
  BY <1>1, <1>2, <1>3, <1>5, FormFacts DEF High, Low
<1>7. l + (MediumDist + w) = d
  BY <1>6, FormFacts
<1> QED
  BY <1>3, <1>5, <1>7

(* The bytes of a match in each form. *)
LEMMA MatchHeadFacts ==
  ASSUME NEW d \in Nat, NEW n \in Nat, n >= 3, NEW lits \in Nat
  PROVE  /\ MatchHead(d, n, lits) \in Seq(Cells)
         /\ Len(MatchHead(d, n, lits)) \in Nat \ {0}
         /\ MatchOffset(d, n, lits) \in Seq(Cells)
         /\ Len(MatchOffset(d, n, lits)) =
              (IF CompactForm(d, n) THEN 1 ELSE 2)
<1>1. CASE CompactForm(d, n)
  <2>1. /\ Op("compact", n, 0, Trailing(lits)) \in Cells
        /\ OffsetByte(d - 1, 0) \in Cells
    BY TrailingType, OpCell, OtherCells DEF Forms
  <2> QED
    BY <1>1, <2>1 DEF MatchHead, MatchOffset
<1>2. ASSUME ~ CompactForm(d, n), NEW form \in Forms, NEW h \in Int,
             NEW l \in Nat, NEW o \in Int,
             MatchHead(d, n, lits) = WriteLength(form, h, n, l),
             MatchOffset(d, n, lits) =
               <<OffsetByte(o, Trailing(lits)), OffsetByte(0, 0)>>
      PROVE  /\ MatchHead(d, n, lits) \in Seq(Cells)
             /\ Len(MatchHead(d, n, lits)) \in Nat \ {0}
             /\ MatchOffset(d, n, lits) \in Seq(Cells)
             /\ Len(MatchOffset(d, n, lits)) = 2
  <2>1. LengthWritten(WriteLength(form, h, n, l), form, h, n, l)
    BY WriteLengthFacts
  <2>2. l < n => n - l \in Nat \ {0}
    OBVIOUS
  <2>3. l < n => Zeros(n - l) \in Nat
    BY <2>2, Remainder
  <2>4. OffsetByte(o, Trailing(lits)) \in Cells /\ OffsetByte(0, 0) \in Cells
    BY TrailingType, OtherCells
  <2> QED
    BY <1>2, <2>1, <2>3, <2>4 DEF LengthWritten
<1>3. CASE MediumForm(d, n)
  <2>1. MediumField + 2 \in Nat /\ "medium" \in Forms /\ d - 1 \in Int
    BY FormFacts DEF Forms
  <2> QED
    BY <1>2, <1>3, <2>1 DEF MediumForm, MatchHead, MatchOffset
<1>4. CASE LongForm(d, n)
  <2>1. LongField + 2 \in Nat /\ "long" \in Forms
    BY FormFacts DEF Forms
  <2>2. d > MediumDist
    BY <1>4, FormFacts DEF LongForm
  <2>3. High(d) \in Int /\ Low(d) \in Int
    BY <2>2, FarDistance
  <2>4. MatchHead(d, n, lits) = WriteLength("long", High(d), n, LongField + 2)
    BY <1>4 DEF LongForm, MediumForm, MatchHead, High
  <2>5. MatchOffset(d, n, lits) =
          <<OffsetByte(Low(d), Trailing(lits)), OffsetByte(0, 0)>>
    BY <1>4 DEF LongForm, MediumForm, MatchOffset, Low
  <2> QED
    BY <1>2, <1>4, <2>1, <2>3, <2>4, <2>5 DEF LongForm
<1> QED
  BY <1>1, <1>3, <1>4 DEF MediumForm, LongForm

-----------------------------------------------------------------------------
(* Reading a match. *)
(* The reader stands behind the opcode of a match that begins behind "at". *)
AtMatch(at, d, n, lits) ==
  /\ chain \in Seq(Cells) /\ Holds(chain, at, WriteMatch(Match(d, n), lits))
  /\ byte = at + 1 /\ opcode = chain[at + 1]


(* The compact form is read as the match that was written. *)
LEMMA CompactRead ==
  ASSUME NEW at \in Nat, NEW d \in Nat \ {0}, NEW n \in Nat, n >= 3,
         NEW lits \in Nat, CompactForm(d, n), AtMatch(at, d, n, lits)
  PROVE  /\ OffsetFollows /\ opcode = Op("compact", n, 0, Trailing(lits))
         /\ MatchAt = [len |-> n, dist |-> d, lits |-> Trailing(lits),
                       end |-> at + 2, ok |-> TRUE]
<1>1. WriteMatch(Match(d, n), lits) =
        <<Op("compact", n, 0, Trailing(lits)), OffsetByte(d - 1, 0)>>
  BY DEF WriteMatch, Match, CompactForm
<1>2. /\ chain[at + 1] = Op("compact", n, 0, Trailing(lits))
      /\ chain[at + 2] = OffsetByte(d - 1, 0)
  BY <1>1 DEF AtMatch, Holds
<1>3. /\ opcode = Op("compact", n, 0, Trailing(lits))
      /\ chain[byte + 1] = OffsetByte(d - 1, 0) /\ byte + 1 = at + 2
  BY <1>2 DEF AtMatch
<1>4. /\ opcode.form = "compact" /\ opcode.kind = "opcode" /\ opcode.field = n
      /\ opcode.lits = Trailing(lits)
  BY <1>3 DEF Op
<1>5. chain[byte + 1].kind = "offset" /\ chain[byte + 1].value + 1 = d
  BY <1>3 DEF OffsetByte
<1>6. OffsetFollows
  BY <1>4, <1>5 DEF OffsetFollows
<1>7. MatchAt = [len |-> n, dist |-> d, lits |-> Trailing(lits),
                 end |-> at + 2, ok |-> TRUE]
  BY <1>3, <1>4, <1>5 DEF MatchAt
<1> QED
  BY <1>3, <1>6, <1>7

(* The two forms with an offset of two bytes. *)
WideAt(at, head, tail, form, h, n, l, o, t) ==
  /\ head = WriteLength(form, h, n, l + 2)
  /\ tail = <<OffsetByte(o, t), OffsetByte(0, 0)>>
  /\ chain \in Seq(Cells) /\ Holds(chain, at, head)
  /\ Holds(chain, at + Len(head), tail)
  /\ byte = at + 1 /\ opcode = chain[at + 1]

WideUnderstood(at, head, form, h, n, l, o, t) ==
  /\ OffsetFollows /\ opcode = Op(form, Field(n, l + 2), h, 0)
  /\ Len(head) \in Nat \ {0}
  /\ ReadLength(opcode, byte, l).value + 2 = n
  /\ ReadLength(opcode, byte, l).ok
  /\ ReadLength(opcode, byte, l).end = at + Len(head)
  /\ chain[at + Len(head) + 1] = OffsetByte(o, t)

(* The offset of two bytes behind any length. *)
LEMMA WideRead ==
  ASSUME NEW at \in Nat, NEW n \in Nat, n >= 3, NEW form \in {"medium", "long"},
         NEW h \in Int, NEW l \in Nat, NEW o \in Int, NEW t \in Nat,
         NEW head, NEW tail, WideAt(at, head, tail, form, h, n, l, o, t)
  PROVE  WideUnderstood(at, head, form, h, n, l, o, t)
<1>0. /\ head = WriteLength(form, h, n, l + 2)
      /\ chain \in Seq(Cells) /\ Holds(chain, at, head)
      /\ byte = at + 1 /\ opcode = chain[at + 1] /\ form \in Forms
  BY DEF WideAt, Forms
<1>1. IsRead(opcode, at, head, form, h, n, l)
  BY <1>0, LengthRead
<1>2. PICK e \in Nat : e = at + Len(head)
  BY <1>1 DEF IsRead
<1>3. /\ chain[e + 1] = OffsetByte(o, t) /\ chain[e + 2] = OffsetByte(0, 0)
      /\ e + 2 <= Len(chain)
  BY <1>2 DEF Holds, WideAt
<1>4. opcode.kind = "opcode" /\ opcode.form = form
  BY <1>1 DEF IsRead, Op
<1>5. chain[e + 1].kind = "offset" /\ chain[e + 2].kind = "offset"
  BY <1>3 DEF OffsetByte
<1>6. ReadLength(opcode, byte, 0).ok /\ ReadLength(opcode, byte, 0).end = e
  BY <1>0, <1>1, <1>2 DEF IsRead
<1>7. OffsetFollows
  BY <1>3, <1>4, <1>5, <1>6 DEF OffsetFollows
<1>8. ReadLength(opcode, byte, l).value + 2 = n
  BY <1>0, <1>1 DEF IsRead
<1>9. \A any \in Nat : /\ ReadLength(opcode, byte, any).ok
                       /\ ReadLength(opcode, byte, any).end = at + Len(head)
  BY <1>0, <1>1 DEF IsRead
<1> QED
  BY <1>1, <1>2, <1>3, <1>7, <1>8, <1>9 DEF IsRead, WideUnderstood

(* A match that the stream holds is there with both its parts. *)
LEMMA PartsHold ==
  ASSUME NEW at \in Nat, NEW d \in Nat, NEW n \in Nat, n >= 3, NEW lits \in Nat,
         AtMatch(at, d, n, lits)
  PROVE  /\ Holds(chain, at, MatchHead(d, n, lits))
         /\ Holds(chain, at + Len(MatchHead(d, n, lits)), MatchOffset(d, n, lits))
         /\ Len(WriteMatch(Match(d, n), lits))
              = Len(MatchHead(d, n, lits)) + Len(MatchOffset(d, n, lits))
<1>1. WriteMatch(Match(d, n), lits)
        = MatchHead(d, n, lits) \o MatchOffset(d, n, lits)
  BY MatchParts
<1>2. PICK s, t : s = MatchHead(d, n, lits) /\ t = MatchOffset(d, n, lits)
  OBVIOUS
<1>3. s \in Seq(Cells) /\ t \in Seq(Cells)
  BY <1>2, MatchHeadFacts
<1>4. chain \in Seq(Cells) /\ Holds(chain, at, s \o t)
  BY <1>1, <1>2 DEF AtMatch
<1>5. Holds(chain, at, s) /\ Holds(chain, at + Len(s), t)
  BY <1>3, <1>4, HoldsParts
<1>6. Len(s \o t) = Len(s) + Len(t)
  BY <1>3
<1> QED
  BY <1>1, <1>2, <1>5, <1>6

(* The medium form is read as the match that was written. *)
LEMMA MediumRead ==
  ASSUME NEW at \in Nat, NEW d \in Nat \ {0}, NEW n \in Nat, n >= 3,
         NEW lits \in Nat, MediumForm(d, n), AtMatch(at, d, n, lits)
  PROVE  /\ OffsetFollows /\ opcode.kind = "opcode" /\ opcode.form = "medium"
         /\ MatchAt = [len |-> n, dist |-> d, lits |-> Trailing(lits),
                       end |-> at + Len(WriteMatch(Match(d, n), lits)),
                       ok |-> TRUE]
<1>1. PICK head, t : head = MatchHead(d, n, lits) /\ t = Trailing(lits)
  OBVIOUS
<1>2. head = WriteLength("medium", 0, n, MediumField + 2)
  BY <1>1 DEF MatchHead, MediumForm
<1>3. MatchOffset(d, n, lits) = <<OffsetByte(d - 1, t), OffsetByte(0, 0)>>
  BY <1>1 DEF MatchOffset, MediumForm
<1>4. Holds(chain, at, head)
      /\ Holds(chain, at + Len(head), MatchOffset(d, n, lits))
  BY <1>1, PartsHold
<1>5. t \in Nat /\ d - 1 \in Int /\ MediumField \in Nat
  BY <1>1, TrailingType, FormFacts
<1>6. chain \in Seq(Cells) /\ byte = at + 1 /\ opcode = chain[at + 1]
  BY DEF AtMatch
<1>7. WideUnderstood(at, head, "medium", 0, n, MediumField, d - 1, t)
  <2>1. PICK tail : tail = MatchOffset(d, n, lits)
    OBVIOUS
  <2>2. WideAt(at, head, tail, "medium", 0, n, MediumField, d - 1, t)
    BY <1>2, <1>3, <1>4, <1>6, <2>1 DEF WideAt
  <2> QED
    BY <1>5, <2>2, WideRead
<1>8. opcode.form = "medium" /\ opcode.kind = "opcode"
  BY <1>7 DEF Op, WideUnderstood
<1>9. PICK length : length = ReadLength(opcode, byte, MediumField)
  OBVIOUS
<1>10. PICK e \in Nat : e = at + Len(head)
  BY <1>7 DEF WideUnderstood
<1>11. length.ok /\ length.end = e /\ length.value + 2 = n
  BY <1>7, <1>9, <1>10 DEF WideUnderstood
<1>12. chain[e + 1].value + 1 = d /\ chain[e + 1].lits = t
  BY <1>7, <1>10 DEF OffsetByte, WideUnderstood
<1>13. MatchAt = [len |-> n, dist |-> d, lits |-> t, end |-> e + 2,
                  ok |-> length.ok]
  BY <1>8, <1>9, <1>11, <1>12 DEF MatchAt
<1>14. Len(WriteMatch(Match(d, n), lits)) = Len(head) + 2
  <2>1. Len(MatchOffset(d, n, lits)) = 2
    BY <1>3
  <2>2. Len(WriteMatch(Match(d, n), lits))
          = Len(MatchHead(d, n, lits)) + Len(MatchOffset(d, n, lits))
    BY PartsHold
  <2> QED
    BY <1>1, <2>1, <2>2
<1>15. e + 2 = at + Len(WriteMatch(Match(d, n), lits))
  BY <1>7, <1>10, <1>14 DEF WideUnderstood
<1> QED
  BY <1>1, <1>7, <1>8, <1>11, <1>13, <1>15 DEF WideUnderstood

(* The long form is read as the match that was written. *)
LEMMA LongRead ==
  ASSUME NEW at \in Nat, NEW d \in Nat \ {0}, NEW n \in Nat, n >= 3,
         NEW lits \in Nat, LongForm(d, n), AtMatch(at, d, n, lits)
  PROVE  /\ OffsetFollows
         /\ opcode = Op("long", Field(n, LongField + 2), High(d), 0)
         /\ MatchAt = [len |-> n, dist |-> d, lits |-> Trailing(lits),
                       end |-> at + Len(WriteMatch(Match(d, n), lits)),
                       ok |-> TRUE]
<1>1. PICK head, t, h, o :
        /\ head = MatchHead(d, n, lits) /\ t = Trailing(lits)
        /\ h = High(d) /\ o = Low(d)
  OBVIOUS
<1>2. head = WriteLength("long", h, n, LongField + 2)
  BY <1>1 DEF MatchHead, LongForm, MediumForm, High
<1>3. MatchOffset(d, n, lits) = <<OffsetByte(o, t), OffsetByte(0, 0)>>
  BY <1>1 DEF MatchOffset, LongForm, MediumForm, Low
<1>4. Holds(chain, at, head)
      /\ Holds(chain, at + Len(head), MatchOffset(d, n, lits))
  BY <1>1, PartsHold
<1>5. d > MediumDist /\ MediumDist \in Nat /\ LongField \in Nat
  BY FormFacts DEF LongForm
<1>6. t \in Nat /\ h \in Int /\ o \in Int /\ o + (MediumDist + h * HighDist) = d
  BY <1>1, <1>5, TrailingType, FarDistance
<1>7. chain \in Seq(Cells) /\ byte = at + 1 /\ opcode = chain[at + 1]
  BY DEF AtMatch
<1>8. WideUnderstood(at, head, "long", h, n, LongField, o, t)
  <2>1. PICK tail : tail = MatchOffset(d, n, lits)
    OBVIOUS
  <2>2. WideAt(at, head, tail, "long", h, n, LongField, o, t)
    BY <1>2, <1>3, <1>4, <1>7, <2>1 DEF WideAt
  <2> QED
    BY <1>5, <1>6, <2>2, WideRead
<1>9. opcode.form = "long" /\ opcode.kind = "opcode" /\ opcode.high = h
  BY <1>8 DEF Op, WideUnderstood
<1>10. PICK length : length = ReadLength(opcode, byte, LongField)
  OBVIOUS
<1>11. PICK e \in Nat : e = at + Len(head)
  BY <1>8 DEF WideUnderstood
<1>12. length.ok /\ length.end = e /\ length.value + 2 = n
  BY <1>8, <1>10, <1>11 DEF WideUnderstood
<1>13. chain[e + 1].value = o /\ chain[e + 1].lits = t
  BY <1>8, <1>11 DEF OffsetByte, WideUnderstood
<1>14. MatchAt = [len |-> n, dist |-> o + (MediumDist + h * HighDist),
                  lits |-> t, end |-> e + 2, ok |-> length.ok]
  BY <1>9, <1>10, <1>12, <1>13 DEF MatchAt
<1>15. Len(WriteMatch(Match(d, n), lits)) = Len(head) + 2
  <2>1. Len(MatchOffset(d, n, lits)) = 2
    BY <1>3
  <2>2. Len(WriteMatch(Match(d, n), lits))
          = Len(MatchHead(d, n, lits)) + Len(MatchOffset(d, n, lits))
    BY PartsHold
  <2> QED
    BY <1>1, <2>1, <2>2
<1>16. e + 2 = at + Len(WriteMatch(Match(d, n), lits))
  BY <1>8, <1>11, <1>15 DEF WideUnderstood
<1> QED
  BY <1>1, <1>6, <1>8, <1>12, <1>14, <1>16 DEF WideUnderstood

(* The reader takes a match for what it is, unless it is a long one of     *)
(* length 3, which the test of the fourth byte excludes.                   *)
LEMMA MatchRead ==
  ASSUME NEW at \in Nat, NEW d \in Nat \ {0}, NEW n \in Nat, n >= 3,
         NEW lits \in Nat, d > CompactDist => n > 3, AtMatch(at, d, n, lits)
  PROVE  /\ OffsetFollows /\ opcode.kind = "opcode" /\ opcode.form # "literal"
         /\ opcode # Terminator
         /\ MatchAt = [len |-> n, dist |-> d, lits |-> Trailing(lits),
                       end |-> at + Len(WriteMatch(Match(d, n), lits)),
                       ok |-> TRUE]
<1>1. Terminator.form = "long" /\ Terminator.field = 1
  BY DEF Terminator, Op
<1>2. CASE CompactForm(d, n)
  <2>1. /\ OffsetFollows /\ opcode = Op("compact", n, 0, Trailing(lits))
        /\ MatchAt = [len |-> n, dist |-> d, lits |-> Trailing(lits),
                      end |-> at + 2, ok |-> TRUE]
    BY <1>2, CompactRead
  <2>2. opcode.form = "compact" /\ opcode.kind = "opcode"
    BY <2>1 DEF Op
  <2>3. Len(WriteMatch(Match(d, n), lits)) = 2
    BY <1>2 DEF WriteMatch, Match, CompactForm
  <2> QED
    BY <1>1, <2>1, <2>2, <2>3
<1>3. CASE MediumForm(d, n)
  BY <1>1, <1>3, MediumRead
<1>4. CASE LongForm(d, n)
  <2>1. d > CompactDist /\ n - 2 # 1
    BY <1>4, FormFacts DEF LongForm
  <2>2. Field(n, LongField + 2) # 1
    BY <2>1 DEF Field
  <2>3. /\ opcode = Op("long", Field(n, LongField + 2), High(d), 0)
        /\ OffsetFollows
        /\ MatchAt = [len |-> n, dist |-> d, lits |-> Trailing(lits),
                      end |-> at + Len(WriteMatch(Match(d, n), lits)),
                      ok |-> TRUE]
    BY <1>4, LongRead
  <2>4. /\ opcode.form = "long" /\ opcode.kind = "opcode"
        /\ opcode.field = Field(n, LongField + 2)
    BY <2>3 DEF Op
  <2> QED
    BY <1>1, <2>2, <2>3, <2>4
<1> QED
  BY <1>2, <1>3, <1>4 DEF MediumForm, LongForm

-----------------------------------------------------------------------------
(* Copying a match. *)

(* A number has one quotient and one remainder. *)
LEMMA QuotientNotLess ==
  ASSUME NEW m \in Nat \ {0}, NEW q \in Nat, NEW s \in Nat,
         NEW r \in 0 .. m - 1, NEW t \in 0 .. m - 1, q * m + r = s * m + t
  PROVE  ~ (q < s)
<1> SUFFICES ASSUME q < s PROVE FALSE
  OBVIOUS
<1>1. PICK k \in Nat : s = q + 1 + k
  <2>1. s - (q + 1) \in Nat /\ s = q + 1 + (s - (q + 1))
    OBVIOUS
  <2> QED
    BY <2>1
<1>2. s * m = q * m + m + k * m
  BY <1>1
<1>3. q * m \in Nat /\ k * m \in Nat /\ s * m \in Nat
  OBVIOUS
<1>4. PICK a \in Nat, b \in Nat, c \in Nat : a = q * m /\ b = k * m /\ c = s * m
  BY <1>3
<1>5. a + r = c + t /\ c = a + m + b
  BY <1>2, <1>4
<1> QED
  BY ONLY <1>5, m \in Nat \ {0}, r \in 0 .. m - 1, t \in 0 .. m - 1, a \in Nat,
          b \in Nat, c \in Nat

(* The remainder of a number below m, and of one m further. *)
LEMMA Modulus ==
  ASSUME NEW a \in Nat, NEW m \in Nat \ {0}
  PROVE  /\ a % m \in 0 .. m - 1
         /\ a < m => a % m = a
         /\ a >= m => a % m = (a - m) % m
<1>1. a % m \in 0 .. m - 1 /\ (a < m => a % m = a)
  OBVIOUS
<1>2. ASSUME a >= m PROVE a % m = (a - m) % m
  <2>1. PICK b \in Nat : b = a - m /\ a = b + m
    BY <1>2
  <2>2. /\ a \div m \in Nat /\ b \div m \in Nat
        /\ a % m \in 0 .. m - 1 /\ b % m \in 0 .. m - 1
        /\ a = (a \div m) * m + (a % m) /\ b = (b \div m) * m + (b % m)
    OBVIOUS
  <2>3. PICK q \in Nat, s \in Nat, r \in 0 .. m - 1, t \in 0 .. m - 1 :
          /\ q = a \div m /\ s = (b \div m) + 1 /\ r = a % m /\ t = b % m
    BY <2>2
  <2>4. q * m + r = s * m + t
    <3>1. PICK u \in Nat : u = b \div m
      BY <2>2
    <3>2. s = u + 1 /\ b = u * m + t
      BY <2>2, <2>3, <3>1
    <3>3. (u + 1) * m = u * m + m /\ u * m \in Nat
      OBVIOUS
    <3>4. PICK w \in Nat : w = u * m
      BY <3>3
    <3>5. a = w + m + t
      BY <2>1, <3>2, <3>4
    <3>6. a = s * m + t
      BY <3>2, <3>3, <3>4, <3>5
    <3> QED
      BY <2>2, <2>3, <3>6
  <2>5. q = s
    <3>1. ~ (q < s)
      BY <2>4, QuotientNotLess
    <3>2. ~ (s < q)
      BY <2>4, QuotientNotLess
    <3> QED
      BY <3>1, <3>2
  <2>6. q * m \in Nat
    OBVIOUS
  <2>7. PICK w \in Nat : w = q * m
    BY <2>6
  <2>8. r = t
    BY <2>4, <2>5, <2>7
  <2> QED
    BY <2>1, <2>3, <2>8
<1> QED
  BY <1>1, <1>2

(* The first m values of d. *)
First(d, m) == [i \in 1 .. m |-> d[i]]

(* The beginning of a section is a section. *)
LEMMA FirstFacts ==
  ASSUME NEW d \in Seq(Values), NEW m \in 0 .. Len(d)
  PROVE  First(d, m) \in Seq(Values) /\ Len(First(d, m)) = m
         /\ \A i \in 1 .. m : First(d, m)[i] = d[i]
<1>1. \A i \in 1 .. m : d[i] \in Values
  OBVIOUS
<1>2. m \in Nat
  OBVIOUS
<1>3. First(d, m) \in [1 .. m -> Values]
  BY <1>1 DEF First
<1>4. First(d, m) \in Seq(Values) /\ Len(First(d, m)) = m
  BY <1>2, <1>3
<1> QED
  BY <1>4 DEF First

(* What is appended to the beginning of a section lengthens it. *)
LEMMA FirstGrows ==
  ASSUME NEW d \in Seq(Values), NEW m \in Nat, NEW n \in Nat, m + n <= Len(d),
         NEW s, s = [b \in 1 .. n |-> d[m + b]]
  PROVE  First(d, m) \o s = First(d, m + n)
<1>1. m \in 0 .. Len(d) /\ m + n \in 0 .. Len(d) /\ m + n \in Nat
  OBVIOUS
<1>2. PICK f, g : f = First(d, m) /\ g = First(d, m + n)
  OBVIOUS
<1>3. f \in Seq(Values) /\ Len(f) = m /\ \A i \in 1 .. m : f[i] = d[i]
  BY <1>1, <1>2, FirstFacts
<1>4. /\ g \in Seq(Values) /\ Len(g) = m + n
      /\ \A i \in 1 .. m + n : g[i] = d[i]
  BY <1>1, <1>2, FirstFacts
<1>5. \A b \in 1 .. n : d[m + b] \in Values
  <2>1. \A b \in 1 .. n : m + b \in 1 .. Len(d)
    OBVIOUS
  <2> QED
    BY <2>1
<1>6. s \in [1 .. n -> Values]
  BY <1>5
<1>7. s \in Seq(Values) /\ Len(s) = n
  BY ONLY <1>6, n \in Nat
<1>8. \A b \in 1 .. n : s[b] = d[m + b]
  OBVIOUS
<1>9. f \o s \in Seq(Values) /\ Len(f \o s) = m + n
  BY ONLY <1>3, <1>7, Behind
<1>10. ASSUME NEW i \in 1 .. m + n PROVE (f \o s)[i] = d[i]
  <2>1. CASE i \in 1 .. m
    BY <1>3, <1>7, <2>1, Parts
  <2>2. CASE ~ (i \in 1 .. m)
    <3>1. PICK b \in 1 .. n : i = m + b
      <4>1. i - m \in 1 .. n /\ i = m + (i - m)
        BY <2>2
      <4> QED
        BY <4>1
    <3>2. (f \o s)[Len(f) + b] = s[b]
      BY <1>3, <1>7, Parts
    <3> QED
      BY <1>3, <1>8, <3>1, <3>2
  <2> QED
    BY <2>1, <2>2
<1>11. f \o s = g
  <2>1. \A i \in 1 .. Len(f \o s) : (f \o s)[i] = g[i]
    BY <1>4, <1>9, <1>10
  <2>2. PICK h : h = f \o s
    OBVIOUS
  <2>3. h \in Seq(Values) /\ Len(h) = Len(g) /\ \A i \in 1 .. Len(h) : h[i] = g[i]
    BY <1>4, <1>9, <2>1, <2>2
  <2>4. h = g
    BY ONLY <2>3, <1>4
  <2> QED
    BY <2>2, <2>4
<1> QED
  BY <1>2, <1>11

(* What repeats at a distance is found one period after the other.         *)
LEMMA Periodic ==
  ASSUME NEW d, NEW m \in Nat, NEW dist \in Nat \ {0}, NEW n \in Nat, dist <= m,
         \A b \in 1 .. n : d[m - dist + b] = d[m + b]
  PROVE  \A b \in 1 .. n : d[m - dist + 1 + ((b - 1) % dist)] = d[m + b]
<1> DEFINE Right(b) == d[m - dist + 1 + ((b - 1) % dist)] = d[m + b]
           Wrong == {b \in 1 .. n : ~ Right(b)}
<1> SUFFICES ASSUME Wrong # {} PROVE FALSE
  OBVIOUS
<1>1. IsWellFoundedOn(OpToRel(<, Nat), Nat)
  BY NatLessThanWellFounded
<1>2. Wrong \subseteq Nat
  OBVIOUS
<1>3. PICK b \in Wrong : \A y \in Wrong : ~ (<<y, b>> \in OpToRel(<, Nat))
  BY <1>1, <1>2, WFMin
<1>4. b \in 1 .. n /\ b \in Nat /\ ~ Right(b)
  OBVIOUS
<1>5. \A y \in 1 .. b - 1 : Right(y)
  <2> SUFFICES ASSUME NEW y \in 1 .. b - 1, ~ Right(y) PROVE FALSE
    OBVIOUS
  <2>1. y \in Wrong /\ y \in Nat /\ y < b
    BY <1>4
  <2> HIDE DEF Wrong, Right
  <2>2. <<y, b>> \in OpToRel(<, Nat)
    BY <1>4, <2>1 DEF OpToRel
  <2> QED
    BY <1>3, <2>1, <2>2
<1>6. PICK a \in Nat : a = b - 1
  BY <1>4
<1>7. CASE a < dist
  <2>1. a % dist = a
    BY <1>7, Modulus
  <2>2. m - dist + 1 + a = m - dist + b
    BY <1>4, <1>6
  <2> QED
    BY <1>4, <1>6, <2>1, <2>2
<1>8. CASE ~ (a < dist)
  <2>1. PICK y \in 1 .. b - 1 : y = b - dist
    BY <1>4, <1>6, <1>8
  <2>2. y - 1 = a - dist
    BY <1>4, <1>6, <2>1
  <2>3. a % dist = (y - 1) % dist
    <3>1. a >= dist
      BY <1>8
    <3>2. a % dist = (a - dist) % dist
      BY <3>1, Modulus
    <3> QED
      BY <2>2, <3>2
  <2>4. Right(y)
    BY <1>5
  <2>5. d[m - dist + 1 + (a % dist)] = d[m + y]
    BY <2>3, <2>4
  <2>6. m + y = m - dist + b
    BY <1>4, <2>1
  <2>7. d[m - dist + b] = d[m + b]
    BY <1>4
  <2> QED
    BY <1>4, <1>6, <2>5, <2>6, <2>7
<1> QED
  BY <1>7, <1>8

-----------------------------------------------------------------------------
(* Literals. *)
Plain(d, from, n) == [b \in 1 .. n |-> LiteralByte(d[from + b])]
LiteralHead(n) ==
  IF n > 3 THEN WriteLength("literal", 0, n - 1, LiteralField + 2) ELSE <<>>
Literals(d, from, n) == LiteralHead(n) \o Plain(d, from, n)

(* The reader takes the value of a literal for the byte. *)
LEMMA LiteralValue ==
  ASSUME NEW v
  PROVE  LiteralByte(v).kind = "literal" /\ LiteralByte(v).value = v
BY DEF LiteralByte

(* The literal bytes, without an opcode. *)
LEMMA PlainFacts ==
  ASSUME NEW d \in Seq(Values), NEW from \in Nat, NEW n \in Nat,
         from + n <= Len(d)
  PROVE  /\ Plain(d, from, n) \in Seq(Cells) /\ Len(Plain(d, from, n)) = n
         /\ \A b \in 1 .. n : Plain(d, from, n)[b] = LiteralByte(d[from + b])
<1>1. \A b \in 1 .. n : d[from + b] \in Values
  <2>1. \A b \in 1 .. n : from + b \in 1 .. Len(d)
    OBVIOUS
  <2> QED
    BY <2>1
<1>2. \A b \in 1 .. n : LiteralByte(d[from + b]) \in Cells
  BY <1>1, LiteralCell
<1>3. Plain(d, from, n) \in [1 .. n -> Cells]
  BY <1>2 DEF Plain
<1>4. Plain(d, from, n) \in Seq(Cells) /\ Len(Plain(d, from, n)) = n
  BY ONLY <1>3, n \in Nat
<1> QED
  BY <1>4 DEF Plain

(* A run of more than three literals has an opcode before it. *)
LEMMA LiteralHeadFacts ==
  ASSUME NEW n \in Nat
  PROVE  LiteralHead(n) \in Seq(Cells) /\ Len(LiteralHead(n)) \in Nat
         /\ (n > 3 => Len(LiteralHead(n)) # 0)
<1>1. CASE ~ (n > 3)
  BY <1>1 DEF LiteralHead
<1>2. CASE n > 3
  <2>1. PICK m \in Nat, l \in Nat : m = n - 1 /\ l = LiteralField + 2
    BY <1>2, FormFacts
  <2>2. LengthWritten(WriteLength("literal", 0, m, l), "literal", 0, m, l)
    BY <1>2, <2>1, WriteLengthFacts DEF Forms
  <2>3. l < m => m - l \in Nat \ {0}
    OBVIOUS
  <2>4. l < m => Zeros(m - l) \in Nat
    BY <2>3, Remainder
  <2>5. LiteralHead(n) = WriteLength("literal", 0, m, l)
    BY <1>2, <2>1 DEF LiteralHead
  <2> QED
    BY <2>2, <2>4, <2>5 DEF LengthWritten
<1> QED
  BY <1>1, <1>2

(* The bytes of a run of literals. *)
LEMMA LiteralsFacts ==
  ASSUME NEW d \in Seq(Values), NEW from \in Nat, NEW n \in Nat,
         from + n <= Len(d)
  PROVE  /\ Literals(d, from, n) \in Seq(Cells)
         /\ Len(Literals(d, from, n)) = Len(LiteralHead(n)) + n
<1>1. LiteralHead(n) \in Seq(Cells)
  BY LiteralHeadFacts
<1>2. Plain(d, from, n) \in Seq(Cells) /\ Len(Plain(d, from, n)) = n
  BY PlainFacts
<1> QED
  BY <1>1, <1>2, Behind DEF Literals

(* Behind the place "at" comes an opcode that is no run of literals. *)
NextOpcode(at) ==
  /\ at < Len(chain) /\ chain[at + 1].kind = "opcode"
  /\ chain[at + 1].form # "literal"

(* The reader arrives at the opcode behind "at" with the first m bytes. *)
Arrives(at, m) ==
  /\ phase' = "decode" /\ dec' = First(decomp, m)
  /\ byte' = at + 1 /\ opcode' = chain[at + 1]
  /\ UNCHANGED <<decomp, writer, chain>>

(* copy_bytes reads literals back, and the opcode behind them. *)
LEMMA PlainRead ==
  ASSUME NEW at \in Nat, NEW from \in Nat, NEW n \in Nat, decomp \in Seq(Values),
         chain \in Seq(Cells), from + n <= Len(decomp),
         Holds(chain, at, Plain(decomp, from, n)), NextOpcode(at + n),
         CopyLiterals(First(decomp, from), at, n)
  PROVE  Arrives(at + n, from + n)
<1>1. /\ Len(Plain(decomp, from, n)) = n
      /\ \A b \in 1 .. n :
           Plain(decomp, from, n)[b] = LiteralByte(decomp[from + b])
  BY PlainFacts
<1>2. \A b \in 1 .. n : chain[at + b] = LiteralByte(decomp[from + b])
  BY <1>1 DEF Holds
<1>3. \A b \in 1 .. n : chain[at + b].kind = "literal"
                        /\ chain[at + b].value = decomp[from + b]
  BY <1>2, LiteralValue
<1>4. \A b \in at + 1 .. at + n : chain[b].kind = "literal"
  <2> SUFFICES ASSUME NEW b \in at + 1 .. at + n
               PROVE  chain[b].kind = "literal"
    OBVIOUS
  <2>1. b - at \in 1 .. n /\ at + (b - at) = b
    OBVIOUS
  <2> QED
    BY <1>3, <2>1
<1>5. AllLiteral(at, n)
  BY <1>4 DEF AllLiteral, NextOpcode
<1>6. PICK s : s = [b \in 1 .. n |-> chain[at + b].value]
  OBVIOUS
<1>7. s = [b \in 1 .. n |-> decomp[from + b]]
  BY <1>3, <1>6
<1>8. First(decomp, from) \o s = First(decomp, from + n)
  BY <1>7, FirstGrows
<1>9. /\ dec' = First(decomp, from) \o s /\ opcode' = chain[at + n + 1]
      /\ byte' = at + n + 1 /\ phase' = "decode"
      /\ UNCHANGED <<decomp, writer, chain>>
  BY <1>5, <1>6 DEF CopyLiterals
<1> QED
  BY <1>8, <1>9 DEF Arrives

(* A run of more than three literals has an opcode of its own. *)
LEMMA RunRead ==
  ASSUME NEW at \in Nat, NEW n \in Nat, n > 3, NEW s \in Seq(Cells),
         chain \in Seq(Cells), Holds(chain, at, LiteralHead(n) \o s)
  PROVE  LET length == ReadLength(chain[at + 1], at + 1, LiteralField)
         IN  /\ chain[at + 1].kind = "opcode" /\ chain[at + 1].form = "literal"
             /\ length.ok /\ length.end = at + Len(LiteralHead(n))
             /\ length.value + 3 = n
             /\ Holds(chain, length.end, s)
<1>1. PICK head : head = LiteralHead(n)
  OBVIOUS
<1>2. PICK m \in Nat : m = n - 1 /\ m >= 3
  OBVIOUS
<1>3. head = WriteLength("literal", 0, m, LiteralField + 2)
  BY <1>1, <1>2 DEF LiteralHead
<1>4. head \in Seq(Cells)
  BY <1>1, LiteralHeadFacts
<1>5. Holds(chain, at, head) /\ Holds(chain, at + Len(head), s)
  BY <1>1, <1>4, HoldsParts
<1>6. LiteralField \in Nat /\ "literal" \in Forms
  BY FormFacts DEF Forms
<1>7. IsRead(chain[at + 1], at, head, "literal", 0, m, LiteralField)
  BY <1>2, <1>3, <1>5, <1>6, LengthRead
<1>8. PICK op : op = chain[at + 1]
  OBVIOUS
<1>9. PICK length : length = ReadLength(op, at + 1, LiteralField)
  OBVIOUS
<1>10. length.ok /\ length.end = at + Len(head) /\ length.value = m - 2
  BY <1>6, <1>7, <1>8, <1>9 DEF IsRead
<1>11. op.kind = "opcode" /\ op.form = "literal"
  BY <1>7, <1>8 DEF IsRead, Op
<1> QED
  BY <1>1, <1>2, <1>5, <1>8, <1>9, <1>10, <1>11

-----------------------------------------------------------------------------
(* The parts of a compressed section: a match, of length 0 in the first,   *)
(* and the literals behind it.                                             *)
Groups == [at : Nat, from : Nat, dist : Nat, len : Nat, lits : Nat]

Code(d, g) ==
  WriteMatch(Match(g.dist, g.len), g.lits)
    \o Literals(d, g.from + g.len, g.lits)

IsFirstGroup(d, g) ==
  /\ g.at = 0 /\ g.from = 0 /\ g.len = 0 /\ g.lits > 3 /\ g.lits <= Len(d)

IsMatchGroup(d, g) ==
  /\ g.len >= 3 /\ g.dist \in 1 .. g.from
  /\ g.from + g.len + g.lits <= Len(d)
  /\ g.dist > CompactDist => g.len > 3
  /\ \A b \in 1 .. g.len : d[g.from - g.dist + b] = d[g.from + b]

(* The first group is a run of literals. *)
LEMMA FirstCode ==
  ASSUME NEW d \in Seq(Values), NEW g \in Groups, IsFirstGroup(d, g)
  PROVE  /\ Code(d, g) = Literals(d, 0, g.lits)
         /\ Code(d, g) \in Seq(Cells) /\ Len(Code(d, g)) \in Nat \ {0}
<1>1. WriteMatch(Match(g.dist, g.len), g.lits) = <<>>
  BY DEF IsFirstGroup, WriteMatch, Match
<1>2. g.from + g.len = 0 /\ g.lits \in Nat /\ g.lits > 3 /\ g.lits <= Len(d)
  BY DEF IsFirstGroup, Groups
<1>3. PICK n \in Nat : n = g.lits
  BY <1>2
<1>4. /\ Literals(d, 0, n) \in Seq(Cells)
      /\ Len(Literals(d, 0, n)) = Len(LiteralHead(n)) + n
      /\ Len(LiteralHead(n)) \in Nat
  <2>1. 0 + n <= Len(d) /\ 0 \in Nat
    BY <1>2, <1>3
  <2> QED
    BY <2>1, LiteralsFacts, LiteralHeadFacts
<1>5. Code(d, g) = <<>> \o Literals(d, 0, n)
  BY <1>1, <1>2, <1>3 DEF Code
<1>6. Code(d, g) = Literals(d, 0, n)
  BY <1>4, <1>5
<1> QED
  BY <1>2, <1>3, <1>4, <1>6

(* The other groups are a match and a run of literals. *)
LEMMA MatchCode ==
  ASSUME NEW d \in Seq(Values), NEW g \in Groups, IsMatchGroup(d, g)
  PROVE  /\ WriteMatch(Match(g.dist, g.len), g.lits) \in Seq(Cells)
         /\ Len(WriteMatch(Match(g.dist, g.len), g.lits)) \in Nat \ {0}
         /\ Literals(d, g.from + g.len, g.lits) \in Seq(Cells)
         /\ Len(Literals(d, g.from + g.len, g.lits))
              = Len(LiteralHead(g.lits)) + g.lits
         /\ Code(d, g) \in Seq(Cells) /\ Len(Code(d, g)) \in Nat \ {0}
         /\ Len(Code(d, g)) = Len(WriteMatch(Match(g.dist, g.len), g.lits))
                                + Len(Literals(d, g.from + g.len, g.lits))
<1>1. /\ g.dist \in Nat \ {0} /\ g.len \in Nat /\ g.len >= 3 /\ g.lits \in Nat
      /\ g.from + g.len \in Nat /\ (g.from + g.len) + g.lits <= Len(d)
  BY DEF Groups, IsMatchGroup
<1>2. PICK x \in Nat, n \in Nat, l \in Nat, m \in Nat :
        /\ x = g.dist /\ n = g.len /\ l = g.lits /\ m = g.from + g.len
  BY <1>1
<1>3. x # 0 /\ n >= 3 /\ m + l <= Len(d)
  BY <1>1, <1>2
<1>4. PICK s, t, h, o : /\ s = WriteMatch(Match(x, n), l) /\ t = Literals(d, m, l)
                        /\ h = MatchHead(x, n, l) /\ o = MatchOffset(x, n, l)
  OBVIOUS
<1>5. s = h \o o /\ h \in Seq(Cells) /\ o \in Seq(Cells)
      /\ Len(h) \in Nat \ {0}
  <2>1. n \in Nat \ {0}
    BY <1>3
  <2>2. s = h \o o
    BY <1>4, <2>1, MatchParts
  <2>3. h \in Seq(Cells) /\ o \in Seq(Cells) /\ Len(h) \in Nat \ {0}
    BY <1>3, <1>4, MatchHeadFacts
  <2> QED
    BY <2>2, <2>3
<1>6. s \in Seq(Cells) /\ Len(s) = Len(h) + Len(o)
  BY <1>5
<1>7. t \in Seq(Cells) /\ Len(t) = Len(LiteralHead(l)) + l
  BY <1>3, <1>4, LiteralsFacts
<1>8. s \o t \in Seq(Cells) /\ Len(s \o t) = Len(s) + Len(t)
  BY <1>6, <1>7
<1>9. Len(s) \in Nat \ {0} /\ Len(t) \in Nat /\ Len(o) \in Nat
  BY <1>5, <1>6, <1>7
<1>10. Code(d, g) = s \o t
  BY <1>2, <1>4 DEF Code
<1> QED
  BY <1>2, <1>4, <1>6, <1>7, <1>8, <1>9, <1>10

(* The literals of a group, read behind what the match has become. *)
LEMMA RestRead ==
  ASSUME NEW at \in Nat, NEW from \in Nat, NEW n \in Nat, decomp \in Seq(Values),
         chain \in Seq(Cells), from + n <= Len(decomp),
         Holds(chain, at, Literals(decomp, from, n)),
         NextOpcode(at + Len(Literals(decomp, from, n)))
  PROVE  /\ n <= 3 => /\ Holds(chain, at, Plain(decomp, from, n))
                      /\ NextOpcode(at + n)
                      /\ Len(Literals(decomp, from, n)) = n
         /\ n > 3 =>
              LET length == ReadLength(chain[at + 1], at + 1, LiteralField)
              IN  /\ chain[at + 1].kind = "opcode"
                  /\ chain[at + 1].form = "literal"
                  /\ length.ok /\ length.value + 3 = n
                  /\ length.end \in Nat
                  /\ Holds(chain, length.end, Plain(decomp, from, n))
                  /\ length.end + n = at + Len(Literals(decomp, from, n))
                  /\ NextOpcode(length.end + n)
<1>1. PICK s : s = Plain(decomp, from, n)
  OBVIOUS
<1>2. s \in Seq(Cells) /\ Len(s) = n
  BY <1>1, PlainFacts
<1>3. PICK h \in Nat : h = Len(LiteralHead(n))
  BY LiteralHeadFacts
<1>4. Len(Literals(decomp, from, n)) = h + n
  BY <1>3, LiteralsFacts
<1>5. CASE n <= 3
  <2>1. LiteralHead(n) = <<>> /\ h = 0
    BY <1>3, <1>5 DEF LiteralHead
  <2>2. Literals(decomp, from, n) = s
    BY <1>1, <1>2, <2>1 DEF Literals
  <2> QED
    BY <1>1, <1>4, <1>5, <2>1, <2>2
<1>6. CASE n > 3
  <2>1. Holds(chain, at, LiteralHead(n) \o s)
    BY <1>1 DEF Literals
  <2>2. PICK length : length = ReadLength(chain[at + 1], at + 1, LiteralField)
    OBVIOUS
  <2>3. /\ chain[at + 1].kind = "opcode" /\ chain[at + 1].form = "literal"
        /\ length.ok /\ length.end = at + h
        /\ length.value + 3 = n /\ Holds(chain, length.end, s)
    BY <1>2, <1>3, <1>6, <2>1, <2>2, RunRead
  <2>4. length.end + n = at + (h + n)
    BY <2>3
  <2> QED
    BY <1>1, <1>4, <1>6, <2>2, <2>3, <2>4
<1> QED
  BY <1>5, <1>6

-----------------------------------------------------------------------------
(* The steps of the reader. *)
LEMMA FirstStep ==
  ASSUME decomp \in Seq(Values), chain \in Seq(Cells),
         NEW g \in Groups, IsFirstGroup(decomp, g),
         Holds(chain, 0, Code(decomp, g)), NextOpcode(Len(Code(decomp, g))),
         FirstLiterals
  PROVE  Arrives(Len(Code(decomp, g)), g.lits)
<1>1. PICK n \in Nat : n = g.lits /\ n > 3 /\ n <= Len(decomp)
  BY DEF IsFirstGroup, Groups
<1>2. Code(decomp, g) = Literals(decomp, 0, n)
  BY <1>1, FirstCode
<1>3. PICK e \in Nat : e = Len(Literals(decomp, 0, n))
  BY <1>2, FirstCode
<1>4. /\ Holds(chain, 0, Literals(decomp, 0, n))
      /\ NextOpcode(0 + Len(Literals(decomp, 0, n))) /\ 0 + n <= Len(decomp)
  BY <1>1, <1>2, <1>3
<1>5. PICK op : op = chain[1]
  OBVIOUS
<1>6. PICK length : length = ReadLength(op, 1, LiteralField)
  OBVIOUS
<1>7. /\ op.kind = "opcode" /\ op.form = "literal"
      /\ length.ok /\ length.value + 3 = n /\ length.end \in Nat
      /\ Holds(chain, length.end, Plain(decomp, 0, n))
      /\ length.end + n = e /\ NextOpcode(length.end + n)
  <2>1. LET l == ReadLength(chain[0 + 1], 0 + 1, LiteralField)
        IN  /\ chain[0 + 1].kind = "opcode"
            /\ chain[0 + 1].form = "literal"
            /\ l.ok /\ l.value + 3 = n
            /\ l.end \in Nat
            /\ Holds(chain, l.end, Plain(decomp, 0, n))
            /\ l.end + n = 0 + Len(Literals(decomp, 0, n))
            /\ NextOpcode(l.end + n)
    BY <1>1, <1>4, RestRead
  <2> QED
    BY <1>3, <1>5, <1>6, <2>1
<1>8. CopyLiterals(<<>>, length.end, n)
  BY <1>5, <1>6, <1>7 DEF FirstLiterals
<1>9. First(decomp, 0) = <<>>
  <2>1. 0 \in 0 .. Len(decomp)
    OBVIOUS
  <2>2. First(decomp, 0) \in Seq(Values) /\ Len(First(decomp, 0)) = 0
    BY <2>1, FirstFacts
  <2> QED
    BY <2>2
<1>10. PICK end \in Nat : end = length.end
  BY <1>7
<1>11. Arrives(end + n, 0 + n)
  BY <1>4, <1>7, <1>8, <1>9, <1>10, PlainRead
<1> QED
  BY <1>1, <1>2, <1>3, <1>7, <1>10, <1>11

(* The reader does not refuse the match of a group, and copies the bytes   *)
(* that the group stands for, overlapping or not.                          *)
LEMMA CopiedRight ==
  ASSUME decomp \in Seq(Values), NEW g \in Groups, IsMatchGroup(decomp, g),
         dec = First(decomp, g.from)
  PROVE  /\ Len(dec) = g.from
         /\ dec \o Copied(g.dist, g.len) = First(decomp, g.from + g.len)
<1>1. PICK m \in Nat, n \in Nat, dist \in Nat \ {0} :
        m = g.from /\ n = g.len /\ dist = g.dist
  BY DEF Groups, IsMatchGroup
<1>2. dist <= m /\ m + n <= Len(decomp) /\ m \in 0 .. Len(decomp)
  <2>1. PICK l \in Nat : l = g.lits
    BY DEF Groups
  <2>2. m + n + l <= Len(decomp) /\ dist \in 1 .. m
    BY <1>1, <2>1 DEF IsMatchGroup
  <2>3. Len(decomp) \in Nat
    OBVIOUS
  <2> QED
    BY <2>2, <2>3
<1>3. \A b \in 1 .. n : decomp[m - dist + b] = decomp[m + b]
  BY <1>1 DEF IsMatchGroup
<1>4. Len(dec) = m /\ \A i \in 1 .. m : dec[i] = decomp[i]
  BY <1>1, <1>2, FirstFacts
<1>5. \A b \in 1 .. n : decomp[m - dist + 1 + ((b - 1) % dist)] = decomp[m + b]
  BY <1>2, <1>3, Periodic
<1>6. PICK s : s = [b \in 1 .. n |-> dec[m - dist + 1 + ((b - 1) % dist)]]
  OBVIOUS
<1>7. \A b \in 1 .. n : s[b] = decomp[m + b]
  <2> SUFFICES ASSUME NEW b \in 1 .. n PROVE s[b] = decomp[m + b]
    OBVIOUS
  <2>1. PICK r \in 0 .. dist - 1 : r = (b - 1) % dist
    OBVIOUS
  <2>2. m - dist + 1 + r \in 1 .. m
    BY <1>2
  <2>3. s[b] = dec[m - dist + 1 + r]
    BY <1>6, <2>1
  <2>4. decomp[m - dist + 1 + r] = decomp[m + b]
    BY <1>5, <2>1
  <2> QED
    BY <1>4, <2>2, <2>3, <2>4
<1>8. s = [b \in 1 .. n |-> decomp[m + b]]
  BY <1>6, <1>7
<1>9. First(decomp, m) \o s = First(decomp, m + n)
  BY <1>2, <1>8, FirstGrows
<1>10. Copied(g.dist, g.len) = s
  BY <1>1, <1>4, <1>6 DEF Copied
<1> QED
  BY <1>1, <1>4, <1>9, <1>10

(* The reader stands at the group g of the stream. *)
AtGroup(g) ==
  /\ chain \in Seq(Cells) /\ Holds(chain, g.at, Code(decomp, g))
  /\ NextOpcode(g.at + Len(Code(decomp, g)))
  /\ byte = g.at + 1 /\ opcode = chain[g.at + 1]
  /\ dec = First(decomp, g.from)

(* At a group the reader finds an offset, and the match of the group. *)
LEMMA GroupRead ==
  ASSUME decomp \in Seq(Values), NEW g \in Groups, IsMatchGroup(decomp, g),
         AtGroup(g)
  PROVE  /\ OffsetFollows /\ opcode.kind = "opcode" /\ opcode.form # "literal"
         /\ opcode # Terminator
         /\ MatchAt =
              [len |-> g.len, dist |-> g.dist, lits |-> Trailing(g.lits),
               end |-> g.at + Len(WriteMatch(Match(g.dist, g.len), g.lits)),
               ok |-> TRUE]
         /\ Holds(chain, MatchAt.end, Literals(decomp, g.from + g.len, g.lits))
         /\ byte < Len(chain)
<1>1. PICK at \in Nat, d \in Nat \ {0}, n \in Nat, l \in Nat :
        at = g.at /\ d = g.dist /\ n = g.len /\ l = g.lits
  BY DEF Groups, IsMatchGroup
<1>2. n >= 3 /\ (d > CompactDist => n > 3)
  BY <1>1 DEF IsMatchGroup
<1>3. PICK s, t : /\ s = WriteMatch(Match(d, n), l)
                  /\ t = Literals(decomp, g.from + g.len, g.lits)
  OBVIOUS
<1>4. s \in Seq(Cells) /\ t \in Seq(Cells) /\ Len(s) \in Nat \ {0}
      /\ Code(decomp, g) = s \o t
  BY <1>1, <1>3, MatchCode DEF Code
<1>5. Holds(chain, at, s) /\ Holds(chain, at + Len(s), t)
  <2>1. Holds(chain, at, s \o t) /\ chain \in Seq(Cells)
    BY <1>1, <1>4 DEF AtGroup
  <2> QED
    BY <1>4, <2>1, HoldsParts
<1>6. AtMatch(at, d, n, l)
  BY <1>1, <1>3, <1>5 DEF AtMatch, AtGroup
<1>7. /\ OffsetFollows /\ opcode.kind = "opcode" /\ opcode.form # "literal"
      /\ opcode # Terminator
      /\ MatchAt = [len |-> n, dist |-> d, lits |-> Trailing(l),
                    end |-> at + Len(WriteMatch(Match(d, n), l)), ok |-> TRUE]
  BY <1>2, <1>6, MatchRead
<1>8. MatchAt.end = at + Len(s)
  BY <1>3, <1>7
<1>9. byte < Len(chain)
  <2>1. Len(s \o t) = Len(s) + Len(t) /\ Len(t) \in Nat
    BY <1>4
  <2>2. at + Len(s \o t) < Len(chain) /\ byte = at + 1
    BY <1>1, <1>4 DEF AtGroup, NextOpcode
  <2>3. Len(chain) \in Nat
    BY DEF AtGroup
  <2> QED
    BY <1>4, <2>1, <2>2, <2>3
<1> QED
  BY <1>1, <1>3, <1>5, <1>7, <1>8, <1>9

(* One turn of the loop goes from one group to the next. *)
LEMMA TurnStep ==
  ASSUME decomp \in Seq(Values), NEW g \in Groups, IsMatchGroup(decomp, g),
         AtGroup(g), Turn
  PROVE  /\ g.from + g.len = Len(decomp) =>
              phase' = "refused" /\ UNCHANGED <<decomp, writer, chain, reader>>
         /\ g.from + g.len # Len(decomp) =>
              Arrives(g.at + Len(Code(decomp, g)), g.from + g.len + g.lits)
<1>1. PICK at \in Nat, n \in Nat, l \in Nat, from \in Nat :
        at = g.at /\ n = g.len /\ l = g.lits /\ from = g.from
  BY DEF Groups
<1>2. from + n + l <= Len(decomp) /\ g.dist \in 1 .. from
  BY <1>1 DEF IsMatchGroup
<1>3. PICK m : m = MatchAt
  OBVIOUS
<1>4. PICK end : end = m.end
  OBVIOUS
<1>5. PICK t : t = Literals(decomp, from + n, l)
  OBVIOUS
<1>6. /\ OffsetFollows /\ m.len = n /\ m.dist = g.dist /\ m.lits = Trailing(l)
      /\ end = at + Len(WriteMatch(Match(g.dist, g.len), g.lits))
      /\ Holds(chain, end, t)
  BY <1>1, <1>3, <1>4, <1>5, GroupRead
<1>7. /\ Len(WriteMatch(Match(g.dist, g.len), g.lits)) \in Nat \ {0}
      /\ Len(Code(decomp, g))
           = Len(WriteMatch(Match(g.dist, g.len), g.lits)) + Len(t)
      /\ Len(t) \in Nat
  <2>1. t \in Seq(Cells)
    BY <1>1, <1>5, MatchCode
  <2> QED
    BY <1>1, <1>5, <2>1, MatchCode
<1>8. end \in Nat /\ end + Len(t) = at + Len(Code(decomp, g))
  BY <1>6, <1>7
<1>9. Len(dec) = from /\ dec \o Copied(m.dist, n) = First(decomp, from + n)
  BY <1>1, <1>6, CopiedRight DEF AtGroup
<1>10. Refused(m) <=> from + n = Len(decomp)
  <2>1. Size = Len(decomp) /\ Len(decomp) \in Nat
    BY DEF Size
  <2>2. m.dist <= from
    BY <1>2, <1>6
  <2> QED
    BY <1>2, <1>6, <1>9, <2>1, <2>2 DEF Refused
<1>11. CASE from + n = Len(decomp)
  BY <1>1, <1>3, <1>6, <1>10, <1>11 DEF Turn
<1>12. CASE from + n # Len(decomp)
  <2>1. CopyMatch(m)
    BY <1>3, <1>6, <1>10, <1>12 DEF Turn
  <2>2. PICK out, next : /\ out = First(decomp, from + n) /\ next = chain[end + 1]
    OBVIOUS
  <2>3. IF m.lits > 0 THEN CountedLiterals(out, m)
        ELSE IF next.kind # "opcode" THEN Lost
        ELSE IF next.form = "literal" THEN LiteralRun(out, next, end + 1)
        ELSE NoLiterals(out, next, end + 1)
    BY <1>4, <1>6, <1>9, <2>1, <2>2 DEF CopyMatch
  <2>4. Len(out) = from + n
    <3>1. from + n \in 0 .. Len(decomp)
      BY <1>2
    <3> QED
      BY <2>2, <3>1, FirstFacts
  <2>5. Fits(out, l)
    BY <1>2, <2>4 DEF Fits, Size
  <2>6. NextOpcode(end + Len(t)) /\ chain \in Seq(Cells)
    BY <1>1, <1>8 DEF AtGroup
  <2>7. PICK f \in Nat : f = from + n
    OBVIOUS
  <2>8. /\ f + l <= Len(decomp) /\ Holds(chain, end, Literals(decomp, f, l))
        /\ NextOpcode(end + Len(Literals(decomp, f, l)))
    BY <1>2, <1>5, <1>6, <2>6, <2>7
  <2>9. /\ l <= 3 => /\ Holds(chain, end, Plain(decomp, f, l))
                     /\ NextOpcode(end + l)
                     /\ Len(Literals(decomp, f, l)) = l
        /\ l > 3 =>
             LET length == ReadLength(chain[end + 1], end + 1, LiteralField)
             IN  /\ chain[end + 1].kind = "opcode"
                 /\ chain[end + 1].form = "literal"
                 /\ length.ok /\ length.value + 3 = l
                 /\ length.end \in Nat
                 /\ Holds(chain, length.end, Plain(decomp, f, l))
                 /\ length.end + l = end + Len(Literals(decomp, f, l))
                 /\ NextOpcode(length.end + l)
    BY <1>8, <2>6, <2>8, RestRead
  <2>10. Arrives(end + Len(t), f + l)
    <3>1. CASE l = 0
      <4>1. m.lits = 0 /\ NextOpcode(end) /\ Len(t) = 0
        BY <1>5, <1>6, <1>8, <2>7, <2>9, <3>1 DEF Trailing
      <4>2. NoLiterals(out, next, end + 1)
        BY <2>2, <2>3, <4>1 DEF NextOpcode
      <4>3. end + Len(t) = end /\ f + l = from + n
        BY <1>8, <2>7, <3>1, <4>1
      <4> QED
        BY <2>2, <4>2, <4>3 DEF NoLiterals, Arrives
    <3>2. CASE l > 0 /\ l <= 3
      <4>1. m.lits = l /\ Len(t) = l
        BY <1>5, <1>6, <2>7, <2>9, <3>2 DEF Trailing
      <4>2. CopyLiterals(First(decomp, f), end, l)
        BY <1>4, <2>2, <2>3, <2>5, <2>7, <3>2, <4>1 DEF CountedLiterals
      <4>3. Arrives(end + l, f + l)
        BY <1>8, <2>6, <2>8, <2>9, <3>2, <4>2, PlainRead
      <4> QED
        BY <4>1, <4>3
    <3>3. CASE l > 3
      <4>1. m.lits = 0
        BY <1>6, <3>3 DEF Trailing
      <4>2. PICK length : length = ReadLength(next, end + 1, LiteralField)
        OBVIOUS
      <4>3. /\ next.kind = "opcode" /\ next.form = "literal"
            /\ length.ok /\ length.value + 3 = l /\ length.end \in Nat
            /\ Holds(chain, length.end, Plain(decomp, f, l))
            /\ length.end + l = end + Len(Literals(decomp, f, l))
            /\ NextOpcode(length.end + l)
        BY <2>2, <2>9, <3>3, <4>2
      <4>4. LiteralRun(out, next, end + 1)
        BY <2>3, <4>1, <4>3
      <4>5. CopyLiterals(First(decomp, f), length.end, l)
        BY <2>2, <2>5, <2>7, <4>2, <4>3, <4>4 DEF LiteralRun
      <4>6. PICK e \in Nat : e = length.end
        BY <4>3
      <4>7. Arrives(e + l, f + l)
        BY <2>6, <2>8, <4>3, <4>5, <4>6, PlainRead
      <4> QED
        BY <1>5, <2>7, <4>3, <4>6, <4>7
    <3> QED
      BY <3>1, <3>2, <3>3
  <2> QED
    BY <1>1, <1>8, <1>12, <2>7, <2>10
<1> QED
  BY <1>11, <1>12

-----------------------------------------------------------------------------
(* The groups of a stream, one behind the other. *)
AtOf(d, gs, i) == IF i = 0 THEN 0 ELSE gs[i].at + Len(Code(d, gs[i]))
FromOf(gs, i) == IF i = 0 THEN 0 ELSE gs[i].from + gs[i].len + gs[i].lits

InPlace(d, gs, i) ==
  /\ gs[i].at = AtOf(d, gs, i - 1) /\ gs[i].from = FromOf(gs, i - 1)
  /\ IF i = 1 THEN IsFirstGroup(d, gs[i]) ELSE IsMatchGroup(d, gs[i])

Written(d, gs, c) ==
  /\ gs \in Seq(Groups) /\ c \in Seq(Cells)
  /\ \A i \in 1 .. Len(gs) : InPlace(d, gs, i) /\ Holds(c, gs[i].at, Code(d, gs[i]))

(* Every group is a part of the stream. *)
LEMMA GroupCode ==
  ASSUME NEW d \in Seq(Values), NEW gs, NEW c, Written(d, gs, c),
         NEW i \in 1 .. Len(gs)
  PROVE  /\ gs[i] \in Groups
         /\ Code(d, gs[i]) \in Seq(Cells) /\ Len(Code(d, gs[i])) \in Nat \ {0}
<1>1. gs[i] \in Groups /\ InPlace(d, gs, i)
  BY DEF Written
<1>2. IsFirstGroup(d, gs[i]) \/ IsMatchGroup(d, gs[i])
  BY <1>1 DEF InPlace
<1>3. PICK g : g = gs[i]
  OBVIOUS
<1>4. Code(d, g) \in Seq(Cells) /\ Len(Code(d, g)) \in Nat \ {0}
  BY <1>1, <1>2, <1>3, FirstCode, MatchCode
<1> QED
  BY <1>1, <1>3, <1>4

(* The ends of a group are numbers. *)
LEMMA OfTypes ==
  ASSUME NEW d \in Seq(Values), NEW gs, NEW c, Written(d, gs, c),
         NEW i \in 0 .. Len(gs)
  PROVE  /\ AtOf(d, gs, i) \in Nat /\ FromOf(gs, i) \in 0 .. Len(d)
<1>1. CASE i = 0
  BY <1>1 DEF AtOf, FromOf
<1>2. CASE i # 0
  <2>1. i \in 1 .. Len(gs)
    BY <1>2
  <2>2. gs[i] \in Groups /\ Len(Code(d, gs[i])) \in Nat
    BY <2>1, GroupCode
  <2>3. IsFirstGroup(d, gs[i]) \/ IsMatchGroup(d, gs[i])
    BY <2>1 DEF Written, InPlace
  <2>4. PICK g : g = gs[i]
    OBVIOUS
  <2>5. g.at \in Nat /\ g.from \in Nat /\ g.len \in Nat /\ g.lits \in Nat
    BY <2>2, <2>4 DEF Groups
  <2>6. g.from + g.len + g.lits <= Len(d)
    BY <2>3, <2>4, <2>5 DEF IsFirstGroup, IsMatchGroup
  <2> QED
    BY <1>2, <2>2, <2>4, <2>5, <2>6 DEF AtOf, FromOf
<1> QED
  BY <1>1, <1>2

(* One group more. *)
LEMMA Appended ==
  ASSUME NEW d \in Seq(Values), NEW gs, NEW c, Written(d, gs, c),
         Len(c) = AtOf(d, gs, Len(gs)), NEW g \in Groups, g.at = Len(c),
         g.from = FromOf(gs, Len(gs)),
         gs = <<>> => IsFirstGroup(d, g), gs # <<>> => IsMatchGroup(d, g)
  PROVE  /\ Written(d, Append(gs, g), c \o Code(d, g))
         /\ Len(c \o Code(d, g)) = AtOf(d, Append(gs, g), Len(gs) + 1)
         /\ FromOf(Append(gs, g), Len(gs) + 1) = g.from + g.len + g.lits
<1>1. gs \in Seq(Groups) /\ c \in Seq(Cells)
  BY DEF Written
<1>2. PICK hs : hs = Append(gs, g)
  OBVIOUS
<1>3. PICK n \in Nat : n = Len(gs)
  BY <1>1
<1>4. /\ hs \in Seq(Groups) /\ Len(hs) = n + 1 /\ hs[n + 1] = g
      /\ \A i \in 1 .. n : hs[i] = gs[i]
  BY ONLY <1>1, <1>2, <1>3, g \in Groups
<1>5. PICK x : x = Code(d, g)
  OBVIOUS
<1>6. x \in Seq(Cells) /\ Len(x) \in Nat
  BY <1>5, FirstCode, MatchCode
<1>7. c \o x \in Seq(Cells) /\ Len(c \o x) = Len(c) + Len(x)
  BY <1>1, <1>6, Behind
<1>8. \A i \in 0 .. n : AtOf(d, hs, i) = AtOf(d, gs, i)
                        /\ FromOf(hs, i) = FromOf(gs, i)
  BY <1>4 DEF AtOf, FromOf
<1>9. AtOf(d, hs, n + 1) = Len(c) + Len(x)
      /\ FromOf(hs, n + 1) = g.from + g.len + g.lits
  BY <1>3, <1>4, <1>5 DEF AtOf, FromOf
<1>10. ASSUME NEW i \in 1 .. n + 1
       PROVE  InPlace(d, hs, i) /\ Holds(c \o x, hs[i].at, Code(d, hs[i]))
  <2>1. CASE i \in 1 .. n
    <3>1. hs[i] = gs[i] /\ i - 1 \in 0 .. n
      BY <1>4, <2>1
    <3>2. InPlace(d, gs, i) /\ Holds(c, gs[i].at, Code(d, gs[i]))
      BY <1>3, <2>1 DEF Written
    <3>3. InPlace(d, hs, i)
      BY <1>8, <3>1, <3>2 DEF InPlace
    <3>4. Len(Code(d, gs[i])) \in Nat /\ gs[i].at \in Nat
      BY <1>3, <2>1, GroupCode DEF Groups
    <3>5. Holds(c \o x, gs[i].at, Code(d, gs[i]))
      BY <1>1, <1>6, <3>2, <3>4, HoldsStays
    <3> QED
      BY <3>1, <3>3, <3>5
  <2>2. CASE i = n + 1
    <3>1. hs[i] = g /\ i - 1 = n
      BY <1>4, <2>2
    <3>2. AtOf(d, hs, i - 1) = g.at /\ FromOf(hs, i - 1) = g.from
      BY <1>3, <1>8, <3>1
    <3>3. IF i = 1 THEN IsFirstGroup(d, g) ELSE IsMatchGroup(d, g)
      <4>1. CASE i = 1
        <5>1. gs = <<>>
          BY <1>1, <1>3, <2>2, <4>1
        <5> QED
          BY <4>1, <5>1
      <4>2. CASE i # 1
        <5>1. gs # <<>>
          BY <1>3, <2>2, <4>2
        <5> QED
          BY <4>2, <5>1
      <4> QED
        BY <4>1, <4>2
    <3>4. InPlace(d, hs, i)
      BY <3>1, <3>2, <3>3 DEF InPlace
    <3>5. Holds(c \o x, Len(c), x)
      BY <1>1, <1>6, HoldsNew
    <3> QED
      BY <1>5, <3>1, <3>4, <3>5
  <2> QED
    BY <2>1, <2>2
<1>11. Written(d, hs, c \o x)
  BY <1>4, <1>7, <1>10 DEF Written
<1> QED
  BY <1>2, <1>3, <1>5, <1>7, <1>9, <1>11

(* The groups stay where they are when the stream grows. *)
LEMMA WrittenStays ==
  ASSUME NEW d \in Seq(Values), NEW gs, NEW c, Written(d, gs, c),
         NEW x \in Seq(Cells)
  PROVE  Written(d, gs, c \o x)
<1>1. c \in Seq(Cells) /\ gs \in Seq(Groups)
  BY DEF Written
<1>2. c \o x \in Seq(Cells)
  BY <1>1
<1>3. ASSUME NEW i \in 1 .. Len(gs)
      PROVE  Holds(c \o x, gs[i].at, Code(d, gs[i]))
  <2>1. Len(Code(d, gs[i])) \in Nat /\ gs[i].at \in Nat
    BY GroupCode DEF Groups
  <2>2. Holds(c, gs[i].at, Code(d, gs[i]))
    BY DEF Written
  <2> QED
    BY <1>1, <2>1, <2>2, HoldsStays
<1> QED
  BY <1>1, <1>2, <1>3 DEF Written

(* A whole section: its groups and the terminator, which end where the     *)
(* section does.                                                           *)
Whole(d, gs, c, last) ==
  /\ Written(d, gs, c) /\ gs # <<>>
  /\ Len(c) = AtOf(d, gs, Len(gs)) + 1 /\ c[Len(c)] = Terminator
  /\ FromOf(gs, Len(gs)) = Len(d)
  /\ gs[Len(gs)].from + gs[Len(gs)].len = last

(* A match begins with an opcode that is no run of literals, and not with  *)
(* the terminator.                                                         *)
LEMMA MatchFirst ==
  ASSUME NEW d \in Nat, NEW n \in Nat, n >= 3, NEW lits \in Nat
  PROVE  /\ MatchHead(d, n, lits)[1].kind = "opcode"
         /\ MatchHead(d, n, lits)[1].form # "literal"
<1>1. CASE CompactForm(d, n)
  <2>1. MatchHead(d, n, lits)[1] = Op("compact", n, 0, Trailing(lits))
    BY <1>1 DEF MatchHead
  <2> QED
    BY <2>1 DEF Op
<1>2. CASE MediumForm(d, n)
  <2>1. PICK l \in Nat : l = MediumField + 2
    BY FormFacts
  <2>2. MatchHead(d, n, lits) = WriteLength("medium", 0, n, l)
    BY <1>2, <2>1 DEF MediumForm, MatchHead
  <2>3. MatchHead(d, n, lits)[1] = Op("medium", Field(n, l), 0, 0)
    <3>1. LengthWritten(WriteLength("medium", 0, n, l), "medium", 0, n, l)
      BY WriteLengthFacts DEF Forms
    <3> QED
      BY <2>2, <3>1 DEF LengthWritten
  <2> QED
    BY <2>3 DEF Op
<1>3. CASE LongForm(d, n)
  <2>1. PICK l \in Nat : l = LongField + 2
    BY FormFacts
  <2>2. d > MediumDist
    BY <1>3, FormFacts DEF LongForm
  <2>3. PICK h \in Int : h = High(d)
    BY <2>2, FarDistance
  <2>4. MatchHead(d, n, lits) = WriteLength("long", h, n, l)
    BY <1>3, <2>1, <2>3 DEF LongForm, MediumForm, MatchHead, High
  <2>5. MatchHead(d, n, lits)[1] = Op("long", Field(n, l), h, 0)
    <3>1. LengthWritten(WriteLength("long", h, n, l), "long", h, n, l)
      BY WriteLengthFacts DEF Forms
    <3> QED
      BY <2>4, <3>1 DEF LengthWritten
  <2> QED
    BY <2>5 DEF Op
<1> QED
  BY <1>1, <1>2, <1>3 DEF MediumForm, LongForm

(* So does every group but the first. *)
LEMMA GroupFirst ==
  ASSUME NEW d \in Seq(Values), NEW g \in Groups, IsMatchGroup(d, g)
  PROVE  Code(d, g)[1].kind = "opcode" /\ Code(d, g)[1].form # "literal"
<1>1. PICK x \in Nat, n \in Nat, l \in Nat :
        x = g.dist /\ n = g.len /\ l = g.lits
  BY DEF Groups
<1>2. n >= 3
  BY <1>1 DEF IsMatchGroup
<1>3. PICK h, o, t : /\ h = MatchHead(x, n, l) /\ o = MatchOffset(x, n, l)
                     /\ t = Literals(d, g.from + g.len, l)
  OBVIOUS
<1>4. h \in Seq(Cells) /\ o \in Seq(Cells) /\ Len(h) \in Nat \ {0}
  BY <1>2, <1>3, MatchHeadFacts
<1>5. t \in Seq(Cells)
  BY <1>1, <1>3, MatchCode
<1>6. WriteMatch(Match(x, n), l) = h \o o
  <2>1. n \in Nat \ {0}
    BY <1>2
  <2> QED
    BY <1>3, <2>1, MatchParts
<1>7. Code(d, g) = (h \o o) \o t
  BY <1>1, <1>3, <1>6 DEF Code
<1>8. h \o o \in Seq(Cells) /\ Len(h \o o) = Len(h) + Len(o) /\ Len(o) \in Nat
  BY <1>4
<1>9. 1 \in 1 .. Len(h) /\ 1 \in 1 .. Len(h \o o)
  BY <1>4, <1>8
<1>10. (h \o o)[1] = h[1]
  BY <1>4, <1>9, Parts
<1>11. ((h \o o) \o t)[1] = (h \o o)[1]
  BY <1>5, <1>8, <1>9, Parts
<1>12. h[1].kind = "opcode" /\ h[1].form # "literal"
  BY <1>2, <1>3, MatchFirst
<1> QED
  BY <1>7, <1>10, <1>11, <1>12

(* Behind every group comes an opcode that is no run of literals. *)
LEMMA OpcodeBehind ==
  ASSUME decomp \in Seq(Values), NEW gs, NEW last,
         Whole(decomp, gs, chain, last), NEW i \in 1 .. Len(gs)
  PROVE  NextOpcode(AtOf(decomp, gs, i))
<1>1. Written(decomp, gs, chain) /\ chain \in Seq(Cells) /\ gs \in Seq(Groups)
  BY DEF Whole, Written
<1>2. PICK n \in Nat : n = Len(gs)
  BY <1>1
<1>3. PICK at \in Nat : at = AtOf(decomp, gs, i)
  <2>1. i \in 0 .. Len(gs)
    BY <1>2
  <2> QED
    BY <1>1, <2>1, OfTypes
<1>4. CASE i = n
  <2>1. at + 1 = Len(chain) /\ chain[at + 1] = Terminator
    BY <1>2, <1>3, <1>4 DEF Whole
  <2>2. Terminator.kind = "opcode" /\ Terminator.form = "long"
    BY DEF Terminator, Op
  <2> QED
    BY <1>3, <2>1, <2>2 DEF NextOpcode
<1>5. CASE i # n
  <2>1. PICK j \in 1 .. Len(gs) : j = i + 1
    BY <1>2, <1>5
  <2>2. InPlace(decomp, gs, j) /\ Holds(chain, gs[j].at, Code(decomp, gs[j]))
        /\ j # 1 /\ j - 1 = i
    BY <1>1, <2>1 DEF Written
  <2>3. PICK g : g = gs[j]
    OBVIOUS
  <2>4. g.at = at /\ IsMatchGroup(decomp, g) /\ g \in Groups
        /\ Holds(chain, at, Code(decomp, g))
    BY <1>1, <1>3, <2>1, <2>2, <2>3 DEF InPlace, Written
  <2>5. Len(Code(decomp, g)) \in Nat \ {0}
    BY <2>4, MatchCode
  <2>6. chain[at + 1] = Code(decomp, g)[1] /\ at + 1 <= Len(chain)
    BY <1>1, <2>4, <2>5 DEF Holds
  <2>7. at < Len(chain)
    BY <1>1, <2>6
  <2> QED
    BY <1>3, <2>4, <2>6, <2>7, GroupFirst DEF NextOpcode
<1> QED
  BY <1>2, <1>4, <1>5

-----------------------------------------------------------------------------
(* The invariant. *)

(* The scan keeps to the section, the table to what was scanned.           *)
Scanned ==
  /\ pos \in 0 .. Size /\ curr_offset \in 0 .. pos
  /\ prev_match \in [dist : 0 .. MaxDist, len : 0 .. Size]
  /\ \A prev \in hash_table : prev \in Nat /\ prev < pos /\ prev >= 4
  /\ phase = "scan" => pos >= 4
  /\ phase = "start" => /\ pos = 0 /\ curr_offset = 0 /\ prev_match = NoMatch
                        /\ chain = <<>> /\ hash_table = {}

(* The match that is not written yet goes on to the literals from          *)
(* curr_offset on.                                                         *)
Pending(l) ==
  [at |-> Len(chain), from |-> curr_offset - prev_match.len,
   dist |-> prev_match.dist, len |-> prev_match.len, lits |-> l]

PendingFits(gs) ==
  /\ FromOf(gs, Len(gs)) = curr_offset - prev_match.len
  /\ gs = <<>> => curr_offset = 0 /\ prev_match = NoMatch
  /\ gs # <<>> =>
       /\ prev_match.len >= 3
       /\ prev_match.dist \in 1 .. curr_offset - prev_match.len
       /\ prev_match.dist > CompactDist => prev_match.len > 3
       /\ \A b \in 1 .. prev_match.len :
            decomp[curr_offset - prev_match.len - prev_match.dist + b]
              = decomp[curr_offset - prev_match.len + b]

ScanFits(gs) ==
  /\ Written(decomp, gs, chain) /\ Len(chain) = AtOf(decomp, gs, Len(gs))
  /\ PendingFits(gs)

(* The reader stands at the opcode behind the group r - 1.                 *)
StandsAt(gs, r) ==
  /\ byte = AtOf(decomp, gs, r - 1) + 1 /\ opcode = chain[byte]
  /\ dec = First(decomp, FromOf(gs, r - 1))

ReaderFits(gs) ==
  /\ Whole(decomp, gs, chain, curr_offset)
  /\ pos >= 4 \/ Len(gs) = 1
  /\ phase \in {"stored", "compressed"} => byte = 0 /\ dec = <<>>
  /\ phase = "decode" => \E r \in 2 .. Len(gs) + 1 : StandsAt(gs, r)
  /\ phase = "done" => dec = decomp /\ byte \in 0 .. Len(chain)
  /\ phase = "refused" =>
       \E r \in 2 .. Len(gs) :
         StandsAt(gs, r) /\ gs[r].from + gs[r].len = Len(decomp)

StreamInv ==
  /\ decomp \in Seq(Values) /\ Len(decomp) > 3
  /\ phase \in Phases \ {"lost"}
  /\ Scanned
  /\ phase \in {"start", "scan"} => byte = 0 /\ dec = <<>>
  /\ phase = "scan" => \E gs : ScanFits(gs)
  /\ phase \notin {"start", "scan"} => \E gs : ReaderFits(gs)

(* What the writer writes, in the terms of the groups. *)
LEMMA WrittenLiterals ==
  ASSUME NEW from, NEW n
  PROVE  WriteLiterals(from, n) = Literals(decomp, from, n)
BY DEF WriteLiterals, Literals, LiteralHead, Plain

(* The pending match and its literals are a group. *)
LEMMA PendingGroup ==
  ASSUME decomp \in Seq(Values), Scanned, NEW gs, PendingFits(gs),
         Len(chain) = AtOf(decomp, gs, Len(gs)), chain \in Seq(Cells),
         NEW l \in Nat, curr_offset + l <= Size, gs = <<>> => l > 3
  PROVE  /\ Pending(l) \in Groups
         /\ Pending(l).at = Len(chain)
         /\ Pending(l).from = FromOf(gs, Len(gs))
         /\ Pending(l).from + Pending(l).len = curr_offset
         /\ Pending(l).lits = l
         /\ gs = <<>> => IsFirstGroup(decomp, Pending(l))
         /\ gs # <<>> => IsMatchGroup(decomp, Pending(l))
         /\ Code(decomp, Pending(l))
              = WriteMatch(prev_match, l) \o WriteLiterals(curr_offset, l)
<1>1. PICK d, n : d = prev_match.dist /\ n = prev_match.len
  OBVIOUS
<1>2. d \in Nat /\ n \in Nat /\ prev_match = Match(d, n) /\ curr_offset \in Nat
  BY <1>1 DEF Scanned, Match, Size
<1>3. Size = Len(decomp) /\ Len(decomp) \in Nat /\ Len(chain) \in Nat
  BY DEF Size
<1>4. curr_offset - n \in Nat
  <2>1. CASE gs = <<>>
    BY <1>1, <1>2, <2>1 DEF PendingFits, NoMatch
  <2>2. CASE gs # <<>>
    <3>1. d \in 1 .. curr_offset - n
      BY <1>1, <2>2 DEF PendingFits
    <3> QED
      BY <1>2, <3>1
  <2> QED
    BY <2>1, <2>2
<1>5. PICK f \in Nat : f = curr_offset - n
  BY <1>4
<1>6. Pending(l) = [at |-> Len(chain), from |-> f, dist |-> d, len |-> n,
                    lits |-> l]
  BY <1>1, <1>5 DEF Pending
<1>7. PICK g : g = Pending(l)
  OBVIOUS
<1>8. /\ g.at = Len(chain) /\ g.from = f /\ g.dist = d /\ g.len = n
      /\ g.lits = l /\ g \in Groups
  BY <1>2, <1>3, <1>6, <1>7 DEF Groups
<1>9. f + n = curr_offset
  BY <1>2, <1>5
<1>10. gs = <<>> => IsFirstGroup(decomp, g)
  <2> SUFFICES ASSUME gs = <<>> PROVE IsFirstGroup(decomp, g)
    OBVIOUS
  <2>1. n = 0 /\ curr_offset = 0
    BY <1>1 DEF PendingFits, NoMatch
  <2>2. f = 0
    BY <1>9, <2>1
  <2>3. Len(chain) = 0
    BY DEF AtOf
  <2> QED
    BY <1>3, <1>8, <2>1, <2>2, <2>3 DEF IsFirstGroup
<1>11. gs # <<>> => IsMatchGroup(decomp, g)
  <2> SUFFICES ASSUME gs # <<>> PROVE IsMatchGroup(decomp, g)
    OBVIOUS
  <2>1. /\ n >= 3 /\ d \in 1 .. f /\ (d > CompactDist => n > 3)
        /\ \A b \in 1 .. n : decomp[f - d + b] = decomp[f + b]
    BY <1>1, <1>5 DEF PendingFits
  <2>2. f + n + l <= Len(decomp)
    BY <1>3, <1>9
  <2> QED
    BY <1>8, <2>1, <2>2 DEF IsMatchGroup
<1>12. Code(decomp, g) = WriteMatch(prev_match, l) \o WriteLiterals(curr_offset, l)
  BY <1>2, <1>8, <1>9, WrittenLiterals DEF Code
<1>13. g.from = FromOf(gs, Len(gs))
  BY <1>1, <1>5, <1>8 DEF PendingFits
<1> QED
  BY <1>7, <1>8, <1>9, <1>10, <1>11, <1>12, <1>13

(* What FindMatch and EndScan write is the code of the pending group. *)
LEMMA PendingCells ==
  ASSUME decomp \in Seq(Values), Scanned, NEW gs, PendingFits(gs),
         NEW l \in Nat, curr_offset + l <= Size
  PROVE  /\ WriteMatch(prev_match, l) \in Seq(Cells)
         /\ WriteLiterals(curr_offset, l) \in Seq(Cells)
<1>1. PICK d \in Nat, n \in Nat : d = prev_match.dist /\ n = prev_match.len
  BY DEF Scanned, Size
<1>2. prev_match = Match(d, n)
  BY <1>1 DEF Scanned, Match
<1>3. PICK c \in Nat : c = curr_offset
  BY DEF Scanned, Size
<1>4. WriteLiterals(curr_offset, l) \in Seq(Cells)
  BY <1>3, WrittenLiterals, LiteralsFacts DEF Size
<1>5. CASE n = 0
  BY <1>2, <1>4, <1>5 DEF WriteMatch, Match
<1>6. CASE n # 0
  <2>1. n >= 3
    BY <1>1, <1>6 DEF PendingFits, NoMatch
  <2>2. n \in Nat \ {0}
    BY <2>1
  <2>3. WriteMatch(Match(d, n), l) = MatchHead(d, n, l) \o MatchOffset(d, n, l)
    BY <2>2, MatchParts
  <2>4. MatchHead(d, n, l) \in Seq(Cells) /\ MatchOffset(d, n, l) \in Seq(Cells)
    BY <2>1, MatchHeadFacts
  <2> QED
    BY <1>2, <1>4, <2>3, <2>4, Behind
<1> QED
  BY <1>5, <1>6

(* The pending group is written. *)
LEMMA PendingWritten ==
  ASSUME decomp \in Seq(Values), Scanned, NEW gs, ScanFits(gs),
         NEW l \in Nat, curr_offset + l <= Size, gs = <<>> => l > 3,
         NEW c, c = chain \o WriteMatch(prev_match, l)
                         \o WriteLiterals(curr_offset, l)
  PROVE  /\ c \in Seq(Cells)
         /\ Written(decomp, Append(gs, Pending(l)), c)
         /\ Len(c) = AtOf(decomp, Append(gs, Pending(l)), Len(gs) + 1)
         /\ FromOf(Append(gs, Pending(l)), Len(gs) + 1) = curr_offset + l
         /\ Pending(l).from + Pending(l).len = curr_offset
         /\ Append(gs, Pending(l)) \in Seq(Groups)
         /\ Append(gs, Pending(l))[Len(gs) + 1] = Pending(l)
         /\ Len(Append(gs, Pending(l))) = Len(gs) + 1 /\ Len(gs) \in Nat
<1>1. /\ Written(decomp, gs, chain) /\ Len(chain) = AtOf(decomp, gs, Len(gs))
      /\ PendingFits(gs) /\ chain \in Seq(Cells) /\ gs \in Seq(Groups)
  BY DEF ScanFits, Written
<1>2. PICK g : g = Pending(l)
  OBVIOUS
<1>3. /\ g \in Groups /\ g.at = Len(chain) /\ g.from = FromOf(gs, Len(gs))
      /\ g.from + g.len = curr_offset /\ g.lits = l
      /\ gs = <<>> => IsFirstGroup(decomp, g)
      /\ gs # <<>> => IsMatchGroup(decomp, g)
      /\ Code(decomp, g)
           = WriteMatch(prev_match, l) \o WriteLiterals(curr_offset, l)
  BY <1>1, <1>2, PendingGroup
<1>4. PICK s, t : s = WriteMatch(prev_match, l) /\ t = WriteLiterals(curr_offset, l)
  OBVIOUS
<1>5. s \in Seq(Cells) /\ t \in Seq(Cells)
  BY <1>1, <1>4, PendingCells
<1>6. (chain \o s) \o t = chain \o (s \o t)
  BY <1>1, <1>5
<1>7. c = chain \o Code(decomp, g)
  BY <1>3, <1>4, <1>6
<1>8. /\ Written(decomp, Append(gs, g), c)
      /\ Len(c) = AtOf(decomp, Append(gs, g), Len(gs) + 1)
      /\ FromOf(Append(gs, g), Len(gs) + 1) = g.from + g.len + g.lits
  <2>1. PICK d, x : d = decomp /\ x = chain
    OBVIOUS
  <2>2. /\ d \in Seq(Values) /\ Written(d, gs, x) /\ Len(x) = AtOf(d, gs, Len(gs))
        /\ g.at = Len(x) /\ (gs = <<>> => IsFirstGroup(d, g))
        /\ (gs # <<>> => IsMatchGroup(d, g))
    BY <1>1, <1>3, <2>1
  <2>3. /\ Written(d, Append(gs, g), x \o Code(d, g))
        /\ Len(x \o Code(d, g)) = AtOf(d, Append(gs, g), Len(gs) + 1)
        /\ FromOf(Append(gs, g), Len(gs) + 1) = g.from + g.len + g.lits
    BY <1>3, <2>2, Appended
  <2> QED
    BY <1>7, <2>1, <2>3
<1>9. c \in Seq(Cells)
  BY <1>8 DEF Written
<1>10. /\ Append(gs, g) \in Seq(Groups)
       /\ Append(gs, g)[Len(gs) + 1] = g
       /\ Len(Append(gs, g)) = Len(gs) + 1 /\ Len(gs) \in Nat
  BY ONLY <1>1, <1>3
<1>11. g.from + g.len + g.lits = curr_offset + l
  BY <1>3
<1> QED
  BY <1>2, <1>3, <1>8, <1>9, <1>10, <1>11

-----------------------------------------------------------------------------
(* The steps of the writer. *)

(* Max is the greatest element. *)
LEMMA GreatestOf ==
  ASSUME NEW n \in Nat, NEW T, T \subseteq 0 .. n, T # {}
  PROVE  Max(T) \in T /\ \A y \in T : y <= Max(T)
<1> DEFINE U == {n - y : y \in T}
<1>1. IsWellFoundedOn(OpToRel(<, Nat), Nat)
  BY NatLessThanWellFounded
<1>2. U \subseteq Nat /\ U # {}
  <2>1. \A y \in T : n - y \in Nat
    OBVIOUS
  <2>2. PICK y \in T : TRUE
    OBVIOUS
  <2>3. n - y \in U
    OBVIOUS
  <2> QED
    BY <2>1, <2>3
<1>3. PICK u \in U : \A v \in U : ~ (<<v, u>> \in OpToRel(<, Nat))
  BY <1>1, <1>2, WFMin
<1>4. \A v \in U : ~ (v < u)
  BY <1>2, <1>3 DEF OpToRel
<1>5. PICK x \in T : u = n - x
  OBVIOUS
<1>6. \A y \in T : y <= x
  <2> SUFFICES ASSUME NEW y \in T PROVE y <= x
    OBVIOUS
  <2>1. ~ (n - y < n - x)
    BY <1>4, <1>5
  <2> QED
    BY <2>1
<1>7. \E z \in T : \A y \in T : z >= y
  BY <1>5, <1>6
<1>8. Max(T) \in T /\ \A y \in T : Max(T) >= y
  BY <1>7 DEF Max
<1> QED
  BY <1>8

Agree(prev, n) == \A b \in 1 .. n : decomp[prev + b] = decomp[pos + b]

(* What compress_find_match returns agrees up to its length. *)
LEMMA MatchLenFacts ==
  ASSUME Size - pos \in Nat, NEW prev
  PROVE  /\ MatchLen(prev) \in 0 .. Size - pos
         /\ Agree(prev, MatchLen(prev))
         /\ \A n \in 0 .. Size - pos : Agree(prev, n) => n <= MatchLen(prev)
<1> DEFINE T == {n \in 0 .. Size - pos : Agree(prev, n)}
<1>1. PICK s \in Nat : s = Size - pos
  OBVIOUS
<1>2. T \subseteq 0 .. s
  BY <1>1
<1>3. 0 \in T
  BY <1>1 DEF Agree
<1>4. MatchLen(prev) = Max(T)
  BY DEF MatchLen, Agree
<1> HIDE DEF T
<1>5. Max(T) \in T /\ \A y \in T : y <= Max(T)
  BY <1>2, <1>3, GreatestOf
<1> QED
  BY <1>4, <1>5 DEF T

(* A match that the scan may take. *)
LEMMA NewMatch ==
  ASSUME decomp \in Seq(Values), Scanned, phase = "scan", pos < Size - MatchTail,
         NEW prev \in Candidates, MatchLen(prev) >= 3
  PROVE  /\ prev \in Nat /\ prev < pos /\ prev >= 4 /\ pos - prev <= MaxDist
         /\ MatchLen(prev) \in Nat /\ pos + MatchLen(prev) <= Size
         /\ pos - prev > CompactDist => MatchLen(prev) > 3
         /\ Agree(prev, MatchLen(prev))
<1>1. prev \in hash_table /\ pos - prev <= MaxDist
      /\ (pos - prev > CompactDist => FarAgrees(prev))
  BY DEF Candidates
<1>2. prev \in Nat /\ prev < pos /\ prev >= 4
  BY <1>1 DEF Scanned
<1>3. Size \in Nat /\ pos \in Nat /\ MatchTail \in Nat /\ MatchTail >= 3
  BY Lz77Constants DEF Scanned, Size
<1>4. Size - pos \in Nat /\ 4 <= Size - pos
  BY <1>3
<1>5. PICK n : n = MatchLen(prev)
  OBVIOUS
<1>6. n \in 0 .. Size - pos /\ Agree(prev, n)
      /\ \A m \in 0 .. Size - pos : Agree(prev, m) => m <= n
  BY <1>4, <1>5, MatchLenFacts
<1>7. ASSUME pos - prev > CompactDist PROVE n > 3
  <2>1. decomp[prev + 4] = decomp[pos + 4]
    BY <1>1, <1>7 DEF FarAgrees
  <2>2. \A b \in 1 .. 4 : b = 4 \/ b \in 1 .. n
    BY <1>3, <1>5, <1>6
  <2>3. Agree(prev, 4)
    BY <1>6, <2>1, <2>2 DEF Agree
  <2>4. 4 \in 0 .. Size - pos
    BY <1>4
  <2>5. 4 <= n
    BY <1>6, <2>3, <2>4
  <2> QED
    BY <1>4, <1>6, <2>5
<1>8. n \in Nat /\ pos + n <= Size
  BY <1>3, <1>4, <1>6
<1> QED
  BY <1>1, <1>2, <1>5, <1>6, <1>7, <1>8

(* No match is pending at the beginning. *)
LEMMA NoMatchType ==
  ASSUME decomp \in Seq(Values)
  PROVE  NoMatch \in [dist : 0 .. MaxDist, len : 0 .. Size]
BY FormFacts DEF NoMatch, Size

(* The invariant holds at the beginning. *)
LEMMA InitInv == Init => StreamInv
<1> SUFFICES ASSUME Init PROVE StreamInv
  OBVIOUS
<1>1. PICK n \in MinSize .. MaxSize : decomp \in [1 .. n -> Values]
  BY DEF Init
<1>2. n \in Nat /\ n > 3
  BY <1>1, Lz77Constants
<1>3. decomp \in Seq(Values) /\ Len(decomp) = n
  BY ONLY <1>1, <1>2
<1>4. Scanned
  BY <1>2, <1>3, NoMatchType DEF Init, Scanned, Size
<1>5. /\ phase = "start" /\ byte = 0 /\ dec = <<>>
  BY DEF Init
<1> QED
  BY <1>2, <1>3, <1>4, <1>5 DEF StreamInv, Phases

(* Every step of the writer keeps it. *)
LEMMA StartScanInv == StreamInv /\ StartScan => StreamInv'
<1> SUFFICES ASSUME StreamInv, StartScan PROVE StreamInv'
  OBVIOUS
<1>1. /\ phase = "start" /\ phase' = "scan" /\ pos' = 4
      /\ decomp' = decomp /\ chain' = chain /\ byte' = byte /\ dec' = dec
      /\ curr_offset' = curr_offset /\ prev_match' = prev_match
      /\ hash_table' = hash_table
  BY DEF StartScan, reader
<1>2. /\ chain = <<>> /\ curr_offset = 0 /\ prev_match = NoMatch
      /\ hash_table = {} /\ byte = 0 /\ dec = <<>>
      /\ prev_match \in [dist : 0 .. MaxDist, len : 0 .. Size]
  BY <1>1 DEF StreamInv, Scanned
<1>3. decomp \in Seq(Values) /\ Len(decomp) > 3
  BY DEF StreamInv
<1>4. 4 \in 0 .. Size
  BY <1>3 DEF Size
<1>5. Scanned'
  <2>1. prev_match' \in [dist : 0 .. MaxDist, len : 0 .. Size']
    BY <1>1, <1>2 DEF Size
  <2>2. /\ pos' \in 0 .. Size' /\ curr_offset' \in 0 .. pos'
    BY <1>1, <1>2, <1>4 DEF Size
  <2> QED
    BY <1>1, <1>2, <2>1, <2>2 DEF Scanned
<1>6. Written(decomp, <<>>, <<>>)
  BY DEF Written
<1>7. ScanFits(<<>>)'
  BY <1>1, <1>2, <1>6 DEF ScanFits, PendingFits, AtOf, FromOf, NoMatch
<1> QED
  BY <1>1, <1>2, <1>3, <1>5, <1>7 DEF StreamInv, Phases

(* The scan goes on without a match. *)
LEMMA ScanOnInv == StreamInv /\ ScanOn => StreamInv'
<1> SUFFICES ASSUME StreamInv, ScanOn PROVE StreamInv'
  OBVIOUS
<1>1. /\ phase = "scan" /\ phase' = "scan" /\ pos' = pos + 1
      /\ pos < Size - MatchTail
      /\ decomp' = decomp /\ chain' = chain /\ byte' = byte /\ dec' = dec
      /\ curr_offset' = curr_offset /\ prev_match' = prev_match
      /\ hash_table' = hash_table \cup {pos}
  BY DEF ScanOn, reader
<1>2. decomp \in Seq(Values) /\ Len(decomp) > 3 /\ Scanned
  BY DEF StreamInv
<1>3. PICK gs : ScanFits(gs)
  BY <1>1 DEF StreamInv
<1>4. ScanFits(gs)'
  BY <1>1, <1>3 DEF ScanFits, PendingFits
<1>5. Scanned'
  <2>1. MatchTail \in Nat /\ Size \in Nat
    BY <1>2, Lz77Constants DEF Size
  <2>2. pos \in Nat /\ pos >= 4
    BY <1>1, <1>2 DEF Scanned, Size
  <2>3. pos' \in 0 .. Size' /\ curr_offset' \in 0 .. pos'
    BY <1>1, <1>2, <2>1, <2>2 DEF Scanned, Size
  <2>4. prev_match' \in [dist : 0 .. MaxDist, len : 0 .. Size']
    BY <1>1, <1>2 DEF Scanned, Size
  <2>5. \A prev \in hash_table' : prev \in Nat /\ prev < pos' /\ prev >= 4
    BY <1>1, <1>2, <2>2 DEF Scanned
  <2> QED
    BY <1>1, <2>2, <2>3, <2>4, <2>5 DEF Scanned
<1> QED
  BY <1>1, <1>2, <1>4, <1>5 DEF StreamInv, Phases

-----------------------------------------------------------------------------
(* A match is found: the pending group is written, the new match pends. *)
LEMMA FindMatchInv == StreamInv /\ FindMatch => StreamInv'
<1> SUFFICES ASSUME StreamInv, FindMatch PROVE StreamInv'
  OBVIOUS
<1>1. /\ phase = "scan" /\ phase' = "scan" /\ pos < Size - MatchTail
      /\ decomp' = decomp /\ byte' = byte /\ dec' = dec
      /\ curr_offset' = pos' /\ hash_table' = hash_table \cup {pos}
      /\ chain' = chain \o WriteMatch(prev_match, pos - curr_offset)
                        \o WriteLiterals(curr_offset, pos - curr_offset)
  BY DEF FindMatch, reader
<1>2. PICK prev \in Candidates :
        /\ MatchLen(prev) >= 3
        /\ prev_match' = [dist |-> pos - prev, len |-> MatchLen(prev)]
        /\ pos' = pos + MatchLen(prev)
  BY DEF FindMatch
<1>3. decomp \in Seq(Values) /\ Len(decomp) > 3 /\ Scanned
  BY DEF StreamInv
<1>4. PICK n : n = MatchLen(prev)
  OBVIOUS
<1>5. /\ prev \in Nat /\ prev < pos /\ prev >= 4 /\ pos - prev <= MaxDist
      /\ n \in Nat /\ n >= 3 /\ pos + n <= Size
      /\ pos - prev > CompactDist => n > 3
      /\ Agree(prev, n)
  BY <1>1, <1>2, <1>3, <1>4, NewMatch
<1>6. /\ Size \in Nat /\ pos \in Nat /\ curr_offset \in Nat /\ curr_offset <= pos
      /\ pos >= 4
  BY <1>1, <1>3 DEF Scanned, Size
<1>7. PICK l \in Nat : l = pos - curr_offset
  BY <1>6
<1>8. PICK gs : ScanFits(gs)
  BY <1>1 DEF StreamInv
<1>9. PICK hs : hs = Append(gs, Pending(l))
  OBVIOUS
<1>10. /\ chain' \in Seq(Cells) /\ Written(decomp, hs, chain')
       /\ Len(chain') = AtOf(decomp, hs, Len(gs) + 1)
       /\ FromOf(hs, Len(gs) + 1) = curr_offset + l
       /\ Len(hs) = Len(gs) + 1 /\ Len(gs) \in Nat
  <2>1. gs = <<>> => l > 3
    BY <1>6, <1>7, <1>8 DEF ScanFits, PendingFits
  <2>2. curr_offset + l <= Size
    BY <1>5, <1>6, <1>7
  <2>3. chain' = chain \o WriteMatch(prev_match, l) \o WriteLiterals(curr_offset, l)
    BY <1>1, <1>7
  <2> QED
    BY <1>3, <1>8, <1>9, <2>1, <2>2, <2>3, PendingWritten
<1>11. curr_offset + l = pos /\ pos' = pos + n
  BY <1>2, <1>4, <1>6, <1>7
<1>12. prev_match'.dist = pos - prev /\ prev_match'.len = n
       /\ curr_offset' - prev_match'.len = pos
  BY <1>1, <1>2, <1>4, <1>5, <1>6
<1>13. PendingFits(hs)'
  <2>1. FromOf(hs, Len(hs)) = curr_offset' - prev_match'.len
    BY <1>10, <1>11, <1>12
  <2>2. hs # <<>>
    BY <1>10
  <2>3. \A b \in 1 .. n : decomp[pos - (pos - prev) + b] = decomp[pos + b]
    <3>1. pos - (pos - prev) = prev
      BY <1>5, <1>6
    <3> QED
      BY <1>5, <3>1 DEF Agree
  <2>4. pos - prev \in 1 .. pos
    BY <1>5, <1>6
  <2> QED
    BY <1>1, <1>5, <1>12, <2>1, <2>2, <2>3, <2>4 DEF PendingFits
<1>14. ScanFits(hs)'
  BY <1>1, <1>10, <1>13 DEF ScanFits
<1>15. Scanned'
  <2>1. Size' = Size
    BY <1>1 DEF Size
  <2>2. pos' \in 0 .. Size' /\ curr_offset' \in 0 .. pos' /\ pos' >= 4
    BY <1>1, <1>5, <1>6, <1>11, <2>1
  <2>3. prev_match' \in [dist : 0 .. MaxDist, len : 0 .. Size']
    BY <1>2, <1>4, <1>5, <1>6, <2>1, FormFacts
  <2>4. \A p \in hash_table' : p \in Nat /\ p < pos' /\ p >= 4
    BY <1>1, <1>3, <1>5, <1>6, <1>11 DEF Scanned
  <2> QED
    BY <1>1, <2>2, <2>3, <2>4 DEF Scanned
<1> QED
  BY <1>1, <1>3, <1>14, <1>15 DEF StreamInv, Phases

(* The whole section is there with the terminator. *)
LEMMA Completed ==
  ASSUME decomp \in Seq(Values), Scanned, NEW gs, ScanFits(gs),
         gs = <<>> => Size - curr_offset > 3,
         NEW c, c = chain \o WriteMatch(prev_match, Size - curr_offset)
                         \o WriteLiterals(curr_offset, Size - curr_offset)
                         \o <<Terminator>>
  PROVE  /\ Whole(decomp, Append(gs, Pending(Size - curr_offset)), c, curr_offset)
         /\ Len(Append(gs, Pending(Size - curr_offset))) = Len(gs) + 1
<1>1. Size \in Nat /\ curr_offset \in Nat /\ curr_offset <= Size
  BY DEF Scanned, Size
<1>2. PICK l \in Nat : l = Size - curr_offset
  BY <1>1
<1>3. curr_offset + l = Size
  BY <1>1, <1>2
<1>4. PICK x : x = chain \o WriteMatch(prev_match, l) \o WriteLiterals(curr_offset, l)
  OBVIOUS
<1>5. PICK hs, n : hs = Append(gs, Pending(l)) /\ n = Len(gs) + 1
  OBVIOUS
<1>6. /\ x \in Seq(Cells) /\ Written(decomp, hs, x)
      /\ Len(x) = AtOf(decomp, hs, n) /\ FromOf(hs, n) = Size
      /\ Pending(l).from + Pending(l).len = curr_offset
      /\ hs \in Seq(Groups) /\ hs[n] = Pending(l)
      /\ Len(hs) = n /\ n \in Nat \ {0}
  <2>1. (gs = <<>> => l > 3) /\ curr_offset + l <= Size
    BY <1>1, <1>2, <1>3
  <2>2. /\ x \in Seq(Cells)
        /\ Written(decomp, Append(gs, Pending(l)), x)
        /\ Len(x) = AtOf(decomp, Append(gs, Pending(l)), Len(gs) + 1)
        /\ FromOf(Append(gs, Pending(l)), Len(gs) + 1) = curr_offset + l
        /\ Pending(l).from + Pending(l).len = curr_offset
        /\ Append(gs, Pending(l)) \in Seq(Groups)
        /\ Append(gs, Pending(l))[Len(gs) + 1] = Pending(l)
        /\ Len(Append(gs, Pending(l))) = Len(gs) + 1 /\ Len(gs) \in Nat
    BY <1>4, <2>1, PendingWritten
  <2> QED
    BY <1>3, <1>5, <2>2
<1>7. Terminator \in Cells
  BY OpCell DEF Terminator, Forms
<1>8. PICK t : t = <<Terminator>>
  OBVIOUS
<1>9. t \in Seq(Cells) /\ Len(t) = 1 /\ t[1] = Terminator
  BY <1>7, <1>8
<1>10. c = x \o t
  BY <1>2, <1>4, <1>8
<1>11. Written(decomp, hs, c)
  BY <1>6, <1>9, <1>10, WrittenStays
<1>12. Len(c) = Len(x) + 1 /\ c[Len(x) + 1] = Terminator
  <2>1. Len(x \o t) = Len(x) + Len(t) /\ 1 \in 1 .. Len(t)
    <3>1. Len(x \o t) = Len(x) + Len(t)
      <4>1. x \in Seq(Cells) /\ t \in Seq(Cells)
        BY <1>6, <1>9
      <4> QED
        BY ONLY <4>1, Behind
    <3>2. 1 \in 1 .. Len(t)
      BY <1>9
    <3> QED
      BY <3>1, <3>2
  <2>2. (x \o t)[Len(x) + 1] = t[1]
    BY <1>6, <1>9, <2>1, Parts
  <2> QED
    BY <1>9, <1>10, <2>1, <2>2
<1>13. hs # <<>>
  BY <1>6
<1>14. Whole(decomp, hs, c, curr_offset)
  BY <1>6, <1>11, <1>12, <1>13 DEF Whole, Size
<1> QED
  BY <1>2, <1>5, <1>6, <1>14

(* The scan ends with the terminator. *)
LEMMA EndScanInv == StreamInv /\ EndScan => StreamInv'
<1> SUFFICES ASSUME StreamInv, EndScan PROVE StreamInv'
  OBVIOUS
<1>1. /\ phase = "scan" /\ phase' = "compressed" /\ pos >= Size - MatchTail
      /\ decomp' = decomp /\ pos' = pos /\ curr_offset' = curr_offset
      /\ prev_match' = prev_match /\ hash_table' = hash_table
      /\ byte' = byte /\ dec' = dec
      /\ chain' = chain \o WriteMatch(prev_match, Size - curr_offset)
                        \o WriteLiterals(curr_offset, Size - curr_offset)
                        \o <<Terminator>>
  BY DEF EndScan, reader, writer
<1>2. decomp \in Seq(Values) /\ Len(decomp) > 3 /\ Scanned
      /\ byte = 0 /\ dec = <<>>
  BY <1>1 DEF StreamInv
<1>3. PICK gs : ScanFits(gs)
  BY <1>1 DEF StreamInv
<1>4. gs = <<>> => Size - curr_offset > 3
  BY <1>2, <1>3 DEF ScanFits, PendingFits, Size
<1>5. PICK hs : hs = Append(gs, Pending(Size - curr_offset))
  OBVIOUS
<1>6. Whole(decomp, hs, chain', curr_offset)
  BY <1>1, <1>2, <1>3, <1>4, <1>5, Completed
<1>7. pos >= 4
  BY <1>1, <1>2 DEF Scanned
<1>8. ReaderFits(hs)'
  BY <1>1, <1>2, <1>6, <1>7 DEF ReaderFits
<1>9. Scanned'
  BY <1>1, <1>2 DEF Scanned, Size
<1> QED
  BY <1>1, <1>2, <1>8, <1>9 DEF StreamInv, Phases

(* A stored section is one group. *)
LEMMA StoreInv == StreamInv /\ Store => StreamInv'
<1> SUFFICES ASSUME StreamInv, Store PROVE StreamInv'
  OBVIOUS
<1>1. /\ phase = "start" /\ phase' = "stored"
      /\ decomp' = decomp /\ pos' = pos /\ curr_offset' = curr_offset
      /\ prev_match' = prev_match /\ hash_table' = hash_table
      /\ byte' = byte /\ dec' = dec
      /\ chain' = WriteLiterals(0, Size) \o <<Terminator>>
  BY DEF Store, reader, writer
<1>2. decomp \in Seq(Values) /\ Len(decomp) > 3 /\ Scanned
      /\ byte = 0 /\ dec = <<>>
  BY <1>1 DEF StreamInv
<1>3. /\ chain = <<>> /\ curr_offset = 0 /\ prev_match = NoMatch
  BY <1>1, <1>2 DEF Scanned
<1>4. ScanFits(<<>>)
  <2>1. Written(decomp, <<>>, <<>>)
    BY DEF Written
  <2> QED
    BY <1>3, <2>1 DEF ScanFits, PendingFits, AtOf, FromOf, NoMatch
<1>5. Size - curr_offset = Size /\ Size > 3 /\ Size \in Nat
  BY <1>2, <1>3 DEF Size
<1>6. chain' = chain \o WriteMatch(prev_match, Size - curr_offset)
                     \o WriteLiterals(curr_offset, Size - curr_offset)
                     \o <<Terminator>>
  <2>1. WriteMatch(prev_match, Size) = <<>>
    BY <1>3 DEF WriteMatch, NoMatch
  <2>2. PICK s : s = WriteLiterals(0, Size)
    OBVIOUS
  <2>3. s \in Seq(Cells)
    <3>1. 0 \in Nat /\ 0 + Size <= Len(decomp)
      BY <1>5 DEF Size
    <3> QED
      BY <1>2, <1>5, <2>2, <3>1, LiteralsFacts, WrittenLiterals
  <2>4. <<>> \o <<>> \o s = s
    BY <2>3
  <2> QED
    BY <1>1, <1>3, <1>5, <2>1, <2>2, <2>4
<1>7. PICK hs : hs = Append(<<>>, Pending(Size - curr_offset))
  OBVIOUS
<1>8. Whole(decomp, hs, chain', curr_offset) /\ Len(hs) = 1
  <2>1. PICK c, gs : c = chain' /\ gs = <<>>
    OBVIOUS
  <2>2. /\ ScanFits(gs) /\ (gs = <<>> => Size - curr_offset > 3) /\ Len(gs) = 0
        /\ c = chain \o WriteMatch(prev_match, Size - curr_offset)
                    \o WriteLiterals(curr_offset, Size - curr_offset)
                    \o <<Terminator>>
    BY <1>4, <1>5, <1>6, <2>1
  <2>3. /\ Whole(decomp, Append(gs, Pending(Size - curr_offset)), c, curr_offset)
        /\ Len(Append(gs, Pending(Size - curr_offset))) = Len(gs) + 1
    BY <1>2, <2>2, Completed
  <2> QED
    BY <1>7, <2>1, <2>2, <2>3
<1>9. ReaderFits(hs)'
  BY <1>1, <1>2, <1>8 DEF ReaderFits
<1>10. Scanned'
  BY <1>1, <1>2 DEF Scanned, Size
<1> QED
  BY <1>1, <1>2, <1>9, <1>10 DEF StreamInv, Phases

-----------------------------------------------------------------------------
(* The steps of the reader. *)

(* The groups of a whole section, as the reader meets them. *)
LEMMA GroupOf ==
  ASSUME decomp \in Seq(Values), NEW gs, NEW last,
         Whole(decomp, gs, chain, last), NEW i \in 1 .. Len(gs)
  PROVE  /\ gs[i] \in Groups
         /\ Holds(chain, gs[i].at, Code(decomp, gs[i]))
         /\ gs[i].at = AtOf(decomp, gs, i - 1) /\ gs[i].from = FromOf(gs, i - 1)
         /\ i = 1 => IsFirstGroup(decomp, gs[i])
         /\ i # 1 => IsMatchGroup(decomp, gs[i])
         /\ AtOf(decomp, gs, i) = gs[i].at + Len(Code(decomp, gs[i]))
         /\ FromOf(gs, i) = gs[i].from + gs[i].len + gs[i].lits
         /\ NextOpcode(AtOf(decomp, gs, i))
<1>1. Written(decomp, gs, chain)
  BY DEF Whole
<1>2. gs[i] \in Groups /\ InPlace(decomp, gs, i)
      /\ Holds(chain, gs[i].at, Code(decomp, gs[i]))
  BY <1>1 DEF Written
<1>3. NextOpcode(AtOf(decomp, gs, i))
  BY OpcodeBehind
<1>4. i # 0
  BY <1>1 DEF Written
<1> QED
  BY <1>2, <1>3, <1>4 DEF InPlace, AtOf, FromOf

(* The reader takes the first group. *)
LEMMA FirstLiteralsInv == StreamInv /\ FirstLiterals => StreamInv'
<1> SUFFICES ASSUME StreamInv, FirstLiterals PROVE StreamInv'
  OBVIOUS
<1>1. phase \in {"stored", "compressed"}
  BY DEF FirstLiterals
<1>2. decomp \in Seq(Values) /\ Len(decomp) > 3 /\ Scanned
  BY DEF StreamInv
<1>3. PICK gs : ReaderFits(gs)
  BY <1>1 DEF StreamInv
<1>4. Whole(decomp, gs, chain, curr_offset) /\ (pos >= 4 \/ Len(gs) = 1)
  BY <1>3 DEF ReaderFits
<1>5. PICK n \in Nat : n = Len(gs) /\ n >= 1
  <2>1. gs \in Seq(Groups) /\ gs # <<>>
    BY <1>4 DEF Whole, Written
  <2> QED
    BY <2>1
<1>6. PICK g : g = gs[1]
  OBVIOUS
<1>7. 1 \in 1 .. Len(gs)
  BY <1>5
<1>8. /\ g \in Groups /\ IsFirstGroup(decomp, g)
      /\ Holds(chain, g.at, Code(decomp, g)) /\ g.at = 0
      /\ AtOf(decomp, gs, 1) = g.at + Len(Code(decomp, g))
      /\ FromOf(gs, 1) = g.from + g.len + g.lits
      /\ NextOpcode(AtOf(decomp, gs, 1))
  BY <1>2, <1>4, <1>6, <1>7, GroupOf DEF IsFirstGroup
<1>9. chain \in Seq(Cells)
  BY <1>4 DEF Whole, Written
<1>10. Len(Code(decomp, g)) \in Nat \ {0} /\ g.lits \in Nat
       /\ g.from = 0 /\ g.len = 0
  BY <1>2, <1>8, FirstCode DEF Groups, IsFirstGroup
<1>11. AtOf(decomp, gs, 1) = Len(Code(decomp, g)) /\ FromOf(gs, 1) = g.lits
  BY <1>8, <1>10
<1>12. Arrives(Len(Code(decomp, g)), g.lits)
  BY <1>2, <1>8, <1>9, <1>11, FirstStep
<1>13. /\ phase' = "decode" /\ dec' = First(decomp, FromOf(gs, 1))
       /\ byte' = AtOf(decomp, gs, 1) + 1 /\ opcode' = chain[byte']
       /\ decomp' = decomp /\ chain' = chain /\ pos' = pos
       /\ curr_offset' = curr_offset /\ prev_match' = prev_match
       /\ hash_table' = hash_table
  BY <1>11, <1>12 DEF Arrives, writer
<1>14. StandsAt(gs, 2)'
  BY <1>13 DEF StandsAt
<1>15. 2 \in 2 .. Len(gs) + 1
  BY <1>5
<1>16. ReaderFits(gs)'
  BY <1>4, <1>13, <1>14, <1>15 DEF ReaderFits
<1>17. Scanned'
  BY <1>2, <1>13 DEF Scanned, Size
<1> QED
  BY <1>2, <1>13, <1>16, <1>17 DEF StreamInv, Phases

(* Where the reader stands: at a match, or at the terminator with the      *)
(* whole section.                                                          *)
LEMMA Standing ==
  ASSUME decomp \in Seq(Values), NEW gs, NEW last,
         Whole(decomp, gs, chain, last), NEW r \in 2 .. Len(gs) + 1,
         StandsAt(gs, r)
  PROVE  /\ r <= Len(gs) => /\ gs[r] \in Groups /\ IsMatchGroup(decomp, gs[r])
                            /\ AtGroup(gs[r]) /\ MoreInput
                            /\ opcode.kind = "opcode"
                            /\ opcode # Terminator /\ MatchAt.len = gs[r].len
         /\ r = Len(gs) + 1 => /\ opcode = Terminator /\ byte = Len(chain)
                               /\ dec = decomp /\ ~ MoreInput
         /\ byte \in 0 .. Len(chain)
         /\ dec \in Seq(Values) /\ Len(dec) <= Size
<1>1. Written(decomp, gs, chain) /\ gs \in Seq(Groups) /\ chain \in Seq(Cells)
  BY DEF Whole, Written
<1>2. PICK n \in Nat : n = Len(gs)
  BY <1>1
<1>3. r - 1 \in 1 .. Len(gs) /\ r - 1 \in 0 .. Len(gs)
  BY <1>2
<1>4. AtOf(decomp, gs, r - 1) \in Nat /\ FromOf(gs, r - 1) \in 0 .. Len(decomp)
  BY <1>1, <1>3, OfTypes
<1>5. NextOpcode(AtOf(decomp, gs, r - 1))
  BY <1>3, OpcodeBehind
<1>6. byte \in 0 .. Len(chain)
  BY <1>1, <1>4, <1>5 DEF StandsAt, NextOpcode
<1>7. dec \in Seq(Values) /\ Len(dec) = FromOf(gs, r - 1) /\ Len(dec) <= Size
  BY <1>4, FirstFacts DEF StandsAt, Size
<1>8. ASSUME r <= Len(gs)
      PROVE  /\ gs[r] \in Groups /\ IsMatchGroup(decomp, gs[r])
             /\ AtGroup(gs[r]) /\ MoreInput /\ opcode.kind = "opcode"
             /\ opcode # Terminator /\ MatchAt.len = gs[r].len
  <2>1. r \in 1 .. Len(gs) /\ r # 1
    BY <1>2, <1>8
  <2>2. PICK g : g = gs[r]
    OBVIOUS
  <2>3. /\ g \in Groups /\ IsMatchGroup(decomp, g)
        /\ Holds(chain, g.at, Code(decomp, g))
        /\ g.at = AtOf(decomp, gs, r - 1) /\ g.from = FromOf(gs, r - 1)
        /\ AtOf(decomp, gs, r) = g.at + Len(Code(decomp, g))
        /\ NextOpcode(AtOf(decomp, gs, r))
    BY <2>1, <2>2, GroupOf
  <2>4. AtGroup(g)
    BY <1>1, <2>3 DEF AtGroup, StandsAt
  <2>5. /\ opcode.kind = "opcode" /\ opcode # Terminator /\ byte < Len(chain)
        /\ MatchAt.len = g.len
    BY <2>3, <2>4, GroupRead
  <2>6. Len(dec) < Size
    <3>1. g.from \in Nat /\ g.len \in Nat /\ g.lits \in Nat
      BY <2>3 DEF Groups
    <3>2. g.len >= 3 /\ g.from + g.len + g.lits <= Len(decomp)
      BY <2>3 DEF IsMatchGroup
    <3>3. Len(dec) = g.from /\ Len(decomp) \in Nat
      BY <1>7, <2>3
    <3> QED
      BY <3>1, <3>2, <3>3 DEF Size
  <2> QED
    BY <2>2, <2>3, <2>4, <2>5, <2>6 DEF MoreInput
<1>9. ASSUME r = Len(gs) + 1
      PROVE  /\ opcode = Terminator /\ byte = Len(chain)
             /\ dec = decomp /\ ~ MoreInput
  <2>1. r - 1 = Len(gs)
    BY <1>2, <1>9
  <2>2. byte = Len(chain) /\ opcode = Terminator
    BY <2>1 DEF Whole, StandsAt
  <2>3. dec = First(decomp, Len(decomp))
    BY <2>1 DEF Whole, StandsAt
  <2>4. First(decomp, Len(decomp)) = decomp
    BY DEF First
  <2> QED
    BY <2>2, <2>3, <2>4 DEF MoreInput
<1> QED
  BY <1>6, <1>7, <1>8, <1>9

(* One turn of the loop takes one group, or refuses the last. *)
LEMMA TurnInv == StreamInv /\ Turn => StreamInv'
<1> SUFFICES ASSUME StreamInv, Turn PROVE StreamInv'
  OBVIOUS
<1>1. phase = "decode" /\ MoreInput
  BY DEF Turn
<1>2. decomp \in Seq(Values) /\ Len(decomp) > 3 /\ Scanned
  BY DEF StreamInv
<1>3. PICK gs : ReaderFits(gs)
  BY <1>1 DEF StreamInv
<1>4. Whole(decomp, gs, chain, curr_offset) /\ (pos >= 4 \/ Len(gs) = 1)
  BY <1>3 DEF ReaderFits
<1>5. PICK r \in 2 .. Len(gs) + 1 : StandsAt(gs, r)
  BY <1>1, <1>3 DEF ReaderFits
<1>6. PICK n \in Nat : n = Len(gs)
  BY <1>4 DEF Whole, Written
<1>7. r # Len(gs) + 1
  BY <1>1, <1>2, <1>4, <1>5, Standing
<1>8. r \in 2 .. Len(gs) /\ r <= Len(gs) /\ r \in 1 .. Len(gs) /\ r # 1
  BY <1>6, <1>7
<1>9. PICK g : g = gs[r]
  OBVIOUS
<1>10. g \in Groups /\ IsMatchGroup(decomp, g) /\ AtGroup(g)
  BY <1>2, <1>4, <1>5, <1>8, <1>9, Standing
<1>11. /\ AtOf(decomp, gs, r) = g.at + Len(Code(decomp, g))
       /\ FromOf(gs, r) = g.from + g.len + g.lits
  BY <1>2, <1>4, <1>8, <1>9, GroupOf
<1>12. CASE g.from + g.len = Len(decomp)
  <2>1. /\ phase' = "refused" /\ decomp' = decomp /\ chain' = chain
        /\ pos' = pos /\ curr_offset' = curr_offset /\ prev_match' = prev_match
        /\ hash_table' = hash_table /\ byte' = byte /\ opcode' = opcode
        /\ dec' = dec
    BY <1>2, <1>10, <1>12, TurnStep DEF writer, reader
  <2>2. StandsAt(gs, r)'
    BY <1>5, <2>1 DEF StandsAt
  <2>3. ReaderFits(gs)'
    BY <1>4, <1>8, <1>9, <1>12, <2>1, <2>2 DEF ReaderFits
  <2>4. Scanned'
    BY <1>2, <2>1 DEF Scanned, Size
  <2> QED
    BY <1>2, <2>1, <2>3, <2>4 DEF StreamInv, Phases
<1>13. CASE g.from + g.len # Len(decomp)
  <2>1. Arrives(g.at + Len(Code(decomp, g)), g.from + g.len + g.lits)
    BY <1>2, <1>10, <1>13, TurnStep
  <2>2. /\ phase' = "decode" /\ dec' = First(decomp, FromOf(gs, r))
        /\ byte' = AtOf(decomp, gs, r) + 1 /\ opcode' = chain[byte']
        /\ decomp' = decomp /\ chain' = chain /\ pos' = pos
        /\ curr_offset' = curr_offset /\ prev_match' = prev_match
        /\ hash_table' = hash_table
    BY <1>11, <2>1 DEF Arrives, writer
  <2>3. PICK q \in 2 .. Len(gs) + 1 : q = r + 1 /\ q - 1 = r
    BY <1>6, <1>8
  <2>4. StandsAt(gs, q)'
    BY <2>2, <2>3 DEF StandsAt
  <2>5. ReaderFits(gs)'
    BY <1>4, <2>2, <2>4 DEF ReaderFits
  <2>6. Scanned'
    BY <1>2, <2>2 DEF Scanned, Size
  <2> QED
    BY <1>2, <2>2, <2>5, <2>6 DEF StreamInv, Phases
<1> QED
  BY <1>12, <1>13

(* The loop ends at the terminator, with the whole section. *)
LEMMA EndOfInputInv == StreamInv /\ EndOfInput => StreamInv'
<1> SUFFICES ASSUME StreamInv, EndOfInput PROVE StreamInv'
  OBVIOUS
<1>1. /\ phase = "decode" /\ phase' = "done" /\ ~ MoreInput
      /\ decomp' = decomp /\ chain' = chain /\ pos' = pos
      /\ curr_offset' = curr_offset /\ prev_match' = prev_match
      /\ hash_table' = hash_table /\ byte' = byte /\ dec' = dec
  BY DEF EndOfInput, writer, reader
<1>2. decomp \in Seq(Values) /\ Len(decomp) > 3 /\ Scanned
  BY DEF StreamInv
<1>3. PICK gs : ReaderFits(gs)
  BY <1>1 DEF StreamInv
<1>4. Whole(decomp, gs, chain, curr_offset) /\ (pos >= 4 \/ Len(gs) = 1)
  BY <1>3 DEF ReaderFits
<1>5. PICK r \in 2 .. Len(gs) + 1 : StandsAt(gs, r)
  BY <1>1, <1>3 DEF ReaderFits
<1>6. PICK n \in Nat : n = Len(gs)
  BY <1>4 DEF Whole, Written
<1>7. r = Len(gs) + 1
  <2>1. ~ (r <= Len(gs))
    BY <1>1, <1>2, <1>4, <1>5, Standing
  <2> QED
    BY <1>6, <2>1
<1>8. dec = decomp /\ byte \in 0 .. Len(chain)
  BY <1>2, <1>4, <1>5, <1>7, Standing
<1>9. ReaderFits(gs)'
  BY <1>1, <1>4, <1>8 DEF ReaderFits
<1>10. Scanned'
  BY <1>1, <1>2 DEF Scanned, Size
<1> QED
  BY <1>1, <1>2, <1>9, <1>10 DEF StreamInv, Phases

(* Nothing moves. *)
LEMMA StutterInv == StreamInv /\ UNCHANGED vars => StreamInv'
<1> SUFFICES ASSUME StreamInv, UNCHANGED vars PROVE StreamInv'
  OBVIOUS
<1>1. /\ phase' = phase /\ decomp' = decomp /\ chain' = chain /\ pos' = pos
      /\ curr_offset' = curr_offset /\ prev_match' = prev_match
      /\ hash_table' = hash_table /\ byte' = byte /\ opcode' = opcode
      /\ dec' = dec
  BY DEF vars, writer, reader
<1>2. \A gs : ScanFits(gs) => ScanFits(gs)'
  BY <1>1 DEF ScanFits, PendingFits
<1>3. \A gs : ReaderFits(gs) => ReaderFits(gs)'
  BY <1>1 DEF ReaderFits, StandsAt
<1>4. Scanned => Scanned'
  BY <1>1 DEF Scanned, Size
<1> QED
  BY <1>1, <1>2, <1>3, <1>4 DEF StreamInv

(* The stream is a sequence of groups that tile the section, and the      *)
(* reader stands at one of them: compress_R2004_section and                *)
(* decompress_R2004_section keep to the invariant.                         *)
THEOREM StreamInvariant == Spec => []StreamInv
<1>1. StreamInv /\ [Next]_vars => StreamInv'
  BY StoreInv, StartScanInv, ScanOnInv, FindMatchInv, EndScanInv,
     FirstLiteralsInv, TurnInv, EndOfInputInv, StutterInv
     DEF Next, Compress, Decompress
<1> QED
  BY <1>1, InitInv, PTL DEF Spec

(* The invariant contains the types. *)
LEMMA InvType == StreamInv => TypeOK
<1> SUFFICES ASSUME StreamInv PROVE TypeOK
  OBVIOUS
<1>1. decomp \in Seq(Values) /\ phase \in Phases /\ Scanned
  BY DEF StreamInv
<1>2. byte \in 0 .. Len(chain) /\ dec \in Seq(Values) /\ Len(dec) <= Size
  <2>1. Len(decomp) \in Nat
    BY <1>1
  <2>2. CASE phase = "start"
    <3>1. chain = <<>> /\ byte = 0 /\ dec = <<>>
      BY <1>1, <2>2 DEF Scanned, StreamInv
    <3> QED
      BY <2>1, <3>1 DEF Size
  <2>3. CASE phase = "scan"
    <3>1. byte = 0 /\ dec = <<>>
      BY <2>3 DEF StreamInv
    <3>2. chain \in Seq(Cells)
      BY <2>3 DEF StreamInv, ScanFits, Written
    <3>3. byte \in 0 .. Len(chain)
      BY <3>1, <3>2
    <3>4. dec \in Seq(Values) /\ Len(dec) <= Size
      BY <2>1, <3>1 DEF Size
    <3> QED
      BY <3>3, <3>4
  <2>4. CASE phase \notin {"start", "scan"}
    <3>1. PICK gs : ReaderFits(gs)
      BY <2>4 DEF StreamInv
    <3>2. Whole(decomp, gs, chain, curr_offset) /\ chain \in Seq(Cells)
          /\ gs \in Seq(Groups)
      BY <3>1 DEF ReaderFits, Whole, Written
    <3>3. CASE phase \in {"stored", "compressed"}
      <4>1. byte = 0 /\ dec = <<>>
        BY <3>1, <3>3 DEF ReaderFits
      <4>2. byte \in 0 .. Len(chain)
        BY <3>2, <4>1
      <4>3. dec \in Seq(Values) /\ Len(dec) <= Size
        BY <2>1, <4>1 DEF Size
      <4> QED
        BY <4>2, <4>3
    <3>4. CASE phase = "done"
      BY <1>1, <3>1, <3>4 DEF ReaderFits, Size
    <3>5. CASE phase \in {"decode", "refused"}
      <4>1. PICK r \in 2 .. Len(gs) + 1 : StandsAt(gs, r)
        <5>1. \A r \in 2 .. Len(gs) : r \in 2 .. Len(gs) + 1
          BY <3>2
        <5> QED
          BY <3>1, <3>5, <5>1 DEF ReaderFits
      <4> QED
        BY <1>1, <3>2, <4>1, Standing
    <3> QED
      BY <2>4, <3>3, <3>4, <3>5 DEF StreamInv, Phases
  <2> QED
    BY <2>2, <2>3, <2>4
<1> QED
  BY <1>1, <1>2 DEF TypeOK, Scanned

(* The writer stays inside the section and the reader inside the stream,   *)
(* whatever is compressed.                                                 *)
THEOREM TypeCorrect == Spec => []TypeOK
BY InvType, StreamInvariant, PTL

(* The round trip of compress_R2004_section, or store_R2004_section, and   *)
(* decompress_R2004_section gives back any section, whatever matches the   *)
(* hash table proposes.                                                    *)
THEOREM RoundTrips == Spec => []RoundTrip
<1>1. StreamInv => RoundTrip
  BY DEF StreamInv, ReaderFits, RoundTrip
<1> QED
  BY <1>1, StreamInvariant, PTL

(* The reader never takes a byte for something else, and meets the         *)
(* terminator only at the end of the stream.                               *)
THEOREM ReadsInStep == Spec => []ReaderInStep
<1>1. StreamInv => ReaderInStep
  <2> SUFFICES ASSUME StreamInv PROVE ReaderInStep
    OBVIOUS
  <2>1. phase # "lost"
    BY DEF StreamInv
  <2>2. ASSUME phase = "decode", opcode = Terminator PROVE byte = Len(chain)
    <3>1. PICK gs : ReaderFits(gs)
      BY <2>2 DEF StreamInv
    <3>2. PICK r \in 2 .. Len(gs) + 1 : StandsAt(gs, r)
      BY <2>2, <3>1 DEF ReaderFits
    <3>3. decomp \in Seq(Values) /\ Whole(decomp, gs, chain, curr_offset)
          /\ gs \in Seq(Groups)
      BY <3>1 DEF StreamInv, ReaderFits, Whole, Written
    <3>4. ~ (r <= Len(gs))
      BY <2>2, <3>2, <3>3, Standing
    <3>5. r = Len(gs) + 1
      BY <3>3, <3>4
    <3> QED
      BY <3>2, <3>3, <3>5, Standing
  <2> QED
    BY <2>1, <2>2 DEF ReaderInStep
<1> QED
  BY <1>1, StreamInvariant, PTL

(* A stream that compress_R2004_section wrote is refused only for a last   *)
(* match that reaches the end of the section.                              *)
THEOREM RefusesAtEnd == Spec => []RefusedAtEndOnly
<1>1. StreamInv => RefusedAtEndOnly
  <2> SUFFICES ASSUME StreamInv, phase = "refused"
               PROVE  /\ pos # 0 /\ curr_offset = Size
                      /\ opcode.kind = "opcode"
                      /\ Len(dec) + MatchAt.len = Size
    BY DEF RefusedAtEndOnly
  <2>1. PICK gs : ReaderFits(gs)
    BY DEF StreamInv
  <2>2. /\ Whole(decomp, gs, chain, curr_offset) /\ (pos >= 4 \/ Len(gs) = 1)
        /\ decomp \in Seq(Values) /\ Scanned /\ gs \in Seq(Groups)
    BY <2>1 DEF ReaderFits, StreamInv, Whole, Written
  <2>3. PICK r \in 2 .. Len(gs) :
          StandsAt(gs, r) /\ gs[r].from + gs[r].len = Len(decomp)
    BY <2>1 DEF ReaderFits
  <2>4. PICK n \in Nat : n = Len(gs)
    BY <2>2
  <2>5. r \in 2 .. Len(gs) + 1 /\ r <= Len(gs) /\ r \in 1 .. Len(gs) /\ n # 1
        /\ r # 1
    BY <2>4
  <2>6. /\ gs[r] \in Groups /\ IsMatchGroup(decomp, gs[r]) /\ AtGroup(gs[r])
        /\ opcode.kind = "opcode" /\ MatchAt.len = gs[r].len
    BY <2>2, <2>3, <2>5, Standing
  <2>7. Len(dec) = gs[r].from
    BY <2>2, <2>6, CopiedRight DEF AtGroup
  <2>8. pos # 0
    BY <2>2, <2>4, <2>5 DEF Scanned
  <2>9. r = n
    <3> SUFFICES ASSUME r # n PROVE FALSE
      OBVIOUS
    <3>1. PICK q \in 1 .. Len(gs) : q = r + 1 /\ q # 1 /\ q - 1 = r
      BY <2>4, <2>5
    <3>2. /\ gs[q] \in Groups /\ IsMatchGroup(decomp, gs[q])
          /\ gs[q].from = FromOf(gs, r)
      BY <2>2, <3>1, GroupOf
    <3>3. FromOf(gs, r) = gs[r].from + gs[r].len + gs[r].lits
      BY <2>2, <2>5, GroupOf
    <3>4. PICK g, h : g = gs[r] /\ h = gs[q]
      OBVIOUS
    <3>5. /\ g.from \in Nat /\ g.len \in Nat /\ g.lits \in Nat
          /\ h.from \in Nat /\ h.len \in Nat /\ h.lits \in Nat
      BY <2>6, <3>2, <3>4 DEF Groups
    <3>6. h.len >= 3 /\ h.from + h.len + h.lits <= Len(decomp)
      BY <3>2, <3>4 DEF IsMatchGroup
    <3>7. g.from + g.len = Len(decomp) /\ h.from = g.from + g.len + g.lits
      BY <2>3, <3>2, <3>3, <3>4
    <3>8. PICK l \in Nat : l = Len(decomp)
      BY <2>2
    <3>9. h.from >= l /\ h.from + h.len + h.lits <= l /\ h.len >= 3
      BY ONLY l \in Nat, <3>5, <3>6, <3>7, <3>8
    <3> QED
      BY ONLY l \in Nat, <3>5, <3>9
  <2>10. curr_offset = Len(decomp)
    BY <2>2, <2>3, <2>4, <2>9 DEF Whole
  <2> QED
    BY <2>3, <2>6, <2>7, <2>8, <2>10 DEF Size
<1> QED
  BY <1>1, StreamInvariant, PTL

-----------------------------------------------------------------------------
(* The stored form of a section. *)

(* store_R2004_section writes as many bytes as stored_R2004_section_size   *)
(* says: an opcode, its length bytes, the section and the terminator.      *)
LEMMA StoredLength ==
  ASSUME decomp \in Seq(Values), Size > 3
  PROVE  Len(WriteLiterals(0, Size) \o <<Terminator>>) = StoredSize
<1>1. PICK n \in Nat, m \in Nat, l \in Nat :
        n = Size /\ m = n - 1 /\ l = LiteralField + 2
  BY FormFacts DEF Size
<1>2. n > 3 /\ n = Len(decomp) /\ n - (LiteralField + 3) = m - l
  BY <1>1, FormFacts DEF Size
<1>3. LengthWritten(WriteLength("literal", 0, m, l), "literal", 0, m, l)
  BY <1>1, <1>2, WriteLengthFacts DEF Forms
<1>4. Len(LiteralHead(n)) = (IF l < m THEN Zeros(m - l) + 2 ELSE 1)
  BY <1>1, <1>2, <1>3 DEF LengthWritten, LiteralHead
<1>5. PICK s : s = Literals(decomp, 0, n)
  OBVIOUS
<1>6. s \in Seq(Cells) /\ Len(s) = Len(LiteralHead(n)) + n
  <2>1. 0 \in Nat /\ 0 + n <= Len(decomp)
    BY <1>2
  <2> QED
    BY <1>5, <2>1, LiteralsFacts
<1>7. WriteLiterals(0, Size) = s
  BY <1>1, <1>2, <1>5, WrittenLiterals
<1>8. PICK t : t = <<Terminator>>
  OBVIOUS
<1>9. t \in Seq(Cells) /\ Len(t) = 1
  BY <1>8, OpCell DEF Terminator, Forms
<1>10. Len(s \o t) = Len(s) + 1
  BY <1>6, <1>9, Behind
<1>11. StoredSize = n + 2 + (IF l < m THEN Zeros(m - l) + 1 ELSE 0)
  <2>1. Size > LiteralField + 3 <=> l < m
    BY <1>1, FormFacts
  <2>2. Zeros(m - l) = (Size - (LiteralField + 3) - 1) \div LengthStep
    BY <1>1, <1>2 DEF Zeros
  <2> QED
    BY <1>1, <2>1, <2>2 DEF StoredSize
<1>12. CASE l < m
  <2>1. m - l \in Nat \ {0}
    BY <1>12
  <2>2. Zeros(m - l) \in Nat
    BY <2>1, Remainder
  <2> QED
    BY <1>4, <1>6, <1>7, <1>8, <1>10, <1>11, <1>12, <2>2
<1>13. CASE ~ (l < m)
  BY <1>4, <1>6, <1>7, <1>8, <1>10, <1>11, <1>13
<1> QED
  BY <1>12, <1>13

(* What is stored has the announced size.                                  *)
StoredInv == phase = "stored" => Len(chain) = StoredSize

(* Only Store leads to the phase "stored". *)
LEMMA StoredNext == StreamInv /\ StoredInv /\ [Next]_vars => StoredInv'
<1> SUFFICES ASSUME StreamInv, StoredInv, [Next]_vars PROVE StoredInv'
  OBVIOUS
<1>1. decomp' = decomp
  BY DEF Next, Compress, Store, StartScan, ScanOn, FindMatch, EndScan, Decompress,
         FirstLiterals, Turn, EndOfInput, Lost, CopyLiterals, NoLiterals,
         CopyMatch, CountedLiterals, LiteralRun, StopShort, vars
<1>2. StoredSize' = StoredSize
  BY <1>1 DEF StoredSize, Size
<1>3. CASE Store
  BY <1>2, <1>3, StoredLength DEF StreamInv, StoredInv, Store, Size
<1>4. CASE UNCHANGED vars
  BY <1>2, <1>4 DEF StoredInv, vars
<1>5. CASE Next /\ ~ Store
  <2>1. phase' # "stored"
    BY <1>5 DEF Next, Compress, StartScan, ScanOn, FindMatch, EndScan, Decompress,
                FirstLiterals, Turn, EndOfInput, Lost, CopyLiterals, NoLiterals,
                CopyMatch, CountedLiterals, LiteralRun, StopShort
  <2> QED
    BY <2>1 DEF StoredInv
<1> QED
  BY <1>3, <1>4, <1>5

(* The size that the section map has of itself is what it takes, so that   *)
(* the addresses behind it are right, for a section of any size.           *)
THEOREM AnnouncedSize == Spec => []StoredSizeIsExact
<1>1. Init => StoredInv
  BY DEF Init, StoredInv
<1>2. StoredInv => StoredSizeIsExact
  BY DEF StoredInv, StoredSizeIsExact
<1> QED
  BY <1>1, <1>2, StoredNext, StreamInvariant, PTL DEF Spec
===============================================================================

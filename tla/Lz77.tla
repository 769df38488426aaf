--------------------------------- MODULE Lz77 ---------------------------------
(***************************************************************************)
(* The LZ77 variant of the system sections of an R2004 file: how           *)
(* compress_R2004_section and store_R2004_section write a section, and how *)
(* decompress_R2004_section reads it back.                                 *)
(*                                                                         *)
(* The compressed stream is a sequence with one cell for each byte.  A     *)
(* cell is the opcode, length, offset or literal byte the writer meant;    *)
(* the reader is "lost" when it takes a cell for one of another kind.  The *)
(* numbers of the format (0x400, 0x4000, ...) are CONSTANTS, so that all   *)
(* encodings occur on short sections.                                      *)
(***************************************************************************)
EXTENDS Integers, Sequences, FiniteSetsExt

CONSTANTS
  Values,       (* the bytes of a section *)
  MinSize,      (* bounds on the size of a section *)
  MaxSize,
  SmallSize,    (* a section of at most this size is not searched: 0x18 *)
  MatchTail,    (* no match starts in the last bytes: 0x13 *)
  CompactLen,   (* the compact form takes a length below this: 0x0F *)
  CompactDist,  (* ... and a distance up to this: 0x400 *)
  MediumDist,   (* the largest distance of the medium form: 0x4000 *)
  HighDist,     (* what the high bit of the long form adds: 0x4000 *)
  LiteralField, (* the largest field of a literal opcode: 0x0F *)
  MediumField,  (* of a medium opcode: 0x1F *)
  LongField,    (* of a long opcode: 7 *)
  LengthStep    (* what a zero length byte stands for: 0xFF *)

ASSUME Lz77Constants ==
  /\ MinSize \in Nat /\ MaxSize \in Nat /\ MinSize > 3
  /\ SmallSize \in Nat /\ MatchTail \in Nat /\ 3 <= MatchTail /\ MatchTail <= SmallSize
  /\ CompactLen \in Nat /\ CompactDist \in Nat \ {0}
  /\ MediumDist \in Nat /\ CompactDist <= MediumDist
  /\ HighDist \in Nat \ {0}
  /\ LiteralField \in Nat \ {0} /\ MediumField \in Nat \ {0}
  /\ LongField \in Nat /\ LongField >= 2
  /\ LengthStep \in Nat \ {0}

VARIABLES
  decomp,       (* the section *)
  phase,        (* where the writer, then the reader, is *)
  pos,          (* the scan position of the writer *)
  curr_offset,  (* the start of its pending literals *)
  prev_match,   (* the match that is not written yet, of length 0 if none *)
  hash_table,   (* the positions entered in the hash table *)
  chain,        (* the compressed stream *)
  byte,         (* src->byte *)
  opcode,       (* opcode1 of the reader *)
  dec           (* what the reader has decompressed *)

writer == <<pos, curr_offset, prev_match, hash_table>>
reader == <<byte, opcode, dec>>
vars == <<decomp, phase, writer, chain, reader>>

-----------------------------------------------------------------------------
Size == Len(decomp)
MaxDist == MediumDist + 2 * HighDist - 1

Op(form, field, high, lits) ==
  [kind |-> "opcode", form |-> form, field |-> field, high |-> high,
   lits |-> lits]
LengthByte(n) == [kind |-> "length", value |-> n]
OffsetByte(d, lits) == [kind |-> "offset", value |-> d, lits |-> lits]
LiteralByte(v) == [kind |-> "literal", value |-> v]

(* 0x11: the long form with the length 3 and without the high bit.         *)
Terminator == Op("long", 1, 0, 0)
NoMatch == [dist |-> 0, len |-> 0]

(* write_long_compression_offset: zeros for LengthStep each, then the      *)
(* rest, which is never 0.                                                 *)
LongOffset(n) ==
  LET zeros == (n - 1) \div LengthStep
  IN  [b \in 1 .. zeros + 1 |->
         LengthByte(IF b <= zeros THEN 0 ELSE n - zeros * LengthStep)]

WriteLength(form, high, match, limit) ==
  IF limit < match
  THEN <<Op(form, 0, high, 0)>> \o LongOffset(match - limit)
  ELSE <<Op(form, match - 2, high, 0)>>

(* Up to three literals are counted in the match before them.              *)
WriteLiterals(from, lits) ==
  (IF lits > 3
   THEN WriteLength("literal", 0, lits - 1, LiteralField + 2)
   ELSE <<>>)
    \o [b \in 1 .. lits |-> LiteralByte(decomp[from + b])]

Trailing(lits) == IF lits < 4 THEN lits ELSE 0

(* The offset is two bytes in the medium and the long form.                *)
WriteMatch(m, lits) ==
  IF m.len = 0 THEN <<>>
  ELSE IF m.len < CompactLen /\ m.dist <= CompactDist
  THEN <<Op("compact", m.len, 0, Trailing(lits)), OffsetByte(m.dist - 1, 0)>>
  ELSE IF m.dist <= MediumDist
  THEN WriteLength("medium", 0, m.len, MediumField + 2)
         \o <<OffsetByte(m.dist - 1, Trailing(lits)), OffsetByte(0, 0)>>
  ELSE LET d == m.dist - MediumDist
       IN  WriteLength("long", d \div HighDist, m.len, LongField + 2)
             \o <<OffsetByte(d % HighDist, Trailing(lits)), OffsetByte(0, 0)>>

(* Mutant: the last byte of the length is counted from 0x100 on only.      *)
MutStoredSize ==
  Size + 2 + (IF Size > LiteralField + 3
              THEN (Size - (LiteralField + 3)) \div LengthStep + 1
              ELSE 0)

(* What stored_R2004_section_size announces, without writing it.           *)
StoredSize ==
  Size + 2 + (IF Size > LiteralField + 3
              THEN (Size - (LiteralField + 3) - 1) \div LengthStep + 1
              ELSE 0)

Init ==
  /\ decomp \in UNION {[1 .. n -> Values] : n \in MinSize .. MaxSize}
  /\ phase = "start"
  /\ pos = 0 /\ curr_offset = 0 /\ prev_match = NoMatch /\ hash_table = {}
  /\ chain = <<>> /\ byte = 0 /\ opcode = Terminator /\ dec = <<>>

-----------------------------------------------------------------------------
(* The writer.  A system section that is stored, a small one, and one for  *)
(* which there is no hash table, is one run of literals.                   *)
Store ==
  /\ phase = "start"
  /\ chain' = WriteLiterals(0, Size) \o <<Terminator>>
  /\ phase' = "stored"
  /\ UNCHANGED <<decomp, writer, reader>>

StartScan ==
  /\ phase = "start" /\ Size > SmallSize
  /\ pos' = 4
  /\ phase' = "scan"
  /\ UNCHANGED <<decomp, curr_offset, prev_match, hash_table, chain, reader>>

(* The bytes from pos on that repeat those from prev on.                   *)
MatchLen(prev) ==
  Max({n \in 0 .. Size - pos :
         \A b \in 1 .. n : decomp[prev + b] = decomp[pos + b]})

(* A far candidate must agree in the fourth byte too, in the first slot or *)
(* in the second.                                                          *)
FarAgrees(prev) == decomp[prev + 4] = decomp[pos + 4]

(* Mutant: a far candidate is not looked at before its match is counted.   *)
MutCandidatesFar == {prev \in hash_table : pos - prev <= MaxDist}

(* Which of the positions a slot holds depends on the hash: any of them.   *)
Candidates ==
  {prev \in hash_table :
     /\ pos - prev <= MaxDist
     /\ pos - prev > CompactDist => FarAgrees(prev)}

(* Mutant: the search goes on behind the last byte that can be compared.   *)
MutScanOn ==
  /\ phase = "scan" /\ pos < Size - MatchTail
  /\ pos' = pos + 1
  /\ hash_table' = hash_table \cup {pos + 1}
  /\ UNCHANGED <<decomp, phase, curr_offset, prev_match, chain, reader>>

ScanOn ==
  /\ phase = "scan" /\ pos < Size - MatchTail
  /\ pos' = pos + 1
  /\ hash_table' = hash_table \cup {pos}
  /\ UNCHANGED <<decomp, phase, curr_offset, prev_match, chain, reader>>

FindMatch ==
  /\ phase = "scan" /\ pos < Size - MatchTail
  /\ \E prev \in Candidates :
       /\ MatchLen(prev) >= 3
       /\ prev_match' = [dist |-> pos - prev, len |-> MatchLen(prev)]
       /\ pos' = pos + MatchLen(prev)
  /\ chain' = chain \o WriteMatch(prev_match, pos - curr_offset)
                    \o WriteLiterals(curr_offset, pos - curr_offset)
  /\ curr_offset' = pos'
  /\ hash_table' = hash_table \cup {pos}
  /\ UNCHANGED <<decomp, phase, reader>>

EndScan ==
  /\ phase = "scan" /\ pos >= Size - MatchTail
  /\ chain' = chain \o WriteMatch(prev_match, Size - curr_offset)
                    \o WriteLiterals(curr_offset, Size - curr_offset)
                    \o <<Terminator>>
  /\ phase' = "compressed"
  /\ UNCHANGED <<decomp, writer, reader>>

-----------------------------------------------------------------------------
(* The reader.  A length that does not fit its opcode goes on in length    *)
(* bytes: it returns the length and where it ends.                         *)
LastLengthByte(from) ==
  Min({b \in from + 1 .. Len(chain) :
         \/ chain[b] # LengthByte(0)
         \/ b = Len(chain)})

ReadLength(op, from, limit) ==
  IF op.field # 0 THEN [value |-> op.field, end |-> from, ok |-> TRUE]
  ELSE LET last == LastLengthByte(from)
       IN  [value |-> (last - from - 1) * LengthStep + limit
                        + (IF chain[last].kind = "length"
                           THEN chain[last].value ELSE 0),
            end |-> last,
            ok |-> chain[last].kind = "length"]

AllLiteral(from, lits) ==
  /\ from + lits < Len(chain)
  /\ \A b \in from + 1 .. from + lits : chain[b].kind = "literal"
  /\ chain[from + lits + 1].kind = "opcode"

Lost ==
  /\ phase' = "lost"
  /\ UNCHANGED <<decomp, writer, chain, reader>>

(* copy_bytes: the literals, and the opcode behind them.                   *)
CopyLiterals(out, from, lits) ==
  IF AllLiteral(from, lits)
  THEN /\ dec' = out \o [b \in 1 .. lits |-> chain[from + b].value]
       /\ opcode' = chain[from + lits + 1]
       /\ byte' = from + lits + 1
       /\ phase' = "decode"
       /\ UNCHANGED <<decomp, writer, chain>>
  ELSE Lost

NoLiterals(out, op, end) ==
  /\ phase' = "decode"
  /\ dec' = out /\ byte' = end /\ opcode' = op
  /\ UNCHANGED <<decomp, writer, chain>>

FirstLiterals ==
  /\ phase \in {"stored", "compressed"}
  /\ LET op == chain[1]
         length == ReadLength(op, 1, LiteralField)
     IN  IF op.kind # "opcode" THEN Lost
         ELSE IF op.form # "literal" THEN NoLiterals(<<>>, op, 1)
         ELSE IF ~ length.ok THEN Lost
         ELSE CopyLiterals(<<>>, length.end, length.value + 3)

MoreInput == byte < Len(chain) /\ Len(dec) < Size /\ opcode # Terminator

(* The length and the distance of the match at the opcode, the literals    *)
(* that follow it, and where the offset ends.                              *)
MatchAt ==
  IF opcode.form = "compact"
  THEN [len |-> opcode.field, dist |-> chain[byte + 1].value + 1,
        lits |-> opcode.lits, end |-> byte + 1, ok |-> TRUE]
  ELSE LET far == opcode.form = "long"
           length == ReadLength(opcode, byte,
                                IF far THEN LongField ELSE MediumField)
           offset == chain[length.end + 1]
       IN  [len |-> length.value + 2,
            dist |-> offset.value + (IF far
                                     THEN MediumDist + opcode.high * HighDist
                                     ELSE 1),
            lits |-> offset.lits, end |-> length.end + 2, ok |-> length.ok]

OffsetFollows ==
  /\ opcode.kind = "opcode" /\ opcode.form # "literal"
  /\ LET length == ReadLength(opcode, byte, 0)
     IN  \/ /\ opcode.form = "compact"
            /\ chain[byte + 1].kind = "offset"
         \/ /\ opcode.form # "compact"
            /\ length.ok /\ length.end + 2 <= Len(chain)
            /\ chain[length.end + 1].kind = "offset"
            /\ chain[length.end + 2].kind = "offset"

(* Mutant: memmove in place of the copy byte by byte, which reads the zero *)
(* bytes of the new buffer when the distance is below the length.          *)
MutCopiedMoved(dist, len) ==
  [b \in 1 .. len |->
     IF b <= dist THEN dec[Len(dec) - dist + b]
     ELSE CHOOSE v \in Values : TRUE]

(* The copy goes byte by byte, so it may read what it has just written.    *)
Copied(dist, len) ==
  [b \in 1 .. len |-> dec[Len(dec) - dist + 1 + ((b - 1) % dist)]]

(* Mutant: the byte behind the section is counted in.                      *)
MutBehindSection(m) == Len(dec) + m.len + 1 >= Size \/ Len(dec) < m.dist

(* A match that reaches the end of the section is refused as well.         *)
Refused(m) == Len(dec) + m.len >= Size \/ Len(dec) < m.dist

StopShort(out, op, end) ==
  /\ dec' = out /\ byte' = end /\ opcode' = op
  /\ phase' = "done"
  /\ UNCHANGED <<decomp, writer, chain>>

(* The literals after a match that has been copied to out: those counted   *)
(* in the match, or a run of their own, or none.  A run that does not fit  *)
(* ends the loop without an error.                                         *)
Fits(out, lits) == Len(out) + lits <= Size

CountedLiterals(out, m) ==
  IF Fits(out, m.lits) THEN CopyLiterals(out, m.end, m.lits)
  ELSE StopShort(out, opcode, m.end)

LiteralRun(out, op, end) ==
  LET length == ReadLength(op, end, LiteralField)
  IN  IF ~ length.ok THEN Lost
      ELSE IF Fits(out, length.value + 3)
      THEN CopyLiterals(out, length.end, length.value + 3)
      ELSE StopShort(out, op, length.end)

CopyMatch(m) ==
  LET out == dec \o Copied(m.dist, m.len)
      next == chain[m.end + 1]
  IN  IF m.lits > 0 THEN CountedLiterals(out, m)
      ELSE IF next.kind # "opcode" THEN Lost
      ELSE IF next.form = "literal" THEN LiteralRun(out, next, m.end + 1)
      ELSE NoLiterals(out, next, m.end + 1)

(* One turn of the loop over the opcodes.                                  *)
Turn ==
  /\ phase = "decode" /\ MoreInput
  /\ IF ~ OffsetFollows THEN Lost
     ELSE IF Refused(MatchAt)
     THEN /\ phase' = "refused"
          /\ UNCHANGED <<decomp, writer, chain, reader>>
     ELSE CopyMatch(MatchAt)

EndOfInput ==
  /\ phase = "decode" /\ ~ MoreInput
  /\ phase' = "done"
  /\ UNCHANGED <<decomp, writer, chain, reader>>

-----------------------------------------------------------------------------
Compress == Store \/ StartScan \/ ScanOn \/ FindMatch \/ EndScan
Decompress == FirstLiterals \/ Turn \/ EndOfInput

Next == Compress \/ Decompress

Spec == Init /\ [][Next]_vars
-----------------------------------------------------------------------------
Phases ==
  {"start", "scan", "stored", "compressed", "decode", "done", "refused", "lost"}

(* The writer stays inside the section and behind its pending literals,    *)
(* the table holds positions that were scanned (compress_R2004_section),   *)
(* and the reader inside the stream (decompress_R2004_section).            *)
TypeOK ==
  /\ phase \in Phases
  /\ pos \in 0 .. Size /\ curr_offset \in 0 .. pos
  /\ prev_match \in [dist : 0 .. MaxDist, len : 0 .. Size]
  /\ \A prev \in hash_table : prev < pos /\ prev >= 4
  /\ byte \in 0 .. Len(chain)
  /\ dec \in Seq(Values) /\ Len(dec) <= Size

(* What was compressed is decompressed to the same bytes, whatever matches *)
(* the hash table proposes: matches that overlap themselves, runs counted  *)
(* in the match before them and lengths over several bytes included.       *)
RoundTrip == phase = "done" => dec = decomp

(* The reader takes every byte for what the writer meant, and meets the    *)
(* terminator at the end only: a long match of length 3 would be written   *)
(* as 0x11, which compress_find_match avoids by the test of the fourth     *)
(* byte of a far candidate.                                                *)
ReaderInStep ==
  /\ phase # "lost"
  /\ phase = "decode" /\ opcode = Terminator => byte = Len(chain)

(* The reader refuses a compressed section only because a match reaches    *)
(* the end of the section, and never one that was stored.                  *)
RefusedAtEndOnly ==
  phase = "refused" =>
    /\ pos # 0
    /\ curr_offset = Size
    /\ opcode.kind = "opcode" /\ Len(dec) + MatchAt.len = Size

(* The size of a stored system section that stored_R2004_section_size      *)
(* announces, and that becomes the size of the section map in the map      *)
(* itself, is the size of what is written.                                 *)
StoredSizeIsExact == phase = "stored" => Len(chain) = StoredSize
===============================================================================

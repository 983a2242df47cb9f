------------------------------ MODULE Checksum ------------------------------
(***************************************************************************)
(* src/src/common/checksum.cpp: the CRC-32 of a stream, read buffer by     *)
(* buffer and computed with a table.                                       *)
(*                                                                         *)
(* A word is the set of its bits that are one, 0 the least significant.    *)
(* A byte is such a set within 0..7.                                       *)
(*                                                                         *)
(* Beside the code's register run two others: one that takes the message   *)
(* bit by bit, which is what CRC-32 is by definition, and the code's own   *)
(* on another content of the same size, because a file is uploaded only if *)
(* its size or its checksum differs from the server's.                     *)
(***************************************************************************)
EXTENDS Naturals, Sequences

CONSTANTS Width,        \* the bits of a std::uint32_t
          kPolynomial,
          BufferSize,   \* buffer.size() of crc32_stream
          Pairs         \* pairs of contents of the same size

Bits == 0..(Width - 1)
Byte == 0..7

ASSUME WidthAssumption == Width \in Nat /\ Width >= 8
ASSUME PolynomialAssumption == kPolynomial \subseteq Bits /\ Width - 1 \in kPolynomial
ASSUME BufferAssumption == BufferSize \in Nat \ {0}
ASSUME PairsAssumption ==
    \A pair \in Pairs : /\ pair[1] \in Seq(SUBSET Byte) /\ pair[2] \in Seq(SUBSET Byte)
                        /\ Len(pair[1]) = Len(pair[2])

Xor(a, b) == (a \ b) \cup (b \ a)
Shift(word, n) == {i \in Bits : i + n \in word}

-----------------------------------------------------------------------------
(* The table.                                                              *)

(* Slip: the bit is tested after the shift.                                *)
OneBit_shifted_first(word) ==
    IF 1 \in word THEN Xor(Shift(word, 1), kPolynomial) ELSE Shift(word, 1)

(* The body of make_crc_table's inner loop, and the loop.                  *)
OneBit(word) ==
    IF 0 \in word THEN Xor(Shift(word, 1), kPolynomial) ELSE Shift(word, 1)
TwoBits(word) == OneBit(OneBit(word))
FourBits(word) == TwoBits(TwoBits(word))
EightBits(word) == FourBits(FourBits(word))

crc_table == [low \in SUBSET Byte |-> EightBits(low)]

(* Slip: the mask is 0x7f.                                                 *)
TableStep_mask(crc, value) ==
    Xor(Shift(crc, 8), crc_table[Xor(crc, value) \cap (Byte \ {7})])

(* crc = (crc >> 8) ^ table[(crc ^ value) & 0xff].                         *)
TableStep(crc, value) ==
    Xor(Shift(crc, 8), crc_table[Xor(crc, value) \cap Byte])

-----------------------------------------------------------------------------
(* The definition of CRC-32: the register is shifted once for every bit of *)
(* the message, and the polynomial subtracted when the two bits differ.    *)
Feed(register, value, bit) ==
    LET shifted == Shift(register, 1)
    IN IF 0 \in register <=> bit \in value THEN shifted ELSE Xor(shifted, kPolynomial)

FeedByte(register, value) ==
    LET r1 == Feed(register, value, 0)
        r2 == Feed(r1, value, 1)
        r3 == Feed(r2, value, 2)
        r4 == Feed(r3, value, 3)
        r5 == Feed(r4, value, 4)
        r6 == Feed(r5, value, 5)
        r7 == Feed(r6, value, 6)
    IN Feed(r7, value, 7)

-----------------------------------------------------------------------------
VARIABLES
    content, twin,   \* what the stream holds, and the other content
    good,            \* input.good()
    broken,          \* history: a read has failed for another reason than the end
    filled,          \* how much of the stream has been read into the buffer
    used,            \* how much of it has been worked into crc
    crc,             \* the code's register
    twin_crc,        \* the code's register on the other content
    register         \* the register of the definition

vars == <<content, twin, good, broken, filled, used, crc, twin_crc, register>>

Init ==
    /\ \E pair \in Pairs : content = pair[1] /\ twin = pair[2]
    /\ good = TRUE /\ broken = FALSE /\ filled = 0 /\ used = 0
    /\ crc = Bits /\ twin_crc = Bits /\ register = Bits

(* Slip: a short read is thrown away.                                      *)
Fill_whole_buffers ==
    /\ good /\ used = filled
    /\ good' = (filled + BufferSize <= Len(content))
    /\ filled' = IF good' THEN filled + BufferSize ELSE filled
    /\ UNCHANGED <<content, twin, broken, used, crc, twin_crc, register>>

(* input.read() of a whole buffer: fewer bytes mean the end of the stream. *)
Fill ==
    /\ good /\ used = filled
    /\ \/ /\ filled + BufferSize <= Len(content)
          /\ filled' = filled + BufferSize /\ good' = TRUE
       \/ /\ filled + BufferSize > Len(content)
          /\ filled' = Len(content) /\ good' = FALSE
    /\ UNCHANGED <<content, twin, broken, used, crc, twin_crc, register>>

(* A read error ends the loop as the end of the stream does, after the     *)
(* bytes read so far.                                                      *)
FillFails ==
    /\ good /\ used = filled
    /\ good' = FALSE /\ broken' = TRUE
    /\ \E n \in filled..Len(content) : n < filled + BufferSize /\ filled' = n
    /\ UNCHANGED <<content, twin, used, crc, twin_crc, register>>

(* The inner loop.                                                         *)
Step ==
    /\ used < filled
    /\ used' = used + 1
    /\ crc' = TableStep(crc, content[used'])
    /\ twin_crc' = TableStep(twin_crc, twin[used'])
    /\ register' = FeedByte(register, content[used'])
    /\ UNCHANGED <<content, twin, good, broken, filled>>

Next == Fill \/ FillFails \/ Step

Spec == Init /\ [][Next]_vars

(* The call returns, with crc ^ 0xffffffff.                                *)
Returned == ~good /\ used = filled

-----------------------------------------------------------------------------
TypeOK ==
    /\ \E pair \in Pairs : content = pair[1] /\ twin = pair[2]
    /\ good \in BOOLEAN /\ broken \in BOOLEAN
    /\ filled \in 0..Len(content) /\ used \in 0..filled
    /\ crc \subseteq Bits /\ twin_crc \subseteq Bits /\ register \subseteq Bits

(* The table and the loop compute the CRC of the definition.               *)
TableIsDefinition == crc = register

(* A stream that can be read is read to its end, whether its size is a     *)
(* multiple of the buffer's or not, and an empty one as well.              *)
WholeStream == Returned /\ ~broken => used = Len(content)

(* compute_upload_plan leaves out a file of the same size and checksum: a  *)
(* content changed in one byte is never taken for the old one, as long as  *)
(* both are read as far as the change.                                     *)
ChangedAt(k) == twin = [content EXCEPT ![k] = twin[k]] /\ twin[k] # content[k]
ChangeNoticed == \A k \in 1..used : ChangedAt(k) => crc # twin_crc
=============================================================================

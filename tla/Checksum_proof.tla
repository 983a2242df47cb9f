--------------------------- MODULE Checksum_proof ---------------------------
(***************************************************************************)
(* The table computes CRC-32, for every width and polynomial: one step of  *)
(* OneBit is linear (OneBitLinear), so eight steps of a word are those of  *)
(* its low byte, which the table holds, and those of the rest, which are   *)
(* shifts (TableIsEight); and to exclude-or a byte first comes to the same *)
(* as to feed it bit by bit (FeedIsEight).  A polynomial with the highest  *)
(* bit makes OneBit injective, so that two registers that differ once      *)
(* differ for as long as they are fed the same bytes.                      *)
(***************************************************************************)
EXTENDS Checksum, TLAPS

Words == SUBSET Bits
Values == SUBSET Byte

-----------------------------------------------------------------------------
(* One step.                                                               *)

LEMMA BitsFacts == 0 \in Bits /\ Byte \subseteq Bits /\ Bits \subseteq Nat
BY WidthAssumption DEF Bits, Byte

LEMMA XorWord == ASSUME NEW a \in Words, NEW b \in Words PROVE Xor(a, b) \in Words
BY DEF Xor, Words

LEMMA ShiftWord == ASSUME NEW word, NEW n PROVE Shift(word, n) \in Words
BY DEF Shift, Words

LEMMA OneBitWord == ASSUME NEW word PROVE OneBit(word) \in Words
BY ShiftWord, XorWord, PolynomialAssumption DEF OneBit, Words

(* What one step makes of each bit.                                        *)
LEMMA OneBitMember ==
    ASSUME NEW word \in Words, NEW i \in Bits
    PROVE  i \in OneBit(word) <=>
              \/ i + 1 \in word /\ ~(0 \in word /\ i \in kPolynomial)
              \/ i + 1 \notin word /\ 0 \in word /\ i \in kPolynomial
<1>1. i \in Shift(word, 1) <=> i + 1 \in word
  BY DEF Shift
<1>2. CASE 0 \in word
  <2>1. OneBit(word) = Xor(Shift(word, 1), kPolynomial)
    BY <1>2 DEF OneBit
  <2> QED
    BY <1>1, <1>2, <2>1 DEF Xor
<1>3. CASE 0 \notin word
  BY <1>1, <1>3 DEF OneBit
<1> QED
  BY <1>2, <1>3

LEMMA OneBitLinear ==
    ASSUME NEW a \in Words, NEW b \in Words
    PROVE  OneBit(Xor(a, b)) = Xor(OneBit(a), OneBit(b))
<1>1. ASSUME NEW i \in Bits
      PROVE  i \in OneBit(Xor(a, b)) <=> i \in Xor(OneBit(a), OneBit(b))
  <2>1. i \in OneBit(Xor(a, b)) <=>
            \/ i + 1 \in Xor(a, b) /\ ~(0 \in Xor(a, b) /\ i \in kPolynomial)
            \/ i + 1 \notin Xor(a, b) /\ 0 \in Xor(a, b) /\ i \in kPolynomial
    BY OneBitMember, XorWord
  <2>2. /\ 0 \in Xor(a, b) <=> (0 \in a /\ 0 \notin b) \/ (0 \in b /\ 0 \notin a)
        /\ i + 1 \in Xor(a, b) <=>
              (i + 1 \in a /\ i + 1 \notin b) \/ (i + 1 \in b /\ i + 1 \notin a)
    BY DEF Xor
  <2>3. i \in Xor(OneBit(a), OneBit(b)) <=>
            \/ i \in OneBit(a) /\ i \notin OneBit(b)
            \/ i \in OneBit(b) /\ i \notin OneBit(a)
    BY DEF Xor
  <2>4. i \in OneBit(a) <=>
              \/ i + 1 \in a /\ ~(0 \in a /\ i \in kPolynomial)
              \/ i + 1 \notin a /\ 0 \in a /\ i \in kPolynomial
    BY OneBitMember
  <2>5. i \in OneBit(b) <=>
              \/ i + 1 \in b /\ ~(0 \in b /\ i \in kPolynomial)
              \/ i + 1 \notin b /\ 0 \in b /\ i \in kPolynomial
    BY OneBitMember
  <2> QED
    BY <2>1, <2>2, <2>3, <2>4, <2>5, Zenon
<1>2. OneBit(Xor(a, b)) \in Words /\ Xor(OneBit(a), OneBit(b)) \in Words
  BY OneBitWord, XorWord
<1> QED
  BY <1>1, <1>2 DEF Words

(* The highest bit of the result tells whether the lowest was set.         *)
LEMMA OneBitInjective ==
    ASSUME NEW a \in Words, NEW b \in Words, OneBit(a) = OneBit(b)
    PROVE  a = b
<1>1. Width - 1 \in Bits /\ Width - 1 \in kPolynomial
  BY WidthAssumption, PolynomialAssumption DEF Bits
<1>2. (Width - 1) + 1 \notin a /\ (Width - 1) + 1 \notin b
  BY WidthAssumption DEF Words, Bits
<1>3. 0 \in a <=> 0 \in b
  <2>1. Width - 1 \in OneBit(a) <=> 0 \in a
    BY <1>1, <1>2, OneBitMember
  <2>2. Width - 1 \in OneBit(b) <=> 0 \in b
    BY <1>1, <1>2, OneBitMember
  <2> QED
    BY <2>1, <2>2
<1>4. ASSUME NEW i \in Bits PROVE i + 1 \in a <=> i + 1 \in b
  <2>1. i \in OneBit(a) <=>
              \/ i + 1 \in a /\ ~(0 \in a /\ i \in kPolynomial)
              \/ i + 1 \notin a /\ 0 \in a /\ i \in kPolynomial
    BY OneBitMember
  <2>2. i \in OneBit(b) <=>
              \/ i + 1 \in b /\ ~(0 \in b /\ i \in kPolynomial)
              \/ i + 1 \notin b /\ 0 \in b /\ i \in kPolynomial
    BY OneBitMember
  <2> QED
    BY <1>3, <2>1, <2>2
<1>5. ASSUME NEW k \in Bits PROVE k \in a <=> k \in b
  <2>1. CASE k = 0
    BY <2>1, <1>3
  <2>2. CASE k # 0
    <3>1. k - 1 \in Bits /\ (k - 1) + 1 = k
      BY <2>2, WidthAssumption DEF Bits
    <3> QED
      BY <3>1, <1>4
  <2> QED
    BY <2>1, <2>2
<1> QED
  BY <1>5 DEF Words

-----------------------------------------------------------------------------
(* Eight steps.                                                            *)

LEMMA EightWord == ASSUME NEW word PROVE EightBits(word) \in Words
BY OneBitWord DEF EightBits, FourBits, TwoBits

LEMMA EightLinear ==
    ASSUME NEW a \in Words, NEW b \in Words
    PROVE  EightBits(Xor(a, b)) = Xor(EightBits(a), EightBits(b))
<1>1. ASSUME NEW c \in Words, NEW d \in Words
      PROVE  TwoBits(Xor(c, d)) = Xor(TwoBits(c), TwoBits(d))
  BY OneBitLinear, OneBitWord DEF TwoBits
<1>2. ASSUME NEW c \in Words PROVE TwoBits(c) \in Words
  BY OneBitWord DEF TwoBits
<1>3. ASSUME NEW c \in Words, NEW d \in Words
      PROVE  FourBits(Xor(c, d)) = Xor(FourBits(c), FourBits(d))
  BY <1>1, <1>2 DEF FourBits
<1>4. ASSUME NEW c \in Words PROVE FourBits(c) \in Words
  BY <1>2 DEF FourBits
<1> QED
  BY <1>3, <1>4 DEF EightBits

LEMMA EightInjective ==
    ASSUME NEW a \in Words, NEW b \in Words, EightBits(a) = EightBits(b)
    PROVE  a = b
<1>1. ASSUME NEW c \in Words, NEW d \in Words, TwoBits(c) = TwoBits(d) PROVE c = d
  BY <1>1, OneBitInjective, OneBitWord DEF TwoBits
<1>2. ASSUME NEW c \in Words PROVE TwoBits(c) \in Words
  BY OneBitWord DEF TwoBits
<1>3. ASSUME NEW c \in Words, NEW d \in Words, FourBits(c) = FourBits(d) PROVE c = d
  BY <1>1, <1>2, <1>3 DEF FourBits
<1>4. ASSUME NEW c \in Words PROVE FourBits(c) \in Words
  BY <1>2 DEF FourBits
<1> QED
  BY <1>3, <1>4 DEF EightBits

LEMMA EightIsNested ==
    ASSUME NEW word
    PROVE  EightBits(word) =
             OneBit(OneBit(OneBit(OneBit(OneBit(OneBit(OneBit(OneBit(word))))))))
BY DEF EightBits, FourBits, TwoBits

(* Without its low byte a word is only shifted.                            *)
LEMMA HighStep ==
    ASSUME NEW word \in Words, NEW n \in 0..7, word \cap Byte = {}
    PROVE  OneBit(Shift(word, n)) = Shift(word, n + 1)
<1>1. 0 \notin Shift(word, n)
  BY DEF Shift, Byte
<1>2. ASSUME NEW i \in Bits
      PROVE  i \in Shift(Shift(word, n), 1) <=> i \in Shift(word, n + 1)
  <2>1. i + (n + 1) = (i + 1) + n
    BY WidthAssumption DEF Bits
  <2>2. i + (n + 1) \in word => i + 1 \in Bits
    BY WidthAssumption DEF Bits, Words
  <2> QED
    BY <2>1, <2>2 DEF Shift
<1>3. Shift(Shift(word, n), 1) = Shift(word, n + 1)
  BY <1>2, ShiftWord DEF Words
<1> QED
  BY <1>1, <1>3 DEF OneBit

LEMMA ShiftNone == ASSUME NEW word \in Words PROVE Shift(word, 0) = word
<1>1. ASSUME NEW i \in Bits PROVE i + 0 = i
  BY WidthAssumption DEF Bits
<1> QED
  BY <1>1 DEF Shift, Words

LEMMA EightHigh ==
    ASSUME NEW word \in Words, word \cap Byte = {}
    PROVE  EightBits(word) = Shift(word, 8)
<1>0. OneBit(word) = Shift(word, 1)
  <2>1. OneBit(Shift(word, 0)) = Shift(word, 0 + 1)
    BY HighStep
  <2> QED
    BY <2>1, ShiftNone
<1>1. OneBit(Shift(word, 1)) = Shift(word, 2)
  BY HighStep
<1>2. OneBit(Shift(word, 2)) = Shift(word, 3)
  BY HighStep
<1>3. OneBit(Shift(word, 3)) = Shift(word, 4)
  BY HighStep
<1>4. OneBit(Shift(word, 4)) = Shift(word, 5)
  BY HighStep
<1>5. OneBit(Shift(word, 5)) = Shift(word, 6)
  BY HighStep
<1>6. OneBit(Shift(word, 6)) = Shift(word, 7)
  BY HighStep
<1>7. OneBit(Shift(word, 7)) = Shift(word, 8)
  BY HighStep
<1> QED
  BY <1>0, <1>1, <1>2, <1>3, <1>4, <1>5, <1>6, <1>7, EightIsNested, Zenon

(* A step of the table is eight steps of the register and the byte.        *)
LEMMA TableIsEight ==
    ASSUME NEW c \in Words, NEW value \in Values
    PROVE  TableStep(c, value) = EightBits(Xor(c, value))
<1> DEFINE word == Xor(c, value)
           low == word \cap Byte
           high == word \ Byte
<1>1. word \in Words /\ low \in Words /\ high \in Words /\ low \in Values
  BY BitsFacts DEF Words, Values, Xor
<1>2. word = Xor(high, low)
  BY DEF Xor
<1>3. EightBits(high) = Shift(high, 8)
  BY <1>1, EightHigh
<1>4. Shift(high, 8) = Shift(c, 8)
  <2>1. ASSUME NEW i \in Bits PROVE i + 8 \in high <=> i + 8 \in c
    <3>1. i + 8 \notin Byte
      BY WidthAssumption DEF Bits, Byte
    <3>2. i + 8 \notin value
      BY <3>1 DEF Values
    <3> QED
      BY <3>1, <3>2 DEF Xor
  <2> QED
    BY <2>1 DEF Shift
<1>5. crc_table[low] = EightBits(low)
  BY <1>1 DEF crc_table, Values
<1>6. TableStep(c, value) = Xor(Shift(c, 8), crc_table[low])
  BY DEF TableStep
<1>7. EightBits(Xor(high, low)) = Xor(EightBits(high), EightBits(low))
  BY <1>1, EightLinear
<1> HIDE DEF word, low, high
<1>8. TableStep(c, value) = EightBits(word)
  BY <1>2, <1>3, <1>4, <1>5, <1>6, <1>7
<1> QED
  BY <1>8 DEF word

-----------------------------------------------------------------------------
(* Bit by bit.                                                             *)

LEMMA FeedWord == ASSUME NEW r, NEW value, NEW n PROVE Feed(r, value, n) \in Words
BY ShiftWord, XorWord, PolynomialAssumption DEF Feed, Words

(* What is left of the byte moves down beside the register.                *)
LEMMA FeedStep ==
    ASSUME NEW r \in Words, NEW value \in Values, NEW n \in 0..7
    PROVE  OneBit(Xor(r, Shift(value, n))) = Xor(Feed(r, value, n), Shift(value, n + 1))
<1> DEFINE rest == Shift(value, n)
<1>1. rest \in Words /\ Xor(r, rest) \in Words
  BY ShiftWord, XorWord
<1>2. 0 \in rest <=> n \in value
  BY BitsFacts DEF Shift
<1>3. ASSUME NEW i \in Bits PROVE i + 1 \in rest <=> i \in Shift(value, n + 1)
  <2>1. i + (n + 1) = (i + 1) + n
    BY WidthAssumption DEF Bits
  <2>2. i + (n + 1) \in value => i + 1 \in Bits
    BY WidthAssumption DEF Bits, Byte, Values
  <2> QED
    BY <2>1, <2>2 DEF Shift
<1>4. ASSUME NEW i \in Bits PROVE i \in Shift(r, 1) <=> i + 1 \in r
  BY DEF Shift
<1> HIDE DEF rest
<1>5. ASSUME NEW i \in Bits
      PROVE  i \in OneBit(Xor(r, rest)) <=> i \in Xor(Feed(r, value, n), Shift(value, n + 1))
  <2>1. i \in OneBit(Xor(r, rest)) <=>
            \/ i + 1 \in Xor(r, rest) /\ ~(0 \in Xor(r, rest) /\ i \in kPolynomial)
            \/ i + 1 \notin Xor(r, rest) /\ 0 \in Xor(r, rest) /\ i \in kPolynomial
    BY <1>1, OneBitMember
  <2>2. i + 1 \in Xor(r, rest) <=>
            \/ i \in Shift(r, 1) /\ i \notin Shift(value, n + 1)
            \/ i \notin Shift(r, 1) /\ i \in Shift(value, n + 1)
    BY <1>3, <1>4 DEF Xor
  <2>3. 0 \in Xor(r, rest) <=> ~(0 \in r <=> n \in value)
    BY <1>2 DEF Xor
  <2>4. CASE 0 \in r <=> n \in value
    <3>1. Feed(r, value, n) = Shift(r, 1)
      BY <2>4 DEF Feed
    <3> QED
      BY <2>1, <2>2, <2>3, <2>4, <3>1 DEF Xor
  <2>5. CASE ~(0 \in r <=> n \in value)
    <3>1. Feed(r, value, n) = Xor(Shift(r, 1), kPolynomial)
      BY <2>5 DEF Feed
    <3>2. i \in Feed(r, value, n) <=>
            \/ i \in Shift(r, 1) /\ i \notin kPolynomial
            \/ i \notin Shift(r, 1) /\ i \in kPolynomial
      BY <3>1 DEF Xor
    <3>3. i \in Xor(Feed(r, value, n), Shift(value, n + 1)) <=>
            \/ i \in Feed(r, value, n) /\ i \notin Shift(value, n + 1)
            \/ i \notin Feed(r, value, n) /\ i \in Shift(value, n + 1)
      BY DEF Xor
    <3> QED
      BY <2>1, <2>2, <2>3, <2>5, <3>2, <3>3
  <2> QED
    BY <2>4, <2>5
<1>6. /\ OneBit(Xor(r, rest)) \in Words
      /\ Xor(Feed(r, value, n), Shift(value, n + 1)) \in Words
  BY OneBitWord, FeedWord, ShiftWord, XorWord
<1>7. OneBit(Xor(r, rest)) = Xor(Feed(r, value, n), Shift(value, n + 1))
  BY <1>5, <1>6 DEF Words
<1> QED
  BY <1>7 DEF rest

LEMMA FeedIsEight ==
    ASSUME NEW r \in Words, NEW value \in Values
    PROVE  FeedByte(r, value) = EightBits(Xor(r, value))
<1> DEFINE r1 == Feed(r, value, 0)
           r2 == Feed(r1, value, 1)
           r3 == Feed(r2, value, 2)
           r4 == Feed(r3, value, 3)
           r5 == Feed(r4, value, 4)
           r6 == Feed(r5, value, 5)
           r7 == Feed(r6, value, 6)
           r8 == Feed(r7, value, 7)
<1>1. FeedByte(r, value) = r8
  BY DEF FeedByte
<1>2. /\ r1 \in Words /\ r2 \in Words /\ r3 \in Words /\ r4 \in Words
      /\ r5 \in Words /\ r6 \in Words /\ r7 \in Words /\ r8 \in Words
  BY FeedWord
<1>3. Shift(value, 0) = value /\ Shift(value, 8) = {}
  BY ShiftNone, BitsFacts, WidthAssumption DEF Shift, Byte, Values, Words, Bits
<1>4. OneBit(Xor(r, value)) = Xor(r1, Shift(value, 1))
  <2>1. OneBit(Xor(r, Shift(value, 0))) = Xor(r1, Shift(value, 0 + 1))
    BY FeedStep
  <2> QED
    BY <2>1, <1>3
<1> HIDE DEF r1
<1>5. OneBit(Xor(r1, Shift(value, 1))) = Xor(r2, Shift(value, 2))
  BY <1>2, FeedStep
<1> HIDE DEF r2
<1>6. OneBit(Xor(r2, Shift(value, 2))) = Xor(r3, Shift(value, 3))
  BY <1>2, FeedStep
<1> HIDE DEF r3
<1>7. OneBit(Xor(r3, Shift(value, 3))) = Xor(r4, Shift(value, 4))
  BY <1>2, FeedStep
<1> HIDE DEF r4
<1>8. OneBit(Xor(r4, Shift(value, 4))) = Xor(r5, Shift(value, 5))
  BY <1>2, FeedStep
<1> HIDE DEF r5
<1>9. OneBit(Xor(r5, Shift(value, 5))) = Xor(r6, Shift(value, 6))
  BY <1>2, FeedStep
<1> HIDE DEF r6
<1>10. OneBit(Xor(r6, Shift(value, 6))) = Xor(r7, Shift(value, 7))
  BY <1>2, FeedStep
<1> HIDE DEF r7
<1>11. OneBit(Xor(r7, Shift(value, 7))) = Xor(r8, Shift(value, 8))
  BY <1>2, FeedStep
<1> HIDE DEF r8
<1>12. Xor(r8, Shift(value, 8)) = r8
  BY <1>3 DEF Xor
<1>13. EightBits(Xor(r, value)) = r8
  BY <1>4, <1>5, <1>6, <1>7, <1>8, <1>9, <1>10, <1>11, <1>12, EightIsNested, Zenon
<1> QED
  BY <1>1, <1>13

(* The two lemmas together: the code's step is that of the definition.     *)
LEMMA StepIsDefinition ==
    ASSUME NEW c \in Words, NEW value \in Values
    PROVE  TableStep(c, value) = FeedByte(c, value)
BY TableIsEight, FeedIsEight

LEMMA StepWord ==
    ASSUME NEW c \in Words, NEW value \in Values
    PROVE  TableStep(c, value) \in Words
BY TableIsEight, EightWord

(* Different registers stay different under the same byte, and one         *)
(* register becomes two under different bytes.                             *)
LEMMA StepInjective ==
    ASSUME NEW c \in Words, NEW d \in Words, NEW value \in Values, NEW other \in Values,
           TableStep(c, value) = TableStep(d, other)
    PROVE  Xor(c, value) = Xor(d, other)
<1>1. Xor(c, value) \in Words /\ Xor(d, other) \in Words
  BY BitsFacts DEF Words, Values, Xor
<1> QED
  BY <1>1, TableIsEight, EightInjective

LEMMA XorCancels ==
    ASSUME NEW a, NEW b, NEW c
    PROVE  /\ Xor(a, c) = Xor(b, c) => a = b
           /\ Xor(c, a) = Xor(c, b) => a = b
BY DEF Xor
-----------------------------------------------------------------------------
(* The runs.                                                               *)

LEMMA ContentFacts ==
    ASSUME TypeOK
    PROVE  /\ content \in Seq(Values) /\ twin \in Seq(Values)
           /\ Len(twin) = Len(content)
           /\ \A k \in 1..Len(content) : content[k] \in Values /\ twin[k] \in Values
<1>1. PICK pair \in Pairs : content = pair[1] /\ twin = pair[2]
  BY DEF TypeOK
<1>2. /\ content \in Seq(Values) /\ twin \in Seq(Values)
      /\ Len(twin) = Len(content)
  BY <1>1, PairsAssumption DEF Values
<1> HIDE DEF Values
<1> QED
  BY <1>2

LEMMA InitTypeOK == ASSUME Init PROVE TypeOK
<1>1. PICK pair \in Pairs : content = pair[1] /\ twin = pair[2]
  BY DEF Init
<1>2. Len(content) \in Nat
  BY <1>1, PairsAssumption
<1>3. filled \in 0..Len(content) /\ used \in 0..filled
  BY <1>2 DEF Init
<1>4. /\ good \in BOOLEAN /\ broken \in BOOLEAN
      /\ crc \subseteq Bits /\ twin_crc \subseteq Bits /\ register \subseteq Bits
  BY DEF Init
<1> QED
  BY <1>1, <1>3, <1>4, Zenon DEF TypeOK

LEMMA NextTypeOK == ASSUME TypeOK, [Next]_vars PROVE TypeOK'
<1> USE DEF TypeOK
<1>0. Len(content) \in Nat
  BY ContentFacts
<1>1. CASE Fill
  <2>1. \/ filled + BufferSize <= Len(content) /\ filled' = filled + BufferSize
        \/ filled' = Len(content)
    BY <1>1, Zenon DEF Fill
  <2>2. filled' \in 0..Len(content) /\ used \in 0..filled'
    BY <1>0, <2>1, BufferAssumption
  <2>3. good' \in BOOLEAN
    BY <1>1, Zenon DEF Fill
  <2> QED
    BY <1>1, <2>2, <2>3 DEF Fill
<1>2. CASE FillFails
  <2>1. filled' \in 0..Len(content) /\ used \in 0..filled'
    BY <1>0, <1>2 DEF FillFails
  <2> QED
    BY <1>2, <2>1 DEF FillFails
<1>3. CASE Step
  <2>1. used' \in 1..Len(content) /\ used' \in 0..filled
    BY <1>0, <1>3 DEF Step
  <2>2. content[used'] \in Values /\ twin[used'] \in Values
    BY <2>1, ContentFacts
  <2>3. crc \in Words /\ twin_crc \in Words /\ register \in Words
    BY DEF Words
  <2>4. TableStep(crc, content[used']) \in Words
    BY <2>2, <2>3, StepWord
  <2>5. TableStep(twin_crc, twin[used']) \in Words
    BY <2>2, <2>3, StepWord
  <2>6. FeedByte(register, content[used']) \in Words
    BY <2>2, <2>3, StepWord, StepIsDefinition
  <2>7. crc' \in Words /\ twin_crc' \in Words /\ register' \in Words
    BY <1>3, <2>4, <2>5, <2>6 DEF Step
  <2> QED
    BY <1>3, <2>1, <2>7 DEF Step, Words
<1>4. CASE UNCHANGED vars
  BY <1>4 DEF vars
<1> QED
  BY <1>1, <1>2, <1>3, <1>4 DEF Next

(* The counters stay within the stream, and the registers are words.       *)
THEOREM TypeCorrect == Spec => []TypeOK
BY InitTypeOK, NextTypeOK, PTL DEF Spec

(* The table-driven loop computes what CRC-32 is by definition, for every  *)
(* width, polynomial and content (crc32_stream and make_crc_table).        *)
THEOREM TableIsDefinitionHolds == Spec => []TableIsDefinition
<1>1. Init => TableIsDefinition
  BY DEF Init, TableIsDefinition
<1>2. TypeOK /\ TableIsDefinition /\ [Next]_vars => TableIsDefinition'
  <2> SUFFICES ASSUME TypeOK, TableIsDefinition, [Next]_vars PROVE TableIsDefinition'
    OBVIOUS
  <2>1. CASE Step
    <3>1. used' \in 1..Len(content)
      BY <2>1, ContentFacts DEF Step, TypeOK
    <3>2. content[used'] \in Values /\ crc \in Words
      BY <3>1, ContentFacts DEF TypeOK, Words
    <3>3. TableStep(crc, content[used']) = FeedByte(crc, content[used'])
      BY <3>2, StepIsDefinition
    <3> QED
      BY <2>1, <3>3 DEF Step, TableIsDefinition
  <2>2. CASE Fill \/ FillFails \/ UNCHANGED vars
    BY <2>2 DEF Fill, FillFails, vars, TableIsDefinition
  <2> QED
    BY <2>1, <2>2 DEF Next
<1> QED
  BY <1>1, <1>2, TypeCorrect, PTL DEF Spec

(* A stream that can be read is read to its end (the loop's test of        *)
(* input.good() after a short or an exact last read).                      *)
THEOREM WholeStreamHolds == Spec => []WholeStream
<1> DEFINE AtEnd == ~good /\ ~broken => filled = Len(content)
<1>1. Init => AtEnd
  BY DEF Init
<1>2. TypeOK /\ AtEnd /\ [Next]_vars => AtEnd'
  BY DEF TypeOK, Next, Fill, FillFails, Step, vars
<1>3. AtEnd => WholeStream
  BY DEF WholeStream, Returned
<1> QED
  BY <1>1, <1>2, <1>3, TypeCorrect, PTL DEF Spec

(* The registers part at the changed byte and never meet again.            *)
Parted == \A k \in 1..Len(content) : ChangedAt(k) => (crc = twin_crc <=> used < k)

LEMMA StepParts ==
    ASSUME TypeOK, Parted, Step, NEW k \in 1..Len(content), ChangedAt(k)
    PROVE  crc' = twin_crc' <=> used' < k
<1> DEFINE x == content[used + 1]
           y == twin[used + 1]
<1>1. used \in Nat /\ k \in Nat /\ used' = used + 1 /\ used + 1 \in 1..Len(content)
  BY ContentFacts DEF Step, TypeOK
<1>2. x \in Values /\ y \in Values /\ crc \in Words /\ twin_crc \in Words
  BY <1>1, ContentFacts DEF TypeOK, Words
<1>3. crc' = TableStep(crc, x) /\ twin_crc' = TableStep(twin_crc, y)
  BY <1>1 DEF Step
<1>4. used + 1 # k => x = y
  BY <1>1, ContentFacts DEF ChangedAt
<1>5. used + 1 = k => x # y
  BY DEF ChangedAt
<1>6. crc = twin_crc <=> used < k
  BY DEF Parted
<1> HIDE DEF x, y
<1>7. CASE used + 1 < k
  BY <1>1, <1>3, <1>4, <1>6, <1>7
<1>8. CASE used + 1 = k
  <2>1. crc = twin_crc /\ x # y
    BY <1>1, <1>5, <1>6, <1>8
  <2>2. TableStep(crc, x) # TableStep(crc, y)
    BY <1>2, <2>1, StepInjective, XorCancels
  <2> QED
    BY <1>1, <1>3, <1>8, <2>1, <2>2
<1>9. CASE used + 1 > k
  <2>1. crc # twin_crc /\ x = y
    BY <1>1, <1>4, <1>6, <1>9
  <2>2. TableStep(crc, x) # TableStep(twin_crc, x)
    BY <1>2, <2>1, StepInjective, XorCancels
  <2> QED
    BY <1>1, <1>3, <1>9, <2>1, <2>2
<1> QED
  BY <1>1, <1>7, <1>8, <1>9

(* A content that differs from the server's in one byte is never taken for *)
(* it (compute_upload_plan's comparison of checksums): it needs the        *)
(* highest bit of the polynomial and nothing else of it.                   *)
THEOREM ChangeNoticedHolds == Spec => []ChangeNoticed
<1>1. Init => Parted
  <2> SUFFICES ASSUME Init PROVE Parted
    OBVIOUS
  <2>1. Len(content) \in Nat
    BY InitTypeOK, ContentFacts
  <2> QED
    BY <2>1 DEF Init, Parted
<1>2. TypeOK /\ Parted /\ [Next]_vars => Parted'
  <2> SUFFICES ASSUME TypeOK, Parted, [Next]_vars PROVE Parted'
    OBVIOUS
  <2>1. CASE Step
    <3>1. content' = content /\ twin' = twin
      BY <2>1 DEF Step
    <3>2. ASSUME NEW k \in 1..Len(content), ChangedAt(k)
          PROVE  crc' = twin_crc' <=> used' < k
      BY <2>1, <3>2, StepParts
    <3> QED
      BY <3>1, <3>2 DEF Parted, ChangedAt
  <2>2. CASE Fill \/ FillFails \/ UNCHANGED vars
    BY <2>2 DEF Fill, FillFails, vars, Parted, ChangedAt
  <2> QED
    BY <2>1, <2>2 DEF Next
<1>3. TypeOK /\ Parted => ChangeNoticed
  <2> SUFFICES ASSUME TypeOK, Parted, NEW k \in 1..used, ChangedAt(k)
               PROVE  crc # twin_crc
    BY DEF ChangeNoticed
  <2>1. k \in 1..Len(content) /\ ~(used < k)
    BY ContentFacts DEF TypeOK
  <2> QED
    BY <2>1 DEF Parted
<1> QED
  BY <1>1, <1>2, <1>3, TypeCorrect, PTL DEF Spec
=============================================================================

--------------------------- MODULE Protocol_proof ---------------------------
(***************************************************************************)
(* Proofs about Protocol, for every number of values of a byte and every   *)
(* set of well-formed messages.                                            *)
(***************************************************************************)
EXTENDS Protocol, SequenceTheorems, TLAPS

-----------------------------------------------------------------------------
(* Integers.                                                               *)

(* Dropping the low byte and pushing it again gives the same value.        *)
LEMMA PushLow ==
    ASSUME NEW v \in Nat
    PROVE  /\ Shift1(v) \in Nat /\ Low(v) \in Byte
           /\ v = Push(Shift1(v), Low(v))
<1>1. Base \in Nat /\ Base > 1
  BY BaseAssumption
<1>2. v % Base \in 0..(Base - 1)
  BY <1>1
<1>3. v \div Base \in Nat
  BY <1>1
<1>4. v = Base * (v \div Base) + (v % Base)
  BY <1>1
<1>5. v = (v \div Base) * Base + (v % Base)
  BY <1>1, <1>3, <1>4
<1> QED
  BY <1>2, <1>3, <1>5 DEF Shift1, Low, Byte, Push

LEMMA Shifts ==
    ASSUME NEW v \in Nat
    PROVE  Shift2(v) \in Nat /\ Shift4(v) \in Nat
<1>1. \A w \in Nat : Shift1(w) \in Nat
  BY PushLow
<1> QED
  BY <1>1 DEF Shift2, Shift4

(* A value that fits is its low byte.                                      *)
LEMMA FitsOne ==
    ASSUME NEW v \in Nat, Shift1(v) = 0
    PROVE  v = Push(0, Low(v))
BY PushLow

LEMMA Concatenation ==
    ASSUME NEW s \in Seq(Byte), NEW t \in Seq(Byte)
    PROVE  /\ s \o t \in Seq(Byte) /\ Len(s \o t) = Len(s) + Len(t)
           /\ \A i \in 1..Len(s) : (s \o t)[i] = s[i]
           /\ \A i \in 1..Len(t) : (s \o t)[Len(s) + i] = t[i]
<1>1. /\ s \o t \in Seq(Byte)
      /\ Len(s \o t) = Len(s) + Len(t)
      /\ \A i \in 1..(Len(s) + Len(t)) :
            (s \o t)[i] = IF i <= Len(s) THEN s[i] ELSE t[i - Len(s)]
  BY ConcatProperties
<1>2. Len(s) \in Nat /\ Len(t) \in Nat
  OBVIOUS
<1> QED
  BY <1>1, <1>2

LEMMA WriterTypes ==
    ASSUME NEW v \in Nat
    PROVE  /\ u8(v) \in Seq(Byte) /\ Len(u8(v)) = 1
           /\ u16(v) \in Seq(Byte) /\ Len(u16(v)) = 2
           /\ u32(v) \in Seq(Byte) /\ Len(u32(v)) = 4
           /\ u64(v) \in Seq(Byte) /\ Len(u64(v)) = 8
<1>1. \A w \in Nat : Low(w) \in Byte /\ Shift1(w) \in Nat
  BY PushLow
<1>2. \A w \in Nat : u16(w) \in Seq(Byte) /\ Len(u16(w)) = 2
  BY <1>1 DEF u16
<1>3. ASSUME NEW w \in Nat
      PROVE  u32(w) \in Seq(Byte) /\ Len(u32(w)) = 4
  <2>1. u16(Shift2(w)) \in Seq(Byte) /\ u16(w) \in Seq(Byte)
    BY <1>2, Shifts
  <2>2. Len(u16(Shift2(w))) = 2 /\ Len(u16(w)) = 2
    BY <1>2, Shifts
  <2>3. /\ u32(w) \in Seq(Byte)
        /\ Len(u32(w)) = Len(u16(Shift2(w))) + Len(u16(w))
    BY <2>1, Concatenation, Zenon DEF u32
  <2> QED
    BY <2>2, <2>3
<1>4. u64(v) \in Seq(Byte) /\ Len(u64(v)) = 8
  <2>1. u32(Shift4(v)) \in Seq(Byte) /\ u32(v) \in Seq(Byte)
    BY <1>3, Shifts
  <2>2. Len(u32(Shift4(v))) = 4 /\ Len(u32(v)) = 4
    BY <1>3, Shifts
  <2>3. /\ u64(v) \in Seq(Byte)
        /\ Len(u64(v)) = Len(u32(Shift4(v))) + Len(u32(v))
    BY <2>1, Concatenation, Zenon DEF u64
  <2> QED
    BY <2>2, <2>3
<1>5. u8(v) \in Seq(Byte) /\ Len(u8(v)) = 1
  BY <1>1 DEF u8
<1> QED
  BY <1>2, <1>3, <1>4, <1>5

(* The bytes of u32 and u64, one by one.                                   *)
LEMMA Bytes32 ==
    ASSUME NEW v \in Nat
    PROVE  /\ u32(v)[1] = Low(Shift1(Shift2(v))) /\ u32(v)[2] = Low(Shift2(v))
           /\ u32(v)[3] = Low(Shift1(v)) /\ u32(v)[4] = Low(v)
<1>1. /\ u16(Shift2(v)) \in Seq(Byte) /\ u16(v) \in Seq(Byte)
      /\ Len(u16(Shift2(v))) = 2 /\ Len(u16(v)) = 2
  BY WriterTypes, Shifts
<1>2. /\ u32(v)[1] = u16(Shift2(v))[1] /\ u32(v)[2] = u16(Shift2(v))[2]
      /\ u32(v)[3] = u16(v)[1] /\ u32(v)[4] = u16(v)[2]
  <2>1. /\ \A i \in 1..Len(u16(Shift2(v))) : u32(v)[i] = u16(Shift2(v))[i]
        /\ \A i \in 1..Len(u16(v)) : u32(v)[Len(u16(Shift2(v))) + i] = u16(v)[i]
    BY <1>1, Concatenation, Zenon DEF u32
  <2> QED
    BY <1>1, <2>1
<1> QED
  BY <1>2 DEF u16

LEMMA Bytes64 ==
    ASSUME NEW v \in Nat
    PROVE  \A i \in 1..4 : u64(v)[i] = u32(Shift4(v))[i] /\ u64(v)[4 + i] = u32(v)[i]
<1>1. /\ u32(Shift4(v)) \in Seq(Byte) /\ u32(v) \in Seq(Byte)
      /\ Len(u32(Shift4(v))) = 4 /\ Len(u32(v)) = 4
  BY WriterTypes, Shifts
<1>2. /\ \A i \in 1..Len(u32(Shift4(v))) : u64(v)[i] = u32(Shift4(v))[i]
      /\ \A i \in 1..Len(u32(v)) : u64(v)[Len(u32(Shift4(v))) + i] = u32(v)[i]
  BY <1>1, Concatenation, Zenon DEF u64
<1> QED
  BY <1>1, <1>2

(* What Writer writes at an offset is what Reader reads there.             *)
LEMMA Integer16 ==
    ASSUME NEW v \in Nat, NEW b, NEW o \in Nat,
           b[o + 1] = Low(Shift1(v)), b[o + 2] = Low(v), Shift2(v) = 0
    PROVE  Read2(b, o) = v
<1>1. Shift1(v) = Push(0, Low(Shift1(v)))
  BY PushLow, FitsOne DEF Shift2
<1>2. Read2(b, o) = Push(Shift1(v), Low(v))
  BY <1>1 DEF Read2, Read1
<1> QED
  BY <1>2, PushLow

LEMMA Integer32 ==
    ASSUME NEW v \in Nat, NEW b, NEW o \in Nat,
           \A i \in 1..4 : b[o + i] = u32(v)[i], Shift4(v) = 0
    PROVE  Read4(b, o) = v
<1>0. /\ Shift1(v) \in Nat /\ Shift2(v) \in Nat
      /\ Shift2(v) = Shift1(Shift1(v))
  BY PushLow, Shifts DEF Shift2
<1>1. /\ b[o + 1] = Low(Shift1(Shift2(v))) /\ b[o + 2] = Low(Shift2(v))
      /\ b[o + 3] = Low(Shift1(v)) /\ b[o + 4] = Low(v)
  BY Bytes32
<1>2. Read2(b, o) = Shift2(v)
  BY <1>0, <1>1, Integer16 DEF Shift4
<1>3. Push(Read2(b, o), b[o + 3]) = Shift1(v)
  BY <1>0, <1>1, <1>2, PushLow
<1>4. Push(Shift1(v), b[o + 4]) = v
  BY <1>1, PushLow
<1> QED
  BY <1>3, <1>4 DEF Read4

LEMMA Integer64 ==
    ASSUME NEW v \in Nat, NEW b, NEW o \in Nat,
           \A i \in 1..8 : b[o + i] = u64(v)[i], Shift8(v) = 0
    PROVE  Read8(b, o) = v
<1>0. /\ Shift1(v) \in Nat /\ Shift2(v) \in Nat /\ Shift4(v) \in Nat
      /\ Shift1(Shift2(v)) \in Nat
      /\ Shift2(v) = Shift1(Shift1(v))
      /\ Shift4(v) = Shift1(Shift1(Shift2(v)))
      /\ Shift4(Shift4(v)) = 0
  BY PushLow, Shifts DEF Shift2, Shift4, Shift8
<1>1. \A i \in 1..4 : b[o + i] = u32(Shift4(v))[i] /\ b[o + (4 + i)] = u32(v)[i]
  BY Bytes64
<1>2. Read4(b, o) = Shift4(v)
  BY <1>0, <1>1, Integer32
<1>3. /\ b[o + 5] = Low(Shift1(Shift2(v))) /\ b[o + 6] = Low(Shift2(v))
      /\ b[o + 7] = Low(Shift1(v)) /\ b[o + 8] = Low(v)
  <2>1. /\ b[o + 5] = u32(v)[1] /\ b[o + 6] = u32(v)[2]
        /\ b[o + 7] = u32(v)[3] /\ b[o + 8] = u32(v)[4]
    BY <1>1
  <2> QED
    BY <2>1, Bytes32
<1>4. Push(Shift4(v), b[o + 5]) = Shift1(Shift2(v))
  BY <1>0, <1>3, PushLow
<1>5. Push(Shift1(Shift2(v)), b[o + 6]) = Shift2(v)
  BY <1>0, <1>3, PushLow
<1>6. Push(Shift2(v), b[o + 7]) = Shift1(v)
  BY <1>0, <1>3, PushLow
<1>7. Push(Shift1(v), b[o + 8]) = v
  BY <1>0, <1>3, PushLow
<1> QED
  BY <1>2, <1>4, <1>5, <1>6, <1>7 DEF Read8

-----------------------------------------------------------------------------
(* Fields.                                                                 *)

KindSet == {"u8", "u16", "u32", "u64", "string", "bool"}

LEMMA EncodeTypes ==
    ASSUME NEW kind \in KindSet, NEW v, Representable(kind, v)
    PROVE  Encode(kind, v) \in Seq(Byte)
<1>1. CASE kind = "string"
  <2>1. v \in Seq(Byte) /\ u32(Len(v)) \in Seq(Byte)
    BY <1>1, WriterTypes DEF Representable
  <2>2. Encode(kind, v) = u32(Len(v)) \o v
    BY <1>1 DEF Encode
  <2> QED
    BY <2>1, <2>2, Concatenation, Zenon
<1>2. CASE kind = "bool"
  <2>1. Encode(kind, v) = u8(IF v THEN 1 ELSE 0)
    BY <1>2 DEF Encode
  <2> QED
    BY <2>1, WriterTypes
<1>3. CASE kind \in {"u8", "u16", "u32", "u64"}
  BY <1>3, WriterTypes DEF Representable, Encode
<1> QED
  BY <1>1, <1>2, <1>3 DEF KindSet

(* What Reader does for an integer of w bytes.                             *)
LEMMA FixedWidth ==
    ASSUME NEW kind \in KindSet \ {"string"}, NEW w \in Nat, Width[kind] = w
    PROVE  /\ CanRead(kind) <=> ~(offset + w > Len(bytes))
           /\ SizeRead(kind) = w
BY DEF CanRead, SizeRead, Missing, KindSet

(* A value of this kind can be taken back if and only if all of its bytes  *)
(* are there.                                                              *)
TakenBack(kind, v) ==
    /\ CanRead(kind) <=> offset + Len(Encode(kind, v)) <= Len(bytes)
    /\ CanRead(kind) => /\ SizeRead(kind) = Len(Encode(kind, v))
                        /\ ValueRead(kind) = v

LEMMA ReadsBack ==
    ASSUME NEW kind \in KindSet, NEW v, NEW w \in Nat,
           bytes \in Seq(Byte), offset \in 0..Len(bytes),
           kind # "string", Width[kind] = w, Len(Encode(kind, v)) = w,
           offset + w <= Len(bytes) => ValueRead(kind) = v
    PROVE  TakenBack(kind, v)
<1>1. CanRead(kind) <=> ~(offset + w > Len(bytes))
  BY FixedWidth
<1>2. SizeRead(kind) = w
  BY FixedWidth
<1>3. offset \in Nat /\ Len(bytes) \in Nat
  OBVIOUS
<1>4. CASE offset + w <= Len(bytes)
  BY <1>1, <1>2, <1>3, <1>4 DEF TakenBack
<1>5. CASE ~(offset + w <= Len(bytes))
  BY <1>1, <1>2, <1>3, <1>5 DEF TakenBack
<1> QED
  BY <1>4, <1>5

(* A reader that stands where a value was written can take it if and only  *)
(* if all of its bytes are there, and then takes exactly those bytes and   *)
(* gets the value.                                                         *)
LEMMA ReadBack ==
    ASSUME bytes \in Seq(Byte), offset \in 0..Len(bytes),
           NEW kind \in KindSet, NEW v, Representable(kind, v),
           \A i \in 1..Len(Encode(kind, v)) :
               offset + i <= Len(bytes) => bytes[offset + i] = Encode(kind, v)[i]
    PROVE  TakenBack(kind, v)
<1> offset \in Nat /\ Len(bytes) \in Nat
  OBVIOUS
<1>1. CASE kind = "u8"
  <2>1. v \in Nat /\ Shift1(v) = 0 /\ Encode(kind, v) = u8(v)
    BY <1>1 DEF Representable, Encode
  <2>2. Len(u8(v)) = 1 /\ u8(v)[1] = Low(v)
    BY <2>1 DEF u8
  <2>3. offset + 1 <= Len(bytes) => Read1(bytes, offset) = v
    BY <2>1, <2>2, FitsOne DEF Read1
  <2>4. Width[kind] = 1 /\ ValueRead(kind) = Read1(bytes, offset)
    BY <1>1 DEF Width, ValueRead
  <2> QED
    BY <1>1, <2>1, <2>2, <2>3, <2>4, ReadsBack
<1>2. CASE kind = "u16"
  <2>1. v \in Nat /\ Shift2(v) = 0 /\ Encode(kind, v) = u16(v)
    BY <1>2 DEF Representable, Encode
  <2>2. u16(v)[1] = Low(Shift1(v)) /\ u16(v)[2] = Low(v) /\ Len(u16(v)) = 2
    BY <2>1 DEF u16
  <2>3. offset + 2 <= Len(bytes) => Read2(bytes, offset) = v
    BY <2>1, <2>2, Integer16
  <2>4. Width[kind] = 2 /\ ValueRead(kind) = Read2(bytes, offset)
    BY <1>2 DEF Width, ValueRead
  <2>5. /\ kind # "string" /\ Len(Encode(kind, v)) = 2
        /\ offset + 2 <= Len(bytes) => ValueRead(kind) = v
    BY <1>2, <2>1, <2>2, <2>3, <2>4
  <2> QED
    BY <2>4, <2>5, ReadsBack
<1>3. CASE kind = "u32"
  <2>1. v \in Nat /\ Shift4(v) = 0 /\ Encode(kind, v) = u32(v) /\ Len(u32(v)) = 4
    BY <1>3, WriterTypes DEF Representable, Encode
  <2>2. ASSUME offset + 4 <= Len(bytes)
        PROVE  Read4(bytes, offset) = v
    <3>1. ASSUME NEW i \in 1..4
          PROVE  bytes[offset + i] = u32(v)[i]
      <4>1. offset + i <= Len(bytes) /\ i \in 1..Len(Encode(kind, v))
        BY <2>1, <2>2
      <4> QED
        BY <2>1, <4>1
    <3> QED
      BY <2>1, <3>1, Integer32
  <2>3. Width[kind] = 4 /\ ValueRead(kind) = Read4(bytes, offset)
    BY <1>3 DEF Width, ValueRead
  <2>4. /\ kind # "string" /\ Len(Encode(kind, v)) = 4
        /\ offset + 4 <= Len(bytes) => ValueRead(kind) = v
    BY <1>3, <2>1, <2>2, <2>3
  <2> QED
    BY <2>3, <2>4, ReadsBack
<1>4. CASE kind = "u64"
  <2>1. v \in Nat /\ Shift8(v) = 0 /\ Encode(kind, v) = u64(v) /\ Len(u64(v)) = 8
    BY <1>4, WriterTypes DEF Representable, Encode
  <2>2. ASSUME offset + 8 <= Len(bytes)
        PROVE  Read8(bytes, offset) = v
    <3>1. ASSUME NEW i \in 1..8
          PROVE  bytes[offset + i] = u64(v)[i]
      <4>1. offset + i <= Len(bytes) /\ i \in 1..Len(Encode(kind, v))
        BY <2>1, <2>2
      <4> QED
        BY <2>1, <4>1
    <3> QED
      BY <2>1, <3>1, Integer64
  <2>3. Width[kind] = 8 /\ ValueRead(kind) = Read8(bytes, offset)
    BY <1>4 DEF Width, ValueRead
  <2>4. /\ kind # "string" /\ Len(Encode(kind, v)) = 8
        /\ offset + 8 <= Len(bytes) => ValueRead(kind) = v
    BY <1>4, <2>1, <2>2, <2>3
  <2> QED
    BY <2>3, <2>4, ReadsBack
<1>5. CASE kind = "bool"
  <2> DEFINE n == IF v THEN 1 ELSE 0
  <2>1. v \in BOOLEAN /\ Encode(kind, v) = u8(n) /\ n \in {0, 1}
    BY <1>5 DEF Representable, Encode
  <2>2. Low(n) = n
    <3>1. n < Base
      BY <2>1, BaseAssumption
    <3> QED
      BY <2>1, <3>1, BaseAssumption DEF Low
  <2>3. Len(u8(n)) = 1 /\ u8(n)[1] = n
    BY <2>2 DEF u8
  <2>4. offset + 1 <= Len(bytes) => Read1(bytes, offset) = n
    BY <2>1, <2>3, BaseAssumption DEF Read1, Push
  <2>5. (n # 0) = v
    BY <2>1
  <2>6. Width[kind] = 1 /\ ValueRead(kind) = (Read1(bytes, offset) # 0)
    BY <1>5 DEF ValueRead, Width
  <2> HIDE DEF n
  <2>7. offset + 1 <= Len(bytes) => ValueRead(kind) = v
    BY <2>4, <2>5, <2>6
  <2> QED
    BY <1>5, <2>1, <2>3, <2>6, <2>7, ReadsBack
<1>6. CASE kind = "string"
  <2> DEFINE n == Len(v)
             e == Encode(kind, v)
  <2>1. v \in Seq(Byte) /\ n \in Nat /\ Shift4(n) = 0
    BY <1>6 DEF Representable
  <2>2. u32(n) \in Seq(Byte) /\ Len(u32(n)) = 4
    BY <2>1, WriterTypes
  <2>3. e = u32(n) \o v
    BY <1>6 DEF Encode
  <2>4. /\ Len(e) = Len(u32(n)) + Len(v)
        /\ \A i \in 1..Len(u32(n)) : e[i] = u32(n)[i]
        /\ \A i \in 1..Len(v) : e[Len(u32(n)) + i] = v[i]
    <3> HIDE DEF n, e
    <3>1. /\ Len(u32(n) \o v) = Len(u32(n)) + Len(v)
          /\ \A i \in 1..Len(u32(n)) : (u32(n) \o v)[i] = u32(n)[i]
          /\ \A i \in 1..Len(v) : (u32(n) \o v)[Len(u32(n)) + i] = v[i]
      BY <2>1, <2>2, Concatenation, Zenon
    <3> QED
      BY <2>3, <3>1, Zenon
  <2>5. /\ Len(e) = 4 + n
        /\ \A i \in 1..4 : e[i] = u32(n)[i]
        /\ \A i \in 1..n : e[4 + i] = v[i]
    BY <2>2, <2>4
  <2>6. \A i \in 1..(4 + n) : offset + i <= Len(bytes) => bytes[offset + i] = e[i]
    BY <2>5
  <2> HIDE DEF e
  <2>7. ASSUME offset + 4 <= Len(bytes)
        PROVE  Read4(bytes, offset) = n
    <3>1. \A i \in 1..4 : bytes[offset + i] = u32(n)[i]
      BY <2>1, <2>5, <2>6, <2>7
    <3> QED
      BY <3>1, <2>1, Integer32
  <2>8. CanRead(kind) <=> offset + Len(e) <= Len(bytes)
    <3>1. CASE offset + 4 <= Len(bytes)
      BY <1>6, <2>1, <2>5, <2>7, <3>1 DEF CanRead, Missing
    <3>2. CASE ~(offset + 4 <= Len(bytes))
      BY <1>6, <2>1, <2>5, <3>2 DEF CanRead, Missing
    <3> QED
      BY <3>1, <3>2
  <2>9. ASSUME offset + Len(e) <= Len(bytes)
        PROVE  SizeRead(kind) = Len(e) /\ ValueRead(kind) = v
    <3>1. Read4(bytes, offset) = n
      BY <2>1, <2>5, <2>7, <2>9
    <3>2. \A i \in 1..n : bytes[offset + 4 + i] = v[i]
      <4>1. ASSUME NEW i \in 1..n
            PROVE  bytes[offset + 4 + i] = v[i]
        <5>1. 4 + i \in 1..(4 + n) /\ offset + (4 + i) <= Len(bytes)
          BY <2>1, <2>5, <2>9
        <5>2. bytes[offset + (4 + i)] = e[4 + i]
          BY <5>1, <2>6
        <5>3. offset + 4 + i = offset + (4 + i)
          BY <2>1
        <5> QED
          BY <5>2, <5>3, <2>5
      <4> QED
        BY <4>1
    <3>3. v = [i \in 1..n |-> v[i]]
      BY <2>1
    <3>4. ValueRead(kind) = [i \in 1..n |-> bytes[offset + 4 + i]]
      BY <1>6, <3>1 DEF ValueRead
    <3>5. ValueRead(kind) = v
      BY <3>2, <3>3, <3>4
    <3> QED
      BY <1>6, <2>5, <3>1, <3>5 DEF SizeRead
  <2> QED
    BY <2>8, <2>9 DEF e, TakenBack
<1> QED
  BY <1>1, <1>2, <1>3, <1>4, <1>5, <1>6 DEF KindSet

-----------------------------------------------------------------------------
(* The inductive invariant.                                                *)

(* What is written: field after field, each with the bytes of its value.   *)
(* A payload that was cut has those bytes as far as it goes.               *)
Layout ==
    /\ message \in Messages
    /\ bytes \in Seq(Byte)
    /\ written \in 0..Count(message)
    /\ ends \in [0..written -> Nat]
    /\ ends[0] = 0
    /\ \A k \in 0..(written - 1) : ends[k + 1] = ends[k] + Len(Encoded(message, k))
    /\ \A k \in 0..written : ends[k] <= ends[written]
    /\ \A k \in 0..(written - 1) : \A i \in 1..Len(Encoded(message, k)) :
          ends[k] + i <= Len(bytes) => bytes[ends[k] + i] = Encoded(message, k)[i]

(* What happened to the payload, and where the reader can have come.       *)
Phase ==
    /\ pc \in {"writing", "sent", "reading", "ok", "thrown"}
    /\ arrived \in {"none", "intact", "shorter", "longer"}
    /\ pc \in {"writing", "sent"} <=> arrived = "none"
    /\ pc # "writing" => written = Count(message)
    /\ arrived \in {"none", "intact"} => Len(bytes) = ends[written]
    /\ arrived = "shorter" => Len(bytes) < ends[written]
    /\ arrived = "longer" => Len(bytes) > ends[written]
    /\ pc = "thrown" => arrived # "intact"
    /\ pc = "ok" => read = Count(message) /\ offset = Len(bytes)

(* The reader stands at the end of a field and has the values before it.   *)
Taken ==
    /\ read \in 0..Count(message)
    /\ pc \in {"writing", "sent"} => read = 0
    /\ offset = ends[read] /\ offset \in 0..Len(bytes)
    /\ values = [f \in {FieldOf(message, k) : k \in 1..read} |-> message.value[f]]

Inv == Layout /\ Phase /\ Taken

LEMMA FieldFacts ==
    ASSUME NEW m \in Messages, NEW k \in 0..(Count(m) - 1)
    PROVE  LET f == FieldOf(m, k + 1)
               kind == Kinds[f[1]]
           IN /\ f \in DOMAIN m.value
              /\ kind \in KindSet
              /\ Representable(kind, m.value[f])
              /\ Encoded(m, k) = Encode(kind, m.value[f])
              /\ Encoded(m, k) \in Seq(Byte)
<1> DEFINE f == FieldOf(m, k + 1)
           kind == Kinds[f[1]]
<1>1. WellFormed(m)
  BY MessagesAssumption
<1>2. Count(m) \in Nat /\ k + 1 \in 1..Count(m)
  BY <1>1 DEF WellFormed
<1>3. f \in DOMAIN m.value
  BY <1>1, <1>2 DEF WellFormed
<1>4. f[1] \in DOMAIN Kinds /\ Representable(kind, m.value[f])
  BY <1>1, <1>3 DEF WellFormed
<1>5. kind \in KindSet
  <2> HIDE DEF f
  <2> QED
    BY <1>4 DEF Kinds, KindSet
<1>6. Encoded(m, k) = Encode(kind, m.value[f])
  BY DEF Encoded
<1>7. Encoded(m, k) \in Seq(Byte)
  BY <1>4, <1>5, <1>6, EncodeTypes
<1> QED
  BY <1>3, <1>4, <1>5, <1>6, <1>7

LEMMA CountNat ==
    ASSUME NEW m \in Messages
    PROVE  /\ Count(m) \in Nat
           /\ DOMAIN m.value = {FieldOf(m, k) : k \in 1..Count(m)}
BY MessagesAssumption DEF WellFormed

LEMMA InitInv == Init => Inv
<1> SUFFICES ASSUME Init PROVE Inv
  OBVIOUS
<1>1. Count(message) \in Nat
  BY CountNat DEF Init
<1>2. Layout
  BY <1>1 DEF Init, Layout
<1>3. Phase
  BY DEF Init, Phase
<1>4. Taken
  BY <1>1 DEF Init, Taken
<1> QED
  BY <1>2, <1>3, <1>4 DEF Inv

-----------------------------------------------------------------------------
(* The steps.                                                              *)

LEMMA WriteFieldInv == Inv /\ WriteField => Inv'
<1> SUFFICES ASSUME Inv, WriteField PROVE Inv'
  OBVIOUS
<1> USE DEF Inv
<1> DEFINE e == Encoded(message, written)
           n == Len(bytes)
<1>1. /\ message \in Messages /\ message' = message
      /\ written \in 0..(Count(message) - 1) /\ written' = written + 1
      /\ Count(message) \in Nat
  BY CountNat DEF WriteField, Layout
<1>2. e \in Seq(Byte) /\ Len(e) \in Nat
  BY <1>1, FieldFacts
<1>3. bytes \in Seq(Byte) /\ n \in Nat /\ n = ends[written]
  BY DEF Layout, Phase, WriteField
<1>4. bytes' = bytes \o e
  BY DEF WriteField
<1> HIDE DEF e, n
<1>5. /\ bytes' \in Seq(Byte) /\ Len(bytes') = Len(bytes) + Len(e)
      /\ \A i \in 1..Len(bytes) : bytes'[i] = bytes[i]
      /\ \A i \in 1..Len(e) : bytes'[Len(bytes) + i] = e[i]
  BY <1>2, <1>3, <1>4, Concatenation, Zenon
<1>6. /\ ends' = [k \in 0..(written + 1) |-> IF k = written + 1 THEN Len(bytes') ELSE ends[k]]
      /\ ends'[written + 1] = n + Len(e)
      /\ \A k \in 0..written : ends'[k] = ends[k]
  BY <1>1, <1>2, <1>3, <1>5 DEF WriteField, n
<1>7. \A k \in 0..written : ends[k] \in Nat /\ ends[k] <= n
  BY <1>3 DEF Layout
<1>8. Layout'
  <2>1. message' \in Messages /\ bytes' \in Seq(Byte) /\ written' \in 0..Count(message')
    BY <1>1, <1>5
  <2>2. ends' \in [0..written' -> Nat]
    BY <1>1, <1>2, <1>3, <1>5, <1>6, <1>7
  <2>3. ends'[0] = 0
    BY <1>1, <1>6 DEF Layout
  <2>4. \A k \in 0..written : ends'[k + 1] = ends'[k] + Len(Encoded(message, k))
    <3>1. ends'[written + 1] = ends'[written] + Len(Encoded(message, written))
      BY <1>1, <1>3, <1>6 DEF e
    <3>2. \A k \in 0..(written - 1) : ends'[k + 1] = ends'[k] + Len(Encoded(message, k))
      BY <1>1, <1>6 DEF Layout
    <3> QED
      BY <1>1, <3>1, <3>2
  <2>5. \A k \in 0..(written + 1) : ends'[k] <= ends'[written + 1]
    BY <1>1, <1>2, <1>3, <1>6, <1>7
  <2>6. ASSUME NEW k \in 0..written, NEW i \in 1..Len(Encoded(message, k))
        PROVE  bytes'[ends'[k] + i] = Encoded(message, k)[i]
    <3>1. CASE k = written
      BY <1>1, <1>3, <1>5, <1>6, <2>6, <3>1 DEF e, n
    <3>2. CASE k # written
      <4>1. k \in 0..(written - 1) /\ k + 1 \in 0..written
        BY <1>1, <3>2
      <4>2. ends[k + 1] = ends[k] + Len(Encoded(message, k))
        BY <4>1 DEF Layout
      <4>3. Len(Encoded(message, k)) \in Nat
        BY <1>1, <4>1, FieldFacts
      <4>4. ends[k] + i \in 1..n
        BY <1>3, <1>7, <2>6, <4>1, <4>2, <4>3
      <4>5. bytes[ends[k] + i] = Encoded(message, k)[i]
        BY <2>6, <4>1, <4>4 DEF Layout, n
      <4> QED
        BY <1>5, <1>6, <4>4, <4>5 DEF n
    <3> QED
      BY <3>1, <3>2
  <2>7. 0..(written' - 1) = 0..written /\ written' = written + 1
    BY <1>1
  <2> QED
    BY <1>1, <2>1, <2>2, <2>3, <2>4, <2>5, <2>6, <2>7 DEF Layout
<1>9. Phase'
  BY <1>1, <1>5, <1>6 DEF Phase, WriteField, n
<1>10. Taken'
  <2>1. read = 0 /\ offset = 0 /\ 0 \in 0..Len(bytes')
    BY <1>2, <1>3, <1>5 DEF Taken, Layout, WriteField, n
  <2> QED
    BY <1>1, <1>6, <2>1 DEF Taken, WriteField
<1> QED
  BY <1>8, <1>9, <1>10

LEMMA WrittenInv == Inv /\ Written => Inv'
<1> SUFFICES ASSUME Inv, Written PROVE Inv'
  OBVIOUS
<1> USE DEF Inv
<1>1. Layout'
  BY DEF Layout, Written
<1>2. Phase'
  BY DEF Phase, Written
<1>3. Taken'
  BY DEF Taken, Written
<1> QED
  BY <1>1, <1>2, <1>3

LEMMA ArriveInv ==
    ASSUME NEW how \in {"intact", "shorter", "longer"}, NEW payload \in Seq(Byte),
           Inv, Arrive(how, payload),
           \A i \in 1..Len(bytes) : i <= Len(payload) => payload[i] = bytes[i],
           how = "intact" => Len(payload) = Len(bytes),
           how = "shorter" => Len(payload) < Len(bytes),
           how = "longer" => Len(payload) > Len(bytes)
    PROVE  Inv'
<1> USE DEF Inv
<1>1. /\ pc = "sent" /\ pc' = "reading" /\ arrived' = how /\ bytes' = payload
      /\ UNCHANGED <<message, written, ends, read, offset, values>>
  BY DEF Arrive
<1>2. /\ Len(bytes) = ends[written] /\ bytes \in Seq(Byte) /\ Len(bytes) \in Nat
      /\ Len(payload) \in Nat
      /\ written = Count(message) /\ Count(message) \in Nat
  BY <1>1, CountNat DEF Phase, Layout
<1>3. ASSUME NEW k \in 0..(written - 1), NEW i \in 1..Len(Encoded(message, k)),
             ends[k] + i <= Len(payload)
      PROVE  payload[ends[k] + i] = Encoded(message, k)[i]
  <2>1. k + 1 \in 0..written /\ ends[k] \in Nat /\ ends[k + 1] \in Nat
    <3>1. k \in 0..written /\ k + 1 \in 0..written
      BY <1>2
    <3> QED
      BY <3>1 DEF Layout
  <2>2. ends[k + 1] = ends[k] + Len(Encoded(message, k)) /\ ends[k + 1] <= Len(bytes)
    BY <1>2, <2>1 DEF Layout
  <2>3. Len(Encoded(message, k)) \in Nat
    BY <1>2, FieldFacts DEF Layout
  <2>4. ends[k] + i \in 1..Len(bytes)
    <3> DEFINE from == ends[k]
               to == ends[k + 1]
               size == Len(Encoded(message, k))
               all == Len(bytes)
    <3>1. /\ from \in Nat /\ to = from + size /\ to <= all
          /\ size \in Nat /\ i \in 1..size /\ all \in Nat
      BY <1>2, <1>3, <2>1, <2>2, <2>3
    <3> HIDE DEF from, to, size, all
    <3>2. from + i \in 1..all
      BY <3>1
    <3> QED
      BY <3>2 DEF from, all
  <2>5. bytes[ends[k] + i] = Encoded(message, k)[i]
    BY <1>3, <2>4 DEF Layout
  <2> QED
    BY <1>3, <2>4, <2>5
<1>4. Layout'
  BY <1>1, <1>3 DEF Layout
<1>5. Phase'
  BY <1>1, <1>2 DEF Phase
<1>6. Taken'
  BY <1>1, <1>2 DEF Taken, Layout
<1> QED
  BY <1>4, <1>5, <1>6

LEMMA TransportInv == Inv /\ (Deliver \/ Shorten \/ Lengthen) => Inv'
<1>1. ASSUME Inv, Deliver PROVE Inv'
  <2>1. bytes \in Seq(Byte) /\ Arrive("intact", bytes)
    BY <1>1 DEF Inv, Layout, Deliver
  <2> QED
    BY <1>1, <2>1, ArriveInv
<1>2. ASSUME Inv, Shorten PROVE Inv'
  <2>1. PICK n \in 0..(Len(bytes) - 1) : Arrive("shorter", [i \in 1..n |-> bytes[i]])
    BY <1>2 DEF Shorten
  <2> DEFINE payload == [i \in 1..n |-> bytes[i]]
  <2>2. bytes \in Seq(Byte) /\ Len(bytes) \in Nat
    BY <1>2 DEF Inv, Layout
  <2>3. n \in Nat /\ n < Len(bytes) /\ \A i \in 1..n : bytes[i] \in Byte
    BY <2>2
  <2>4. payload \in Seq(Byte) /\ Len(payload) = n
    BY <2>3
  <2>5. \A i \in 1..Len(bytes) : i <= Len(payload) => payload[i] = bytes[i]
    BY <2>2, <2>3, <2>4
  <2> HIDE DEF payload
  <2>6. Arrive("shorter", payload)
    BY <2>1 DEF payload
  <2> QED
    BY <1>2, <2>3, <2>4, <2>5, <2>6, ArriveInv
<1>3. ASSUME Inv, Lengthen PROVE Inv'
  <2>1. PICK byte \in Byte : Arrive("longer", Append(bytes, byte))
    BY <1>3 DEF Lengthen
  <2> DEFINE payload == Append(bytes, byte)
  <2>2. bytes \in Seq(Byte) /\ Len(bytes) \in Nat
    BY <1>3 DEF Inv, Layout
  <2>3. payload \in Seq(Byte) /\ Len(payload) = Len(bytes) + 1
    BY <2>2
  <2>4. \A i \in 1..Len(bytes) : payload[i] = bytes[i]
    BY <2>2
  <2> HIDE DEF payload
  <2>5. Arrive("longer", payload)
    BY <2>1 DEF payload
  <2> QED
    BY <1>3, <2>2, <2>3, <2>4, <2>5, ArriveInv
<1> QED
  BY <1>1, <1>2, <1>3

(* The reader's next field is the writer's, and the reader knows when it   *)
(* has all of them.                                                        *)
LEMMA ReaderFollows ==
    ASSUME Inv, pc = "reading"
    PROVE  /\ NextField = FieldOf(message, read + 1)
           /\ AllRead <=> read = Count(message)
<1> USE DEF Inv
<1>0. deserialize = serialize
  BY DEF deserialize, serialize
<1>1. NextField = FieldOf(message, read + 1)
  BY <1>0 DEF NextField, FieldOf
<1>2. WellFormed(message) /\ Count(message) \in Nat
  BY MessagesAssumption, CountNat DEF Layout
<1>3. CASE message.type \notin ListTypes
  BY <1>0, <1>1, <1>3 DEF AllRead, FieldCount, Count
<1>4. CASE message.type \in ListTypes
  <2> DEFINE count == <<"count", 0>>
  <2>1. count \in DOMAIN message.value
    BY <1>2, <1>4 DEF WellFormed
  <2>2. Count(message) = 1 + 3 * message.value[count]
    BY <1>4, <2>1 DEF Count, FieldCount
  <2>3. FieldOf(message, 1) = count
    BY <1>4 DEF FieldOf, Field
  <2>4. DOMAIN values = {FieldOf(message, k) : k \in 1..read} /\ read \in 0..Count(message)
    BY DEF Taken
  <2>5. message.value[count] \in Nat
    <3>1. Representable(Kinds[count[1]], message.value[count])
      BY <1>2, <2>1 DEF WellFormed
    <3>2. Kinds[count[1]] = "u32"
      BY DEF Kinds
    <3> QED
      BY <3>1, <3>2 DEF Representable
  <2>6. CASE read = 0
    <3>1. count \notin DOMAIN values
      BY <2>4, <2>6
    <3>2. AllRead <=> read = 1
      BY <1>4, <3>1 DEF AllRead, FieldCount
    <3> QED
      BY <1>1, <2>2, <2>5, <2>6, <3>2
  <2>7. CASE read # 0
    <3>1. 1 \in 1..read
      BY <2>4, <2>7, <1>2
    <3>2. count \in DOMAIN values /\ values[count] = message.value[count]
      BY <2>3, <2>4, <3>1 DEF Taken
    <3>3. AllRead <=> read = 1 + 3 * values[count]
      BY <1>4, <3>2 DEF AllRead, FieldCount
    <3> QED
      BY <1>1, <2>2, <3>2, <3>3
  <2> QED
    BY <2>6, <2>7
<1> QED
  BY <1>1, <1>3, <1>4

LEMMA ReadFieldInv == Inv /\ ReadField => Inv'
<1> SUFFICES ASSUME Inv, ReadField PROVE Inv'
  OBVIOUS
<1> DEFINE f == FieldOf(message, read + 1)
           kind == Kinds[f[1]]
           v == message.value[f]
           e == Encoded(message, read)
<1>1. /\ pc = "reading" /\ ~AllRead /\ written = Count(message) /\ Count(message) \in Nat
      /\ UNCHANGED <<message, written, bytes, ends, arrived>>
  BY CountNat DEF Inv, Layout, Phase, ReadField
<1>2. NextField = f /\ read \in 0..(Count(message) - 1)
  BY <1>1, ReaderFollows DEF Inv, Taken
<1>3. message \in Messages /\ bytes \in Seq(Byte) /\ Len(bytes) \in Nat
  BY DEF Inv, Layout
<1>4. /\ f \in DOMAIN message.value /\ kind \in KindSet /\ Representable(kind, v)
      /\ e = Encode(kind, v) /\ e \in Seq(Byte) /\ Len(e) \in Nat
  BY <1>2, <1>3, FieldFacts
<1>5. offset = ends[read] /\ offset \in 0..Len(bytes)
  BY DEF Inv, Taken
<1> HIDE DEF f, kind, v, e
<1>6. \A i \in 1..Len(e) : offset + i <= Len(bytes) => bytes[offset + i] = e[i]
  BY <1>1, <1>2, <1>5 DEF Inv, Layout, e
<1>7. TakenBack(kind, v)
  BY <1>3, <1>4, <1>5, <1>6, ReadBack
<1>8. ends[read + 1] = offset + Len(e) /\ ends[read + 1] <= ends[written]
  <2>1. read \in 0..(written - 1) /\ read + 1 \in 0..written
    BY <1>1, <1>2
  <2> QED
    BY <1>5, <2>1 DEF Inv, Layout, e
<1>9. Layout'
  BY <1>1 DEF Inv, Layout
<1>10. CASE CanRead(kind) /\ UNCHANGED pc
            /\ values' = [x \in DOMAIN values \cup {f} |->
                             IF x = f THEN ValueRead(kind) ELSE values[x]]
            /\ offset' = offset + SizeRead(kind) /\ read' = read + 1
  <2>1. /\ offset + Len(e) <= Len(bytes)
        /\ SizeRead(kind) = Len(e) /\ ValueRead(kind) = v
    BY <1>4, <1>7, <1>10 DEF TakenBack
  <2>2. offset' = ends'[read'] /\ offset' \in 0..Len(bytes')
    BY <1>1, <1>3, <1>4, <1>5, <1>8, <1>10, <2>1
  <2>3. values' = [x \in {FieldOf(message, k) : k \in 1..(read + 1)} |-> message.value[x]]
    <3>1. values = [x \in {FieldOf(message, k) : k \in 1..read} |-> message.value[x]]
      BY DEF Inv, Taken
    <3>2. {FieldOf(message, k) : k \in 1..(read + 1)} =
              {FieldOf(message, k) : k \in 1..read} \cup {f}
      BY <1>2 DEF f
    <3> QED
      BY <1>10, <2>1, <3>1, <3>2 DEF v
  <2>4. Taken'
    <3>1. read' \in 0..Count(message') /\ pc' \notin {"writing", "sent"}
      BY <1>1, <1>2, <1>10
    <3>2. values' = [x \in {FieldOf(message', k) : k \in 1..read'} |-> message'.value[x]]
      BY <1>1, <1>10, <2>3
    <3> QED
      BY <2>2, <3>1, <3>2 DEF Taken
  <2>5. Phase'
    BY <1>1, <1>10 DEF Inv, Phase
  <2> QED
    BY <1>9, <2>4, <2>5 DEF Inv
<1>11. CASE ~CanRead(kind) /\ pc' = "thrown" /\ UNCHANGED <<read, offset, values>>
  <2>1. ~(offset + Len(e) <= Len(bytes))
    BY <1>4, <1>7, <1>11 DEF TakenBack
  <2>2. ends[written] \in Nat
    BY <1>1 DEF Inv, Layout
  <2>3. arrived # "intact"
    BY <1>3, <1>4, <1>5, <1>8, <2>1, <2>2 DEF Inv, Phase
  <2>4. Phase'
    BY <1>1, <1>11, <2>3 DEF Inv, Phase
  <2>5. Taken'
    BY <1>1, <1>11 DEF Inv, Taken
  <2> QED
    BY <1>9, <2>4, <2>5 DEF Inv
<1> QED
  BY <1>2, <1>10, <1>11 DEF ReadField, kind

LEMMA EnsureConsumedInv == Inv /\ ensure_consumed => Inv'
<1> SUFFICES ASSUME Inv, ensure_consumed PROVE Inv'
  OBVIOUS
<1> USE DEF Inv
<1>1. /\ pc = "reading" /\ pc' = IF offset = Len(bytes) THEN "ok" ELSE "thrown"
      /\ UNCHANGED <<message, written, bytes, ends, arrived, read, offset, values>>
  BY DEF ensure_consumed
<1>2. read = Count(message) /\ written = Count(message)
  BY <1>1, ReaderFollows DEF ensure_consumed, Phase
<1>3. arrived = "intact" => offset = Len(bytes)
  BY <1>2 DEF Taken, Phase
<1>4. Layout'
  BY <1>1 DEF Layout
<1>5. Phase'
  BY <1>1, <1>2, <1>3 DEF Phase
<1>6. Taken'
  BY <1>1 DEF Taken
<1> QED
  BY <1>4, <1>5, <1>6

-----------------------------------------------------------------------------
(* The theorems.                                                           *)

LEMMA Invariance == Spec => []Inv
<1>1. Inv /\ [Next]_vars => Inv'
  <2> SUFFICES ASSUME Inv, [Next]_vars PROVE Inv'
    OBVIOUS
  <2>1. CASE UNCHANGED vars
    <3>1. Layout'
      BY <2>1 DEF Inv, Layout, vars
    <3>2. Phase'
      BY <2>1 DEF Inv, Phase, vars
    <3>3. Taken'
      BY <2>1 DEF Inv, Taken, vars
    <3> QED
      BY <3>1, <3>2, <3>3 DEF Inv
  <2> QED
    BY <2>1, WriteFieldInv, WrittenInv, TransportInv, ReadFieldInv,
       EnsureConsumedInv DEF Next
<1> QED
  BY <1>1, InitInv, PTL DEF Spec

(* Every variable keeps its type.                                          *)
THEOREM TypeCorrect == Spec => []TypeOK
<1>1. Inv => TypeOK
  <2> SUFFICES ASSUME Inv PROVE TypeOK
    OBVIOUS
  <2>1. WellFormed(message)
    BY MessagesAssumption DEF Inv, Layout
  <2>2. /\ written \in 0..Count(message) /\ bytes \in Seq(Byte)
        /\ read \in 0..Count(message) /\ offset \in 0..Len(bytes)
    BY DEF Inv, Layout, Taken
  <2>3. ends \in [0..written -> 0..Len(bytes)] \/ pc \notin {"writing", "sent"}
    <3>1. CASE pc \in {"writing", "sent"}
      <4>1. Len(bytes) = ends[written] /\ Len(bytes) \in Nat
        BY <3>1 DEF Inv, Layout, Phase
      <4>2. \A k \in 0..written : ends[k] \in Nat /\ ends[k] <= ends[written]
        BY DEF Inv, Layout
      <4> QED
        BY <4>1, <4>2 DEF Inv, Layout
    <3> QED
      BY <3>1
  <2>4. /\ arrived \in {"none", "intact", "shorter", "longer"}
        /\ pc \in {"writing", "sent", "reading", "ok", "thrown"}
    BY DEF Inv, Phase
  <2>5. DOMAIN values = {FieldOf(message, k) : k \in 1..read}
    BY DEF Inv, Taken
  <2> QED
    BY <2>1, <2>2, <2>3, <2>4, <2>5 DEF TypeOK
<1> QED
  BY <1>1, Invariance, PTL

(* Every message, of any type and with any values, survives the round trip *)
(* through serialize_ and deserialize_.                                    *)
THEOREM RoundTripHolds == Spec => []RoundTrip
<1>1. Inv => RoundTrip
  <2> SUFFICES ASSUME Inv, Finished, arrived = "intact"
               PROVE  pc = "ok" /\ values = message.value
    BY DEF RoundTrip
  <2>1. pc = "ok" /\ read = Count(message)
    BY DEF Finished, Inv, Phase
  <2>2. WellFormed(message) /\ DOMAIN message.value = {FieldOf(message, k) : k \in 1..read}
    BY <2>1, MessagesAssumption, CountNat DEF Inv, Layout
  <2>3. message.value = [f \in DOMAIN message.value |-> message.value[f]]
    BY <2>2 DEF WellFormed
  <2>4. values = message.value
    BY <2>2, <2>3 DEF Inv, Taken
  <2> QED
    BY <2>1, <2>4
<1> QED
  BY <1>1, Invariance, PTL

(* No payload that was cut or continued is accepted.                       *)
THEOREM DamageRefusedHolds == Spec => []DamageRefused
<1>1. Inv => DamageRefused
  <2> SUFFICES ASSUME Inv, Finished, arrived # "intact", pc # "thrown"
               PROVE  FALSE
    BY DEF DamageRefused
  <2>1. /\ pc = "ok" /\ read = Count(message) /\ written = Count(message)
        /\ offset = Len(bytes) /\ offset = ends[read]
    BY DEF Finished, Inv, Phase, Taken
  <2>2. Len(bytes) \in Nat /\ Len(bytes) = ends[written]
    BY <2>1 DEF Inv, Layout
  <2>3. arrived \in {"shorter", "longer"}
    BY <2>1 DEF Inv, Phase
  <2> QED
    BY <2>2, <2>3 DEF Inv, Phase
<1> QED
  BY <1>1, Invariance, PTL
=============================================================================

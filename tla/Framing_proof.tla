---------------------------- MODULE Framing_proof ----------------------------
(***************************************************************************)
(* Proofs about Framing, for every number of values of a byte, every limit *)
(* and every script: frames over a stream that is cut into segments, and   *)
(* perhaps cut off, implement the channel of messages of module Channel;   *)
(* a file is received from its first byte; no frame is refused but one     *)
(* beyond the limit or of another version.                                 *)
(***************************************************************************)
EXTENDS Framing, SequenceTheorems, TLAPS

-----------------------------------------------------------------------------
(* Parts of a sequence: the elements of seq are those of whole from the    *)
(* one after from on.                                                      *)
PartOf(seq, whole, from) == \A i \in 1..Len(seq) : seq[i] = whole[from + i]

LEMMA EmptyPart == \A whole, from : PartOf(<<>>, whole, from)
  BY DEF PartOf

(* The next n elements of a sequence, n being within its length.           *)
LEMMA PieceType ==
    ASSUME NEW S, NEW seq \in Seq(S), NEW m \in Nat, NEW n \in Nat, m + n <= Len(seq)
    PROVE  /\ SubSeq(seq, m + 1, m + n) \in Seq(S)
           /\ Len(SubSeq(seq, m + 1, m + n)) = n
  <1>1. \A i \in (m + 1)..(m + n) : seq[i] \in S
    OBVIOUS
  <1> QED BY <1>1, SubSeqProperties

(* The first n elements of a sequence and what follows them.               *)
LEMMA CutType ==
    ASSUME NEW S, NEW seq \in Seq(S), NEW n \in 1..Len(seq)
    PROVE  /\ SubSeq(seq, 1, n) \in Seq(S) /\ Len(SubSeq(seq, 1, n)) = n
           /\ SubSeq(seq, n + 1, Len(seq)) \in Seq(S)
           /\ Len(SubSeq(seq, n + 1, Len(seq))) = Len(seq) - n
  <1>1. SubSeq(seq, 0 + 1, 0 + n) \in Seq(S) /\ Len(SubSeq(seq, 0 + 1, 0 + n)) = n
    BY PieceType
  <1>2. /\ SubSeq(seq, n + 1, n + (Len(seq) - n)) \in Seq(S)
        /\ Len(SubSeq(seq, n + 1, n + (Len(seq) - n))) = Len(seq) - n
    BY PieceType
  <1>3. 0 + 1 = 1 /\ 0 + n = n /\ n + (Len(seq) - n) = Len(seq)
    OBVIOUS
  <1> QED BY <1>1, <1>2, <1>3

LEMMA PieceIsPart ==
    ASSUME NEW S, NEW whole \in Seq(S), NEW m \in Nat, NEW n \in Nat, m + n <= Len(whole)
    PROVE  PartOf(SubSeq(whole, m + 1, m + n), whole, m)
  <1> DEFINE piece == SubSeq(whole, m + 1, m + n)
  <1>1. \A i \in (m + 1)..(m + n) : whole[i] \in S
    OBVIOUS
  <1>2. Len(piece) = n /\ \A i \in 1..((m + n) - (m + 1) + 1) : piece[i] = whole[m + 1 + i - 1]
    <2>1. Len(piece) = n
      BY PieceType
    <2>2. \A i \in 1..((m + n) - (m + 1) + 1) : piece[i] = whole[m + 1 + i - 1]
      <3> DEFINE first == m + 1
                 last == m + n
      <3>1. first \in Int /\ last \in Int /\ \A i \in first..last : whole[i] \in S
        BY <1>1
      <3> HIDE DEF first, last
      <3>2. \A i \in 1..(last - first + 1) :
                SubSeq(whole, first, last)[i] = whole[first + i - 1]
        BY <3>1, SubSeqProperties
      <3> QED BY <3>2 DEF first, last
    <2> QED BY <2>1, <2>2
  <1> HIDE DEF piece
  <1>3. \A i \in 1..n : piece[i] = whole[m + i]
    <2> TAKE i \in 1..n
    <2>1. i \in 1..((m + n) - (m + 1) + 1) /\ m + 1 + i - 1 = m + i
      OBVIOUS
    <2> QED BY <1>2, <2>1
  <1>4. PartOf(piece, whole, m)
    BY <1>2, <1>3 DEF PartOf
  <1> QED BY <1>4 DEF piece

(* The first n elements of a part, and the others, are parts.              *)
LEMMA CutParts ==
    ASSUME NEW S, NEW seq \in Seq(S), NEW n \in 1..Len(seq), NEW whole,
           NEW from \in Nat, PartOf(seq, whole, from)
    PROVE  /\ PartOf(SubSeq(seq, 1, n), whole, from)
           /\ PartOf(SubSeq(seq, n + 1, Len(seq)), whole, from + n)
  <1>1. Len(seq) \in Nat /\ n \in Nat /\ n <= Len(seq)
    OBVIOUS
  <1>2. PartOf(SubSeq(seq, 0 + 1, 0 + n), seq, 0)
    <2> DEFINE zero == 0
    <2>1. zero \in Nat /\ zero + n <= Len(seq)
      BY <1>1
    <2> HIDE DEF zero
    <2>2. PartOf(SubSeq(seq, zero + 1, zero + n), seq, zero)
      BY <1>1, <2>1, PieceIsPart
    <2> QED BY <2>2 DEF zero
  <1>3. PartOf(SubSeq(seq, n + 1, n + (Len(seq) - n)), seq, n)
    <2> DEFINE rest == Len(seq) - n
    <2>1. rest \in Nat /\ n + rest <= Len(seq)
      BY <1>1
    <2> HIDE DEF rest
    <2>2. PartOf(SubSeq(seq, n + 1, n + rest), seq, n)
      BY <1>1, <2>1, PieceIsPart
    <2> QED BY <2>2 DEF rest
  <1>7. 0 + 1 = 1 /\ 0 + n = n /\ n + (Len(seq) - n) = Len(seq)
    BY <1>1
  <1> DEFINE one == SubSeq(seq, 1, n)
             two == SubSeq(seq, n + 1, Len(seq))
  <1>4. PartOf(one, seq, 0) /\ PartOf(two, seq, n) /\ Len(one) = n /\ Len(two) = Len(seq) - n
    BY <1>2, <1>3, <1>7, CutType
  <1> HIDE DEF one, two
  <1>5. PartOf(one, whole, from)
    <2> SUFFICES ASSUME NEW i \in 1..n PROVE one[i] = whole[from + i]
      BY <1>4 DEF PartOf
    <2>1. one[i] = seq[0 + i] /\ 0 + i = i
      BY <1>4 DEF PartOf
    <2> QED BY <2>1, <1>1 DEF PartOf
  <1>6. PartOf(two, whole, from + n)
    <2> SUFFICES ASSUME NEW i \in 1..(Len(seq) - n) PROVE two[i] = whole[(from + n) + i]
      BY <1>4 DEF PartOf
    <2>1. two[i] = seq[n + i]
      BY <1>4 DEF PartOf
    <2>2. n + i \in 1..Len(seq) /\ from + (n + i) = (from + n) + i
      BY <1>1
    <2>3. seq[n + i] = whole[from + (n + i)]
      BY <2>2 DEF PartOf
    <2> QED BY <2>1, <2>2, <2>3
  <1> QED BY <1>5, <1>6 DEF one, two

(* Two adjacent parts make one.                                            *)
LEMMA JoinParts ==
    ASSUME NEW S, NEW one \in Seq(S), NEW two \in Seq(S), NEW whole, NEW from \in Nat,
           PartOf(one, whole, from), PartOf(two, whole, from + Len(one))
    PROVE  PartOf(one \o two, whole, from)
  <1> DEFINE both == one \o two
  <1>1. /\ Len(one) \in Nat /\ Len(two) \in Nat /\ Len(both) = Len(one) + Len(two)
        /\ \A i \in 1..Len(one) + Len(two) :
               both[i] = IF i <= Len(one) THEN one[i] ELSE two[i - Len(one)]
    BY ConcatProperties
  <1> HIDE DEF both
  <1>2. ASSUME NEW i \in 1..Len(both) PROVE both[i] = whole[from + i]
    <2>1. CASE i <= Len(one)
      BY <1>1, <2>1 DEF PartOf
    <2>2. CASE ~(i <= Len(one))
      <3>1. /\ i - Len(one) \in 1..Len(two)
            /\ (from + Len(one)) + (i - Len(one)) = from + i
        BY <1>1, <2>2
      <3>2. two[i - Len(one)] = whole[(from + Len(one)) + (i - Len(one))]
        BY <3>1 DEF PartOf
      <3> QED BY <1>1, <2>2, <3>1, <3>2
    <2> QED BY <2>1, <2>2
  <1> QED BY <1>2 DEF both, PartOf

(* A part stays one when the whole grows, and what is added is one.        *)
LEMMA GrownParts ==
    ASSUME NEW S, NEW whole \in Seq(S), NEW more \in Seq(S)
    PROVE  /\ PartOf(more, whole \o more, Len(whole))
           /\ \A seq \in Seq(S), from \in Nat :
                  PartOf(seq, whole, from) /\ from + Len(seq) <= Len(whole)
                  => PartOf(seq, whole \o more, from)
  <1> DEFINE grown == whole \o more
  <1>1. /\ Len(whole) \in Nat /\ Len(more) \in Nat
        /\ \A i \in 1..Len(whole) + Len(more) :
               grown[i] = IF i <= Len(whole) THEN whole[i] ELSE more[i - Len(whole)]
    BY ConcatProperties
  <1> HIDE DEF grown
  <1>2. PartOf(more, grown, Len(whole))
    <2> SUFFICES ASSUME NEW i \in 1..Len(more) PROVE more[i] = grown[Len(whole) + i]
      BY DEF PartOf
    <2>1. /\ Len(whole) + i \in 1..Len(whole) + Len(more) /\ ~(Len(whole) + i <= Len(whole))
          /\ (Len(whole) + i) - Len(whole) = i
      BY <1>1
    <2> QED BY <1>1, <2>1
  <1>3. ASSUME NEW seq \in Seq(S), NEW from \in Nat,
               PartOf(seq, whole, from), from + Len(seq) <= Len(whole)
        PROVE  PartOf(seq, grown, from)
    <2> SUFFICES ASSUME NEW i \in 1..Len(seq) PROVE seq[i] = grown[from + i]
      BY DEF PartOf
    <2>1. from + i \in 1..Len(whole) + Len(more) /\ from + i <= Len(whole)
      <3>1. Len(seq) \in Nat
        OBVIOUS
      <3> QED BY <1>1, <1>3, <3>1
    <2>2. seq[i] = whole[from + i]
      BY <1>3 DEF PartOf
    <2> QED BY <1>1, <2>1, <2>2
  <1> QED BY <1>2, <1>3 DEF grown

-----------------------------------------------------------------------------
(* What an item of the script looks like on the wire.                      *)
Bytes(i) == IF script[i].type = "file" THEN script[i].payload ELSE encode_frame(script[i])

(* The message or the file that is being read.                             *)
Current == Len(delivered) + 1

Frame == [type : DOMAIN Code, payload : Seq(Byte)]

Typed ==
    /\ script \in Scripts /\ version \in Versions /\ written \in 0..Len(script)
    /\ wire \in Seq(Byte) /\ received \in Seq(Byte)
    /\ ended \in {"no", "shut", "cut"} /\ (ended = "shut" => written = Len(script))
    /\ pc \in {"header", "payload", "file", "done", "failed"}
    /\ payload_ \in Seq(Byte) /\ file \in Seq(Byte)
    /\ delivered \in Seq(Frame) /\ Len(delivered) <= written
    /\ \A i \in 1..Len(delivered) : delivered[i] = script[i]

(* The stream is what was written, one item after the other; pos[i] is     *)
(* where item i begins.                                                    *)
Written(stream, pos) ==
    /\ pos[1] = 0 /\ pos[written + 1] = Len(stream)
    /\ \A i \in 1..written : /\ pos[i + 1] = pos[i] + Len(Bytes(i))
                             /\ PartOf(Bytes(i), stream, pos[i])
    /\ \A i, j \in 1..(written + 1) : i <= j => pos[i] <= pos[j]

(* The reader has taken the stream up to here.                             *)
Consumed(pos) == pos[Current] + Len(payload_) + Len(file)

(* Its buffers hold the beginning of the current item; what has arrived    *)
(* and what is under way follow, and nothing is lost but by a cut.         *)
Reading(stream, pos) ==
    /\ PartOf(payload_, stream, pos[Current])
    /\ PartOf(file, stream, pos[Current])
    /\ PartOf(received, stream, Consumed(pos))
    /\ PartOf(wire, stream, Consumed(pos) + Len(received))
    /\ Consumed(pos) + Len(received) + Len(wire) <= Len(stream)
    /\ ended # "cut" => Consumed(pos) + Len(received) + Len(wire) = Len(stream)

Flow ==
    \E stream \in Seq(Byte), pos \in [1..(written + 1) -> Nat] :
        Written(stream, pos) /\ Reading(stream, pos)

(* The reader takes no more than the frame, or the file announced.         *)
Fetching ==
    /\ payload_ = <<>> /\ delivered # <<>>
    /\ Current = Len(script) /\ script[Current].type = "file"
    /\ Len(file) <= Announced

Stage ==
    /\ pc \in {"header", "payload"} =>
           file = <<>> /\ Current <= Len(script) /\ script[Current].type # "file"
    /\ pc = "header" => Len(payload_) <= kFrameHeaderSize
    /\ pc = "payload" =>
           /\ kFrameHeaderSize <= Len(payload_)
           /\ Len(payload_) <= kFrameHeaderSize + PayloadSize(payload_)
           /\ PayloadSize(payload_) <= MaxPayload
    /\ pc = "file" \/ file # <<>> => Fetching

IInv == Typed /\ Flow /\ Stage /\ LimitIsExact

-----------------------------------------------------------------------------
(* What the assumption says of the script that is run.                     *)
LEMMA ScriptFacts ==
    ASSUME script \in Scripts
    PROVE  /\ Len(script) \in Nat \ {0}
           /\ \A i \in 1..Len(script) :
                /\ script[i].type \in DOMAIN Code \cup {"file"}
                /\ script[i].payload \in Seq(Byte) /\ Len(script[i].payload) \in Nat
                /\ script[i].type # "file" => Len(script[i].payload) < Base * Base
                /\ script[i].type \in {"sync_complete", "file"} <=> i = Len(script)
                /\ script[i].type = "file" <=> i > 1 /\ script[i - 1].type = "transfer_request"
                /\ script[i] = [type |-> script[i].type, payload |-> script[i].payload]
  <1>1. /\ script \in Seq([type : DOMAIN Code \cup {"file"}, payload : Seq(Byte)])
        /\ script # <<>>
        /\ \A i \in DOMAIN script :
             /\ script[i].type # "file" => Len(script[i].payload) < Base * Base
             /\ script[i].type \in {"sync_complete", "file"} <=> i = Len(script)
             /\ script[i].type = "file" <=> i > 1 /\ script[i - 1].type = "transfer_request"
    BY ScriptsAssumption
  <1>2. Len(script) \in Nat \ {0} /\ DOMAIN script = 1..Len(script)
    BY <1>1, EmptySeq, LenProperties
  <1>3. \A i \in 1..Len(script) :
            script[i] \in [type : DOMAIN Code \cup {"file"}, payload : Seq(Byte)]
    BY <1>1, ElementOfSeq
  <1>4. ASSUME NEW i \in 1..Len(script)
        PROVE  /\ script[i].type \in DOMAIN Code \cup {"file"}
               /\ script[i].payload \in Seq(Byte) /\ Len(script[i].payload) \in Nat
               /\ script[i] = [type |-> script[i].type, payload |-> script[i].payload]
    BY <1>3
  <1> QED BY <1>1, <1>2, <1>4

LEMMA Types == DOMAIN Code = {"hello", "sync_complete", "transfer_request"}
  BY DEF Code

(* A number below the square of Base, from its two digits.                 *)
LEMMA TwoDigits ==
    ASSUME NEW size \in Nat, size < Base * Base
    PROVE  /\ size % (Base * Base) = size
           /\ size \div Base \in Byte /\ size % Base \in Byte
           /\ (size \div Base) * Base + (size % Base) = size
  <1>1. Base \in Nat /\ Base > 1
    BY FramingAssumption
  <1>2. size % (Base * Base) = size
    <2>1. Base * Base \in Nat /\ Base * Base > 0
      BY <1>1
    <2> DEFINE square == Base * Base
    <2> HIDE DEF square
    <2> QED BY <2>1 DEF square
  <1>3. size = Base * (size \div Base) + (size % Base) /\ size % Base \in 0..(Base - 1)
        /\ size \div Base \in Nat
    BY <1>1
  <1>4. size \div Base < Base
    <2> DEFINE high == size \div Base
    <2> SUFFICES ASSUME ~(high < Base) PROVE FALSE
      OBVIOUS
    <2>1. high \in Nat /\ size >= Base * high
      BY <1>1, <1>3
    <2> HIDE DEF high
    <2>2. Base * high >= Base * Base
      BY <1>1, <2>1
    <2> QED BY <1>1, <2>1, <2>2
  <1> QED BY <1>1, <1>2, <1>3, <1>4 DEF Byte

(* encode_frame: the header, with the size in two bytes, and the payload.  *)
LEMMA FrameBytes ==
    ASSUME Typed, NEW i \in 1..Len(script), script[i].type # "file"
    PROVE  /\ Bytes(i) \in Seq(Byte)
           /\ Len(Bytes(i)) = kFrameHeaderSize + Len(script[i].payload)
           /\ Bytes(i)[1] = Magic /\ Bytes(i)[2] = version
           /\ Bytes(i)[3] = Code[script[i].type]
           /\ Bytes(i)[4] * Base + Bytes(i)[5] = Len(script[i].payload)
           /\ \A j \in 1..Len(script[i].payload) :
                  Bytes(i)[kFrameHeaderSize + j] = script[i].payload[j]
  <1> DEFINE payload == script[i].payload
             size == Len(payload)
             header == <<Magic, version, Code[script[i].type], size \div Base, size % Base>>
  <1>1. /\ payload \in Seq(Byte) /\ size \in Nat /\ size < Base * Base
        /\ script[i].type \in DOMAIN Code /\ version \in Byte
    BY ScriptFacts, FramingAssumption DEF Typed
  <1>2. /\ size % (Base * Base) = size
        /\ size \div Base \in Byte /\ size % Base \in Byte
        /\ (size \div Base) * Base + (size % Base) = size
    BY <1>1, TwoDigits
  <1>3. Magic \in Byte /\ Code[script[i].type] \in Byte
    BY <1>1, Types, FramingAssumption DEF Magic, Code, Byte
  <1>4. /\ header \in Seq(Byte) /\ Len(header) = 5
        /\ header[1] = Magic /\ header[2] = version /\ header[3] = Code[script[i].type]
        /\ header[4] = size \div Base /\ header[5] = size % Base
    BY <1>1, <1>2, <1>3
  <1>5. Bytes(i) = header \o payload
    BY <1>2 DEF Bytes, encode_frame
  <1> HIDE DEF header, payload
  <1>6. /\ Bytes(i) \in Seq(Byte) /\ Len(Bytes(i)) = 5 + size
        /\ \A k \in 1..5 + size :
               Bytes(i)[k] = IF k <= 5 THEN header[k] ELSE payload[k - 5]
    <2>1. /\ header \o payload \in Seq(Byte)
          /\ Len(header \o payload) = Len(header) + Len(payload)
          /\ \A k \in 1..Len(header) + Len(payload) :
                 (header \o payload)[k] =
                     IF k <= Len(header) THEN header[k] ELSE payload[k - Len(header)]
      BY <1>1, <1>4, ConcatProperties
    <2> QED BY <1>4, <1>5, <2>1
  <1>7. \A k \in 1..5 : Bytes(i)[k] = header[k]
    BY <1>1, <1>6
  <1>8. \A j \in 1..size : Bytes(i)[5 + j] = payload[j]
    <2> TAKE j \in 1..size
    <2>1. 5 + j \in 1..5 + size /\ ~(5 + j <= 5) /\ (5 + j) - 5 = j
      BY <1>1
    <2> QED BY <1>6, <2>1
  <1>9. /\ Bytes(i)[1] = Magic /\ Bytes(i)[2] = version
        /\ Bytes(i)[3] = Code[script[i].type]
        /\ Bytes(i)[4] * Base + Bytes(i)[5] = size
    BY <1>2, <1>4, <1>7
  <1> QED BY <1>6, <1>8, <1>9 DEF payload, kFrameHeaderSize

LEMMA BytesType ==
    ASSUME Typed
    PROVE  \A i \in 1..Len(script) : Bytes(i) \in Seq(Byte) /\ Len(Bytes(i)) \in Nat
  <1> SUFFICES ASSUME NEW i \in 1..Len(script) PROVE Bytes(i) \in Seq(Byte)
    OBVIOUS
  <1>1. CASE script[i].type = "file"
    BY <1>1, ScriptFacts DEF Bytes, Typed
  <1> QED BY <1>1, FrameBytes

-----------------------------------------------------------------------------
LEMMA WrittenKept ==
    ASSUME NEW stream, NEW pos, Written(stream, pos), UNCHANGED <<script, version, written>>
    PROVE  Written(stream, pos)'
  <1>1. \A i : Bytes(i)' = Bytes(i)
    BY DEF Bytes, encode_frame
  <1> QED BY <1>1 DEF Written

LEMMA InitInv == Init => IInv
  <1> SUFFICES ASSUME Init PROVE IInv
    OBVIOUS
  <1>1. Len(script) \in Nat \ {0} /\ script[1].type # "file"
    <2>1. Len(script) \in Nat \ {0}
      BY ScriptFacts DEF Init
    <2>2. 1 \in 1..Len(script) /\ ~(1 > 1)
      BY <2>1
    <2> QED BY <2>1, <2>2, ScriptFacts DEF Init
  <1>2. Typed
    BY <1>1 DEF Init, Typed
  <1>3. Flow
    <2> DEFINE stream == <<>>
               pos == [i \in 1..1 |-> 0]
    <2>1. stream \in Seq(Byte) /\ pos \in [1..(written + 1) -> Nat]
      BY DEF Init
    <2>2. Written(stream, pos)
      BY DEF Init, Written
    <2>3. Reading(stream, pos)
      <3>1. PartOf(<<>>, stream, 0)
        BY EmptyPart
      <3> QED BY <3>1 DEF Init, Reading, Consumed, Current
    <2> QED BY <2>1, <2>2, <2>3, Zenon DEF Flow
  <1>4. Stage
    BY <1>1 DEF Init, Stage, Current, kFrameHeaderSize
  <1>5. LimitIsExact
    BY FramingAssumption DEF Init, LimitIsExact, kFrameHeaderSize
  <1> QED BY <1>2, <1>3, <1>4, <1>5 DEF IInv

(* The quantities of the invariant are numbers.                            *)
LEMMA Numbers ==
    ASSUME Typed, NEW pos \in [1..(written + 1) -> Nat]
    PROVE  /\ written \in Nat /\ Len(delivered) \in Nat
           /\ Current \in 1..(written + 1) /\ pos[Current] \in Nat
           /\ Len(payload_) \in Nat /\ Len(file) \in Nat
           /\ Len(received) \in Nat /\ Len(wire) \in Nat
           /\ Consumed(pos) = pos[Current] + Len(payload_) + Len(file)
           /\ Consumed(pos) \in Nat
  <1>1. /\ written \in Nat /\ Len(delivered) \in Nat
        /\ Len(payload_) \in Nat /\ Len(file) \in Nat
        /\ Len(received) \in Nat /\ Len(wire) \in Nat /\ Len(delivered) <= written
    BY ScriptFacts DEF Typed
  <1>2. Current \in 1..(written + 1)
    BY <1>1 DEF Current
  <1>3. pos[Current] \in Nat
    BY <1>2
  <1> QED BY <1>1, <1>2, <1>3 DEF Consumed

(* Bytes that are read belong to an item that was written.                 *)
LEMMA ReadIsWritten ==
    ASSUME Typed, NEW stream \in Seq(Byte), NEW pos \in [1..(written + 1) -> Nat],
           Written(stream, pos), Reading(stream, pos),
           payload_ # <<>> \/ file # <<>> \/ received # <<>>
    PROVE  Current \in 1..written
  <1>1. /\ Current \in 1..(written + 1) /\ pos[Current] \in Nat /\ written \in Nat
        /\ Len(payload_) \in Nat /\ Len(file) \in Nat /\ Len(received) \in Nat
        /\ Len(wire) \in Nat /\ Len(stream) \in Nat
    BY Numbers
  <1>2. pos[Current] + Len(payload_) + Len(file) + Len(received) + Len(wire) <= Len(stream)
    BY DEF Reading, Consumed
  <1>3. Len(payload_) > 0 \/ Len(file) > 0 \/ Len(received) > 0
    BY EmptySeq DEF Typed
  <1>4. pos[Current] < pos[written + 1]
    BY <1>1, <1>2, <1>3 DEF Written
  <1>5. Current # written + 1
    BY <1>1, <1>4
  <1> QED BY <1>1, <1>5

(* A read takes the first bytes of what has arrived.                       *)
LEMMA Take ==
    ASSUME NEW stream \in Seq(Byte), NEW base \in Nat, NEW buffer \in Seq(Byte),
           NEW arrived \in Seq(Byte), NEW n \in 1..Len(arrived),
           PartOf(buffer, stream, base), PartOf(arrived, stream, base + Len(buffer))
    PROVE  LET longer == buffer \o SubSeq(arrived, 1, n)
               rest == SubSeq(arrived, n + 1, Len(arrived))
           IN  /\ longer \in Seq(Byte) /\ Len(longer) = Len(buffer) + n
               /\ PartOf(longer, stream, base)
               /\ rest \in Seq(Byte) /\ Len(rest) = Len(arrived) - n
               /\ PartOf(rest, stream, base + Len(buffer) + n)
               /\ \A i \in 1..Len(buffer) : longer[i] = buffer[i]
  <1> DEFINE first == SubSeq(arrived, 1, n)
             rest == SubSeq(arrived, n + 1, Len(arrived))
             from == base + Len(buffer)
  <1>1. from \in Nat /\ Len(buffer) \in Nat
    OBVIOUS
  <1> HIDE DEF from
  <1>2. PartOf(arrived, stream, from)
    BY DEF from
  <1>3. /\ first \in Seq(Byte) /\ Len(first) = n
        /\ rest \in Seq(Byte) /\ Len(rest) = Len(arrived) - n
    BY CutType
  <1>4. PartOf(first, stream, from) /\ PartOf(rest, stream, from + n)
    BY <1>1, <1>2, CutParts
  <1> HIDE DEF first, rest
  <1>5. PartOf(buffer \o first, stream, base)
    BY <1>3, <1>4, JoinParts DEF from
  <1>6. /\ buffer \o first \in Seq(Byte) /\ Len(buffer \o first) = Len(buffer) + n
        /\ \A i \in 1..Len(buffer) : (buffer \o first)[i] = buffer[i]
    <2>1. /\ buffer \o first \in Seq(Byte)
          /\ Len(buffer \o first) = Len(buffer) + Len(first)
          /\ \A i \in 1..Len(buffer) + Len(first) :
                 (buffer \o first)[i] =
                     IF i <= Len(buffer) THEN buffer[i] ELSE first[i - Len(buffer)]
      BY <1>3, ConcatProperties
    <2>2. \A i \in 1..Len(buffer) : i \in 1..Len(buffer) + Len(first) /\ i <= Len(buffer)
      BY <1>1, <1>3
    <2> QED BY <1>3, <2>1, <2>2
  <1> QED BY <1>3, <1>4, <1>5, <1>6 DEF first, rest, from

(* What a step of the reader that takes no bytes leaves as it is.          *)
LEMMA FlowKept ==
    ASSUME Flow, UNCHANGED <<script, version, written, wire, received, payload_, file, delivered>>,
           ended' = ended \/ (ended = "no" /\ ended' = "shut")
    PROVE  Flow'
  <1>1. PICK stream \in Seq(Byte), pos \in [1..(written + 1) -> Nat] :
            Written(stream, pos) /\ Reading(stream, pos)
    BY DEF Flow
  <1>2. Written(stream, pos)'
    BY <1>1, WrittenKept
  <1>3. Reading(stream, pos)'
    BY <1>1 DEF Reading, Consumed, Current
  <1>4. pos \in [1..(written' + 1) -> Nat]
    OBVIOUS
  <1> QED BY <1>2, <1>3, <1>4, Zenon DEF Flow

(* Nothing the writer or the network does reaches the reader's state.      *)
LEMMA ReaderKept ==
    ASSUME Stage, LimitIsExact, UNCHANGED <<script, version, pc, payload_, file, delivered>>,
           written \in Nat, written' \in {written, written + 1},
           ended' = ended \/ ended = "no"
    PROVE  Stage' /\ LimitIsExact'
  <1>1. Stage'
    BY DEF Stage, Fetching, Current, Announced, PayloadSize
  <1>2. LimitIsExact'
    <2>1. ASSUME pc' = "failed"
          PROVE  \/ ended' = "cut" \/ version' # Version
                 \/ ended' = "shut" /\ delivered' # <<>> /\ Announced' > Len(file')
                 \/ \E i \in 1..written' : /\ IsMessage(script'[i])
                                           /\ Len(script'[i].payload) > MaxPayload
      <3>1. ASSUME NEW i \in 1..written PROVE i \in 1..written'
        OBVIOUS
      <3> QED BY <2>1, <3>1 DEF LimitIsExact, Announced, IsMessage
    <2> QED BY <2>1 DEF LimitIsExact, IsMessage
  <1> QED BY <1>1, <1>2

LEMMA CloseInv == IInv /\ Close => IInv'
  <1> SUFFICES ASSUME IInv, Close PROVE IInv'
    OBVIOUS
  <1>1. /\ UNCHANGED <<script, version, written, received, wire, pc, payload_, file, delivered>>
        /\ ended = "no" /\ ended' = "shut" /\ written = Len(script)
    BY DEF Close
  <1>2. Typed'
    BY <1>1 DEF IInv, Typed
  <1>3. Flow'
    BY <1>1, FlowKept DEF IInv
  <1>4. Stage' /\ LimitIsExact'
    BY <1>1, ReaderKept, ScriptFacts DEF IInv, Typed
  <1> QED BY <1>2, <1>3, <1>4 DEF IInv

LEMMA SegmentInv == IInv /\ Segment => IInv'
  <1> SUFFICES ASSUME IInv, Segment PROVE IInv'
    OBVIOUS
  <1>1. PICK n \in 1..Len(wire) : /\ received' = received \o SubSeq(wire, 1, n)
                                  /\ wire' = SubSeq(wire, n + 1, Len(wire))
    BY DEF Segment
  <1>2. UNCHANGED <<script, version, written, ended, pc, payload_, delivered, file>>
    BY DEF Segment
  <1>3. PICK stream \in Seq(Byte), pos \in [1..(written + 1) -> Nat] :
            Written(stream, pos) /\ Reading(stream, pos)
    BY DEF IInv, Flow
  <1>4. /\ Consumed(pos) \in Nat /\ received \in Seq(Byte) /\ wire \in Seq(Byte)
        /\ Len(received) \in Nat /\ Len(wire) \in Nat
    BY Numbers DEF IInv, Typed
  <1>5. /\ received' \in Seq(Byte) /\ Len(received') = Len(received) + n
        /\ PartOf(received', stream, Consumed(pos))
        /\ wire' \in Seq(Byte) /\ Len(wire') = Len(wire) - n
        /\ PartOf(wire', stream, Consumed(pos) + Len(received) + n)
    <2> DEFINE from == Consumed(pos)
    <2>1. /\ PartOf(received, stream, from) /\ PartOf(wire, stream, from + Len(received))
          /\ from \in Nat
      BY <1>3, <1>4 DEF Reading
    <2> HIDE DEF from
    <2>2. LET longer == received \o SubSeq(wire, 1, n)
              rest == SubSeq(wire, n + 1, Len(wire))
          IN  /\ longer \in Seq(Byte) /\ Len(longer) = Len(received) + n
              /\ PartOf(longer, stream, from)
              /\ rest \in Seq(Byte) /\ Len(rest) = Len(wire) - n
              /\ PartOf(rest, stream, from + Len(received) + n)
      <3>1. received \in Seq(Byte) /\ wire \in Seq(Byte)
        BY <1>4
      <3> QED BY <2>1, <3>1, Take
    <2>3. /\ received' \in Seq(Byte) /\ Len(received') = Len(received) + n
          /\ PartOf(received', stream, from)
          /\ wire' \in Seq(Byte) /\ Len(wire') = Len(wire) - n
          /\ PartOf(wire', stream, from + Len(received) + n)
      BY <1>1, <2>2
    <2> QED BY <2>3 DEF from
  <1>6. Typed'
    BY <1>2, <1>5 DEF IInv, Typed
  <1>7. Consumed(pos)' = Consumed(pos)
    BY <1>2 DEF Consumed, Current
  <1>8. /\ Len(received') + Len(wire') = Len(received) + Len(wire)
        /\ Consumed(pos) + Len(received') + Len(wire') = Consumed(pos) + Len(received) + Len(wire)
        /\ Consumed(pos) + Len(received') = Consumed(pos) + Len(received) + n
    <2> DEFINE here == Len(received')
               there == Len(wire')
               from == Consumed(pos)
               a == Len(received)
               b == Len(wire)
    <2>1. /\ here = a + n /\ there = b - n /\ n \in Nat
          /\ from \in Nat /\ a \in Nat /\ b \in Nat
      BY <1>4, <1>5
    <2> HIDE DEF here, there, from, a, b
    <2>2. /\ here + there = a + b /\ from + here + there = from + a + b
          /\ from + here = from + a + n
      BY <2>1
    <2> QED BY <2>2 DEF here, there, from, a, b
  <1>9. Reading(stream, pos)'
    <2>1. /\ PartOf(payload_', stream, pos[Current']) /\ PartOf(file', stream, pos[Current'])
          /\ ended' = ended
      BY <1>2, <1>3 DEF Reading, Current
    <2>2. /\ PartOf(received', stream, Consumed(pos)')
          /\ PartOf(wire', stream, Consumed(pos)' + Len(received'))
      BY <1>5, <1>7, <1>8
    <2>3. /\ Consumed(pos)' + Len(received') + Len(wire') <= Len(stream)
          /\ ended' # "cut" => Consumed(pos)' + Len(received') + Len(wire') = Len(stream)
      BY <1>3, <1>7, <1>8, <2>1 DEF Reading
    <2> QED BY <2>1, <2>2, <2>3 DEF Reading
  <1>10. Flow'
    BY <1>2, <1>3, <1>9, WrittenKept, Zenon DEF Flow
  <1>11. Stage' /\ LimitIsExact'
    BY <1>2, ReaderKept, ScriptFacts DEF IInv, Typed
  <1> QED BY <1>6, <1>10, <1>11 DEF IInv

LEMMA CutInv == IInv /\ Cut => IInv'
  <1> SUFFICES ASSUME IInv, Cut PROVE IInv'
    OBVIOUS
  <1>1. /\ ended = "no" /\ ended' = "cut" /\ wire' = <<>> /\ received' \in {received, <<>>}
        /\ UNCHANGED <<script, version, written, pc, payload_, delivered, file>>
    BY DEF Cut
  <1>2. Typed'
    <2>1. received' \in Seq(Byte) /\ wire' \in Seq(Byte)
      BY <1>1, EmptySeq DEF IInv, Typed
    <2> QED BY <1>1, <2>1 DEF IInv, Typed
  <1>3. PICK stream \in Seq(Byte), pos \in [1..(written + 1) -> Nat] :
            Written(stream, pos) /\ Reading(stream, pos)
    BY DEF IInv, Flow
  <1>4. Consumed(pos) \in Nat /\ Len(received) \in Nat /\ Len(wire) \in Nat /\ Len(stream) \in Nat
    BY Numbers DEF IInv
  <1>5. Consumed(pos)' = Consumed(pos)
    BY <1>1 DEF Consumed, Current
  <1>6. Reading(stream, pos)'
    <2>1. /\ PartOf(payload_', stream, pos[Current']) /\ PartOf(file', stream, pos[Current'])
      BY <1>1, <1>3 DEF Reading, Current
    <2>2. /\ PartOf(received', stream, Consumed(pos)')
          /\ PartOf(wire', stream, Consumed(pos)' + Len(received'))
      BY <1>1, <1>3, <1>5, EmptyPart DEF Reading
    <2>3. Consumed(pos) + Len(received') + Len(wire') <= Len(stream)
      <3>1. Consumed(pos) + Len(received) + Len(wire) <= Len(stream)
        BY <1>3 DEF Reading
      <3>2. Len(wire') = 0 /\ (Len(received') = Len(received) \/ Len(received') = 0)
        BY <1>1
      <3> DEFINE here == Len(received')
                 there == Len(wire')
      <3>3. there = 0 /\ (here = Len(received) \/ here = 0)
        BY <3>2
      <3> HIDE DEF here, there
      <3>4. Consumed(pos) + here + there <= Len(stream)
        BY <1>4, <3>1, <3>3
      <3> QED BY <3>4 DEF here, there
    <2> QED BY <1>1, <1>5, <2>1, <2>2, <2>3 DEF Reading
  <1>7. Flow'
    BY <1>1, <1>3, <1>6, WrittenKept, Zenon DEF Flow
  <1>8. Stage' /\ LimitIsExact'
    BY <1>1, ReaderKept, ScriptFacts DEF IInv, Typed
  <1> QED BY <1>2, <1>7, <1>8 DEF IInv

(* A write adds an item to the stream.                                     *)
LEMMA AsyncWriteInv == IInv /\ async_write_message => IInv'
  <1> SUFFICES ASSUME IInv, async_write_message PROVE IInv'
    OBVIOUS
  <1>20. PICK next : next = written + 1
    OBVIOUS
  <1>21. written \in Nat /\ Len(script) \in Nat /\ written < Len(script)
    BY ScriptFacts DEF IInv, Typed, async_write_message
  <1>22. next \in 1..Len(script)
    BY <1>20, <1>21
  <1>23. PICK more \in Seq(Byte) : more = Bytes(next)
    BY <1>22, BytesType DEF IInv
  <1>1. /\ ended = "no" /\ written < Len(script) /\ written' = next
        /\ wire' = wire \o more
        /\ UNCHANGED <<script, version, received, ended, pc, payload_, delivered, file>>
    BY <1>20, <1>23 DEF async_write_message, Bytes
  <1>2. /\ written \in Nat /\ next \in 1..Len(script) /\ Len(script) \in Nat
        /\ next = written + 1 /\ more \in Seq(Byte) /\ Len(more) \in Nat
    BY <1>20, <1>21, <1>22, <1>23
  <1>3. PICK stream \in Seq(Byte), pos \in [1..(written + 1) -> Nat] :
            Written(stream, pos) /\ Reading(stream, pos)
    BY DEF IInv, Flow
  <1>24. PICK longer \in Seq(Byte) : longer = stream \o more
    BY <1>2, ConcatProperties
  <1>25. PICK later : later = [i \in 1..(next + 1) |-> IF i <= next THEN pos[i]
                                                     ELSE Len(stream) + Len(more)]
    OBVIOUS
  <1>4. \A i : Bytes(i)' = Bytes(i)
    BY <1>1 DEF Bytes, encode_frame
  <1>5. /\ longer \in Seq(Byte) /\ Len(longer) = Len(stream) + Len(more)
        /\ Len(stream) \in Nat /\ PartOf(more, longer, Len(stream))
        /\ \A seq \in Seq(Byte), from \in Nat :
               PartOf(seq, stream, from) /\ from + Len(seq) <= Len(stream)
               => PartOf(seq, longer, from)
    BY <1>2, <1>24, GrownParts
  <1>6. /\ later \in [1..(written' + 1) -> Nat] /\ later[next + 1] = Len(longer)
        /\ \A i \in 1..next : later[i] = pos[i]
        /\ pos[next] = Len(stream) /\ pos[1] = 0
    BY <1>1, <1>2, <1>3, <1>5, <1>25 DEF Written
  <1>7. Written(longer, later)'
    <2>1. later[1] = 0 /\ later[written' + 1] = Len(longer)
      BY <1>1, <1>2, <1>6
    <2>2. ASSUME NEW i \in 1..next
          PROVE  later[i + 1] = later[i] + Len(Bytes(i)) /\ PartOf(Bytes(i), longer, later[i])
      <3>1. CASE i = next
        BY <3>1, <1>5, <1>6, <1>23
      <3>2. CASE i # next
        <4>1. i \in 1..written /\ i \in 1..Len(script) /\ i + 1 \in 1..next
          BY <3>2, <1>2
        <4>2. /\ pos[i + 1] = pos[i] + Len(Bytes(i)) /\ PartOf(Bytes(i), stream, pos[i])
              /\ pos[i + 1] <= pos[written + 1] /\ pos[i] \in Nat /\ Bytes(i) \in Seq(Byte)
          <5>1. i + 1 <= written + 1 /\ i + 1 \in 1..(written + 1) /\ i \in 1..(written + 1)
                /\ written + 1 \in 1..(written + 1)
            BY <4>1, <1>2
          <5> QED BY <4>1, <5>1, <1>3, BytesType DEF Written, IInv
        <4>3. PartOf(Bytes(i), longer, pos[i])
          <5>1. pos[i] + Len(Bytes(i)) <= Len(stream)
            BY <4>2, <1>2, <1>6
          <5> QED BY <4>2, <5>1, <1>5
        <4> QED BY <4>1, <4>2, <4>3, <1>6
      <3> QED BY <3>1, <3>2
    <2>3. ASSUME NEW i \in 1..(next + 1), NEW j \in 1..(next + 1), i <= j
          PROVE  later[i] <= later[j]
      <3>1. CASE j <= next
        <4>1. /\ i \in 1..(written + 1) /\ j \in 1..(written + 1)
              /\ i \in 1..next /\ j \in 1..next
          BY <3>1, <2>3, <1>2
        <4>2. pos[i] <= pos[j]
          BY <4>1, <2>3, <1>3 DEF Written
        <4> QED BY <4>1, <4>2, <1>6
      <3>2. CASE j = next + 1 /\ i <= next
        <4>1. i \in 1..(written + 1) /\ written + 1 \in 1..(written + 1) /\ i <= written + 1
          BY <3>2, <1>2
        <4>2. pos[i] <= Len(stream) /\ pos[i] \in Nat
          BY <4>1, <1>3, <1>6 DEF Written
        <4> QED BY <3>2, <4>1, <4>2, <1>2, <1>5, <1>6
      <3>3. CASE i = next + 1 /\ j = next + 1
        BY <3>3, <1>2, <1>5, <1>6
      <3> QED BY <3>1, <3>2, <3>3, <2>3, <1>2
    <2> QED BY <1>1, <1>4, <2>1, <2>2, <2>3 DEF Written
  <1>8. /\ Current \in 1..next /\ pos[Current] \in Nat /\ Consumed(pos) \in Nat
        /\ received \in Seq(Byte) /\ wire \in Seq(Byte)
        /\ payload_ \in Seq(Byte) /\ file \in Seq(Byte)
        /\ Len(received) \in Nat /\ Len(wire) \in Nat
        /\ Len(payload_) \in Nat /\ Len(file) \in Nat
        /\ Consumed(pos) = pos[Current] + Len(payload_) + Len(file)
    <2>1. /\ Current \in 1..(written + 1) /\ pos[Current] \in Nat
          /\ Len(payload_) \in Nat /\ Len(file) \in Nat
          /\ Len(received) \in Nat /\ Len(wire) \in Nat
          /\ Consumed(pos) = pos[Current] + Len(payload_) + Len(file)
          /\ Consumed(pos) \in Nat
      BY Numbers DEF IInv
    <2>2. /\ received \in Seq(Byte) /\ wire \in Seq(Byte)
          /\ payload_ \in Seq(Byte) /\ file \in Seq(Byte)
      BY DEF IInv, Typed
    <2> QED BY <2>1, <2>2, <1>2
  <1>9. Consumed(pos) + Len(received) + Len(wire) = Len(stream)
    BY <1>1, <1>3 DEF Reading
  <1>26. /\ PartOf(payload_, stream, pos[Current]) /\ PartOf(file, stream, pos[Current])
         /\ PartOf(received, stream, Consumed(pos))
         /\ PartOf(wire, stream, Consumed(pos) + Len(received))
    BY <1>3 DEF Reading
  <1>27. /\ pos[Current] + Len(payload_) <= Len(stream)
         /\ pos[Current] + Len(file) <= Len(stream)
         /\ Consumed(pos) + Len(received) <= Len(stream)
    <2> DEFINE at == pos[Current]
               from == Consumed(pos)
               a == Len(payload_)
               b == Len(file)
               c == Len(received)
               d == Len(wire)
               e == Len(stream)
    <2>1. /\ at \in Nat /\ a \in Nat /\ b \in Nat /\ c \in Nat /\ d \in Nat
          /\ from = at + a + b /\ from + c + d = e
      BY <1>8, <1>9
    <2> HIDE DEF at, from, a, b, c, d, e
    <2>2. at + a <= e /\ at + b <= e /\ from + c <= e
      BY <2>1
    <2> QED BY <2>2 DEF at, from, a, b, c, e
  <1>10. Consumed(later)' = Consumed(pos) /\ later[Current'] = pos[Current]
         /\ Current' = Current
    BY <1>1, <1>6, <1>8 DEF Consumed, Current
  <1>11. wire' \in Seq(Byte) /\ Len(wire') = Len(wire) + Len(more)
    BY <1>1, <1>2, <1>8
  <1>12. Reading(longer, later)'
    <2>1. PartOf(payload_, longer, pos[Current]) /\ PartOf(file, longer, pos[Current])
      BY <1>5, <1>8, <1>26, <1>27
    <2>2. PartOf(received, longer, Consumed(pos))
      BY <1>5, <1>8, <1>26, <1>27
    <2>3. PartOf(wire', longer, Consumed(pos) + Len(received))
      <3> DEFINE from == Consumed(pos) + Len(received)
      <3>1. from \in Nat /\ from + Len(wire) = Len(stream) /\ PartOf(wire, stream, from)
        <4>1. from \in Nat
          BY <1>8
        <4> QED BY <4>1, <1>9, <1>26
      <3> HIDE DEF from
      <3>4. from + Len(wire) <= Len(stream)
        BY <3>1, <1>5
      <3>2. PartOf(wire, longer, from) /\ PartOf(more, longer, from + Len(wire))
        <4>1. PartOf(wire, longer, from)
          BY <3>1, <3>4, <1>5, <1>8
        <4> QED BY <3>1, <4>1, <1>5
      <3>3. PartOf(wire \o more, longer, from)
        BY <3>1, <3>2, <1>2, <1>8, JoinParts
      <3> QED BY <3>3, <1>1 DEF from
    <2>4. Consumed(pos) + Len(received) + Len(wire') = Len(longer)
      <3> DEFINE there == Len(wire')
                 all == Len(longer)
                 a == Consumed(pos)
                 b == Len(received)
                 c == Len(wire)
                 d == Len(more)
                 e == Len(stream)
      <3>1. /\ there = c + d /\ all = e + d /\ a + b + c = e
            /\ a \in Nat /\ b \in Nat /\ c \in Nat /\ d \in Nat /\ e \in Nat
        BY <1>2, <1>5, <1>8, <1>9, <1>11
      <3> HIDE DEF there, all, a, b, c, d, e
      <3>2. a + b + there = all
        BY <3>1
      <3> QED BY <3>2 DEF there, all, a, b
    <2>5. Len(longer) <= Len(longer)
      BY <1>2, <1>5
    <2> QED BY <1>1, <1>10, <2>1, <2>2, <2>3, <2>4, <2>5 DEF Reading
  <1>13. Flow'
    BY <1>5, <1>6, <1>7, <1>12, Zenon DEF Flow
  <1>14. Typed'
    <2>1. written' \in 0..Len(script) /\ Len(delivered) <= written'
      BY <1>1, <1>2 DEF IInv, Typed
    <2> QED BY <1>1, <1>11, <2>1 DEF IInv, Typed
  <1>15. Stage' /\ LimitIsExact'
    BY <1>1, <1>2, ReaderKept DEF IInv
  <1> QED BY <1>13, <1>14, <1>15 DEF IInv

(* The beginning of a frame, once its header is complete.                  *)
LEMMA Header ==
    ASSUME Typed, Stage, NEW stream \in Seq(Byte), NEW pos \in [1..(written + 1) -> Nat],
           Written(stream, pos), Reading(stream, pos),
           pc \in {"header", "payload"}, kFrameHeaderSize <= Len(payload_)
    PROVE  /\ Current \in 1..written /\ Current \in 1..Len(script)
           /\ script[Current].type # "file"
           /\ PayloadSize(payload_) = Len(script[Current].payload)
           /\ PayloadSize(payload_) \in Nat
           /\ Len(Bytes(Current)) = kFrameHeaderSize + PayloadSize(payload_)
           /\ Len(payload_) <= Len(Bytes(Current))
           /\ \A i \in 1..Len(payload_) : payload_[i] = Bytes(Current)[i]
  <1>1. Len(payload_) \in Nat /\ payload_ # <<>> /\ kFrameHeaderSize = 5
    BY Numbers DEF kFrameHeaderSize
  <1>2. Current \in 1..written /\ Current \in 1..Len(script) /\ script[Current].type # "file"
    <2>1. Current \in 1..written
      BY <1>1, ReadIsWritten
    <2> QED BY <2>1, ScriptFacts DEF Stage, Typed
  <1>3. /\ Bytes(Current) \in Seq(Byte)
        /\ Len(Bytes(Current)) = 5 + Len(script[Current].payload)
        /\ Bytes(Current)[4] * Base + Bytes(Current)[5] = Len(script[Current].payload)
        /\ Len(script[Current].payload) \in Nat
    BY <1>1, <1>2, FrameBytes, ScriptFacts DEF Typed
  <1>4. \A i \in 1..Len(payload_) : payload_[i] = stream[pos[Current] + i]
    BY DEF Reading, PartOf
  <1>5. \A i \in 1..Len(Bytes(Current)) : Bytes(Current)[i] = stream[pos[Current] + i]
    <2>1. PartOf(Bytes(Current), stream, pos[Current])
      BY <1>2 DEF Written
    <2> QED BY <2>1 DEF PartOf
  <1>6. payload_[4] = Bytes(Current)[4] /\ payload_[5] = Bytes(Current)[5]
    <2>1. /\ 4 \in 1..Len(payload_) /\ 5 \in 1..Len(payload_)
          /\ 4 \in 1..Len(Bytes(Current)) /\ 5 \in 1..Len(Bytes(Current))
      BY <1>1, <1>3
    <2> QED BY <2>1, <1>4, <1>5
  <1>7. PayloadSize(payload_) = Len(script[Current].payload)
    BY <1>3, <1>6 DEF PayloadSize
  <1>8. Len(payload_) <= Len(Bytes(Current))
    BY <1>1, <1>3, <1>7 DEF Stage
  <1>9. \A i \in 1..Len(payload_) : payload_[i] = Bytes(Current)[i]
    <2> TAKE i \in 1..Len(payload_)
    <2>1. i \in 1..Len(Bytes(Current))
      BY <1>1, <1>3, <1>8
    <2> QED BY <2>1, <1>4, <1>5
  <1> QED BY <1>1, <1>2, <1>3, <1>7, <1>8, <1>9

(* The size announced by the last message.                                 *)
LEMMA FirstByte ==
    ASSUME NEW messages \in Seq(Frame), messages # <<>>
    PROVE  LET request == messages[Len(messages)].payload
           IN  (IF request = <<>> THEN 0 ELSE request[1]) \in Nat
  <1>1. PICK last : last = Len(messages)
    OBVIOUS
  <1>2. last \in 1..Len(messages)
    BY <1>1, EmptySeq, LenProperties
  <1>3. messages[last] \in Frame
    BY <1>2, ElementOfSeq
  <1>4. PICK request \in Seq(Byte) : request = messages[last].payload
    BY <1>3 DEF Frame
  <1>5. CASE request = <<>>
    BY <1>1, <1>4, <1>5
  <1>6. CASE request # <<>>
    <2>1. 1 \in 1..Len(request)
      BY <1>6, EmptySeq, LenProperties
    <2>2. request[1] \in Byte
      BY <2>1, ElementOfSeq
    <2>3. request[1] \in Nat
      BY <2>2, FramingAssumption DEF Byte
    <2> QED BY <1>1, <1>4, <1>6, <2>3
  <1> QED BY <1>5, <1>6

LEMMA AnnouncedType == Typed /\ delivered # <<>> => Announced \in Nat
  BY FirstByte DEF Typed, Announced

(* A read, of a header, of a payload or of a file.                         *)
LEMMA TakeFlow ==
    ASSUME Typed, NEW stream \in Seq(Byte), NEW pos \in [1..(written + 1) -> Nat],
           Written(stream, pos), Reading(stream, pos), NEW n \in 1..Len(received),
           received' = SubSeq(received, n + 1, Len(received)),
           \/ /\ file = <<>> /\ UNCHANGED file
              /\ payload_' = payload_ \o SubSeq(received, 1, n)
           \/ /\ payload_ = <<>> /\ UNCHANGED payload_
              /\ file' = file \o SubSeq(received, 1, n),
           UNCHANGED <<script, version, written, wire, ended, delivered>>
    PROVE  /\ Flow' /\ received' \in Seq(Byte)
           /\ payload_' \in Seq(Byte) /\ file' \in Seq(Byte)
           /\ \/ UNCHANGED file /\ Len(payload_') = Len(payload_) + n
              \/ UNCHANGED payload_ /\ Len(file') = Len(file) + n
           /\ UNCHANGED payload_ \/ \A i \in 1..Len(payload_) : payload_'[i] = payload_[i]
  <1>1. PICK base \in Nat : base = pos[Current]
    BY Numbers
  <1>2. /\ Len(payload_) \in Nat /\ Len(file) \in Nat /\ Len(received) \in Nat
        /\ Len(wire) \in Nat /\ n \in Nat /\ Len(stream) \in Nat
        /\ payload_ \in Seq(Byte) /\ file \in Seq(Byte) /\ received \in Seq(Byte)
        /\ Consumed(pos) = base + Len(payload_) + Len(file)
    <2>1. /\ Len(payload_) \in Nat /\ Len(file) \in Nat /\ Len(received) \in Nat
          /\ Len(wire) \in Nat
          /\ Consumed(pos) = pos[Current] + Len(payload_) + Len(file)
      BY Numbers
    <2>2. payload_ \in Seq(Byte) /\ file \in Seq(Byte) /\ received \in Seq(Byte)
      BY DEF Typed
    <2> QED BY <1>1, <2>1, <2>2
  <1>3. /\ PartOf(payload_, stream, base) /\ PartOf(file, stream, base)
        /\ PartOf(received, stream, Consumed(pos))
        /\ PartOf(wire, stream, Consumed(pos) + Len(received))
        /\ Consumed(pos) + Len(received) + Len(wire) <= Len(stream)
        /\ ended # "cut" => Consumed(pos) + Len(received) + Len(wire) = Len(stream)
    BY <1>1 DEF Reading
  <1>4. /\ payload_' \in Seq(Byte) /\ file' \in Seq(Byte) /\ received' \in Seq(Byte)
        /\ PartOf(payload_', stream, base) /\ PartOf(file', stream, base)
        /\ PartOf(received', stream, Consumed(pos) + n)
        /\ Len(received') = Len(received) - n
        /\ \/ /\ UNCHANGED file /\ Len(payload_') = Len(payload_) + n
              /\ \A i \in 1..Len(payload_) : payload_'[i] = payload_[i]
           \/ UNCHANGED payload_ /\ Len(file') = Len(file) + n
    <2>1. CASE /\ file = <<>> /\ UNCHANGED file
               /\ payload_' = payload_ \o SubSeq(received, 1, n)
      <3>1. Consumed(pos) = base + Len(payload_)
        BY <1>2, <2>1
      <3>2. PartOf(received, stream, base + Len(payload_))
        BY <1>3, <3>1
      <3>3. /\ payload_' \in Seq(Byte) /\ Len(payload_') = Len(payload_) + n
            /\ PartOf(payload_', stream, base)
            /\ received' \in Seq(Byte) /\ Len(received') = Len(received) - n
            /\ PartOf(received', stream, base + Len(payload_) + n)
            /\ \A i \in 1..Len(payload_) : payload_'[i] = payload_[i]
        BY <1>2, <1>3, <2>1, <3>2, Take
      <3> QED BY <1>2, <1>3, <2>1, <3>1, <3>3
    <2>2. CASE /\ payload_ = <<>> /\ UNCHANGED payload_
               /\ file' = file \o SubSeq(received, 1, n)
      <3>1. Consumed(pos) = base + Len(file)
        BY <1>2, <2>2
      <3>2. PartOf(received, stream, base + Len(file))
        BY <1>3, <3>1
      <3>3. /\ file' \in Seq(Byte) /\ Len(file') = Len(file) + n
            /\ PartOf(file', stream, base)
            /\ received' \in Seq(Byte) /\ Len(received') = Len(received) - n
            /\ PartOf(received', stream, base + Len(file) + n)
        BY <1>2, <1>3, <2>2, <3>2, Take
      <3> QED BY <1>2, <1>3, <2>2, <3>1, <3>3
    <2> QED BY <2>1, <2>2
  <1>5. pos[Current'] = base
    BY <1>1 DEF Current
  <1>6. Consumed(pos)' = Consumed(pos) + n
    <2> DEFINE p == Len(payload_')
               f == Len(file')
               a == Len(payload_)
               b == Len(file)
    <2>1. Consumed(pos)' = base + p + f /\ Consumed(pos) = base + a + b
      BY <1>2, <1>5 DEF Consumed
    <2>2. (p = a + n /\ f = b) \/ (p = a /\ f = b + n)
      BY <1>4
    <2>3. a \in Nat /\ b \in Nat /\ n \in Nat /\ base \in Nat
      BY <1>2
    <2> HIDE DEF p, f, a, b
    <2>4. base + p + f = (base + a + b) + n
      BY <2>2, <2>3
    <2> QED BY <2>1, <2>4
  <1>7. Consumed(pos)' + Len(received') = Consumed(pos) + Len(received)
    <2> DEFINE here == Len(received')
               from == Consumed(pos)
    <2>1. here = Len(received) - n /\ from \in Nat
      BY <1>4, Numbers
    <2> HIDE DEF here, from
    <2>2. (from + n) + here = from + Len(received)
      BY <1>2, <2>1
    <2> QED BY <1>6, <2>2 DEF here, from
  <1>8. Reading(stream, pos)'
    BY <1>3, <1>4, <1>5, <1>6, <1>7 DEF Reading
  <1>9. Flow'
    BY <1>8, WrittenKept, Zenon DEF Flow
  <1> QED BY <1>4, <1>9

LEMMA TakenIsSome ==
    ASSUME Typed, Wanted \in Int, Wanted > 0, received # <<>>
    PROVE  Taken \in 1..Len(received) /\ Taken <= Wanted
  <1>1. Len(received) \in Nat \ {0}
    BY EmptySeq DEF Typed
  <1> QED BY <1>1 DEF Taken, Smaller

LEMMA AsyncReadInv == IInv /\ async_read => IInv'
  <1> SUFFICES ASSUME IInv, async_read PROVE IInv'
    OBVIOUS
  <1>1. /\ pc \in {"header", "payload"} /\ Wanted > 0 /\ received # <<>>
        /\ UNCHANGED <<script, version, written, wire, ended, pc, delivered, file>>
        /\ file = <<>>
    BY DEF async_read, IInv, Stage
  <1>2. PICK stream \in Seq(Byte), pos \in [1..(written + 1) -> Nat] :
            Written(stream, pos) /\ Reading(stream, pos)
    BY DEF IInv, Flow
  <1>3. Len(payload_) \in Nat
    BY Numbers DEF IInv
  <1>4. /\ pc = "header" => Wanted = 5 - Len(payload_)
        /\ pc = "payload" => /\ Wanted = 5 + PayloadSize(payload_) - Len(payload_)
                             /\ PayloadSize(payload_) \in Nat
    BY <1>1, <1>2, Header DEF Wanted, kFrameHeaderSize, IInv, Stage
  <1>5. PICK n : n = Taken
    OBVIOUS
  <1>6. n \in 1..Len(received) /\ n <= Wanted
    <2>1. Wanted \in Int
      BY <1>1, <1>3, <1>4
    <2> QED BY <1>1, <1>5, <2>1, TakenIsSome DEF IInv
  <1>7. /\ payload_' = payload_ \o SubSeq(received, 1, n)
        /\ received' = SubSeq(received, n + 1, Len(received))
    BY <1>5 DEF async_read
  <1>8. /\ Flow' /\ received' \in Seq(Byte) /\ payload_' \in Seq(Byte)
        /\ \/ UNCHANGED file /\ Len(payload_') = Len(payload_) + n
           \/ UNCHANGED payload_ /\ Len(file') = Len(file) + n
        /\ UNCHANGED payload_ \/ \A i \in 1..Len(payload_) : payload_'[i] = payload_[i]
    BY <1>1, <1>2, <1>6, <1>7, TakeFlow DEF IInv
  <1>9. Len(payload_') = Len(payload_) + n
    <2>1. Len(file') # Len(file) + n
      BY <1>1, <1>6
    <2> QED BY <1>8, <2>1
  <1>10. Typed'
    BY <1>1, <1>8 DEF IInv, Typed
  <1>11. pc = "payload" => PayloadSize(payload_') = PayloadSize(payload_)
    <2> SUFFICES ASSUME pc = "payload" PROVE PayloadSize(payload_') = PayloadSize(payload_)
      OBVIOUS
    <2>1. 4 \in 1..Len(payload_) /\ 5 \in 1..Len(payload_)
      BY <1>3 DEF IInv, Stage, kFrameHeaderSize
    <2> QED BY <1>8, <2>1 DEF PayloadSize
  <1>12. /\ pc = "header" => Len(payload_') <= 5
         /\ pc = "payload" => /\ 5 <= Len(payload_')
                              /\ Len(payload_') <= 5 + PayloadSize(payload_)
         /\ Len(payload_') <= 5 + MaxPayload
    <2> DEFINE later == Len(payload_')
               size == PayloadSize(payload_)
    <2>1. /\ later = Len(payload_) + n /\ n \in Nat
          /\ pc = "header" => n <= 5 - Len(payload_)
          /\ pc = "payload" => /\ n <= 5 + size - Len(payload_) /\ size \in Nat
                               /\ size <= MaxPayload /\ 5 <= Len(payload_)
      BY <1>4, <1>6, <1>9 DEF IInv, Stage, kFrameHeaderSize
    <2> HIDE DEF later, size
    <2>2. /\ pc = "header" => later <= 5
          /\ pc = "payload" => 5 <= later /\ later <= 5 + size
          /\ later <= 5 + MaxPayload
      BY <1>1, <1>3, <2>1, FramingAssumption
    <2> QED BY <2>2 DEF later, size
  <1>13. Stage'
    BY <1>1, <1>11, <1>12 DEF IInv, Stage, Current, kFrameHeaderSize
  <1>14. LimitIsExact'
    BY <1>1, <1>12 DEF LimitIsExact, kFrameHeaderSize
  <1> QED BY <1>8, <1>10, <1>13, <1>14 DEF IInv

(* A read that fails in a frame has been cut off: a writer that shuts the  *)
(* stream has written what the reader expects to the end.                  *)
LEMMA ReadFailsInv == IInv /\ ReadFails => IInv'
  <1> SUFFICES ASSUME IInv, ReadFails PROVE IInv'
    OBVIOUS
  <1>1. /\ Wanted > 0 /\ ended # "no" /\ wire = <<>> /\ received = <<>> /\ pc' = "failed"
        /\ UNCHANGED <<script, version, written, wire, received, ended, payload_,
                       delivered, file>>
    BY DEF ReadFails
  <1>2. Typed'
    BY <1>1 DEF IInv, Typed
  <1>3. Flow'
    BY <1>1, FlowKept DEF IInv
  <1>4. Stage'
    BY <1>1 DEF IInv, Stage, Fetching, Current, Announced
  <1>5. pc \in {"header", "payload", "file"}
    BY <1>1 DEF Wanted, IInv, Typed
  <1>6. pc = "file" => delivered # <<>> /\ Announced > Len(file)
    <2> SUFFICES ASSUME pc = "file" PROVE delivered # <<>> /\ Announced > Len(file)
      OBVIOUS
    <2>1. Fetching
      BY DEF IInv, Stage
    <2>2. Announced \in Int /\ Len(file) \in Nat
      <3>1. Announced \in Nat
        BY <2>1, AnnouncedType DEF Fetching, IInv
      <3> QED BY <3>1 DEF IInv, Typed
    <2> QED BY <1>1, <2>1, <2>2 DEF Wanted, Fetching
  <1>7. ~(ended = "shut" /\ pc \in {"header", "payload"})
    <2> SUFFICES ASSUME ended = "shut", pc \in {"header", "payload"} PROVE FALSE
      OBVIOUS
    <2>1. PICK stream \in Seq(Byte), pos \in [1..(written + 1) -> Nat] :
              Written(stream, pos) /\ Reading(stream, pos)
      BY DEF IInv, Flow
    <2>2. /\ file = <<>> /\ written = Len(script) /\ script[Current].type # "file"
          /\ Current \in 1..Len(script) /\ Current \in 1..written
          /\ Current + 1 \in 1..(written + 1) /\ written + 1 \in 1..(written + 1)
          /\ Current + 1 <= written + 1
      <3>1. file = <<>> /\ written = Len(script) /\ script[Current].type # "file"
            /\ Current <= Len(script)
        BY DEF IInv, Stage, Typed
      <3>2. Current \in 1..(written + 1) /\ written \in Nat
        BY <2>1, Numbers DEF IInv
      <3> QED BY <3>1, <3>2
    <2>3. /\ Len(payload_) \in Nat /\ pos[Current] \in Nat
          /\ Consumed(pos) = pos[Current] + Len(payload_) + Len(file) /\ Consumed(pos) \in Nat
      BY <2>1, Numbers DEF IInv
    <2>4. pos[written + 1] = pos[Current] + Len(payload_)
      <3>1. Consumed(pos) + Len(received) + Len(wire) = Len(stream)
        BY <2>1 DEF Reading
      <3>2. Len(received) = 0 /\ Len(wire) = 0 /\ Len(file) = 0
        BY <1>1, <2>2
      <3> QED BY <2>1, <2>3, <3>1, <3>2 DEF Written
    <2>5. pos[Current + 1] = pos[Current] + Len(Bytes(Current))
      BY <2>1, <2>2 DEF Written
    <2>6. pos[Current + 1] <= pos[written + 1]
      BY <2>1, <2>2 DEF Written
    <2>7. Len(Bytes(Current)) \in Nat /\ Len(Bytes(Current)) <= Len(payload_)
      <3>1. Len(Bytes(Current)) \in Nat
        BY <2>2, BytesType DEF IInv
      <3> QED BY <2>3, <2>4, <2>5, <2>6, <3>1
    <2>8. CASE pc = "header"
      <3>1. Len(Bytes(Current)) = 5 + Len(script[Current].payload)
            /\ Len(script[Current].payload) \in Nat
        BY <2>2, FrameBytes, ScriptFacts DEF IInv, Typed, kFrameHeaderSize
      <3>2. 5 - Len(payload_) > 0
        BY <1>1, <2>8 DEF Wanted, kFrameHeaderSize
      <3> QED BY <2>3, <2>7, <3>1, <3>2
    <2>9. CASE pc = "payload"
      <3>1. Len(Bytes(Current)) = 5 + PayloadSize(payload_) /\ PayloadSize(payload_) \in Nat
        BY <2>1, <2>9, Header DEF IInv, Stage, kFrameHeaderSize
      <3>2. 5 + PayloadSize(payload_) - Len(payload_) > 0
        BY <1>1, <2>9 DEF Wanted, kFrameHeaderSize
      <3> QED BY <2>3, <2>7, <3>1, <3>2
    <2> QED BY <2>8, <2>9
  <1>8. LimitIsExact'
    <2>1. ended = "cut" \/ (ended = "shut" /\ delivered # <<>> /\ Announced > Len(file))
      BY <1>1, <1>5, <1>6, <1>7 DEF IInv, Typed
    <2>2. Len(payload_') <= kFrameHeaderSize + MaxPayload
      BY <1>1 DEF IInv, LimitIsExact
    <2> QED BY <1>1, <2>1, <2>2 DEF LimitIsExact, Announced
  <1> QED BY <1>2, <1>3, <1>4, <1>8 DEF IInv

LEMMA HeaderReadInv == IInv /\ HeaderRead => IInv'
  <1> SUFFICES ASSUME IInv, HeaderRead PROVE IInv'
    OBVIOUS
  <1>1. /\ pc = "header" /\ Wanted = 0
        /\ pc' = IF TooLarge(PayloadSize(payload_)) THEN "failed" ELSE "payload"
        /\ UNCHANGED <<script, version, written, wire, received, ended, payload_,
                       delivered, file>>
    BY DEF HeaderRead
  <1>2. PICK stream \in Seq(Byte), pos \in [1..(written + 1) -> Nat] :
            Written(stream, pos) /\ Reading(stream, pos)
    BY DEF IInv, Flow
  <1>3. Len(payload_) = 5
    <2>1. Len(payload_) \in Nat /\ 5 - Len(payload_) = 0
      BY <1>1, <1>2, Numbers DEF IInv, Wanted, kFrameHeaderSize
    <2> QED BY <2>1
  <1>4. /\ Current \in 1..written /\ script[Current].type # "file"
        /\ PayloadSize(payload_) = Len(script[Current].payload)
        /\ PayloadSize(payload_) \in Nat
    <2>1. kFrameHeaderSize <= Len(payload_)
      BY <1>3 DEF kFrameHeaderSize
    <2> QED BY <1>1, <1>2, <2>1, Header DEF IInv
  <1>5. Typed'
    <2>1. pc' \in {"payload", "failed"}
      BY <1>1
    <2> QED BY <1>1, <2>1 DEF IInv, Typed
  <1>6. Flow'
    BY <1>1, FlowKept DEF IInv
  <1>7. CASE TooLarge(PayloadSize(payload_))
    <2>1. pc' = "failed" /\ file' = <<>>
      BY <1>1, <1>7 DEF IInv, Stage
    <2>2. Stage'
      BY <2>1 DEF Stage
    <2>3. \E i \in 1..written : IsMessage(script[i]) /\ Len(script[i].payload) > MaxPayload
      BY <1>4, <1>7 DEF TooLarge, IsMessage
    <2>4. Len(payload_') <= kFrameHeaderSize + MaxPayload
      BY <1>1 DEF IInv, LimitIsExact
    <2>5. LimitIsExact'
      BY <1>1, <2>3, <2>4 DEF LimitIsExact, IsMessage
    <2> QED BY <1>5, <1>6, <2>2, <2>5 DEF IInv
  <1>8. CASE ~TooLarge(PayloadSize(payload_))
    <2>1. pc' = "payload" /\ file' = <<>> /\ PayloadSize(payload_') = PayloadSize(payload_)
      BY <1>1, <1>8 DEF IInv, Stage
    <2>2. PayloadSize(payload_) <= MaxPayload
      BY <1>4, <1>8, FramingAssumption DEF TooLarge
    <2>3. Stage'
      <3>1. 5 <= Len(payload_) /\ Len(payload_) <= 5 + PayloadSize(payload_)
        BY <1>3, <1>4
      <3> QED BY <1>1, <2>1, <2>2, <3>1 DEF IInv, Stage, Current, kFrameHeaderSize
    <2>4. LimitIsExact'
      BY <1>1, <2>1 DEF IInv, LimitIsExact
    <2> QED BY <1>5, <1>6, <2>3, <2>4 DEF IInv
  <1> QED BY <1>7, <1>8

(* A frame that is complete is the one that was written.                   *)
LEMMA WholeFrame ==
    ASSUME Typed, Stage, NEW stream \in Seq(Byte), NEW pos \in [1..(written + 1) -> Nat],
           Written(stream, pos), Reading(stream, pos), pc = "payload", Wanted = 0
    PROVE  /\ Current \in 1..written /\ Current \in 1..Len(script)
           /\ script[Current].type \in DOMAIN Code
           /\ Len(payload_) = Len(Bytes(Current))
           /\ Decodes(payload_) <=> version = Version
           /\ decode_frame(payload_) = script[Current]
  <1>1. PICK current : current = Current
    OBVIOUS
  <1>2. /\ current \in 1..written /\ current \in 1..Len(script)
        /\ script[current].type # "file"
        /\ PayloadSize(payload_) = Len(script[current].payload)
        /\ PayloadSize(payload_) \in Nat
        /\ Len(Bytes(current)) = 5 + PayloadSize(payload_)
        /\ \A i \in 1..Len(payload_) : payload_[i] = Bytes(current)[i]
        /\ Len(payload_) \in Nat
    <2>1. kFrameHeaderSize <= Len(payload_) /\ kFrameHeaderSize = 5 /\ Len(payload_) \in Nat
      BY Numbers DEF Stage, kFrameHeaderSize
    <2> QED BY <1>1, <2>1, Header
  <1>3. PICK item : item = script[current]
    OBVIOUS
  <1>4. /\ item.type \in DOMAIN Code /\ item.payload \in Seq(Byte)
        /\ item = [type |-> item.type, payload |-> item.payload]
    BY <1>2, <1>3, ScriptFacts DEF Typed
  <1>5. PICK size \in Nat : size = PayloadSize(payload_)
    BY <1>2
  <1>6. Len(item.payload) = size /\ Len(payload_) = 5 + size
    <2>1. 5 + size - Len(payload_) = 0
      BY <1>5 DEF Wanted, kFrameHeaderSize
    <2> QED BY <1>2, <1>3, <1>5, <2>1
  <1>7. /\ payload_[1] = Magic /\ payload_[2] = version /\ payload_[3] = Code[item.type]
        /\ \A j \in 1..size : payload_[5 + j] = item.payload[j]
    <2>1. /\ Bytes(current)[1] = Magic /\ Bytes(current)[2] = version
          /\ Bytes(current)[3] = Code[item.type]
          /\ \A j \in 1..size : Bytes(current)[5 + j] = item.payload[j]
      BY <1>2, <1>3, <1>6, FrameBytes DEF kFrameHeaderSize
    <2>2. /\ 1 \in 1..Len(payload_) /\ 2 \in 1..Len(payload_) /\ 3 \in 1..Len(payload_)
          /\ \A j \in 1..size : 5 + j \in 1..Len(payload_)
      BY <1>6
    <2> QED BY <1>2, <2>1, <2>2
  <1>8. Decodes(payload_) <=> version = Version
    BY <1>5, <1>6, <1>7 DEF Decodes, kFrameHeaderSize
  <1>9. TypeOf(payload_) = item.type
    <2>1. \A type \in DOMAIN Code : Code[type] = Code[item.type] <=> type = item.type
      BY <1>4 DEF Code
    <2>2. \A type \in DOMAIN Code : Code[type] = payload_[3] <=> type = item.type
      BY <1>7, <2>1
    <2> QED BY <1>4, <2>2 DEF TypeOf
  <1>10. SubSeq(payload_, 6, Len(payload_)) = item.payload
    <2> DEFINE rest == SubSeq(payload_, 5 + 1, 5 + size)
    <2>1. payload_ \in Seq(Byte)
      BY DEF Typed
    <2>2. /\ rest \in Seq(Byte) /\ Len(rest) = size
      <3> DEFINE five == 5
      <3>1. five \in Nat /\ five + size <= Len(payload_)
        BY <1>6
      <3> HIDE DEF five
      <3>2. /\ SubSeq(payload_, five + 1, five + size) \in Seq(Byte)
            /\ Len(SubSeq(payload_, five + 1, five + size)) = size
        BY <2>1, <3>1, PieceType
      <3> QED BY <3>2 DEF five
    <2>3. \A j \in 1..size : rest[j] = payload_[5 + j]
      <3> DEFINE five == 5
      <3>1. five \in Nat /\ five + size <= Len(payload_)
        BY <1>6
      <3> HIDE DEF five
      <3>2. PartOf(SubSeq(payload_, five + 1, five + size), payload_, five)
        BY <2>1, <3>1, PieceIsPart
      <3> QED BY <2>2, <3>2 DEF PartOf, five
    <2> HIDE DEF rest
    <2>4. rest = item.payload
      BY <1>4, <1>6, <1>7, <2>2, <2>3, SeqEqual
    <2>5. 5 + 1 = 6 /\ 5 + size = Len(payload_)
      BY <1>6
    <2> QED BY <2>4, <2>5 DEF rest
  <1>11. decode_frame(payload_) = item
    <2>1. kFrameHeaderSize + 1 = 6
      BY DEF kFrameHeaderSize
    <2> QED BY <1>4, <1>9, <1>10, <2>1 DEF decode_frame
  <1> QED BY <1>1, <1>2, <1>3, <1>4, <1>5, <1>6, <1>8, <1>11

LEMMA FrameReadInv == IInv /\ FrameRead => IInv'
  <1> SUFFICES ASSUME IInv, FrameRead PROVE IInv'
    OBVIOUS
  <1>1. /\ pc = "payload" /\ Wanted = 0 /\ file = <<>>
        /\ UNCHANGED <<script, version, written, wire, received, ended, file>>
    BY DEF FrameRead, IInv, Stage
  <1>2. PICK stream \in Seq(Byte), pos \in [1..(written + 1) -> Nat] :
            Written(stream, pos) /\ Reading(stream, pos)
    BY DEF IInv, Flow
  <1>3. PICK current : current = Current
    OBVIOUS
  <1>4. /\ current \in 1..written /\ current \in 1..Len(script)
        /\ script[current].type \in DOMAIN Code
        /\ Len(payload_) = Len(Bytes(current))
        /\ Decodes(payload_) <=> version = Version
        /\ decode_frame(payload_) = script[current]
    BY <1>1, <1>2, <1>3, WholeFrame DEF IInv
  <1>5. /\ written \in Nat /\ Len(delivered) \in Nat /\ current = Len(delivered) + 1
        /\ pos[current] \in Nat /\ Len(payload_) \in Nat
        /\ Consumed(pos) = pos[current] + Len(payload_) + Len(file)
    BY <1>2, <1>3, Numbers DEF IInv, Current
  <1>6. CASE ~Decodes(payload_)
    <2>1. pc' = "failed" /\ UNCHANGED <<payload_, delivered>> /\ version # Version
      BY <1>4, <1>6 DEF FrameRead
    <2>2. Typed'
      BY <1>1, <2>1 DEF IInv, Typed
    <2>3. Flow'
      BY <1>1, <2>1, FlowKept DEF IInv
    <2>4. Stage'
      BY <1>1, <2>1 DEF Stage
    <2>5. LimitIsExact'
      <3>1. Len(payload_') <= kFrameHeaderSize + MaxPayload
        BY <2>1 DEF IInv, LimitIsExact
      <3> QED BY <1>1, <2>1, <3>1 DEF LimitIsExact
    <2> QED BY <2>2, <2>3, <2>4, <2>5 DEF IInv
  <1>7. CASE Decodes(payload_)
    <2>1. PICK item : item = script[current]
      OBVIOUS
    <2>2. item \in Frame
      <3>1. /\ item.payload \in Seq(Byte) /\ item.type \in DOMAIN Code
            /\ item = [type |-> item.type, payload |-> item.payload]
        BY <1>4, <2>1, ScriptFacts DEF IInv, Typed
      <3> QED BY <3>1 DEF Frame
    <2>3. /\ delivered' = Append(delivered, item) /\ payload_' = <<>>
          /\ pc' = CASE item.type = "hello" -> "header"
                     [] item.type = "transfer_request" -> "file"
                     [] item.type = "sync_complete" -> "done"
      BY <1>4, <1>7, <2>1 DEF FrameRead
    <2>4. item.type \in {"hello", "sync_complete", "transfer_request"}
      BY <1>4, <2>1, Types
    <2>5. /\ item.type = "hello" => pc' = "header"
          /\ item.type = "transfer_request" => pc' = "file"
          /\ item.type = "sync_complete" => pc' = "done"
      BY <2>3
    <2>6. /\ delivered' \in Seq(Frame) /\ Len(delivered') = current
          /\ \A i \in 1..current : delivered'[i] = script[i]
      <3>1. delivered \in Seq(Frame) /\ \A i \in 1..Len(delivered) : delivered[i] = script[i]
        BY DEF IInv, Typed
      <3>2. /\ Append(delivered, item) \in Seq(Frame)
            /\ Len(Append(delivered, item)) = Len(delivered) + 1
            /\ \A i \in 1..Len(delivered) : Append(delivered, item)[i] = delivered[i]
            /\ Append(delivered, item)[Len(delivered) + 1] = item
        BY <2>2, <3>1, AppendProperties
      <3>3. ASSUME NEW i \in 1..current PROVE Append(delivered, item)[i] = script[i]
        <4>1. CASE i = current
          BY <4>1, <1>5, <2>1, <3>2
        <4>2. CASE i # current
          <5>1. i \in 1..Len(delivered)
            BY <4>2, <1>5
          <5> QED BY <5>1, <3>1, <3>2
        <4> QED BY <4>1, <4>2
      <3> QED BY <1>5, <2>3, <3>2, <3>3
    <2>7. Typed'
      <3>1. pc' \in {"header", "file", "done"}
        BY <2>4, <2>5
      <3>2. Len(delivered') <= written'
        BY <1>1, <1>4, <2>6
      <3>3. \A i \in 1..Len(delivered') : delivered'[i] = script'[i]
        BY <1>1, <2>6
      <3>4. payload_' \in Seq(Byte)
        BY <2>3, EmptySeq
      <3> QED BY <1>1, <2>6, <3>1, <3>2, <3>3, <3>4 DEF IInv, Typed
    <2>8. PICK next : next = current + 1
      OBVIOUS
    <2>9. Current' = next /\ next \in 1..(written + 1)
      <3>1. Current' = next
        BY <2>6, <2>8 DEF Current
      <3>2. next \in 1..(written + 1)
        BY <1>4, <1>5, <2>8
      <3> QED BY <3>1, <3>2
    <2>10. Flow'
      <3>1. pos[next] = pos[current] + Len(payload_)
        BY <1>2, <1>4, <2>8 DEF Written
      <3>2. PICK from : from = Consumed(pos)
        OBVIOUS
      <3>3. from = pos[next]
        <4>1. Len(file) = 0 /\ pos[next] \in Nat
          BY <1>1, <2>9
        <4> QED BY <1>5, <3>1, <3>2, <4>1
      <3>4. Consumed(pos)' = pos[next]
        <4>1. Len(payload_') = 0 /\ Len(file') = 0 /\ pos[next] \in Nat
          BY <1>1, <2>3, <2>9
        <4>2. Consumed(pos)' = pos[next] + Len(payload_') + Len(file')
          BY <2>9 DEF Consumed
        <4> QED BY <4>1, <4>2
      <3>5. Reading(stream, pos)'
        <4>1. /\ PartOf(payload_', stream, pos[Current'])
              /\ PartOf(file', stream, pos[Current'])
          BY <1>1, <2>3, EmptyPart
        <4>2. /\ PartOf(received', stream, Consumed(pos)')
              /\ PartOf(wire', stream, Consumed(pos)' + Len(received'))
              /\ Consumed(pos)' + Len(received') + Len(wire') <= Len(stream)
              /\ ended' # "cut" =>
                     Consumed(pos)' + Len(received') + Len(wire') = Len(stream)
          BY <1>1, <1>2, <3>2, <3>3, <3>4 DEF Reading
        <4> QED BY <4>1, <4>2 DEF Reading
      <3>6. Written(stream, pos)'
        BY <1>1, <1>2, WrittenKept
      <3>7. pos \in [1..(written' + 1) -> Nat]
        BY <1>1
      <3> QED BY <3>5, <3>6, <3>7, Zenon DEF Flow
    <2>11. /\ item.type = "hello" => next <= Len(script) /\ script[next].type # "file"
           /\ item.type = "transfer_request" =>
                  next = Len(script) /\ script[next].type = "file"
      <3> SUFFICES ASSUME item.type \in {"hello", "transfer_request"}
                   PROVE  /\ next <= Len(script)
                          /\ item.type = "hello" => script[next].type # "file"
                          /\ item.type = "transfer_request" =>
                                 next = Len(script) /\ script[next].type = "file"
        OBVIOUS
      <3>1. Len(script) \in Nat /\ script \in Scripts
        BY ScriptFacts DEF IInv, Typed
      <3>2. current # Len(script)
        BY <1>4, <2>1, <3>1, ScriptFacts
      <3>3. next \in 1..Len(script) /\ next > 1 /\ next - 1 = current
        BY <1>4, <2>8, <3>1, <3>2
      <3>4. script[next].type = "file" <=> item.type = "transfer_request"
        BY <2>1, <3>1, <3>3, ScriptFacts
      <3>5. script[next].type = "file" => next = Len(script)
        BY <3>1, <3>3, ScriptFacts
      <3> QED BY <3>1, <3>3, <3>4, <3>5
    <2>12. Stage'
      <3>1. file' = <<>> /\ Len(payload_') = 0 /\ Len(file') = 0
        BY <1>1, <2>3
      <3>2. CASE item.type = "hello"
        BY <3>1, <3>2, <1>1, <2>5, <2>9, <2>11 DEF Stage, kFrameHeaderSize
      <3>3. CASE item.type = "transfer_request"
        <4>1. delivered' # <<>>
          BY <2>6, <1>5
        <4>2. Announced' \in Nat
          BY <4>1, <2>6, FirstByte DEF Announced
        <4>3. Fetching'
          BY <3>1, <3>3, <4>1, <4>2, <1>1, <2>3, <2>9, <2>11 DEF Fetching
        <4> QED BY <4>3, <3>3, <2>5 DEF Stage
      <3>4. CASE item.type = "sync_complete"
        BY <3>1, <3>4, <2>5 DEF Stage
      <3> QED BY <3>2, <3>3, <3>4, <2>4
    <2>13. LimitIsExact'
      <3>1. pc' # "failed" /\ Len(payload_') = 0
        BY <2>3, <2>4, <2>5
      <3> QED BY <3>1, FramingAssumption DEF LimitIsExact, kFrameHeaderSize
    <2> QED BY <2>7, <2>10, <2>12, <2>13 DEF IInv
  <1> QED BY <1>6, <1>7

LEMMA ReadChunkInv == IInv /\ read_chunk => IInv'
  <1> SUFFICES ASSUME IInv, read_chunk PROVE IInv'
    OBVIOUS
  <1>1. /\ pc = "file" /\ Fetching /\ payload_ = <<>>
        /\ UNCHANGED <<script, version, written, wire, ended, payload_, delivered>>
    BY DEF read_chunk, IInv, Stage, Fetching
  <1>2. CASE Wanted = 0 /\ pc' = "done" /\ UNCHANGED <<received, file>>
    <2>1. Typed'
      BY <1>1, <1>2 DEF IInv, Typed
    <2>2. Flow'
      BY <1>1, <1>2, FlowKept DEF IInv
    <2>3. Stage'
      BY <1>1, <1>2 DEF IInv, Stage, Fetching, Current, Announced
    <2>4. LimitIsExact'
      BY <1>1, <1>2 DEF IInv, LimitIsExact
    <2> QED BY <2>1, <2>2, <2>3, <2>4 DEF IInv
  <1>3. CASE /\ Wanted > 0 /\ received # <<>>
             /\ file' = file \o SubSeq(received, 1, Taken)
             /\ received' = SubSeq(received, Taken + 1, Len(received))
             /\ UNCHANGED pc
    <2>1. PICK stream \in Seq(Byte), pos \in [1..(written + 1) -> Nat] :
              Written(stream, pos) /\ Reading(stream, pos)
      BY DEF IInv, Flow
    <2>2. PICK n : n = Taken
      OBVIOUS
    <2>3. Len(file) \in Nat /\ Announced \in Nat /\ Wanted = Announced - Len(file)
      BY <1>1, <2>1, Numbers, AnnouncedType DEF IInv, Fetching, Wanted
    <2>4. n \in 1..Len(received) /\ n <= Announced - Len(file)
      BY <1>3, <2>2, <2>3, TakenIsSome DEF IInv
    <2>5. /\ file' = file \o SubSeq(received, 1, n)
          /\ received' = SubSeq(received, n + 1, Len(received))
      BY <1>3, <2>2
    <2>6. /\ Flow' /\ received' \in Seq(Byte) /\ file' \in Seq(Byte)
          /\ \/ UNCHANGED file /\ Len(payload_') = Len(payload_) + n
             \/ UNCHANGED payload_ /\ Len(file') = Len(file) + n
      BY <1>1, <2>1, <2>4, <2>5, TakeFlow DEF IInv
    <2>7. Len(file') = Len(file) + n
      <3>1. Len(payload_') # Len(payload_) + n
        BY <1>1, <2>4
      <3> QED BY <2>6, <3>1
    <2>8. Typed'
      BY <1>1, <1>3, <2>6 DEF IInv, Typed
    <2>9. Stage'
      <3>1. Announced' = Announced /\ Current' = Current
        BY <1>1 DEF Announced, Current
      <3>2. Len(file') <= Announced
        BY <2>3, <2>4, <2>7
      <3>3. Fetching'
        BY <1>1, <3>1, <3>2 DEF Fetching
      <3> QED BY <1>1, <1>3, <3>3 DEF Stage
    <2>10. LimitIsExact'
      BY <1>1, <1>3 DEF IInv, LimitIsExact
    <2> QED BY <2>6, <2>8, <2>9, <2>10 DEF IInv
  <1> QED BY <1>2, <1>3 DEF read_chunk

LEMMA StepInv == IInv /\ [Next]_vars => IInv'
  <1> SUFFICES ASSUME IInv, [Next]_vars PROVE IInv'
    OBVIOUS
  <1>1. CASE async_write_message
    BY <1>1, AsyncWriteInv
  <1>2. CASE Close
    BY <1>2, CloseInv
  <1>3. CASE Segment
    BY <1>3, SegmentInv
  <1>4. CASE Cut
    BY <1>4, CutInv
  <1>5. CASE async_read
    BY <1>5, AsyncReadInv
  <1>6. CASE ReadFails
    BY <1>6, ReadFailsInv
  <1>7. CASE HeaderRead
    BY <1>7, HeaderReadInv
  <1>8. CASE FrameRead
    BY <1>8, FrameReadInv
  <1>9. CASE read_chunk
    BY <1>9, ReadChunkInv
  <1>10. CASE UNCHANGED vars
    <2>1. UNCHANGED <<script, version, written, wire, received, ended, pc, payload_,
                      delivered, file>>
      BY <1>10 DEF vars
    <2>2. Typed'
      BY <2>1 DEF IInv, Typed
    <2>3. Flow'
      BY <2>1, FlowKept DEF IInv
    <2>4. Stage'
      BY <2>1 DEF IInv, Stage, Fetching, Current, Announced, PayloadSize
    <2>5. LimitIsExact'
      BY <2>1 DEF IInv, LimitIsExact, Announced, IsMessage
    <2> QED BY <2>2, <2>3, <2>4, <2>5 DEF IInv
  <1> QED BY <1>1, <1>2, <1>3, <1>4, <1>5, <1>6, <1>7, <1>8, <1>9, <1>10
          DEF Next, Writer, Reader

THEOREM InductiveInvariant == Spec => []IInv
  <1>1. Init => IInv
    BY InitInv
  <1>2. IInv /\ [Next]_vars => IInv'
    BY StepInv
  <1> QED BY <1>1, <1>2, PTL DEF Spec

-----------------------------------------------------------------------------
(* The first n elements of a sequence, n being perhaps zero.               *)
LEMMA Prefix ==
    ASSUME NEW S, NEW seq \in Seq(S), NEW n \in 0..Len(seq)
    PROVE  /\ SubSeq(seq, 1, n) \in Seq(S) /\ Len(SubSeq(seq, 1, n)) = n
           /\ \A i \in 1..n : SubSeq(seq, 1, n)[i] = seq[i]
  <1> DEFINE zero == 0
  <1>1. zero \in Nat /\ n \in Nat /\ zero + n <= Len(seq)
    OBVIOUS
  <1> HIDE DEF zero
  <1>2. /\ SubSeq(seq, zero + 1, zero + n) \in Seq(S)
        /\ Len(SubSeq(seq, zero + 1, zero + n)) = n
    BY <1>1, PieceType
  <1>3. PartOf(SubSeq(seq, zero + 1, zero + n), seq, zero)
    BY <1>1, PieceIsPart
  <1>4. \A i \in 1..n : SubSeq(seq, zero + 1, zero + n)[i] = seq[zero + i]
    BY <1>2, <1>3 DEF PartOf
  <1>5. zero + 1 = 1 /\ zero + n = n /\ \A i \in 1..n : zero + i = i
    BY <1>1 DEF zero
  <1> QED BY <1>2, <1>4, <1>5

(* LimitIsExact: no more than the limit is read into the buffer, and no    *)
(* frame is refused but one that is larger or of another version, or that  *)
(* the end of the connection leaves incomplete.                            *)
THEOREM LimitIsExactHolds == Spec => []LimitIsExact
  <1>1. IInv => LimitIsExact
    BY DEF IInv
  <1> QED BY <1>1, InductiveInvariant, PTL

LEMMA FileIsPrefix == IInv => FileFromItsStart
  <1> SUFFICES ASSUME IInv, file # <<>>
               PROVE  \E bytes \in FileBytes :
                          /\ Len(file) <= Announced /\ Len(file) <= Len(bytes)
                          /\ file = SubSeq(bytes, 1, Len(file))
    BY DEF FileFromItsStart
  <1>1. PICK stream \in Seq(Byte), pos \in [1..(written + 1) -> Nat] :
            Written(stream, pos) /\ Reading(stream, pos)
    BY DEF IInv, Flow
  <1>2. PICK last : last = Len(script)
    OBVIOUS
  <1>3. /\ Current = last /\ script[last].type = "file" /\ Len(file) <= Announced
        /\ payload_ = <<>>
    BY <1>2 DEF IInv, Stage, Fetching
  <1>4. last \in 1..written /\ last = written
    <2>1. Current \in 1..written
      BY <1>1, ReadIsWritten DEF IInv
    <2>2. written \in 0..Len(script)
      BY DEF IInv, Typed
    <2>3. Len(script) \in Nat
      BY ScriptFacts DEF IInv, Typed
    <2> QED BY <1>2, <1>3, <2>1, <2>2, <2>3
  <1>5. PICK bytes \in Seq(Byte) : bytes = script[last].payload
    BY <1>2, <1>4, ScriptFacts DEF IInv, Typed
  <1>6. bytes \in FileBytes
    <2>1. DOMAIN script = 1..Len(script) /\ last \in 1..Len(script)
      <3>1. script \in Seq([type : DOMAIN Code \cup {"file"}, payload : Seq(Byte)])
        BY ScriptsAssumption DEF IInv, Typed
      <3>2. DOMAIN script = 1..Len(script) /\ Len(script) \in Nat
        BY <3>1, LenProperties
      <3>3. last \in 1..Len(script)
        BY <1>2, <1>4, <3>2 DEF IInv, Typed
      <3> QED BY <3>2, <3>3
    <2> QED BY <1>3, <1>5, <2>1 DEF FileBytes, IsMessage
  <1>7. PICK from \in Nat : from = pos[last]
    BY <1>1, <1>4
  <1>8. Bytes(last) = bytes
    BY <1>3, <1>5 DEF Bytes
  <1>9. /\ PartOf(bytes, stream, from) /\ Len(stream) = from + Len(bytes)
    <2>1. PartOf(Bytes(last), stream, pos[last]) /\ pos[last + 1] = pos[last] + Len(Bytes(last))
      BY <1>1, <1>4 DEF Written
    <2>2. pos[last + 1] = Len(stream)
      BY <1>1, <1>4 DEF Written
    <2> QED BY <1>7, <1>8, <2>1, <2>2
  <1>10. PartOf(file, stream, from)
    BY <1>1, <1>3, <1>7 DEF Reading
  <1>11. file \in Seq(Byte) /\ Len(file) \in 0..Len(bytes)
    <2>1. /\ Len(file) \in Nat /\ Len(received) \in Nat /\ Len(wire) \in Nat
          /\ Len(payload_) \in Nat
          /\ Consumed(pos) = from + Len(payload_) + Len(file)
      BY <1>1, <1>3, <1>7, Numbers DEF IInv
    <2>2. Consumed(pos) + Len(received) + Len(wire) <= from + Len(bytes)
      BY <1>1, <1>9 DEF Reading
    <2>3. Len(file) <= Len(bytes) /\ Len(bytes) \in Nat
      BY <2>1, <2>2
    <2> QED BY <2>1, <2>3 DEF IInv, Typed
  <1>12. \A i \in 1..Len(file) : file[i] = bytes[i]
    <2> TAKE i \in 1..Len(file)
    <2>1. i \in 1..Len(bytes)
      BY <1>11
    <2> QED BY <1>9, <1>10, <2>1 DEF PartOf
  <1>13. file = SubSeq(bytes, 1, Len(file))
    <2>1. PICK n \in 0..Len(bytes) : n = Len(file)
      BY <1>11
    <2>2. /\ SubSeq(bytes, 1, n) \in Seq(Byte) /\ Len(SubSeq(bytes, 1, n)) = n
          /\ \A i \in 1..n : SubSeq(bytes, 1, n)[i] = bytes[i]
      BY Prefix
    <2> QED BY <1>11, <1>12, <2>1, <2>2, SeqEqual
  <1> QED BY <1>3, <1>6, <1>11, <1>13

(* FileFromItsStart: async_read_frame takes no byte beyond its frame, so   *)
(* that read_chunk finds the file from its first byte on.                  *)
THEOREM FileFromItsStartHolds == Spec => []FileFromItsStart
  BY FileIsPrefix, InductiveInvariant, PTL

-----------------------------------------------------------------------------
(* How many messages have been written: all items but a file at the end.   *)
Count == Smaller(written, Messages)

LEMMA SentFacts ==
    ASSUME Typed
    PROVE  /\ Count \in 0..Len(script) /\ Count <= written
           /\ Len(Sent) = Count /\ \A i \in 1..Count : Sent[i] = script[i]
           /\ \A i \in 1..written : script[i].type # "file" => i <= Count
  <1>1. /\ Len(script) \in Nat \ {0} /\ written \in 0..Len(script)
        /\ script[Len(script)].type = "file" => Messages = Len(script) - 1
        /\ script[Len(script)].type # "file" => Messages = Len(script)
    BY ScriptFacts DEF Typed, Messages, IsMessage
  <1>2. Count \in 0..Len(script) /\ Count <= written
    BY <1>1 DEF Count, Smaller
  <1>3. script \in Seq([type : DOMAIN Code \cup {"file"}, payload : Seq(Byte)])
    BY ScriptsAssumption DEF Typed
  <1>4. PICK count \in 0..Len(script) : count = Count
    BY <1>2
  <1>5. Len(Sent) = Count /\ \A i \in 1..Count : Sent[i] = script[i]
    BY <1>3, <1>4, Prefix DEF Sent, Count
  <1>6. ASSUME NEW i \in 1..written, script[i].type # "file" PROVE i <= Count
    BY <1>1, <1>6 DEF Count, Smaller
  <1> QED BY <1>2, <1>5, <1>6

LEMMA InitInOrder == Init => InOrder!Init
  <1> SUFFICES ASSUME Init PROVE InOrder!Init
    OBVIOUS
  <1>1. Typed
    BY InitInv DEF IInv
  <1>2. Len(Sent) = 0
    <2>1. Count \in Nat /\ Count <= 0
      BY <1>1, SentFacts, ScriptFacts DEF Init
    <2> QED BY <1>1, <2>1, SentFacts
  <1>3. Sent = <<>>
    <2>1. Sent \in Seq([type : DOMAIN Code \cup {"file"}, payload : Seq(Byte)])
      <3>1. script \in Seq([type : DOMAIN Code \cup {"file"}, payload : Seq(Byte)])
        BY ScriptsAssumption DEF Init
      <3>2. PICK count \in 0..Len(script) : count = Count
        BY <1>1, SentFacts
      <3> QED BY <3>1, <3>2, Prefix DEF Sent, Count
    <2> QED BY <1>2, <2>1, EmptySeq
  <1> QED BY <1>3 DEF Init, InOrder!Init

LEMMA SentKept == UNCHANGED <<script, written>> => UNCHANGED Sent
  BY DEF Sent, Messages, IsMessage, Smaller

(* A write is a message sent, or it is the file and nothing is sent.       *)
LEMMA AsyncWriteSends ==
    IInv /\ async_write_message => InOrder!Send \/ UNCHANGED <<Sent, delivered, pc>>
  <1> SUFFICES ASSUME IInv, async_write_message
               PROVE  InOrder!Send \/ UNCHANGED <<Sent, delivered, pc>>
    OBVIOUS
  <1>1. /\ written < Len(script) /\ written' = written + 1
        /\ UNCHANGED <<script, pc, delivered>> /\ Typed
    BY DEF async_write_message, IInv
  <1>2. Len(script) \in Nat /\ written \in Nat
    BY <1>1, ScriptFacts DEF Typed
  <1>3. PICK next \in 1..Len(script) : next = written + 1
    BY <1>1, <1>2
  <1>4. script \in Seq([type : DOMAIN Code \cup {"file"}, payload : Seq(Byte)])
    BY <1>1, ScriptsAssumption DEF Typed
  <1>5. PICK messages : messages = Messages
    OBVIOUS
  <1>6. /\ script[Len(script)].type = "file" => messages = Len(script) - 1
        /\ script[Len(script)].type # "file" => messages = Len(script)
        /\ Messages' = messages
    BY <1>1, <1>5 DEF Messages, IsMessage
  <1>7. Sent = SubSeq(script, 1, Smaller(written, messages))
    BY <1>5 DEF Sent
  <1>8. Sent' = SubSeq(script, 1, Smaller(next, messages))
    BY <1>1, <1>3, <1>6 DEF Sent, Smaller
  <1>9. CASE script[next].type = "file"
    <2>1. next = Len(script)
      BY <1>1, <1>9, ScriptFacts DEF Typed
    <2>2. messages = written
      BY <1>2, <1>3, <1>6, <1>9, <2>1
    <2>3. Smaller(written, messages) = written /\ Smaller(next, messages) = written
      BY <1>2, <1>3, <2>2 DEF Smaller
    <2> QED BY <1>1, <1>7, <1>8, <2>3
  <1>10. CASE script[next].type # "file"
    <2>1. Smaller(written, messages) = written /\ Smaller(next, messages) = next
      <3>1. next <= messages /\ messages \in Nat
        BY <1>2, <1>3, <1>6, <1>10
      <3> QED BY <1>2, <1>3, <3>1 DEF Smaller
    <2>2. PICK n \in 0..Len(script) : n = written
      BY <1>1, <1>2
    <2> DEFINE S == [type : DOMAIN Code \cup {"file"}, payload : Seq(Byte)]
               before == SubSeq(script, 1, n)
               after == SubSeq(script, 1, next)
    <2> HIDE DEF S
    <2>3. script \in Seq(S)
      BY <1>4 DEF S
    <2>4. /\ before \in Seq(S) /\ Len(before) = n
          /\ \A i \in 1..n : before[i] = script[i]
      BY <2>3, Prefix
    <2>5. /\ after \in Seq(S) /\ Len(after) = next
          /\ \A i \in 1..next : after[i] = script[i]
      <3>1. next \in 0..Len(script)
        BY <1>2
      <3> QED BY <2>3, <3>1, Prefix
    <2>6. Sent = before /\ Sent' = after
      BY <1>7, <1>8, <2>1, <2>2
    <2> HIDE DEF before, after
    <2>7. next = n + 1 /\ n \in Nat
      BY <1>2, <1>3, <2>2
    <2>8. SubSeq(after, 1, n) = before
      <3>1. n \in 0..Len(after)
        BY <2>5, <2>7
      <3>2. /\ SubSeq(after, 1, n) \in Seq(S) /\ Len(SubSeq(after, 1, n)) = n
            /\ \A i \in 1..n : SubSeq(after, 1, n)[i] = after[i]
        BY <2>5, <3>1, Prefix
      <3>3. \A i \in 1..n : i \in 1..next
        BY <2>7
      <3> QED BY <2>4, <2>5, <3>2, <3>3, SeqEqual
    <2>9. /\ Len(Sent') = Len(Sent) + 1 /\ SubSeq(Sent', 1, Len(Sent)) = Sent
      BY <2>4, <2>5, <2>6, <2>7, <2>8
    <2>10. UNCHANGED <<delivered, pc = "failed">>
      BY <1>1
    <2> QED BY <2>9, <2>10 DEF InOrder!Send
  <1> QED BY <1>9, <1>10

(* A frame read is the next message handed over, or it breaks the channel. *)
LEMMA FrameReadHandsOver == IInv /\ FrameRead => InOrder!HandOver \/ InOrder!Break
  <1> SUFFICES ASSUME IInv, FrameRead PROVE InOrder!HandOver \/ InOrder!Break
    OBVIOUS
  <1>1. /\ pc = "payload" /\ Wanted = 0 /\ Typed /\ Stage
        /\ UNCHANGED <<script, written>>
    BY DEF FrameRead, IInv
  <1>2. UNCHANGED Sent
    BY <1>1, SentKept
  <1>3. PICK stream \in Seq(Byte), pos \in [1..(written + 1) -> Nat] :
            Written(stream, pos) /\ Reading(stream, pos)
    BY DEF IInv, Flow
  <1>4. /\ Current \in 1..written /\ script[Current].type \in DOMAIN Code
        /\ decode_frame(payload_) = script[Current]
    BY <1>1, <1>3, WholeFrame
  <1>5. CASE ~Decodes(payload_)
    <2>1. pc' = "failed" /\ UNCHANGED delivered
      BY <1>5 DEF FrameRead
    <2>2. (pc = "failed")' = TRUE
      BY <2>1
    <2> QED BY <1>2, <2>1, <2>2 DEF InOrder!Break
  <1>6. CASE Decodes(payload_)
    <2>1. script[Current].type # "file" /\ Len(delivered) \in Nat
      BY <1>3, <1>4, Types, Numbers, <1>1
    <2>2. Current <= Count /\ Len(Sent) = Count /\ Count \in 0..Len(script)
          /\ \A i \in 1..Count : Sent[i] = script[i]
      BY <1>1, <1>4, <2>1, SentFacts
    <2>3. Len(delivered) < Len(Sent) /\ Sent[Len(delivered) + 1] = script[Current]
      <3>1. Current \in 1..Count /\ Current = Len(delivered) + 1 /\ Len(script) \in Nat
        BY <1>1, <2>1, <2>2, ScriptFacts DEF Current, Typed
      <3> QED BY <2>1, <2>2, <3>1
    <2>4. delivered' = Append(delivered, Sent[Len(delivered) + 1])
      BY <1>4, <1>6, <2>3 DEF FrameRead
    <2>5. pc' # "failed" /\ pc # "failed"
      <3>1. pc' = CASE script[Current].type = "hello" -> "header"
                    [] script[Current].type = "transfer_request" -> "file"
                    [] script[Current].type = "sync_complete" -> "done"
        BY <1>4, <1>6 DEF FrameRead
      <3> QED BY <1>1, <1>4, <3>1, Types
    <2>6. UNCHANGED (pc = "failed") /\ ~(pc = "failed")
      BY <2>5
    <2> QED BY <1>2, <2>3, <2>4, <2>6 DEF InOrder!HandOver
  <1> QED BY <1>5, <1>6

LEMMA StepInOrder ==
    IInv /\ [Next]_vars
    => [InOrder!Send \/ InOrder!HandOver \/ InOrder!Break]_(InOrder!vars)
  <1> SUFFICES ASSUME IInv, [Next]_vars
               PROVE  \/ InOrder!Send \/ InOrder!HandOver \/ InOrder!Break
                      \/ UNCHANGED InOrder!vars
    OBVIOUS
  <1>1. ASSUME UNCHANGED <<Sent, delivered, pc>> PROVE UNCHANGED InOrder!vars
    BY <1>1 DEF InOrder!vars
  <1>2. CASE async_write_message
    BY <1>1, <1>2, AsyncWriteSends
  <1>3. CASE Close \/ Segment \/ Cut \/ async_read \/ UNCHANGED vars
    <2>1. UNCHANGED <<script, written, delivered, pc>>
      BY <1>3 DEF Close, Segment, Cut, async_read, vars
    <2> QED BY <1>1, <2>1, SentKept
  <1>4. CASE ReadFails
    <2>1. pc' = "failed" /\ UNCHANGED <<script, written, delivered>>
      BY <1>4 DEF ReadFails
    <2>2. (pc = "failed")' = TRUE /\ UNCHANGED Sent
      BY <2>1, SentKept
    <2> QED BY <2>1, <2>2 DEF InOrder!Break
  <1>5. CASE HeaderRead
    <2>1. /\ pc = "header" /\ pc' \in {"failed", "payload"}
          /\ UNCHANGED <<script, written, delivered>>
      BY <1>5 DEF HeaderRead
    <2>2. UNCHANGED Sent
      BY <2>1, SentKept
    <2>3. CASE pc' = "failed"
      <3>1. (pc = "failed")' = TRUE
        BY <2>3
      <3> QED BY <2>1, <2>2, <3>1 DEF InOrder!Break
    <2>4. CASE pc' = "payload"
      <3>1. UNCHANGED (pc = "failed")
        BY <2>1, <2>4
      <3> QED BY <2>1, <2>2, <3>1 DEF InOrder!vars
    <2> QED BY <2>1, <2>3, <2>4
  <1>6. CASE FrameRead
    BY <1>6, FrameReadHandsOver
  <1>7. CASE read_chunk
    <2>1. /\ pc = "file" /\ pc' \in {"file", "done"}
          /\ UNCHANGED <<script, written, delivered>>
      BY <1>7 DEF read_chunk
    <2>2. UNCHANGED Sent /\ UNCHANGED (pc = "failed")
      BY <2>1, SentKept
    <2> QED BY <2>1, <2>2 DEF InOrder!vars
  <1> QED BY <1>2, <1>3, <1>4, <1>5, <1>6, <1>7 DEF Next, Writer, Reader

(* DeliversInOrder: frames over a stream that is cut into segments at      *)
(* will, and cut off anywhere, implement Channel: the handlers see the     *)
(* messages written, unchanged and in their order.                         *)
THEOREM DeliversInOrderHolds == Spec => DeliversInOrder
  <1>1. Init => InOrder!Init
    BY InitInOrder
  <1>2. IInv /\ [Next]_vars
        => [InOrder!Send \/ InOrder!HandOver \/ InOrder!Break]_(InOrder!vars)
    BY StepInOrder
  <1> QED BY <1>1, <1>2, InductiveInvariant, PTL DEF Spec, DeliversInOrder, InOrder!Spec
=============================================================================

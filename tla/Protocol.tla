------------------------------ MODULE Protocol ------------------------------
(***************************************************************************)
(* The payloads of src/src/common/protocol.cpp: class Writer and the       *)
(* serialize_ functions on one side, class Reader and the deserialize_     *)
(* functions on the other.  A message of messages.hpp is a function from   *)
(* its fields to their values; it is written and read field by field.      *)
(*                                                                         *)
(* A byte has Base values: 256 in the code, and any other Base keeps the   *)
(* widths of the integers in bytes (1, 2, 4 and 8) and the carries between *)
(* them.  A payload may arrive shorter or longer than it was written: what *)
(* another version of the program would send, and what the exceptions of   *)
(* Reader are for.                                                         *)
(***************************************************************************)
EXTENDS Naturals, Sequences

CONSTANTS Base,      \* values of a byte
          Messages   \* the messages that may be sent

ASSUME BaseAssumption == Base \in Nat \ {0, 1}

Byte == 0..(Base - 1)

-----------------------------------------------------------------------------
(* Integers, most significant byte first.                                  *)
Low(v) == v % Base                 \* v & 0xff
Shift1(v) == v \div Base           \* v >> 8
Shift2(v) == Shift1(Shift1(v))
Shift4(v) == Shift2(Shift2(v))
Shift8(v) == Shift4(Shift4(v))

u8(v) == <<Low(v)>>
u16(v) == <<Low(Shift1(v)), Low(v)>>
u32(v) == u16(Shift2(v)) \o u16(v)
u64(v) == u32(Shift4(v)) \o u32(v)

(* (value << 8) | byte, the loop of read_integer on the bytes after an     *)
(* offset.                                                                 *)
Push(v, byte) == v * Base + byte
Read1(b, o) == Push(0, b[o + 1])
Read2(b, o) == Push(Read1(b, o), b[o + 2])
Read4(b, o) == Push(Push(Read2(b, o), b[o + 3]), b[o + 4])
Read8(b, o) == Push(Push(Push(Push(Read4(b, o), b[o + 5]), b[o + 6]), b[o + 7]),
                    b[o + 8])

-----------------------------------------------------------------------------
(* The messages.  A field is its name and the index of its FileEntry, 0    *)
(* outside of a list.                                                      *)
Kinds == [protocol_version |-> "u16", client_id |-> "string", count |-> "u32",
          relative_path |-> "string", size |-> "u64", checksum |-> "u32",
          transfer_id |-> "string", use_dma |-> "bool", status |-> "u8",
          bytes_received |-> "u64", details |-> "string", ok |-> "bool"]

ListTypes == {"file_list", "sync_plan"}

(* What the serialize_ functions write ...                                 *)
serialize ==
    [hello |-> <<"protocol_version", "client_id">>,
     entry |-> <<"relative_path", "size", "checksum">>,
     transfer_request |-> <<"transfer_id", "client_id", "relative_path", "size",
                            "checksum", "use_dma">>,
     transfer_result |-> <<"transfer_id", "status", "bytes_received", "details">>,
     sync_complete |-> <<"ok", "details">>,
     error |-> <<"details">>]

(* Slip: two strings change places in the reader only.                     *)
deserialize_swapped ==
    [serialize EXCEPT !.transfer_request =
        <<"client_id", "transfer_id", "relative_path", "size", "checksum", "use_dma">>]

(* ... and what the deserialize_ functions read.                           *)
deserialize ==
    [hello |-> <<"protocol_version", "client_id">>,
     entry |-> <<"relative_path", "size", "checksum">>,
     transfer_request |-> <<"transfer_id", "client_id", "relative_path", "size",
                            "checksum", "use_dma">>,
     transfer_result |-> <<"transfer_id", "status", "bytes_received", "details">>,
     sync_complete |-> <<"ok", "details">>,
     error |-> <<"details">>]

(* The k-th field of a payload, by the order `layout' of the fields: the   *)
(* count of a list comes before its entries.                               *)
Field(layout, type, k) ==
    IF type \notin ListTypes THEN <<layout[type][k], 0>>
    ELSE IF k = 1 THEN <<"count", 0>>
    ELSE <<layout.entry[((k - 2) % 3) + 1], ((k - 2) \div 3) + 1>>

(* How many fields there are, by the values known.                         *)
FieldCount(layout, type, values) ==
    IF type \notin ListTypes THEN Len(layout[type])
    ELSE IF <<"count", 0>> \notin DOMAIN values THEN 1
    ELSE 1 + 3 * values[<<"count", 0>>]

Representable(kind, v) ==
    CASE kind = "u8" -> v \in Nat /\ Shift1(v) = 0
      [] kind = "u16" -> v \in Nat /\ Shift2(v) = 0
      [] kind = "u32" -> v \in Nat /\ Shift4(v) = 0
      [] kind = "u64" -> v \in Nat /\ Shift8(v) = 0
      [] kind = "string" -> v \in Seq(Byte) /\ Shift4(Len(v)) = 0
      [] kind = "bool" -> v \in BOOLEAN

Count(m) == FieldCount(serialize, m.type, m.value)
FieldOf(m, k) == Field(serialize, m.type, k)

(* The values have the widths of messages.hpp; a list says how long it is. *)
(* Strings and lists of 2^32 and more elements are left out: no payload    *)
(* that long passes the limit of a frame.                                  *)
WellFormed(m) ==
    /\ m.type \in (DOMAIN serialize \ {"entry"}) \cup ListTypes
    /\ m.type \in ListTypes => <<"count", 0>> \in DOMAIN m.value
    /\ Count(m) \in Nat
    /\ m.value = [f \in {FieldOf(m, k) : k \in 1..Count(m)} |-> m.value[f]]
    /\ \A f \in DOMAIN m.value :
          f[1] \in DOMAIN Kinds /\ Representable(Kinds[f[1]], m.value[f])

ASSUME MessagesAssumption == \A m \in Messages : WellFormed(m)

VARIABLES message,  \* the message being sent
          written,  \* fields that are in the payload
          bytes,    \* Writer::data_, then the payload that arrived
          ends,     \* history: where each written field ended
          arrived,  \* history: "intact", "shorter" or "longer" than written
          read,     \* fields the reader has
          offset,   \* Reader::offset_
          values,   \* their values
          pc        \* "writing", "sent", "reading", "ok" or "thrown"

vars == <<message, written, bytes, ends, arrived, read, offset, values, pc>>

Init ==
    /\ message \in Messages
    /\ written = 0 /\ bytes = <<>> /\ ends = [k \in {0} |-> 0]
    /\ arrived = "none"
    /\ read = 0 /\ offset = 0 /\ values = [f \in {} |-> 0]
    /\ pc = "writing"

-----------------------------------------------------------------------------
Encode(kind, v) ==
    CASE kind = "u8" -> u8(v)
      [] kind = "u16" -> u16(v)
      [] kind = "u32" -> u32(v)
      [] kind = "u64" -> u64(v)
      [] kind = "string" -> u32(Len(v)) \o v
      [] kind = "bool" -> u8(IF v THEN 1 ELSE 0)

(* The field of message m that comes after the first k.                    *)
Encoded(m, k) == LET f == FieldOf(m, k + 1)
                 IN Encode(Kinds[f[1]], m.value[f])

(* The next call of a Writer's member function.                            *)
WriteField ==
    /\ pc = "writing" /\ written < Count(message)
    /\ bytes' = bytes \o Encoded(message, written)
    /\ written' = written + 1
    /\ ends' = [k \in 0..(written + 1) |-> IF k = written + 1 THEN Len(bytes')
                                                            ELSE ends[k]]
    /\ UNCHANGED <<message, arrived, read, offset, values, pc>>

(* writer.data(): the payload is complete.                                 *)
Written ==
    /\ pc = "writing" /\ written = Count(message)
    /\ pc' = "sent"
    /\ UNCHANGED <<message, written, bytes, ends, arrived, read, offset, values>>

Arrive(how, payload) ==
    /\ pc = "sent" /\ pc' = "reading"
    /\ arrived' = how /\ bytes' = payload
    /\ UNCHANGED <<message, written, ends, read, offset, values>>

Deliver == Arrive("intact", bytes)
Shorten == \E n \in 0..(Len(bytes) - 1) :
               Arrive("shorter", [i \in 1..n |-> bytes[i]])
Lengthen == \E byte \in Byte : Arrive("longer", Append(bytes, byte))

-----------------------------------------------------------------------------
(* The checks that throw: the payload ends too early.                      *)
Missing(size) == offset + size > Len(bytes)

Width == [u8 |-> 1, bool |-> 1, u16 |-> 2, u32 |-> 4, u64 |-> 8]

(* Whether Reader can take a value of this kind, how many bytes it takes,  *)
(* and the value.                                                          *)
CanRead(kind) ==
    IF kind = "string" THEN ~Missing(4) /\ ~Missing(4 + Read4(bytes, offset))
    ELSE ~Missing(Width[kind])

(* Slip: a string's bytes are skipped twice.                               *)
SizeRead_twice(kind) ==
    IF kind = "string" THEN 4 + 2 * Read4(bytes, offset) ELSE Width[kind]

SizeRead(kind) == IF kind = "string" THEN 4 + Read4(bytes, offset) ELSE Width[kind]

ValueRead(kind) ==
    CASE kind = "u8" -> Read1(bytes, offset)
      [] kind = "u16" -> Read2(bytes, offset)
      [] kind = "u32" -> Read4(bytes, offset)
      [] kind = "u64" -> Read8(bytes, offset)
      [] kind = "string" -> [i \in 1..Read4(bytes, offset) |-> bytes[offset + 4 + i]]
      [] kind = "bool" -> Read1(bytes, offset) # 0

NextField == Field(deserialize, message.type, read + 1)
AllRead == read = FieldCount(deserialize, message.type, values)

(* The next call of a Reader's member function.                            *)
ReadField ==
    /\ pc = "reading" /\ ~AllRead
    /\ LET kind == Kinds[NextField[1]]
       IN \/ /\ CanRead(kind)
             /\ values' = [f \in DOMAIN values \cup {NextField} |->
                              IF f = NextField THEN ValueRead(kind) ELSE values[f]]
             /\ offset' = offset + SizeRead(kind)
             /\ read' = read + 1
             /\ UNCHANGED pc
          \/ /\ ~CanRead(kind)
             /\ pc' = "thrown"
             /\ UNCHANGED <<read, offset, values>>
    /\ UNCHANGED <<message, written, bytes, ends, arrived>>

(* Slip: trailing bytes are not looked for.                                *)
ensure_consumed_never ==
    /\ pc = "reading" /\ AllRead
    /\ pc' = "ok"
    /\ UNCHANGED <<message, written, bytes, ends, arrived, read, offset, values>>

ensure_consumed ==
    /\ pc = "reading" /\ AllRead
    /\ pc' = IF offset = Len(bytes) THEN "ok" ELSE "thrown"
    /\ UNCHANGED <<message, written, bytes, ends, arrived, read, offset, values>>

Next ==
    \/ WriteField \/ Written
    \/ Deliver \/ Shorten \/ Lengthen
    \/ ReadField \/ ensure_consumed

Spec == Init /\ [][Next]_vars

-----------------------------------------------------------------------------
TypeOK ==
    /\ WellFormed(message)
    /\ written \in 0..Count(message)
    /\ bytes \in Seq(Byte)
    /\ ends \in [0..written -> 0..Len(bytes)] \/ pc \notin {"writing", "sent"}
    /\ arrived \in {"none", "intact", "shorter", "longer"}
    /\ read \in 0..Count(message)
    /\ offset \in 0..Len(bytes)
    /\ DOMAIN values = {FieldOf(message, k) : k \in 1..read}
    /\ pc \in {"writing", "sent", "reading", "ok", "thrown"}

Finished == pc \in {"ok", "thrown"}

(* test_protocol_roundtrip of tests/test_main.cpp, which tries one         *)
(* transfer_request: a payload that arrives as it was written is accepted, *)
(* for every message type and every value, and every field gets its own    *)
(* value back.                                                             *)
RoundTrip ==
    Finished /\ arrived = "intact" => pc = "ok" /\ values = message.value

(* A payload that lost its end or got bytes appended is never accepted,    *)
(* wherever it was cut: no message is read from half of it, and no field   *)
(* is taken from the bytes of another.                                     *)
DamageRefused ==
    Finished /\ arrived # "intact" => pc = "thrown"
=============================================================================

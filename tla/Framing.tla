------------------------------ MODULE Framing ------------------------------
(***************************************************************************)
(* One direction of a connection: encode_frame and decode_frame of         *)
(* src/src/common/protocol.cpp, and async_read_frame, which the client and *)
(* the server have word for word (classes FramedClient and FramedSession), *)
(* over a TCP connection that cuts the bytes into segments as it likes.    *)
(* After a transfer_request the bytes of the file follow, and              *)
(* TransferSession reads them from the same socket.                        *)
(*                                                                         *)
(* A byte has Base values.  In the header magic, version and type are one  *)
(* byte each and the size is two, most significant first.                  *)
(***************************************************************************)
EXTENDS Naturals, Sequences

CONSTANTS Base,        \* the values of a byte
          MaxPayload,  \* kMaxControlPayloadSize
          Version,     \* kProtocolVersion of the reader
          Versions,    \* kProtocolVersion of the writers there are
          Scripts      \* what a writer may write: messages, and the file after a request

Magic == 1
Code == [hello |-> 0, sync_complete |-> 1, transfer_request |-> 2]
kFrameHeaderSize == 5

Byte == 0..(Base - 1)

ASSUME FramingAssumption ==
    Base \in Nat \ {0, 1, 2} /\ MaxPayload \in Nat /\ Versions \subseteq Byte

(* A control connection is written to up to the sync_complete, an upload's *)
(* connection up to the end of the file, which follows the request.        *)
ASSUME ScriptsAssumption ==
    \A items \in Scripts :
        /\ items \in Seq([type : DOMAIN Code \cup {"file"}, payload : Seq(Byte)])
        /\ items # <<>>
        /\ \A i \in DOMAIN items :
             /\ items[i].type # "file" => Len(items[i].payload) < Base * Base
             /\ items[i].type \in {"sync_complete", "file"} <=> i = Len(items)
             /\ items[i].type = "file" <=> i > 1 /\ items[i - 1].type = "transfer_request"

VARIABLES
    script, version,  \* the writer's messages and its version
    written,          \* how many of them it has written
    wire, received,   \* bytes under way, and bytes in the reader's socket
    ended,            \* the stream: "no", "shut" by the writer or "cut"
    pc,               \* the reader: "header", "payload", "file", "done" or "failed"
    payload_,         \* header_ and, from the payload on, FramedSession::payload_
    delivered,        \* history: what handler() was called with
    file              \* history: what the session has taken for the file's bytes

vars == <<script, version, written, wire, received, ended, pc, payload_, delivered, file>>

Init ==
    /\ script \in Scripts /\ version \in Versions /\ written = 0
    /\ wire = <<>> /\ received = <<>> /\ ended = "no"
    /\ pc = "header" /\ payload_ = <<>> /\ delivered = <<>> /\ file = <<>>

Smaller(a, b) == IF a < b THEN a ELSE b

-----------------------------------------------------------------------------
(* encode_frame: the size is cast to its width.                            *)
encode_frame(message) ==
    LET size == Len(message.payload) % (Base * Base)
    IN <<Magic, version, Code[message.type], size \div Base, size % Base>> \o message.payload

(* Slip: the least significant byte first.                                 *)
PayloadSize_reversed(header) == header[5] * Base + header[4]

PayloadSize(header) == header[4] * Base + header[5]

(* decode_frame throws unless all of this holds.                           *)
Decodes(bytes) ==
    /\ Len(bytes) >= kFrameHeaderSize
    /\ bytes[1] = Magic /\ bytes[2] = Version
    /\ PayloadSize(bytes) = Len(bytes) - kFrameHeaderSize

TypeOf(bytes) == CHOOSE type \in DOMAIN Code : Code[type] = bytes[3]

decode_frame(bytes) ==
    [type |-> TypeOf(bytes),
     payload |-> SubSeq(bytes, kFrameHeaderSize + 1, Len(bytes))]

-----------------------------------------------------------------------------
(* The writer: a message is a frame, and the file is its bytes.            *)
async_write_message ==
    /\ ended = "no" /\ written < Len(script)
    /\ LET message == script[written + 1]
       IN wire' = wire \o IF message.type = "file" THEN message.payload
                          ELSE encode_frame(message)
    /\ written' = written + 1
    /\ UNCHANGED <<script, version, received, ended, pc, payload_, delivered, file>>

Close ==
    /\ ended = "no" /\ written = Len(script)
    /\ ended' = "shut"
    /\ UNCHANGED <<script, version, written, wire, received, pc, payload_, delivered, file>>

(* A segment arrives; or the connection is lost, and with it the bytes     *)
(* under way and perhaps those that have arrived.                          *)
Segment ==
    /\ \E n \in 1..Len(wire) :
         /\ received' = received \o SubSeq(wire, 1, n)
         /\ wire' = SubSeq(wire, n + 1, Len(wire))
    /\ UNCHANGED <<script, version, written, ended, pc, payload_, delivered, file>>

Cut ==
    /\ ended = "no"
    /\ ended' = "cut" /\ wire' = <<>>
    /\ received' \in {received, <<>>}
    /\ UNCHANGED <<script, version, written, pc, payload_, delivered, file>>

-----------------------------------------------------------------------------
(* TransferRequestMessage::size, the first byte of the request here.       *)
Announced ==
    LET request == delivered[Len(delivered)].payload
    IN IF request = <<>> THEN 0 ELSE request[1]

(* How many bytes the reads still have to fill.                            *)
Wanted ==
    CASE pc = "header" -> kFrameHeaderSize - Len(payload_)
      [] pc = "payload" -> kFrameHeaderSize + PayloadSize(payload_) - Len(payload_)
      [] pc = "file" -> Announced - Len(file)
      [] OTHER -> 0

(* Slip: a read takes all there is.                                        *)
Taken_all == Len(received)

Taken == Smaller(Wanted, Len(received))

(* async_read takes what is there, until its buffer is full.               *)
async_read ==
    /\ pc \in {"header", "payload"}
    /\ Wanted > 0 /\ received # <<>>
    /\ payload_' = payload_ \o SubSeq(received, 1, Taken)
    /\ received' = SubSeq(received, Taken + 1, Len(received))
    /\ UNCHANGED <<script, version, written, wire, ended, pc, delivered, file>>

(* Slip: the end of the stream is looked for between frames only.          *)
ReadFails_between ==
    /\ Wanted > 0 /\ payload_ = <<>>
    /\ ended # "no" /\ wire = <<>> /\ received = <<>>
    /\ pc' = "failed"
    /\ UNCHANGED <<script, version, written, wire, received, ended, payload_,
                   delivered, file>>

(* The end of the stream, or a reset, in any of the reads.                 *)
ReadFails ==
    /\ Wanted > 0
    /\ ended # "no" /\ wire = <<>> /\ received = <<>>
    /\ pc' = "failed"
    /\ UNCHANGED <<script, version, written, wire, received, ended, payload_,
                   delivered, file>>

(* Slip: one byte too strict.                                              *)
TooLarge_or_equal(size) == size >= MaxPayload

TooLarge(size) == size > MaxPayload

(* The handler of the first async_read: message_size, or the second one.   *)
HeaderRead ==
    /\ pc = "header" /\ Wanted = 0
    /\ pc' = IF TooLarge(PayloadSize(payload_)) THEN "failed" ELSE "payload"
    /\ UNCHANGED <<script, version, written, wire, received, ended, payload_,
                   delivered, file>>

(* The handler of the second one: decode_frame, whose exceptions become    *)
(* operation_aborted, and the session's handler, which reads the next      *)
(* frame, or the file, or nothing after the last frame.                    *)
FrameRead ==
    /\ pc = "payload" /\ Wanted = 0
    /\ IF Decodes(payload_)
       THEN LET frame == decode_frame(payload_)
            IN /\ delivered' = Append(delivered, frame)
               /\ pc' = CASE frame.type = "hello" -> "header"
                          [] frame.type = "transfer_request" -> "file"
                          [] frame.type = "sync_complete" -> "done"
               /\ payload_' = <<>>
       ELSE pc' = "failed" /\ UNCHANGED <<payload_, delivered>>
    /\ UNCHANGED <<script, version, written, wire, received, ended, file>>

(* read_chunk: async_read_some takes what is there, but no more than what  *)
(* remains.                                                                *)
read_chunk ==
    /\ pc = "file"
    /\ \/ /\ Wanted = 0
          /\ pc' = "done"
          /\ UNCHANGED <<received, file>>
       \/ /\ Wanted > 0 /\ received # <<>>
          /\ file' = file \o SubSeq(received, 1, Taken)
          /\ received' = SubSeq(received, Taken + 1, Len(received))
          /\ UNCHANGED pc
    /\ UNCHANGED <<script, version, written, wire, ended, payload_, delivered>>

Writer == async_write_message \/ Close
Reader == async_read \/ ReadFails \/ HeaderRead \/ FrameRead \/ read_chunk

Next == Writer \/ Segment \/ Cut \/ Reader

Spec == Init /\ [][Next]_vars

(* The writer goes on and ends some day, the network delivers, and the     *)
(* reader's io_context runs.                                               *)
FairSpec == Spec /\ WF_vars(Writer) /\ WF_vars(Segment) /\ WF_vars(Reader)

-----------------------------------------------------------------------------
IsMessage(item) == item.type # "file"

(* The messages among the items written: all of them but a file at the end.*)
Messages == IF IsMessage(script[Len(script)]) THEN Len(script) ELSE Len(script) - 1
Sent == SubSeq(script, 1, Smaller(written, Messages))

(* However the bytes are cut into segments and wherever the connection     *)
(* ends, the handlers see the messages that were written, unchanged and in *)
(* their order: no frame is put together from parts of two.                *)
InOrder == INSTANCE Channel WITH sent <- Sent, broken <- pc = "failed"
DeliversInOrder == InOrder!Spec

FileBytes == {script[i].payload : i \in {k \in DOMAIN script : ~IsMessage(script[k])}}

(* async_read_frame leaves every byte after the request on the socket, and *)
(* the session takes no more than was announced: it gets the file from its *)
(* first byte.                                                             *)
FileFromItsStart ==
    file # <<>> => \E bytes \in FileBytes :
        /\ Len(file) <= Announced /\ Len(file) <= Len(bytes)
        /\ file = SubSeq(bytes, 1, Len(file))

(* The size field comes from the peer and sizes a vector: no more than the *)
(* limit is ever read into it; and yet a message of exactly the limit      *)
(* passes: a read fails only for a larger one, for another version, or     *)
(* when the connection has ended too early.                                *)
LimitIsExact ==
    /\ Len(payload_) <= kFrameHeaderSize + MaxPayload
    /\ pc = "failed" =>
         \/ ended = "cut" \/ version # Version
         \/ ended = "shut" /\ delivered # <<>> /\ Announced > Len(file)
         \/ \E i \in 1..written : /\ IsMessage(script[i])
                                  /\ Len(script[i].payload) > MaxPayload

(* No read is left waiting for the rest of a frame or of a file once the   *)
(* other end is gone.                                                      *)
EveryReadEnds == <>[](pc \in {"done", "failed"})
=============================================================================

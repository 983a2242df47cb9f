--------------------------- MODULE UploadTransfer ---------------------------
(***************************************************************************)
(* One upload, end to end: the client's UploadConnection                   *)
(* (src/src/client/client_app.cpp), the server's TransferSession           *)
(* (src/src/server/server_app.cpp) and the TCP connection between them.    *)
(*                                                                         *)
(* A content is a sequence of blocks; a block stands for some thousands of *)
(* bytes.  A checksum is the content it was computed from (CRC-32 without  *)
(* collisions).  The source file may be edited between the scan that       *)
(* produced the request and the moment it is read, which is why the        *)
(* request's size and checksum need not agree with it or each other.       *)
(*                                                                         *)
(* No other session touches this upload's files here: module MyDrive has   *)
(* several of them on one storage.                                         *)
(***************************************************************************)
EXTENDS Naturals, Sequences, Functions

CONSTANTS Block,         \* what a block may be
          Contents,      \* contents a file may have
          Modes,         \* values of config_.dma_enabled considered
          ChunkSize,     \* blocks in chunk_ and buffer_ (64 KiB in the code)
          SocketBuffer,  \* blocks the connection holds before a writer waits
          MaxEdits,      \* bound: edits of the source file during the upload
          Faults,        \* whether connections, file system calls and the
                         \* server process may fail
          OldFile,       \* what final_path_ held before
          NoFile         \* no file at a path

ASSUME ContentsAssumption == Contents \subseteq Seq(Block)
ASSUME ChunkSizeAssumption == ChunkSize \in Nat \ {0}
ASSUME SocketBufferAssumption == SocketBuffer \in Nat \ {0}
ASSUME ModesAssumption == Modes \subseteq BOOLEAN
ASSUME FaultsAssumption == Faults \in BOOLEAN
ASSUME MaxEditsAssumption == MaxEdits \in Nat

VARIABLES
    request,    \* the TransferRequest: size, checksum and use_dma
    source,     \* the client's file now
    edits,      \* edits of source so far
    disturbed,  \* ghost: an edit or a fault has happened
    (* UploadConnection *)
    cpc,        \* which completion handler the client waits for
    offset,     \* blocks of the source taken so far
    at_eof,     \* input_ has hit the end of the file
    chunk,      \* what async_write still has to hand to the socket
    sent,       \* blocks the socket accepted
    reports,    \* the values on_done_ was called with
    (* the connection *)
    conn,       \* "none", "up", "reset" (RST) or "broken" (RST after a FIN)
    requested,  \* the request frame is on its way
    c2s,        \* file blocks in flight
    s2c,        \* the TransferResult in flight, at most one
    cclosed,    \* the client closed its socket
    sclosed,    \* the server closed its socket
    (* TransferSession *)
    spc,        \* which step the server's session is at
    received,   \* bytes_received_
    temp,       \* the file at temp_path_
    final,      \* the file at final_path_
    status      \* the status given to write_result, or "none"

clientVars == <<cpc, offset, at_eof, chunk, sent, reports>>
connVars == <<conn, requested, c2s, s2c, cclosed, sclosed>>
serverVars == <<spc, received, temp, final, status>>
envVars == <<request, source, edits, disturbed>>
vars == <<clientVars, connVars, serverVars, envVars>>

Statuses == {"ok", "checksum_mismatch", "invalid_path", "write_failed"}
Smaller(a, b) == IF a < b THEN a ELSE b

(* scan_top_level_files reads the size and then the checksum: an edit in   *)
(* between makes them disagree.                                            *)
Init ==
    /\ \E sized, summed \in Contents, dma \in Modes :
        /\ request = [size |-> Len(sized), checksum |-> summed, use_dma |-> dma]
        /\ source \in Contents
        /\ disturbed = (sized # summed \/ source # summed)
    /\ edits = 0
    /\ cpc = "connecting" /\ offset = 0 /\ at_eof = FALSE
    /\ chunk = <<>> /\ sent = 0 /\ reports = <<>>
    /\ conn = "none" /\ requested = FALSE /\ c2s = <<>> /\ s2c = <<>>
    /\ cclosed = FALSE /\ sclosed = FALSE
    /\ spc = "idle" /\ received = 0
    /\ temp = NoFile /\ final = OldFile /\ status = "none"

-----------------------------------------------------------------------------
(* The TCP connection, as far as its two users can tell (Boost.Asio and    *)
(* the kernel are external).                                               *)

Broken == conn \in {"reset", "broken"}

(* What a read at the server can meet when no block is there to take.      *)
ServerReadFails == (c2s = <<>> /\ cclosed) \/ Broken

(* A read of the result fails when the server is gone without one; after a *)
(* reset an unread result may be lost or not.                              *)
ClientReadFails == (s2c = <<>> /\ sclosed) \/ Broken

(* Closing a socket that holds unread data sends a reset instead of a FIN; *)
(* data still on their way to it are answered by a reset after the FIN.    *)
Close(unread) ==
    conn' \in IF conn = "up" /\ unread THEN {"reset", "broken"} ELSE {conn}

-----------------------------------------------------------------------------
(* UploadConnection.                                                       *)

(* Slip: a failed write is reported and the result awaited all the same.   *)
finish_and_go_on(ok) ==
    /\ cpc' = "awaiting"
    /\ reports' = Append(reports, ok)
    /\ chunk' = <<>>
    /\ UNCHANGED <<offset, at_eof, sent, connVars>>

(* finish(): reports to the pool; nothing holds the connection afterwards, *)
(* so its socket is closed.                                                *)
finish(ok) ==
    /\ cpc' = "done"
    /\ reports' = Append(reports, ok)
    /\ cclosed' = TRUE
    /\ Close(s2c # <<>>)
    /\ chunk' = <<>>
    /\ UNCHANGED <<offset, at_eof, sent, requested, c2s, s2c, sclosed>>

(* start(): async_connect, and the error branch of its handler.            *)
start ==
    /\ cpc = "connecting"
    /\ \/ /\ cpc' = "requesting"
          /\ conn' = "up"
          /\ UNCHANGED <<offset, at_eof, chunk, sent, reports, requested, c2s,
                         s2c, cclosed, sclosed, envVars>>
       \/ /\ Faults
          /\ finish(FALSE)
          /\ disturbed' = TRUE
          /\ UNCHANGED <<request, source, edits>>
    /\ UNCHANGED serverVars

(* send_request(): the write of the frame.                                 *)
send_request ==
    /\ cpc = "requesting"
    /\ \/ /\ conn = "up"
          /\ requested' = TRUE
          /\ cpc' = "sending"
          /\ UNCHANGED <<offset, at_eof, chunk, sent, reports, conn, c2s, s2c,
                         cclosed, sclosed>>
       \/ /\ Broken
          /\ finish(FALSE)
    /\ UNCHANGED <<serverVars, envVars>>

(* The open of the source, first thing in send_file_buffered and in the    *)
(* thread of send_file_dma_or_fallback, fails: the request is on its way.  *)
OpenFails ==
    /\ cpc = "sending" /\ offset = 0 /\ ~at_eof
    /\ Faults
    /\ finish(FALSE)
    /\ disturbed' = TRUE
    /\ UNCHANGED <<request, source, edits, serverVars>>

(* write_next_chunk(): a full chunk, or the short last one after which the *)
(* stream is at its end for good, or nothing: then the result is awaited.  *)
write_next_chunk ==
    /\ cpc = "sending" /\ ~request.use_dma
    /\ LET left == IF at_eof \/ offset > Len(source) THEN 0
                   ELSE Len(source) - offset
           n == Smaller(ChunkSize, left)
       IN /\ chunk' = SubSeq(source, offset + 1, offset + n)
          /\ offset' = offset + n
          /\ at_eof' = (n < ChunkSize)
          /\ cpc' = IF n = 0 THEN "awaiting" ELSE "writing"
    /\ UNCHANGED <<sent, reports, connVars, serverVars, envVars>>

(* Blocks handed to the socket.  After the server's FIN they are accepted  *)
(* once and answered by a reset.                                           *)
Deliver(blocks) ==
    /\ sent' = sent + Len(blocks)
    /\ IF sclosed THEN conn' = "broken" /\ UNCHANGED c2s
                  ELSE c2s' = c2s \o blocks /\ UNCHANGED conn
    /\ UNCHANGED <<requested, s2c, cclosed, sclosed>>

Space == SocketBuffer - Len(c2s)

(* async_write of the chunk, as the socket takes it, and its handler.      *)
WriteChunk ==
    /\ cpc = "writing"
    /\ \/ /\ conn = "up"
          /\ \E n \in 1..Smaller(Len(chunk), Space) :
               /\ Deliver(SubSeq(chunk, 1, n))
               /\ chunk' = SubSeq(chunk, n + 1, Len(chunk))
          /\ cpc' = IF chunk' = <<>> THEN "sending" ELSE "writing"
          /\ UNCHANGED <<offset, at_eof, reports>>
       \/ /\ Broken
          /\ finish(FALSE)
    /\ UNCHANGED <<serverVars, envVars>>

(* The loop of the sendfile thread, one call at a time.  A write to a      *)
(* connection the server closed and then reset raises SIGPIPE, which this  *)
(* program leaves at its default: the process is killed.                   *)
sendfile ==
    /\ cpc = "sending" /\ request.use_dma
    /\ LET remaining == request.size - offset
           left == IF offset > Len(source) THEN 0 ELSE Len(source) - offset
       IN \/ /\ remaining = 0
             /\ cpc' = "awaiting"
             /\ UNCHANGED <<offset, at_eof, chunk, sent, reports, connVars>>
          \/ /\ remaining > 0 /\ left > 0 /\ conn = "up"
             /\ \E n \in 1..Smaller(Smaller(remaining, left), Space) :
                  /\ Deliver(SubSeq(source, offset + 1, offset + n))
                  /\ offset' = offset + n
             /\ UNCHANGED <<cpc, at_eof, chunk, reports>>
          \/ /\ remaining > 0 /\ left = 0 /\ conn = "up"
             /\ finish(FALSE)
          \/ /\ remaining > 0 /\ conn = "reset"
             /\ finish(FALSE)
          \/ /\ remaining > 0 /\ conn = "broken"
             /\ cpc' = "killed"
             /\ cclosed' = TRUE
             /\ UNCHANGED <<offset, at_eof, chunk, sent, reports, conn,
                            requested, c2s, s2c, sclosed>>
    /\ UNCHANGED <<serverVars, envVars>>

(* read_transfer_result(): the result's status decides, a lost connection  *)
(* counts as a failure.                                                    *)
read_transfer_result ==
    /\ cpc = "awaiting"
    /\ \/ /\ s2c # <<>>
          /\ cpc' = "done"
          /\ reports' = Append(reports, Head(s2c) = "ok")
          /\ s2c' = Tail(s2c)
          /\ cclosed' = TRUE
          /\ UNCHANGED <<offset, at_eof, chunk, sent, conn, requested, c2s, sclosed>>
       \/ /\ ClientReadFails
          /\ finish(FALSE)
    /\ UNCHANGED <<serverVars, envVars>>

-----------------------------------------------------------------------------
(* TransferSession.                                                        *)

(* Slip: the session ends without the answer.                              *)
write_result_dropped(result) ==
    /\ status' = result
    /\ spc' = "closing"

write_result(result) ==
    /\ status' = result
    /\ spc' = "replying"

(* Slips: no checksum; the checksum only after the rename.                 *)
finish_transfer_unverified(written) ==
    /\ temp' = NoFile
    /\ final' = written
    /\ write_result("ok")
    /\ UNCHANGED disturbed

finish_transfer_rename_first(written) ==
    /\ temp' = NoFile
    /\ final' = written
    /\ write_result(IF written = request.checksum THEN "ok" ELSE "checksum_mismatch")
    /\ UNCHANGED disturbed

(* finish_transfer(), when `written' is what reached the temporary file:   *)
(* a mismatch removes it, a match renames it over the final path.  When    *)
(* crc32_file or the removal throws the session answers that it could not  *)
(* write; when the rename fails replace_atomically removes the final file, *)
(* or cannot, and tries again.                                             *)
finish_transfer(written) ==
    \/ /\ written # request.checksum
       /\ temp' = NoFile
       /\ write_result("checksum_mismatch")
       /\ UNCHANGED <<final, disturbed>>
    \/ /\ written = request.checksum
       /\ temp' = NoFile
       /\ final' = written
       /\ write_result("ok")
       /\ UNCHANGED disturbed
    \/ /\ Faults
       /\ disturbed' = TRUE
       /\ temp' = written
       /\ \/ /\ write_result("write_failed")
             /\ UNCHANGED final
          \/ /\ written = request.checksum
             /\ final' \in {NoFile, final}
             /\ spc' = "retrying"
             /\ UNCHANGED status

(* Slips: done after the first bytes; done only after more than announced. *)
read_chunk_once(written, count) ==
    \/ /\ count > 0 \/ request.size = 0
       /\ finish_transfer(written)
    \/ /\ count = 0 /\ request.size > 0
       /\ temp' = written
       /\ spc' = "reading"
       /\ UNCHANGED <<final, status, disturbed>>

read_chunk_strictly(written, count) ==
    \/ /\ count > request.size
       /\ finish_transfer(written)
    \/ /\ count <= request.size
       /\ temp' = written
       /\ spc' = "reading"
       /\ UNCHANGED <<final, status, disturbed>>

(* read_chunk(): done when everything announced has come, whatever else    *)
(* may follow; otherwise the next read is started.                         *)
read_chunk(written, count) ==
    \/ /\ count >= request.size
       /\ finish_transfer(written)
    \/ /\ count < request.size
       /\ temp' = written
       /\ spc' = "reading"
       /\ UNCHANGED <<final, status, disturbed>>

(* start_with_request() and receive_file_bytes(): the temporary file is    *)
(* opened and truncated, or the session answers that it cannot.  A peer    *)
(* that goes away before its request is complete is dropped silently.      *)
receive_file_bytes ==
    /\ spc = "idle" /\ conn # "none"
    /\ \/ /\ requested
          /\ read_chunk(<<>>, 0)
          /\ UNCHANGED received
       \/ /\ requested /\ Faults
          /\ \E refusal \in {"write_failed", "invalid_path"} : write_result(refusal)
          /\ disturbed' = TRUE
          /\ UNCHANGED <<received, temp, final>>
       \/ /\ (~requested /\ cclosed) \/ Broken
          /\ spc' = "closing"
          /\ UNCHANGED <<received, temp, final, status, disturbed>>
    /\ UNCHANGED <<clientVars, connVars, request, source, edits>>

(* Slip: a read takes what the buffer holds, beyond the announced size.    *)
ReadSome_whole_buffer ==
    /\ spc = "reading"
    /\ \E n \in 1..Smaller(ChunkSize, Len(c2s)) :
        /\ received' = received + n
        /\ c2s' = SubSeq(c2s, n + 1, Len(c2s))
        /\ read_chunk(temp \o SubSeq(c2s, 1, n), received + n)
    /\ UNCHANGED <<clientVars, conn, requested, s2c, cclosed, sclosed,
                   request, source, edits>>

(* The handler of async_read_some: some of the announced bytes, a failed   *)
(* write of them, or an error of the connection.  The temporary file is    *)
(* left behind in the last two cases.                                      *)
ReadSome ==
    /\ spc = "reading"
    /\ \/ \E n \in 1..Smaller(Smaller(ChunkSize, request.size - received), Len(c2s)) :
            /\ received' = received + n
            /\ c2s' = SubSeq(c2s, n + 1, Len(c2s))
            /\ read_chunk(temp \o SubSeq(c2s, 1, n), received + n)
       \/ /\ Faults /\ c2s # <<>>
          /\ c2s' = Tail(c2s)
          /\ write_result("write_failed")
          /\ disturbed' = TRUE
          /\ UNCHANGED <<received, temp, final>>
       \/ /\ ServerReadFails
          /\ write_result("write_failed")
          /\ UNCHANGED <<received, temp, final, c2s, disturbed>>
    /\ UNCHANGED <<clientVars, conn, requested, s2c, cclosed, sclosed,
                   request, source, edits>>

(* The second rename of replace_atomically, which throws when it fails.    *)
RetryRename ==
    /\ spc = "retrying"
    /\ \/ /\ temp' = NoFile
          /\ final' = temp
          /\ write_result("ok")
          /\ UNCHANGED disturbed
       \/ /\ Faults
          /\ write_result("write_failed")
          /\ disturbed' = TRUE
          /\ UNCHANGED <<temp, final>>
    /\ UNCHANGED <<clientVars, connVars, received, request, source, edits>>

(* async_write of the TransferResult; its error is ignored.                *)
WriteResult ==
    /\ spc = "replying"
    /\ spc' = "closing"
    /\ s2c' = IF conn = "up" /\ ~cclosed THEN Append(s2c, status) ELSE s2c
    /\ UNCHANGED <<clientVars, envVars, conn, requested, c2s, cclosed, sclosed,
                   received, temp, final, status>>

(* No handler refers to the session any more: its socket is closed.        *)
CloseSession ==
    /\ spc = "closing"
    /\ spc' = "closed"
    /\ sclosed' = TRUE
    /\ Close(c2s # <<>>)
    /\ UNCHANGED <<clientVars, envVars, requested, c2s, s2c, cclosed,
                   received, temp, final, status>>

-----------------------------------------------------------------------------
(* The environment: edits of the source file, a reset of the connection by *)
(* the network, and the death of the server process.                       *)
Edit ==
    /\ edits < MaxEdits
    /\ edits' = edits + 1
    /\ source' \in Contents \ {source}
    /\ disturbed' = TRUE
    /\ UNCHANGED <<clientVars, connVars, serverVars, request>>

ConnectionReset ==
    /\ Faults /\ conn = "up"
    /\ conn' = IF sclosed THEN "broken" ELSE "reset"
    /\ disturbed' = TRUE
    /\ UNCHANGED <<clientVars, requested, c2s, s2c, cclosed, sclosed,
                   serverVars, request, source, edits>>

(* The kernel closes the socket of a server that dies; what it has stored  *)
(* stays as it is.  A request it has not read is unread data, too.         *)
ServerDies ==
    /\ Faults /\ conn # "none" /\ ~sclosed
    /\ spc' = "dead"
    /\ sclosed' = TRUE
    /\ Close(c2s # <<>> \/ (requested /\ spc = "idle"))
    /\ disturbed' = TRUE
    /\ UNCHANGED <<clientVars, requested, c2s, s2c, cclosed, received, temp,
                   final, status, request, source, edits>>

Client ==
    \/ start
    \/ send_request
    \/ OpenFails
    \/ write_next_chunk
    \/ WriteChunk
    \/ sendfile
    \/ read_transfer_result

Server ==
    \/ receive_file_bytes
    \/ ReadSome
    \/ RetryRename
    \/ WriteResult
    \/ CloseSession

Next == Client \/ Server \/ Edit \/ ConnectionReset \/ ServerDies

Spec == Init /\ [][Next]_vars

(* Both io_contexts keep running the handlers that are ready, and the      *)
(* sendfile thread keeps looping; nothing forces an edit or a fault.       *)
FairSpec == Spec /\ WF_vars(Client) /\ WF_vars(Server)

-----------------------------------------------------------------------------
TypeOK ==
    /\ request \in [size : Nat, checksum : Contents, use_dma : BOOLEAN]
    /\ source \in Contents /\ edits \in 0..MaxEdits /\ disturbed \in BOOLEAN
    /\ cpc \in {"connecting", "requesting", "sending", "writing", "awaiting",
                "done", "killed"}
    /\ offset \in Nat /\ sent \in Nat /\ at_eof \in BOOLEAN
    /\ conn \in {"none", "up", "reset", "broken"}
    /\ requested \in BOOLEAN /\ cclosed \in BOOLEAN /\ sclosed \in BOOLEAN
    /\ Len(c2s) \in 0..SocketBuffer /\ Len(s2c) \in 0..1
    /\ spc \in {"idle", "reading", "retrying", "replying", "closing", "closed", "dead"}
    /\ received \in 0..request.size
    /\ status \in Statuses \cup {"none"}

(* An upload the client counts as done is on the server: the final path    *)
(* holds the announced content, of the announced size, and no temporary    *)
(* file is left (README.md:11).                                            *)
OkIsStored ==
    TRUE \in Range(reports) =>
        /\ final = request.checksum
        /\ Len(final) = request.size
        /\ temp = NoFile

(* Whatever is edited, lost, interrupted or dies, and at every moment, the *)
(* final path holds the old file or the announced one: partial data is     *)
(* confined to the .part file.  Only a failed rename leaves nothing there, *)
(* and then the announced file is complete under the .part name: the old   *)
(* and the new one are never both gone.                                    *)
OldOrNew ==
    \/ final = OldFile
    \/ final = request.checksum /\ Len(final) = request.size
    \/ /\ final = NoFile /\ status \in {"none", "write_failed"}
       /\ temp = request.checksum /\ Len(temp) = request.size

(* finish() is reached at most once, on whichever of its paths, so the     *)
(* pool's counters are right (module UploadManager assumes it).            *)
ReportedOnce == Len(reports) = IF cpc = "done" THEN 1 ELSE 0

(* Without an edit or a fault the upload succeeds: closing the connection  *)
(* right after the result never destroys the result.                       *)
UndisturbedSucceeds == cpc = "done" /\ ~disturbed => reports = <<TRUE>>

(* SIGPIPE kills a client only while the server has stored nothing of its  *)
(* upload: the server has refused it, or died before it had all the bytes. *)
(* An upload that was answered ok, or that failed its checksum, is always  *)
(* reported.                                                               *)
KilledOnlyUnstored ==
    cpc = "killed" =>
        /\ request.use_dma /\ final = OldFile
        /\ \/ status \in {"write_failed", "invalid_path"}
           \/ status = "none" /\ spc = "dead" /\ received < request.size

(* The client waits for a result, the server for bytes, nothing is in      *)
(* flight, and fewer bytes than announced were sent: a buffered upload of  *)
(* a file that became shorter.                                             *)
ShortSource ==
    /\ cpc = "awaiting" /\ spc = "reading" /\ ~request.use_dma
    /\ sent < request.size /\ c2s = <<>> /\ ~cclosed

Finished == cpc \in {"done", "killed"}

(* Every upload ends, except in that one way: neither back pressure nor a  *)
(* fault nor any other edit leaves both sides waiting.                     *)
EndsOrShortSource == <>(Finished \/ ShortSource)
=============================================================================

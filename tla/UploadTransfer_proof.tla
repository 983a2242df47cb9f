------------------------ MODULE UploadTransfer_proof ------------------------
(***************************************************************************)
(* For all contents, chunk sizes and socket buffers, with any number of    *)
(* edits, lost connections, failed file system calls, and a server that    *)
(* may die: an upload the client counts as done is stored, the final path  *)
(* never shows a partial file and the old and the announced one are never  *)
(* both gone, the upload is reported at most once, a client is killed by   *)
(* SIGPIPE only while nothing is stored, and an upload nothing disturbs    *)
(* succeeds.                                                               *)
(***************************************************************************)
EXTENDS UploadTransfer, SequenceTheorems, TLAPS

(* What the messages and buffers hold.                                     *)
Typed ==
    /\ TypeOK
    /\ chunk \in Seq(Block) /\ c2s \in Seq(Block)
    /\ s2c \in Seq(Statuses) /\ reports \in Seq(BOOLEAN)

(* A status is given once, at the end; until then the temporary file is    *)
(* what has been received; "ok" is given only with the file in place.      *)
Stored ==
    /\ final = request.checksum
    /\ Len(final) = request.size
    /\ temp = NoFile

Session ==
    /\ spc = "idle" => received = 0
    /\ spc = "reading" => temp \in Seq(Block) /\ Len(temp) = received
    /\ spc = "retrying" => temp = request.checksum /\ Len(temp) = request.size
    /\ spc \in {"idle", "reading"} => final = OldFile
    /\ spc \in {"idle", "reading", "retrying"} => status = "none"
    /\ spc = "replying" => status \in Statuses
    /\ status = "ok" => Stored
    /\ OldOrNew

(* The answer that travels is the status given; a report of success is     *)
(* the end of the connection and repeats that answer.                      *)
Answer ==
    /\ spc \in {"idle", "reading", "retrying", "replying"} => s2c = <<>>
    /\ \A i \in DOMAIN s2c : s2c[i] = status
    /\ ReportedOnce
    /\ TRUE \in Range(reports) => status = "ok"

IInv == Typed /\ Session /\ Answer

-----------------------------------------------------------------------------
LEMMA InitInv == Init => IInv
  <1> SUFFICES ASSUME Init PROVE IInv
    OBVIOUS
  <1>1. PICK sized \in Contents, summed \in Contents, dma \in Modes :
            /\ request = [size |-> Len(sized), checksum |-> summed, use_dma |-> dma]
            /\ source \in Contents
            /\ disturbed = (sized # summed \/ source # summed)
    BY DEF Init
  <1>2. Len(sized) \in Nat /\ dma \in BOOLEAN
    BY ContentsAssumption, ModesAssumption
  <1>3. request \in [size : Nat, checksum : Contents, use_dma : BOOLEAN]
        /\ received \in 0..request.size
    BY <1>1, <1>2 DEF Init
  <1>4. TypeOK
    <2>1. disturbed \in BOOLEAN
      BY <1>1, Zenon
    <2>2. edits \in 0..MaxEdits /\ Len(c2s) \in 0..SocketBuffer /\ Len(s2c) \in 0..1
      BY SocketBufferAssumption, MaxEditsAssumption DEF Init
    <2> QED BY <1>1, <1>3, <2>1, <2>2 DEF Init, TypeOK
  <1>5. Typed
    BY <1>4 DEF Init, Typed
  <1>6. Session
    BY DEF Init, Session, Stored, OldOrNew
  <1>7. Answer
    BY DEF Init, Answer, ReportedOnce, Range
  <1> QED BY <1>5, <1>6, <1>7 DEF IInv

(* Appending a report adds it to those made.                               *)
LEMMA RangeAppend ==
    ASSUME NEW S, NEW seq \in Seq(S), NEW e \in S
    PROVE  Range(Append(seq, e)) = Range(seq) \cup {e}
  <1> DEFINE longer == Append(seq, e)
  <1>1. /\ DOMAIN longer = DOMAIN seq \cup {Len(seq) + 1}
        /\ \A i \in DOMAIN seq : longer[i] = seq[i]
        /\ longer[Len(seq) + 1] = e
    OBVIOUS
  <1> QED BY <1>1 DEF Range

(* What no step of the client does to the server's session.                *)
LEMMA SessionKept ==
    ASSUME Session, UNCHANGED serverVars, UNCHANGED request
    PROVE  Session'
  BY DEF Session, Stored, OldOrNew, serverVars

(* finish(): a report that agrees with the session's status.               *)
LEMMA FinishInv ==
    ASSUME IInv, NEW ok \in BOOLEAN, finish(ok), ok => status = "ok",
           cpc # "done", UNCHANGED serverVars,
           UNCHANGED <<request, source, edits>>, disturbed' \in BOOLEAN
    PROVE  IInv'
  <1>1. Typed'
    BY DEF IInv, Typed, TypeOK, finish, Close, serverVars
  <1>2. Session'
    BY SessionKept DEF IInv
  <1>3. Range(reports') = Range(reports) \cup {ok}
    BY RangeAppend DEF finish, IInv, Typed
  <1>4. Answer'
    <2>1. Len(reports') = 1 /\ cpc' = "done"
      BY DEF finish, IInv, Typed, Answer, ReportedOnce
    <2>2. s2c' = s2c /\ spc' = spc /\ status' = status
      BY DEF finish, serverVars
    <2>3. TRUE \in Range(reports') => status' = "ok"
      BY <1>3, <2>2 DEF IInv, Answer
    <2> QED BY <2>1, <2>2, <2>3 DEF IInv, Answer, ReportedOnce
  <1> QED BY <1>1, <1>2, <1>4 DEF IInv

(* A step of the client that reports nothing, takes no answer and sends at *)
(* most blocks.                                                            *)
LEMMA SilentInv ==
    ASSUME IInv, Typed', UNCHANGED serverVars, UNCHANGED request,
           UNCHANGED <<reports, s2c>>, cpc' # "done", cpc # "done"
    PROVE  IInv'
  <1>1. Session'
    BY SessionKept DEF IInv
  <1>2. Answer'
    BY DEF IInv, Answer, ReportedOnce, serverVars
  <1> QED BY <1>1, <1>2 DEF IInv

-----------------------------------------------------------------------------
LEMMA StartInv == IInv /\ start => IInv'
  <1> SUFFICES ASSUME IInv, start PROVE IInv'
    OBVIOUS
  <1>1. CASE cpc' = "requesting"
    <2>1. Typed'
      BY <1>1 DEF start, IInv, Typed, TypeOK, serverVars, envVars, finish
    <2>2. UNCHANGED <<request, reports, s2c, serverVars>>
      BY <1>1 DEF start, envVars, finish
    <2> QED BY <1>1, <2>1, <2>2, SilentInv DEF start
  <1>2. CASE cpc' # "requesting"
    <2>1. /\ finish(FALSE) /\ disturbed' = TRUE /\ UNCHANGED serverVars
          /\ UNCHANGED <<request, source, edits>> /\ cpc # "done"
      BY <1>2 DEF start
    <2> QED BY <2>1, FinishInv
  <1> QED BY <1>1, <1>2

LEMMA SendRequestInv == IInv /\ send_request => IInv'
  <1> SUFFICES ASSUME IInv, send_request PROVE IInv'
    OBVIOUS
  <1>1. CASE cpc' = "sending"
    <2>1. Typed'
      BY <1>1 DEF send_request, IInv, Typed, TypeOK, serverVars, envVars, finish
    <2>2. UNCHANGED <<request, reports, s2c, serverVars>>
      BY <1>1 DEF send_request, envVars, finish
    <2> QED BY <1>1, <2>1, <2>2, SilentInv DEF send_request
  <1>2. CASE cpc' # "sending"
    <2>1. /\ finish(FALSE) /\ disturbed' \in BOOLEAN /\ UNCHANGED serverVars
          /\ UNCHANGED <<request, source, edits>> /\ cpc # "done"
      BY <1>2 DEF send_request, envVars, IInv, Typed, TypeOK
    <2> QED BY <2>1, FinishInv
  <1> QED BY <1>1, <1>2

LEMMA OpenFailsInv == IInv /\ OpenFails => IInv'
  <1> SUFFICES ASSUME IInv, OpenFails PROVE IInv'
    OBVIOUS
  <1>1. /\ finish(FALSE) /\ disturbed' = TRUE /\ UNCHANGED serverVars
        /\ UNCHANGED <<request, source, edits>> /\ cpc # "done"
    BY DEF OpenFails
  <1> QED BY <1>1, FinishInv

(* The next n elements of a sequence, n being within its length.           *)
LEMMA PieceType ==
    ASSUME NEW S, NEW seq \in Seq(S), NEW m \in Nat, NEW n \in Nat, m + n <= Len(seq)
    PROVE  /\ SubSeq(seq, m + 1, m + n) \in Seq(S)
           /\ Len(SubSeq(seq, m + 1, m + n)) = n
  <1>1. \A i \in (m + 1)..(m + n) : seq[i] \in S
    OBVIOUS
  <1> QED BY <1>1, SubSeqProperties

LEMMA SourceType == IInv => source \in Seq(Block) /\ Len(source) \in Nat
  BY ContentsAssumption DEF IInv, Typed, TypeOK

LEMMA WriteNextChunkInv == IInv /\ write_next_chunk => IInv'
  <1> SUFFICES ASSUME IInv, write_next_chunk PROVE IInv'
    OBVIOUS
  <1> DEFINE left == IF at_eof \/ offset > Len(source) THEN 0 ELSE Len(source) - offset
             n == Smaller(ChunkSize, left)
  <1>1. offset \in Nat /\ source \in Seq(Block) /\ Len(source) \in Nat
    BY SourceType DEF IInv, Typed, TypeOK
  <1>2. n \in Nat /\ n <= left
    BY <1>1, ChunkSizeAssumption DEF Smaller
  <1>3. SubSeq(source, offset + 1, offset + n) \in Seq(Block)
    <2>1. CASE n = 0
      BY <2>1, <1>1, SubSeqEmpty
    <2>2. CASE n > 0
      <3>1. offset + n <= Len(source)
        BY <2>2, <1>1, <1>2
      <3> QED BY <3>1, <1>1, <1>2, PieceType
    <2> QED BY <1>2, <2>1, <2>2
  <1>4. /\ chunk' = SubSeq(source, offset + 1, offset + n)
        /\ offset' = offset + n
        /\ at_eof' = (n < ChunkSize)
        /\ cpc' = IF n = 0 THEN "awaiting" ELSE "writing"
    BY DEF write_next_chunk
  <1> HIDE DEF n
  <1>5. Typed'
    <2>1. at_eof' \in BOOLEAN
      <3>1. CASE n < ChunkSize
        BY <3>1, <1>4
      <3>2. CASE ~(n < ChunkSize)
        BY <3>2, <1>4
      <3> QED BY <3>1, <3>2
    <2>2. cpc' \in {"awaiting", "writing"} /\ offset' \in Nat
      BY <1>1, <1>2, <1>4
    <2>3. UNCHANGED <<sent, reports, connVars, serverVars, envVars>>
      BY DEF write_next_chunk
    <2> QED BY <1>3, <1>4, <2>1, <2>2, <2>3
        DEF IInv, Typed, TypeOK, serverVars, envVars, connVars
  <1>6. UNCHANGED <<request, reports, s2c, serverVars>> /\ cpc # "done" /\ cpc' # "done"
    BY <1>4 DEF write_next_chunk, envVars, connVars
  <1> QED BY <1>5, <1>6, SilentInv

(* The first n elements of a sequence and what follows them.               *)
LEMMA CutType ==
    ASSUME NEW S, NEW seq \in Seq(S), NEW n \in 1..Len(seq)
    PROVE  /\ SubSeq(seq, 1, n) \in Seq(S) /\ Len(SubSeq(seq, 1, n)) = n
           /\ SubSeq(seq, n + 1, Len(seq)) \in Seq(S)
           /\ Len(SubSeq(seq, n + 1, Len(seq))) = Len(seq) - n
  <1>1. SubSeq(seq, 0 + 1, 0 + n) \in Seq(S) /\ Len(SubSeq(seq, 0 + 1, 0 + n)) = n
    BY PieceType
  <1>2. /\ SubSeq(seq, n + 1, n + (Len(seq) - n)) \in Seq(S)
        /\ Len(SubSeq(seq, n + 1, n + (Len(seq) - n))) = Len(seq) - n
    BY PieceType
  <1>3. 0 + 1 = 1 /\ 0 + n = n /\ n + (Len(seq) - n) = Len(seq)
    OBVIOUS
  <1> QED BY <1>1, <1>2, <1>3

(* Deliver(): the socket's buffer takes blocks it has room for.            *)
LEMMA DeliverType ==
    ASSUME IInv, NEW blocks \in Seq(Block), Len(blocks) <= Space, Deliver(blocks)
    PROVE  /\ sent' \in Nat /\ c2s' \in Seq(Block) /\ Len(c2s') \in 0..SocketBuffer
           /\ conn' \in {conn, "broken"}
           /\ UNCHANGED <<requested, s2c, cclosed, sclosed>>
  <1>1. /\ c2s \in Seq(Block) /\ Len(c2s) \in 0..SocketBuffer /\ sent \in Nat
        /\ Len(blocks) \in Nat
    BY DEF IInv, Typed, TypeOK
  <1>2. c2s \o blocks \in Seq(Block) /\ Len(c2s \o blocks) = Len(c2s) + Len(blocks)
    BY <1>1
  <1>3. c2s' \in {c2s, c2s \o blocks} /\ conn' \in {conn, "broken"}
    BY DEF Deliver
  <1>4. sent' \in Nat /\ UNCHANGED <<requested, s2c, cclosed, sclosed>>
    BY <1>1 DEF Deliver
  <1>5. c2s' \in Seq(Block) /\ Len(c2s') \in 0..SocketBuffer
    <2>1. CASE c2s' = c2s
      BY <2>1, <1>1
    <2>2. CASE c2s' = c2s \o blocks
      BY <2>2, <1>1, <1>2, SocketBufferAssumption DEF Space
    <2> QED BY <1>3, <2>1, <2>2
  <1> QED BY <1>3, <1>4, <1>5

LEMMA WriteChunkInv == IInv /\ WriteChunk => IInv'
  <1> SUFFICES ASSUME IInv, WriteChunk PROVE IInv'
    OBVIOUS
  <1>1. CASE finish(FALSE)
    <2>1. /\ disturbed' \in BOOLEAN /\ UNCHANGED serverVars
          /\ UNCHANGED <<request, source, edits>> /\ cpc # "done"
      BY DEF WriteChunk, envVars, IInv, Typed, TypeOK
    <2> QED BY <1>1, <2>1, FinishInv
  <1>2. ASSUME NEW n \in 1..Smaller(Len(chunk), Space),
               Deliver(SubSeq(chunk, 1, n)),
               chunk' = SubSeq(chunk, n + 1, Len(chunk)),
               cpc' = IF chunk' = <<>> THEN "sending" ELSE "writing",
               UNCHANGED <<offset, at_eof, reports>>
        PROVE IInv'
    <2>1. chunk \in Seq(Block) /\ Len(c2s) \in Nat
      BY DEF IInv, Typed, TypeOK
    <2>2. n \in 1..Len(chunk) /\ n <= Space
      BY <2>1, SocketBufferAssumption DEF Smaller, Space
    <2>3. /\ SubSeq(chunk, 1, n) \in Seq(Block) /\ Len(SubSeq(chunk, 1, n)) = n
          /\ chunk' \in Seq(Block)
      BY <1>2, <2>1, <2>2, CutType
    <2>4. /\ sent' \in Nat /\ c2s' \in Seq(Block) /\ Len(c2s') \in 0..SocketBuffer
          /\ conn' \in {conn, "broken"}
          /\ UNCHANGED <<requested, s2c, cclosed, sclosed>>
      BY <1>2, <2>2, <2>3, DeliverType
    <2>5. UNCHANGED <<serverVars, envVars>> /\ cpc # "done"
      BY DEF WriteChunk
    <2>6. cpc' \in {"sending", "writing"}
      BY <1>2
    <2>7. Typed'
      BY <1>2, <2>3, <2>4, <2>5, <2>6
      DEF IInv, Typed, TypeOK, serverVars, envVars
    <2> QED BY <1>2, <2>4, <2>5, <2>6, <2>7, SilentInv DEF envVars
  <1> QED BY <1>1, <1>2 DEF WriteChunk

LEMMA SendfileInv == IInv /\ sendfile => IInv'
  <1> SUFFICES ASSUME IInv, sendfile PROVE IInv'
    OBVIOUS
  <1> DEFINE remaining == request.size - offset
             left == IF offset > Len(source) THEN 0 ELSE Len(source) - offset
  <1>1. UNCHANGED <<serverVars, envVars>> /\ cpc = "sending" /\ disturbed' \in BOOLEAN
    BY DEF sendfile, envVars, IInv, Typed, TypeOK
  <1>2. UNCHANGED <<request, source, edits, disturbed>>
    BY <1>1 DEF envVars
  <1>3. CASE finish(FALSE)
    BY <1>1, <1>2, <1>3, FinishInv
  <1>4. CASE /\ cpc' = "awaiting"
             /\ UNCHANGED <<offset, at_eof, chunk, sent, reports, connVars>>
    <2>1. Typed'
      BY <1>1, <1>4 DEF IInv, Typed, TypeOK, serverVars, envVars, connVars
    <2> QED BY <1>1, <1>2, <1>4, <2>1, SilentInv DEF connVars
  <1>5. CASE /\ cpc' = "killed" /\ cclosed' = TRUE
             /\ UNCHANGED <<offset, at_eof, chunk, sent, reports, conn,
                            requested, c2s, s2c, sclosed>>
    <2>1. Typed'
      BY <1>1, <1>5 DEF IInv, Typed, TypeOK, serverVars, envVars
    <2> QED BY <1>1, <1>2, <1>5, <2>1, SilentInv
  <1>6. ASSUME NEW n \in 1..Smaller(Smaller(remaining, left), Space),
               Deliver(SubSeq(source, offset + 1, offset + n)),
               offset' = offset + n,
               UNCHANGED <<cpc, at_eof, chunk, reports>>
        PROVE IInv'
    <2>1. /\ source \in Seq(Block) /\ Len(source) \in Nat /\ offset \in Nat
          /\ Len(c2s) \in Nat /\ request.size \in Nat
      BY SourceType DEF IInv, Typed, TypeOK
    <2>2. n \in Nat /\ offset + n <= Len(source) /\ n <= Space
      BY <2>1, SocketBufferAssumption DEF Smaller, Space
    <2>3. /\ SubSeq(source, offset + 1, offset + n) \in Seq(Block)
          /\ Len(SubSeq(source, offset + 1, offset + n)) = n
      BY <2>1, <2>2, PieceType
    <2>4. /\ sent' \in Nat /\ c2s' \in Seq(Block) /\ Len(c2s') \in 0..SocketBuffer
          /\ conn' \in {conn, "broken"}
          /\ UNCHANGED <<requested, s2c, cclosed, sclosed>>
      BY <1>6, <2>2, <2>3, DeliverType
    <2>5. offset' \in Nat
      BY <1>6, <2>1, <2>2
    <2>6. Typed'
      BY <1>1, <1>6, <2>4, <2>5 DEF IInv, Typed, TypeOK, serverVars, envVars
    <2> QED BY <1>1, <1>2, <1>6, <2>4, <2>6, SilentInv
  <1> QED BY <1>3, <1>4, <1>5, <1>6 DEF sendfile

LEMMA ReadTransferResultInv == IInv /\ read_transfer_result => IInv'
  <1> SUFFICES ASSUME IInv, read_transfer_result PROVE IInv'
    OBVIOUS
  <1>1. UNCHANGED <<serverVars, envVars>> /\ cpc = "awaiting"
    BY DEF read_transfer_result
  <1>2. CASE finish(FALSE)
    <2>1. disturbed' \in BOOLEAN /\ UNCHANGED <<request, source, edits>>
      BY <1>1 DEF envVars, IInv, Typed, TypeOK
    <2> QED BY <1>1, <1>2, <2>1, FinishInv
  <1>3. CASE /\ s2c # <<>> /\ cpc' = "done"
             /\ reports' = Append(reports, Head(s2c) = "ok")
             /\ s2c' = Tail(s2c) /\ cclosed' = TRUE
             /\ UNCHANGED <<offset, at_eof, chunk, sent, conn, requested, c2s, sclosed>>
    <2> DEFINE ok == Head(s2c) = "ok"
    <2>1. s2c \in Seq(Statuses) /\ Len(s2c) = 1 /\ reports \in Seq(BOOLEAN)
      BY <1>3, EmptySeq DEF IInv, Typed, TypeOK
    <2>2. Head(s2c) = status /\ s2c' = <<>>
      BY <1>3, <2>1 DEF IInv, Answer
    <2>3. ok \in BOOLEAN /\ (ok => status = "ok")
      BY <2>2
    <2>4. reports' = Append(reports, ok)
      BY <1>3
    <2> HIDE DEF ok
    <2>5. /\ reports' \in Seq(BOOLEAN) /\ Len(reports') = Len(reports) + 1
          /\ Range(reports') = Range(reports) \cup {ok}
      BY <2>1, <2>3, <2>4, RangeAppend
    <2>6. Typed'
      BY <1>1, <1>3, <2>2, <2>5 DEF IInv, Typed, TypeOK, serverVars, envVars
    <2>7. Session'
      BY <1>1, SessionKept DEF IInv, envVars
    <2>8. status' = status /\ spc' = spc
      BY <1>1 DEF serverVars
    <2>9. TRUE \in Range(reports') => status' = "ok"
      BY <2>3, <2>5, <2>8 DEF IInv, Answer
    <2>10. ReportedOnce'
      BY <1>1, <1>3, <2>5 DEF IInv, Answer, ReportedOnce
    <2>11. \A i \in DOMAIN s2c' : s2c'[i] = status'
      <3>1. DOMAIN s2c' = {}
        BY <2>2
      <3> QED BY <3>1
    <2>12. Answer'
      BY <2>2, <2>9, <2>10, <2>11 DEF Answer
    <2> QED BY <2>6, <2>7, <2>12 DEF IInv
  <1> QED BY <1>2, <1>3 DEF read_transfer_result

-----------------------------------------------------------------------------
(* The session decides: whatever was not answered yet gets its status.     *)
LEMMA DecideInv ==
    ASSUME IInv, spc \in {"idle", "reading", "retrying"}, Typed',
           UNCHANGED clientVars, UNCHANGED s2c, UNCHANGED request,
           OldOrNew', status' = "ok" => Stored',
           \/ /\ spc' = "reading" /\ status' = "none" /\ final' = OldFile
              /\ temp' \in Seq(Block) /\ Len(temp') = received'
           \/ /\ spc' = "retrying" /\ status' = "none"
              /\ temp' = request.checksum /\ Len(temp') = request.size
           \/ spc' = "replying" /\ status' \in Statuses
           \/ spc' = "closing" /\ status' = "none"
    PROVE  IInv'
  <1>1. Session'
    BY DEF Session, IInv
  <1>2. status = "none" /\ s2c = <<>> /\ ~(TRUE \in Range(reports))
    BY DEF IInv, Session, Answer
  <1>3. cpc' = cpc /\ reports' = reports /\ s2c' = <<>>
    BY <1>2 DEF clientVars
  <1>4. \A i \in DOMAIN s2c' : s2c'[i] = status'
    <2>1. DOMAIN s2c' = {}
      BY <1>3
    <2> QED BY <2>1
  <1>5. Answer'
    BY <1>2, <1>3, <1>4 DEF IInv, Answer, ReportedOnce
  <1> QED BY <1>1, <1>5 DEF IInv

(* read_chunk(), and finish_transfer() when everything has come: the final *)
(* path changes only to a content that has the announced checksum and, no  *)
(* byte being taken beyond it, the announced size; or, with that content   *)
(* in the temporary file, to nothing.                                      *)
LEMMA ReadChunkSession ==
    ASSUME IInv, spc \in {"idle", "reading"},
           NEW written \in Seq(Block), NEW count \in 0..request.size,
           Len(written) = count, received' = count,
           read_chunk(written, count), UNCHANGED request
    PROVE  /\ OldOrNew' /\ (status' = "ok" => Stored') /\ disturbed' \in BOOLEAN
           /\ \/ /\ spc' = "reading" /\ status' = "none" /\ final' = OldFile
                 /\ temp' \in Seq(Block) /\ Len(temp') = received'
              \/ /\ spc' = "retrying" /\ status' = "none"
                 /\ temp' = request.checksum /\ Len(temp') = request.size
              \/ spc' = "replying" /\ status' \in Statuses
  <1>1. /\ status = "none" /\ final = OldFile /\ request.size \in Nat
        /\ disturbed \in BOOLEAN
    BY DEF IInv, Session, Typed, TypeOK
  <1>2. CASE count < request.size
    <2>1. /\ temp' = written /\ spc' = "reading" /\ final' = final
          /\ status' = status /\ disturbed' = disturbed
      BY <1>1, <1>2 DEF read_chunk
    <2> QED BY <1>1, <2>1 DEF OldOrNew
  <1>3. CASE count >= request.size
    <2>1. finish_transfer(written) /\ Len(written) = request.size
      BY <1>1, <1>3 DEF read_chunk
    <2>2. CASE /\ final' = final /\ disturbed' \in {disturbed, TRUE}
               /\ \E result \in {"checksum_mismatch", "write_failed"} : write_result(result)
      <3>1. status' \in {"checksum_mismatch", "write_failed"} /\ spc' = "replying"
        BY <2>2 DEF write_result
      <3> QED BY <1>1, <2>2, <3>1 DEF OldOrNew, Statuses
    <2>3. CASE /\ written = request.checksum /\ temp' = NoFile /\ final' = written
               /\ write_result("ok") /\ UNCHANGED disturbed
      <3>1. status' = "ok" /\ spc' = "replying"
        BY <2>3 DEF write_result
      <3> QED BY <1>1, <2>1, <2>3, <3>1 DEF OldOrNew, Stored, Statuses
    <2>4. CASE /\ disturbed' = TRUE /\ temp' = written /\ written = request.checksum
               /\ final' \in {NoFile, final} /\ spc' = "retrying" /\ UNCHANGED status
      BY <1>1, <2>1, <2>4 DEF OldOrNew
    <2> QED BY <2>1, <2>2, <2>3, <2>4 DEF finish_transfer
  <1> QED BY <1>1, <1>2, <1>3

LEMMA ReceiveFileBytesInv == IInv /\ receive_file_bytes => IInv'
  <1> SUFFICES ASSUME IInv, receive_file_bytes PROVE IInv'
    OBVIOUS
  <1>1. /\ spc = "idle" /\ UNCHANGED <<clientVars, connVars, request, source, edits>>
        /\ received' = received
    BY DEF receive_file_bytes, IInv, Typed, TypeOK
  <1>2. /\ received = 0 /\ status = "none" /\ OldOrNew /\ request.size \in Nat
        /\ disturbed \in BOOLEAN /\ final = OldFile
    BY <1>1 DEF IInv, Session, Typed, TypeOK
  <1>3. /\ OldOrNew' /\ (status' = "ok" => Stored') /\ disturbed' \in BOOLEAN
        /\ \/ /\ spc' = "reading" /\ status' = "none" /\ final' = OldFile
              /\ temp' \in Seq(Block) /\ Len(temp') = received'
           \/ /\ spc' = "retrying" /\ status' = "none"
              /\ temp' = request.checksum /\ Len(temp') = request.size
           \/ spc' = "replying" /\ status' \in Statuses
           \/ spc' = "closing" /\ status' = "none"
    <2>1. CASE read_chunk(<<>>, 0)
      <3>1. /\ <<>> \in Seq(Block) /\ Len(<<>>) = 0 /\ received' = 0
            /\ 0 \in 0..request.size
        BY <1>1, <1>2
      <3> QED BY <1>1, <2>1, <3>1, ReadChunkSession
    <2>2. CASE /\ final' = final /\ disturbed' = TRUE
               /\ \E refusal \in {"write_failed", "invalid_path"} : write_result(refusal)
      BY <1>1, <1>2, <2>2 DEF write_result, OldOrNew, Statuses
    <2>3. CASE /\ final' = final /\ spc' = "closing" /\ status' = status
               /\ disturbed' = disturbed
      BY <1>1, <1>2, <2>3 DEF OldOrNew
    <2> QED BY <2>1, <2>2, <2>3 DEF receive_file_bytes
  <1>4. Typed'
    <2>1. /\ status' \in Statuses \cup {"none"}
          /\ spc' \in {"reading", "retrying", "replying", "closing"}
      BY <1>3
    <2> QED BY <1>1, <1>3, <2>1 DEF IInv, Typed, TypeOK, clientVars, connVars
  <1> QED BY <1>1, <1>3, <1>4, DecideInv DEF connVars

LEMMA ReadSomeInv == IInv /\ ReadSome => IInv'
  <1> SUFFICES ASSUME IInv, ReadSome PROVE IInv'
    OBVIOUS
  <1>1. /\ spc = "reading" /\ UNCHANGED clientVars
        /\ UNCHANGED <<conn, requested, s2c, cclosed, sclosed, request, source, edits>>
    BY DEF ReadSome
  <1>2. /\ temp \in Seq(Block) /\ Len(temp) = received /\ status = "none"
        /\ final = OldFile /\ c2s \in Seq(Block) /\ Len(c2s) \in 0..SocketBuffer
        /\ received \in 0..request.size /\ request.size \in Nat
    BY <1>1 DEF IInv, Session, Typed, TypeOK
  <1>3. CASE \E n \in 1..Smaller(Smaller(ChunkSize, request.size - received), Len(c2s)) :
               /\ received' = received + n
               /\ c2s' = SubSeq(c2s, n + 1, Len(c2s))
               /\ read_chunk(temp \o SubSeq(c2s, 1, n), received + n)
    <2>1. PICK n \in 1..Smaller(Smaller(ChunkSize, request.size - received), Len(c2s)) :
               /\ received' = received + n
               /\ c2s' = SubSeq(c2s, n + 1, Len(c2s))
               /\ read_chunk(temp \o SubSeq(c2s, 1, n), received + n)
      BY <1>3
    <2>2. n \in 1..Len(c2s) /\ n <= request.size - received
      BY <1>2, ChunkSizeAssumption DEF Smaller
    <2>3. /\ SubSeq(c2s, 1, n) \in Seq(Block) /\ Len(SubSeq(c2s, 1, n)) = n
          /\ c2s' \in Seq(Block) /\ Len(c2s') = Len(c2s) - n
      BY <1>2, <2>1, <2>2, CutType
    <2> DEFINE written == temp \o SubSeq(c2s, 1, n)
    <2>4. written \in Seq(Block) /\ Len(written) = received + n
      BY <1>2, <2>3
    <2>5. received + n \in 0..request.size /\ Len(c2s') \in 0..SocketBuffer
      BY <1>2, <2>2, <2>3, SocketBufferAssumption
    <2> HIDE DEF written
    <2>6. read_chunk(written, received + n)
      BY <2>1 DEF written
    <2>7. /\ OldOrNew' /\ (status' = "ok" => Stored') /\ disturbed' \in BOOLEAN
          /\ \/ /\ spc' = "reading" /\ status' = "none" /\ final' = OldFile
                /\ temp' \in Seq(Block) /\ Len(temp') = received'
             \/ /\ spc' = "retrying" /\ status' = "none"
                /\ temp' = request.checksum /\ Len(temp') = request.size
             \/ spc' = "replying" /\ status' \in Statuses
      BY <1>1, <2>1, <2>4, <2>5, <2>6, ReadChunkSession
    <2>8. Typed'
      <3>1. status' \in Statuses \cup {"none"} /\ spc' \in {"reading", "retrying", "replying"}
        BY <2>7
      <3> QED BY <1>1, <2>1, <2>3, <2>5, <2>7, <3>1 DEF IInv, Typed, TypeOK, clientVars
    <2> QED BY <1>1, <2>7, <2>8, DecideInv
  <1>4. CASE /\ c2s' = c2s \/ (c2s # <<>> /\ c2s' = Tail(c2s))
             /\ write_result("write_failed") /\ disturbed' \in BOOLEAN
             /\ UNCHANGED <<received, temp, final>>
    <2>1. c2s' \in Seq(Block) /\ Len(c2s') \in 0..SocketBuffer
      <3>1. CASE c2s' = c2s
        BY <3>1, <1>2
      <3>2. CASE c2s' = Tail(c2s) /\ c2s # <<>>
        <4>1. Tail(c2s) \in Seq(Block) /\ Len(Tail(c2s)) = Len(c2s) - 1
          BY <3>2, <1>2
        <4> QED BY <3>2, <4>1, <1>2, SocketBufferAssumption
      <3> QED BY <1>4, <3>1, <3>2
    <2>2. status' = "write_failed" /\ spc' = "replying" /\ final' = final
      BY <1>4 DEF write_result
    <2>3. Typed'
      BY <1>1, <1>4, <2>1, <2>2 DEF IInv, Typed, TypeOK, clientVars, Statuses
    <2>4. OldOrNew'
      BY <1>1, <1>2, <2>2 DEF OldOrNew
    <2> QED BY <1>1, <2>2, <2>3, <2>4, DecideInv DEF Statuses
  <1>5. CASE /\ c2s # <<>> /\ c2s' = Tail(c2s)
             /\ write_result("write_failed") /\ disturbed' = TRUE
             /\ UNCHANGED <<received, temp, final>>
    BY <1>4, <1>5
  <1>6. CASE /\ write_result("write_failed")
             /\ UNCHANGED <<received, temp, final, c2s, disturbed>>
    <2>1. disturbed \in BOOLEAN
      BY DEF IInv, Typed, TypeOK
    <2> QED BY <2>1, <1>4, <1>6
  <1> QED BY <1>3, <1>5, <1>6 DEF ReadSome

LEMMA RetryRenameInv == IInv /\ RetryRename => IInv'
  <1> SUFFICES ASSUME IInv, RetryRename PROVE IInv'
    OBVIOUS
  <1>1. /\ spc = "retrying" /\ spc' = "replying"
        /\ UNCHANGED <<clientVars, connVars, received, request, source, edits>>
        /\ \/ /\ temp' = NoFile /\ final' = temp /\ status' = "ok"
              /\ disturbed' = disturbed
           \/ /\ status' = "write_failed" /\ disturbed' = TRUE
              /\ UNCHANGED <<temp, final>>
    BY DEF RetryRename, write_result
  <1>2. /\ temp = request.checksum /\ Len(temp) = request.size /\ OldOrNew
        /\ status = "none"
    BY <1>1 DEF IInv, Session
  <1>3. Typed'
    <2>1. /\ spc' = "replying"
          /\ status' \in Statuses /\ disturbed' \in BOOLEAN
      BY <1>1 DEF IInv, Typed, TypeOK, Statuses
    <2> QED BY <1>1, <2>1 DEF IInv, Typed, TypeOK, clientVars, connVars
  <1>4. OldOrNew' /\ (status' = "ok" => Stored') /\ status' \in Statuses
    BY <1>1, <1>2 DEF OldOrNew, Stored, Statuses
  <1> QED BY <1>1, <1>3, <1>4, DecideInv DEF connVars

LEMMA WriteResultInv == IInv /\ WriteResult => IInv'
  <1> SUFFICES ASSUME IInv, WriteResult PROVE IInv'
    OBVIOUS
  <1>1. /\ spc = "replying" /\ spc' = "closing"
        /\ UNCHANGED <<clientVars, envVars, conn, requested, c2s, cclosed, sclosed,
                       received, temp, final, status>>
        /\ s2c' \in {s2c, Append(s2c, status)}
    BY DEF WriteResult
  <1>2. s2c = <<>> /\ status \in Statuses
    BY <1>1 DEF IInv, Answer, Session
  <1>3. /\ s2c' \in Seq(Statuses) /\ Len(s2c') \in 0..1
        /\ \A i \in DOMAIN s2c' : s2c'[i] = status'
    <2>1. CASE s2c' = <<>>
      BY <2>1
    <2>2. CASE s2c' = <<status>>
      BY <1>1, <1>2, <2>2
    <2> QED BY <1>1, <1>2, <2>1, <2>2
  <1>4. Typed'
    BY <1>1, <1>3 DEF IInv, Typed, TypeOK, clientVars, envVars
  <1>5. Session'
    BY <1>1 DEF IInv, Session, Stored, OldOrNew, envVars
  <1>6. Answer'
    BY <1>1, <1>3 DEF IInv, Answer, ReportedOnce, clientVars
  <1> QED BY <1>4, <1>5, <1>6 DEF IInv

LEMMA CloseSessionInv == IInv /\ CloseSession => IInv'
  <1> SUFFICES ASSUME IInv, CloseSession PROVE IInv'
    OBVIOUS
  <1>1. /\ spc = "closing" /\ spc' = "closed" /\ sclosed' = TRUE
        /\ conn' \in {conn, "reset", "broken"}
        /\ UNCHANGED <<clientVars, envVars, requested, c2s, s2c, cclosed,
                       received, temp, final, status>>
    BY DEF CloseSession, Close
  <1>2. Typed'
    BY <1>1 DEF IInv, Typed, TypeOK, clientVars, envVars
  <1>3. Session'
    BY <1>1 DEF IInv, Session, Stored, OldOrNew, envVars
  <1>4. Answer'
    BY <1>1 DEF IInv, Answer, ReportedOnce, clientVars
  <1> QED BY <1>2, <1>3, <1>4 DEF IInv

(* The environment touches nothing the invariant relates.                  *)
LEMMA EnvironmentInv == IInv /\ (Edit \/ ConnectionReset) => IInv'
  <1> SUFFICES ASSUME IInv, Edit \/ ConnectionReset PROVE IInv'
    OBVIOUS
  <1>1. /\ UNCHANGED <<clientVars, serverVars, request, requested, c2s, s2c,
                       cclosed, sclosed>>
        /\ source' \in Contents /\ edits' \in 0..MaxEdits
        /\ conn' \in {conn, "reset", "broken"} /\ disturbed' = TRUE
    BY MaxEditsAssumption
    DEF Edit, ConnectionReset, connVars, IInv, Typed, TypeOK
  <1>2. Typed'
    BY <1>1 DEF IInv, Typed, TypeOK, clientVars, serverVars
  <1>3. Session'
    BY <1>1, SessionKept DEF IInv
  <1>4. Answer'
    BY <1>1 DEF IInv, Answer, ReportedOnce, clientVars, serverVars
  <1> QED BY <1>2, <1>3, <1>4 DEF IInv

(* A server that dies leaves its files as they are, and answers no more.   *)
LEMMA ServerDiesInv == IInv /\ ServerDies => IInv'
  <1> SUFFICES ASSUME IInv, ServerDies PROVE IInv'
    OBVIOUS
  <1>1. /\ spc' = "dead" /\ sclosed' = TRUE /\ disturbed' = TRUE
        /\ conn' \in {conn, "reset", "broken"}
        /\ UNCHANGED <<clientVars, requested, c2s, s2c, cclosed, received, temp,
                       final, status, request, source, edits>>
    BY DEF ServerDies, Close
  <1>2. Typed'
    BY <1>1 DEF IInv, Typed, TypeOK, clientVars
  <1>3. Session'
    BY <1>1 DEF IInv, Session, Stored, OldOrNew
  <1>4. Answer'
    BY <1>1 DEF IInv, Answer, ReportedOnce, clientVars
  <1> QED BY <1>2, <1>3, <1>4 DEF IInv

-----------------------------------------------------------------------------
LEMMA StepInv == IInv /\ [Next]_vars => IInv'
  <1> SUFFICES ASSUME IInv, [Next]_vars PROVE IInv'
    OBVIOUS
  <1>1. CASE Client
    BY <1>1, StartInv, SendRequestInv, OpenFailsInv, WriteNextChunkInv, WriteChunkInv,
       SendfileInv, ReadTransferResultInv DEF Client
  <1>2. CASE Server
    BY <1>2, ReceiveFileBytesInv, ReadSomeInv, RetryRenameInv, WriteResultInv,
       CloseSessionInv DEF Server
  <1>3. CASE Edit \/ ConnectionReset \/ ServerDies
    BY <1>3, EnvironmentInv, ServerDiesInv
  <1>4. CASE UNCHANGED vars
    <2>1. UNCHANGED <<clientVars, connVars, serverVars, envVars>>
      BY <1>4 DEF vars
    <2>2. Typed'
      BY <2>1 DEF IInv, Typed, TypeOK, clientVars, connVars, serverVars, envVars
    <2>3. Session'
      BY <2>1, SessionKept DEF IInv, envVars
    <2>4. Answer'
      BY <2>1 DEF IInv, Answer, ReportedOnce, clientVars, connVars, serverVars
    <2> QED BY <2>2, <2>3, <2>4 DEF IInv
  <1> QED BY <1>1, <1>2, <1>3, <1>4 DEF Next

THEOREM InductiveInvariant == Spec => []IInv
  BY InitInv, StepInv, PTL DEF Spec

(* Every variable keeps its type; no file's progress passes its size.      *)
THEOREM TypeCorrect == Spec => []TypeOK
  <1>1. IInv => TypeOK
    BY DEF IInv, Typed
  <1> QED BY <1>1, InductiveInvariant, PTL

(* What the client counts as uploaded is on the server, complete.          *)
THEOREM OkIsStoredHolds == Spec => []OkIsStored
  <1>1. IInv => OkIsStored
    BY DEF IInv, Session, Answer, Stored, OkIsStored
  <1> QED BY <1>1, InductiveInvariant, PTL

(* Nothing partial is ever seen at the final path, and not even a failed   *)
(* rename or a server that dies after one leaves neither the old nor the   *)
(* new file.                                                               *)
THEOREM OldOrNewHolds == Spec => []OldOrNew
  <1>1. IInv => OldOrNew
    BY DEF IInv, Session
  <1> QED BY <1>1, InductiveInvariant, PTL

(* The pool is told of an upload at most once.                             *)
THEOREM ReportedOnceHolds == Spec => []ReportedOnce
  <1>1. IInv => ReportedOnce
    BY DEF IInv, Answer
  <1> QED BY <1>1, InductiveInvariant, PTL
-----------------------------------------------------------------------------
(* Who is killed, and when.  A socket is closed exactly when its owner is  *)
(* at its end, and a write can only meet a reset after a FIN ("broken")    *)
(* once the server has closed.                                             *)
Ends ==
    /\ cclosed <=> cpc \in {"done", "killed"}
    /\ sclosed <=> spc \in {"closed", "dead"}
    /\ conn = "none" => spc = "idle"
    /\ cpc = "connecting" => conn = "none"
    /\ conn = "broken" => sclosed \/ cclosed
    /\ cpc = "killed" => sclosed

(* The session has decided on a content, or touched the final path.        *)
Decided ==
    final # OldFile \/ spc = "retrying" \/ status \in {"ok", "checksum_mismatch"}

(* The sendfile path hands over what it reads at once and stops at the     *)
(* announced size; the server never has more than was sent, and decides    *)
(* only when everything announced has come.                                *)
Amounts ==
    /\ request.use_dma => offset = sent /\ offset <= request.size /\ cpc # "writing"
    /\ received + Len(c2s) <= sent
    /\ Decided => received = request.size

(* A server that closed without a status had lost its client.              *)
Refused ==
    /\ spc \in {"closing", "closed"} /\ status = "none" => cclosed \/ conn = "reset"
    /\ KilledOnlyUnstored

Standing == Ends /\ Amounts /\ Refused

LEMMA InitStanding == Init => Standing
  <1> SUFFICES ASSUME Init PROVE Standing
    OBVIOUS
  <1>1. request.size \in Nat
    BY InitInv DEF IInv, Typed, TypeOK
  <1> QED BY <1>1 DEF Init, Standing, Ends, Amounts, Decided, Refused, KilledOnlyUnstored, Broken

(* finish(): closes the client's socket, and sends a reset at most.        *)
LEMMA FinishStanding ==
    ASSUME Standing, NEW ok, finish(ok), UNCHANGED <<serverVars, request>>
    PROVE  Standing'
  <1>1. /\ cpc' = "done" /\ cclosed' /\ UNCHANGED <<offset, sent, c2s, sclosed>>
        /\ conn' \in {conn, "reset", "broken"} /\ (conn' # conn => conn = "up")
    BY DEF finish, Close
  <1> QED BY <1>1 DEF Standing, Ends, Amounts, Decided, Refused, KilledOnlyUnstored, serverVars

LEMMA StartStanding == Standing /\ start => Standing'
  <1> SUFFICES ASSUME Standing, start PROVE Standing'
    OBVIOUS
  <1>1. CASE finish(FALSE)
    BY <1>1, FinishStanding DEF start, envVars
  <1>2. CASE /\ cpc' = "requesting" /\ conn' = "up"
             /\ UNCHANGED <<offset, sent, c2s, cclosed, sclosed, request>>
    BY <1>2 DEF start, serverVars, Standing, Ends, Amounts, Decided, Refused,
                KilledOnlyUnstored, Broken
  <1> QED BY <1>1, <1>2 DEF start, envVars

LEMMA SendRequestStanding == Standing /\ send_request => Standing'
  <1> SUFFICES ASSUME Standing, send_request PROVE Standing'
    OBVIOUS
  <1>1. CASE finish(FALSE)
    BY <1>1, FinishStanding DEF send_request, envVars
  <1>2. CASE /\ cpc' = "sending"
             /\ UNCHANGED <<offset, sent, conn, c2s, cclosed, sclosed, request>>
    BY <1>2 DEF send_request, serverVars, Standing, Ends, Amounts, Decided, Refused,
                KilledOnlyUnstored, Broken
  <1> QED BY <1>1, <1>2 DEF send_request, envVars

LEMMA OpenFailsStanding == Standing /\ OpenFails => Standing'
  BY FinishStanding DEF OpenFails

LEMMA WriteNextChunkStanding == Standing /\ write_next_chunk => Standing'
  <1> SUFFICES ASSUME Standing, write_next_chunk PROVE Standing'
    OBVIOUS
  <1>1. /\ cpc = "sending" /\ ~request.use_dma /\ cpc' \in {"awaiting", "writing"}
        /\ UNCHANGED <<sent, connVars, serverVars, envVars>>
    BY DEF write_next_chunk
  <1> QED BY <1>1 DEF connVars, serverVars, envVars, Standing, Ends, Amounts, Decided, Refused,
                      KilledOnlyUnstored, Broken

(* Deliver(): what the socket accepts is counted and, unless the server is *)
(* closed, in flight.                                                      *)
LEMMA DeliverStanding ==
    ASSUME IInv, Standing, conn = "up", NEW blocks \in Seq(Block), Deliver(blocks)
    PROVE  /\ sent' = sent + Len(blocks) /\ received + Len(c2s') <= sent'
           /\ conn' \in {conn, "broken"} /\ (conn' = "broken" <=> sclosed)
  <1>1. /\ c2s \in Seq(Block) /\ Len(c2s) \in Nat /\ sent \in Nat /\ received \in Nat
        /\ Len(blocks) \in Nat /\ received + Len(c2s) <= sent
    BY DEF IInv, Typed, TypeOK, Standing, Amounts
  <1>2. sent' = sent + Len(blocks)
    BY DEF Deliver
  <1>3. CASE sclosed
    BY <1>1, <1>2, <1>3 DEF Deliver
  <1>4. CASE ~sclosed
    <2>1. c2s' = c2s \o blocks /\ conn' = conn
      BY <1>4 DEF Deliver
    <2>2. Len(c2s') = Len(c2s) + Len(blocks)
      BY <1>1, <2>1
    <2> QED BY <1>1, <1>2, <1>4, <2>1, <2>2
  <1> QED BY <1>3, <1>4

LEMMA WriteChunkStanding == IInv /\ Standing /\ WriteChunk => Standing'
  <1> SUFFICES ASSUME IInv, Standing, WriteChunk PROVE Standing'
    OBVIOUS
  <1>1. cpc = "writing" /\ UNCHANGED <<serverVars, request>> /\ ~request.use_dma
    BY DEF WriteChunk, envVars, Standing, Amounts
  <1>2. CASE finish(FALSE)
    BY <1>1, <1>2, FinishStanding
  <1>3. ASSUME conn = "up", NEW n \in 1..Smaller(Len(chunk), Space),
               Deliver(SubSeq(chunk, 1, n)), cpc' \in {"sending", "writing"}
        PROVE  Standing'
    <2>1. chunk \in Seq(Block) /\ n \in 1..Len(chunk)
      BY <1>3, SocketBufferAssumption DEF IInv, Typed, TypeOK, Smaller, Space
    <2>2. SubSeq(chunk, 1, n) \in Seq(Block)
      BY <2>1, CutType
    <2>3. /\ received + Len(c2s') <= sent'
          /\ conn' \in {conn, "broken"} /\ (conn' = "broken" <=> sclosed)
      BY <1>3, <2>2, DeliverStanding
    <2>4. UNCHANGED <<cclosed, sclosed>>
      BY <1>3 DEF Deliver
    <2> QED BY <1>1, <1>3, <2>3, <2>4 DEF serverVars, Standing, Ends, Amounts, Decided, Refused,
                                          KilledOnlyUnstored, Broken
  <1> QED
    <2>1. ASSUME cpc' = IF chunk' = <<>> THEN "sending" ELSE "writing"
          PROVE  cpc' \in {"sending", "writing"}
      BY <2>1
    <2> QED BY <1>2, <1>3, <2>1 DEF WriteChunk

LEMMA SendfileStanding == IInv /\ Standing /\ sendfile => Standing'
  <1> SUFFICES ASSUME IInv, Standing, sendfile PROVE Standing'
    OBVIOUS
  <1> DEFINE remaining == request.size - offset
             left == IF offset > Len(source) THEN 0 ELSE Len(source) - offset
  <1>1. cpc = "sending" /\ request.use_dma /\ UNCHANGED <<serverVars, request>>
    BY DEF sendfile, envVars
  <1>2. /\ offset = sent /\ offset <= request.size /\ offset \in Nat /\ request.size \in Nat
        /\ received \in Nat /\ Len(c2s) \in Nat /\ received + Len(c2s) <= sent
        /\ received <= request.size
    BY <1>1 DEF Standing, Amounts, IInv, Typed, TypeOK
  <1>3. CASE finish(FALSE)
    BY <1>1, <1>3, FinishStanding
  <1>4. CASE cpc' = "awaiting" /\ UNCHANGED <<offset, sent, connVars>>
    BY <1>1, <1>4 DEF connVars, serverVars, Standing, Ends, Amounts, Decided, Refused,
                      KilledOnlyUnstored, Broken
  <1>5. CASE /\ remaining > 0 /\ conn = "broken" /\ cpc' = "killed" /\ cclosed' = TRUE
             /\ UNCHANGED <<offset, sent, conn, c2s, sclosed>>
    <2>1. received < request.size
      BY <1>2, <1>5
    <2>2. ~cclosed /\ sclosed /\ spc \in {"closed", "dead"}
      BY <1>1, <1>5 DEF Standing, Ends
    <2>3. final = OldFile /\ status \notin {"ok", "checksum_mismatch"}
      BY <1>2, <2>1 DEF Standing, Amounts, Decided
    <2>4. spc = "closed" => status # "none"
      BY <1>5, <2>2 DEF Standing, Refused
    <2>5. status \in {"write_failed", "invalid_path"} \/ (status = "none" /\ spc = "dead")
      BY <2>2, <2>3, <2>4 DEF IInv, Typed, TypeOK, Statuses
    <2>6. KilledOnlyUnstored'
      BY <1>1, <2>1, <2>3, <2>5 DEF KilledOnlyUnstored, serverVars
    <2> QED BY <1>1, <1>2, <1>5, <2>2, <2>6 DEF serverVars, Standing, Ends, Amounts, Decided, Refused
  <1>6. ASSUME remaining > 0, conn = "up",
               NEW n \in 1..Smaller(Smaller(remaining, left), Space),
               Deliver(SubSeq(source, offset + 1, offset + n)),
               offset' = offset + n, cpc' = cpc
        PROVE Standing'
    <2>1. source \in Seq(Block) /\ Len(source) \in Nat
      BY SourceType
    <2>2. n \in Nat /\ offset + n <= Len(source) /\ n <= remaining
      BY <1>2, <2>1, SocketBufferAssumption DEF Smaller, Space
    <2>3. /\ SubSeq(source, offset + 1, offset + n) \in Seq(Block)
          /\ Len(SubSeq(source, offset + 1, offset + n)) = n
      BY <1>2, <2>1, <2>2, PieceType
    <2>4. /\ sent' = sent + n /\ received + Len(c2s') <= sent'
          /\ conn' \in {conn, "broken"} /\ (conn' = "broken" <=> sclosed)
      BY <1>6, <2>3, DeliverStanding
    <2>5. UNCHANGED <<cclosed, sclosed>>
      BY <1>6 DEF Deliver
    <2>6. Amounts'
      BY <1>1, <1>2, <1>6, <2>2, <2>4 DEF Standing, Amounts, Decided, serverVars
    <2> QED BY <1>1, <1>6, <2>4, <2>5, <2>6
            DEF serverVars, Standing, Ends, Refused, KilledOnlyUnstored, Broken
  <1> QED BY <1>3, <1>4, <1>5, <1>6 DEF sendfile

LEMMA ReadTransferResultStanding == Standing /\ read_transfer_result => Standing'
  <1> SUFFICES ASSUME Standing, read_transfer_result PROVE Standing'
    OBVIOUS
  <1>1. UNCHANGED <<serverVars, request>>
    BY DEF read_transfer_result, envVars
  <1>2. CASE finish(FALSE)
    BY <1>1, <1>2, FinishStanding
  <1>3. CASE /\ cpc' = "done" /\ cclosed' = TRUE
             /\ UNCHANGED <<offset, sent, conn, c2s, sclosed>>
    BY <1>1, <1>3 DEF serverVars, Standing, Ends, Amounts, Decided, Refused,
                      KilledOnlyUnstored, Broken
  <1> QED BY <1>2, <1>3 DEF read_transfer_result

(* A session that decides: on a content when everything has come, or on a  *)
(* refusal, or on nothing because its client is gone.                      *)
LEMMA DecideStanding ==
    ASSUME IInv, Standing, spc \in {"idle", "reading", "retrying"}, conn # "none",
           UNCHANGED clientVars, UNCHANGED <<conn, cclosed, sclosed, request>>,
           received' + Len(c2s') <= sent,
           spc' \in {"reading", "retrying", "replying", "closing"},
           Decided' => received' = request.size,
           spc' = "closing" => cclosed \/ Broken
    PROVE  Standing'
  <1>1. ~sclosed /\ (conn = "broken" => cclosed) /\ cpc # "connecting" /\ cpc # "killed"
    BY DEF Standing, Ends, IInv, Session
  <1> QED BY <1>1 DEF clientVars, Standing, Ends, Amounts, Decided, Refused, KilledOnlyUnstored,
                      Broken

LEMMA ReadChunkStanding ==
    ASSUME NEW written, NEW count \in 0..request.size, request.size \in Nat,
           status = "none", final = OldFile, read_chunk(written, count)
    PROVE  /\ spc' \in {"reading", "retrying", "replying"}
           /\ Decided' => count = request.size
  BY DEF read_chunk, finish_transfer, write_result, Decided

LEMMA ReceiveFileBytesStanding == IInv /\ Standing /\ receive_file_bytes => Standing'
  <1> SUFFICES ASSUME IInv, Standing, receive_file_bytes PROVE Standing'
    OBVIOUS
  <1>1. /\ spc = "idle" /\ conn # "none" /\ received' = received
        /\ UNCHANGED <<clientVars, connVars, request>>
    BY DEF receive_file_bytes
  <1>2. /\ received = 0 /\ status = "none" /\ final = OldFile /\ request.size \in Nat
        /\ received + Len(c2s) <= sent
    BY <1>1 DEF IInv, Session, Typed, TypeOK, Standing, Amounts
  <1>3. /\ spc' \in {"reading", "retrying", "replying", "closing"}
        /\ Decided' => received' = request.size
        /\ spc' = "closing" => cclosed \/ Broken
    <2>1. CASE read_chunk(<<>>, 0)
      BY <1>1, <1>2, <2>1, ReadChunkStanding
    <2>2. CASE /\ final' = final
               /\ \E refusal \in {"write_failed", "invalid_path"} : write_result(refusal)
      BY <1>2, <2>2 DEF write_result, Decided
    <2>3. CASE /\ cclosed \/ Broken
               /\ spc' = "closing" /\ status' = status /\ final' = final
      BY <1>2, <2>3 DEF Decided
    <2> QED BY <2>1, <2>2, <2>3 DEF receive_file_bytes
  <1> QED BY <1>1, <1>2, <1>3, DecideStanding DEF connVars

LEMMA ReadSomeStanding == IInv /\ Standing /\ ReadSome => Standing'
  <1> SUFFICES ASSUME IInv, Standing, ReadSome PROVE Standing'
    OBVIOUS
  <1>1. /\ spc = "reading" /\ conn # "none"
        /\ UNCHANGED <<clientVars, conn, cclosed, sclosed, request>>
    BY DEF ReadSome, Standing, Ends
  <1>2. /\ status = "none" /\ final = OldFile /\ c2s \in Seq(Block)
        /\ Len(c2s) \in Nat /\ sent \in Nat
        /\ received \in 0..request.size /\ request.size \in Nat
        /\ received + Len(c2s) <= sent
    BY <1>1 DEF IInv, Session, Typed, TypeOK, Standing, Amounts
  <1>3. /\ received' + Len(c2s') <= sent /\ spc' \in {"reading", "retrying", "replying"}
        /\ Decided' => received' = request.size
    <2>1. ASSUME NEW n \in 1..Smaller(Smaller(ChunkSize, request.size - received), Len(c2s)),
                 received' = received + n, c2s' = SubSeq(c2s, n + 1, Len(c2s)),
                 read_chunk(temp \o SubSeq(c2s, 1, n), received + n)
          PROVE  /\ received' + Len(c2s') <= sent
                 /\ spc' \in {"reading", "retrying", "replying"}
                 /\ Decided' => received' = request.size
      <3>1. n \in 1..Len(c2s) /\ n <= request.size - received
        BY <1>2, ChunkSizeAssumption DEF Smaller
      <3>2. Len(c2s') = Len(c2s) - n /\ received + n \in 0..request.size
        BY <1>2, <2>1, <3>1, CutType
      <3>3. received' + Len(c2s') <= sent
        <4> DEFINE later == Len(c2s')
        <4>1. later = Len(c2s) - n /\ received' = received + n /\ n \in Nat
          BY <2>1, <3>2
        <4> HIDE DEF later
        <4>2. received' + later <= sent
          BY <1>2, <4>1
        <4> QED BY <4>2 DEF later
      <3> DEFINE count == received + n
      <3>4. count \in 0..request.size /\ read_chunk(temp \o SubSeq(c2s, 1, n), count)
        BY <2>1, <3>2
      <3>5. received' = count
        BY <2>1
      <3> HIDE DEF count
      <3> QED BY <1>2, <3>3, <3>4, <3>5, ReadChunkStanding
    <2>2. CASE /\ c2s # <<>> /\ c2s' = Tail(c2s) /\ write_result("write_failed")
               /\ UNCHANGED <<received, final>>
      <3>1. Len(c2s') = Len(c2s) - 1
        BY <1>2, <2>2
      <3> QED BY <1>2, <2>2, <3>1 DEF write_result, Decided
    <2>3. CASE /\ c2s' = c2s /\ write_result("write_failed")
               /\ UNCHANGED <<received, final>>
      BY <1>2, <2>3 DEF write_result, Decided
    <2> QED BY <2>1, <2>2, <2>3 DEF ReadSome
  <1> QED BY <1>1, <1>3, DecideStanding

LEMMA RetryRenameStanding == IInv /\ Standing /\ RetryRename => Standing'
  <1> SUFFICES ASSUME IInv, Standing, RetryRename PROVE Standing'
    OBVIOUS
  <1>1. /\ spc = "retrying" /\ spc' = "replying"
        /\ UNCHANGED <<clientVars, conn, c2s, cclosed, sclosed, request, received>>
    BY DEF RetryRename, write_result, connVars
  <1>2. received = request.size /\ received' + Len(c2s') <= sent /\ conn # "none"
    BY <1>1 DEF Standing, Amounts, Decided, Ends
  <1> QED BY <1>1, <1>2, DecideStanding

LEMMA WriteResultStanding == IInv /\ Standing /\ WriteResult => Standing'
  <1> SUFFICES ASSUME IInv, Standing, WriteResult PROVE Standing'
    OBVIOUS
  <1>1. /\ spc = "replying" /\ spc' = "closing" /\ status # "none"
        /\ UNCHANGED <<clientVars, request, conn, c2s, cclosed, sclosed, received,
                       final, status>>
    BY DEF WriteResult, envVars, IInv, Session, Statuses
  <1> QED BY <1>1 DEF clientVars, Standing, Ends, Amounts, Decided, Refused, KilledOnlyUnstored,
                      Broken

LEMMA CloseSessionStanding == Standing /\ CloseSession => Standing'
  <1> SUFFICES ASSUME Standing, CloseSession PROVE Standing'
    OBVIOUS
  <1>1. /\ spc = "closing" /\ spc' = "closed" /\ sclosed'
        /\ conn' \in {conn, "reset", "broken"} /\ (conn' # conn => conn = "up")
        /\ UNCHANGED <<clientVars, request, c2s, cclosed, received, final, status>>
    BY DEF CloseSession, Close, envVars
  <1> QED BY <1>1 DEF clientVars, Standing, Ends, Amounts, Decided, Refused, KilledOnlyUnstored,
                      Broken

LEMMA EnvironmentStanding ==
    Standing /\ (Edit \/ ConnectionReset \/ UNCHANGED vars) => Standing'
  <1> SUFFICES ASSUME Standing, Edit \/ ConnectionReset \/ UNCHANGED vars PROVE Standing'
    OBVIOUS
  <1>1. /\ UNCHANGED <<clientVars, serverVars, request, c2s, cclosed, sclosed>>
        /\ conn' \in {conn, IF sclosed THEN "broken" ELSE "reset"}
        /\ conn' # conn => conn = "up"
    BY DEF Edit, ConnectionReset, vars, connVars, envVars
  <1> QED BY <1>1 DEF clientVars, serverVars, Standing, Ends, Amounts, Decided, Refused,
                      KilledOnlyUnstored, Broken

LEMMA ServerDiesStanding == IInv /\ Standing /\ ServerDies => Standing'
  <1> SUFFICES ASSUME IInv, Standing, ServerDies PROVE Standing'
    OBVIOUS
  <1>1. /\ spc' = "dead" /\ ~sclosed /\ sclosed' /\ conn # "none"
        /\ conn' \in {conn, "reset", "broken"} /\ (conn' # conn => conn = "up")
        /\ UNCHANGED <<clientVars, request, c2s, cclosed, received, final, status>>
    BY DEF ServerDies, Close
  <1>2. cpc # "killed"
    BY <1>1 DEF Standing, Ends
  <1> QED BY <1>1, <1>2 DEF clientVars, Standing, Ends, Amounts, Decided, Refused,
                            KilledOnlyUnstored, Broken

LEMMA StepStanding == IInv /\ Standing /\ [Next]_vars => Standing'
  BY StartStanding, SendRequestStanding, OpenFailsStanding, WriteNextChunkStanding,
     WriteChunkStanding, SendfileStanding, ReadTransferResultStanding,
     ReceiveFileBytesStanding, ReadSomeStanding, RetryRenameStanding,
     WriteResultStanding, CloseSessionStanding, EnvironmentStanding, ServerDiesStanding
  DEF Next, Client, Server

(* SIGPIPE reaches a client only when the server has refused its upload or *)
(* died before it had all of it: whoever is killed loses nothing that was  *)
(* stored.                                                                 *)
THEOREM KilledOnlyUnstoredHolds == Spec => []KilledOnlyUnstored
  <1>1. Standing => KilledOnlyUnstored
    BY DEF Standing, Refused
  <1> QED BY <1>1, InitStanding, StepStanding, InductiveInvariant, PTL DEF Spec

-----------------------------------------------------------------------------
(* The undisturbed upload.  What travels is, at every stage, a part of the *)
(* source that starts where the stage before it ended.                     *)
PartOf(seq, whole, from) == \A i \in 1..Len(seq) : seq[i] = whole[from + i]

LEMMA EmptyPart == \A whole, from : PartOf(<<>>, whole, from)
  BY DEF PartOf

LEMMA PieceIsPart ==
    ASSUME NEW S, NEW whole \in Seq(S), NEW m \in Nat, NEW n \in Nat, m + n <= Len(whole)
    PROVE  PartOf(SubSeq(whole, m + 1, m + n), whole, m)
  <1> DEFINE piece == SubSeq(whole, m + 1, m + n)
  <1>1. \A i \in (m + 1)..(m + n) : whole[i] \in S
    OBVIOUS
  <1>2. Len(piece) = n /\ \A i \in 1..((m + n) - (m + 1) + 1) : piece[i] = whole[m + 1 + i - 1]
    <2>1. Len(piece) = n
      BY PieceType
    <2>2. \A i \in 1..((m + n) - (m + 1) + 1) : piece[i] = whole[m + 1 + i - 1]
      <3> DEFINE first == m + 1
                 last == m + n
      <3>1. first \in Int /\ last \in Int /\ \A i \in first..last : whole[i] \in S
        BY <1>1
      <3> HIDE DEF first, last
      <3>2. \A i \in 1..(last - first + 1) :
                SubSeq(whole, first, last)[i] = whole[first + i - 1]
        BY <3>1, SubSeqProperties
      <3> QED BY <3>2 DEF first, last
    <2> QED BY <2>1, <2>2
  <1> HIDE DEF piece
  <1>3. \A i \in 1..n : piece[i] = whole[m + i]
    <2> TAKE i \in 1..n
    <2>1. i \in 1..((m + n) - (m + 1) + 1) /\ m + 1 + i - 1 = m + i
      OBVIOUS
    <2> QED BY <1>2, <2>1
  <1>4. PartOf(piece, whole, m)
    BY <1>2, <1>3 DEF PartOf
  <1> QED BY <1>4 DEF piece

(* The first n elements of a part, and the others, are parts.              *)
LEMMA CutParts ==
    ASSUME NEW S, NEW seq \in Seq(S), NEW n \in 1..Len(seq), NEW whole,
           NEW from \in Nat, PartOf(seq, whole, from)
    PROVE  /\ PartOf(SubSeq(seq, 1, n), whole, from)
           /\ PartOf(SubSeq(seq, n + 1, Len(seq)), whole, from + n)
  <1>1. Len(seq) \in Nat /\ n \in Nat /\ n <= Len(seq)
    OBVIOUS
  <1>2. PartOf(SubSeq(seq, 0 + 1, 0 + n), seq, 0)
    <2> DEFINE zero == 0
    <2>1. zero \in Nat /\ zero + n <= Len(seq)
      BY <1>1
    <2> HIDE DEF zero
    <2>2. PartOf(SubSeq(seq, zero + 1, zero + n), seq, zero)
      BY <1>1, <2>1, PieceIsPart
    <2> QED BY <2>2 DEF zero
  <1>3. PartOf(SubSeq(seq, n + 1, n + (Len(seq) - n)), seq, n)
    <2> DEFINE rest == Len(seq) - n
    <2>1. rest \in Nat /\ n + rest <= Len(seq)
      BY <1>1
    <2> HIDE DEF rest
    <2>2. PartOf(SubSeq(seq, n + 1, n + rest), seq, n)
      BY <1>1, <2>1, PieceIsPart
    <2> QED BY <2>2 DEF rest
  <1>7. 0 + 1 = 1 /\ 0 + n = n /\ n + (Len(seq) - n) = Len(seq)
    BY <1>1
  <1> DEFINE one == SubSeq(seq, 1, n)
             two == SubSeq(seq, n + 1, Len(seq))
  <1>4. PartOf(one, seq, 0) /\ PartOf(two, seq, n) /\ Len(one) = n /\ Len(two) = Len(seq) - n
    BY <1>2, <1>3, <1>7, CutType
  <1> HIDE DEF one, two
  <1>5. PartOf(one, whole, from)
    <2> SUFFICES ASSUME NEW i \in 1..n PROVE one[i] = whole[from + i]
      BY <1>4 DEF PartOf
    <2>1. one[i] = seq[0 + i] /\ 0 + i = i
      BY <1>4 DEF PartOf
    <2> QED BY <2>1, <1>1 DEF PartOf
  <1>6. PartOf(two, whole, from + n)
    <2> SUFFICES ASSUME NEW i \in 1..(Len(seq) - n) PROVE two[i] = whole[(from + n) + i]
      BY <1>4 DEF PartOf
    <2>1. two[i] = seq[n + i]
      BY <1>4 DEF PartOf
    <2>2. n + i \in 1..Len(seq) /\ from + (n + i) = (from + n) + i
      BY <1>1
    <2>3. seq[n + i] = whole[from + (n + i)]
      BY <2>2 DEF PartOf
    <2> QED BY <2>1, <2>2, <2>3
  <1> QED BY <1>5, <1>6 DEF one, two

(* Two adjacent parts make one.                                            *)
LEMMA JoinParts ==
    ASSUME NEW S, NEW one \in Seq(S), NEW two \in Seq(S), NEW whole, NEW from \in Nat,
           PartOf(one, whole, from), PartOf(two, whole, from + Len(one))
    PROVE  PartOf(one \o two, whole, from)
  <1> DEFINE both == one \o two
  <1>1. /\ Len(one) \in Nat /\ Len(two) \in Nat /\ Len(both) = Len(one) + Len(two)
        /\ \A i \in 1..Len(one) + Len(two) :
               both[i] = IF i <= Len(one) THEN one[i] ELSE two[i - Len(one)]
    BY ConcatProperties
  <1> HIDE DEF both
  <1>2. ASSUME NEW i \in 1..Len(both) PROVE both[i] = whole[from + i]
    <2>1. CASE i <= Len(one)
      BY <1>1, <2>1 DEF PartOf
    <2>2. CASE ~(i <= Len(one))
      <3>1. /\ i - Len(one) \in 1..Len(two)
            /\ (from + Len(one)) + (i - Len(one)) = from + i
        BY <1>1, <2>2
      <3>2. two[i - Len(one)] = whole[(from + Len(one)) + (i - Len(one))]
        BY <3>1 DEF PartOf
      <3> QED BY <1>1, <2>2, <3>1, <3>2
    <2> QED BY <2>1, <2>2
  <1> QED BY <1>2 DEF both, PartOf

(* A part as long as the whole is the whole.                               *)
LEMMA PartIsWhole ==
    ASSUME NEW S, NEW seq \in Seq(S), NEW whole \in Seq(S),
           PartOf(seq, whole, 0), Len(seq) = Len(whole)
    PROVE  seq = whole
  <1>1. \A i \in 1..Len(seq) : seq[i] = whole[i]
    <2> TAKE i \in 1..Len(seq)
    <2>1. seq[i] = whole[0 + i] /\ 0 + i = i
      BY DEF PartOf
    <2> QED BY <2>1
  <1> QED BY <1>1, SeqEqual

(* Nobody edited the source, so the request describes it.                  *)
Whole == source = request.checksum /\ Len(source) = request.size

(* What was read, sent and received of the source, and what is in between. *)
Flow ==
    /\ sent + Len(chunk) = offset /\ offset <= Len(source)
    /\ received + Len(c2s) = sent
    /\ PartOf(chunk, source, sent) /\ PartOf(c2s, source, received)
    /\ spc = "reading" => PartOf(temp, source, 0)
    /\ at_eof => offset = Len(source)
    /\ cpc # "writing" => chunk = <<>>
    /\ cpc = "awaiting" => sent = Len(source)

(* Nothing failed: each side knows of the other what it should, and the    *)
(* answer is on its way from the moment the session is over.               *)
Smooth ==
    /\ conn \in {"none", "up"} /\ (conn = "none" <=> cpc = "connecting")
    /\ requested <=> cpc \notin {"connecting", "requesting"}
    /\ IF spc \in {"idle", "reading"} THEN status = "none" ELSE status = "ok"
    /\ spc # "dead"
    /\ spc \in {"closing", "closed"} => cpc = "done" \/ s2c = <<"ok">>
    /\ cpc = "done" => reports = <<TRUE>> /\ spc \in {"closing", "closed"}

Calm == Whole /\ Flow /\ Smooth

LEMMA InitCalm == Init /\ ~disturbed => Calm
  <1> SUFFICES ASSUME Init, ~disturbed PROVE Calm
    OBVIOUS
  <1>1. PICK sized \in Contents, summed \in Contents, dma \in Modes :
            /\ request = [size |-> Len(sized), checksum |-> summed, use_dma |-> dma]
            /\ source \in Contents
            /\ disturbed = (sized # summed \/ source # summed)
    BY DEF Init
  <1>2. sized = summed /\ source = summed
    BY <1>1, Zenon
  <1>3. Whole
    BY <1>1, <1>2 DEF Whole
  <1>4. source \in Seq(Block)
    BY <1>1, ContentsAssumption
  <1>5. Flow
    BY <1>4, EmptyPart DEF Init, Flow
  <1>6. Smooth
    BY DEF Init, Smooth
  <1> QED BY <1>3, <1>5, <1>6 DEF Calm

(* What the invariants say of the numbers, in one place.                   *)
LEMMA Numbers ==
    ASSUME IInv, Calm
    PROVE  /\ source \in Seq(Block) /\ chunk \in Seq(Block) /\ c2s \in Seq(Block)
           /\ Len(source) \in Nat /\ Len(chunk) \in Nat /\ Len(c2s) \in Nat
           /\ offset \in Nat /\ sent \in Nat /\ received \in Nat
           /\ request.size = Len(source)
           /\ sent + Len(chunk) = offset /\ offset <= Len(source)
           /\ received + Len(c2s) = sent
  BY SourceType DEF IInv, Typed, TypeOK, Calm, Whole, Flow

(* A session that is over has everything, and nobody is killed.            *)
LEMMA Over ==
    ASSUME IInv, Standing, Calm
    PROVE  /\ spc \notin {"idle", "reading"} => received = Len(source) /\ c2s = <<>>
           /\ cpc # "killed" /\ ~Broken
           /\ cclosed => cpc = "done"
  <1>1. CASE spc \notin {"idle", "reading"}
    <2>1. received = Len(source)
      BY <1>1, Numbers DEF Calm, Smooth, Standing, Amounts, Decided
    <2>2. Len(c2s) = 0
      BY <2>1, Numbers
    <2> QED BY <1>1, <2>1, <2>2, Numbers, EmptySeq
            DEF Calm, Smooth, Standing, Refused, KilledOnlyUnstored, Ends, Broken
  <1>2. CASE spc \in {"idle", "reading"}
    BY <1>2 DEF Calm, Smooth, Standing, Refused, KilledOnlyUnstored, Ends, Broken
  <1> QED BY <1>1, <1>2

(* While the client has something to send, the server is there to take it. *)
LEMMA DeliverCalm ==
    ASSUME IInv, Standing, Calm, NEW blocks \in Seq(Block), Deliver(blocks),
           Len(blocks) > 0, sent + Len(blocks) <= Len(source),
           PartOf(blocks, source, sent)
    PROVE  /\ sent' = sent + Len(blocks) /\ received + Len(c2s') = sent'
           /\ PartOf(c2s', source, received)
           /\ UNCHANGED <<conn, requested, s2c, cclosed, sclosed>>
  <1>1. Len(blocks) \in Nat
    OBVIOUS
  <1>2. ~sclosed
    <2>1. sent < Len(source)
      BY <1>1, Numbers
    <2>2. received # Len(source)
      BY <2>1, Numbers
    <2> QED BY <2>2, Over DEF Standing, Ends
  <1>3. c2s' = c2s \o blocks /\ sent' = sent + Len(blocks)
        /\ UNCHANGED <<conn, requested, s2c, cclosed, sclosed>>
    BY <1>2 DEF Deliver
  <1>4. Len(c2s') = Len(c2s) + Len(blocks)
    BY <1>3, Numbers
  <1>5. PartOf(c2s \o blocks, source, received)
    <2>1. PartOf(c2s, source, received) /\ PartOf(blocks, source, received + Len(c2s))
      BY DEF Calm, Flow
    <2> QED BY <2>1, Numbers, JoinParts
  <1> QED BY <1>1, <1>3, <1>4, <1>5, Numbers

(* What a step that leaves the source, the announced request and the       *)
(* server's session alone has to say for itself.                           *)
LEMMA ClientCalm ==
    ASSUME Calm, UNCHANGED <<request, source, serverVars>>, cpc # "done",
           sent' + Len(chunk') = offset', offset' <= Len(source),
           received + Len(c2s') = sent',
           PartOf(chunk', source, sent'), PartOf(c2s', source, received),
           at_eof' => offset' = Len(source),
           cpc' # "writing" => chunk' = <<>>,
           cpc' = "awaiting" => sent' = Len(source),
           UNCHANGED <<conn, requested, s2c>>,
           cpc \notin {"connecting", "requesting"},
           cpc' \in {"sending", "writing", "awaiting"}
    PROVE  Calm'
  <1>1. Whole'
    BY DEF Calm, Whole
  <1>2. Flow'
    BY DEF Calm, Flow, serverVars
  <1>3. Smooth'
    BY DEF Calm, Smooth, serverVars
  <1> QED BY <1>1, <1>2, <1>3 DEF Calm

(* The steps that leave the bytes alone.                                   *)
LEMMA FlowKept ==
    ASSUME Calm, UNCHANGED <<request, source, offset, at_eof, sent, received, c2s, chunk>>,
           UNCHANGED temp \/ spc' # "reading", spc' = "reading" => spc = "reading",
           cpc' = cpc \/ (cpc # "writing" /\ cpc' # "awaiting")
    PROVE  Whole' /\ Flow'
  BY DEF Calm, Whole, Flow

LEMMA StartCalm == IInv /\ Standing /\ Calm /\ start /\ ~disturbed' => Calm'
  <1> SUFFICES ASSUME IInv, Standing, Calm, start, ~disturbed' PROVE Calm'
    OBVIOUS
  <1>1. /\ cpc = "connecting" /\ cpc' = "requesting" /\ conn' = "up"
        /\ UNCHANGED <<request, source, offset, at_eof, sent, chunk, reports, requested,
                       c2s, s2c, serverVars>>
    BY DEF start, envVars
  <1>2. Whole' /\ Flow'
    BY <1>1, FlowKept DEF serverVars
  <1>3. Smooth'
    BY <1>1 DEF Calm, Smooth, Standing, Ends, serverVars
  <1> QED BY <1>2, <1>3 DEF Calm

LEMMA SendRequestCalm == IInv /\ Standing /\ Calm /\ send_request /\ ~disturbed' => Calm'
  <1> SUFFICES ASSUME IInv, Standing, Calm, send_request, ~disturbed' PROVE Calm'
    OBVIOUS
  <1>1. /\ cpc = "requesting" /\ cpc' = "sending" /\ requested'
        /\ UNCHANGED <<request, source, offset, at_eof, sent, chunk, reports, conn,
                       c2s, s2c, serverVars>>
    BY Over DEF send_request, envVars
  <1>2. Whole' /\ Flow'
    BY <1>1, FlowKept DEF serverVars
  <1>3. Smooth'
    BY <1>1 DEF Calm, Smooth, serverVars
  <1> QED BY <1>2, <1>3 DEF Calm

LEMMA OpenFailsCalm == OpenFails => disturbed'
  BY DEF OpenFails

LEMMA WriteNextChunkCalm == IInv /\ Calm /\ write_next_chunk => Calm'
  <1> SUFFICES ASSUME IInv, Calm, write_next_chunk PROVE Calm'
    OBVIOUS
  <1> DEFINE left == IF at_eof \/ offset > Len(source) THEN 0 ELSE Len(source) - offset
             n == Smaller(ChunkSize, left)
  <1>1. /\ cpc = "sending" /\ UNCHANGED <<sent, connVars, serverVars, envVars>>
        /\ chunk' = SubSeq(source, offset + 1, offset + n)
        /\ offset' = offset + n
        /\ at_eof' = (n < ChunkSize)
        /\ cpc' = IF n = 0 THEN "awaiting" ELSE "writing"
    BY DEF write_next_chunk
  <1>2. offset = sent /\ left = Len(source) - offset
    <2>1. chunk = <<>> /\ (at_eof => offset = Len(source))
      BY <1>1 DEF Calm, Flow
    <2> QED BY <2>1, Numbers
  <1> HIDE DEF left
  <1>3. /\ n \in Nat /\ offset + n <= Len(source)
        /\ n < ChunkSize => offset + n = Len(source)
    <2>1. left \in Nat /\ offset + left = Len(source) /\ offset \in Nat
      <3>1. offset \in Nat /\ Len(source) \in Nat /\ offset <= Len(source)
        BY Numbers
      <3>2. left = Len(source) - offset
        BY <1>2
      <3> QED BY <3>1, <3>2
    <2> QED BY <2>1, Numbers, ChunkSizeAssumption DEF Smaller
  <1>4. n = 0 => n < ChunkSize
    BY ChunkSizeAssumption
  <1> HIDE DEF n
  <1>5. Len(chunk') = n /\ PartOf(chunk', source, sent')
    <2>1. /\ Len(SubSeq(source, offset + 1, offset + n)) = n
          /\ PartOf(SubSeq(source, offset + 1, offset + n), source, offset)
      <3>1. offset \in Nat /\ source \in Seq(Block) /\ n \in Nat /\ offset + n <= Len(source)
        BY <1>3, Numbers
      <3>2. Len(SubSeq(source, offset + 1, offset + n)) = n
        BY <3>1, PieceType
      <3>3. PartOf(SubSeq(source, offset + 1, offset + n), source, offset)
        BY <3>1, PieceIsPart
      <3> QED BY <3>2, <3>3
    <2>2. sent' = offset
      BY <1>1, <1>2
    <2> QED BY <1>1, <2>1, <2>2
  <1>6. n = 0 => chunk' = <<>>
    BY <1>1, Numbers, SubSeqEmpty
  <1>7. sent' + Len(chunk') = offset' /\ offset' <= Len(source)
    BY <1>1, <1>2, <1>3, <1>5, Numbers
  <1>8. at_eof' => offset' = Len(source)
    BY <1>1, <1>3
  <1>9. /\ cpc' # "writing" => chunk' = <<>>
        /\ cpc' = "awaiting" => sent' = Len(source)
    <2>1. CASE n = 0
      <3>1. offset = Len(source)
        BY <1>3, <1>4, <2>1, Numbers
      <3> QED BY <1>1, <1>2, <1>6, <2>1, <3>1
    <2>2. CASE n # 0
      BY <1>1, <2>2
    <2> QED BY <2>1, <2>2
  <1>10. /\ received + Len(c2s') = sent' /\ PartOf(c2s', source, received)
         /\ UNCHANGED <<request, source, serverVars, conn, requested, s2c>>
    BY <1>1 DEF Calm, Flow, connVars, envVars
  <1>11. cpc' \in {"awaiting", "writing"}
    BY <1>1
  <1> QED BY <1>1, <1>5, <1>7, <1>8, <1>9, <1>10, <1>11, ClientCalm

LEMMA WriteChunkCalm == IInv /\ Standing /\ Calm /\ WriteChunk => Calm'
  <1> SUFFICES ASSUME IInv, Standing, Calm, WriteChunk PROVE Calm'
    OBVIOUS
  <1>1. /\ cpc = "writing" /\ UNCHANGED <<request, source, serverVars, offset, at_eof>>
        /\ \E n \in 1..Smaller(Len(chunk), Space) :
             /\ Deliver(SubSeq(chunk, 1, n))
             /\ chunk' = SubSeq(chunk, n + 1, Len(chunk))
        /\ cpc' = IF chunk' = <<>> THEN "sending" ELSE "writing"
    BY Over DEF WriteChunk, envVars
  <1>2. PICK n \in 1..Smaller(Len(chunk), Space) :
             /\ Deliver(SubSeq(chunk, 1, n))
             /\ chunk' = SubSeq(chunk, n + 1, Len(chunk))
    BY <1>1
  <1>3. n \in 1..Len(chunk)
    BY Numbers, SocketBufferAssumption DEF Smaller, Space, IInv, Typed, TypeOK
  <1>4. PartOf(chunk, source, sent)
    BY DEF Calm, Flow
  <1> DEFINE blocks == SubSeq(chunk, 1, n)
  <1>5. /\ blocks \in Seq(Block) /\ Len(blocks) = n /\ Len(chunk') = Len(chunk) - n
        /\ PartOf(blocks, source, sent) /\ PartOf(chunk', source, sent + n)
    BY <1>2, <1>3, <1>4, Numbers, CutType, CutParts
  <1>6. Deliver(blocks)
    BY <1>2
  <1> HIDE DEF blocks
  <1>7. n \in Nat /\ n > 0 /\ sent + n <= Len(source)
    BY <1>3, Numbers
  <1>8. /\ sent' = sent + n /\ received + Len(c2s') = sent'
        /\ PartOf(c2s', source, received)
        /\ UNCHANGED <<conn, requested, s2c, cclosed, sclosed>>
    BY <1>5, <1>6, <1>7, DeliverCalm
  <1>9. sent' + Len(chunk') = offset'
    <2> DEFINE later == Len(chunk')
    <2>1. later = Len(chunk) - n
      BY <1>5
    <2> HIDE DEF later
    <2>2. offset' = offset /\ sent' = sent + n
      BY <1>1, <1>8
    <2>3. /\ n \in Nat /\ sent \in Nat /\ Len(chunk) \in Nat
          /\ sent + Len(chunk) = offset
      BY <1>7, Numbers
    <2>4. (sent + n) + (Len(chunk) - n) = sent + Len(chunk)
      BY <2>3
    <2>5. sent' + later = offset'
      BY <2>1, <2>2, <2>3, <2>4
    <2> QED BY <2>5 DEF later
  <1>10. /\ cpc' \in {"sending", "writing"} /\ (cpc' # "writing" => chunk' = <<>>)
    BY <1>1
  <1>11. offset' <= Len(source) /\ (at_eof' => offset' = Len(source))
    BY <1>1, Numbers DEF Calm, Flow
  <1>12. PartOf(chunk', source, sent')
    BY <1>5, <1>8
  <1> QED BY <1>1, <1>8, <1>9, <1>10, <1>11, <1>12, ClientCalm

LEMMA SendfileCalm == IInv /\ Standing /\ Calm /\ sendfile => Calm'
  <1> SUFFICES ASSUME IInv, Standing, Calm, sendfile PROVE Calm'
    OBVIOUS
  <1> DEFINE remaining == request.size - offset
             left == IF offset > Len(source) THEN 0 ELSE Len(source) - offset
  <1>1. cpc = "sending" /\ UNCHANGED <<request, source, serverVars>>
    BY DEF sendfile, envVars
  <1>2. /\ chunk = <<>> /\ offset = sent /\ remaining = left
        /\ (at_eof => offset = Len(source)) /\ left = Len(source) - offset
    <2>1. chunk = <<>> /\ (at_eof => offset = Len(source))
      BY <1>1 DEF Calm, Flow
    <2> QED BY <2>1, Numbers
  <1>3. CASE /\ remaining = 0 /\ cpc' = "awaiting"
             /\ UNCHANGED <<offset, at_eof, chunk, sent, reports, connVars>>
    <2>1. sent' = Len(source)
      BY <1>2, <1>3, Numbers
    <2> QED BY <1>1, <1>2, <1>3, <2>1, ClientCalm DEF Calm, Flow, connVars
  <1>4. ASSUME NEW n \in 1..Smaller(Smaller(remaining, left), Space),
               Deliver(SubSeq(source, offset + 1, offset + n)),
               offset' = offset + n, UNCHANGED <<cpc, at_eof, chunk, reports>>
        PROVE  Calm'
    <2>1. n \in Nat /\ n > 0 /\ offset + n <= Len(source)
      BY <1>2, Numbers, SocketBufferAssumption DEF Smaller, Space, IInv, Typed, TypeOK
    <2> DEFINE blocks == SubSeq(source, offset + 1, offset + n)
    <2>2. blocks \in Seq(Block) /\ Len(blocks) = n /\ PartOf(blocks, source, sent)
      <3>1. offset \in Nat /\ source \in Seq(Block) /\ offset = sent
        BY <1>2, Numbers
      <3>2. blocks \in Seq(Block) /\ Len(blocks) = n
        BY <2>1, <3>1, PieceType
      <3>3. PartOf(blocks, source, offset)
        BY <2>1, <3>1, PieceIsPart
      <3> QED BY <3>1, <3>2, <3>3
    <2>3. Deliver(blocks)
      BY <1>4
    <2> HIDE DEF blocks
    <2>4. /\ sent' = sent + n /\ received + Len(c2s') = sent'
          /\ PartOf(c2s', source, received)
          /\ UNCHANGED <<conn, requested, s2c, cclosed, sclosed>>
      BY <1>2, <2>1, <2>2, <2>3, DeliverCalm
    <2>5. /\ chunk' = <<>> /\ sent' + Len(chunk') = offset' /\ offset' <= Len(source)
          /\ PartOf(chunk', source, sent')
      <3>1. chunk' = <<>> /\ Len(chunk') = 0
        BY <1>2, <1>4
      <3>2. sent' = sent + n /\ offset' = sent + n
        BY <1>2, <1>4, <2>4
      <3>3. sent + n \in Nat /\ sent + n <= Len(source) /\ (sent + n) + 0 = sent + n
        <4>1. sent \in Nat /\ offset = sent
          BY <1>2, Numbers
        <4> QED BY <4>1, <2>1
      <3>4. PartOf(chunk', source, sent')
        BY <3>1, EmptyPart
      <3> QED BY <3>1, <3>2, <3>3, <3>4
    <2>6. at_eof' => offset' = Len(source)
      BY <1>2, <1>4, <2>1, Numbers
    <2> QED BY <1>1, <1>4, <2>4, <2>5, <2>6, ClientCalm
  <1>5. ~Broken /\ ~(remaining > 0 /\ left = 0)
    BY <1>2, Over
  <1> QED BY <1>3, <1>4, <1>5 DEF sendfile, Broken

LEMMA ReadTransferResultCalm ==
    IInv /\ Standing /\ Calm /\ read_transfer_result => Calm'
  <1> SUFFICES ASSUME IInv, Standing, Calm, read_transfer_result PROVE Calm'
    OBVIOUS
  <1>1. /\ cpc = "awaiting" /\ UNCHANGED <<request, source, serverVars>>
        /\ ~ClientReadFails
    BY Over DEF read_transfer_result, envVars, ClientReadFails, Standing, Ends, Calm, Smooth
  <1>2. /\ s2c # <<>> /\ cpc' = "done" /\ reports' = Append(reports, Head(s2c) = "ok")
        /\ UNCHANGED <<offset, at_eof, chunk, sent, conn, requested, c2s>>
    BY <1>1 DEF read_transfer_result
  <1>3. spc \in {"closing", "closed"} /\ s2c = <<"ok">>
    BY <1>1, <1>2 DEF Calm, Smooth, IInv, Answer, Typed, TypeOK
  <1>4. reports = <<>>
    BY <1>1, EmptySeq DEF IInv, Typed, Answer, ReportedOnce
  <1>5. reports' = <<TRUE>>
    <2>1. Head(s2c) = "ok"
      BY <1>3
    <2>2. reports' = Append(reports, TRUE)
      BY <1>2, <2>1
    <2> QED BY <1>4, <2>2
  <1>6. Whole' /\ Flow'
    BY <1>1, <1>2, FlowKept DEF serverVars
  <1>7. Smooth'
    BY <1>1, <1>2, <1>3, <1>5 DEF Calm, Smooth, serverVars
  <1> QED BY <1>6, <1>7 DEF Calm

(* A session that takes the source from its start and to its end accepts.  *)
LEMMA ReadChunkCalm ==
    ASSUME IInv, Calm, status = "none", NEW written \in Seq(Block),
           NEW count \in 0..Len(source), Len(written) = count,
           PartOf(written, source, 0), read_chunk(written, count), ~disturbed'
    PROVE  \/ spc' = "reading" /\ status' = "none" /\ temp' = written
           \/ spc' = "replying" /\ status' = "ok"
  <1>1. request.size = Len(source) /\ source = request.checksum /\ source \in Seq(Block)
    BY Numbers DEF Calm, Whole
  <1>2. CASE count < request.size
    BY <1>1, <1>2 DEF read_chunk
  <1>3. CASE count >= request.size
    <2>1. finish_transfer(written) /\ Len(written) = Len(source)
      BY <1>1, <1>3 DEF read_chunk
    <2>2. written = request.checksum
      BY <1>1, <2>1, PartIsWhole
    <2> QED BY <2>1, <2>2 DEF finish_transfer, write_result
  <1> QED BY <1>1, <1>2, <1>3

LEMMA ReceiveFileBytesCalm ==
    IInv /\ Standing /\ Calm /\ receive_file_bytes /\ ~disturbed' => Calm'
  <1> SUFFICES ASSUME IInv, Standing, Calm, receive_file_bytes, ~disturbed' PROVE Calm'
    OBVIOUS
  <1>1. /\ spc = "idle" /\ UNCHANGED <<clientVars, connVars, request, source>>
        /\ status = "none"
    BY DEF receive_file_bytes, Calm, Smooth
  <1>2. read_chunk(<<>>, 0) /\ received' = received
    BY <1>1, Over DEF receive_file_bytes, Calm, Smooth
  <1>3. /\ <<>> \in Seq(Block) /\ Len(<<>>) = 0 /\ 0 \in 0..Len(source)
        /\ PartOf(<<>>, source, 0)
    BY Numbers, EmptyPart
  <1>4. \/ spc' = "reading" /\ status' = "none" /\ temp' = <<>>
        \/ spc' = "replying" /\ status' = "ok"
    BY <1>1, <1>2, <1>3, ReadChunkCalm
  <1>5. Whole'
    BY <1>1 DEF Calm, Whole
  <1>6. Flow'
    BY <1>1, <1>2, <1>3, <1>4 DEF Calm, Flow, clientVars, connVars
  <1>7. Smooth'
    BY <1>1, <1>4 DEF Calm, Smooth, clientVars, connVars
  <1> QED BY <1>5, <1>6, <1>7 DEF Calm

LEMMA ReadSomeCalm == IInv /\ Standing /\ Calm /\ ReadSome /\ ~disturbed' => Calm'
  <1> SUFFICES ASSUME IInv, Standing, Calm, ReadSome, ~disturbed' PROVE Calm'
    OBVIOUS
  <1>1. /\ spc = "reading" /\ status = "none"
        /\ UNCHANGED <<clientVars, conn, requested, s2c, cclosed, sclosed, request, source>>
    BY DEF ReadSome, Calm, Smooth
  <1>2. ~ServerReadFails
    BY <1>1, Over DEF ServerReadFails, Calm, Smooth
  <1>3. PICK n \in 1..Smaller(Smaller(ChunkSize, request.size - received), Len(c2s)) :
             /\ received' = received + n
             /\ c2s' = SubSeq(c2s, n + 1, Len(c2s))
             /\ read_chunk(temp \o SubSeq(c2s, 1, n), received + n)
    BY <1>2 DEF ReadSome
  <1>4. n \in 1..Len(c2s)
    BY Numbers, ChunkSizeAssumption DEF Smaller, IInv, Typed, TypeOK
  <1>5. /\ temp \in Seq(Block) /\ Len(temp) = received
        /\ PartOf(temp, source, 0) /\ PartOf(c2s, source, received)
    BY <1>1 DEF IInv, Session, Calm, Flow
  <1> DEFINE taken == SubSeq(c2s, 1, n)
             written == temp \o taken
             count == received + n
  <1>6. /\ taken \in Seq(Block) /\ Len(taken) = n /\ Len(c2s') = Len(c2s) - n
        /\ PartOf(taken, source, received) /\ PartOf(c2s', source, received + n)
    BY <1>3, <1>4, <1>5, Numbers, CutType, CutParts
  <1>7. read_chunk(written, count) /\ received' = count
    BY <1>3
  <1> HIDE DEF taken
  <1>8. PartOf(written, source, 0)
    <2> DEFINE zero == 0
    <2>1. zero \in Nat /\ PartOf(temp, source, zero) /\ PartOf(taken, source, zero + Len(temp))
      BY <1>5, <1>6, Numbers
    <2> HIDE DEF zero
    <2>2. PartOf(written, source, zero)
      BY <1>5, <1>6, <2>1, JoinParts
    <2> QED BY <2>2 DEF zero
  <1>9. written \in Seq(Block) /\ Len(written) = count
    BY <1>5, <1>6
  <1>10. count \in 0..Len(source)
    BY <1>4, Numbers
  <1> HIDE DEF written, count
  <1>11. \/ spc' = "reading" /\ status' = "none" /\ temp' = written
         \/ spc' = "replying" /\ status' = "ok"
    BY <1>1, <1>7, <1>8, <1>9, <1>10, ReadChunkCalm
  <1>12. received' + Len(c2s') = sent
    <2> DEFINE later == Len(c2s')
    <2>1. later = Len(c2s) - n /\ n \in Nat
      BY <1>4, <1>6
    <2> HIDE DEF later
    <2>2. received' = received + n
      BY <1>3
    <2>3. /\ received \in Nat /\ Len(c2s) \in Nat /\ sent \in Nat
          /\ received + Len(c2s) = sent
      BY Numbers
    <2>4. (received + n) + (Len(c2s) - n) = sent
      BY <2>1, <2>3
    <2>5. received' + later = sent
      BY <2>1, <2>2, <2>4
    <2> QED BY <2>5 DEF later
  <1>13. PartOf(c2s', source, received')
    BY <1>3, <1>6
  <1>14. Whole'
    BY <1>1 DEF Calm, Whole
  <1>15. Flow'
    BY <1>1, <1>8, <1>11, <1>12, <1>13 DEF Calm, Flow, clientVars
  <1>16. Smooth'
    BY <1>1, <1>11 DEF Calm, Smooth, clientVars
  <1> QED BY <1>14, <1>15, <1>16 DEF Calm

(* A rename that is tried again has failed before.                         *)
LEMMA RetryRenameCalm == IInv /\ Calm => ~RetryRename
  BY DEF IInv, Session, Calm, Smooth, RetryRename

LEMMA WriteResultCalm == IInv /\ Standing /\ Calm /\ WriteResult => Calm'
  <1> SUFFICES ASSUME IInv, Standing, Calm, WriteResult PROVE Calm'
    OBVIOUS
  <1>1. /\ spc = "replying" /\ spc' = "closing" /\ status = "ok" /\ s2c = <<>>
        /\ UNCHANGED <<clientVars, request, source, conn, requested, c2s, received,
                       temp, status>>
    BY DEF WriteResult, envVars, Calm, Smooth, IInv, Answer
  <1>2. conn = "up" /\ ~cclosed
    BY <1>1, Over DEF Calm, Smooth, Standing, Ends
  <1>3. s2c' = <<"ok">>
    <2>1. s2c' = Append(s2c, status)
      BY <1>2 DEF WriteResult
    <2> QED BY <1>1, <2>1
  <1>4. Whole' /\ Flow'
    BY <1>1, FlowKept DEF clientVars
  <1>5. Smooth'
    BY <1>1, <1>3 DEF Calm, Smooth, clientVars
  <1> QED BY <1>4, <1>5 DEF Calm

LEMMA CloseSessionCalm == IInv /\ Standing /\ Calm /\ CloseSession => Calm'
  <1> SUFFICES ASSUME IInv, Standing, Calm, CloseSession PROVE Calm'
    OBVIOUS
  <1>1. c2s = <<>> /\ spc = "closing"
    BY Over DEF CloseSession
  <1>2. /\ spc' = "closed" /\ conn' = conn
        /\ UNCHANGED <<clientVars, request, source, requested, c2s, s2c, received,
                       temp, status>>
    BY <1>1 DEF CloseSession, Close, envVars
  <1>3. Whole' /\ Flow'
    BY <1>1, <1>2, FlowKept DEF clientVars
  <1>4. Smooth'
    BY <1>1, <1>2 DEF Calm, Smooth, clientVars
  <1> QED BY <1>3, <1>4 DEF Calm

(* Nothing that happened is forgotten.                                     *)
LEMMA Disturbed == IInv /\ [Next]_vars /\ ~disturbed' => ~disturbed
  <1> SUFFICES ASSUME IInv, [Next]_vars, disturbed PROVE disturbed'
    OBVIOUS
  <1>1. CASE Client
    BY <1>1 DEF Client, start, send_request, write_next_chunk, WriteChunk, sendfile,
                read_transfer_result, OpenFails, envVars
  <1>2. CASE Server
    BY <1>2 DEF Server, receive_file_bytes, ReadSome, read_chunk, finish_transfer,
                RetryRename, WriteResult, CloseSession, envVars
  <1>3. CASE Edit \/ ConnectionReset \/ ServerDies \/ UNCHANGED vars
    BY <1>3 DEF Edit, ConnectionReset, ServerDies, vars, envVars
  <1> QED BY <1>1, <1>2, <1>3 DEF Next

LEMMA StepCalm ==
    IInv /\ Standing /\ (~disturbed => Calm) /\ [Next]_vars => (~disturbed => Calm)'
  <1> SUFFICES ASSUME IInv, Standing, ~disturbed => Calm, [Next]_vars, ~disturbed'
               PROVE  Calm'
    OBVIOUS
  <1>1. Calm
    BY Disturbed
  <1>2. CASE Client
    BY <1>1, <1>2, StartCalm, SendRequestCalm, OpenFailsCalm, WriteNextChunkCalm, WriteChunkCalm,
       SendfileCalm, ReadTransferResultCalm DEF Client
  <1>3. CASE Server
    BY <1>1, <1>3, ReceiveFileBytesCalm, ReadSomeCalm, RetryRenameCalm, WriteResultCalm,
       CloseSessionCalm DEF Server
  <1>4. CASE Edit \/ ConnectionReset \/ ServerDies
    BY <1>4 DEF Edit, ConnectionReset, ServerDies
  <1>5. CASE UNCHANGED vars
    <2>1. UNCHANGED <<clientVars, connVars, serverVars, request, source>>
      BY <1>5 DEF vars, envVars
    <2>2. Whole' /\ Flow'
      BY <1>1, <2>1, FlowKept DEF clientVars, connVars, serverVars
    <2>3. Smooth'
      BY <1>1, <2>1 DEF Calm, Smooth, clientVars, connVars, serverVars
    <2> QED BY <2>2, <2>3 DEF Calm
  <1> QED BY <1>2, <1>3, <1>4, <1>5 DEF Next

(* An upload that nobody disturbs succeeds: whatever the order in which    *)
(* both sides close, the result reaches the client.                        *)
THEOREM UndisturbedSucceedsHolds == Spec => []UndisturbedSucceeds
  <1>1. (~disturbed => Calm) => UndisturbedSucceeds
    BY DEF Calm, Smooth, UndisturbedSucceeds
  <1>2. Init => (~disturbed => Calm)
    BY InitCalm
  <1> QED BY <1>1, <1>2, InitStanding, StepStanding, StepCalm, InductiveInvariant, PTL
          DEF Spec
=============================================================================

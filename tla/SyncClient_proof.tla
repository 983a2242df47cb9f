-------------------------- MODULE SyncClient_proof --------------------------
(***************************************************************************)
(* One run of the client, for every plan, every limit on the connections   *)
(* and every pair of builds: the pool inside it behaves as the pool on its *)
(* own (RunsThePool), so that what is proved of it holds here; a client    *)
(* reports success only after the promise has been fulfilled with good     *)
(* results (Uploaded), the server removes nothing before that report, and  *)
(* exit code 0 needs the server's acknowledgement (Acknowledged).  The     *)
(* second half follows the conversation of the two ends frame by frame     *)
(* (Conversation), and with it an Error on its way to the user (Heard) and *)
(* a run on which nothing fails (Smooth).                                  *)
(***************************************************************************)
EXTENDS SyncClient, TLAPS

P == INSTANCE UploadManager_proof

Types == {"hello", "file_list", "sync_plan", "sync_complete", "error"}
Errors ==
    {"Protocol version mismatch", "Expected FileList", "Failed to read the directory",
     "Expected SyncComplete", "Client reported unsuccessful sync",
     "Failed to remove a file"}
Bodies == Versions \cup BOOLEAN \cup Errors
Frames == [type : Types, version : Versions, body : Bodies]

(* A frame says that all is well.                                          *)
AllWell(frame) == frame.type = "sync_complete" /\ frame.body
Carries(frames) == \E i \in DOMAIN frames : AllWell(frames[i])

Finished == promise # <<>> /\ AllOk(results)

Typed ==
    /\ setting \in [client : Versions, server : Versions, list_fits : BOOLEAN]
    /\ success \in BOOLEAN
    /\ c2s \in Seq(Frames) /\ s2c \in Seq(Frames)

(* Where the helper thread is, and that nothing but fail() and the last    *)
(* handler lets run() return.                                              *)
Waited ==
    /\ helper \in {"waiting", "posted"} => pc = "uploading"
    /\ pc \notin {"stopped", "over"} => work_guard /\ exit = "none"
    /\ pc \in {"scan", "connect"} => spc = "none"

Uploaded ==
    /\ helper = "posted" => promise # <<>>
    /\ Carries(c2s) => Finished
    /\ cleanup # "none" => Finished

Acknowledged ==
    /\ spc \notin {"answered", "ended"} => cleanup = "none"
    /\ Carries(s2c) => cleanup = "done"
    /\ pc = "stopped" /\ success => cleanup = "done"
    /\ exit = "ok" => cleanup = "done"

(* What the client's thread does, and the threads of its uploads for it.   *)
ClientActs == ClientStep \/ UploadStep

IInv == P!IInv /\ Typed /\ Waited /\ Uploaded /\ Acknowledged

-----------------------------------------------------------------------------
(* Frames.                                                                 *)

LEMMA CarriesNothing == ~Carries(<<>>)
BY DEF Carries

LEMMA CarriesAppend ==
    ASSUME NEW frames \in Seq(Frames), NEW frame \in Frames
    PROVE  /\ Append(frames, frame) \in Seq(Frames)
           /\ Carries(Append(frames, frame)) => Carries(frames) \/ AllWell(frame)
<1> DEFINE longer == Append(frames, frame)
<1>1. longer \in Seq(Frames)
  OBVIOUS
<1>2. /\ DOMAIN longer = DOMAIN frames \cup {Len(frames) + 1}
      /\ \A i \in DOMAIN frames : longer[i] = frames[i]
      /\ longer[Len(frames) + 1] = frame
  OBVIOUS
<1> HIDE DEF longer
<1>3. Carries(longer) => Carries(frames) \/ AllWell(frame)
  BY <1>2 DEF Carries
<1> QED
  BY <1>1, <1>3 DEF longer

LEMMA CarriesTail ==
    ASSUME NEW frames \in Seq(Frames), frames # <<>>
    PROVE  /\ Tail(frames) \in Seq(Frames)
           /\ Carries(Tail(frames)) => Carries(frames)
           /\ AllWell(Head(frames)) => Carries(frames)
<1> DEFINE rest == Tail(frames)
<1>1. rest \in Seq(Frames) /\ Len(frames) \in Nat \ {0}
  OBVIOUS
<1>2. DOMAIN rest = 1..(Len(frames) - 1) /\ DOMAIN frames = 1..Len(frames)
  OBVIOUS
<1>3. \A i \in DOMAIN rest : i + 1 \in DOMAIN frames /\ rest[i] = frames[i + 1]
  BY <1>1, <1>2
<1>4. 1 \in DOMAIN frames /\ Head(frames) = frames[1]
  BY <1>1, <1>2
<1> HIDE DEF rest
<1>5. Carries(rest) => Carries(frames)
  BY <1>3 DEF Carries
<1>6. AllWell(Head(frames)) => Carries(frames)
  BY <1>4 DEF Carries
<1> QED
  BY <1>1, <1>5, <1>6 DEF rest

-----------------------------------------------------------------------------
(* The pool.                                                               *)

LEMMA PoolRun == ASSUME Pool!Run PROVE P!Run
BY DEF Pool!Run, P!Run, Pool!Concurrency, P!Concurrency

LEMMA PoolRunLoop == ASSUME Pool!RunLoop PROVE P!RunLoop
BY DEF Pool!RunLoop, P!RunLoop, Pool!launch_next, P!launch_next

LEMMA PoolOnDone ==
    ASSUME NEW t \in Pool!Task, NEW ok \in BOOLEAN, Pool!OnDone(t, ok)
    PROVE  t \in P!Task /\ P!OnDone(t, ok)
BY DEF Pool!OnDone, P!OnDone, Pool!launch_next, P!launch_next, Pool!Task, P!Task

(* Every step of the client is one of the pool or leaves it alone.         *)
LEMMA PoolStep == ASSUME [Next]_vars PROVE [P!Next]_P!vars
<1> USE DEF pool, P!vars
<1>1. CASE ClientActs
  <2> USE <1>1
  <2>1. CASE Scan
    BY <2>1 DEF Scan
  <2>2. CASE Connect
    BY <2>2 DEF Connect
  <2>3. CASE send_file_list
    BY <2>3 DEF send_file_list
  <2>4. CASE FileListSent
    BY <2>4 DEF FileListSent
  <2>5. CASE read_sync_plan
    <3>1. UNCHANGED pool \/ Pool!Run
      BY <2>5, Zenon DEF read_sync_plan
    <3> QED
      BY <3>1, PoolRun DEF P!Next
  <2>6. CASE StartUpload
    BY <2>6, PoolRunLoop DEF StartUpload, P!Next
  <2>7. CASE start_uploads
    BY <2>7 DEF start_uploads
  <2>8. ASSUME NEW t \in Pool!Task, NEW ok \in BOOLEAN, UploadDone(t, ok)
        PROVE  [P!Next]_P!vars
    BY <2>8, PoolOnDone DEF UploadDone, P!Next
  <2>9. CASE send_sync_complete
    BY <2>9 DEF send_sync_complete
  <2>10. CASE SyncCompleteSent
    BY <2>10 DEF SyncCompleteSent
  <2>11. CASE read_sync_complete_ack
    BY <2>11 DEF read_sync_complete_ack
  <2>12. CASE Return
    BY <2>12 DEF Return
  <2> QED
    BY <2>1, <2>2, <2>3, <2>4, <2>5, <2>6, <2>7, <2>8, <2>9, <2>10, <2>11, <2>12
       DEF ClientActs, ClientStep, UploadStep
<1>2. CASE HelperPosts
  BY <1>2 DEF HelperPosts
<1>3. CASE ServerStep
  BY <1>3 DEF ServerStep, do_accept, route_connection, read_file_list, PlanSent,
              read_sync_complete, AnswerSent
<1>4. CASE LoseConnection
  BY <1>4 DEF LoseConnection
<1>5. CASE UNCHANGED vars
  BY <1>5 DEF vars
<1> QED
  BY <1>1, <1>2, <1>3, <1>4, <1>5 DEF Next, ClientActs

LEMMA PoolInvariant == ASSUME P!IInv, [Next]_vars PROVE P!IInv'
BY PoolStep, P!StepInv, QueueSizesAssumption, MaxConnectionsAssumption

(* Once the promise is fulfilled the pool does nothing more.               *)
LEMMA FinishedStays ==
    ASSUME P!IInv, [P!Next]_P!vars, promise # <<>>
    PROVE  UNCHANGED <<promise, results, active, queue_size>>
<1>1. started /\ to_launch = 0 /\ active = {}
  BY DEF P!IInv, P!Fulfilment
<1> QED
  BY <1>1 DEF P!Next, P!Run, P!RunLoop, P!OnDone, P!vars
-----------------------------------------------------------------------------
(* What is written and read.                                               *)

LEMMA FrameAppended ==
    ASSUME NEW frames \in Seq(Frames), NEW type \in Types, NEW version \in Versions,
           NEW body \in Bodies
    PROVE  /\ Append(frames, Frame(type, version, body)) \in Seq(Frames)
           /\ Carries(Append(frames, Frame(type, version, body))) =>
                 Carries(frames) \/ (type = "sync_complete" /\ body)
<1> DEFINE frame == Frame(type, version, body)
<1>1. frame \in Frames /\ frame.type = type /\ frame.body = body
  BY DEF Frame, Frames
<1>2. AllWell(frame) => type = "sync_complete" /\ body
  BY <1>1 DEF AllWell
<1> HIDE DEF frame
<1>3. /\ Append(frames, frame) \in Seq(Frames)
      /\ Carries(Append(frames, frame)) => Carries(frames) \/ AllWell(frame)
  BY <1>1, CarriesAppend
<1>4. /\ Append(frames, frame) \in Seq(Frames)
      /\ Carries(Append(frames, frame)) =>
            Carries(frames) \/ (type = "sync_complete" /\ body)
  BY <1>2, <1>3
<1> QED
  BY <1>4 DEF frame

LEMMA ErrorAppended ==
    ASSUME Typed, NEW details \in Errors,
           s2c' = Append(s2c, Frame("error", setting.server, details))
    PROVE  s2c' \in Seq(Frames) /\ (Carries(s2c') => Carries(s2c))
<1>1. s2c \in Seq(Frames) /\ setting.server \in Versions
  BY DEF Typed
<1>2. details \in Bodies /\ "error" \in Types
  BY DEF Bodies, Types
<1>3. "error" # "sync_complete"
  OBVIOUS
<1> QED
  BY <1>1, <1>2, <1>3, FrameAppended

LEMMA ServerReadsFrame ==
    ASSUME Typed, ServerReads
    PROVE  /\ c2s' \in Seq(Frames)
           /\ Carries(c2s') => Carries(c2s)
           /\ AllWell(Head(c2s)) => Carries(c2s)
BY CarriesTail DEF ServerReads, Typed

LEMMA ServerReadFailsFrame ==
    ASSUME Typed, ServerReadFails
    PROVE  /\ c2s' \in Seq(Frames) /\ s2c' = s2c
           /\ Carries(c2s') => Carries(c2s)
           /\ spc' = "ended" /\ cleanup' = cleanup
BY CarriesTail DEF ServerReadFails, Drop, Typed

LEMMA ClientReadsFrame ==
    ASSUME Typed, NEW frame \in FirstFrame, TakeFrame
    PROVE  /\ c2s' = c2s /\ s2c' \in Seq(Frames)
           /\ Carries(s2c') => Carries(s2c)
           /\ AllWell(frame) => Carries(s2c)
<1>1. s2c # <<>> /\ frame = Head(s2c)
  BY DEF FirstFrame, Typed
<1> QED
  BY <1>1, CarriesTail DEF TakeFrame, Typed

-----------------------------------------------------------------------------
(* The invariant.                                                          *)

LEMMA InitInv == ASSUME Init PROVE IInv
<1>1. P!IInv
  <2>1. P!Init
    BY DEF Init, Pool!Init, P!Init
  <2> QED
    BY <2>1, P!InitInv, QueueSizesAssumption, MaxConnectionsAssumption
<1>2. Typed
  BY DEF Init, Typed
<1>3. Waited
  BY DEF Init, Waited, make_work_guard
<1>4. Uploaded /\ Acknowledged
  BY CarriesNothing DEF Init, Uploaded, Acknowledged
<1> QED
  BY <1>1, <1>2, <1>3, <1>4 DEF IInv

Rest == Typed /\ Waited /\ Uploaded /\ Acknowledged

(* What a step of the pool leaves true.                                    *)
LEMMA PoolStays ==
    ASSUME IInv, [Next]_vars
    PROVE  /\ promise # <<>> => promise' # <<>>
           /\ Finished => Finished'
<1>1. [P!Next]_P!vars /\ P!IInv
  BY PoolStep DEF IInv
<1>2. promise # <<>> => UNCHANGED <<promise, results>>
  BY <1>1, FinishedStays
<1> QED
  BY <1>2 DEF Finished, AllOk

LEMMA ClientInv == ASSUME IInv, ClientActs PROVE Rest'
<1>0. /\ promise # <<>> => promise' # <<>>
      /\ Finished => Finished'
  BY PoolStays DEF Next, ClientActs
<1> USE DEF IInv
<1>1. CASE Scan
  BY <1>0, <1>1
     DEF Scan, GoesOn, Rest, Typed, Waited, Uploaded, Acknowledged, server,
         wire, pool
<1>2. CASE Connect
  <2> DEFINE hello == Frame("hello", setting.client, setting.client)
  <2>1. c2s' = c2s \/ c2s' = <<hello>>
    BY <1>2, Zenon DEF Connect
  <2>2. Append(<<>>, hello) \in Seq(Frames) /\ ~Carries(Append(<<>>, hello))
    <3>1. <<>> \in Seq(Frames) /\ setting.client \in Bodies
      BY DEF Typed, Bodies
    <3>2. "hello" \in Types
      BY DEF Types
    <3>3. "hello" # "sync_complete" /\ setting.client \in Versions
      BY DEF Typed
    <3> QED
      BY <3>1, <3>2, <3>3, FrameAppended, CarriesNothing
  <2>3. Append(<<>>, hello) = <<hello>>
    OBVIOUS
  <2> HIDE DEF hello
  <2>4. c2s' \in Seq(Frames) /\ (Carries(c2s') => Carries(c2s))
    BY <2>1, <2>2, <2>3 DEF Typed
  <2>5. spc = "none" /\ cleanup = "none"
    BY <1>2 DEF Connect, Waited, Acknowledged
  <2> QED
    BY <1>0, <1>2, <2>4, <2>5
       DEF Connect, GoesOn, fail, Rest, Typed, Waited, Uploaded, Acknowledged,
           pool
<1>3. CASE send_file_list
  <2> DEFINE list == Frame("file_list", setting.client, setting.list_fits)
  <2>1. ClientWrites("file_list", setting.list_fits) \/ UNCHANGED wire
    BY <1>3, Zenon DEF send_file_list
  <2>2. (c2s' = c2s \/ c2s' = Append(c2s, list)) /\ s2c' = s2c
    BY <2>1 DEF ClientWrites, wire
  <2>3. Append(c2s, list) \in Seq(Frames) /\ (Carries(Append(c2s, list)) => Carries(c2s))
    <3>1. /\ c2s \in Seq(Frames) /\ setting.client \in Versions
          /\ setting.list_fits \in Bodies
      BY DEF Typed, Bodies
    <3>2. "file_list" \in Types
      BY DEF Types
    <3>3. "file_list" # "sync_complete"
      OBVIOUS
    <3> QED
      BY <3>1, <3>2, <3>3, FrameAppended
  <2> HIDE DEF list
  <2>4. c2s' \in Seq(Frames) /\ s2c' = s2c /\ (Carries(c2s') => Carries(c2s))
    BY <2>2, <2>3 DEF Typed
  <2> QED
    BY <1>0, <1>3, <2>4
       DEF send_file_list, GoesOn, fail, Rest, Typed, Waited, Uploaded,
           Acknowledged,
           server, pool
<1>4. CASE FileListSent
  BY <1>0, <1>4
     DEF FileListSent, GoesOn, fail, Rest, Typed, Waited, Uploaded,
         Acknowledged,
         server, wire, pool
<1>5. CASE read_sync_plan
  <2>1. c2s' = c2s /\ s2c' \in Seq(Frames) /\ (Carries(s2c') => Carries(s2c))
    BY <1>5, ClientReadsFrame DEF read_sync_plan, ClientReadFails, wire, Typed
  <2>2. \/ pc' = "stopped" /\ ~success'
        \/ pc' = "starting_uploads" /\ UNCHANGED <<success, work_guard>>
    BY <1>5 DEF read_sync_plan, fail, GoesOn
  <2> QED
    BY <1>0, <1>5, <2>1, <2>2
       DEF read_sync_plan, fail, GoesOn, Rest, Typed, Waited, Uploaded,
           Acknowledged, server
<1>6. CASE StartUpload
  BY <1>0, <1>6
     DEF StartUpload, Rest, Typed, Waited, Uploaded, Acknowledged, client,
         server, wire
<1>7. CASE start_uploads
  BY <1>0, <1>7
     DEF start_uploads, GoesOn, fail, Rest, Typed, Waited, Uploaded,
         Acknowledged,
         server, wire, pool
<1>8. ASSUME NEW t \in Pool!Task, NEW ok \in BOOLEAN, UploadDone(t, ok)
      PROVE  Rest'
  BY <1>0, <1>8
     DEF UploadDone, Rest, Typed, Waited, Uploaded, Acknowledged, client,
         server, wire
<1>9. CASE send_sync_complete
  <2>1. success' \in BOOLEAN /\ (success' => AllOk(results)) /\ promise # <<>>
    BY <1>9 DEF send_sync_complete, Typed, Uploaded
  <2>2. /\ c2s' \in Seq(Frames) /\ s2c' = s2c
        /\ Carries(c2s') => Carries(c2s) \/ success'
    <3> DEFINE report == Frame("sync_complete", setting.client, success')
    <3>1. (c2s' = c2s \/ c2s' = Append(c2s, report)) /\ s2c' = s2c
      BY <1>9 DEF send_sync_complete, ClientWrites
    <3>2. c2s \in Seq(Frames) /\ setting.client \in Versions
      BY DEF Typed
    <3>3. success' \in Bodies
      BY <2>1 DEF Bodies
    <3>4. "sync_complete" \in Types
      BY DEF Types
    <3>5. Append(c2s, report) \in Seq(Frames)
      BY <3>2, <3>3, <3>4, FrameAppended
    <3>6. CASE success' = FALSE
      <4>1. /\ FALSE \in Bodies
            /\ report = Frame("sync_complete", setting.client, FALSE)
        BY <3>6 DEF Bodies
      <4>2. Carries(Append(c2s, report)) => Carries(c2s)
        BY <3>2, <3>4, <4>1, FrameAppended, Zenon
      <4> HIDE DEF report
      <4> QED
        BY <3>1, <3>2, <3>5, <4>2
    <3> HIDE DEF report
    <3> QED
      BY <2>1, <3>1, <3>2, <3>5, <3>6
  <2>3. Carries(c2s') => Finished
    BY <2>1, <2>2 DEF Finished, Uploaded
  <2> QED
    BY <1>0, <1>9, <2>1, <2>2, <2>3
       DEF send_sync_complete, Rest, Typed, Waited, Uploaded, Acknowledged,
           server, pool
<1>10. CASE SyncCompleteSent
  BY <1>0, <1>10
     DEF SyncCompleteSent, GoesOn, fail, Rest, Typed, Waited, Uploaded,
         Acknowledged,
         server, wire, pool
<1>11. CASE read_sync_complete_ack
  <2>1. c2s' = c2s /\ s2c' \in Seq(Frames) /\ (Carries(s2c') => Carries(s2c))
    BY <1>11, ClientReadsFrame DEF read_sync_complete_ack, ClientReadFails,
        wire, Typed
  <2>2. pc' = "stopped" /\ success' \in BOOLEAN /\ (success' => Carries(s2c))
    <3>1. CASE success' = FALSE
      BY <1>11, <3>1 DEF read_sync_complete_ack, fail
    <3>2. CASE success' # FALSE
      <4>1. PICK frame \in FirstFrame :
              /\ TakeFrame /\ frame.type = "sync_complete" /\ pc' = "stopped"
              /\ success' = (success /\ frame.body)
        BY <1>11, <3>2 DEF read_sync_complete_ack, fail
      <4> QED
        BY <3>2, <4>1, ClientReadsFrame DEF AllWell, Typed
    <3> QED
      BY <3>1, <3>2
  <2> QED
    BY <1>0, <1>11, <2>1, <2>2
       DEF read_sync_complete_ack, Rest, Typed, Waited, Uploaded, Acknowledged,
           server, pool
<1>12. CASE Return
  BY <1>0, <1>12
     DEF Return, Rest, Typed, Waited, Uploaded, Acknowledged, server, pool
<1> QED
  BY <1>1, <1>2, <1>3, <1>4, <1>5, <1>6, <1>7, <1>8, <1>9, <1>10, <1>11, <1>12
     DEF ClientActs, ClientStep, UploadStep
LEMMA HelperInv == ASSUME IInv, HelperPosts PROVE Rest'
<1>0. /\ promise # <<>> => promise' # <<>>
      /\ Finished => Finished'
  BY PoolStays DEF Next
<1> QED
  BY <1>0
     DEF HelperPosts, IInv, Rest, Typed, Waited, Uploaded, Acknowledged, server,
         wire, pool

LEMMA ServerInv == ASSUME IInv, ServerStep PROVE Rest'
<1>0. Finished => Finished'
  BY PoolStays DEF Next
<1>a. UNCHANGED <<setting, client, pool>>
  BY DEF ServerStep, do_accept, route_connection, read_file_list, PlanSent,
         read_sync_complete, AnswerSent
<1>b. spc # "none"
  BY DEF ServerStep, do_accept, route_connection, read_file_list, PlanSent,
         read_sync_complete, AnswerSent
<1> USE DEF IInv
<1>c. pc \notin {"scan", "connect"}
  BY <1>b DEF Waited
(* It is enough to look at the frames, at spc and at cleanup.              *)
<1>d. ASSUME /\ c2s' \in Seq(Frames) /\ s2c' \in Seq(Frames)
             /\ Carries(c2s') => Carries(c2s)
             /\ cleanup' # "none" => Finished
             /\ spc' \notin {"answered", "ended"} => cleanup' = "none"
             /\ Carries(s2c') => cleanup' = "done"
             /\ cleanup = "done" => cleanup' = "done"
      PROVE  Rest'
  BY <1>0, <1>a, <1>c, <1>d
     DEF Rest, Typed, Waited, Uploaded, Acknowledged, client, pool
<1>e. CASE ServerReadFails
  BY <1>e, <1>d, ServerReadFailsFrame DEF Typed, Uploaded, Acknowledged
<1>1. CASE do_accept
  BY <1>1, <1>d DEF do_accept, Typed, Uploaded, Acknowledged, wire
<1>2. CASE route_connection
  <2>1. CASE ServerReads /\ UNCHANGED cleanup
    <3>1. cleanup = "none"
      BY <1>2 DEF route_connection, Acknowledged
    <3>2. /\ c2s' \in Seq(Frames) /\ (Carries(c2s') => Carries(c2s))
      BY <2>1, ServerReadsFrame
    <3>3. s2c' = s2c \/ write_error("Protocol version mismatch")
      BY <1>2, <2>1 DEF route_connection, ServerReadFails
    <3>4. s2c' \in Seq(Frames) /\ (Carries(s2c') => Carries(s2c))
      <4>1. CASE write_error("Protocol version mismatch")
        BY <4>1, ErrorAppended DEF write_error, ServerWrites, Errors
      <4> QED
        BY <3>3, <4>1 DEF Typed
    <3> QED
      BY <1>d, <2>1, <3>1, <3>2, <3>4 DEF Uploaded, Acknowledged
  <2> QED
    BY <1>2, <1>e, <2>1, Zenon DEF route_connection
<1>3. CASE read_file_list
  <2>1. CASE ServerReads /\ UNCHANGED cleanup
    <3>1. cleanup = "none"
      BY <1>3 DEF read_file_list, Acknowledged
    <3>2. /\ c2s' \in Seq(Frames) /\ (Carries(c2s') => Carries(c2s))
      BY <2>1, ServerReadsFrame
    <3>3. \/ s2c' = s2c
          \/ ServerWrites("sync_plan", TRUE)
          \/ write_error(Details("file_list", "Expected FileList",
                                 "Failed to read the directory"))
      BY <1>3, <2>1, Zenon DEF read_file_list, ServerReadFails
    <3>4. s2c' \in Seq(Frames) /\ (Carries(s2c') => Carries(s2c))
      <4>1. CASE ServerWrites("sync_plan", TRUE)
        <5>1. "sync_plan" \in Types /\ "sync_plan" # "sync_complete" /\ TRUE \in Bodies
          BY DEF Types, Bodies
        <5>2. s2c \in Seq(Frames) /\ setting.server \in Versions
          BY DEF Typed
        <5>3. s2c' = Append(s2c, Frame("sync_plan", setting.server, TRUE))
          BY <4>1 DEF ServerWrites
        <5> HIDE DEF Types, Bodies
        <5>4. /\ Append(s2c, Frame("sync_plan", setting.server, TRUE)) \in Seq(Frames)
              /\ Carries(Append(s2c, Frame("sync_plan", setting.server, TRUE))) =>
                    Carries(s2c) \/ ("sync_plan" = "sync_complete" /\ TRUE)
          BY <5>1, <5>2, FrameAppended, Zenon
        <5> QED
          BY <5>1, <5>3, <5>4, Zenon
      <4>2. CASE write_error(Details("file_list", "Expected FileList",
                                     "Failed to read the directory"))
        BY <4>2, ErrorAppended DEF write_error, ServerWrites, Errors, Details
      <4> QED
        BY <3>3, <4>1, <4>2 DEF Typed
    <3> QED
      BY <1>d, <2>1, <3>1, <3>2, <3>4 DEF Uploaded, Acknowledged
  <2> QED
    BY <1>3, <1>e, <2>1, Zenon DEF read_file_list
<1>4. CASE PlanSent
  BY <1>4, <1>d DEF PlanSent, Drop, Typed, Uploaded, Acknowledged
<1>5. CASE read_sync_complete
  <2>1. cleanup = "none" /\ ~Carries(s2c)
    BY <1>5 DEF read_sync_complete, Acknowledged
  <2>2. CASE ServerReads
    <3>1. /\ c2s' \in Seq(Frames) /\ (Carries(c2s') => Carries(c2s))
          /\ AllWell(Head(c2s)) => Finished
      BY <2>2, ServerReadsFrame DEF Uploaded
    <3>2. \/ /\ cleanup' = cleanup
             /\ s2c' = s2c \/ write_error(Details("sync_complete", "Expected SyncComplete",
                                                 "Client reported unsuccessful sync"))
          \/ /\ cleanup' = "done" /\ spc' = "answered" /\ AllWell(Head(c2s))
             /\ ServerWrites("sync_complete", TRUE)
          \/ /\ cleanup' = "partial" /\ AllWell(Head(c2s))
             /\ write_error("Failed to remove a file")
      BY <1>5, <2>2, Zenon DEF read_sync_complete, ServerReadFails, AllWell
    <3>3. CASE /\ cleanup' = cleanup
               /\ s2c' = s2c \/ write_error(Details("sync_complete", "Expected SyncComplete",
                                                   "Client reported unsuccessful sync"))
      <4>1. s2c' \in Seq(Frames) /\ (Carries(s2c') => Carries(s2c))
        BY <3>3, ErrorAppended DEF write_error, ServerWrites, Errors, Details,
        Typed
      <4> QED
        BY <1>d, <2>1, <3>1, <3>3, <4>1
    <3>4. CASE /\ cleanup' = "done" /\ spc' = "answered" /\ AllWell(Head(c2s))
               /\ ServerWrites("sync_complete", TRUE)
      <4>1. s2c' \in Seq(Frames)
        <5>1. "sync_complete" \in Types /\ TRUE \in Bodies
          BY DEF Types, Bodies
        <5>2. s2c \in Seq(Frames) /\ setting.server \in Versions
          BY DEF Typed
        <5> QED
          BY <3>4, <5>1, <5>2, FrameAppended DEF ServerWrites
      <4> QED
        BY <1>d, <3>1, <3>4, <4>1
    <3>5. CASE /\ cleanup' = "partial" /\ AllWell(Head(c2s))
               /\ write_error("Failed to remove a file")
      <4>1. /\ s2c' \in Seq(Frames) /\ (Carries(s2c') => Carries(s2c))
            /\ spc' = "answered"
        BY <3>5, ErrorAppended DEF write_error, ServerWrites, Errors
      <4> QED
        BY <1>d, <2>1, <3>1, <3>5, <4>1
    <3> QED
      BY <3>2, <3>3, <3>4, <3>5, Zenon
  <2> QED
    BY <1>5, <1>e, <2>2, Zenon DEF read_sync_complete
<1>6. CASE AnswerSent
  BY <1>6, <1>d DEF AnswerSent, Drop, Typed, Uploaded, Acknowledged
<1> QED
  BY <1>1, <1>2, <1>3, <1>4, <1>5, <1>6 DEF ServerStep

LEMMA StepInv == ASSUME IInv, [Next]_vars PROVE IInv'
<1>1. P!IInv'
  BY PoolInvariant DEF IInv
<1>2. CASE LoseConnection \/ UNCHANGED vars
  <2>1. Finished => Finished'
    BY PoolStays
  <2> QED
    BY <1>1, <1>2, <2>1
       DEF LoseConnection, IInv, Typed, Waited, Uploaded, Acknowledged, vars,
           client,
           server, wire, pool
<1>3. CASE ClientActs \/ HelperPosts \/ ServerStep
  BY <1>1, <1>3, ClientInv, HelperInv, ServerInv DEF IInv, Rest
<1> QED
  BY <1>2, <1>3 DEF Next, ClientActs

(* IInv is an inductive invariant of a run.                                *)
THEOREM InductiveInvariant == Spec => []IInv
BY InitInv, StepInv, PTL DEF Spec

-----------------------------------------------------------------------------
(* A run of the client does nothing with its pool that module              *)
(* UploadManager does not allow: what is proved of the pool holds in it.   *)
THEOREM RunsThePool == Spec => Pool!Spec
<1>1. Init => Pool!Init
  BY DEF Init
<1>2. [Next]_vars => [Pool!Next]_Pool!vars
  <2> SUFFICES ASSUME [Next]_vars PROVE [Pool!Next]_Pool!vars
    OBVIOUS
  <2>1. [P!Next]_P!vars
    BY PoolStep
  <2> QED
    BY <2>1
       DEF P!Next, P!Run, P!RunLoop, P!OnDone, P!launch_next, P!Task,
           P!Concurrency,
           P!vars, Pool!Next, Pool!Run, Pool!RunLoop, Pool!OnDone, Pool!launch_next,
           Pool!Task, Pool!Concurrency, Pool!vars
<1> QED
  BY <1>1, <1>2, PTL DEF Spec, Pool!Spec

LEMMA FinishedIsStored == ASSUME IInv, Finished PROVE AllStored
<1>1. active = {} /\ Len(results) = queue_size
  BY P!FulfilledIsComplete, QueueSizesAssumption, MaxConnectionsAssumption
     DEF IInv, Finished
<1> QED
  BY <1>1 DEF AllStored, Finished, AllOk

(* The server removes nothing before every upload of the plan has been     *)
(* stored (send_sync_complete, read_sync_complete).                        *)
THEOREM CleanupAfterUploadsHolds == Spec => []CleanupAfterUploads
<1>1. IInv => CleanupAfterUploads
  BY FinishedIsStored DEF IInv, Uploaded, CleanupAfterUploads
<1> QED
  BY <1>1, InductiveInvariant, PTL

(* Exit code 0 means that everything was stored and cleaned up: run()      *)
(* cannot return early, and only the acknowledgement keeps success_.       *)
THEOREM ExitZeroMeansSyncedHolds == Spec => []ExitZeroMeansSynced
<1>1. IInv => ExitZeroMeansSynced
  BY FinishedIsStored DEF IInv, Uploaded, Acknowledged, ExitZeroMeansSynced
<1> QED
  BY <1>1, InductiveInvariant, PTL

(* run() does not return while the helper thread waits for the promise.    *)
THEOREM NobodyWaitsHolds == Spec => []NobodyWaits
<1>1. IInv => NobodyWaits
  BY DEF IInv, Waited, NobodyWaits
<1> QED
  BY <1>1, InductiveInvariant, PTL

-----------------------------------------------------------------------------
(* What the two ends say to each other.  A frame is one of eight; which of *)
(* them may be under way, and from where, follows from where both ends     *)
(* are (Conversation); from that, that an Error is heard (Heard) and that  *)
(* a run on which nothing fails goes well (Smooth).                        *)

Match == setting.client = setting.server

Hello == Frame("hello", setting.client, setting.client)
List == Frame("file_list", setting.client, setting.list_fits)
Good == Frame("sync_complete", setting.client, TRUE)
Bad == Frame("sync_complete", setting.client, FALSE)
Plan == Frame("sync_plan", setting.server, TRUE)
Complete == Frame("sync_complete", setting.server, TRUE)
Error(details) == Frame("error", setting.server, details)

(* What the server has answered, if anything.                              *)
IsAnswer(frames) ==
    \/ told = "none" /\ frames = <<Complete>>
    \/ told # "none" /\ frames = <<Error(told)>>

Gone == pc \in {"stopped", "over"}

Flags == work_guard \in BOOLEAN /\ server_open \in BOOLEAN /\ reset \in BOOLEAN

Kinds ==
    /\ pc \in {"scan", "connect", "sending_hello", "sending_file_list", "reading_plan",
               "starting_uploads", "uploading", "sending_complete", "reading_ack",
               "stopped", "over"}
    /\ helper \in {"none", "waiting", "posted", "done"}
    /\ exit \in {"none", "ok", "failed"}
    /\ spc \in {"none", "backlog", "routing", "reading_file_list", "sending_plan",
                "reading_complete", "answered", "ended"}
    /\ cleanup \in {"none", "partial", "done"}
    /\ told \in Errors \cup {"none"}
    /\ faults \subseteq {"scan", "connect", "thread", "upload", "server", "connection"}

Start ==
    /\ pc \in {"scan", "connect"} => spc = "none"
    /\ spc = "none" =>
           /\ pc \in {"scan", "connect"} \/ Gone
           /\ c2s = <<>> /\ s2c = <<>> /\ ~reset

(* Until the server has read the FileList.                                 *)
Opening ==
    /\ spc \in {"backlog", "routing"} =>
           /\ s2c = <<>>
           /\ \/ (pc = "sending_hello" \/ Gone) /\ c2s = <<Hello>>
              \/ /\ pc \in {"sending_file_list", "reading_plan"} \/ Gone
                 /\ c2s = <<Hello, List>>
    /\ spc = "reading_file_list" =>
           /\ s2c = <<>>
           /\ \/ (pc = "sending_hello" \/ Gone) /\ c2s = <<>>
              \/ /\ pc \in {"sending_file_list", "reading_plan"} \/ Gone
                 /\ c2s = <<List>>

(* From the plan to the client's report.                                   *)
Working ==
    spc \in {"sending_plan", "reading_complete"} =>
        \/ /\ pc \in {"sending_file_list", "reading_plan"} \/ Gone
           /\ c2s = <<>> /\ s2c = <<Plan>>
        \/ /\ pc \in {"starting_uploads", "uploading"} \/ Gone
           /\ c2s = <<>> /\ s2c = <<>>
        \/ /\ pc \in {"sending_complete", "reading_ack"} \/ Gone
           /\ c2s \in {<<Good>>, <<Bad>>}
           /\ s2c = <<>>

Closing ==
    /\ spc = "answered" => c2s = <<>>
    /\ spc = "answered" \/ told # "none" =>
           \/ Gone /\ s2c = <<>>
           \/ /\ \/ Gone \/ pc \in {"sending_complete", "reading_ack"}
                 \/ told # "none" /\ pc \in {"sending_file_list", "reading_plan"}
              /\ IsAnswer(s2c)

Conversation ==
    /\ Start /\ Opening /\ Working /\ Closing
    /\ server_open <=> spc \notin {"none", "ended"}
    /\ spc \notin {"none", "backlog", "routing", "ended"} \/ told # "none" => Match
    /\ spc \notin {"answered", "ended"} => told = "none"
    /\ c2s \in {<<>>, <<Hello>>, <<List>>, <<Hello, List>>, <<Good>>, <<Bad>>}
    /\ s2c \in {<<>>, <<Plan>>} \/ IsAnswer(s2c)

Heard ==
    "connection" \notin faults =>
        /\ reset => spc = "ended" \/ pc = "over"
        /\ Gone => \/ spc \in {"none", "answered", "ended"}
                   \/ spc \in {"sending_plan", "reading_complete"} /\ c2s = <<>>
        /\ told # "none" => IF Gone THEN failure_reason = told
                            ELSE ~reset /\ s2c = <<Error(told)>>

Smooth ==
    faults = {} /\ Match /\ setting.list_fits =>
        /\ success /\ told = "none" /\ ~reset /\ AllOk(results) /\ exit # "failed"
        /\ Gone => spc \in {"answered", "ended"} /\ s2c = <<>>
        /\ spc = "ended" =>
            \/ Gone
            \/ pc \in {"sending_complete", "reading_ack"} /\ s2c = <<Complete>>
        /\ pc \in {"sending_complete", "reading_ack"} => c2s \in {<<>>, <<Good>>}

Talk == Flags /\ Kinds /\ Conversation /\ Heard /\ Smooth

(* Short sequences.                                                        *)
LEMMA Few ==
    ASSUME NEW x, NEW y
    PROVE  /\ <<x>> # <<>> /\ <<x, y>> # <<>>
           /\ Head(<<x>>) = x /\ Tail(<<x>>) = <<>>
           /\ Head(<<x, y>>) = x /\ Tail(<<x, y>>) = <<y>>
           /\ Append(<<>>, x) = <<x>> /\ Append(<<x>>, y) = <<x, y>>
           /\ Len(<<>>) = 0 /\ Len(<<x>>) = 1 /\ Len(<<x, y>>) = 2
           /\ DOMAIN <<>> = {} /\ 1 \in DOMAIN <<x>> /\ <<x>>[1] = x
<1>1. /\ <<x>> # <<>> /\ <<x, y>> # <<>>
      /\ Head(<<x>>) = x /\ Head(<<x, y>>) = x
      /\ Len(<<>>) = 0 /\ Len(<<x>>) = 1 /\ Len(<<x, y>>) = 2
      /\ DOMAIN <<>> = {} /\ 1 \in DOMAIN <<x>> /\ <<x>>[1] = x
  OBVIOUS
<1>2. Append(<<>>, x) = <<x>>
  OBVIOUS
<1>3. Append(<<x>>, y) = <<x, y>>
  <2> DEFINE long == Append(<<x>>, y)
  <2>1. <<x>> \in Seq({x, y}) /\ y \in {x, y} /\ Len(<<x>>) = 1
    OBVIOUS
  <2>2. long \in Seq({x, y}) /\ Len(long) = 2 /\ long[1] = x /\ long[2] = y
    BY <2>1
  <2> HIDE DEF long
  <2>3. long = <<x, y>>
    BY <2>2
  <2> QED
    BY <2>3 DEF long
<1>4. Tail(<<x>>) = <<>>
  OBVIOUS
<1>5. Tail(<<x, y>>) = <<y>>
  OBVIOUS
<1> QED
  BY <1>1, <1>2, <1>3, <1>4, <1>5, Zenon

LEMMA Singletons == ASSUME NEW x, NEW y, <<x>> = <<y>> PROVE x = y
OBVIOUS

LEMMA Fields ==
    ASSUME NEW type, NEW version, NEW body
    PROVE  /\ Frame(type, version, body).type = type
           /\ Frame(type, version, body).version = version
           /\ Frame(type, version, body).body = body
BY DEF Frame

(* What a frame is does not change.                                        *)
LEMMA FramesKept ==
    ASSUME UNCHANGED setting
    PROVE  UNCHANGED <<Match, Hello, List, Good, Bad, Plan, Complete>>
BY Zenon DEF Match, Hello, List, Good, Bad, Plan, Complete, Frame

LEMMA AllOkKept == ASSUME UNCHANGED results PROVE UNCHANGED AllOk(results)
BY DEF AllOk

LEMMA FlagsStep == ASSUME Flags, [Next]_vars PROVE Flags'
<1>1. \/ UNCHANGED work_guard \/ work_guard' = FALSE
  BY Zenon DEF Next, ClientActs, ClientStep, UploadStep, ServerStep,
               HelperPosts, LoseConnection, vars, client,
    Scan, Connect, send_file_list, FileListSent, read_sync_plan, StartUpload, start_uploads,
    UploadDone, send_sync_complete, SyncCompleteSent, read_sync_complete_ack, Return,
    do_accept, route_connection, read_file_list, PlanSent, read_sync_complete, AnswerSent,
    GoesOn, fail
<1>2. \/ UNCHANGED server_open \/ server_open' = TRUE \/ server_open' = FALSE
  BY Zenon DEF Next, ClientActs, ClientStep, UploadStep, ServerStep,
               HelperPosts, LoseConnection, vars, server,
    Scan, Connect, send_file_list, FileListSent, read_sync_plan, StartUpload, start_uploads,
    UploadDone, send_sync_complete, SyncCompleteSent, read_sync_complete_ack, Return,
    do_accept, route_connection, read_file_list, PlanSent, read_sync_complete, AnswerSent,
    Drop, write_error, ServerReadFails
<1>3. \/ UNCHANGED reset \/ reset' = TRUE
      \/ reset' = (reset \/ ~server_open) \/ reset' = (reset \/ s2c # <<>>)
      \/ reset' = (reset \/ ClientClosed) \/ reset' = (reset \/ c2s # <<>>)
      \/ reset' = (reset \/ c2s' # <<>>) \/ reset' = (reset \/ TRUE)
  BY Zenon DEF Next, ClientActs, ClientStep, UploadStep, ServerStep,
               HelperPosts, LoseConnection, vars, wire,
    Scan, Connect, send_file_list, FileListSent, read_sync_plan, StartUpload, start_uploads,
    UploadDone, send_sync_complete, SyncCompleteSent, read_sync_complete_ack, Return,
    do_accept, route_connection, read_file_list, PlanSent, read_sync_complete, AnswerSent,
    ClientWrites, ClientReadFails, TakeFrame, Drop, ServerWrites, write_error,
    ServerReadFails
<1>4. work_guard' \in BOOLEAN /\ server_open' \in BOOLEAN
  BY <1>1, <1>2, Zenon DEF Flags
<1>5. reset' \in BOOLEAN
  <2>1. \A p : (reset \/ p) \in BOOLEAN
    OBVIOUS
  <2> QED
    BY <1>3, <2>1, Zenon DEF Flags
<1> QED
  BY <1>4, <1>5 DEF Flags

LEMMA KindsStep == ASSUME IInv, Kinds, [Next]_vars PROVE Kinds'
<1> USE DEF Kinds
<1>1. CASE ClientActs
  <2>1. CASE Scan
    BY <2>1 DEF Scan, GoesOn, Fault, server, wire, IInv, Waited
  <2>2. CASE Connect
    BY <2>2 DEF Connect, GoesOn, Fault, fail
  <2>3. CASE send_file_list
    BY <2>3 DEF send_file_list, GoesOn, fail, ClientWrites, server, wire
  <2>4. CASE FileListSent
    BY <2>4 DEF FileListSent, GoesOn, fail, server, wire
  <2>5. CASE read_sync_plan
    <3>1. pc' = "stopped" \/ pc' = "starting_uploads"
      BY <2>5, Zenon DEF read_sync_plan, GoesOn, fail
    <3>2. UNCHANGED <<helper, exit, spc, cleanup, told, faults>>
      BY <2>5, Zenon DEF read_sync_plan, server
    <3> QED
      BY <3>1, <3>2
  <2>6. CASE StartUpload
    BY <2>6 DEF StartUpload, client, server, wire
  <2>7. CASE start_uploads
    BY <2>7 DEF start_uploads, GoesOn, fail, Fault, server, wire
  <2>8. ASSUME NEW t \in Pool!Task, NEW ok \in BOOLEAN, UploadDone(t, ok)
        PROVE  Kinds'
    BY <2>8 DEF UploadDone, Fault, client, server, wire
  <2>9. CASE send_sync_complete
    BY <2>9 DEF send_sync_complete, ClientWrites, server
  <2>10. CASE SyncCompleteSent
    BY <2>10 DEF SyncCompleteSent, GoesOn, fail, server, wire
  <2>11. CASE read_sync_complete_ack
    BY <2>11 DEF read_sync_complete_ack, fail, ClientReadFails, TakeFrame,
                 server, wire
  <2>12. CASE Return
    BY <2>12 DEF Return, server
  <2> QED
    BY <1>1, <2>1, <2>2, <2>3, <2>4, <2>5, <2>6, <2>7, <2>8, <2>9, <2>10, <2>11, <2>12
       DEF ClientActs, ClientStep, UploadStep
<1>2. CASE HelperPosts
  BY <1>2 DEF HelperPosts, server, wire
<1>3. CASE ServerStep
  <2>1. CASE do_accept
    BY <2>1 DEF do_accept, client, wire
  <2>2. CASE route_connection
    <3>1. /\ spc' = "ended" \/ spc' = "answered" \/ spc' = "reading_file_list"
          /\ told' = told \/ told' = "Protocol version mismatch"
      BY <2>2 DEF route_connection, ServerReadFails, Drop, write_error
    <3>2. UNCHANGED <<client, cleanup, faults>>
      BY <2>2, Zenon DEF route_connection, ServerReadFails
    <3>3. /\ pc' = pc /\ helper' = helper /\ exit' = exit
          /\ cleanup' = cleanup /\ faults' = faults
      BY <3>2, Zenon DEF client
    <3>4. told' \in Errors \cup {"none"}
      BY <3>1 DEF Errors
    <3>5. spc' \in {"ended", "answered", "reading_file_list"}
      BY <3>1
    <3> QED
      BY <3>3, <3>4, <3>5
  <2>3. CASE read_file_list
    <3>1. /\ spc' = "ended" \/ spc' = "answered" \/ spc' = "sending_plan"
          /\ \/ told' = told
             \/ told' = Details("file_list", "Expected FileList",
                                "Failed to read the directory")
          /\ faults' = faults \/ faults' = faults \cup {"server"}
      BY <2>3 DEF read_file_list, ServerReadFails, Drop, write_error, Fault
    <3>2. UNCHANGED <<client, cleanup>>
      BY <2>3, Zenon DEF read_file_list, ServerReadFails
    <3>3. /\ pc' = pc /\ helper' = helper /\ exit' = exit /\ cleanup' = cleanup
          /\ faults' \subseteq faults \cup {"server"}
      BY <3>1, <3>2 DEF client
    <3>4. told' \in Errors \cup {"none"}
      BY <3>1 DEF Errors, Details
    <3>5. spc' \in {"ended", "answered", "sending_plan"}
      BY <3>1
    <3> QED
      BY <3>3, <3>4, <3>5
  <2>4. CASE PlanSent
    BY <2>4 DEF PlanSent, Drop, client
  <2>5. CASE read_sync_complete
    BY <2>5
       DEF read_sync_complete, ServerReadFails, ServerReads, Drop, write_error,
           Errors, Details, Fault, ServerWrites, client
  <2>6. CASE AnswerSent
    BY <2>6 DEF AnswerSent, Drop, client
  <2> QED
    BY <1>3, <2>1, <2>2, <2>3, <2>4, <2>5, <2>6 DEF ServerStep
<1>4. CASE LoseConnection
  BY <1>4 DEF LoseConnection, Fault, client, server
<1>5. CASE UNCHANGED vars
  BY <1>5 DEF vars, client, server, wire
<1> QED
  BY <1>1, <1>2, <1>3, <1>4, <1>5 DEF Next, ClientActs

(* The server.                                                             *)
Spoken == Conversation /\ Heard /\ Smooth

LEMMA ServerKeeps ==
    ASSUME ServerStep
    PROVE  /\ UNCHANGED <<setting, pc, success, failure_reason, exit, results>>
           /\ UNCHANGED <<Match, Hello, List, Good, Bad, Plan, Complete>>
           /\ UNCHANGED <<Gone, AllOk(results)>>
<1>1. UNCHANGED <<setting, client, pool>>
  BY Zenon DEF ServerStep, do_accept, route_connection, read_file_list,
               PlanSent,
    read_sync_complete, AnswerSent
<1>2. UNCHANGED <<setting, pc, success, failure_reason, exit, results>>
  BY <1>1 DEF client, pool
<1>3. UNCHANGED Gone
  BY <1>2 DEF Gone
<1> QED
  BY <1>2, <1>3, FramesKept, AllOkKept

LEMMA AcceptTalk == ASSUME Talk, do_accept PROVE Spoken'
<1>1. UNCHANGED <<wire, faults, told, server_open>> /\ spc = "backlog" /\ spc' = "routing"
  BY DEF do_accept
<1>2. ServerStep
  BY DEF ServerStep
<1> USE DEF Talk, wire
<1>3. Conversation'
  BY <1>1, <1>2, ServerKeeps
     DEF Conversation, Start, Opening, Working, Closing, IsAnswer, Error
<1>4. Heard'
  BY <1>1, <1>2, ServerKeeps DEF Heard, Conversation
<1>5. Smooth'
  BY <1>1, <1>2, ServerKeeps DEF Smooth, Conversation
<1> QED
  BY <1>3, <1>4, <1>5 DEF Spoken

(* What the client sends has the client's version.                         *)
Sent == {<<>>, <<Hello>>, <<List>>, <<Hello, List>>, <<Good>>, <<Bad>>}

LEMMA Named ==
    /\ Hello.type = "hello" /\ Hello.version = setting.client /\ Hello.body = setting.client
    /\ List.type = "file_list" /\ List.version = setting.client
    /\ List.body = setting.list_fits
    /\ Good.type = "sync_complete" /\ Good.version = setting.client /\ Good.body = TRUE
    /\ Bad.type = "sync_complete" /\ Bad.version = setting.client /\ Bad.body = FALSE
    /\ Plan.type = "sync_plan" /\ Plan.version = setting.server
    /\ Complete.type = "sync_complete" /\ Complete.version = setting.server
    /\ Complete.body = TRUE
    /\ Error(told).type = "error" /\ Error(told).version = setting.server
    /\ Error(told).body = told
<1>1. /\ Hello.type = "hello" /\ Hello.version = setting.client /\ Hello.body = setting.client
  BY DEF Hello, Frame
<1>2. /\ List.type = "file_list" /\ List.version = setting.client
      /\ List.body = setting.list_fits
  BY DEF List, Frame
<1>3. /\ Good.type = "sync_complete" /\ Good.version = setting.client /\ Good.body = TRUE
  BY DEF Good, Frame
<1>4. /\ Bad.type = "sync_complete" /\ Bad.version = setting.client /\ Bad.body = FALSE
  BY DEF Bad, Frame
<1>5. /\ Plan.type = "sync_plan" /\ Plan.version = setting.server
  BY DEF Plan, Frame
<1>6. /\ Complete.type = "sync_complete" /\ Complete.version = setting.server
      /\ Complete.body = TRUE
  BY DEF Complete, Frame
<1>7. /\ Error(told).type = "error" /\ Error(told).version = setting.server
      /\ Error(told).body = told
  BY DEF Error, Frame
<1> QED
  BY <1>1, <1>2, <1>3, <1>4, <1>5, <1>6, <1>7, Zenon

LEMMA SentFrame ==
    ASSUME NEW frames \in Sent, frames # <<>>
    PROVE  Tail(frames) \in Sent /\ Head(frames).version = setting.client
<1>2. ASSUME NEW frame, frames = <<frame>> \/ frames = <<frame, List>>,
             frame \in {Hello, List, Good, Bad}
      PROVE  Tail(frames) \in Sent /\ Head(frames).version = setting.client
  <2>1. Head(frames) = frame /\ (Tail(frames) = <<>> \/ Tail(frames) = <<List>>)
    <3>1. /\ Head(<<frame>>) = frame /\ Tail(<<frame>>) = <<>>
          /\ Head(<<frame, List>>) = frame /\ Tail(<<frame, List>>) = <<List>>
      BY Few
    <3>2. CASE frames = <<frame>>
      BY <3>1, <3>2, Zenon
    <3>3. CASE frames = <<frame, List>>
      BY <3>1, <3>3, Zenon
    <3> QED
      BY <1>2, <3>2, <3>3
  <2>2. frame.version = setting.client
    BY <1>2, Named, Zenon
  <2>3. <<>> \in Sent /\ <<List>> \in Sent
    BY DEF Sent
  <2> QED
    BY <2>1, <2>2, <2>3, Zenon
<1>3. \E frame \in {Hello, List, Good, Bad} : frames = <<frame>> \/ frames = <<frame, List>>
  BY Zenon DEF Sent
<1> QED
  BY <1>2, <1>3

LEMMA DropTalk ==
    ASSUME IInv, Talk, ServerStep, ServerReadFails, UNCHANGED faults,
           spc \in {"routing", "reading_file_list", "reading_complete"}
    PROVE  Spoken'
<1>1. /\ spc' = "ended" /\ ~server_open' /\ UNCHANGED <<s2c, told>>
      /\ reset' <=> reset \/ c2s' # <<>>
  BY DEF ServerReadFails, Drop
<1>2. \/ c2s # <<>> /\ Head(c2s).version # setting.server /\ c2s' = Tail(c2s)
      \/ ((c2s = <<>> /\ pc = "over") \/ reset) /\ c2s' = c2s
  BY DEF ServerReadFails, Decodes, ClientClosed
<1>3. c2s \in Sent
  BY DEF Talk, Conversation, Sent
<1>4. c2s' \in Sent /\ (c2s # <<>> => Head(c2s).version = setting.client)
  <2>1. PICK frames \in Sent : frames = c2s
    BY <1>3
  <2> QED
    BY <1>2, <2>1, SentFrame
<1>5. told = "none" /\ pc \notin {"scan", "connect"} /\ Kinds
  BY DEF Talk, Conversation, Start
<1>6. Conversation'
  <2>1. s2c \in {<<>>, <<Plan>>} \/ s2c = <<Complete>>
    BY <1>5 DEF Talk, Conversation, IsAnswer
  <2> QED
    BY <1>1, <1>4, <1>5, <2>1, ServerKeeps
       DEF Conversation, Start, Opening, Working, Closing, IsAnswer, Sent
<1>7. Heard'
  BY <1>1, <1>5 DEF Heard
<1>8. Smooth'
  BY <1>1, <1>2, <1>4, <1>5, ServerKeeps DEF Talk, Smooth, Gone, Match
<1> QED
  BY <1>6, <1>7, <1>8 DEF Spoken

LEMMA RouteTalk == ASSUME IInv, Talk, route_connection PROVE Spoken'
<1>1. ServerStep /\ spc = "routing" /\ UNCHANGED faults
  BY DEF ServerStep, route_connection
<1>2. CASE ServerReadFails
  BY <1>1, <1>2, DropTalk
<1>3. CASE ServerReads /\ ~ServerReadFails
  <2>1. /\ told = "none" /\ s2c = <<>>
        /\ \/ (pc = "sending_hello" \/ Gone) /\ c2s = <<Hello>>
           \/ (pc \in {"sending_file_list", "reading_plan"} \/ Gone) /\ c2s = <<Hello, List>>
    BY <1>1 DEF Talk, Conversation, Opening
  <2>2. /\ Head(c2s) = Hello
        /\ \/ (pc = "sending_hello" \/ Gone) /\ c2s' = <<>>
           \/ (pc \in {"sending_file_list", "reading_plan"} \/ Gone) /\ c2s' = <<List>>
    <3>1. /\ Head(<<Hello>>) = Hello /\ Tail(<<Hello>>) = <<>>
          /\ Head(<<Hello, List>>) = Hello /\ Tail(<<Hello, List>>) = <<List>>
      BY Few
    <3>2. c2s' = Tail(c2s)
      BY <1>3 DEF ServerReads
    <3>3. CASE c2s = <<Hello>>
      <4>1. ~(c2s = <<Hello, List>>)
        BY <3>3
      <4> QED
        BY <2>1, <3>1, <3>2, <3>3, <4>1, Zenon
    <3>4. CASE c2s = <<Hello, List>>
      <4>1. ~(c2s = <<Hello>>)
        BY <3>4
      <4> QED
        BY <2>1, <3>1, <3>2, <3>4, <4>1, Zenon
    <3> QED
      BY <2>1, <3>3, <3>4, Zenon
  <2>3. Hello.type = "hello" /\ Hello.version = setting.client /\ Hello.body = setting.client
    BY Named
  <2>4. Match
    BY <1>3, <2>2, <2>3 DEF ServerReads, Decodes, Match
  <2>5. spc' = "reading_file_list" /\ UNCHANGED <<s2c, reset, told, server_open>>
    <3>1. Head(c2s).type = "hello" /\ Head(c2s).body = setting.server
      BY <2>2, <2>3, <2>4 DEF Match
    <3> QED
      BY <1>3, <3>1, Zenon DEF route_connection
  <2>6. Conversation'
    BY <1>1, <2>1, <2>2, <2>4, <2>5, ServerKeeps
       DEF Talk, Conversation, Start, Opening, Working, Closing, IsAnswer
  <2>7. Heard'
    BY <1>1, <2>1, <2>5, ServerKeeps DEF Talk, Heard
  <2>8. Smooth'
    BY <1>1, <2>1, <2>5, ServerKeeps DEF Talk, Smooth, Gone
  <2> QED
    BY <2>6, <2>7, <2>8 DEF Spoken
<1> QED
  BY <1>2, <1>3, Zenon DEF route_connection

LEMMA FileListTalk == ASSUME IInv, Talk, read_file_list PROVE Spoken'
<1>1. ServerStep /\ spc = "reading_file_list" /\ told = "none" /\ s2c = <<>>
  BY DEF ServerStep, read_file_list, Talk, Conversation, Opening
<1>2. Match /\ (c2s = <<>> \/ c2s = <<List>>)
  BY <1>1 DEF Talk, Conversation, Opening
<1>3. CASE ServerReadFails /\ UNCHANGED faults
  BY <1>1, <1>3, DropTalk
<1>4. CASE ServerReads /\ ~(ServerReadFails /\ UNCHANGED faults)
  <2>1. /\ c2s = <<List>> /\ Head(c2s) = List /\ c2s' = <<>>
        /\ pc \in {"sending_file_list", "reading_plan"} \/ Gone
    <3>1. c2s = <<List>> /\ c2s' = Tail(c2s)
      BY <1>2, <1>4 DEF ServerReads
    <3>2. Head(<<List>>) = List /\ Tail(<<List>>) = <<>> /\ <<List>> # <<>>
      BY Few
    <3>3. Head(c2s) = List /\ c2s' = <<>> /\ c2s # <<>>
      BY <3>1, <3>2, Zenon
    <3>4. pc \in {"sending_file_list", "reading_plan"} \/ Gone
      BY <1>1, <3>3 DEF Talk, Conversation, Opening
    <3> QED
      BY <3>1, <3>3, <3>4
  <2>2. Head(c2s).type = "file_list" /\ Head(c2s).body = setting.list_fits
    BY <2>1, Named
  <2>3. CASE /\ ~setting.list_fits /\ Drop(TRUE)
             /\ UNCHANGED <<s2c, told, faults>>
    <3>1. spc' = "ended" /\ ~server_open' /\ UNCHANGED <<s2c, told, faults>>
      BY <2>3 DEF Drop
    <3>2. Conversation'
      BY <1>1, <2>1, <2>3, <3>1, ServerKeeps
         DEF Talk, Conversation, Start, Opening, Working, Closing, IsAnswer
    <3>3. Heard'
      BY <1>1, <2>1, <2>3, <3>1, ServerKeeps DEF Talk, Heard
    <3>4. Smooth'
      BY <1>1, <2>1, <2>3, <3>1, ServerKeeps DEF Talk, Smooth
    <3> QED
      BY <3>2, <3>3, <3>4 DEF Spoken
  <2>4. CASE /\ setting.list_fits /\ ServerWrites("sync_plan", TRUE)
             /\ spc' = "sending_plan"
             /\ UNCHANGED <<server_open, told, faults>>
    <3>1. s2c' = <<Plan>> /\ (reset' <=> reset \/ pc = "over")
      BY <1>1, <2>4, Few DEF ServerWrites, ClientClosed, Plan
    <3>2. Conversation'
      BY <1>1, <1>2, <2>1, <2>4, <3>1, ServerKeeps
         DEF Talk, Conversation, Start, Opening, Working, Closing, IsAnswer
    <3>3. Heard'
      BY <1>1, <1>2, <2>1, <2>4, <3>1, ServerKeeps DEF Talk, Heard
    <3>4. Smooth'
      BY <1>1, <1>2, <2>1, <2>4, <3>1, ServerKeeps DEF Talk, Smooth
    <3> QED
      BY <3>2, <3>3, <3>4 DEF Spoken
  <2>5. CASE /\ write_error("Failed to read the directory")
             /\ faults' = faults \cup {"server"}
    <3>1. /\ told' = "Failed to read the directory" /\ spc' = "answered"
          /\ s2c' = <<Frame("error", setting.server, told')>>
          /\ server_open' = server_open /\ (reset' <=> reset \/ pc = "over")
      BY <1>1, <2>5, Few DEF write_error, ServerWrites, ClientClosed
    <3>2. Conversation'
      <4>1. told' # "none" /\ IsAnswer(s2c)'
        BY <1>1, <3>1, ServerKeeps DEF IsAnswer, Error
      <4>2. Start' /\ Opening' /\ Working' /\ Closing'
        BY <1>1, <2>1, <3>1, <4>1, ServerKeeps
           DEF Talk, Conversation, Start, Opening, Working, Closing
      <4> QED
        <5>1. server_open' <=> spc' \notin {"none", "ended"}
          BY <1>1, <3>1 DEF Talk, Conversation
        <5>2. c2s' = <<>> /\ Match'
          BY <1>1, <1>2, <2>1, ServerKeeps
        <5> QED
          BY <3>1, <4>1, <4>2, <5>1, <5>2 DEF Conversation
    <3>3. Heard'
      BY <1>1, <1>2, <2>1, <2>5, <3>1, ServerKeeps DEF Talk, Heard, Error, Gone
    <3>4. Smooth'
      BY <1>1, <1>2, <2>1, <2>5, <3>1, ServerKeeps DEF Talk, Smooth
    <3> QED
      BY <3>2, <3>3, <3>4 DEF Spoken
  <2> QED
    BY <1>4, <2>2, <2>3, <2>4, <2>5, Zenon DEF read_file_list, Details, Fault
<1> QED
  BY <1>3, <1>4, Zenon DEF read_file_list

LEMMA PlanSentTalk == ASSUME IInv, Talk, PlanSent PROVE Spoken'
<1>1. ServerStep /\ spc = "sending_plan" /\ UNCHANGED <<told, c2s, s2c, faults>>
  BY DEF ServerStep, PlanSent
<1>2. told = "none" /\ Match /\ pc \notin {"scan", "connect"}
  BY <1>1 DEF Talk, Conversation, Start
<1>3. CASE spc' = "reading_complete" /\ UNCHANGED <<server_open, reset>>
  <2>1. Conversation'
    BY <1>1, <1>2, <1>3, ServerKeeps
       DEF Talk, Conversation, Start, Opening, Working, Closing, IsAnswer
  <2>2. Heard'
    BY <1>1, <1>2, <1>3, ServerKeeps DEF Talk, Heard
  <2>3. Smooth'
    BY <1>1, <1>2, <1>3, ServerKeeps DEF Talk, Smooth
  <2> QED
    BY <2>1, <2>2, <2>3 DEF Spoken
<1>4. CASE reset /\ Drop(c2s # <<>>)
  <2>0. spc' = "ended" /\ ~server_open'
    BY <1>4 DEF Drop
  <2>9. s2c' = <<>> \/ s2c' = <<Plan>>
    BY <1>1 DEF Talk, Conversation, Working
  <2>1. Conversation'
    BY <1>1, <1>2, <1>4, <2>0, <2>9, ServerKeeps
       DEF Talk, Conversation, Start, Opening, Working, Closing, IsAnswer
  <2>2. Heard'
    BY <1>1, <1>2, <1>4, <2>0, <2>9, ServerKeeps DEF Talk, Heard
  <2>3. Smooth'
    BY <1>1, <1>2, <1>4, <2>0, <2>9, ServerKeeps DEF Talk, Smooth
  <2> QED
    BY <2>1, <2>2, <2>3 DEF Spoken
<1> QED
  BY <1>3, <1>4 DEF PlanSent

LEMMA CompleteTalk == ASSUME IInv, Talk, read_sync_complete PROVE Spoken'
<1>1. /\ ServerStep /\ spc = "reading_complete" /\ told = "none"
      /\ server_open /\ pc \notin {"scan", "connect"}
  BY DEF ServerStep, read_sync_complete, Talk, Conversation, Start
<1>2. Match /\ (c2s = <<>> \/ c2s = <<Good>> \/ c2s = <<Bad>>)
  BY <1>1 DEF Talk, Conversation, Working
<1>3. CASE ServerReadFails /\ UNCHANGED faults
  BY <1>1, <1>3, DropTalk
<1>4. CASE ServerReads /\ ~(ServerReadFails /\ UNCHANGED faults)
  <2>1. /\ c2s' = <<>> /\ s2c = <<>> /\ c2s # <<>>
        /\ Gone \/ pc \in {"sending_complete", "reading_ack"}
        /\ \/ c2s = <<Good>> /\ Head(c2s) = Good
           \/ c2s = <<Bad>> /\ Head(c2s) = Bad
    <3>1. c2s # <<>> /\ c2s' = Tail(c2s)
      BY <1>4 DEF ServerReads
    <3>2. /\ Head(<<Good>>) = Good /\ Tail(<<Good>>) = <<>>
          /\ Head(<<Bad>>) = Bad /\ Tail(<<Bad>>) = <<>>
      BY Few
    <3>3. s2c = <<>> /\ (Gone \/ pc \in {"sending_complete", "reading_ack"})
      BY <1>1, <3>1 DEF Talk, Conversation, Working
    <3>4. CASE c2s = <<Good>>
      BY <3>1, <3>2, <3>3, <3>4, Zenon
    <3>5. CASE c2s = <<Bad>>
      BY <3>1, <3>2, <3>3, <3>5, Zenon
    <3> QED
      BY <1>2, <3>1, <3>4, <3>5, Zenon
  <2>2. /\ Head(c2s).type = "sync_complete"
        /\ faults = {} /\ setting.list_fits => Head(c2s).body
    <3>1. Head(c2s).type = "sync_complete"
      BY <2>1, Named, Zenon
    <3>2. ASSUME faults = {}, setting.list_fits PROVE Head(c2s).body
      <4>1. ~Gone
        BY <1>1, <1>2, <3>2 DEF Talk, Smooth
      <4>2. c2s = <<Good>>
        BY <1>2, <2>1, <3>2, <4>1 DEF Talk, Smooth
      <4>3. <<Good>> # <<Bad>>
        <5>1. Good # Bad
          BY Named, Zenon
        <5> QED
          BY <5>1, Singletons
      <4>4. Head(c2s) = Good
        BY <2>1, <4>2, <4>3
      <4> QED
        BY <4>4, Named, Zenon
    <3> QED
      BY <3>1, <3>2
  <2>3. ASSUME NEW details \in Errors, write_error(details),
               faults' = {} => faults = {} /\ ~setting.list_fits,
               "connection" \notin faults' => "connection" \notin faults
        PROVE  Spoken'
    <3>1. /\ told' = details /\ told' # "none" /\ spc' = "answered"
          /\ s2c' = <<Frame("error", setting.server, told')>>
          /\ server_open' /\ (reset' <=> reset \/ pc = "over")
      BY <1>1, <2>1, <2>3, Few DEF write_error, ServerWrites, ClientClosed,
        Errors
    <3>2. Conversation'
      <4>1. IsAnswer(s2c)'
        BY <1>1, <3>1, ServerKeeps DEF IsAnswer, Error
      <4>2. Start' /\ Opening' /\ Working' /\ Closing'
        BY <1>1, <2>1, <3>1, <4>1, ServerKeeps
           DEF Talk, Conversation, Start, Opening, Working, Closing
      <4>3. c2s' = <<>> /\ Match'
        BY <1>1, <1>2, <2>1, ServerKeeps
      <4> QED
        BY <3>1, <4>1, <4>2, <4>3 DEF Conversation
    <3>3. Heard'
      BY <1>1, <1>2, <2>1, <2>3, <3>1, ServerKeeps DEF Talk, Heard, Error, Gone
    <3>4. Smooth'
      BY <1>1, <2>3, ServerKeeps DEF Smooth
    <3> QED
      BY <3>2, <3>3, <3>4 DEF Spoken
  <2>4. CASE /\ ~Head(c2s).body /\ UNCHANGED faults
             /\ write_error("Client reported unsuccessful sync")
    <3>1. "Client reported unsuccessful sync" \in Errors
      BY DEF Errors
    <3> QED
      BY <2>2, <2>3, <2>4, <3>1
  <2>5. CASE ServerWrites("sync_complete", TRUE) /\ spc' = "answered"
             /\ UNCHANGED <<told, server_open, faults>> /\ Head(c2s).body
    <3>1. s2c' = <<Complete>> /\ (reset' <=> reset \/ pc = "over")
      BY <1>1, <2>1, <2>5, Few DEF ServerWrites, ClientClosed, Complete
    <3>9. Good # Bad /\ Head(c2s) = Good
      BY <2>1, <2>5, Named, Zenon
    <3>2. Conversation'
      BY <1>1, <1>2, <2>1, <2>5, <3>1, ServerKeeps
         DEF Talk, Conversation, Start, Opening, Working, Closing, IsAnswer
    <3>3. Heard'
      BY <1>1, <1>2, <2>1, <2>5, <3>1, ServerKeeps DEF Talk, Heard, Gone
    <3>4. Smooth'
      BY <1>1, <1>2, <2>1, <2>5, <3>1, ServerKeeps DEF Talk, Smooth
    <3> QED
      BY <3>2, <3>3, <3>4 DEF Spoken
  <2>6. CASE write_error("Failed to remove a file") /\ faults' = faults \cup {"server"}
    <3>1. "Failed to remove a file" \in Errors
      BY DEF Errors
    <3> QED
      BY <2>3, <2>6, <3>1
  <2> QED
    BY <1>4, <2>2, <2>4, <2>5, <2>6, Zenon DEF read_sync_complete, Details,
        Fault
<1> QED
  BY <1>3, <1>4, Zenon DEF read_sync_complete

LEMMA AnswerTalk == ASSUME IInv, Talk, AnswerSent PROVE Spoken'
<1>1. /\ ServerStep /\ spc = "answered" /\ UNCHANGED <<told, c2s, s2c, faults>>
      /\ spc' = "ended" /\ ~server_open' /\ (reset' <=> reset \/ c2s # <<>>)
  BY DEF ServerStep, AnswerSent, Drop
<1>2. Match /\ pc \notin {"scan", "connect"} /\ c2s = <<>>
  BY <1>1 DEF Talk, Conversation, Start, Closing
<1>3. reset' <=> reset
  BY <1>1, <1>2
<1>4. Conversation'
  BY <1>1, <1>2, <1>3, ServerKeeps
     DEF Talk, Conversation, Start, Opening, Working, Closing, IsAnswer, Error
<1>5. Heard'
  BY <1>1, <1>2, <1>3, ServerKeeps DEF Talk, Heard, Error
<1>6. Smooth'
  BY <1>1, <1>2, <1>3, ServerKeeps DEF Talk, Smooth, Conversation, Closing,
                                          IsAnswer
<1> QED
  BY <1>4, <1>5, <1>6 DEF Spoken

LEMMA LoseTalk == ASSUME IInv, Talk, LoseConnection PROVE Spoken'
<1>1. /\ UNCHANGED <<setting, client, server, c2s, s2c, pool>> /\ reset'
      /\ server_open /\ faults' = faults \cup {"connection"}
  BY DEF LoseConnection, Fault
<1>2. /\ UNCHANGED <<pc, success, failure_reason, exit, results, spc, told, server_open>>
      /\ UNCHANGED <<Match, Hello, List, Good, Bad, Plan, Complete, Gone>>
  BY <1>1, FramesKept DEF client, server, pool, Gone
<1>3. Conversation'
  BY <1>1, <1>2
     DEF Talk, Conversation, Start, Opening, Working, Closing, IsAnswer, Error
<1>4. Heard'
  BY <1>1, <1>2 DEF Talk, Heard
<1>5. Smooth'
  BY <1>1, <1>2 DEF Talk, Smooth
<1> QED
  BY <1>3, <1>4, <1>5 DEF Spoken

LEMMA StutterTalk ==
    ASSUME Talk, UNCHANGED <<setting, pc, success, failure_reason, exit, results, faults>>,
           UNCHANGED <<server, wire>>
    PROVE  Spoken'
<1>1. /\ UNCHANGED <<spc, told, server_open, c2s, s2c, reset>>
      /\ UNCHANGED <<Match, Hello, List, Good, Bad, Plan, Complete, Gone, AllOk(results)>>
  BY FramesKept, AllOkKept DEF server, wire, Gone
<1>2. Conversation'
  BY <1>1
     DEF Talk, Conversation, Start, Opening, Working, Closing, IsAnswer, Error
<1>3. Heard'
  BY <1>1 DEF Talk, Heard, Error
<1>4. Smooth'
  BY <1>1 DEF Talk, Smooth
<1> QED
  BY <1>2, <1>3, <1>4 DEF Spoken

(* The client.                                                             *)
LEMMA ClientKeeps ==
    ASSUME ClientActs
    PROVE  /\ UNCHANGED <<setting, told>>
           /\ UNCHANGED <<Match, Hello, List, Good, Bad, Plan, Complete>>
<1>1. UNCHANGED <<setting, told>>
  BY Zenon DEF ClientActs, ClientStep, UploadStep, Scan, Connect,
               send_file_list, FileListSent, read_sync_plan,
    StartUpload, start_uploads, UploadDone, send_sync_complete, SyncCompleteSent,
    read_sync_complete_ack, Return, server
<1> QED
  BY <1>1, FramesKept

LEMMA ScanTalk == ASSUME IInv, Talk, Scan PROVE Spoken'
<1>1. /\ ClientActs /\ UNCHANGED <<spc, server_open, c2s, s2c, reset, results>>
      /\ pc = "scan" /\ spc = "none" /\ told = "none" /\ ~reset
      /\ UNCHANGED AllOk(results)
  BY AllOkKept
     DEF ClientActs, ClientStep, Scan, IInv, Waited, Talk, Conversation, Start,
         server, wire,
         pool
<1>2. \/ pc' = "connect" /\ UNCHANGED <<success, exit, faults>>
      \/ pc' = "over" /\ faults' # {}
  BY DEF Scan, GoesOn, Fault
<1>3. Conversation'
  BY <1>1, <1>2, ClientKeeps
     DEF Talk, Conversation, Start, Opening, Working, Closing, IsAnswer, Gone
<1>4. Heard'
  BY <1>1, <1>2, ClientKeeps DEF Talk, Heard, Conversation, Start
<1>5. Smooth'
  BY <1>1, <1>2, ClientKeeps DEF Talk, Smooth, Conversation, Start, Gone
<1> QED
  BY <1>3, <1>4, <1>5 DEF Spoken

LEMMA ConnectTalk == ASSUME IInv, Talk, Connect PROVE Spoken'
<1>1. /\ ClientActs /\ UNCHANGED <<s2c, reset, results>> /\ spc = "none"
      /\ told = "none" /\ ~reset /\ ~server_open /\ c2s = <<>> /\ s2c = <<>>
      /\ UNCHANGED <<exit, AllOk(results)>>
  BY AllOkKept DEF ClientActs, ClientStep, Connect, IInv, Waited, Talk,
                   Conversation, Start, pool
<1>2. \/ /\ pc' = "sending_hello" /\ UNCHANGED <<success, faults>>
         /\ c2s' = <<Hello>> /\ spc' = "backlog" /\ server_open'
      \/ /\ pc' = "stopped" /\ faults' # {}
         /\ UNCHANGED <<c2s, spc, server_open>>
  BY DEF Connect, GoesOn, fail, Fault, Hello
<1>3. Conversation'
  BY <1>1, <1>2, ClientKeeps
     DEF Talk, Conversation, Start, Opening, Working, Closing, IsAnswer, Gone
<1>4. Heard'
  BY <1>1, <1>2, ClientKeeps DEF Talk, Heard, Gone
<1>5. Smooth'
  BY <1>1, <1>2, ClientKeeps DEF Talk, Smooth, Gone
<1> QED
  BY <1>3, <1>4, <1>5 DEF Spoken

LEMMA SendFileListTalk == ASSUME IInv, Talk, send_file_list PROVE Spoken'
<1>1. /\ ClientActs /\ UNCHANGED <<spc, server_open, s2c, results, exit, faults>>
      /\ UNCHANGED AllOk(results)
  BY AllOkKept DEF ClientActs, ClientStep, send_file_list, ClientWrites,
                   server, pool, wire
<1>2. /\ pc = "sending_hello" /\ told = "none"
      /\ \/ spc \in {"backlog", "routing"} /\ c2s = <<Hello>> /\ s2c = <<>> /\ server_open
         \/ spc = "reading_file_list" /\ c2s = <<>> /\ s2c = <<>> /\ server_open
         \/ spc = "ended" /\ ~server_open
  BY DEF send_file_list, Talk, Kinds, Conversation, Start, Opening, Working,
         Closing, Gone
<1>3. CASE GoesOn("sending_file_list") /\ ClientWrites("file_list", setting.list_fits)
  <2>1. /\ pc' = "sending_file_list" /\ UNCHANGED success
        /\ c2s' = IF server_open THEN Append(c2s, List) ELSE c2s
        /\ reset' <=> reset \/ ~server_open
    BY <1>3 DEF GoesOn, ClientWrites, List
  <2>2. /\ spc \in {"backlog", "routing"} => c2s' = <<Hello, List>>
        /\ spc = "reading_file_list" => c2s' = <<List>>
        /\ spc = "ended" => c2s' = c2s
    <3>1. Append(<<>>, List) = <<List>> /\ Append(<<Hello>>, List) = <<Hello, List>>
      BY Few
    <3> QED
      BY <1>2, <2>1, <3>1
  <2>3. Conversation'
    BY <1>1, <1>2, <2>1, <2>2, ClientKeeps
       DEF Talk, Conversation, Start, Opening, Working, Closing, IsAnswer, Gone
  <2>4. Heard'
    BY <1>1, <1>2, <2>1, <2>2, ClientKeeps DEF Talk, Heard, Gone
  <2>5. Smooth'
    BY <1>1, <1>2, <2>1, <2>2, ClientKeeps DEF Talk, Smooth, Gone
  <2> QED
    BY <2>3, <2>4, <2>5 DEF Spoken
<1>4. CASE reset /\ fail("Failed to send Hello") /\ UNCHANGED wire
  <2>1. pc' = "stopped" /\ UNCHANGED <<c2s, reset>>
    BY <1>4 DEF fail, wire
  <2>2. Conversation'
    BY <1>1, <1>2, <1>4, <2>1, ClientKeeps
       DEF Talk, Conversation, Start, Opening, Working, Closing, IsAnswer, Gone
  <2>3. Heard'
    BY <1>1, <1>2, <1>4, <2>1, ClientKeeps DEF Talk, Heard, Gone
  <2>4. Smooth'
    BY <1>1, <1>2, <1>4, <2>1, ClientKeeps DEF Talk, Smooth, Gone
  <2> QED
    BY <2>2, <2>3, <2>4 DEF Spoken
<1> QED
  BY <1>3, <1>4, Zenon DEF send_file_list

LEMMA FileListSentTalk == ASSUME IInv, Talk, FileListSent PROVE Spoken'
<1>1. /\ ClientActs /\ UNCHANGED <<spc, server_open, s2c, c2s, reset, results, exit, faults>>
      /\ UNCHANGED AllOk(results) /\ pc = "sending_file_list"
  BY AllOkKept DEF ClientActs, ClientStep, FileListSent, server, pool, wire
<1>2. CASE GoesOn("reading_plan")
  <2>1. pc' = "reading_plan" /\ UNCHANGED success
    BY <1>2 DEF GoesOn
  <2>2. Conversation'
    BY <1>1, <2>1, ClientKeeps
       DEF Talk, Conversation, Start, Opening, Working, Closing, IsAnswer,
           Gone, Error
  <2>3. Heard'
    BY <1>1, <2>1, ClientKeeps DEF Talk, Heard, Gone, Error
  <2>4. Smooth'
    BY <1>1, <2>1, ClientKeeps DEF Talk, Smooth, Gone
  <2> QED
    BY <2>2, <2>3, <2>4 DEF Spoken
<1>3. CASE reset /\ fail("Failed to send FileList")
  <2>1. pc' = "stopped"
    BY <1>3 DEF fail
  <2>2. Conversation'
    BY <1>1, <1>3, <2>1, ClientKeeps
       DEF Talk, Conversation, Start, Opening, Working, Closing, IsAnswer,
           Gone, Error
  <2>3. Heard'
    BY <1>1, <1>3, <2>1, ClientKeeps DEF Talk, Heard, Conversation, Gone, Error
  <2>4. Smooth'
    BY <1>1, <1>3, <2>1, ClientKeeps DEF Talk, Smooth, Gone
  <2> QED
    BY <2>2, <2>3, <2>4 DEF Spoken
<1> QED
  BY <1>2, <1>3 DEF FileListSent

(* What arrives at the client, and when nothing does.                      *)
LEMMA TakeTalk ==
    ASSUME Talk, NEW frame \in FirstFrame, TakeFrame
    PROVE  /\ s2c' = <<>> /\ UNCHANGED <<c2s, reset>>
           /\ \/ s2c = <<Plan>> /\ frame = Plan
              \/ told = "none" /\ s2c = <<Complete>> /\ frame = Complete
              \/ told # "none" /\ s2c = <<Error(told)>> /\ frame = Error(told)
<1>1. s2c # <<>> /\ frame = s2c[1] /\ s2c' = Tail(s2c) /\ UNCHANGED <<c2s, reset>>
  BY DEF FirstFrame, TakeFrame
<1>2. ASSUME NEW x, s2c = <<x>> PROVE s2c' = <<>> /\ frame = x
  <2>1. Tail(<<x>>) = <<>> /\ <<x>>[1] = x
    BY Few
  <2> QED
    BY <1>1, <1>2, <2>1, Zenon
<1>3. CASE s2c = <<Plan>>
  BY <1>1, <1>2, <1>3, Zenon
<1>4. CASE told = "none" /\ s2c = <<Complete>>
  BY <1>1, <1>2, <1>4, Zenon
<1>5. CASE told # "none" /\ s2c = <<Error(told)>>
  BY <1>1, <1>2, <1>5, Zenon
<1> QED
  BY <1>1, <1>3, <1>4, <1>5, Zenon DEF Talk, Conversation, IsAnswer

LEMMA FailsTalk ==
    ASSUME Talk, ClientReadFails
    PROVE  /\ UNCHANGED <<c2s, s2c, reset>>
           /\ reset \/ (s2c = <<>> /\ ~server_open) \/ (s2c # <<>> /\ ~Match)
<1>1. UNCHANGED <<c2s, s2c, reset>>
  BY DEF ClientReadFails, wire
<1>2. CASE s2c # <<>> /\ Head(s2c).version # setting.client
  <2>1. Head(s2c).version = setting.server
    <3>1. ASSUME NEW x, s2c = <<x>>, x.version = setting.server
          PROVE  Head(s2c).version = setting.server
      <4>1. Head(<<x>>) = x
        BY Few
      <4> QED
        BY <3>1, <4>1, Zenon
    <3>2. s2c = <<Plan>> \/ s2c = <<Complete>> \/ s2c = <<Error(told)>>
      BY <1>2, Zenon DEF Talk, Conversation, IsAnswer
    <3> QED
      BY <3>1, <3>2, Named, Zenon
  <2> QED
    BY <1>1, <1>2, <2>1 DEF Match
<1> QED
  BY <1>1, <1>2, Zenon DEF ClientReadFails

(* The frames differ.                                                      *)
LEMMA Apart ==
    /\ <<Plan>> # <<Complete>> /\ <<Plan>> # <<Error(told)>>
    /\ <<Complete>> # <<Error(told)>>
    /\ <<Plan>> # <<>> /\ <<Complete>> # <<>> /\ <<Error(told)>> # <<>>
<1>1. Plan # Complete /\ Plan # Error(told) /\ Complete # Error(told)
  BY Named, Zenon
<1> QED
  BY <1>1

LEMMA ReadPlanTalk == ASSUME IInv, Talk, read_sync_plan PROVE Spoken'
<1>1. /\ ClientActs /\ UNCHANGED <<spc, server_open, results, exit, faults>>
      /\ UNCHANGED AllOk(results) /\ pc = "reading_plan"
  <2>1. ClientActs /\ UNCHANGED <<spc, server_open, exit, faults>> /\ pc = "reading_plan"
    BY DEF ClientActs, ClientStep, read_sync_plan, server
  <2>2. UNCHANGED pool \/ Pool!Run
    BY Zenon DEF read_sync_plan
  <2>3. UNCHANGED results
    BY <2>2 DEF pool, Pool!Run
  <2> QED
    BY <2>1, <2>3, AllOkKept
<1>2. CASE ClientReadFails /\ fail("Failed to read SyncPlan")
  <2>1. /\ UNCHANGED <<c2s, s2c, reset>> /\ pc' = "stopped"
        /\ reset \/ (s2c = <<>> /\ ~server_open) \/ (s2c # <<>> /\ ~Match)
    BY <1>2, FailsTalk DEF fail
  <2>2. Conversation'
    BY <1>1, <2>1, ClientKeeps, Apart
       DEF Talk, Conversation, Start, Opening, Working, Closing,
           IsAnswer, Gone, Error
  <2>3. Heard'
    BY <1>1, <2>1, ClientKeeps, Apart
       DEF Talk, Kinds, Heard, Conversation, Start, Opening, Working, Closing,
           IsAnswer, Gone, Error
  <2>4. Smooth'
    BY <1>1, <2>1, ClientKeeps, Apart
       DEF Talk, Kinds, Smooth, Conversation, Start, Opening, Working, Closing,
           IsAnswer, Gone
  <2> QED
    BY <2>2, <2>3, <2>4 DEF Spoken
<1>3. ASSUME NEW frame \in FirstFrame, TakeFrame,
             \/ frame.type # "sync_plan"
                /\ fail(IF frame.type = "error" THEN frame.body
                        ELSE "Unexpected control response")
             \/ frame.type = "sync_plan" /\ GoesOn("starting_uploads")
      PROVE  Spoken'
  <2>1. /\ s2c' = <<>> /\ UNCHANGED <<c2s, reset>>
        /\ \/ /\ s2c = <<Plan>> /\ pc' = "starting_uploads" /\ UNCHANGED success
           \/ /\ told = "none" /\ s2c = <<Complete>> /\ pc' = "stopped"
           \/ /\ told # "none" /\ s2c = <<Error(told)>> /\ pc' = "stopped"
              /\ failure_reason' = told
    <3>1. /\ s2c' = <<>> /\ UNCHANGED <<c2s, reset>>
          /\ \/ s2c = <<Plan>> /\ frame = Plan
             \/ told = "none" /\ s2c = <<Complete>> /\ frame = Complete
             \/ told # "none" /\ s2c = <<Error(told)>> /\ frame = Error(told)
      BY <1>3, TakeTalk
    <3>2. CASE s2c = <<Plan>> /\ frame = Plan
      <4>1. frame.type = "sync_plan"
        BY <3>2, Named
      <4> QED
        BY <1>3, <3>1, <3>2, <4>1 DEF GoesOn
    <3>3. CASE told = "none" /\ s2c = <<Complete>> /\ frame = Complete
      <4>1. frame.type = "sync_complete"
        BY <3>3, Named
      <4> QED
        BY <1>3, <3>1, <3>3, <4>1 DEF fail
    <3>4. CASE told # "none" /\ s2c = <<Error(told)>> /\ frame = Error(told)
      <4>1. frame.type = "error" /\ frame.body = told
        BY <3>4, Named
      <4> QED
        BY <1>3, <3>1, <3>4, <4>1 DEF fail
    <3> QED
      BY <3>1, <3>2, <3>3, <3>4, Zenon
  <2>2. Conversation'
    BY <1>1, <2>1, ClientKeeps, Apart
       DEF Talk, Conversation, Start, Opening, Working, Closing,
           IsAnswer, Gone, Error
  <2>3. Heard'
    BY <1>1, <2>1, ClientKeeps, Apart
       DEF Talk, Kinds, Heard, Conversation, Start, Opening, Working, Closing,
           IsAnswer, Gone, Error
  <2>4. Smooth'
    BY <1>1, <2>1, ClientKeeps, Apart
       DEF Talk, Kinds, Smooth, Conversation, Start, Opening, Working, Closing,
           IsAnswer, Gone
  <2> QED
    BY <2>2, <2>3, <2>4 DEF Spoken
<1> QED
  BY <1>2, <1>3, Zenon DEF read_sync_plan

LEMMA ReadAckTalk == ASSUME IInv, Talk, read_sync_complete_ack PROVE Spoken'
<1>1. /\ ClientActs /\ UNCHANGED <<spc, server_open, results, exit, faults>>
      /\ UNCHANGED AllOk(results) /\ pc = "reading_ack"
  BY AllOkKept DEF ClientActs, ClientStep, read_sync_complete_ack, server, pool
<1>2. CASE ClientReadFails /\ fail("Failed to read sync completion ack")
  <2>1. /\ UNCHANGED <<c2s, s2c, reset>> /\ pc' = "stopped"
        /\ reset \/ (s2c = <<>> /\ ~server_open) \/ (s2c # <<>> /\ ~Match)
    BY <1>2, FailsTalk DEF fail
  <2>2. Conversation'
    BY <1>1, <2>1, ClientKeeps, Apart
       DEF Talk, Conversation, Start, Opening, Working, Closing,
           IsAnswer, Gone, Error
  <2>3. Heard'
    BY <1>1, <2>1, ClientKeeps, Apart
       DEF Talk, Kinds, Heard, Conversation, Start, Opening, Working, Closing,
           IsAnswer, Gone, Error
  <2>4. Smooth'
    BY <1>1, <2>1, ClientKeeps, Apart
       DEF Talk, Kinds, Smooth, Conversation, Start, Opening, Working, Closing,
           IsAnswer, Gone
  <2> QED
    BY <2>2, <2>3, <2>4 DEF Spoken
<1>3. ASSUME NEW frame \in FirstFrame, TakeFrame,
             \/ frame.type # "sync_complete"
                /\ fail(IF frame.type = "error" THEN frame.body
                        ELSE "Unexpected final control frame")
             \/ frame.type = "sync_complete"
                /\ success' = (success /\ frame.body) /\ pc' = "stopped"
      PROVE  Spoken'
  <2>1. /\ s2c' = <<>> /\ UNCHANGED <<c2s, reset>> /\ pc' = "stopped"
        /\ \/ /\ s2c = <<Plan>>
           \/ /\ told = "none" /\ s2c = <<Complete>> /\ (success' <=> success)
           \/ /\ told # "none" /\ s2c = <<Error(told)>> /\ failure_reason' = told
    <3>1. /\ s2c' = <<>> /\ UNCHANGED <<c2s, reset>>
          /\ \/ s2c = <<Plan>> /\ frame = Plan
             \/ told = "none" /\ s2c = <<Complete>> /\ frame = Complete
             \/ told # "none" /\ s2c = <<Error(told)>> /\ frame = Error(told)
      BY <1>3, TakeTalk
    <3>2. CASE s2c = <<Plan>> /\ frame = Plan
      BY <1>3, <3>1, <3>2 DEF fail
    <3>3. CASE told = "none" /\ s2c = <<Complete>> /\ frame = Complete
      <4>1. frame.type = "sync_complete" /\ frame.body = TRUE
        BY <3>3, Named
      <4> QED
        BY <1>3, <3>1, <3>3, <4>1 DEF fail
    <3>4. CASE told # "none" /\ s2c = <<Error(told)>> /\ frame = Error(told)
      <4>1. frame.type = "error" /\ frame.body = told
        BY <3>4, Named
      <4> QED
        BY <1>3, <3>1, <3>4, <4>1 DEF fail
    <3> QED
      BY <3>1, <3>2, <3>3, <3>4, Zenon
  <2>2. Conversation'
    BY <1>1, <2>1, ClientKeeps, Apart
       DEF Talk, Conversation, Start, Opening, Working, Closing,
           IsAnswer, Gone, Error
  <2>3. Heard'
    BY <1>1, <2>1, ClientKeeps, Apart
       DEF Talk, Kinds, Heard, Conversation, Start, Opening, Working, Closing,
           IsAnswer, Gone, Error
  <2>4. Smooth'
    BY <1>1, <2>1, ClientKeeps, Apart
       DEF Talk, Kinds, Smooth, Conversation, Start, Opening, Working, Closing,
           IsAnswer, Gone
  <2> QED
    BY <2>2, <2>3, <2>4 DEF Spoken
<1> QED
  BY <1>2, <1>3, Zenon DEF read_sync_complete_ack

LEMMA StartTalk == ASSUME IInv, Talk, start_uploads PROVE Spoken'
<1>1. /\ ClientActs
      /\ UNCHANGED <<spc, server_open, results, exit, c2s, s2c, reset, AllOk(results)>>
      /\ pc = "starting_uploads"
  BY AllOkKept DEF ClientActs, ClientStep, start_uploads, server, wire, pool
<1>2. \/ pc' = "uploading" /\ UNCHANGED <<success, faults>>
      \/ /\ pc' = "stopped" /\ faults' # {}
         /\ "connection" \notin faults' => "connection" \notin faults
  BY DEF start_uploads, GoesOn, fail, Fault
<1>3. Conversation'
  BY <1>1, <1>2, ClientKeeps
     DEF Talk, Conversation, Start, Opening, Working, Closing, IsAnswer, Gone,
         Error
<1>4. Heard'
  BY <1>1, <1>2, ClientKeeps
     DEF Talk, Heard, Kinds, Conversation, Start, Opening, Working, Closing,
         IsAnswer, Gone, Error
<1>5. Smooth'
  BY <1>1, <1>2, ClientKeeps
     DEF Talk, Smooth, Kinds, Conversation, Start, Opening, Working, Closing,
         IsAnswer, Gone
<1> QED
  BY <1>3, <1>4, <1>5 DEF Spoken

LEMMA DoneTalk ==
    ASSUME IInv, Talk, NEW t \in Pool!Task, NEW ok \in BOOLEAN, UploadDone(t, ok)
    PROVE  Spoken'
<1>1. /\ ClientActs /\ UNCHANGED <<spc, server_open, exit, c2s, s2c, reset>>
      /\ UNCHANGED <<pc, success, failure_reason, exit>> /\ pc = "uploading"
  BY DEF ClientActs, ClientStep, UploadStep, UploadDone, server, wire, client
<1>2. /\ "connection" \notin faults' => "connection" \notin faults
      /\ faults' = {} => faults = {} /\ ok
  BY DEF UploadDone, Fault
<1>3. ASSUME AllOk(results), ok PROVE AllOk(results)'
  <2> DEFINE report == [task |-> t, ok |-> ok]
  <2>1. results \in Seq(P!UploadResult) /\ report \in P!UploadResult
    BY DEF IInv, P!IInv, P!TypeOK, P!UploadResult, P!Task, Pool!Task
  <2>2. results' = Append(results, report)
    BY DEF UploadDone, Pool!OnDone, Pool!launch_next
  <2>3. report.ok
    BY <1>3
  <2> HIDE DEF report
  <2>4. /\ DOMAIN results' = DOMAIN results \cup {Len(results) + 1}
        /\ \A i \in DOMAIN results : results'[i] = results[i]
        /\ results'[Len(results) + 1] = report
    BY <2>1, <2>2
  <2> QED
    BY <1>3, <2>3, <2>4 DEF AllOk
<1>4. Conversation'
  BY <1>1, <1>2, <1>3, ClientKeeps
     DEF Talk, Conversation, Start, Opening, Working, Closing, IsAnswer, Gone,
         Error
<1>5. Heard'
  BY <1>1, <1>2, <1>3, ClientKeeps
     DEF Talk, Heard, Kinds, Conversation, Start, Opening, Working, Closing,
         IsAnswer, Gone, Error
<1>6. Smooth'
  BY <1>1, <1>2, <1>3, ClientKeeps
     DEF Talk, Smooth, Kinds, Conversation, Start, Opening, Working, Closing,
         IsAnswer, Gone
<1> QED
  BY <1>4, <1>5, <1>6 DEF Spoken

LEMMA ReportTalk == ASSUME IInv, Talk, send_sync_complete PROVE Spoken'
<1>1. /\ ClientActs /\ UNCHANGED <<spc, server_open, results, exit, s2c, faults>>
      /\ UNCHANGED AllOk(results) /\ pc = "uploading" /\ pc' = "sending_complete"
  BY AllOkKept DEF ClientActs, ClientStep, send_sync_complete, ClientWrites,
                   server, pool
<1>2. /\ success' <=> success /\ AllOk(results)
      /\ success' \in BOOLEAN
      /\ reset' <=> reset \/ ~server_open
      /\ c2s' = IF server_open
                THEN Append(c2s, Frame("sync_complete", setting.client, success')) ELSE c2s
  BY DEF send_sync_complete, ClientWrites, IInv, Typed
<1>3. /\ told = "none"
      /\ \/ /\ spc \in {"sending_plan", "reading_complete"} /\ server_open
            /\ c2s = <<>> /\ s2c = <<>>
         \/ spc = "ended" /\ ~server_open
  BY <1>1 DEF Talk, Kinds, Conversation, Start, Opening, Working, Closing, Gone
<1>4. /\ server_open => c2s' = IF success' THEN <<Good>> ELSE <<Bad>>
      /\ ~server_open => c2s' = c2s
  <2>1. Append(<<>>, Good) = <<Good>> /\ Append(<<>>, Bad) = <<Bad>>
    BY Few
  <2>2. CASE success' = TRUE
    BY <1>2, <1>3, <2>1, <2>2 DEF Good
  <2>3. CASE success' = FALSE
    BY <1>2, <1>3, <2>1, <2>3 DEF Bad
  <2> QED
    BY <1>2, <2>2, <2>3
<1>5. Conversation'
  BY <1>1, <1>2, <1>3, <1>4, ClientKeeps
     DEF Talk, Conversation, Start, Opening, Working, Closing, IsAnswer, Gone,
         Error
<1>6. Heard'
  BY <1>1, <1>2, <1>3, <1>4, ClientKeeps
     DEF Talk, Heard, Kinds, Conversation, Start, Opening, Working, Closing,
         IsAnswer, Gone, Error
<1>7. Smooth'
  BY <1>1, <1>2, <1>3, <1>4, ClientKeeps
     DEF Talk, Smooth, Kinds, Conversation, Start, Opening, Working, Closing,
         IsAnswer, Gone
<1> QED
  BY <1>5, <1>6, <1>7 DEF Spoken

LEMMA ReportSentTalk == ASSUME IInv, Talk, SyncCompleteSent PROVE Spoken'
<1>1. /\ ClientActs /\ UNCHANGED <<spc, server_open, s2c, c2s, reset, results, exit, faults>>
      /\ UNCHANGED AllOk(results) /\ pc = "sending_complete"
  BY AllOkKept DEF ClientActs, ClientStep, SyncCompleteSent, server, pool, wire
<1>2. CASE GoesOn("reading_ack")
  <2>1. pc' = "reading_ack" /\ UNCHANGED success
    BY <1>2 DEF GoesOn
  <2>2. Conversation'
    BY <1>1, <2>1, ClientKeeps
       DEF Talk, Conversation, Start, Opening, Working, Closing, IsAnswer,
           Gone, Error
  <2>3. Heard'
    BY <1>1, <2>1, ClientKeeps
       DEF Talk, Heard, Kinds, Conversation, Start, Opening, Working, Closing,
           IsAnswer, Gone, Error
  <2>4. Smooth'
    BY <1>1, <2>1, ClientKeeps
       DEF Talk, Smooth, Kinds, Conversation, Start, Opening, Working, Closing,
           IsAnswer, Gone
  <2> QED
    BY <2>2, <2>3, <2>4 DEF Spoken
<1>3. CASE reset /\ fail("Failed to send SyncComplete")
  <2>1. pc' = "stopped"
    BY <1>3 DEF fail
  <2>2. Conversation'
    BY <1>1, <1>3, <2>1, ClientKeeps
       DEF Talk, Conversation, Start, Opening, Working, Closing, IsAnswer,
           Gone, Error
  <2>3. Heard'
    BY <1>1, <1>3, <2>1, ClientKeeps
       DEF Talk, Heard, Kinds, Conversation, Start, Opening, Working, Closing,
           IsAnswer, Gone, Error
  <2>4. Smooth'
    BY <1>1, <1>3, <2>1, ClientKeeps
       DEF Talk, Smooth, Kinds, Conversation, Start, Opening, Working, Closing,
           IsAnswer, Gone
  <2> QED
    BY <2>2, <2>3, <2>4 DEF Spoken
<1> QED
  BY <1>2, <1>3 DEF SyncCompleteSent

LEMMA ReturnTalk == ASSUME IInv, Talk, Return PROVE Spoken'
<1>1. /\ ClientActs /\ UNCHANGED <<spc, server_open, s2c, c2s, results, faults>>
      /\ UNCHANGED <<success, failure_reason>>
      /\ UNCHANGED AllOk(results) /\ pc' = "over"
      /\ exit' = IF success THEN "ok" ELSE "failed"
      /\ reset' <=> reset \/ s2c # <<>>
  BY AllOkKept DEF ClientActs, ClientStep, Return, server, pool
<1>2. pc = "stopped"
  BY DEF Return, IInv, Waited
<1>3. Conversation'
  BY <1>1, <1>2, ClientKeeps
     DEF Talk, Conversation, Start, Opening, Working, Closing, IsAnswer, Gone,
         Error
<1>4. Heard'
  BY <1>1, <1>2, ClientKeeps
     DEF Talk, Heard, Kinds, Conversation, Start, Opening, Working, Closing,
         IsAnswer, Gone, Error
<1>5. Smooth'
  BY <1>1, <1>2, ClientKeeps
     DEF Talk, Smooth, Kinds, Conversation, Start, Opening, Working, Closing,
         IsAnswer, Gone
<1> QED
  BY <1>3, <1>4, <1>5 DEF Spoken

LEMMA TalkStep == ASSUME IInv, Talk, [Next]_vars PROVE Talk'
<1>1. Flags' /\ Kinds'
  BY FlagsStep, KindsStep DEF Talk
<1> SUFFICES Spoken'
  BY <1>1 DEF Talk, Spoken
<1>2. CASE ClientActs
  <2>1. CASE StartUpload
    <3>1. UNCHANGED results
      BY <2>1 DEF StartUpload, Pool!RunLoop, Pool!launch_next
    <3> QED
      BY <2>1, <3>1, StutterTalk DEF StartUpload, client
  <2> QED
    BY <1>2, <2>1, ScanTalk, ConnectTalk, SendFileListTalk, FileListSentTalk, ReadPlanTalk,
       StartTalk, DoneTalk, ReportTalk, ReportSentTalk, ReadAckTalk, ReturnTalk
        DEF ClientActs, ClientStep, UploadStep
<1>3. CASE HelperPosts
  BY <1>3, StutterTalk DEF HelperPosts, pool
<1>4. CASE ServerStep
  BY <1>4, AcceptTalk, RouteTalk, FileListTalk, PlanSentTalk, CompleteTalk, AnswerTalk
     DEF ServerStep
<1>5. CASE LoseConnection
  BY <1>5, LoseTalk
<1>6. CASE UNCHANGED vars
  BY <1>6, StutterTalk DEF vars, client, pool
<1> QED
  BY <1>2, <1>3, <1>4, <1>5, <1>6 DEF Next, ClientActs

LEMMA InitTalk == ASSUME Init PROVE Talk
<1>1. Flags /\ Kinds
  BY DEF Init, Flags, Kinds, make_work_guard
<1>2. Conversation
  BY DEF Init, Conversation, Start, Opening, Working, Closing
<1>3. AllOk(results)
  BY DEF Init, Pool!Init, AllOk
<1>4. Heard /\ Smooth
  BY <1>3 DEF Init, Heard, Smooth, Gone
<1> QED
  BY <1>1, <1>2, <1>4 DEF Talk

LEMMA TalkInvariant == Spec => [](IInv /\ Talk)
BY InitInv, StepInv, InitTalk, TalkStep, PTL DEF Spec

(* The types (TypeOK), and with them: never more than two frames are on    *)
(* their way to the server, and never more than one to the client.         *)
THEOREM TypeCorrect == Spec => []TypeOK
<1>1. ASSUME IInv, Talk PROVE TypeOK
  <2>1. Pool!TypeOK
    BY <1>1 DEF IInv, P!IInv, P!TypeOK, Pool!TypeOK, P!Concurrency,
                Pool!Concurrency,
                P!Task, Pool!Task, P!UploadResult, Pool!UploadResult
  <2>2. Len(c2s) <= 2
    <3>1. ASSUME NEW x PROVE Len(<<>>) <= 2 /\ Len(<<x>>) <= 2 /\ Len(<<Hello, x>>) <= 2
      OBVIOUS
    <3> QED
      BY <1>1, <3>1, Zenon DEF Talk, Conversation
  <2>3. Len(s2c) <= 1
    <3>1. ASSUME NEW x PROVE Len(<<>>) <= 1 /\ Len(<<x>>) <= 1
      OBVIOUS
    <3> QED
      BY <1>1, <3>1, Zenon DEF Talk, Conversation, IsAnswer
  <2> QED
    BY <1>1, <2>1, <2>2, <2>3 DEF Talk, Flags, Kinds, IInv, Typed, TypeOK
<1> QED
  BY <1>1, TalkInvariant, PTL

(* An Error of the server that no fault of the network destroys is what    *)
(* the client fails with (ErrorTold): it is never overtaken by a reset.    *)
THEOREM ErrorToldHolds == Spec => []ErrorTold
<1>1. ASSUME IInv, Talk PROVE ErrorTold
  BY <1>1 DEF IInv, Waited, Talk, Heard, Gone, ErrorTold
<1> QED
  BY <1>1, TalkInvariant, PTL

(* When nothing fails, the builds match and the list is within the limit,  *)
(* run() returns 0 (UndisturbedSucceeds).                                  *)
THEOREM UndisturbedSucceedsHolds == Spec => []UndisturbedSucceeds
<1>1. ASSUME IInv, Talk PROVE UndisturbedSucceeds
  BY <1>1 DEF Talk, Kinds, Smooth, Match, UndisturbedSucceeds
<1> QED
  BY <1>1, TalkInvariant, PTL
=============================================================================

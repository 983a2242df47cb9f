----------------------------- MODULE SyncClient -----------------------------
(***************************************************************************)
(* One run of the client and the server's session for it: class SyncClient *)
(* of src/src/client/client_app.cpp with its pool of uploads and its       *)
(* helper thread, and Server's accept and routing and class ControlSession *)
(* of src/src/server/server_app.cpp, joined by the control connection.     *)
(*                                                                         *)
(* The client's io_context is run by the thread that called run(): one     *)
(* handler at a time.  The helper thread blocks in future.get() and posts  *)
(* the results to the io_context.  While uploads run, no operation waits   *)
(* on the control connection.                                              *)
(*                                                                         *)
(* A frame is its type, its version and the one thing about its contents   *)
(* that a handler looks at; module Framing has its bytes and module        *)
(* Protocol those of its payload.  What the server does to the files is    *)
(* module MyDrive's.                                                       *)
(***************************************************************************)
EXTENDS Naturals, Sequences, FiniteSets

CONSTANTS QueueSizes,      \* how many files a plan may name
          MaxConnections,  \* ClientConfig::max_connections
          Versions         \* kProtocolVersion of the builds there are

ASSUME QueueSizesAssumption == QueueSizes \subseteq Nat
ASSUME MaxConnectionsAssumption == MaxConnections \in Nat \ {0}
ASSUME VersionsAssumption == Versions \subseteq Nat

VARIABLES
    setting,         \* the builds' versions, and whether the FileList is within the limit
    pc,              \* the client: the operation whose handler comes next
    success,         \* SyncClient::success_
    failure_reason,  \* SyncClient::failure_reason_
    work_guard,      \* SyncClient::work_guard_ keeps the io_context running
    helper,          \* the helper thread: "none", "waiting", "posted" or "done"
    exit,            \* what run() has returned: "none", "ok" (0) or "failed" (1)
    spc,             \* the server's session: the operation whose handler comes next
    cleanup,         \* remove_missing_server_files: "none", "partial" or "done"
    told,            \* history: the details of the Error the server has written
    c2s, s2c,        \* frames on the control connection
    server_open,     \* the server's socket
    reset,           \* the connection has been reset, or will be by what is unread
    faults,          \* history: what has gone wrong by itself
    queue_size, started, to_launch, next_index, in_flight, active, results, promise

pool == <<queue_size, started, to_launch, next_index, in_flight, active, results,
          promise>>
client == <<pc, success, failure_reason, work_guard, helper, exit>>
server == <<spc, cleanup, told, server_open>>
wire == <<c2s, s2c, reset>>

vars == <<setting, client, server, wire, faults, pool>>

Pool == INSTANCE UploadManager

Frame(type, version, body) == [type |-> type, version |-> version, body |-> body]

(* Slip: without the work guard.                                           *)
work_guard_never == FALSE

(* work_guard_(make_work_guard(io_context_)).                              *)
make_work_guard == TRUE

Init ==
    /\ setting \in [client : Versions, server : Versions, list_fits : BOOLEAN]
    /\ pc = "scan" /\ success = TRUE /\ failure_reason = "none"
    /\ work_guard = make_work_guard /\ helper = "none" /\ exit = "none"
    /\ spc = "none" /\ cleanup = "none" /\ told = "none" /\ server_open = FALSE
    /\ c2s = <<>> /\ s2c = <<>> /\ reset = FALSE
    /\ faults = {}
    /\ Pool!Init

Fault(kind) == faults' = faults \cup {kind}

-----------------------------------------------------------------------------
(* The client.                                                             *)

(* SyncClient::fail.                                                       *)
fail(reason) ==
    /\ success' = FALSE /\ failure_reason' = reason
    /\ work_guard' = FALSE /\ pc' = "stopped"

(* async_write_message: what is sent to a closed socket is answered by a   *)
(* reset.                                                                  *)
ClientWrites(type, body) ==
    /\ c2s' = IF server_open
              THEN Append(c2s, Frame(type, setting.client, body)) ELSE c2s
    /\ reset' = (reset \/ ~server_open)
    /\ UNCHANGED s2c

(* A handler of the client that does not fail goes on to pc' = next.       *)
GoesOn(next) ==
    pc' = next /\ UNCHANGED <<success, failure_reason, work_guard>>

(* run(): the scan may throw, and main() then ends with 1.                 *)
Scan ==
    /\ pc = "scan"
    /\ \/ GoesOn("connect") /\ UNCHANGED <<exit, faults>>
       \/ GoesOn("over") /\ exit' = "failed" /\ Fault("scan")
    /\ UNCHANGED <<setting, helper, server, wire, pool>>

(* async_connect, resolver included, and send_hello().                     *)
Connect ==
    /\ pc = "connect"
    /\ \/ /\ GoesOn("sending_hello")
          /\ c2s' = <<Frame("hello", setting.client, setting.client)>>
          /\ spc' = "backlog" /\ server_open' = TRUE
          /\ UNCHANGED faults
       \/ /\ fail("Failed to connect control socket")
          /\ Fault("connect")
          /\ UNCHANGED <<c2s, spc, server_open>>
    /\ UNCHANGED <<setting, helper, exit, cleanup, told, s2c, reset, pool>>

(* The handlers of the writes; a write that has succeeded has only reached *)
(* the socket.                                                             *)
send_file_list ==
    /\ pc = "sending_hello"
    /\ \/ GoesOn("sending_file_list") /\ ClientWrites("file_list", setting.list_fits)
       \/ reset /\ fail("Failed to send Hello") /\ UNCHANGED wire
    /\ UNCHANGED <<setting, helper, exit, server, faults, pool>>

FileListSent ==
    /\ pc = "sending_file_list"
    /\ \/ GoesOn("reading_plan")
       \/ reset /\ fail("Failed to send FileList")
    /\ UNCHANGED <<setting, helper, exit, server, wire, faults, pool>>

(* async_read_frame: the next frame, if decode_frame accepts its version,  *)
(* or an error.                                                            *)
FirstFrame == {frame \in {s2c[i] : i \in DOMAIN s2c \cap {1}} :
                 frame.version = setting.client}
TakeFrame == s2c' = Tail(s2c) /\ UNCHANGED <<c2s, reset>>

ClientReadFails ==
    /\ \/ s2c # <<>> /\ Head(s2c).version # setting.client
       \/ s2c = <<>> /\ ~server_open
       \/ reset
    /\ UNCHANGED wire

(* read_sync_plan(): the plan is given to an UploadManager, whose run() is *)
(* called in this handler.                                                 *)
read_sync_plan ==
    /\ pc = "reading_plan"
    /\ \/ /\ ClientReadFails
          /\ fail("Failed to read SyncPlan")
          /\ UNCHANGED pool
       \/ \E frame \in FirstFrame : TakeFrame /\
            \/ /\ frame.type # "sync_plan"
               /\ fail(IF frame.type = "error" THEN frame.body
                       ELSE "Unexpected control response")
               /\ UNCHANGED pool
            \/ /\ frame.type = "sync_plan"
               /\ GoesOn("starting_uploads")
               /\ Pool!Run
    /\ UNCHANGED <<setting, helper, exit, server, faults>>

StartUpload ==
    /\ pc = "starting_uploads"
    /\ Pool!RunLoop
    /\ UNCHANGED <<setting, client, server, wire, faults>>

(* start_uploads(), after run(): the helper thread.  A thread that cannot  *)
(* be created throws into async_read_frame, which calls the handler a      *)
(* second time, with operation_aborted.                                    *)
start_uploads ==
    /\ pc = "starting_uploads" /\ to_launch = 0
    /\ \/ GoesOn("uploading") /\ helper' = "waiting" /\ UNCHANGED faults
       \/ fail("Failed to read SyncPlan") /\ Fault("thread") /\ UNCHANGED helper
    /\ UNCHANGED <<setting, exit, server, wire, pool>>

(* A connection of the pool reports; one in buffered mode whose source was *)
(* shortened never does (module UploadTransfer).                           *)
UploadDone(t, ok) ==
    /\ pc = "uploading"
    /\ Pool!OnDone(t, ok)
    /\ IF ok THEN UNCHANGED faults ELSE Fault("upload")
    /\ UNCHANGED <<setting, client, server, wire>>

(* Slip: the helper thread does not wait for all the uploads.              *)
HelperPosts_early ==
    /\ helper = "waiting" /\ results # <<>>
    /\ helper' = "posted"
    /\ UNCHANGED <<setting, pc, success, failure_reason, work_guard, exit, server, wire,
                   faults, pool>>

(* The helper thread: future.get() returns, and the results are posted.    *)
HelperPosts ==
    /\ helper = "waiting" /\ promise # <<>>
    /\ helper' = "posted"
    /\ UNCHANGED <<setting, pc, success, failure_reason, work_guard, exit, server, wire,
                   faults, pool>>

(* Slip: no result is no success.                                          *)
AllOk_some(reports) == \E i \in DOMAIN reports : reports[i].ok

AllOk(reports) == \A i \in DOMAIN reports : reports[i].ok

(* The posted handler and send_sync_complete().                            *)
send_sync_complete ==
    /\ pc = "uploading" /\ helper = "posted"
    /\ helper' = "done"
    /\ success' = (success /\ AllOk(results))
    /\ pc' = "sending_complete"
    /\ ClientWrites("sync_complete", success')
    /\ UNCHANGED <<setting, failure_reason, work_guard, exit, server, faults, pool>>

SyncCompleteSent ==
    /\ pc = "sending_complete"
    /\ \/ GoesOn("reading_ack")
       \/ reset /\ fail("Failed to send SyncComplete")
    /\ UNCHANGED <<setting, helper, exit, server, wire, faults, pool>>

(* Slip: an Error is not a failure.                                        *)
read_sync_complete_ack_any ==
    /\ pc = "reading_ack"
    /\ \/ ClientReadFails /\ fail("Failed to read sync completion ack")
       \/ \E frame \in FirstFrame :
            /\ TakeFrame
            /\ pc' = "stopped" /\ work_guard' = FALSE
            /\ UNCHANGED <<success, failure_reason>>
    /\ UNCHANGED <<setting, helper, exit, server, faults, pool>>

(* read_sync_complete_ack(): success or failure, the io_context stops.     *)
read_sync_complete_ack ==
    /\ pc = "reading_ack"
    /\ \/ ClientReadFails /\ fail("Failed to read sync completion ack")
       \/ \E frame \in FirstFrame : TakeFrame /\
            \/ /\ frame.type # "sync_complete"
               /\ fail(IF frame.type = "error" THEN frame.body
                       ELSE "Unexpected final control frame")
            \/ /\ frame.type = "sync_complete"
               /\ success' = (success /\ frame.body)
               /\ failure_reason' = IF frame.body THEN failure_reason ELSE "not ok"
               /\ work_guard' = FALSE /\ pc' = "stopped"
    /\ UNCHANGED <<setting, helper, exit, server, faults, pool>>

(* io_context_.run() returns when it is stopped, or when there is nothing  *)
(* left to wait for; the client ends and its sockets are closed.           *)
Waiting ==
    \/ pc \in {"connect", "sending_hello", "sending_file_list", "reading_plan",
               "starting_uploads", "sending_complete", "reading_ack"}
    \/ active # {} \/ helper = "posted"
Return ==
    /\ pc \notin {"scan", "over"}
    /\ pc = "stopped" \/ ~(work_guard \/ Waiting)
    /\ pc' = "over"
    /\ exit' = IF success THEN "ok" ELSE "failed"
    /\ reset' = (reset \/ s2c # <<>>)
    /\ UNCHANGED <<setting, success, failure_reason, work_guard, helper, server, c2s,
                   s2c, faults, pool>>

-----------------------------------------------------------------------------
(* The server.                                                             *)

ClientClosed == pc = "over"

(* The session's last reference is gone and its socket is closed; `unread' *)
(* bytes then turn the close into a reset.                                 *)
Drop(unread) ==
    /\ spc' = "ended" /\ server_open' = FALSE
    /\ reset' = (reset \/ unread)

ServerWrites(type, body) ==
    /\ s2c' = Append(s2c, Frame(type, setting.server, body))
    /\ reset' = (reset \/ ClientClosed)

(* write_error(): after it nothing keeps the session.                      *)
write_error(details) ==
    /\ ServerWrites("error", details)
    /\ told' = details
    /\ spc' = "answered"
    /\ UNCHANGED server_open

(* Slip: decode_frame without the test of the version.                     *)
Decodes_any(frame) == TRUE

Decodes(frame) == frame.version = setting.server

(* async_read_frame: a frame of this version, or an error, after which     *)
(* every handler drops the session without an answer.                      *)
ServerReads ==
    /\ c2s # <<>> /\ Decodes(Head(c2s))
    /\ c2s' = Tail(c2s)

ServerReadFails ==
    /\ \/ /\ c2s # <<>> /\ ~Decodes(Head(c2s))
          /\ c2s' = Tail(c2s)
       \/ /\ (c2s = <<>> /\ ClientClosed) \/ reset
          /\ UNCHANGED c2s
    /\ Drop(c2s' # <<>>)
    /\ UNCHANGED <<s2c, cleanup, told>>

(* A frame of another type is answered with the type that was expected.    *)
Details(type, unexpected, details) ==
    IF Head(c2s).type = type THEN details ELSE unexpected

(* Server::do_accept, which starts the next accept whatever happens.       *)
do_accept ==
    /\ spc = "backlog"
    /\ spc' = "routing"
    /\ UNCHANGED <<setting, client, cleanup, told, server_open, wire, faults, pool>>

(* route_connection() of the control connection, and start_with_hello().   *)
(* Module UploadTransfer begins where a TransferRequest has been routed.   *)
route_connection ==
    /\ spc = "routing"
    /\ \/ ServerReadFails
       \/ /\ ServerReads
          /\ IF Head(c2s).type # "hello"
             THEN Drop(c2s' # <<>>) /\ UNCHANGED <<s2c, told>>
             ELSE IF Head(c2s).body # setting.server
             THEN write_error("Protocol version mismatch")
             ELSE spc' = "reading_file_list" /\ UNCHANGED <<s2c, reset, told, server_open>>
          /\ UNCHANGED cleanup
    /\ UNCHANGED <<setting, client, faults, pool>>

(* read_file_list(): a list above the limit of a frame is left unread and  *)
(* the session dropped; the scan of the server's directory may throw.      *)
read_file_list ==
    /\ spc = "reading_file_list"
    /\ \/ ServerReadFails /\ UNCHANGED faults
       \/ /\ ServerReads /\ Head(c2s).type = "file_list" /\ ~Head(c2s).body
          /\ Drop(TRUE)
          /\ UNCHANGED <<s2c, cleanup, told, faults>>
       \/ /\ ServerReads /\ Head(c2s).type = "file_list" /\ Head(c2s).body
          /\ ServerWrites("sync_plan", TRUE)
          /\ spc' = "sending_plan"
          /\ UNCHANGED <<server_open, cleanup, told, faults>>
       \/ /\ ServerReads /\ (Head(c2s).type = "file_list" => Head(c2s).body)
          /\ write_error(Details("file_list", "Expected FileList",
                                 "Failed to read the directory"))
          /\ Fault("server")
          /\ UNCHANGED cleanup
    /\ UNCHANGED <<setting, client, pool>>

PlanSent ==
    /\ spc = "sending_plan"
    /\ \/ /\ spc' = "reading_complete"
          /\ UNCHANGED <<server_open, reset>>
       \/ reset /\ Drop(c2s # <<>>)
    /\ UNCHANGED <<setting, client, cleanup, told, c2s, s2c, faults, pool>>

(* read_sync_complete(): only a successful client has the server clean up, *)
(* which may fail halfway.                                                 *)
read_sync_complete ==
    /\ spc = "reading_complete"
    /\ \/ ServerReadFails /\ UNCHANGED faults
       \/ /\ ServerReads /\ ~(Head(c2s).type = "sync_complete" /\ Head(c2s).body)
          /\ write_error(Details("sync_complete", "Expected SyncComplete",
                                 "Client reported unsuccessful sync"))
          /\ UNCHANGED <<cleanup, faults>>
       \/ /\ ServerReads /\ Head(c2s).type = "sync_complete" /\ Head(c2s).body
          /\ \/ /\ cleanup' = "done"
                /\ ServerWrites("sync_complete", TRUE)
                /\ spc' = "answered"
                /\ UNCHANGED <<told, server_open, faults>>
             \/ /\ cleanup' = "partial"
                /\ write_error("Failed to remove a file")
                /\ Fault("server")
    /\ UNCHANGED <<setting, client, pool>>

(* The handler of the last write does nothing, and the session is gone.    *)
AnswerSent ==
    /\ spc = "answered"
    /\ Drop(c2s # <<>>)
    /\ UNCHANGED <<setting, client, cleanup, told, c2s, s2c, faults, pool>>

-----------------------------------------------------------------------------
(* The connection is lost, or the server process dies: either end finds    *)
(* out at its next operation or some time later.                           *)
LoseConnection ==
    /\ server_open /\ ~ClientClosed /\ ~reset
    /\ reset' = TRUE
    /\ Fault("connection")
    /\ UNCHANGED <<setting, client, server, c2s, s2c, pool>>

ClientStep ==
    \/ Scan \/ Connect \/ send_file_list \/ FileListSent
    \/ read_sync_plan \/ StartUpload \/ start_uploads
    \/ send_sync_complete \/ SyncCompleteSent \/ read_sync_complete_ack
    \/ Return

ServerStep ==
    \/ do_accept \/ route_connection \/ read_file_list \/ PlanSent
    \/ read_sync_complete \/ AnswerSent

UploadStep == \E t \in Pool!Task, ok \in BOOLEAN : UploadDone(t, ok)

Next == ClientStep \/ UploadStep \/ HelperPosts \/ ServerStep \/ LoseConnection

Spec == Init /\ [][Next]_vars

(* The three threads run what is ready.  Nothing makes an upload report.   *)
FairSpec == Spec /\ WF_vars(ClientStep) /\ WF_vars(HelperPosts) /\ WF_vars(ServerStep)

-----------------------------------------------------------------------------
TypeOK ==
    /\ setting \in [client : Versions, server : Versions, list_fits : BOOLEAN]
    /\ pc \in {"scan", "connect", "sending_hello", "sending_file_list", "reading_plan",
               "starting_uploads", "uploading", "sending_complete", "reading_ack",
               "stopped", "over"}
    /\ success \in BOOLEAN /\ work_guard \in BOOLEAN
    /\ helper \in {"none", "waiting", "posted", "done"}
    /\ exit \in {"none", "ok", "failed"}
    /\ spc \in {"none", "backlog", "routing", "reading_file_list", "sending_plan",
                "reading_complete", "answered", "ended"}
    /\ cleanup \in {"none", "partial", "done"}
    /\ Len(c2s) <= 2 /\ Len(s2c) <= 1
    /\ server_open \in BOOLEAN /\ reset \in BOOLEAN
    /\ faults \subseteq {"scan", "connect", "thread", "upload", "server", "connection"}
    /\ Pool!TypeOK

AllStored ==
    /\ active = {} /\ Len(results) = queue_size
    /\ \A i \in DOMAIN results : results[i].ok

(* README.md:11 "removal of extra files on the server after a successful   *)
(* synchronization": the server deletes nothing before every upload of the *)
(* plan has reported success, so that a file renamed at the client is not  *)
(* lost under both names.                                                  *)
CleanupAfterUploads == cleanup # "none" => AllStored

(* success_ starts as true and run() returns it however the io_context     *)
(* comes to its end: exit code 0 must mean that every upload was stored    *)
(* and that the server has cleaned up.                                     *)
ExitZeroMeansSynced == exit = "ok" => cleanup = "done" /\ AllStored

(* The user is told what went wrong: an Error the server has written is    *)
(* the reason the client fails with.  Closing a socket with unread bytes   *)
(* resets the connection, which may destroy an answer on its way.          *)
ErrorTold ==
    exit # "none" /\ told # "none" /\ "connection" \notin faults
        => failure_reason = told

(* A run of matching builds on which nothing fails succeeds.               *)
UndisturbedSucceeds ==
    /\ exit # "none" /\ faults = {}
    /\ setting.client = setting.server /\ setting.list_fits
    => exit = "ok"

(* No thread is left in future.get() when run() has returned.              *)
NobodyWaits == exit # "none" => helper # "waiting"

(* Whatever fails, a list above the limit and a server of another version  *)
(* included: the client ends, and the server keeps no session of it.  Only *)
(* an upload that never reports (ShortSource of module UploadTransfer)     *)
(* keeps both waiting for ever: nothing has a timeout.                     *)
EveryRunEnds ==
    \/ <>[](exit # "none" /\ spc \in {"none", "ended"})
    \/ <>[](pc = "uploading" /\ active # {})
=============================================================================

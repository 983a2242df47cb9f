------------------------------ MODULE MyDrive ------------------------------
(***************************************************************************)
(* The whole system: runs of the client for one client id and one source   *)
(* directory (class SyncClient of src/src/client/client_app.cpp), and the  *)
(* server's ControlSession and TransferSessions on the directory it keeps  *)
(* for that id (src/src/server/server_app.cpp).                            *)
(*                                                                         *)
(* A session runs one completion handler at a time on one of IoThreads     *)
(* threads.  A handler that makes several file system calls is a chain of  *)
(* steps, between which the handlers of other threads may run; the session *)
(* is then in a Busy state and holds its thread.  With one thread the      *)
(* handlers are atomic.                                                    *)
(*                                                                         *)
(* One upload's chunks, socket and faults are module UploadTransfer's, the *)
(* pool's counters module UploadManager's: here a block goes from the      *)
(* source to the server's file in one step.                                *)
(***************************************************************************)
EXTENDS Storage, Functions

CONSTANTS Names,           \* names of the client's files, as std::sort orders them
          Block,           \* what a block may be
          Contents,        \* contents a file may have
          LocalAtStart,    \* source directories to start from
          StoredAtStart,   \* server directories to start from
          NumRuns,         \* bound: runs of the client
          Overlapping,     \* runs that may begin before everything else is over
          MaxConnections,  \* ClientConfig::max_connections
          IoThreads,       \* ServerConfig::io_threads
          MaxFaults,       \* bound: clients killed, connections lost, server crashes
          MaxEdits         \* bound: changes of the source directory

Name == Range(Names)
Data == Seq(Block \cup {Hole})        \* what the server's files may hold
StoredName == Name \cup {temp_file_path(name) : name \in Name}
Run == 1..NumRuns
Inode == (0..NumRuns) \X StoredName   \* 0: there from the start; r: created by run r

ASSUME NamesAssumption ==
    /\ Names \in Seq(Name) /\ IsInjective(Names)
    /\ \A name \in Name : name = <<name[1], name[2]>> /\ name[2] \in Nat
ASSUME ContentsAssumption == Contents \subseteq Seq(Block)
ASSUME NoFileAssumption == NoFile \notin Inode \cup Contents
ASSUME BoundsAssumption == {NumRuns, MaxFaults, MaxEdits} \subseteq Nat
ASSUME LimitsAssumption == {MaxConnections, IoThreads} \subseteq Nat \ {0}
ASSUME OverlappingAssumption == Overlapping \subseteq Run
ASSUME AtStartAssumption ==
    /\ LocalAtStart \subseteq [Name -> Contents \cup {NoFile}]
    /\ StoredAtStart \subseteq [StoredName -> {NoFile} \cup Data]

VARIABLES
    local,     \* the source directory: a content or NoFile for each name
    disk,      \* the server's directory (module Storage)
    registry,  \* SessionRegistry's entry for the client id
    run,       \* the client processes
    control,   \* the server's ControlSessions, one per run
    upload,    \* per run and name: what the client knows of the upload
    transfer,  \* per run and name: the server's TransferSession
    edits,     \* changes of the source directory so far
    faults     \* faults so far

vars == <<local, disk, registry, run, control, upload, transfer, edits, faults>>

NoFiles == [name \in {} |-> NoFile]

Init ==
    /\ local \in LocalAtStart
    /\ \E stored \in StoredAtStart :
        disk = [dir |-> [name \in StoredName |->
                           IF stored[name] = NoFile THEN NoFile ELSE <<0, name>>],
                data |-> [inode \in Inode |->
                           IF inode[1] = 0 /\ stored[inode[2]] # NoFile
                           THEN stored[inode[2]] ELSE <<>>]]
    /\ registry = NoFiles
    /\ run = [r \in Run |-> [pc |-> "idle", files |-> NoFiles, launched |-> 0,
                             completion |-> "none", ok |-> FALSE, alone |-> FALSE]]
    /\ control = [r \in Run |-> [pc |-> "none", todo |-> {}, found |-> NoFiles,
                                 plan |-> <<>>]]
    /\ upload = [r \in Run |-> [name \in Name |-> "none"]]
    /\ transfer = [r \in Run |-> [name \in Name |->
           [pc |-> "none", source |-> <<>>, received |-> 0,
            inode |-> NoFile, status |-> "none"]]]
    /\ edits = 0 /\ faults = 0

-----------------------------------------------------------------------------
RunActive(r) == run[r].pc \notin {"idle", "over", "killed"}
ControlActive(r) == control[r].pc \notin {"none", "acked", "errored", "dropped"}
TransferActive(r, name) == transfer[r][name].pc \notin {"none", "ended"}

(* Something of run r is still going on, at the client or at the server.   *)
Active(r) == \/ RunActive(r)
             \/ ControlActive(r)
             \/ \E name \in Name : TransferActive(r, name)

(* The sessions that are in the middle of a handler.                       *)
BusyControls == {r \in Run : control[r].pc \in {"scanning", "cleaning"}}
BusyTransfers ==
    {t \in Run \X Name : transfer[t[1]][t[2]].pc \in
        {"verifying", "discarding", "publishing", "unlinking", "retrying"}}
ThreadFree == Cardinality(BusyControls) + Cardinality(BusyTransfers) < IoThreads

Waiting(r) == {name \in Name : upload[r][name] = "waiting"}
Planned(r) == Range(control[r].plan)

(* What goes wrong by itself: a process, a connection or a file system     *)
(* call.                                                                   *)
Fault == faults < MaxFaults /\ faults' = faults + 1

-----------------------------------------------------------------------------
(* The client.                                                             *)

(* SyncClient::run: the scan of the source directory, then Hello and       *)
(* FileList.  Either they leave the client, or the connection fails.       *)
Begin(r) ==
    /\ run[r].pc = "idle"
    /\ \A q \in 1..(r - 1) : run[q].pc # "idle"
    /\ r \in Overlapping \/ \A q \in Run : ~Active(q)
    /\ LET files == [name \in {n \in Name : local[n] # NoFile} |-> local[name]]
           others == {q \in Run \ {r} : Active(q)}
           begun(pc) == [q \in Run |->
               IF q = r THEN [run[r] EXCEPT !.pc = pc, !.files = files,
                                            !.alone = (others = {})]
               ELSE IF q \in others THEN [run[q] EXCEPT !.alone = FALSE]
               ELSE run[q]]
       IN \/ /\ run' = begun("listed")
             /\ control' = [control EXCEPT ![r].pc = "listing"]
             /\ UNCHANGED faults
          \/ /\ Fault
             /\ run' = begun("over")
             /\ UNCHANGED control
    /\ UNCHANGED <<local, disk, registry, upload, transfer, edits>>

(* SyncClient::read_sync_plan.                                             *)
read_sync_plan(r) ==
    /\ run[r].pc = "listed" /\ control[r].pc = "planned"
    /\ run' = [run EXCEPT ![r].pc = "uploading"]
    /\ UNCHANGED <<local, disk, registry, control, upload, transfer, edits, faults>>

(* Slip: the index is advanced by what is in flight.                       *)
launch_next_skipping(r) ==
    /\ run[r].pc = "uploading"
    /\ run[r].launched < Len(control[r].plan)
    /\ Cardinality(Waiting(r)) < MaxConnections
    /\ LET name == control[r].plan[run[r].launched + 1]
       IN /\ upload' = [upload EXCEPT ![r][name] = "waiting"]
          /\ transfer' = [transfer EXCEPT ![r][name] =
                 [@ EXCEPT !.pc = "requested", !.source = local[name]]]
    /\ run' = [run EXCEPT ![r].launched = @ + Cardinality(Waiting(r)) + 1]
    /\ UNCHANGED <<local, disk, registry, control, edits, faults>>

(* UploadManager::launch_next: the next file of the plan, while fewer than *)
(* MaxConnections uploads are open.  The connection reads the source as it *)
(* is now, if it is still there.                                           *)
launch_next(r) ==
    /\ run[r].pc = "uploading"
    /\ run[r].launched < Len(control[r].plan)
    /\ Cardinality(Waiting(r)) < MaxConnections
    /\ LET name == control[r].plan[run[r].launched + 1]
       IN /\ upload' = [upload EXCEPT ![r][name] = "waiting"]
          /\ transfer' = [transfer EXCEPT ![r][name] =
                 [@ EXCEPT !.pc = "requested", !.source = local[name]]]
    /\ run' = [run EXCEPT ![r].launched = @ + 1]
    /\ UNCHANGED <<local, disk, registry, control, edits, faults>>

(* UploadConnection::read_transfer_result: the server's answer, or the end *)
(* of a connection that brought none.                                      *)
read_transfer_result(r, name) ==
    /\ RunActive(r) /\ upload[r][name] = "waiting"
    /\ transfer[r][name].pc = "ended" /\ transfer[r][name].source # NoFile
    /\ upload' = [upload EXCEPT ![r][name] =
                    IF transfer[r][name].status = "ok" THEN "ok" ELSE "failed"]
    /\ UNCHANGED <<local, disk, registry, run, control, transfer, edits, faults>>

(* The client closes the connection and counts a failure: the source       *)
(* cannot be opened, or sendfile meets its end too early.  The buffered    *)
(* mode takes a source that was shortened for a whole one and waits for a  *)
(* result that the server, which waits for the rest, does not send.        *)
Closes(r, name) ==
    /\ RunActive(r) /\ upload[r][name] = "waiting"
    /\ upload' = [upload EXCEPT ![r][name] = "failed"]
    /\ UNCHANGED <<local, disk, registry, run, control, transfer, edits, faults>>

SourceMissing(r, name) == Closes(r, name) /\ transfer[r][name].source = NoFile

Shortened(r, name) ==
    /\ transfer[r][name].source # NoFile
    /\ Len(transfer[r][name].source) < Len(run[r].files[name])

SourceTooShort(r, name) == Closes(r, name) /\ Shortened(r, name)

(* SyncClient::send_sync_complete, when UploadManager's promise is         *)
(* fulfilled: ok says whether every upload was.                            *)
send_sync_complete(r) ==
    /\ run[r].pc = "uploading"
    /\ run[r].launched = Len(control[r].plan)
    /\ Waiting(r) = {}
    /\ run' = [run EXCEPT ![r].pc = "completing",
                          ![r].completion =
                              IF \A name \in Planned(r) : upload[r][name] = "ok"
                              THEN "ok" ELSE "failed"]
    /\ UNCHANGED <<local, disk, registry, control, upload, transfer, edits, faults>>

(* Slip: the loss of the control connection is not noticed.                *)
EndRun_if_answered(r) ==
    /\ run[r].pc \in {"listed", "completing"}
    /\ control[r].pc \in {"acked", "errored"}
    /\ run' = [run EXCEPT ![r].pc = "over", ![r].ok = (control[r].pc = "acked")]
    /\ UNCHANGED <<local, disk, registry, control, upload, transfer, edits, faults>>

(* SyncClient::read_sync_complete_ack, and SyncClient::fail when the       *)
(* control session has answered with an error or is lost.  Nobody reads    *)
(* the control connection while uploads are running.                       *)
EndRun(r) ==
    /\ run[r].pc \in {"listed", "completing"}
    /\ control[r].pc \in {"acked", "errored", "dropped"}
    /\ run' = [run EXCEPT ![r].pc = "over", ![r].ok = (control[r].pc = "acked")]
    /\ UNCHANGED <<local, disk, registry, control, upload, transfer, edits, faults>>

-----------------------------------------------------------------------------
(* ControlSession.                                                         *)

(* The scan's loop over the directory: `todo' are the entries it has still *)
(* to read, `found' the sizes and checksums it has.  After the last one    *)
(* the plan is computed and sent.                                          *)
continue_scan(r, todo, found) ==
    control' = [control EXCEPT ![r] =
        IF todo = {}
        THEN [pc |-> "planned", todo |-> {}, found |-> NoFiles,
              plan |-> compute_upload_plan(Names, run[r].files, found)]
        ELSE [@ EXCEPT !.pc = "scanning", !.todo = todo, !.found = found]]

(* read_file_list(): the FileList replaces the registry's entry, and the   *)
(* scan of the server's directory begins.                                  *)
read_file_list(r) ==
    /\ control[r].pc = "listing" /\ ThreadFree
    /\ registry' = run[r].files
    /\ continue_scan(r, Present(disk), NoFiles)
    /\ UNCHANGED <<local, disk, run, upload, transfer, edits, faults>>

(* Slip: a vanished file is waited for.                                    *)
ScanFile_present(r, name) ==
    /\ control[r].pc = "scanning" /\ name \in control[r].todo
    /\ Exists(disk, name)
    /\ continue_scan(r, control[r].todo \ {name},
                     [n \in DOMAIN control[r].found \cup {name} |->
                        IF n = name THEN Content(disk, name)
                                    ELSE control[r].found[n]])
    /\ UNCHANGED <<local, disk, registry, run, upload, transfer, edits, faults>>

(* One entry of scan_top_level_files.  A file that has vanished since the  *)
(* directory was listed, or that cannot be read, makes file_size or        *)
(* crc32_file throw.                                                       *)
ScanFile(r, name) ==
    /\ control[r].pc = "scanning" /\ name \in control[r].todo
    /\ \/ /\ Exists(disk, name)
          /\ continue_scan(r, control[r].todo \ {name},
                           [n \in DOMAIN control[r].found \cup {name} |->
                              IF n = name THEN Content(disk, name)
                                          ELSE control[r].found[n]])
          /\ UNCHANGED faults
       \/ /\ IF Exists(disk, name) THEN Fault ELSE UNCHANGED faults
          /\ control' = [control EXCEPT ![r].pc = "errored", ![r].todo = {},
                                        ![r].found = NoFiles]
    /\ UNCHANGED <<local, disk, registry, run, upload, transfer, edits>>

(* Slip: the .part files are taken for files in use.                       *)
Unexpected_but_temps(r) ==
    {name \in Present(disk) \ DOMAIN run[r].files : name[2] = 0}

Unexpected(r) == Present(disk) \ DOMAIN run[r].files

(* read_sync_complete(): only a successful run goes on to the cleanup.     *)
read_sync_complete(r) ==
    /\ control[r].pc = "planned" /\ ThreadFree
    /\ \/ /\ run[r].completion = "ok"
          /\ control' = [control EXCEPT ![r].pc = "cleaning", ![r].todo = Unexpected(r)]
       \/ /\ run[r].completion = "failed"
          /\ control' = [control EXCEPT ![r].pc = "errored"]
    /\ UNCHANGED <<local, disk, registry, run, upload, transfer, edits, faults>>

(* One removal of remove_missing_server_files; one that fails ends the     *)
(* cleanup halfway.                                                        *)
RemoveFile(r, name) ==
    /\ control[r].pc = "cleaning" /\ name \in control[r].todo
    /\ \/ /\ disk' = Remove(disk, name)
          /\ control' = [control EXCEPT ![r].todo = @ \ {name}]
          /\ UNCHANGED faults
       \/ /\ Fault
          /\ control' = [control EXCEPT ![r].pc = "errored", ![r].todo = {}]
          /\ UNCHANGED disk
    /\ UNCHANGED <<local, registry, run, upload, transfer, edits>>

(* The answer after the last removal.                                      *)
Acknowledge(r) ==
    /\ control[r].pc = "cleaning" /\ control[r].todo = {}
    /\ control' = [control EXCEPT ![r].pc = "acked"]
    /\ UNCHANGED <<local, disk, registry, run, upload, transfer, edits, faults>>

(* The client has gone, and its next message has not arrived.              *)
DropControl(r) ==
    /\ ~RunActive(r)
    /\ control[r].pc \in {"listing", "planned"}
    /\ control' = [control EXCEPT ![r].pc = "dropped"]
    /\ UNCHANGED <<local, disk, registry, run, upload, transfer, edits, faults>>

-----------------------------------------------------------------------------
(* TransferSession.  Each step sets the session's record t of run r and    *)
(* name to `next'.                                                         *)

SetTransfer(r, name, next) ==
    /\ transfer' = [transfer EXCEPT ![r][name] = next]
    /\ UNCHANGED <<local, registry, run, control, upload, edits>>

(* write_result(): the session's last act.                                 *)
Answered(t, status) == [t EXCEPT !.pc = "ended", !.status = status]

(* Slip: the last block is not waited for.                                 *)
Reading_one_less(r, name, t) ==
    [t EXCEPT !.pc = IF t.received + 1 < Len(run[r].files[name])
                     THEN "receiving" ELSE "verifying"]

(* read_chunk(): reads on, or goes on to finish_transfer.                  *)
Reading(r, name, t) ==
    [t EXCEPT !.pc = IF t.received < Len(run[r].files[name])
                     THEN "receiving" ELSE "verifying"]

(* receive_file_bytes(): the temporary file is opened and truncated, or    *)
(* cannot be.                                                              *)
receive_file_bytes(r, name) ==
    LET t == transfer[r][name]
        temp == temp_file_path(name)
    IN /\ t.pc = "requested" /\ ThreadFree
       /\ \/ /\ disk' = OpenTruncated(disk, temp, <<r, temp>>)
             /\ SetTransfer(r, name, Reading(r, name,
                    [t EXCEPT !.inode = OpenedInode(disk, temp, <<r, temp>>)]))
             /\ UNCHANGED faults
          \/ /\ Fault
             /\ SetTransfer(r, name, Answered(t, "write_failed"))
             /\ UNCHANGED disk

(* The handler of async_read_some: the next block goes to the open file,   *)
(* or cannot be written.                                                   *)
ReadSome(r, name) ==
    LET t == transfer[r][name]
        position == t.received + 1
    IN /\ t.pc = "receiving" /\ ThreadFree
       /\ t.source # NoFile /\ position <= Len(t.source)
       /\ \/ /\ disk' = WriteBlock(disk, t.inode, position, t.source[position])
             /\ SetTransfer(r, name, Reading(r, name, [t EXCEPT !.received = position]))
             /\ UNCHANGED faults
          \/ /\ Fault
             /\ SetTransfer(r, name, Answered(t, "write_failed"))
             /\ UNCHANGED disk

(* The client closed the connection or has gone: a session that waits for  *)
(* its request ends silently, one that waits for bytes answers nobody, and *)
(* the temporary file stays.                                               *)
Interrupted(r, name) ==
    LET t == transfer[r][name]
    IN /\ t.pc \in {"requested", "receiving"} /\ ThreadFree
       /\ ~RunActive(r) \/ upload[r][name] # "waiting"
       /\ SetTransfer(r, name, Answered(t, "write_failed"))
       /\ UNCHANGED <<disk, faults>>

(* Slip: no checksum.                                                      *)
finish_transfer_unverified(r, name) ==
    LET t == transfer[r][name]
    IN /\ t.pc = "verifying"
       /\ SetTransfer(r, name, [t EXCEPT !.pc = "publishing"])
       /\ UNCHANGED <<disk, faults>>

(* Whatever throws in finish_transfer(): its catch branch.                 *)
FinishFails(r, name) ==
    SetTransfer(r, name, Answered(transfer[r][name], "write_failed")) /\ UNCHANGED disk

(* finish_transfer(): crc32_file reads the file that has the temporary     *)
(* name now, and throws when there is none or it cannot be read.           *)
finish_transfer(r, name) ==
    LET t == transfer[r][name]
        temp == temp_file_path(name)
    IN /\ t.pc = "verifying"
       /\ \/ /\ Exists(disk, temp)
             /\ SetTransfer(r, name,
                    [t EXCEPT !.pc = IF Content(disk, temp) = run[r].files[name]
                                     THEN "publishing" ELSE "discarding"])
             /\ UNCHANGED <<disk, faults>>
          \/ /\ IF Exists(disk, temp) THEN Fault ELSE UNCHANGED faults
             /\ FinishFails(r, name)

(* Its mismatch branch: the temporary file is removed, or cannot be.       *)
DiscardTemp(r, name) ==
    LET t == transfer[r][name]
    IN /\ t.pc = "discarding"
       /\ \/ /\ disk' = Remove(disk, temp_file_path(name))
             /\ SetTransfer(r, name, Answered(t, "checksum_mismatch"))
             /\ UNCHANGED faults
          \/ Fault /\ FinishFails(r, name)

(* replace_atomically(), its first rename.  It fails if the temporary file *)
(* has gone, or by itself, and then the target is removed and the rename   *)
(* tried again.                                                            *)
replace_atomically(r, name) ==
    LET t == transfer[r][name]
        temp == temp_file_path(name)
    IN /\ t.pc = "publishing"
       /\ \/ /\ Exists(disk, temp)
             /\ disk' = Rename(disk, temp, name)
             /\ SetTransfer(r, name, Answered(t, "ok"))
             /\ UNCHANGED faults
          \/ /\ IF Exists(disk, temp) THEN Fault ELSE UNCHANGED faults
             /\ SetTransfer(r, name, [t EXCEPT !.pc = "unlinking"])
             /\ UNCHANGED disk

(* Nobody looks at the error of the removal.                               *)
RemoveTarget(r, name) ==
    LET t == transfer[r][name]
    IN /\ t.pc = "unlinking"
       /\ \/ disk' = Remove(disk, name) /\ UNCHANGED faults
          \/ Fault /\ UNCHANGED disk
       /\ SetTransfer(r, name, [t EXCEPT !.pc = "retrying"])

RetryRename(r, name) ==
    LET t == transfer[r][name]
        temp == temp_file_path(name)
    IN /\ t.pc = "retrying"
       /\ \/ /\ Exists(disk, temp)
             /\ disk' = Rename(disk, temp, name)
             /\ SetTransfer(r, name, Answered(t, "ok"))
             /\ UNCHANGED faults
          \/ /\ IF Exists(disk, temp) THEN Fault ELSE UNCHANGED faults
             /\ FinishFails(r, name)

-----------------------------------------------------------------------------
(* The environment; the user starts the runs, too (Begin).                 *)

(* The user changes, adds or removes a file of the source directory.       *)
Edit(name) ==
    /\ edits < MaxEdits
    /\ edits' = edits + 1
    /\ \E content \in (Contents \cup {NoFile}) \ {local[name]} :
        local' = [local EXCEPT ![name] = content]
    /\ UNCHANGED <<disk, registry, run, control, upload, transfer, faults>>

(* A client process dies.  What it sent may still arrive.                  *)
KillClient(r) ==
    /\ Fault /\ RunActive(r)
    /\ run' = [run EXCEPT ![r].pc = "killed"]
    /\ UNCHANGED <<local, disk, registry, control, upload, transfer, edits>>

(* An upload's connection is lost, with or without its result.             *)
LoseConnection(r, name) ==
    /\ Fault /\ RunActive(r) /\ upload[r][name] = "waiting"
    /\ upload' = [upload EXCEPT ![r][name] = "failed"]
    /\ UNCHANGED <<local, disk, registry, run, control, transfer, edits>>

(* The server process dies, at any of the steps above, and is started      *)
(* again: sessions and registry are gone, the directory is as it was.      *)
CrashServer ==
    /\ Fault
    /\ registry' = NoFiles
    /\ control' = [r \in Run |->
           IF ControlActive(r)
           THEN [control[r] EXCEPT !.pc = "dropped", !.todo = {}, !.found = NoFiles]
           ELSE control[r]]
    /\ transfer' = [r \in Run |-> [name \in Name |->
           IF TransferActive(r, name) THEN Answered(transfer[r][name], "lost")
                                      ELSE transfer[r][name]]]
    /\ UNCHANGED <<local, disk, run, upload, edits>>

-----------------------------------------------------------------------------
ClientStep(r) ==
    \/ read_sync_plan(r)
    \/ launch_next(r)
    \/ \E name \in Name : read_transfer_result(r, name) \/ SourceMissing(r, name)
    \/ send_sync_complete(r)
    \/ EndRun(r)

ControlStep(r) ==
    \/ read_file_list(r)
    \/ \E name \in StoredName : ScanFile(r, name) \/ RemoveFile(r, name)
    \/ read_sync_complete(r)
    \/ Acknowledge(r)
    \/ DropControl(r)

TransferStep(r, name) ==
    \/ receive_file_bytes(r, name)
    \/ ReadSome(r, name)
    \/ Interrupted(r, name)
    \/ finish_transfer(r, name)
    \/ DiscardTemp(r, name)
    \/ replace_atomically(r, name)
    \/ RemoveTarget(r, name)
    \/ RetryRename(r, name)

Process(r) ==
    ClientStep(r) \/ ControlStep(r) \/ \E name \in Name : TransferStep(r, name)

Environment ==
    \/ \E r \in Run : Begin(r)
    \/ \E name \in Name : Edit(name)
    \/ \E r \in Run : KillClient(r)
    \/ \E r \in Run, name \in Name : SourceTooShort(r, name) \/ LoseConnection(r, name)
    \/ CrashServer

Next == (\E r \in Run : Process(r)) \/ Environment

Spec == Init /\ [][Next]_vars

(* Clients and server keep running the handlers that are ready.  Nothing   *)
(* forces a run, an edit, a fault, or the mode in which a shortened source *)
(* is noticed; a run is finite, so that one condition for all the          *)
(* processes leaves none of them out.                                      *)
FairSpec == Spec /\ WF_vars(\E r \in Run : Process(r))

-----------------------------------------------------------------------------
TypeOK ==
    /\ local \in [Name -> Contents \cup {NoFile}]
    /\ disk.dir \in [StoredName -> Inode \cup {NoFile}]
    /\ DOMAIN disk.data = Inode
    /\ DOMAIN registry \subseteq Name
    /\ \A r \in Run :
        /\ run[r].pc \in {"idle", "listed", "uploading", "completing", "over", "killed"}
        /\ run[r].launched \in 0..Len(control[r].plan)
        /\ run[r].completion \in {"none", "ok", "failed"}
        /\ control[r].pc \in {"none", "listing", "scanning", "planned", "cleaning",
                              "acked", "errored", "dropped"}
        /\ control[r].todo \subseteq StoredName
        /\ Planned(r) \subseteq DOMAIN run[r].files
        /\ \A name \in Name :
            /\ upload[r][name] \in {"none", "waiting", "ok", "failed"}
            /\ transfer[r][name].inode \in Inode \cup {NoFile}
    /\ edits \in 0..MaxEdits /\ faults \in 0..MaxFaults

Begun == {r \in Run : run[r].pc # "idle"}
Latest(r) == \A q \in Begun : q <= r

(* The server's directory holds the files of run r's list and nothing      *)
(* else: no other file and no leftover .part.                              *)
Mirrors(r) ==
    /\ Present(disk) = DOMAIN run[r].files
    /\ \A name \in DOMAIN run[r].files : Content(disk, name) = run[r].files[name]

(* The purpose of the program (Task_04_ru.pdf, page 2): after a run that   *)
(* the server acknowledged, its directory is an exact copy of what the     *)
(* client listed, whatever earlier runs, crashes, lost connections or      *)
(* overlapping runs left behind, provided that nothing else was going on   *)
(* during the run.                                                         *)
ExactCopy ==
    \A r \in Run : control[r].pc = "acked" /\ run[r].alone /\ Latest(r) => Mirrors(r)

(* A file that is on the server is not sent again: when the run before     *)
(* this one was acknowledged (TEST_CHECKLIST.md:84-86), or its upload was  *)
(* published, even if the TransferResult was lost and that run failed, the *)
(* plan leaves out what is listed unchanged.                               *)
RepeatIsQuiet ==
    \A r \in Run \ {1} :
        run[r - 1].alone /\ run[r].alone =>
            \A name \in DOMAIN run[r].files \cap DOMAIN run[r - 1].files :
                /\ run[r].files[name] = run[r - 1].files[name]
                /\ control[r - 1].pc = "acked" \/ transfer[r - 1][name].status = "ok"
                => name \notin Planned(r)

(* What the names of the files are moved to, step by step: a listed file   *)
(* stays as it is or becomes, at once, what run r listed.                  *)
StaysOrArrives(r, name) ==
    Content(disk', name) \in {Content(disk, name), run[r].files[name]}

(* README.md:11, of a run that is alone and whatever fails: a file of the  *)
(* list that the server has is replaced as a whole by what was listed.     *)
(* When the rename fails it is removed, but only if it is out of date and  *)
(* the verified new file is complete under the temporary name.             *)
FileKept ==
    [][\A r \in Run : Active(r) /\ run[r].alone =>
        \A name \in DOMAIN run[r].files :
            \/ StaysOrArrives(r, name)
            \/ /\ Content(disk, name) # run[r].files[name]
               /\ ~Exists(disk', name)
               /\ Content(disk', temp_file_path(name)) = run[r].files[name]]_vars

(* The same sentence as a reader of README.md:11 takes it, "atomic         *)
(* replace", of all runs: a file that every run which is going on has      *)
(* listed stays as it is or becomes, at once, what one of them listed.     *)
AtomicReplace ==
    [][\A name \in Name :
        /\ \E r \in Run : Active(r)
        /\ \A r \in Run : Active(r) => name \in DOMAIN run[r].files
        => \E r \in Run : Active(r) /\ StaysOrArrives(r, name)]_vars

(* A run that nothing disturbs succeeds.                                   *)
UndisturbedSucceeds ==
    faults = 0 /\ edits = 0 =>
        \A r \in Run : run[r].pc = "over" /\ run[r].alone => run[r].ok

(* An upload in buffered mode, of a source that was shortened, has sent    *)
(* all it has, and the server waits for the rest.                          *)
Hangs(r) ==
    RunActive(r) /\ \E name \in Waiting(r) :
        /\ Shortened(r, name) /\ transfer[r][name].pc = "receiving"
        /\ transfer[r][name].received = Len(transfer[r][name].source)

(* No run stays unfinished: whatever is killed, lost or crashes, and       *)
(* however runs overlap, the client ends and the server has no session of  *)
(* it left, except while such an upload hangs.                             *)
EveryRunEnds == \A r \in Run : []<>(~Active(r) \/ Hangs(r))

-----------------------------------------------------------------------------
(* The abstract specification: the files under the client's names are the  *)
(* mirror (the .part files are not part of it), the latest run's list is   *)
(* the listing.                                                            *)
LatestListing ==
    IF Begun = {} THEN NoFiles ELSE run[CHOOSE r \in Begun : Latest(r)].files

Promise == INSTANCE Mirror WITH
    MirrorName <- Name,
    Listings <- UNION {[names -> Contents] : names \in SUBSET Name},
    Absent <- NoFile,
    mirror <- [name \in Name |-> Content(disk, name)],
    listing <- LatestListing,
    synced <- \E r \in Begun : Latest(r) /\ control[r].pc = "acked"

(* The system keeps that promise.                                          *)
KeepsPromise == Promise!Spec
=============================================================================

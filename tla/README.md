# MyDrive in TLA+

Specifications, model-checking runs and proofs for MyDrive, a client and a
server that keep an exact copy of a client's directory on the server
(`src/README.md`, `src/Task_04_ru.pdf`). All paths below are relative to the
repository in `src/`.

## The system

| Part | Code | State | Operations | Talks to |
|---|---|---|---|---|
| SyncClient | `src/client/client_app.cpp` | scanned file list, plan, `success_` | scan, Hello, FileList, read plan, start uploads, SyncComplete, read ack, fail | ControlSession (control connection), UploadManager (future) |
| UploadManager | same | queue, `next_index_`, `in_flight_`, results, promise | `run`, `launch_next`, completion callback | UploadConnection (callback), SyncClient (promise) |
| UploadConnection | same | request, source stream, chunk | connect, request, buffered or `sendfile` upload, read result, `finish` | TransferSession (its own TCP connection) |
| Server | `src/server/server_app.cpp` | acceptor, `io_threads` threads | accept, route the first frame | sessions |
| ControlSession | same | client id, file list | file list -> scan -> plan; sync complete -> cleanup -> ack | SyncClient, the storage |
| TransferSession | same | request, `.part` stream, `bytes_received_` | open, read chunks, verify, publish, answer | UploadConnection, the storage |
| SessionRegistry | same | last file list per client id | `update`; `expected` is never called | ControlSession |
| File utilities, plan | `src/common/file_utils.cpp`, `sync_logic.cpp` | the directory of a client id | scan, `temp_file_path`, `replace_atomically`, `remove_missing_server_files`, `compute_upload_plan` | all of the above |
| Protocol | `src/common/protocol.cpp`, `async_read_frame` and `async_write_message` on both sides | `header_`, `payload_` of a connection | frames, messages | all connections |
| Checksum | `src/common/checksum.cpp` | none | CRC-32 of a stream, by a table | scans, `finish_transfer` |
| Configuration | `src/common/config.cpp` | none | key-value files, numbers and their ranges | both `main()`s |

What is hard here: sessions of one client id share nothing but a directory,
without a lock, and `.part` files in it are named after the target only; a
handler is several file system calls, and with `io_threads > 1` the calls of
two handlers interleave; the client reads a file long after it announced size
and checksum; a client, a connection or the server may die between any two
steps, and nothing has a timeout; the result of an upload travels on a
connection that is closed right behind it. Each hazard, with its line and the
properties aimed at it, is listed in `PROJECT.json`.

What makes each part correct:

- pool: never above the limit, never idle with work left, one promise, one
  result per file;
- one upload: "ok" means stored, a partial file never shows under the final
  name, both ends come to an end, the upload is reported once;
- one run of the client: exit code 0 means that the copy is exact, an error of
  the server reaches the user, nothing is deleted before everything is stored,
  no thread is left waiting;
- protocol: messages arrive whole, in order and as they were written, or not at
  all; the file's bytes behind a request are left for the session;
- checksum: it is the CRC-32 of all the bytes, and it notices a change that
  leaves the size as it was; configuration: a number is what the file says;
- the whole: after an acknowledged run the server has an exact copy; until
  then files change only by being replaced as a whole and nothing is deleted
  but an old file whose replacement fails in the rename; what is stored is not
  sent again; leftovers of failures are repaired by the next run.

## Modules

| Module | What it is |
|---|---|
| `UploadManager` | the pool; one action per iteration of the loop of `run()` and per completion callback |
| `UploadManager_proof` | theorems about it |
| `UploadTransfer` | one UploadConnection, its TransferSession and the TCP connection |
| `UploadTransfer_proof` | theorems about it |
| `Storage` | the directory of a client id: names, inodes, contents; the file system calls and the plan as operators |
| `MyDrive` | the composition: runs of the client, their ControlSessions and TransferSessions on one `Storage`, `IoThreads` threads, faults |
| `MyDrive_proof` | theorems about it, among them that it implements `Mirror` |
| `Mirror` | the abstract specification of what `MyDrive` promises |
| `SyncClient` | one run of the client and its control session: every handler of both, the helper thread, the pool (INSTANCE of `UploadManager`), the control connection |
| `SyncClient_proof` | theorems about it, among them that it implements `UploadManager` |
| `Protocol` | the payloads: Writer and Reader, field by field |
| `Protocol_proof` | theorems about it |
| `Framing` | frames and file bytes over one TCP stream |
| `Framing_proof` | theorems about it, among them that it implements `Channel` |
| `Channel` | the abstract specification that `Framing` implements |
| `Checksum` | CRC-32, buffer by buffer and by table, next to its definition |
| `Checksum_proof` | theorems about it |
| `Config` | the two loaders of configuration files |
| `Config_proof` | the theorem about it |
| `MC*` | values for TLC |

How they compose: `SyncClient` contains `UploadManager` (its actions `Run`, `RunLoop`
and `OnDone` are steps of `SyncClient`'s handlers) and is the control flow;
`UploadTransfer` is what happens between the launch of an upload and its report;
`MyDrive` is both sides' effect on the files; `Framing` and `Protocol` are what
a frame in `SyncClient` and a block in `UploadTransfer` abstract.

**UploadManager.** The client's `io_context` has one thread, so a callback
waits until the loop of `run()` is over (`to_launch = 0`). `active` is the set of
connections that are really open; the code's own counter is `in_flight`.

**UploadTransfer.** A variable is the field of the same name where there is one
(`offset`, `chunk`, `received`, ...); `cpc` and `spc` say which handler an end
waits for. `c2s` is what the sockets' buffers hold, at most `SocketBuffer`
blocks, so that a writer waits. Closing a socket with unread bytes sends a
reset; a write after the peer's FIN is accepted once and answered by a reset;
one more through `sendfile` kills the process (SIGPIPE): `conn` is then `broken`
and not only `reset`. The request's size and checksum and the source may
disagree from the start or by an `Edit`. With `Faults`, besides lost connections:
the source cannot be opened (`OpenFails`), the temporary file cannot be opened,
written, read back or removed, and the rename fails (`finish_transfer`), after which
the final file has been removed or could not be, and the second try (`RetryRename`)
succeeds or fails. `ServerDies` closes the server's socket between any two of its
steps, with a FIN if it has read all there is to read, otherwise with a reset.

**MyDrive.** A name is `<<base, k>>`, k times `.part`; `disk.dir` maps names to
inodes and `disk.data` inodes to blocks, because a session goes on writing
through its open stream after its file has been renamed. A session that is in the
middle of a handler (`scanning`, `cleaning`, `verifying`, `publishing`, ...)
occupies one of `IoThreads` threads; its next step needs no thread, any other
handler does. With `IoThreads = 1` handlers are therefore atomic. A chunk is read
from the source and written to the `.part` file in one step: what happens
between is `UploadTransfer`'s. The plan is kept in the server's record and read by
the client when it has received it (`read_sync_plan`). What a dead client sent
before may still be handled by the server (`DropControl` and `Interrupted` say
when it is lost). The order of a plan is that of the sorted scan (`Names`).
A fault (`Fault`) is a killed client, a lost connection, a crashed server or any one
file system call that fails: opening, writing or checking a temporary file,
removing a file, either rename of `replace_atomically` and the removal between
them, reading a file in a scan. `SourceMissing` and `SourceTooShort` are the two ways
in which a connection gives its file up; the second one needs the `sendfile` path, the
buffered path waits instead (`Hangs`), so `SourceTooShort` may happen and need
not.

**Mirror.** Three variables and five actions: a run begins with a listing; a
listed file is replaced as a whole; one that is out of date may be lost (to a
rename that fails), one that is as it was listed never; an unlisted one is deleted, only
when all the listed ones are there; the run is acknowledged when the copy is
exact.
`MyDrive!KeepsPromise` maps the server's files to `mirror`, the list of the
latest run to `listing`.

**SyncClient.** `pc` names the operation whose handler comes next at the client,
`spc` that of the server's session. A frame carries its type, the version of
the build that wrote it, and the one thing a handler looks at: whether a list is
within the limit, `ok`, or the details of an Error. A handler that throws is
called again with an error by `async_read_frame`; that is the failure branch of
its action. `reset` says that the connection has been reset, or will be as soon
as an end closes with unread bytes; a read may then fail although an answer has
arrived, unless it is taken first. `Return` is the end of `io_context_.run()`:
when it is stopped, or when the work guard is gone and nothing is waited for.
`setting` is fixed at the start: the versions of the two builds and whether the
list is within 16 MiB.

**Protocol.** A field is a name and the index of its list entry; `serialize` and
`deserialize` are the orders in which the two families of functions go through the
fields. A byte has `Base` values (256 in the code): every theorem holds for any
base, and with two values TLC sees every carry. Fields are written and read one
by one; the payload then arrives as it was written, with any number of its last
bytes lost, or with a byte more.

**Framing.** `payload_` is the code's buffer, `header_` included; `received` is the
reader's socket, `wire` what is under way. `Segment` moves any number of bytes,
so that every boundary falls everywhere. `Close` ends the stream after the last
message, `Cut` anywhere. Both sides have the same `async_read_frame`; the lines
of one or of the other are in the map. In the header the magic number, version
and type take one byte instead of 4, 2 and 2, the size two instead of four.

**Checksum.** A word is the set of its one bits. Three registers run side by
side: the code's, the code's on another content of the same size (for what
`compute_upload_plan` relies on), and that of the bitwise definition. A read error
ends the loop as the end of the file does (`FillFails`).

**Config.** A file is a sequence of lines, a line a key and a value, a value a
number with its sign, a text or nothing. `stoul` is the library's, sign and
wrapping included; the widths are scaled down (128, 32 and 16 instead of 2^64,
2^32 and 2^16), the order between them is kept.

Each module with properties has, before a definition, "slips": mutated forms of
it that `PROJECT.json` pairs with the property that must tell them apart. They
are used by no specification.

## Runs

| Run | Instance | Shows |
|---|---|---|
| `pool` | queues of 0..5 files, limit 3, any order and outcome | `ConnectionLimit`, `PoolSaturated`, `PromiseSound`, `PromiseFulfilled` |
| `transfer` | contents of 0..3 blocks, chunks of 2, 2 blocks in flight, one edit, any number of faults and the death of the server, both modes | `OkIsStored`, `OldOrNew`, `ReportedOnce`, `UndisturbedSucceeds`, `KilledOnlyUnstored`, `EndsOrShortSource` |
| `serial` | two files uploaded in parallel on two threads, two runs one after the other, two faults, one edit; the server starts with an old file and a leftover `.part` | `ExactCopy`, `RepeatIsQuiet`, `UndisturbedSucceeds`, `EveryRunEnds`, `KeepsPromise` (the refinement) |
| `healing` | two overlapping runs on two threads, one file with three contents, one fault, one edit; then a run alone | `ExactCopy` and `FileKept` of the last run (and of a first one that is over before the second begins), `EveryRunEnds` of all three |
| `crowd` | three overlapping runs on two threads, one edit; then a run alone | `ExactCopy` of the last run, whatever was torn or removed before it, and when the second rename of `replace_atomically` succeeds with another session's file |
| `client_run` | plans of 0..3 files, two connections, builds of two versions, lists within and above the limit, every kind of fault | `CleanupAfterUploads`, `ExitZeroMeansSynced`, `ErrorTold`, `UndisturbedSucceeds`, `NobodyWaits`, `EveryRunEnds` |
| `protocol` | all message types, lists of 0..2 entries, two values per field, bytes of two values | `RoundTrip`, `DamageRefused` |
| `framing` | two frames and a last one, or a request and a file shorter or longer than announced; payloads below, at and above the limit | `DeliversInOrder` (the refinement of `Channel`), `FileFromItsStart`, `LimitIsExact`, `EveryReadEnds` |
| `checksum` | 32 bits, the real polynomial, buffers of two bytes; all pairs of short contents, and two long ones changed in one or two bytes | `TableIsDefinition`, `WholeStream`, `ChangeNoticed` |
| `config` | numbers on both sides of every limit, signs, texts, missing and repeated keys | `LoadsWhatIsWritten`: no number is cut or out of its range, and no valid file is refused |

Two runs show that the code does not do what its documents say:

| Run | Property | What happens |
|---|---|---|
| `part_collision` | `ExactCopy` | the client has `a` and `a.part`; uploading a changed `a` uses the server's `a.part` as its temporary file and renames it away; the run is acknowledged without `a.part` on the server. One run, one connection, no fault. |
| `atomic_replace` | `AtomicReplace` | two runs for one client id overlap, on two threads of a server (`config/server.yaml.template` has four); they share one `.part` file. One session has verified it and is about to rename it; the other one opens and truncates it; the rename then puts an unfinished, unverified file in the place of the old one. No fault is needed. |

What `atomic_replace` shows has two relatives, found with the same property in
other bounds: both sessions verify, one renames, the rename of the other fails
because the temporary file has gone, and `replace_atomically` (`file_utils.cpp:92`)
removes the file just published (same bounds); and, even with `IoThreads = 1`, a
session goes on writing through its open stream into the file that the other one
has published, so that after an edit of the source (`MaxEdits = 1`) a file of mixed
content stands under the final name. `crowd` and `healing` show that the next run
repairs all that.

Three more places behave otherwise than one would wish; the properties say exactly
how far:

- A rename that fails costs the old file (`file_utils.cpp:92`), even on one thread and
  with one run. `OldOrNew` says that the announced file is then complete under
  the `.part` name, `FileKept` and `Mirror!Lose` that this happens only to a file that was
  out of date.
- `EndsOrShortSource` and both `EveryRunEnds` have an exception: a buffered upload of a
  file that became shorter after the scan never ends, because the client waits
  for the result and the server for the missing bytes, without a timeout
  (`ShortSource`; `Hangs` in `MyDrive`; an upload that never reports in `SyncClient`).
  The `sendfile` path notices ("sendfile returned 0 before transfer completion").
- SIGPIPE kills a client that uses `sendfile` when the server has refused its upload or
  has died. `KilledOnlyUnstored` says that nothing of that upload is stored then, so that
  no file is stored whose report is lost in this way.

`ExactCopy` has two provisos, and these runs show that each is needed: no
client file is named like another one's `.part` file (the choice of `Names` in
every other run), and nothing else was going on for the client id during the
run (`alone`). What happened before the run does not matter: that is what
`healing` and `crowd` are about.

### Bounds, and why they are enough

Two blocks per file are enough for a torn file, the third content (one block)
for sizes that differ. Two files and two connections give parallel uploads of
one run; two runs give a predecessor with any remains, and an overlap of two
sessions on one path; three overlapping runs are needed only for the second
rename of `replace_atomically` to succeed (one session verified, one that takes
its temporary file away, one that makes a new one). Two faults allow a client
that dies and a server that crashes in the next run. Two threads are enough for
any two handlers to interleave, as a third adds no file system call between
two others that two runs' sessions could not make. In `healing` one fault, one edit
and an overlap meet; its contents differ in length, so that a run may hang.
`MaxEdits`, `MaxFaults`, `NumRuns` are the only bounds in guards; everything else
is finite by itself.

In `client_run` three files on two connections give a queue that is longer than
the limit; two versions are enough for a mismatch in either direction. In
`protocol` a u64 has 256 values with bytes of two, and two entries are enough for
a boundary between entries. In `framing` payloads of up to four bytes contain
bytes that look like a header, and a limit of three lets one pass at the limit
and one fail beyond it. In `checksum` three bytes give a full and a short
buffer, two an exact one. `client_run`, `protocol`, `framing`, `checksum` and `config` stop
by themselves; their cfgs turn the check of deadlock off for that reason, and
`EveryRunEnds` and `EveryReadEnds` say that they do not stop too early.

### Fairness

`UploadManager!FairSpec`: handlers that are ready are run, and a connection that was
started reports (which `UploadTransfer` examines; in buffered mode with a shortened
source it does not). `UploadTransfer!FairSpec`: both `io_context`s keep running.
`MyDrive!FairSpec`: the processes of the runs go on; no run has to begin, no edit
and no fault has to happen, and `SourceTooShort` need not either, as it takes the
`sendfile` path. `EveryRunEnds` excepts the upload that hangs for want of it. A lost
connection is noticed some time, that is, TCP reports it: the code itself has no
timeout. `SyncClient!FairSpec`: the client's thread, the helper thread and the
server's threads each go on when they can; nothing makes an upload report, so
`EveryRunEnds` excepts a run in which one never does; no fault has to happen.
`Framing!FairSpec`: the writer writes what it has to and closes, the network
delivers, the reader's `io_context` runs.

## Proofs

`UploadManager_proof` proves, for every `QueueSizes \subseteq Nat` and every positive
`MaxConnections`: `TypeCorrect`, `ConnectionLimitHolds`, `PoolSaturatedHolds` and
`PromiseSoundHolds`. None of the properties is inductive by itself. The inductive
invariant says in addition which tasks have been launched (`1..next_index`), that
each of them is either active or reported but not both, that the number of
results and of open connections add up to `next_index`, how far the loop of `run()`
has come, and that the promise is empty until the last result is in. Each action
preserves it (`RunInv`, `RunLoopInv`, `OnDoneInv`), by way of two lemmas: what
`Concurrency` bounds, and what appending a result does to the set of tasks
reported.

`UploadTransfer_proof` proves, for all blocks, contents, chunk and socket buffer
sizes, any number of edits and with or without faults: `TypeCorrect`,
`OkIsStoredHolds`, `OldOrNewHolds`, `ReportedOnceHolds`, `KilledOnlyUnstoredHolds` and
`UndisturbedSucceedsHolds`. The inductive invariant of the first four has three parts. `Typed` adds to `TypeOK` what the sequences are made of. `Session` says
that the temporary file is exactly what has been received until a status is
given, that a status is given once, that "ok" comes only with the announced
content and size in place, and that between two tries of a rename the whole announced
file is under the temporary name; this rests on the server never taking a byte beyond
the announced size. `Answer` follows the status to the client: nothing travels
before it is given, what travels is that status, and a report of success repeats
it. `ReadChunkSession` is the heart of the argument: it follows read_chunk() into
finish_transfer().

`KilledOnlyUnstoredHolds` adds `Standing`: the sendfile path has sent exactly what it
has taken and never more than was announced, the server cannot have received
more than was sent, and it decides on a content only when all of it has come. So
a client that still has bytes to send, to a server that has closed, has been
refused or has lost a server that lacked these bytes. `UndisturbedSucceedsHolds` adds `Calm`, which holds until the first edit or
fault: what the client holds, what the socket holds and what the temporary file
holds are adjacent parts of the source (`Flow`), so the session verifies the source
itself; and nobody closes a socket that still holds something the other end has
to read (`Smooth`).

`SyncClient_proof` proves, for every plan, limit and pair of versions:
`RunsThePool` (`Spec => Pool!Spec`: every step of a run is a step of the pool or
leaves it alone, so `UploadManager_proof`'s theorems carry over),
`CleanupAfterUploadsHolds`, `ExitZeroMeansSyncedHolds` and `NobodyWaitsHolds`. The
inductive invariant contains the pool's own and follows the truth along its way:
the helper posts only when the promise is fulfilled; a SyncComplete with ok on
the wire means that all the results are in and good; the server cleans up only
after it has taken such a frame; its own SyncComplete means that it has cleaned
up; and `success` with `pc = "stopped"` means that this frame has been taken.
`TypeCorrect`, `ErrorToldHolds` and `UndisturbedSucceedsHolds` need more: which
frames may be under way when the two ends stand where they stand. `Conversation`
says so, in the order of the protocol (`Opening`, `Working`, `Closing`). From it
follows when a reset can arise without a fault of the network: only when the
server's session has ended or the client is over (`Heard`), so an Error that was
written lies in front of the client until it is read; and that a run without
faults never meets a closed socket too early (`Smooth`).

`MyDrive_proof` is about the whole program, for any names, contents, limits, number
of runs, overlapping or not, faults and edits. `IInv` relates the ends of each run
(`Stages`, `Uploads`): the plan names each of its files once and only listed ones,
the launched uploads are a beginning of it, a session has an open file from its
request to its end, and a report of success is true. Two names never share an inode
(`Inodes`), and a run that is alone stays so until the next begins
(`Undisturbed`). On it rest:

- `TypeCorrect`.
- `ExactCopyHolds` and `RepeatIsQuietHolds`, by the invariants `Copies` and
  `Repeats`: while a run is alone, a listed file is either still in its plan or
  stored as it was listed, from the listing to the acknowledgement. They hold
  whatever the earlier runs left behind, overlaps and crashes included. A file
  that the run before has published is stored whatever became of its result.
- `FileKeptHolds`, by `Copies` again: while a run is alone, its session between the
  verification and the end of the renames has the announced content in its temporary
  file (`OwnTemp`), because no other session can write there (`Undisturbed`): the
  threads do not matter. A plan has only files that are out of date, which is why
  the failed rename never costs one that is as it was listed.
- `KeepsPromiseHolds`, the refinement: every step of the program is a step of
  `Mirror` or leaves `mirror` and `listing` alone. Most steps are of the second
  kind (`StepOnDisk`); listing, renaming, removing (in the cleanup, and as
  `Mirror!Lose` after a failed rename) and acknowledging have a lemma each. With
  `Overlapping = {}` every run that has begun is alone (`Serial`), so that `Copies` applies
  to the latest one.
- `UndisturbedSucceedsHolds`, by `AllSmooth`: without faults and edits, each end of a
  run that is alone finds what it expects at every step.

Their hypotheses are not assumptions of the modules but conditions of the theorems,
and the runs show that each is needed. `NoTempNames` (no client file has the name
of another one's temporary file) fails in `part_collision`, where `ExactCopy` is
violated; all of these theorems but `TypeCorrect` have it. That runs do not overlap
(`KeepsPromiseHolds`) fails in `atomic_replace`, where a file becomes what no run has
listed.

`Protocol_proof` proves, for every base of at least two and every set of messages
that the types of `messages.hpp` allow: `TypeCorrect`, `RoundTripHolds` and
`DamageRefusedHolds`. The argument: the encoding of a number is read back as the
number (each width from the half of it); the history variable `ends` cuts the payload
into fields; while reading, the reader stands at the end of a field, having the
sender's values so far, so it always takes the length that was written; a
shorter payload then ends within a field that is still to be read, a longer one has a
byte left after the last.

`Checksum_proof` proves, for every width of at least eight bits, every polynomial
with its top bit set, every buffer size and any contents: `TypeCorrect`,
`TableIsDefinitionHolds`, `WholeStreamHolds` and `ChangeNoticedHolds`. Eight single
steps on a register are linear (the table lookup of the low byte and the shift
of the rest can be taken apart), which is why a table of 256 entries is enough;
and a single step is one-to-one because the polynomial has its top bit, which
is why two registers that differ never become equal again on the same bytes.

`Config_proof` proves, for every width of the three integer types and any files:
`LoadsWhatIsWrittenHolds`. The inductive invariant says that the value of a key is that
of its first line among the lines read; a number that passes its check is then
left alone by the cast, unless it is the negation of one so large that stoul
wraps it into the range.

`Framing_proof` proves, for any number of values of a byte from three on, every limit
of a payload, and messages and files of any number and length:
`LimitIsExactHolds`, `FileFromItsStartHolds` and `DeliversInOrderHolds` (the refinement
of `Channel`). `IInv` says, beside the types (`Typed`), that there is one stream
of bytes, all that has ever been written, of which `Written` says where each item
begins; and that what the reader has taken of the current item, what waits in its socket
and what is under way are adjacent parts of that stream (`Flow`). Only a cut
breaks its end off. `Stage` says that no more is taken than the frame or the
file has, which is what keeps the next item's beginning at its place. So a buffer
that is full holds the item's own frame (`WholeFrame`), its size field is the size
that was written (`Header`, `TwoDigits`), and decoding gives the message back. A read
fails in a frame of a stream that was shut only if bytes are missing, and there are
none missing (`ReadFailsInv`). `ScriptsAssumption` says what a writer writes: messages
whose size fits into the size field, and a `sync_complete` or, right after a
`transfer_request`, a file as the last thing. In the program the limit is far below
what the field can hold, so every message that passes satisfies it. `Sent`, the
abstract history, is stated as the written beginning of the script without the
file that may end it.

Every invariant, action property and refinement that the passing runs check is thus
a theorem too (`MyDrive`'s under the conditions named above). Liveness
(`PromiseFulfilled`, `EndsOrShortSource`, `EveryRunEnds`, `EveryReadEnds`) stays with
TLC: fairness and ENABLED are beyond the prover.

## Not modelled

- Inside `Storage` and `MyDrive` a checksum is the content itself: collisions
  are `Checksum`'s subject.
- Branches that two builds of this code cannot reach: `decode_frame` refuses a
  frame of another version before `start_with_hello` compares the version inside
  Hello, and no side sends a frame of another type than the other expects; where
  such a branch has an action of its own it is the IF in it.
- Payloads and lists of 2^32 and more elements (`Protocol!WellFormed`): the
  frame's limit is far below.
- Text: `trim_copy`, comment signs and colons of a configuration line, the
  wording of messages (their identity is kept where `ErrorTold` needs it),
  `listen_host`.
- `is_valid_relative_path` and `make_safe_storage_path`: the names of scanned
  files always pass; `list_relative_filenames` is used by the tests only.
- Power failure: the program never calls fsync; a crash here is that of a
  process, the directory survives it as it was.
- Directories and other non-regular entries; several client ids (their
  directories are disjoint as long as ids are plain names).
- The stream's own buffer: a block is more than a stream keeps, see `Storage`.
- Throughput, output, command lines.

## Plan

Done: `UploadManager`, `UploadTransfer`, `SyncClient`, `MyDrive` (with `Storage` and
`Mirror`), `Protocol`, `Framing` (with `Channel`), `Checksum` and `Config`, all with
proofs.

Next: shorter proofs where lemmas of two modules say the same (`Framing_proof`'s parts of a
sequence, `UploadTransfer_proof`'s adjacent parts), and `EveryRunEnds` split
into the steps that lead to the end, so that the safety part of the argument can be
proved.

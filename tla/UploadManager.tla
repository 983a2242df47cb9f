--------------------------- MODULE UploadManager ---------------------------
(***************************************************************************)
(* The client's pool of upload connections: class UploadManager of         *)
(* src/src/client/client_app.cpp.  The plan's files are queued, at most    *)
(* MaxConnections of them are uploaded at a time, every connection calls   *)
(* on_done_ once (module UploadTransfer shows that it does) and the        *)
(* promise must be fulfilled once, when the last result is in.             *)
(*                                                                         *)
(* The client's io_context is run by one thread, so the loop of run() and  *)
(* a completion callback never overlap: a callback waits until the loop    *)
(* has made its last call of launch_next.                                  *)
(***************************************************************************)
EXTENDS Naturals, Sequences, FiniteSets

CONSTANTS QueueSizes,     \* how many files a plan may name
          MaxConnections  \* config_.max_connections

ASSUME QueueSizesAssumption == QueueSizes \subseteq Nat
ASSUME MaxConnectionsAssumption == MaxConnections \in Nat \ {0}

VARIABLES queue_size,  \* queue_.size(), filled by the constructor from the plan
          started,     \* run() has been called
          to_launch,   \* iterations the loop of run() still has to make
          next_index,  \* next_index_: how many tasks have been launched
          in_flight,   \* in_flight_: the counter the code keeps
          active,      \* the connections that have not called on_done_ yet
          results,     \* results_: what the connections reported, in order
          promise      \* the values promise_.set_value was called with

vars == <<queue_size, started, to_launch, next_index, in_flight, active,
          results, promise>>

Task == 1..queue_size
UploadResult == [task : Task, ok : BOOLEAN]
(* Slips a change of this code could make; MCUploadManager's properties    *)
(* must tell each of them from the definition that follows it.             *)
Concurrency_unlimited == queue_size
Concurrency_one_less == IF queue_size < MaxConnections THEN queue_size
                                                     ELSE MaxConnections - 1

Concurrency == IF queue_size < MaxConnections THEN queue_size
                                            ELSE MaxConnections

Init ==
    /\ queue_size \in QueueSizes
    /\ started = FALSE
    /\ to_launch = 0
    /\ next_index = 0
    /\ in_flight = 0
    /\ active = {}
    /\ results = <<>>
    /\ promise = <<>>

-----------------------------------------------------------------------------
(* Slips: no test of the queue's end; no test that nothing is in flight.   *)
launch_next_past_end(flying, open, collected) ==
    /\ results' = collected
    /\ in_flight' = flying + 1
    /\ active' = open \cup {next_index + 1}
    /\ next_index' = next_index + 1
    /\ UNCHANGED <<queue_size, promise>>

launch_next_too_early(flying, open, collected) ==
    /\ results' = collected
    /\ UNCHANGED queue_size
    /\ \/ /\ next_index >= queue_size
          /\ promise' = Append(promise, collected)
          /\ in_flight' = flying
          /\ active' = open
          /\ UNCHANGED next_index
       \/ /\ next_index < queue_size
          /\ in_flight' = flying + 1
          /\ active' = open \cup {next_index + 1}
          /\ next_index' = next_index + 1
          /\ UNCHANGED promise

(* launch_next(), called when `flying' connections are counted, `open' are *)
(* unfinished and `collected' is results_.                                 *)
launch_next(flying, open, collected) ==
    /\ results' = collected
    /\ UNCHANGED queue_size
    /\ \/ /\ next_index >= queue_size
          /\ promise' = IF flying = 0 THEN Append(promise, collected) ELSE promise
          /\ in_flight' = flying
          /\ active' = open
          /\ UNCHANGED next_index
       \/ /\ next_index < queue_size
          /\ in_flight' = flying + 1
          /\ active' = open \cup {next_index + 1}
          /\ next_index' = next_index + 1
          /\ UNCHANGED promise

(* Slip: the empty queue is forgotten.                                     *)
Run_without_empty_case ==
    /\ ~started
    /\ started' = TRUE
    /\ to_launch' = Concurrency
    /\ UNCHANGED <<queue_size, next_index, in_flight, active, results, promise>>

(* run(): an empty queue fulfils the promise at once; otherwise the loop   *)
(* has Concurrency iterations to make.                                     *)
Run ==
    /\ ~started
    /\ started' = TRUE
    /\ to_launch' = Concurrency
    /\ promise' = IF queue_size = 0 THEN Append(promise, <<>>) ELSE promise
    /\ UNCHANGED <<queue_size, next_index, in_flight, active, results>>

RunLoop ==
    /\ to_launch > 0
    /\ to_launch' = to_launch - 1
    /\ launch_next(in_flight, active, results)
    /\ UNCHANGED started

(* The callback given to UploadConnection, for connection t.               *)
OnDone(t, ok) ==
    /\ started /\ to_launch = 0
    /\ t \in active
    /\ launch_next(in_flight - 1, active \ {t},
                   Append(results, [task |-> t, ok |-> ok]))
    /\ UNCHANGED <<started, to_launch>>

Next ==
    \/ Run
    \/ RunLoop
    \/ \E t \in Task, ok \in BOOLEAN : OnDone(t, ok)

Spec == Init /\ [][Next]_vars

(* The io thread keeps running handlers, and every connection that was     *)
(* started reports in the end.                                             *)
FairSpec == Spec /\ WF_vars(Next)

-----------------------------------------------------------------------------
TypeOK ==
    /\ queue_size \in QueueSizes
    /\ started \in BOOLEAN
    /\ to_launch \in 0..Concurrency
    /\ next_index \in 0..queue_size
    /\ in_flight \in 0..queue_size
    /\ active \in SUBSET Task
    /\ results \in Seq(UploadResult)
    /\ promise \in Seq(Seq(UploadResult))

(* README.md:8 "parallel uploads, limited by max_connections": the number  *)
(* of connections really open never exceeds the limit, and it is the       *)
(* number the code counts.                                                 *)
ConnectionLimit ==
    /\ Cardinality(active) <= MaxConnections
    /\ in_flight = Cardinality(active)

(* The pool is never idle while work is waiting: once the loop of run()    *)
(* is over, a task that is still queued means that all the connections     *)
(* allowed are busy.  A completion that failed to launch a successor       *)
(* would stall the sync without breaking ConnectionLimit.                  *)
PoolSaturated ==
    started /\ to_launch = 0 /\ next_index < queue_size
        => in_flight = MaxConnections

Reported(seq) == {seq[i].task : i \in DOMAIN seq}

(* The promise is fulfilled at most once (a second set_value would throw   *)
(* in the io thread), never while a connection is open, and with exactly   *)
(* one result per task: start_uploads decides success from that value.     *)
PromiseSound ==
    /\ Len(promise) <= 1
    /\ promise # <<>> =>
        /\ active = {}
        /\ Len(promise[1]) = queue_size
        /\ Reported(promise[1]) = Task

(* The helper thread blocked in future.get() is released: the promise is   *)
(* fulfilled in the end, however many uploads fail.                        *)
PromiseFulfilled == <>(promise # <<>>)
=============================================================================

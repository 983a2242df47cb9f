------------------------ MODULE UploadManager_proof ------------------------
(***************************************************************************)
(* For every size of the queue and every limit on the connections: the     *)
(* pool keeps the limit, stays saturated while tasks are queued, and       *)
(* fulfils its promise at most once and only with the complete results.    *)
(***************************************************************************)
EXTENDS UploadManager, FiniteSetTheorems, SequenceTheorems, TLAPS

(* Before run(), nothing has happened.                                     *)
Idle ==
    ~started => /\ to_launch = 0
                /\ next_index = 0
                /\ active = {}
                /\ results = <<>>
                /\ promise = <<>>

(* During the loop of run(), its iterations are what launched tasks, and   *)
(* no connection has reported.                                             *)
Launching ==
    to_launch > 0 => /\ started
                     /\ next_index = Concurrency - to_launch
                     /\ results = <<>>
                     /\ promise = <<>>
                     /\ in_flight = next_index

(* Every task launched is either open or reported, and counted once.       *)
Accounting ==
    /\ active \subseteq 1..next_index
    /\ IsFiniteSet(active)
    /\ in_flight = Cardinality(active)
    /\ in_flight <= MaxConnections
    /\ Len(results) + in_flight = next_index
    /\ Reported(results) = (1..next_index) \ active

Fulfilment ==
    promise # <<>> => /\ promise = <<results>>
                      /\ started
                      /\ to_launch = 0
                      /\ active = {}
                      /\ next_index = queue_size

IInv ==
    /\ TypeOK
    /\ Idle
    /\ Launching
    /\ Accounting
    /\ PoolSaturated
    /\ Fulfilment

-----------------------------------------------------------------------------
(* Concurrency is the smaller of the two limits.                           *)
LEMMA ConcurrencyBounds ==
    ASSUME TypeOK
    PROVE  /\ Concurrency \in Nat
           /\ Concurrency <= queue_size
           /\ Concurrency <= MaxConnections
           /\ Concurrency = queue_size \/ Concurrency = MaxConnections
           /\ queue_size > 0 => Concurrency > 0
  BY QueueSizesAssumption, MaxConnectionsAssumption DEF TypeOK, Concurrency

(* Appending a result reports its task and no other.                       *)
LEMMA ReportedAppend ==
    ASSUME NEW seq \in Seq(UploadResult), NEW r \in UploadResult
    PROVE  /\ Append(seq, r) \in Seq(UploadResult)
           /\ Len(Append(seq, r)) = Len(seq) + 1
           /\ Reported(Append(seq, r)) = Reported(seq) \cup {r.task}
  <1> DEFINE longer == Append(seq, r)
  <1>1. longer \in Seq(UploadResult) /\ Len(longer) = Len(seq) + 1
    OBVIOUS
  <1>2. /\ DOMAIN longer = DOMAIN seq \cup {Len(seq) + 1}
        /\ \A i \in DOMAIN seq : longer[i] = seq[i]
        /\ longer[Len(seq) + 1] = r
    OBVIOUS
  <1>3. Reported(longer) = Reported(seq) \cup {r.task}
    BY <1>2 DEF Reported
  <1> QED BY <1>1, <1>3

LEMMA InitInv == Init => IInv
  <1> SUFFICES ASSUME Init PROVE IInv
    OBVIOUS
  <1> USE DEF Init
  <1>1. Concurrency \in Nat
    BY QueueSizesAssumption, MaxConnectionsAssumption DEF Concurrency
  <1>2. TypeOK
    <2>1. queue_size \in Nat
      BY QueueSizesAssumption
    <2>2. results \in Seq(UploadResult) /\ promise \in Seq(Seq(UploadResult))
      BY EmptySeq
    <2>3. /\ to_launch \in 0..Concurrency
          /\ next_index \in 0..queue_size /\ in_flight \in 0..queue_size
      BY <1>1, <2>1
    <2>4. queue_size \in QueueSizes /\ started \in BOOLEAN /\ active \in SUBSET Task
      OBVIOUS
    <2> QED BY <2>2, <2>3, <2>4 DEF TypeOK
  <1>3. Idle /\ Launching /\ Fulfilment /\ PoolSaturated
    BY DEF Idle, Launching, Fulfilment, PoolSaturated
  <1>4. Accounting
    <2>1. Reported(<<>>) = {}
      BY DEF Reported
    <2> QED BY <2>1, FS_EmptySet, MaxConnectionsAssumption DEF Accounting
  <1> QED BY <1>2, <1>3, <1>4 DEF IInv

LEMMA RunInv == IInv /\ Run => IInv'
  <1> SUFFICES ASSUME IInv, Run PROVE IInv'
    OBVIOUS
  <1> USE DEF IInv, Run
  <1>1. /\ Concurrency \in Nat /\ Concurrency <= queue_size
        /\ queue_size > 0 => Concurrency > 0
        /\ Concurrency' = Concurrency
    BY ConcurrencyBounds DEF Concurrency
  <1>2. next_index = 0 /\ active = {} /\ results = <<>> /\ promise = <<>>
    BY DEF Idle
  <1>3. in_flight = 0
    BY <1>2, FS_EmptySet DEF Accounting
  <1>4. TypeOK'
    <2>1. Task' = Task
      BY DEF Task
    <2>2. UploadResult' = UploadResult
      BY <2>1 DEF UploadResult
    <2>3. promise' \in Seq(Seq(UploadResult))
      <3>1. <<>> \in Seq(UploadResult)
        BY EmptySeq
      <3> QED BY <3>1, AppendProperties DEF TypeOK
    <2>4. to_launch' \in 0..Concurrency
      BY <1>1
    <2> QED BY <1>1, <2>1, <2>2, <2>3, <2>4 DEF TypeOK
  <1>5. Idle' /\ Launching'
    <2>1. to_launch' > 0 => queue_size > 0
      BY <1>1, QueueSizesAssumption DEF TypeOK
    <2> QED BY <1>1, <1>2, <1>3, <2>1 DEF Idle, Launching, TypeOK
  <1>6. Accounting'
    BY DEF Accounting, Reported
  <1>7. PoolSaturated'
    BY <1>1, <1>2, QueueSizesAssumption DEF PoolSaturated, TypeOK
  <1>8. Fulfilment'
    <2>1. CASE queue_size = 0
      BY <1>1, <1>2, <2>1 DEF Fulfilment
    <2>2. CASE queue_size # 0
      BY <1>2, <2>2 DEF Fulfilment
    <2> QED BY <2>1, <2>2
  <1> QED BY <1>4, <1>5, <1>6, <1>7, <1>8

LEMMA RunLoopInv == IInv /\ RunLoop => IInv'
  <1> SUFFICES ASSUME IInv, RunLoop PROVE IInv'
    OBVIOUS
  <1> USE DEF IInv, RunLoop
  <1>0. queue_size \in Nat /\ MaxConnections \in Nat
    BY QueueSizesAssumption, MaxConnectionsAssumption DEF TypeOK
  <1>1. /\ started /\ results = <<>> /\ promise = <<>>
        /\ next_index = Concurrency - to_launch /\ in_flight = next_index
    BY DEF Launching
  <1>2. /\ Concurrency \in Nat
        /\ Concurrency <= queue_size /\ Concurrency <= MaxConnections
        /\ Concurrency = queue_size \/ Concurrency = MaxConnections
    BY ConcurrencyBounds
  <1>3. to_launch \in Nat /\ next_index \in Nat /\ next_index < Concurrency
    BY <1>1, <1>2 DEF TypeOK
  <1>4. next_index < queue_size
    BY <1>0, <1>2, <1>3
  <1>5. /\ results' = <<>> /\ promise' = <<>> /\ started' = started
        /\ in_flight' = in_flight + 1 /\ next_index' = next_index + 1
        /\ active' = active \cup {next_index + 1}
        /\ to_launch' = to_launch - 1 /\ queue_size' = queue_size
    BY <1>0, <1>1, <1>3, <1>4 DEF launch_next
  <1>6. Concurrency' = Concurrency
    BY <1>5 DEF Concurrency
  <1>7. TypeOK'
    <2>1. results' \in Seq(UploadResult') /\ promise' \in Seq(Seq(UploadResult'))
      BY <1>5, EmptySeq
    <2>2. active' \in SUBSET Task'
      BY <1>0, <1>3, <1>4, <1>5 DEF TypeOK, Task
    <2>3. in_flight' \in 0..queue_size' /\ next_index' \in 0..queue_size'
      BY <1>0, <1>1, <1>3, <1>4, <1>5
    <2> QED BY <1>2, <1>3, <1>5, <1>6, <2>1, <2>2, <2>3 DEF TypeOK
  <1>8. Idle' /\ Launching' /\ Fulfilment'
    BY <1>1, <1>2, <1>3, <1>5, <1>6 DEF Idle, Launching, Fulfilment
  <1>9. Accounting'
    <2>1. active \subseteq 1..next_index /\ IsFiniteSet(active)
          /\ in_flight = Cardinality(active)
          /\ Reported(results) = (1..next_index) \ active
      BY DEF Accounting
    <2>2. next_index + 1 \notin active
      BY <2>1, <1>3
    <2>3. IsFiniteSet(active') /\ Cardinality(active') = in_flight'
      BY <2>1, <2>2, <1>5, FS_AddElement
    <2>4. active' \subseteq 1..next_index'
      BY <2>1, <1>3, <1>5
    <2>5. Reported(results') = (1..next_index') \ active'
      <3>1. Reported(results') = (1..next_index) \ active
        BY <2>1, <1>1, <1>5
      <3>2. 1..(next_index + 1) = (1..next_index) \cup {next_index + 1}
        BY <1>3
      <3> QED BY <3>1, <3>2, <1>3, <1>5
    <2>6. in_flight' <= MaxConnections /\ Len(results') + in_flight' = next_index'
      BY <1>0, <1>1, <1>2, <1>3, <1>5
    <2> QED BY <2>3, <2>4, <2>5, <2>6 DEF Accounting
  <1>10. PoolSaturated'
    BY <1>0, <1>1, <1>2, <1>3, <1>5 DEF PoolSaturated
  <1> QED BY <1>7, <1>8, <1>9, <1>10

LEMMA OnDoneInv ==
    ASSUME IInv, NEW t \in Task, NEW ok \in BOOLEAN, OnDone(t, ok)
    PROVE  IInv'
  <1> USE DEF IInv, OnDone
  <1> DEFINE r == [task |-> t, ok |-> ok]
  <1>0. queue_size \in Nat /\ MaxConnections \in Nat /\ next_index \in Nat
        /\ in_flight \in Nat /\ to_launch = 0 /\ started
    BY QueueSizesAssumption, MaxConnectionsAssumption DEF TypeOK
  <1>1. /\ r \in UploadResult /\ r.task = t
        /\ results \in Seq(UploadResult) /\ Len(results) \in Nat
    BY LenProperties DEF UploadResult, TypeOK
  <1>2. promise = <<>>
    BY DEF Fulfilment
  <1>3. /\ active \subseteq 1..next_index /\ IsFiniteSet(active) /\ t \in active
        /\ in_flight = Cardinality(active) /\ in_flight <= MaxConnections
        /\ Len(results) + in_flight = next_index
        /\ Reported(results) = (1..next_index) \ active
    BY DEF Accounting
  <1>4. /\ IsFiniteSet(active \ {t}) /\ Cardinality(active \ {t}) = in_flight - 1
        /\ in_flight - 1 \in Nat
    BY <1>3, FS_RemoveElement, FS_CardinalityType
  <1>5. /\ results' = Append(results, r) /\ started' = started
        /\ to_launch' = 0 /\ queue_size' = queue_size
    BY <1>0 DEF launch_next
  <1>6. /\ results' \in Seq(UploadResult) /\ Len(results') = Len(results) + 1
        /\ Reported(results') = Reported(results) \cup {t}
    BY <1>1, <1>5, ReportedAppend
  <1>7. Concurrency' = Concurrency /\ Task' = Task
    BY <1>5 DEF Concurrency, Task
  <1>8. UploadResult' = UploadResult
    BY <1>7 DEF UploadResult
  <1>9. CASE next_index >= queue_size
    <2>1. /\ in_flight' = in_flight - 1 /\ active' = active \ {t}
          /\ next_index' = next_index /\ next_index = queue_size
          /\ promise' = IF in_flight - 1 = 0 THEN <<results'>> ELSE <<>>
      BY <1>0, <1>2, <1>5, <1>9 DEF launch_next, TypeOK
    <2>2. TypeOK'
      BY <1>0, <1>4, <1>5, <1>6, <1>7, <1>8, <2>1 DEF TypeOK
    <2>3. Idle' /\ Launching' /\ PoolSaturated'
      BY <1>0, <1>5, <2>1 DEF Idle, Launching, PoolSaturated
    <2>4. Accounting'
      <3>1. Reported(results') = (1..next_index') \ active'
        BY <1>3, <1>6, <2>1
      <3>2. /\ IsFiniteSet(active') /\ in_flight' = Cardinality(active')
            /\ active' \subseteq 1..next_index'
        BY <1>3, <1>4, <2>1
      <3>3. in_flight' <= MaxConnections /\ Len(results') + in_flight' = next_index'
        BY <1>0, <1>1, <1>3, <1>6, <2>1
      <3> QED BY <3>1, <3>2, <3>3, <1>5 DEF Accounting
    <2>5. Fulfilment'
      <3>1. in_flight - 1 = 0 => active \ {t} = {}
        BY <1>4, FS_EmptySet
      <3> QED BY <1>0, <1>5, <2>1, <3>1 DEF Fulfilment
    <2> QED BY <2>2, <2>3, <2>4, <2>5
  <1>10. CASE next_index < queue_size
    <2>1. /\ in_flight' = in_flight /\ next_index' = next_index + 1
          /\ active' = (active \ {t}) \cup {next_index + 1} /\ promise' = <<>>
      BY <1>0, <1>2, <1>3, <1>4, <1>10 DEF launch_next
    <2>2. TypeOK'
      BY <1>0, <1>4, <1>5, <1>6, <1>7, <1>8, <1>10, <2>1 DEF TypeOK, Task
    <2>3. Idle' /\ Launching' /\ Fulfilment'
      BY <1>0, <1>5, <2>1 DEF Idle, Launching, Fulfilment
    <2>4. PoolSaturated'
      BY <1>0, <1>5, <1>10, <2>1 DEF PoolSaturated
    <2>5. Accounting'
      <3>1. next_index + 1 \notin active \ {t}
        BY <1>0, <1>3
      <3>2. IsFiniteSet(active') /\ Cardinality(active') = in_flight'
        <4>1. /\ IsFiniteSet((active \ {t}) \cup {next_index + 1})
              /\ Cardinality((active \ {t}) \cup {next_index + 1})
                   = Cardinality(active \ {t}) + 1
          BY <1>4, <3>1, FS_AddElement
        <4>2. Cardinality(active \ {t}) + 1 = in_flight
          BY <1>0, <1>4
        <4> QED BY <2>1, <4>1, <4>2
      <3>3. active' \subseteq 1..next_index'
        BY <1>0, <1>3, <2>1
      <3>4. Reported(results') = (1..next_index') \ active'
        <4>1. 1..(next_index + 1) = (1..next_index) \cup {next_index + 1}
          BY <1>0
        <4> QED BY <1>0, <1>3, <1>6, <2>1, <3>1, <4>1
      <3>5. in_flight' <= MaxConnections /\ Len(results') + in_flight' = next_index'
        <4>1. in_flight' = in_flight /\ next_index' = next_index + 1
          BY <2>1
        <4>2. Len(results') = Len(results) + 1
          BY <1>6
        <4>3. in_flight <= MaxConnections /\ Len(results) + in_flight = next_index
          BY <1>3
        <4>4. (Len(results) + 1) + in_flight = next_index + 1
          BY <1>0, <1>1, <4>3
        <4> QED BY <4>1, <4>2, <4>3, <4>4
      <3> QED BY <3>2, <3>3, <3>4, <3>5 DEF Accounting
    <2> QED BY <2>2, <2>3, <2>4, <2>5
  <1> QED BY <1>0, <1>9, <1>10

LEMMA StepInv == IInv /\ [Next]_vars => IInv'
  <1> SUFFICES ASSUME IInv, [Next]_vars PROVE IInv'
    OBVIOUS
  <1>1. CASE Run
    BY <1>1, RunInv
  <1>2. CASE RunLoop
    BY <1>2, RunLoopInv
  <1>3. ASSUME NEW t \in Task, NEW ok \in BOOLEAN, OnDone(t, ok) PROVE IInv'
    BY <1>3, OnDoneInv
  <1>4. CASE UNCHANGED vars
    BY <1>4 DEF vars, IInv, TypeOK, Idle, Launching, Accounting, PoolSaturated,
                Fulfilment, Reported, Concurrency, Task, UploadResult
  <1> QED BY <1>1, <1>2, <1>3, <1>4 DEF Next

(* IInv is an inductive invariant of the pool.                             *)
THEOREM InductiveInvariant == Spec => []IInv
  BY InitInv, StepInv, PTL DEF Spec

-----------------------------------------------------------------------------
(* The variables keep their types: UploadManager's fields.                 *)
THEOREM TypeCorrect == Spec => []TypeOK
  <1>1. IInv => TypeOK
    BY DEF IInv
  <1> QED BY <1>1, InductiveInvariant, PTL

(* launch_next never opens more than max_connections connections, and      *)
(* in_flight_ counts the open ones, for every plan and every limit.        *)
THEOREM ConnectionLimitHolds == Spec => []ConnectionLimit
  <1>1. IInv => ConnectionLimit
    BY DEF IInv, Accounting, ConnectionLimit
  <1> QED BY <1>1, InductiveInvariant, PTL

(* The pool never idles while the queue holds a task.                      *)
THEOREM PoolSaturatedHolds == Spec => []PoolSaturated
  <1>1. IInv => PoolSaturated
    BY DEF IInv
  <1> QED BY <1>1, InductiveInvariant, PTL

LEMMA FulfilledIsComplete ==
    ASSUME IInv, promise # <<>>
    PROVE  active = {} /\ Len(results) = queue_size
  <1>1. /\ active = {} /\ next_index = queue_size
        /\ in_flight = 0 /\ Len(results) + in_flight = next_index
    BY FS_EmptySet DEF IInv, Fulfilment, Accounting
  <1>2. Len(results) \in Nat
    BY DEF IInv, TypeOK
  <1> QED BY <1>1, <1>2

(* launch_next fulfils the promise at most once, after the last connection *)
(* has reported, with one result for every file of the plan.               *)
THEOREM PromiseSoundHolds == Spec => []PromiseSound
  <1>1. IInv => PromiseSound
    <2> SUFFICES ASSUME IInv PROVE PromiseSound
      OBVIOUS
    <2>1. CASE promise = <<>>
      BY <2>1 DEF PromiseSound
    <2>2. CASE promise # <<>>
      <3>1. /\ promise = <<results>> /\ active = {} /\ next_index = queue_size
            /\ in_flight = 0 /\ Len(results) + in_flight = next_index
            /\ Reported(results) = (1..next_index) \ active
        BY <2>2, FS_EmptySet DEF IInv, Fulfilment, Accounting
      <3>2. Len(results) \in Nat /\ Len(promise) = 1 /\ promise[1] = results
        BY <3>1 DEF IInv, TypeOK
      <3> QED BY <3>1, <3>2 DEF PromiseSound, Task
    <2> QED BY <2>1, <2>2
  <1> QED BY <1>1, InductiveInvariant, PTL
=============================================================================

---------------------------- MODULE MyDrive_proof ----------------------------
(***************************************************************************)
(* The whole system, for any files and contents, any number of runs,       *)
(* connections, server threads, faults and edits.                          *)
(***************************************************************************)
EXTENDS MyDrive, FiniteSetTheorems, TLAPS

USE DEF Fault

-----------------------------------------------------------------------------
(* compute_upload_plan's order: the plan names each of the wanted files    *)
(* once.  Ranks are one-to-one from the chosen positions to an interval of *)
(* the same size, so every number in it is the rank of one position.       *)
LEMMA RanksAreIndices ==
    ASSUME NEW n \in Nat, NEW chosen \in SUBSET (1..n)
    PROVE  LET Rank(i) == Cardinality({j \in chosen : j <= i})
           IN /\ Cardinality(chosen) \in Nat
              /\ \A k \in 1..Cardinality(chosen) : \E i \in chosen : Rank(i) = k
              /\ \A i \in chosen : Rank(i) \in 1..Cardinality(chosen)
              /\ \A i, j \in chosen : Rank(i) = Rank(j) => i = j
<1> DEFINE Upto(i) == {j \in chosen : j <= i}
           Rank(i) == Cardinality(Upto(i))
           size == Cardinality(chosen)
<1>1. IsFiniteSet(chosen) /\ size \in Nat
  <2>1. IsFiniteSet(1..n)
    BY FS_Interval
  <2> QED
    BY <2>1, FS_Subset, FS_CardinalityType
<1>2. ASSUME NEW i \in chosen
      PROVE  Rank(i) \in 1..size
  <2>1. Upto(i) \subseteq chosen /\ i \in Upto(i)
    OBVIOUS
  <2>2. IsFiniteSet(Upto(i)) /\ Rank(i) \in Nat /\ Rank(i) <= size /\ Rank(i) # 0
    BY <1>1, <2>1, FS_Subset, FS_CardinalityType, FS_EmptySet
  <2> QED
    BY <1>1, <2>2
<1>3. ASSUME NEW i \in chosen, NEW j \in chosen, i < j
      PROVE  Rank(i) # Rank(j)
  <2>1. Upto(i) \subseteq Upto(j) /\ j \in Upto(j) /\ j \notin Upto(i)
    <3>1. chosen \subseteq Nat /\ i \in Nat /\ j \in Nat
      OBVIOUS
    <3>2. \A k \in Nat : k <= i => k <= j
      BY <1>3, <3>1
    <3>3. Upto(i) \subseteq Upto(j)
      BY <3>1, <3>2
    <3>4. j \in Upto(j)
      BY <3>1
    <3>5. ~(j <= i)
      BY <1>3, <3>1
    <3> QED
      BY <3>3, <3>4, <3>5
  <2>2. IsFiniteSet(Upto(j))
    BY <1>1, FS_Subset
  <2> QED
    BY <2>1, <2>2, FS_Subset
<1>4. \A i, j \in chosen : Rank(i) = Rank(j) => i = j
  BY <1>3
<1> DEFINE rank == [i \in chosen |-> Rank(i)]
<1> HIDE DEF Rank
<1>5. rank \in Injection(chosen, 1..size)
  BY <1>2, <1>4 DEF Injection, IsInjective
<1>6. IsFiniteSet(1..size) /\ Cardinality(1..size) = size
  BY <1>1, FS_Interval
<1>7. rank \in Surjection(chosen, 1..size)
  BY <1>5, <1>6, FS_Injection
<1>8. \A k \in 1..size : \E i \in chosen : Rank(i) = k
  BY <1>7 DEF Surjection
<1> QED
  BY <1>1, <1>2, <1>4, <1>8 DEF Rank

LEMMA InOrderIsOrdered ==
    ASSUME NEW T, NEW order \in Seq(T), IsInjective(order), NEW names \in SUBSET Range(order)
    PROVE  /\ InOrder(order, names) \in Seq(names)
           /\ IsInjective(InOrder(order, names))
           /\ Range(InOrder(order, names)) = names
<1> DEFINE chosen == {i \in DOMAIN order : order[i] \in names}
           Rank(i) == Cardinality({j \in chosen : j <= i})
           size == Cardinality(chosen)
           At(k) == CHOOSE i \in chosen : Rank(i) = k
           plan == InOrder(order, names)
<1>1. Len(order) \in Nat /\ DOMAIN order = 1..Len(order)
  OBVIOUS
<1>2. chosen \in SUBSET (1..Len(order))
  BY <1>1
<1>3. /\ size \in Nat
      /\ \A k \in 1..size : \E i \in chosen : Rank(i) = k
      /\ \A i \in chosen : Rank(i) \in 1..size
      /\ \A i, j \in chosen : Rank(i) = Rank(j) => i = j
  <2> HIDE DEF chosen
  <2> QED
    BY <1>1, <1>2, RanksAreIndices
<1>4. plan = [k \in 1..size |-> order[At(k)]]
  BY DEF InOrder
<1>5. \A i \in chosen : order[i] \in names
  OBVIOUS
<1> HIDE DEF chosen, Rank, plan
<1>6. \A k \in 1..size : At(k) \in chosen /\ Rank(At(k)) = k
  BY <1>3
<1>7. \A i \in chosen : At(Rank(i)) = i
  BY <1>3, <1>6
<1> HIDE DEF At, size
<1>8. plan \in [1..size -> names]
  BY <1>4, <1>5, <1>6
<1>9. IsInjective(plan)
  <2> SUFFICES ASSUME NEW k \in 1..size, NEW l \in 1..size, plan[k] = plan[l]
               PROVE  k = l
    BY <1>8 DEF IsInjective
  <2>1. At(k) \in DOMAIN order /\ At(l) \in DOMAIN order /\ order[At(k)] = order[At(l)]
    BY <1>1, <1>2, <1>4, <1>6
  <2>2. At(k) = At(l)
    BY <2>1 DEF IsInjective
  <2> QED
    BY <1>6, <2>2
<1>10. ASSUME NEW name \in names
       PROVE  \E k \in 1..size : plan[k] = name
  <2>1. PICK i \in DOMAIN order : order[i] = name
    BY DEF Range
  <2>2. i \in chosen
    BY <2>1 DEF chosen
  <2> QED
    BY <1>3, <1>4, <1>7, <2>1, <2>2
<1>11. Range(plan) = names
  BY <1>8, <1>10 DEF Range
<1>12. plan \in Seq(names)
  BY <1>3, <1>8
<1> QED
  BY <1>9, <1>11, <1>12 DEF plan

-----------------------------------------------------------------------------
(* The types, sharper than TypeOK.  The sets of records let a step be      *)
(* followed through its EXCEPTs.                                           *)
Listing == UNION {[names -> Contents] : names \in SUBSET Name}
Found == UNION {[names -> Data] : names \in SUBSET StoredName}

Disk == [dir : [StoredName -> Inode \cup {NoFile}], data : [Inode -> Data]]
RunRecord ==
    [pc : {"idle", "listed", "uploading", "completing", "over", "killed"},
     files : Listing, launched : Nat, completion : {"none", "ok", "failed"},
     ok : BOOLEAN, alone : BOOLEAN]
ControlRecord ==
    [pc : {"none", "listing", "scanning", "planned", "cleaning", "acked", "errored", "dropped"},
     todo : SUBSET StoredName, found : Found, plan : Seq(Name)]
TransferRecord ==
    [pc : {"none", "requested", "receiving", "verifying", "discarding", "publishing",
           "unlinking", "retrying", "ended"},
     source : Contents \cup {NoFile, <<>>}, received : Nat, inode : Inode \cup {NoFile},
     status : {"none", "ok", "write_failed", "checksum_mismatch", "lost"}]
UploadState == {"none", "waiting", "ok", "failed"}

Typed ==
    /\ local \in [Name -> Contents \cup {NoFile}]
    /\ disk \in Disk
    /\ DOMAIN registry \subseteq Name
    /\ run \in [Run -> RunRecord]
    /\ control \in [Run -> ControlRecord]
    /\ upload \in [Run -> [Name -> UploadState]]
    /\ transfer \in [Run -> [Name -> TransferRecord]]
    /\ edits \in 0..MaxEdits /\ faults \in 0..MaxFaults

-----------------------------------------------------------------------------
(* An update of one entry of a table of tables.                            *)
LEMMA Update2 ==
    ASSUME NEW A, NEW B, NEW V, NEW f \in [A -> [B -> V]], NEW a \in A, NEW b \in B, NEW v,
           NEW g, g = [f EXCEPT ![a][b] = v]
    PROVE  /\ g[a][b] = v
           /\ \A c \in B \ {b} : g[a][c] = f[a][c]
           /\ \A d \in A \ {a} : g[d] = f[d]
           /\ v \in V => g \in [A -> [B -> V]]
  OBVIOUS

LEMMA EmptyListing == NoFiles \in Listing /\ NoFiles \in Found /\ DOMAIN NoFiles = {}
  <1>1. NoFiles \in [{} -> Contents] /\ NoFiles \in [{} -> Data]
    BY DEF NoFiles
  <1>2. {} \in SUBSET Name /\ {} \in SUBSET StoredName
    OBVIOUS
  <1> QED
    BY <1>1, <1>2, Zenon DEF Listing, Found, NoFiles

LEMMA ListingIsFunction ==
    ASSUME NEW files \in Listing
    PROVE  DOMAIN files \subseteq Name /\ \A name \in DOMAIN files : files[name] \in Contents
  <1>1. PICK names \in SUBSET Name : files \in [names -> Contents]
    BY DEF Listing
  <1> QED
    BY <1>1

LEMMA FoundIsFunction ==
    ASSUME NEW found \in Found
    PROVE  DOMAIN found \subseteq StoredName /\ \A name \in DOMAIN found : found[name] \in Data
  <1>1. PICK names \in SUBSET StoredName : found \in [names -> Data]
    BY DEF Found
  <1> QED
    BY <1>1

LEMMA FoundExtended ==
    ASSUME NEW found \in Found, NEW name \in StoredName, NEW data \in Data
    PROVE  [n \in DOMAIN found \cup {name} |-> IF n = name THEN data ELSE found[n]] \in Found
  <1>1. DOMAIN found \cup {name} \in SUBSET StoredName
    BY FoundIsFunction
  <1>2. [n \in DOMAIN found \cup {name} |-> IF n = name THEN data ELSE found[n]]
          \in [DOMAIN found \cup {name} -> Data]
    BY FoundIsFunction
  <1> QED
    BY <1>1, <1>2, Zenon DEF Found

(* The names and the inodes of temporary files.                            *)
LEMMA Temps ==
    /\ \A name \in Name : /\ name \in StoredName
                          /\ temp_file_path(name) \in StoredName
                          /\ temp_file_path(name) # name
    /\ \A n, m \in Name : temp_file_path(n) = temp_file_path(m) => n = m
    /\ \A r \in Run, name \in StoredName : <<r, name>> \in Inode /\ <<r, name>> # NoFile
  <1>1. \A name \in Name : name = <<name[1], name[2]>> /\ name[2] \in Nat
    BY NamesAssumption
  <1>2. ASSUME NEW name \in Name
        PROVE  /\ name \in StoredName /\ temp_file_path(name) \in StoredName
    BY DEF StoredName
  <1>3. ASSUME NEW name \in Name
        PROVE  temp_file_path(name) # name
    BY <1>1 DEF temp_file_path
  <1>4. ASSUME NEW n \in Name, NEW m \in Name, temp_file_path(n) = temp_file_path(m)
        PROVE  n = m
    <2>1. n[1] = m[1] /\ n[2] + 1 = m[2] + 1 /\ n[2] \in Nat /\ m[2] \in Nat
      BY <1>1, <1>4 DEF temp_file_path
    <2> QED
      BY <1>1, <2>1
  <1>5. ASSUME NEW r \in Run, NEW name \in StoredName
        PROVE  <<r, name>> \in Inode /\ <<r, name>> # NoFile
    <2>1. r \in 0..NumRuns
      BY BoundsAssumption DEF Run
    <2>2. <<r, name>> \in Inode
      BY <2>1 DEF Inode
    <2> QED
      BY <2>2, NoFileAssumption
  <1> QED
    BY <1>2, <1>3, <1>4, <1>5

-----------------------------------------------------------------------------
(* The operations of Storage, for any disk.                                *)
LEMMA RemoveEffect ==
    ASSUME NEW d \in Disk, NEW name \in StoredName, NEW e, e = Remove(d, name)
    PROVE  /\ e \in Disk /\ e.data = d.data
           /\ e.dir[name] = NoFile
           /\ \A n \in StoredName \ {name} : e.dir[n] = d.dir[n]
  BY DEF Disk, Remove

LEMMA RenameEffect ==
    ASSUME NEW d \in Disk, NEW source \in StoredName, NEW target \in StoredName,
           source # target, NEW e, e = Rename(d, source, target)
    PROVE  /\ e \in Disk /\ e.data = d.data
           /\ e.dir[target] = d.dir[source] /\ e.dir[source] = NoFile
  BY DEF Disk, Rename

LEMMA EmptyData == <<>> \in Data
  BY DEF Data

LEMMA OpenTruncatedEffect ==
    ASSUME NEW d \in Disk, NEW name \in StoredName, NEW fresh \in Inode, NEW e,
           e = OpenTruncated(d, name, fresh)
    PROVE  LET inode == OpenedInode(d, name, fresh)
           IN /\ e \in Disk /\ inode \in Inode
              /\ e.dir[name] = inode
              /\ \A n \in StoredName \ {name} : e.dir[n] = d.dir[n]
              /\ e.data[inode] = <<>>
              /\ \A i \in Inode \ {inode} : e.data[i] = d.data[i]
  <1>1. CASE Exists(d, name)
    BY <1>1, EmptyData DEF Disk, OpenTruncated, OpenedInode, Exists
  <1>2. CASE ~Exists(d, name)
    BY <1>2, EmptyData DEF Disk, OpenTruncated, OpenedInode, Exists
  <1> QED
    BY <1>1, <1>2

LEMMA WriteBlockEffect ==
    ASSUME NEW d \in Disk, NEW inode \in Inode, NEW position \in Nat \ {0},
           NEW block \in Block \cup {Hole}, NEW e, e = WriteBlock(d, inode, position, block)
    PROVE  /\ e \in Disk /\ e.dir = d.dir
           /\ \A i \in Inode \ {inode} : e.data[i] = d.data[i]
  <1> DEFINE old == d.data[inode]
             length == IF Len(old) > position THEN Len(old) ELSE position
             new == [i \in 1..length |-> IF i = position THEN block
                                         ELSE IF i <= Len(old) THEN old[i] ELSE Hole]
  <1>1. old \in Seq(Block \cup {Hole}) /\ Len(old) \in Nat /\ length \in Nat
    BY DEF Disk, Data
  <1>2. ASSUME NEW i \in 1..length
        PROVE  new[i] \in Block \cup {Hole}
    <2>1. CASE i <= Len(old)
      <3>1. i \in 1..Len(old)
        BY <1>1, <2>1
      <3> QED
        BY <1>1, <2>1, <3>1
    <2>2. CASE ~(i <= Len(old))
      BY <2>2
    <2> QED
      BY <2>1, <2>2
  <1>3. new \in Data
    <2>1. new \in [1..length -> Block \cup {Hole}]
      BY <1>2
    <2> QED
      BY <1>1, <2>1 DEF Data
  <1>4. e = [d EXCEPT !.data[inode] = new]
    BY DEF WriteBlock
  <1> QED
    <2> HIDE DEF new
    <2> QED
      BY <1>3, <1>4 DEF Disk

-----------------------------------------------------------------------------
(* The inductive invariant.  The name of a temporary file is not the name  *)
(* of a client's file: without this, MCPartCollision's run shows, the copy *)
(* is not exact.                                                           *)
NoTempNames == \A name \in Name : temp_file_path(name) \notin Name

(* Runs begin in their order.                                              *)
Ordered == \A r, q \in Run : q < r /\ run[r].pc # "idle" => run[q].pc # "idle"

(* The uploads that run r has launched.                                    *)
Launched(r) == {control[r].plan[i] : i \in 1..run[r].launched}

(* One run from its beginning to its end: the client's and the control     *)
(* session's states go together, the plan names files of the list.         *)
Stages(r) ==
    /\ run[r].pc = "idle" => control[r].pc = "none" /\ ~run[r].alone
    /\ control[r].pc \in {"none", "listing", "scanning"} =>
           /\ run[r].pc \notin {"uploading", "completing"}
           /\ run[r].launched = 0 /\ control[r].plan = <<>> /\ run[r].completion = "none"
    /\ run[r].pc \in {"idle", "listed"} => run[r].launched = 0
    /\ run[r].pc \in {"idle", "listed", "uploading"} => run[r].completion = "none"
    /\ IsInjective(control[r].plan) /\ Planned(r) \subseteq DOMAIN run[r].files
    /\ run[r].launched \in 0..Len(control[r].plan)
    /\ control[r].pc \in {"cleaning", "acked"} => run[r].completion = "ok"
    /\ control[r].pc = "cleaning" => control[r].todo \cap DOMAIN run[r].files = {}

(* Its uploads: only launched ones exist, success is success at both ends, *)
(* and a completion that says so is right.                                 *)
Uploads(r) ==
    /\ run[r].completion = "ok" => /\ run[r].launched = Len(control[r].plan)
                                   /\ \A name \in Planned(r) : upload[r][name] = "ok"
    /\ \A name \in Name :
        /\ transfer[r][name].pc # "none" => name \in Launched(r)
        /\ upload[r][name] # "none" => transfer[r][name].pc # "none"
        /\ transfer[r][name].pc \in {"none", "requested"} => transfer[r][name].inode = NoFile
        /\ transfer[r][name].pc \notin {"none", "requested", "ended"} =>
               transfer[r][name].inode # NoFile
        /\ transfer[r][name].status # "none" => transfer[r][name].pc = "ended"
        /\ upload[r][name] = "ok" => transfer[r][name].status = "ok"

(* A run that is alone is alone until the next one begins, which begins    *)
(* only when it is over.                                                   *)
Undisturbed(r) ==
    run[r].alone => /\ \A q \in Run : q < r => ~Active(q)
                    /\ \A q \in Run : q > r /\ run[q].pc # "idle" => ~Active(r)

(* Two names never share an inode, and the inode that a session created is *)
(* the one it has open.                                                    *)
Inodes ==
    /\ \A n, m \in StoredName : disk.dir[n] = disk.dir[m] /\ disk.dir[n] # NoFile => n = m
    /\ \A r \in Run, name \in Name, n \in StoredName :
        disk.dir[n] = <<r, temp_file_path(name)>> =>
            transfer[r][name].inode = <<r, temp_file_path(name)>>

Quiet(r) == run[r].alone /\ Latest(r)

(* An open temporary file is the session's own, and what it is about to    *)
(* publish is verified, at the second try as at the first.                 *)
Publishing == {"publishing", "unlinking", "retrying"}

OwnTemp(r, name) ==
    /\ transfer[r][name].pc \in {"receiving", "verifying", "discarding"} \cup Publishing =>
           disk.dir[temp_file_path(name)] = transfer[r][name].inode
    /\ transfer[r][name].pc \in Publishing =>
           Content(disk, temp_file_path(name)) = run[r].files[name]

(* What a run that is alone has made of the server's directory so far: the *)
(* scan finds out what is there; a file of the plan is up to date when its *)
(* upload was published and not before; the other listed files are there   *)
(* already; and then the rest is removed.                                  *)
Copied(r) ==
    Quiet(r) =>
        /\ control[r].pc = "scanning" =>
               /\ Present(disk) \subseteq control[r].todo \cup DOMAIN control[r].found
               /\ \A name \in DOMAIN control[r].found :
                      control[r].found[name] = Content(disk, name)
        /\ \A name \in Planned(r) :
               transfer[r][name].status = "ok" <=> Content(disk, name) = run[r].files[name]
        /\ control[r].pc \in {"planned", "cleaning", "acked"} =>
               \A name \in DOMAIN run[r].files :
                   name \in Planned(r) \/ Content(disk, name) = run[r].files[name]
        /\ \A name \in Name : OwnTemp(r, name)
        /\ control[r].pc = "cleaning" => Unexpected(r) \subseteq control[r].todo
        /\ control[r].pc = "acked" => Unexpected(r) = {}

IInv ==
    /\ Typed /\ Ordered /\ Inodes
    /\ \A r \in Run : Stages(r) /\ Uploads(r) /\ Undisturbed(r)

Copies == \A r \in Run : Copied(r)

-----------------------------------------------------------------------------
LEMMA InitTyped == ASSUME Init PROVE Typed
<1> USE DEF Init
<1>1. local \in [Name -> Contents \cup {NoFile}]
  BY AtStartAssumption
<1>2. disk \in Disk
  <2>1. PICK stored \in StoredAtStart :
          disk = [dir |-> [name \in StoredName |->
                             IF stored[name] = NoFile THEN NoFile ELSE <<0, name>>],
                  data |-> [inode \in Inode |->
                             IF inode[1] = 0 /\ stored[inode[2]] # NoFile
                             THEN stored[inode[2]] ELSE <<>>]]
    OBVIOUS
  <2>2. \A name \in StoredName : stored[name] \in {NoFile} \cup Data
    BY AtStartAssumption
  <2>3. \A name \in StoredName : <<0, name>> \in Inode
    BY BoundsAssumption DEF Inode
  <2>4. \A inode \in Inode : inode[2] \in StoredName
    BY DEF Inode
  <2> QED
    BY <2>1, <2>2, <2>3, <2>4, EmptyData DEF Disk
<1>3. DOMAIN registry \subseteq Name
  BY DEF NoFiles
<1>4. run \in [Run -> RunRecord]
  BY EmptyListing DEF RunRecord
<1>5. control \in [Run -> ControlRecord]
  <2>1. <<>> \in Seq(Name)
    OBVIOUS
  <2> QED
    BY EmptyListing, <2>1 DEF ControlRecord
<1>6. upload \in [Run -> [Name -> UploadState]]
  BY DEF UploadState
<1>7. transfer \in [Run -> [Name -> TransferRecord]]
  BY DEF TransferRecord
<1>8. edits \in 0..MaxEdits /\ faults \in 0..MaxFaults
  BY BoundsAssumption
<1> QED
  BY <1>1, <1>2, <1>3, <1>4, <1>5, <1>6, <1>7, <1>8 DEF Typed

LEMMA InitInv == ASSUME Init PROVE IInv /\ Copies
<1> USE DEF Init
<1>1. Typed
  BY InitTyped
<1>2. Ordered
  BY DEF Ordered
<1>3. Inodes
  <2>1. \A n \in StoredName : disk.dir[n] \in {NoFile, <<0, n>>}
    OBVIOUS
  <2>2. ASSUME NEW n \in StoredName, NEW m \in StoredName,
               disk.dir[n] = disk.dir[m], disk.dir[n] # NoFile
        PROVE  n = m
    BY <2>1, <2>2
  <2>3. ASSUME NEW r \in Run, NEW name \in Name, NEW n \in StoredName,
               disk.dir[n] = <<r, temp_file_path(name)>>
        PROVE  FALSE
    <3>1. <<r, temp_file_path(name)>> # NoFile
      BY Temps
    <3>2. r # 0
      BY DEF Run
    <3> QED
      BY <2>1, <2>3, <3>1, <3>2
  <2> QED
    BY <2>2, <2>3 DEF Inodes
<1>4. ASSUME NEW r \in Run
      PROVE  Stages(r) /\ Uploads(r) /\ Undisturbed(r) /\ Copied(r)
  <2>1. control[r].plan = <<>> /\ run[r].launched = 0 /\ run[r].pc = "idle"
        /\ run[r].completion = "none" /\ run[r].alone = FALSE /\ control[r].pc = "none"
    OBVIOUS
  <2>2. Stages(r)
    BY <2>1, EmptyListing DEF Stages, Planned, Range, IsInjective
  <2>3. Uploads(r)
    BY <2>1 DEF Uploads
  <2>4. Undisturbed(r) /\ Copied(r)
    BY <2>1 DEF Undisturbed, Copied, Quiet
  <2> QED
    BY <2>2, <2>3, <2>4
<1> QED
  BY <1>1, <1>2, <1>3, <1>4 DEF IInv, Copies

-----------------------------------------------------------------------------
(* What the steps of run r do, entry by entry.                             *)
OwnStep(r) ==
    Process(r) \/ KillClient(r) \/
        \E name \in Name : SourceTooShort(r, name) \/ LoseConnection(r, name)

(* Nobody else's entry changes, and r keeps its list.                      *)
Own(r) ==
    /\ \A q \in Run \ {r} : /\ run'[q] = run[q] /\ control'[q] = control[q]
                            /\ upload'[q] = upload[q] /\ transfer'[q] = transfer[q]
    /\ run'[r].files = run[r].files
    /\ run'[r].alone \in BOOLEAN /\ (run'[r].alone <=> run[r].alone)
    /\ run'[r].pc # "idle"
    /\ local' = local

LEMMA FaultCounted ==
    /\ \A n \in 0..MaxFaults : n < MaxFaults => n + 1 \in 0..MaxFaults
    /\ \A n \in 0..MaxEdits : n < MaxEdits => n + 1 \in 0..MaxEdits
  BY BoundsAssumption

(* Steps of the client that change its state and no more.                  *)
ClientOnly(r) ==
    read_sync_plan(r) \/ send_sync_complete(r) \/ EndRun(r) \/ KillClient(r)

LEMMA ClientOnlyEffect ==
    ASSUME IInv, NEW r \in Run, ClientOnly(r)
    PROVE  /\ Typed' /\ Own(r)
           /\ disk' = disk /\ control' = control /\ upload' = upload /\ transfer' = transfer
           /\ run'[r].launched = run[r].launched
           /\ \/ /\ run[r].pc = "listed" /\ run'[r].pc = "uploading"
                 /\ control[r].pc = "planned"
                 /\ run'[r].completion = run[r].completion
              \/ /\ run[r].pc = "uploading" /\ run'[r].pc = "completing"
                 /\ run[r].launched = Len(control[r].plan)
                 /\ run'[r].completion = "ok" => \A name \in Planned(r) : upload[r][name] = "ok"
              \/ /\ run'[r].pc \in {"over", "killed"}
                 /\ run'[r].completion = run[r].completion
           /\ RunActive(r)
<1> DEFINE Kept == /\ run' \in [Run -> RunRecord]
                   /\ \A q \in Run \ {r} : run'[q] = run[q]
                   /\ run'[r].files = run[r].files /\ run'[r].launched = run[r].launched
                   /\ run'[r].alone = run[r].alone
<1>1. run \in [Run -> RunRecord] /\ Typed
  BY DEF IInv, Typed
<1>2. ASSUME Kept, run'[r].pc # "idle", faults' \in 0..MaxFaults, edits' = edits,
             UNCHANGED <<local, disk, registry, control, upload, transfer>>
      PROVE  Typed' /\ Own(r)
  <2>1. Typed'
    BY <1>1, <1>2 DEF Typed
  <2>2. run'[r].alone \in BOOLEAN
    BY <1>2 DEF RunRecord
  <2> QED
    BY <1>2, <2>1, <2>2 DEF Own
<1>2a. ASSUME NEW u \in RunRecord, run' = [run EXCEPT ![r] = u], u.files = run[r].files,
             u.launched = run[r].launched, u.alone = run[r].alone
      PROVE  Kept /\ run'[r] = u
  BY <1>1, <1>2a
<1>3. CASE read_sync_plan(r)
  <2>1. Kept /\ run'[r].pc = "uploading" /\ run'[r].completion = run[r].completion
    BY <1>1, <1>3 DEF read_sync_plan, RunRecord
  <2> HIDE DEF Kept
  <2> QED
    BY <1>1, <1>2, <1>3, <2>1 DEF read_sync_plan, RunActive, Typed
<1>4. CASE send_sync_complete(r)
  <2>1. /\ Kept /\ run'[r].pc = "completing"
        /\ run'[r].completion = "ok" => \A name \in Planned(r) : upload[r][name] = "ok"
    <3>1. PICK c : c = IF \A name \in Planned(r) : upload[r][name] = "ok"
                       THEN "ok" ELSE "failed"
      OBVIOUS
    <3>2. PICK u : u = [run[r] EXCEPT !.pc = "completing", !.completion = c]
      OBVIOUS
    <3>3. /\ u \in RunRecord /\ u.files = run[r].files /\ u.launched = run[r].launched
          /\ u.alone = run[r].alone /\ u.pc = "completing" /\ u.completion = c
      BY <1>1, <3>1, <3>2 DEF RunRecord
    <3>4. run' = [run EXCEPT ![r] = u]
      BY <1>1, <1>4, <3>1, <3>2 DEF send_sync_complete
    <3> HIDE DEF Kept
    <3>5. Kept /\ run'[r] = u
      BY <1>2a, <3>3, <3>4
    <3> QED
      BY <3>1, <3>3, <3>5
  <2> HIDE DEF Kept
  <2> QED
    BY <1>1, <1>2, <1>4, <2>1 DEF send_sync_complete, RunActive, Typed
<1>5. CASE EndRun(r)
  <2>1. Kept /\ run'[r].pc = "over" /\ run'[r].completion = run[r].completion
    <3>1. PICK ok \in BOOLEAN : ok = (control[r].pc = "acked")
      OBVIOUS
    <3>2. PICK u : u = [run[r] EXCEPT !.pc = "over", !.ok = ok]
      OBVIOUS
    <3>3. /\ u \in RunRecord /\ u.files = run[r].files /\ u.launched = run[r].launched
          /\ u.alone = run[r].alone /\ u.pc = "over" /\ u.completion = run[r].completion
      BY <1>1, <3>2 DEF RunRecord
    <3>4. run' = [run EXCEPT ![r] = u]
      BY <1>1, <1>5, <3>1, <3>2 DEF EndRun
    <3> HIDE DEF Kept
    <3>5. Kept /\ run'[r] = u
      BY <1>2a, <3>3, <3>4
    <3> QED
      BY <3>3, <3>5
  <2> HIDE DEF Kept
  <2> QED
    BY <1>1, <1>2, <1>5, <2>1 DEF EndRun, RunActive, Typed
<1>6. CASE KillClient(r)
  <2>1. Kept /\ run'[r].pc = "killed" /\ run'[r].completion = run[r].completion
    BY <1>1, <1>6 DEF KillClient, RunRecord
  <2>2. faults' \in 0..MaxFaults
    BY <1>1, <1>6, FaultCounted DEF KillClient, Typed
  <2> HIDE DEF Kept
  <2> QED
    BY <1>1, <1>2, <1>6, <2>1, <2>2 DEF KillClient, RunActive, Typed
<1> QED
  BY <1>3, <1>4, <1>5, <1>6 DEF ClientOnly

(* So the others keep what holds of them, and none of them is both alone   *)
(* and the latest.                                                         *)
LEMMA OthersKept ==
    ASSUME IInv, NEW r \in Run, Own(r), Active(r), run[r].pc # "idle"
    PROVE  /\ Ordered'
           /\ \A q \in Run : Latest(q)' <=> Latest(q)
           /\ \A q \in Run : Undisturbed(q)'
           /\ \A q \in Run \ {r} : Stages(q)' /\ Uploads(q)' /\ ~Quiet(q) /\ ~Quiet(q)'
<1> USE DEF Own
<1>1. \A q \in Run : run'[q].pc = "idle" <=> run[q].pc = "idle"
  OBVIOUS
<1>2. Ordered'
  BY <1>1 DEF IInv, Ordered
<1>3. Begun' = Begun
  BY <1>1 DEF Begun
<1>4. \A q \in Run : Latest(q)' <=> Latest(q)
  BY <1>3 DEF Latest
<1>5. \A q \in Run \ {r} : Active(q)' <=> Active(q)
  BY DEF Active, RunActive, ControlActive, TransferActive
<1>6. ASSUME NEW q \in Run
      PROVE  Undisturbed(q)'
  <2>1. Undisturbed(q)
    BY DEF IInv
  <2>2. run'[q].alone => run[q].alone
    OBVIOUS
  <2>3. SUFFICES ASSUME run[q].alone PROVE Undisturbed(q)'
    BY <2>2 DEF Undisturbed
  <2>4. ASSUME NEW p \in Run, p < q
        PROVE  ~Active(p)'
    BY <1>5, <2>1, <2>3, <2>4 DEF Undisturbed
  <2>5. ASSUME NEW p \in Run, p > q, run'[p].pc # "idle"
        PROVE  ~Active(q)'
    BY <1>1, <1>5, <2>1, <2>3, <2>5 DEF Undisturbed
  <2> QED
    BY <2>4, <2>5 DEF Undisturbed
<1>7. ASSUME NEW q \in Run \ {r}
      PROVE  Stages(q)' /\ Uploads(q)' /\ ~Quiet(q) /\ ~Quiet(q)'
  <2>1. Stages(q) /\ Uploads(q) /\ Undisturbed(q)
    BY DEF IInv
  <2>2. Stages(q)'
    BY <2>1 DEF Stages, Planned
  <2>3. Uploads(q)'
    BY <2>1 DEF Uploads, Launched, Planned
  <2>4. ~Quiet(q)
    <3>1. Latest(q) => r < q
      BY DEF Latest, Begun, Run
    <3> QED
      BY <2>1, <3>1 DEF Quiet, Undisturbed
  <2>5. ~Quiet(q)'
    BY <1>4, <2>4 DEF Quiet
  <2> QED
    BY <2>2, <2>3, <2>4, <2>5
<1> QED
  BY <1>2, <1>4, <1>6, <1>7

(* What is left to show of a step of run r.                                *)
LEMMA OwnInv ==
    ASSUME IInv, NEW r \in Run, Own(r), Active(r), run[r].pc # "idle",
           Typed', Inodes', Stages(r)', Uploads(r)'
    PROVE  /\ IInv'
           /\ Copies /\ Copied(r)' => Copies'
<1>1. IInv'
  <2>1. \A q \in Run : Stages(q)' /\ Uploads(q)' /\ Undisturbed(q)'
    BY OthersKept
  <2>2. Ordered'
    BY OthersKept
  <2> QED
    BY <2>1, <2>2 DEF IInv
<1>2. ASSUME Copied(r)' PROVE Copies'
  <2>1. ASSUME NEW q \in Run \ {r} PROVE Copied(q)'
    BY OthersKept DEF Copied
  <2> QED
    BY <1>2, <2>1 DEF Copies
<1> QED
  BY <1>1, <1>2

LEMMA ClientOnlyInv ==
    ASSUME IInv, NEW r \in Run, ClientOnly(r)
    PROVE  IInv' /\ (Copies => Copies')
<1>1. Typed' /\ Own(r)
  BY ClientOnlyEffect
<1>2. /\ disk' = disk /\ control' = control /\ upload' = upload /\ transfer' = transfer
      /\ run'[r].launched = run[r].launched /\ run'[r].files = run[r].files
  BY <1>1, ClientOnlyEffect DEF Own
<1>3. Active(r) /\ run[r].pc # "idle"
  BY ClientOnlyEffect DEF Active, RunActive
<1>4. Inodes'
  BY <1>2 DEF IInv, Inodes
<1>5. Stages(r)'
  <2>1. Stages(r)
    BY DEF IInv
  <2> QED
    BY <1>2, <2>1, ClientOnlyEffect DEF Stages, Planned
<1>6. Uploads(r)'
  <2>1. Uploads(r)
    BY DEF IInv
  <2>2. run'[r].completion = "ok" => /\ run'[r].launched = Len(control'[r].plan)
                                     /\ \A name \in Range(control'[r].plan) : upload'[r][name] = "ok"
    BY <1>2, <2>1, ClientOnlyEffect DEF Uploads, Planned
  <2>3. Launched(r)' = Launched(r)
    BY <1>2 DEF Launched
  <2> QED
    BY <1>2, <2>1, <2>2, <2>3 DEF Uploads, Planned
<1>7. Copied(r) => Copied(r)'
  <2>1. Quiet(r)' => Quiet(r)
    BY <1>1, <1>3, OthersKept DEF Quiet, Own
  <2> QED
    BY <1>2, <2>1 DEF Copied, Planned, OwnTemp, Publishing, Unexpected
<1> QED
  BY <1>1, <1>3, <1>4, <1>5, <1>6, <1>7, OwnInv DEF Copies

(* Steps that settle an upload of the client's.                            *)
UploadOnly(r, name) ==
    \/ read_transfer_result(r, name) \/ SourceMissing(r, name)
    \/ SourceTooShort(r, name) \/ LoseConnection(r, name)

LEMMA LaunchedIsPlanned ==
    ASSUME Typed, NEW r \in Run, run[r].launched \in 0..Len(control[r].plan)
    PROVE  Launched(r) \subseteq Planned(r)
<1>1. control[r].plan \in Seq(Name)
  BY DEF Typed, ControlRecord
<1>2. DOMAIN control[r].plan = 1..Len(control[r].plan) /\ Len(control[r].plan) \in Nat
  BY <1>1
<1>3. \A i \in 1..run[r].launched : i \in DOMAIN control[r].plan
  BY <1>2
<1> QED
  BY <1>3 DEF Launched, Planned, Range

LEMMA UploadOnlyInv ==
    ASSUME IInv, NEW r \in Run, NEW name \in Name, UploadOnly(r, name)
    PROVE  IInv' /\ (Copies => Copies')
<1> DEFINE outcome == upload'[r][name]
<1>1. Typed /\ Stages(r) /\ Uploads(r)
  BY DEF IInv
<1>2. PICK v \in {"ok", "failed"} :
        /\ upload' = [upload EXCEPT ![r][name] = v]
        /\ v = "ok" => transfer[r][name].status = "ok"
  BY DEF UploadOnly, read_transfer_result, SourceMissing, SourceTooShort, Closes, LoseConnection
<1>3. /\ UNCHANGED <<local, disk, registry, run, control, transfer, edits>>
      /\ RunActive(r) /\ upload[r][name] = "waiting"
  BY DEF UploadOnly, read_transfer_result, SourceMissing, SourceTooShort, Closes, LoseConnection
<1>4. faults' \in 0..MaxFaults
  BY <1>1, FaultCounted
  DEF UploadOnly, read_transfer_result, SourceMissing, SourceTooShort, Closes, LoseConnection, Typed
<1>5. /\ upload' \in [Run -> [Name -> UploadState]]
      /\ upload'[r][name] = v
      /\ \A n \in Name \ {name} : upload'[r][n] = upload[r][n]
      /\ \A q \in Run \ {r} : upload'[q] = upload[q]
  <2>1. v \in UploadState
    BY DEF UploadState
  <2>2. upload \in [Run -> [Name -> UploadState]]
    BY <1>1 DEF Typed
  <2> QED
    BY <1>2, <2>1, <2>2
<1>6. Typed'
  BY <1>1, <1>3, <1>4, <1>5 DEF Typed
<1>7. Active(r) /\ run[r].pc # "idle"
  BY <1>3 DEF Active, RunActive
<1>8. Own(r)
  <2>1. run[r].alone \in BOOLEAN
    BY <1>1 DEF Typed, RunRecord
  <2> QED
    BY <1>3, <1>5, <1>7, <2>1 DEF Own
<1>9. Inodes'
  BY <1>3 DEF IInv, Inodes
<1>10. Stages(r)'
  BY <1>1, <1>3 DEF Stages, Planned
<1>11. Uploads(r)'
  <2>1. Launched(r)' = Launched(r) /\ Planned(r)' = Planned(r)
    BY <1>3 DEF Launched, Planned
  <2>2. transfer[r][name].pc # "none" /\ name \in Planned(r)
    BY <1>1, <1>3, LaunchedIsPlanned DEF Uploads, Stages
  <2>3. run[r].completion # "ok"
    BY <1>1, <1>3, <2>2 DEF Uploads
  <2> QED
    BY <1>1, <1>2, <1>3, <1>5, <2>1, <2>2, <2>3 DEF Uploads
<1>12. Copied(r) => Copied(r)'
  BY <1>3 DEF Copied, Planned, OwnTemp, Publishing, Unexpected, Quiet, Latest, Begun
<1> QED
  BY <1>6, <1>7, <1>8, <1>9, <1>10, <1>11, <1>12, OwnInv DEF Copies

LEMMA LaunchNextInv ==
    ASSUME IInv, NEW r \in Run, launch_next(r)
    PROVE  IInv' /\ (Copies => Copies')
<1> DEFINE name == control[r].plan[run[r].launched + 1]
           t == transfer[r][name]
           u == [t EXCEPT !.pc = "requested", !.source = local[name]]
<1>1. Typed /\ Stages(r) /\ Uploads(r)
  BY DEF IInv
<1>2. /\ control[r].plan \in Seq(Name) /\ Len(control[r].plan) \in Nat
      /\ run[r].launched \in Nat /\ run[r].launched + 1 \in 1..Len(control[r].plan)
  BY <1>1 DEF launch_next, Stages, Typed, ControlRecord
<1>3. name \in Name /\ name \notin Launched(r)
  <2>1. name \in Name
    BY <1>2
  <2>2. ASSUME NEW i \in 1..run[r].launched, control[r].plan[i] = name
        PROVE  FALSE
    <3>1. i \in DOMAIN control[r].plan /\ run[r].launched + 1 \in DOMAIN control[r].plan
          /\ i # run[r].launched + 1
      BY <1>2
    <3> QED
      BY <1>1, <2>2, <3>1 DEF Stages, IsInjective
  <2> QED
    BY <2>1, <2>2 DEF Launched
<1>4. t.pc = "none" /\ t.inode = NoFile /\ t.status = "none" /\ t \in TransferRecord
  <2> HIDE DEF name
  <2>1. t \in TransferRecord
    BY <1>1, <1>3 DEF Typed
  <2>2. t.pc = "none"
    BY <1>1, <1>3 DEF Uploads
  <2>3. t.inode = NoFile /\ (t.status # "none" => t.pc = "ended")
    BY <1>1, <1>3, <2>2 DEF Uploads
  <2> QED
    BY <2>1, <2>2, <2>3
<1>5. u \in TransferRecord /\ u.pc = "requested" /\ u.inode = NoFile /\ u.status = "none"
  <2>1. local[name] \in Contents \cup {NoFile, <<>>}
    BY <1>1, <1>3 DEF Typed
  <2> QED
    BY <1>4, <2>1 DEF TransferRecord
<1>6. /\ upload' = [upload EXCEPT ![r][name] = "waiting"]
      /\ transfer' = [transfer EXCEPT ![r][name] = u]
      /\ run' = [run EXCEPT ![r].launched = @ + 1]
      /\ UNCHANGED <<local, disk, registry, control, edits, faults>>
      /\ run[r].pc = "uploading"
  BY DEF launch_next
<1> HIDE DEF u, name
<1>7. /\ upload' \in [Run -> [Name -> UploadState]]
      /\ upload'[r][name] = "waiting"
      /\ \A n \in Name \ {name} : upload'[r][n] = upload[r][n]
      /\ \A q \in Run \ {r} : upload'[q] = upload[q]
  <2>1. upload \in [Run -> [Name -> UploadState]]
    BY <1>1 DEF Typed
  <2>2. "waiting" \in UploadState
    BY DEF UploadState
  <2> QED
    BY <1>3, <1>6, <2>1, <2>2
<1>8. /\ transfer' \in [Run -> [Name -> TransferRecord]]
      /\ transfer'[r][name] = u
      /\ \A n \in Name \ {name} : transfer'[r][n] = transfer[r][n]
      /\ \A q \in Run \ {r} : transfer'[q] = transfer[q]
  <2>1. transfer \in [Run -> [Name -> TransferRecord]]
    BY <1>1 DEF Typed
  <2> QED
    BY <1>3, <1>5, <1>6, <2>1, Update2, Zenon
<1>9. /\ run' \in [Run -> RunRecord]
      /\ \A q \in Run \ {r} : run'[q] = run[q]
      /\ run'[r].files = run[r].files /\ run'[r].alone = run[r].alone
      /\ run'[r].pc = run[r].pc /\ run'[r].completion = run[r].completion
      /\ run'[r].launched = run[r].launched + 1
  <2>1. run \in [Run -> RunRecord]
    BY <1>1 DEF Typed
  <2>2. run' = [run EXCEPT ![r].launched = @ + 1] /\ run[r].launched + 1 \in Nat
    BY <1>2, <1>6
  <2> HIDE <1>6
  <2> QED
    BY <2>1, <2>2 DEF RunRecord
<1>10. Typed'
  BY <1>1, <1>6, <1>7, <1>8, <1>9 DEF Typed
<1>11. Active(r) /\ run[r].pc # "idle" /\ run'[r].pc # "idle"
  BY <1>6, <1>9 DEF Active, RunActive
<1>12. Own(r)
  <2>1. run'[r].alone \in BOOLEAN
    BY <1>9 DEF RunRecord
  <2> QED
    BY <1>6, <1>7, <1>8, <1>9, <1>11, <2>1 DEF Own
<1>13. Inodes'
  <2>1. ASSUME NEW q \in Run, NEW n \in Name
        PROVE  transfer'[q][n].inode = transfer[q][n].inode
    BY <1>4, <1>5, <1>8
  <2> QED
    BY <1>6, <2>1 DEF IInv, Inodes
<1>14. Stages(r)'
  BY <1>1, <1>2, <1>6, <1>9 DEF Stages, Planned
<1>15. Uploads(r)'
  <2>1. Launched(r) \subseteq Launched(r)' /\ name \in Launched(r)'
    BY <1>2, <1>6, <1>9 DEF Launched, name
  <2>2. run'[r].completion = "none"
    BY <1>1, <1>6, <1>9 DEF Stages
  <2>3. ASSUME NEW n \in Name \ {name}
        PROVE  transfer'[r][n] = transfer[r][n] /\ upload'[r][n] = upload[r][n]
    BY <1>7, <1>8
  <2> QED
    BY <1>1, <1>5, <1>7, <1>8, <2>1, <2>2, <2>3 DEF Uploads
<1>16. Copied(r) => Copied(r)'
  <2>1. Quiet(r)' => Quiet(r)
    BY <1>11, <1>12, OthersKept DEF Quiet, Own
  <2>2. ASSUME NEW n \in Name, OwnTemp(r, n)
        PROVE  OwnTemp(r, n)'
    BY <1>5, <1>6, <1>8, <1>9, <2>2 DEF OwnTemp, Publishing
  <2>3. \A n \in Name : transfer'[r][n].status = transfer[r][n].status
    BY <1>4, <1>5, <1>8
  <2>4. /\ DOMAIN run[r].files \subseteq Name
        /\ Planned(r)' = Planned(r) /\ Planned(r) \subseteq DOMAIN run[r].files
    <3>1. DOMAIN run[r].files \subseteq Name
      BY <1>1, ListingIsFunction DEF Typed, RunRecord
    <3>2. Planned(r)' = Planned(r)
      BY <1>6 DEF Planned
    <3> QED
      BY <1>1, <3>1, <3>2 DEF Stages
  <2>5. SUFFICES ASSUME Copied(r), Quiet(r) PROVE Copied(r)'
    BY <2>1 DEF Copied
  <2>6. \A n \in Planned(r)' :
            transfer'[r][n].status = "ok" <=> Content(disk', n) = run'[r].files[n]
    BY <1>6, <1>9, <2>3, <2>4, <2>5 DEF Copied
  <2>7. \A n \in Name : OwnTemp(r, n)'
    BY <2>2, <2>5 DEF Copied
  <2>8. Unexpected(r)' = Unexpected(r)
    BY <1>6, <1>9 DEF Unexpected
  <2> QED
    BY <1>6, <1>9, <2>4, <2>5, <2>6, <2>7, <2>8 DEF Copied
<1> QED
  BY <1>10, <1>11, <1>12, <1>13, <1>14, <1>15, <1>16, OwnInv DEF Copies

-----------------------------------------------------------------------------
(* The steps of the control session.                                       *)

(* Before the plan there are no uploads; after the completion they are     *)
(* over.                                                                   *)
LEMMA NothingLaunched ==
    ASSUME IInv, NEW r \in Run, run[r].launched = 0
    PROVE  \A name \in Name : transfer[r][name].pc = "none" /\ transfer[r][name].status = "none"
<1>1. Uploads(r) /\ Launched(r) = {}
  BY DEF IInv, Launched
<1> QED
  BY <1>1 DEF Uploads

LEMMA UploadsOver ==
    ASSUME IInv, NEW r \in Run, run[r].completion = "ok"
    PROVE  /\ \A name \in Name : transfer[r][name].pc \in {"none", "ended"}
           /\ \A name \in Planned(r) : transfer[r][name].status = "ok"
<1>1. Typed /\ Stages(r) /\ Uploads(r)
  BY DEF IInv
<1>2. Launched(r) \subseteq Planned(r)
  BY <1>1, LaunchedIsPlanned DEF Stages
<1>3. Planned(r) \subseteq Name
  BY <1>1, ListingIsFunction DEF Stages, Typed, RunRecord
<1>4. \A name \in Planned(r) : transfer[r][name].status = "ok" /\ transfer[r][name].pc = "ended"
  BY <1>1, <1>3 DEF Uploads
<1> QED
  BY <1>1, <1>2, <1>4 DEF Uploads

LEMMA ControlStepInv ==
    ASSUME IInv, NEW r \in Run, ControlActive(r),
           control' \in [Run -> ControlRecord],
           \A q \in Run \ {r} : control'[q] = control[q],
           \/ control'[r].plan = control[r].plan
           \/ run[r].launched = 0 /\ run[r].completion = "none",
           UNCHANGED <<local, run, upload, transfer, edits>>,
           disk' \in Disk, DOMAIN registry' \subseteq Name, faults' \in 0..MaxFaults,
           Inodes', Stages(r)'
    PROVE  /\ IInv'
           /\ Quiet(r)' <=> Quiet(r)
           /\ Copies /\ Copied(r)' => Copies'
<1>1. Typed'
  BY DEF IInv, Typed
<1>2. Active(r) /\ run[r].pc # "idle"
  BY DEF Active, IInv, Stages, ControlActive
<1>3. Own(r)
  BY <1>2 DEF Own, IInv, Typed, RunRecord
<1>4. Uploads(r)'
  <2>1. Uploads(r)
    BY DEF IInv
  <2>2. CASE control'[r].plan = control[r].plan
    BY <2>1, <2>2 DEF Uploads, Planned, Launched
  <2>3. CASE run[r].launched = 0 /\ run[r].completion = "none"
    <3>1. Launched(r) = {}
      BY <2>3 DEF Launched
    <3> QED
      BY <2>1, <2>3, <3>1 DEF Uploads
  <2> QED
    BY <2>2, <2>3
<1> QED
  BY <1>1, <1>2, <1>3, <1>4, OwnInv, OthersKept DEF Quiet

(* The plan that continue_scan computes: what the server lacks or has      *)
(* otherwise.                                                              *)
LEMMA ContinueScanEffect ==
    ASSUME IInv, NEW r \in Run, control[r].pc \in {"listing", "scanning"},
           NEW todo \in SUBSET StoredName, NEW found \in Found, continue_scan(r, todo, found)
    PROVE  /\ control' \in [Run -> ControlRecord]
           /\ \A q \in Run \ {r} : control'[q] = control[q]
           /\ \/ /\ control'[r].pc = "planned" /\ todo = {}
                 /\ IsInjective(control'[r].plan)
                 /\ Range(control'[r].plan) =
                        {name \in DOMAIN run[r].files :
                           name \in DOMAIN found => found[name] # run[r].files[name]}
              \/ /\ control'[r].pc = "scanning" /\ control'[r].plan = control[r].plan
                 /\ control'[r].found = found /\ control'[r].todo = todo
<1> DEFINE wanted == {name \in DOMAIN run[r].files :
                        name \in DOMAIN found => found[name] # run[r].files[name]}
           plan == InOrder(Names, wanted)
<1>1. control \in [Run -> ControlRecord] /\ DOMAIN run[r].files \subseteq Name
  BY ListingIsFunction DEF IInv, Typed, RunRecord
<1>2. wanted \in SUBSET Range(Names)
  BY <1>1 DEF Name
<1>3. plan \in Seq(wanted) /\ IsInjective(plan) /\ Range(plan) = wanted
  <2> HIDE DEF wanted
  <2> QED
    BY <1>2, NamesAssumption, InOrderIsOrdered
<1>4. plan \in Seq(Name)
  BY <1>1, <1>3
<1>5. CASE todo = {}
  <2>1. control' = [control EXCEPT ![r] =
          [pc |-> "planned", todo |-> {}, found |-> NoFiles, plan |-> plan]]
    BY <1>5 DEF continue_scan, compute_upload_plan
  <2> HIDE DEF plan
  <2>2. [pc |-> "planned", todo |-> {}, found |-> NoFiles, plan |-> plan] \in ControlRecord
    BY <1>4, EmptyListing DEF ControlRecord
  <2> QED
    BY <1>1, <1>3, <1>5, <2>1, <2>2
<1>6. CASE todo # {}
  <2>1. control' = [control EXCEPT ![r] =
          [@ EXCEPT !.pc = "scanning", !.todo = todo, !.found = found]]
    BY <1>6 DEF continue_scan
  <2> QED
    BY <1>1, <2>1 DEF ControlRecord
<1> QED
  BY <1>5, <1>6

LEMMA ScanInv ==
    ASSUME IInv, NEW r \in Run, control[r].pc \in {"listing", "scanning"},
           NEW todo \in SUBSET StoredName, NEW found \in Found, continue_scan(r, todo, found),
           UNCHANGED <<local, disk, run, upload, transfer, edits, faults>>,
           DOMAIN registry' \subseteq Name
    PROVE  /\ IInv'
           /\ /\ Copies
              /\ Quiet(r) => /\ Present(disk) \subseteq todo \cup DOMAIN found
                             /\ \A name \in DOMAIN found : found[name] = Content(disk, name)
              => Copies'
<1>1. Typed /\ Stages(r) /\ ControlActive(r)
  BY DEF IInv, ControlActive
<1>2. /\ run[r].launched = 0 /\ run[r].completion = "none" /\ control[r].plan = <<>>
      /\ run[r].pc \notin {"idle", "uploading", "completing"}
  BY <1>1 DEF Stages
<1>3. Inodes'
  BY DEF IInv, Inodes
<1>4. Stages(r)'
  <2>1. CASE control'[r].pc = "planned"
    <3>1. IsInjective(control'[r].plan) /\ Range(control'[r].plan) \subseteq DOMAIN run[r].files
      BY <2>1, ContinueScanEffect
    <3>2. control'[r].plan \in Seq(Name)
      BY ContinueScanEffect DEF ControlRecord
    <3>3. 0 \in 0..Len(control'[r].plan)
      BY <3>2
    <3> QED
      BY <1>2, <2>1, <3>1, <3>3 DEF Stages, Planned
  <2>2. CASE control'[r].pc = "scanning"
    <3>1. control'[r].plan = control[r].plan
      BY <2>2, ContinueScanEffect
    <3> QED
      BY <1>1, <1>2, <2>2, <3>1 DEF Stages, Planned
  <2> QED
    BY <2>1, <2>2, ContinueScanEffect
<1>5. disk' \in Disk /\ faults' \in 0..MaxFaults
  BY <1>1 DEF Typed
<1>6. /\ control' \in [Run -> ControlRecord]
      /\ \A q \in Run \ {r} : control'[q] = control[q]
  BY ContinueScanEffect
<1>7. IInv' /\ (Quiet(r)' <=> Quiet(r)) /\ (Copies /\ Copied(r)' => Copies')
  BY <1>1, <1>2, <1>3, <1>4, <1>5, <1>6, ControlStepInv
<1>8. ASSUME Copied(r),
             Quiet(r) => /\ Present(disk) \subseteq todo \cup DOMAIN found
                         /\ \A name \in DOMAIN found : found[name] = Content(disk, name)
      PROVE  Copied(r)'
  <2>1. SUFFICES ASSUME Quiet(r) PROVE Copied(r)'
    BY <1>7 DEF Copied
  <2>2. \A name \in Name : OwnTemp(r, name)'
    BY <1>8, <2>1 DEF Copied, OwnTemp, Publishing
  <2>3. CASE control'[r].pc = "planned"
    <3>1. ASSUME NEW name \in DOMAIN run[r].files
          PROVE  /\ name \in Range(control'[r].plan) =>
                        Content(disk, name) # run[r].files[name] /\ transfer[r][name].status # "ok"
                 /\ name \in Range(control'[r].plan) \/ Content(disk, name) = run[r].files[name]
      <4>1. name \in Name /\ run[r].files[name] \in Contents
        BY <1>1, ListingIsFunction DEF Typed, RunRecord
      <4>2. transfer[r][name].status = "none"
        BY <1>2, <4>1, NothingLaunched
      <4>3. /\ todo = {}
            /\ name \in Range(control'[r].plan) <=>
                   (name \in DOMAIN found => found[name] # run[r].files[name])
        BY <2>3, ContinueScanEffect
      <4>4. name \notin DOMAIN found => Content(disk, name) = NoFile
        <5>1. name \notin DOMAIN found => name \notin Present(disk)
          BY <1>8, <2>1, <4>3
        <5> QED
          BY <1>1, <4>1, <5>1, Temps DEF Present, Content, Typed, Disk
      <4> QED
        BY <1>8, <2>1, <4>1, <4>2, <4>3, <4>4, NoFileAssumption
    <3>2. Range(control'[r].plan) \subseteq DOMAIN run[r].files
      BY <2>3, ContinueScanEffect
    <3>3. \A name \in Range(control'[r].plan) :
             transfer[r][name].status = "ok" <=> Content(disk, name) = run[r].files[name]
      BY <3>1, <3>2
    <3> QED
      BY <2>2, <2>3, <3>1, <3>3 DEF Copied, Planned
  <2>4. CASE control'[r].pc = "scanning"
    <3>1. control'[r].found = found /\ control'[r].todo = todo /\ control'[r].plan = control[r].plan
      BY <2>4, ContinueScanEffect
    <3>2. Planned(r)' = Planned(r) /\ \A name \in Planned(r) :
             transfer[r][name].status = "ok" <=> Content(disk, name) = run[r].files[name]
      BY <1>8, <2>1, <3>1 DEF Copied, Planned
    <3> QED
      BY <1>8, <2>1, <2>2, <2>4, <3>1, <3>2 DEF Copied
  <2> QED
    BY <2>3, <2>4, ContinueScanEffect
<1> QED
  BY <1>7, <1>8 DEF Copies

LEMMA ReadFileListInv ==
    ASSUME IInv, NEW r \in Run, read_file_list(r)
    PROVE  IInv' /\ (Copies => Copies')
<1>1. PICK todo, found : todo = Present(disk) /\ found = NoFiles
  OBVIOUS
<1>2. todo \in SUBSET StoredName /\ found \in Found
  BY <1>1, EmptyListing DEF Present, IInv, Typed, Disk
<1>3. continue_scan(r, todo, found)
  BY <1>1 DEF read_file_list
<1>4. /\ control[r].pc \in {"listing", "scanning"}
      /\ UNCHANGED <<local, disk, run, upload, transfer, edits, faults>>
  BY DEF read_file_list
<1>5. DOMAIN registry' \subseteq Name
  BY ListingIsFunction DEF read_file_list, IInv, Typed, RunRecord
<1>6. /\ Present(disk) \subseteq todo \cup DOMAIN found
      /\ \A name \in DOMAIN found : found[name] = Content(disk, name)
  BY <1>1, EmptyListing
<1> QED
  BY <1>2, <1>3, <1>4, <1>5, <1>6, ScanInv

(* A session that gives up, as far as the copy is concerned.               *)
LEMMA GivesUpInv ==
    ASSUME IInv, NEW r \in Run, ControlActive(r),
           control' \in [Run -> ControlRecord],
           \A q \in Run \ {r} : control'[q] = control[q],
           control'[r].plan = control[r].plan, control'[r].pc \in {"errored", "dropped"},
           UNCHANGED <<local, disk, registry, run, upload, transfer, edits>>,
           faults' \in 0..MaxFaults
    PROVE  IInv' /\ (Copies => Copies')
<1>1. Inodes' /\ Stages(r)'
  <2>1. Inodes /\ Stages(r)
    BY DEF IInv
  <2> QED
    BY <2>1 DEF Inodes, Stages, Planned, ControlActive
<1>2. disk' \in Disk /\ DOMAIN registry' \subseteq Name
  BY DEF IInv, Typed
<1>3. IInv' /\ (Quiet(r)' <=> Quiet(r)) /\ (Copies /\ Copied(r)' => Copies')
  BY <1>1, <1>2, ControlStepInv
<1>4. Copied(r) => Copied(r)'
  BY <1>3 DEF Copied, OwnTemp, Publishing, Planned
<1> QED
  BY <1>3, <1>4 DEF Copies

LEMMA ScanFileInv ==
    ASSUME IInv, NEW r \in Run, NEW name \in StoredName, ScanFile(r, name)
    PROVE  IInv' /\ (Copies => Copies')
<1>1. Typed /\ control[r].pc = "scanning" /\ ControlActive(r)
  BY DEF ScanFile, IInv, ControlActive
<1>2. control \in [Run -> ControlRecord] /\ faults' \in 0..MaxFaults
      /\ UNCHANGED <<local, disk, registry, run, upload, transfer, edits>>
  BY <1>1, FaultCounted DEF ScanFile, Typed
<1>3. CASE /\ Exists(disk, name)
           /\ UNCHANGED faults
           /\ continue_scan(r, control[r].todo \ {name},
                            [n \in DOMAIN control[r].found \cup {name} |->
                               IF n = name THEN Content(disk, name)
                                           ELSE control[r].found[n]])
  <2>1. PICK todo, old, data :
          todo = control[r].todo \ {name} /\ old = control[r].found /\ data = Content(disk, name)
    OBVIOUS
  <2> DEFINE found == [n \in DOMAIN old \cup {name} |-> IF n = name THEN data ELSE old[n]]
  <2>2. todo \in SUBSET StoredName /\ old \in Found
    BY <1>2, <2>1 DEF ControlRecord
  <2>3. data \in Data
    BY <1>1, <1>3, <2>1 DEF Exists, Content, Typed, Disk
  <2>4. found \in Found
    BY <2>2, <2>3, FoundExtended
  <2>5. continue_scan(r, todo, found)
    BY <1>3, <2>1
  <2>6. ASSUME Copies, Quiet(r)
        PROVE  /\ Present(disk) \subseteq todo \cup DOMAIN found
               /\ \A n \in DOMAIN found : found[n] = Content(disk, n)
    <3>1. /\ Present(disk) \subseteq control[r].todo \cup DOMAIN old
          /\ \A m \in DOMAIN old : old[m] = Content(disk, m)
      BY <1>1, <2>1, <2>6 DEF Copies, Copied
    <3>2. Present(disk) \subseteq todo \cup DOMAIN found
      BY <2>1, <3>1
    <3>3. \A n \in DOMAIN found : found[n] = Content(disk, n)
      BY <2>1, <3>1
    <3> QED
      BY <3>2, <3>3
  <2> HIDE DEF found
  <2>7. DOMAIN registry' \subseteq Name
    BY <1>1, <1>2 DEF Typed
  <2> QED
    BY <1>1, <1>2, <1>3, <2>2, <2>4, <2>5, <2>6, <2>7, ScanInv
<1>4. CASE control' = [control EXCEPT ![r].pc = "errored", ![r].todo = {}, ![r].found = NoFiles]
  <2>1. /\ control' \in [Run -> ControlRecord]
        /\ \A q \in Run \ {r} : control'[q] = control[q]
        /\ control'[r].plan = control[r].plan /\ control'[r].pc = "errored"
    BY <1>2, <1>4, EmptyListing DEF ControlRecord
  <2> QED
    BY <1>1, <1>2, <2>1, GivesUpInv
<1> QED
  BY <1>3, <1>4 DEF ScanFile

LEMMA DropControlInv ==
    ASSUME IInv, NEW r \in Run, DropControl(r)
    PROVE  IInv' /\ (Copies => Copies')
<1>1. control \in [Run -> ControlRecord] /\ faults' \in 0..MaxFaults
  BY DEF DropControl, IInv, Typed
<1>2. /\ control' \in [Run -> ControlRecord]
      /\ \A q \in Run \ {r} : control'[q] = control[q]
      /\ control'[r].plan = control[r].plan /\ control'[r].pc = "dropped"
  BY <1>1 DEF DropControl, ControlRecord
<1> QED
  BY <1>1, <1>2, GivesUpInv DEF DropControl, ControlActive

LEMMA ReadSyncCompleteInv ==
    ASSUME IInv, NEW r \in Run, read_sync_complete(r)
    PROVE  IInv' /\ (Copies => Copies')
<1>1. Typed /\ Stages(r) /\ control[r].pc = "planned" /\ ControlActive(r)
  BY DEF read_sync_complete, IInv, ControlActive
<1>2. /\ control \in [Run -> ControlRecord] /\ faults' \in 0..MaxFaults
      /\ UNCHANGED <<local, disk, registry, run, upload, transfer, edits, faults>>
      /\ disk' \in Disk /\ DOMAIN registry' \subseteq Name
  BY <1>1 DEF read_sync_complete, Typed
<1>3. CASE /\ run[r].completion = "ok"
           /\ control' = [control EXCEPT ![r].pc = "cleaning", ![r].todo = Unexpected(r)]
  <2>1. Unexpected(r) \in SUBSET StoredName /\ Unexpected(r) \cap DOMAIN run[r].files = {}
    BY <1>1 DEF Unexpected, Present, Typed, Disk
  <2>2. /\ control' \in [Run -> ControlRecord]
        /\ \A q \in Run \ {r} : control'[q] = control[q]
        /\ control'[r].plan = control[r].plan /\ control'[r].pc = "cleaning"
        /\ control'[r].todo = Unexpected(r)
    BY <1>2, <1>3, <2>1 DEF ControlRecord
  <2>3. Inodes'
    BY <1>2 DEF IInv, Inodes
  <2>4. Stages(r)'
    BY <1>1, <1>2, <1>3, <2>1, <2>2 DEF Stages, Planned
  <2>5. IInv' /\ (Quiet(r)' <=> Quiet(r)) /\ (Copies /\ Copied(r)' => Copies')
    BY <1>1, <1>2, <2>2, <2>3, <2>4, ControlStepInv
  <2>6. Copied(r) => Copied(r)'
    BY <1>1, <1>2, <2>2, <2>5 DEF Copied, OwnTemp, Publishing, Planned, Unexpected
  <2> QED
    BY <2>5, <2>6 DEF Copies
<1>4. CASE control' = [control EXCEPT ![r].pc = "errored"]
  <2>1. /\ control' \in [Run -> ControlRecord]
        /\ \A q \in Run \ {r} : control'[q] = control[q]
        /\ control'[r].plan = control[r].plan /\ control'[r].pc = "errored"
    BY <1>2, <1>4 DEF ControlRecord
  <2> QED
    BY <1>1, <1>2, <2>1, GivesUpInv
<1> QED
  BY <1>3, <1>4 DEF read_sync_complete

LEMMA AcknowledgeInv ==
    ASSUME IInv, NEW r \in Run, Acknowledge(r)
    PROVE  IInv' /\ (Copies => Copies')
<1>1. Typed /\ Stages(r) /\ control[r].pc = "cleaning" /\ ControlActive(r) /\ control[r].todo = {}
  BY DEF Acknowledge, IInv, ControlActive
<1>2. /\ control \in [Run -> ControlRecord] /\ faults' \in 0..MaxFaults
      /\ UNCHANGED <<local, disk, registry, run, upload, transfer, edits, faults>>
      /\ disk' \in Disk /\ DOMAIN registry' \subseteq Name
  BY <1>1 DEF Acknowledge, Typed
<1>3. /\ control' \in [Run -> ControlRecord]
      /\ \A q \in Run \ {r} : control'[q] = control[q]
      /\ control'[r].plan = control[r].plan /\ control'[r].pc = "acked"
  BY <1>2 DEF Acknowledge, ControlRecord
<1>4. Inodes'
  BY <1>2 DEF IInv, Inodes
<1>5. Stages(r)'
  BY <1>1, <1>2, <1>3 DEF Stages, Planned
<1>6. IInv' /\ (Quiet(r)' <=> Quiet(r)) /\ (Copies /\ Copied(r)' => Copies')
  BY <1>1, <1>2, <1>3, <1>4, <1>5, ControlStepInv
<1>7. Copied(r) => Copied(r)'
  BY <1>1, <1>2, <1>3, <1>6 DEF Copied, OwnTemp, Publishing, Planned, Unexpected
<1> QED
  BY <1>6, <1>7 DEF Copies

LEMMA RemoveFileInv ==
    ASSUME IInv, NEW r \in Run, NEW name \in StoredName, RemoveFile(r, name)
    PROVE  IInv' /\ (Copies => Copies')
<1>1. Typed /\ Stages(r) /\ control[r].pc = "cleaning" /\ ControlActive(r) /\ name \in control[r].todo
  BY DEF RemoveFile, IInv, ControlActive
<1>2. /\ control \in [Run -> ControlRecord]
      /\ UNCHANGED <<local, registry, run, upload, transfer, edits>>
      /\ DOMAIN registry' \subseteq Name /\ disk \in Disk
  BY <1>1 DEF RemoveFile, Typed
<1>3. CASE /\ disk' = Remove(disk, name)
           /\ control' = [control EXCEPT ![r].todo = @ \ {name}]
           /\ UNCHANGED faults
  <2>1. /\ control' \in [Run -> ControlRecord]
        /\ \A q \in Run \ {r} : control'[q] = control[q]
        /\ control'[r].plan = control[r].plan /\ control'[r].pc = "cleaning"
        /\ control'[r].todo = control[r].todo \ {name}
    BY <1>1, <1>2, <1>3 DEF ControlRecord
  <2>2. /\ disk' \in Disk /\ disk'.data = disk.data /\ disk'.dir[name] = NoFile
        /\ \A n \in StoredName \ {name} : disk'.dir[n] = disk.dir[n]
    BY <1>2, <1>3, RemoveEffect
  <2>3. Inodes'
    <3>1. \A n \in StoredName : disk'.dir[n] \in {disk.dir[n], NoFile}
      BY <2>2
    <3>2. \A q \in Run, n \in Name : <<q, temp_file_path(n)>> # NoFile
      BY Temps
    <3> QED
      BY <1>2, <3>1, <3>2 DEF IInv, Inodes
  <2>4. Stages(r)'
    BY <1>1, <1>2, <2>1 DEF Stages, Planned
  <2>5. faults' \in 0..MaxFaults
    BY <1>1, <1>3 DEF Typed
  <2>6. IInv' /\ (Quiet(r)' <=> Quiet(r)) /\ (Copies /\ Copied(r)' => Copies')
    BY <1>1, <1>2, <2>1, <2>2, <2>3, <2>4, <2>5, ControlStepInv
  <2>7. ASSUME Copied(r) PROVE Copied(r)'
    <3>1. SUFFICES ASSUME Quiet(r) PROVE Copied(r)'
      BY <2>6 DEF Copied
    <3>2. name \notin DOMAIN run[r].files
      BY <1>1 DEF Stages
    <3>3. \A n \in DOMAIN run[r].files : n \in StoredName
      BY <1>1, ListingIsFunction, Temps DEF Typed, RunRecord
    <3>4. \A n \in DOMAIN run[r].files : Content(disk', n) = Content(disk, n)
      BY <2>2, <3>2, <3>3 DEF Content, Exists
    <3>5. \A n \in Name : OwnTemp(r, n)'
      <4>1. run[r].completion = "ok"
        BY <1>1 DEF Stages
      <4>2. \A n \in Name : transfer'[r][n].pc \in {"none", "ended"}
        BY <1>2, <4>1, UploadsOver
      <4> QED
        BY <4>2 DEF OwnTemp, Publishing
    <3>6. Unexpected(r)' \subseteq Unexpected(r) \ {name}
      BY <1>2, <2>2 DEF Unexpected, Present, Exists, Disk
    <3>7. Unexpected(r) \subseteq control[r].todo
      BY <1>1, <2>7, <3>1 DEF Copied
    <3>8. /\ Planned(r)' = Planned(r) /\ Planned(r) \subseteq DOMAIN run[r].files
          /\ \A n \in Planned(r) :
                 transfer[r][n].status = "ok" <=> Content(disk, n) = run[r].files[n]
          /\ \A n \in DOMAIN run[r].files :
                 n \in Planned(r) \/ Content(disk, n) = run[r].files[n]
      BY <1>1, <2>1, <2>7, <3>1 DEF Copied, Planned, Stages
    <3>9. /\ \A n \in Planned(r)' :
                 transfer'[r][n].status = "ok" <=> Content(disk', n) = run'[r].files[n]
          /\ \A n \in DOMAIN run'[r].files :
                 n \in Planned(r)' \/ Content(disk', n) = run'[r].files[n]
      BY <1>2, <3>4, <3>8
    <3>10. Unexpected(r)' \subseteq control'[r].todo
      BY <2>1, <3>6, <3>7
    <3> QED
      BY <2>1, <3>5, <3>9, <3>10 DEF Copied
  <2> QED
    BY <2>6, <2>7 DEF Copies
<1>4. CASE /\ faults < MaxFaults /\ faults' = faults + 1
           /\ control' = [control EXCEPT ![r].pc = "errored", ![r].todo = {}]
           /\ UNCHANGED disk
  <2>1. /\ control' \in [Run -> ControlRecord]
        /\ \A q \in Run \ {r} : control'[q] = control[q]
        /\ control'[r].plan = control[r].plan /\ control'[r].pc = "errored"
    BY <1>2, <1>4 DEF ControlRecord
  <2>2. faults' \in 0..MaxFaults
    BY <1>1, <1>4, FaultCounted DEF Typed
  <2> QED
    BY <1>1, <1>2, <1>4, <2>1, <2>2, GivesUpInv
<1> QED
  BY <1>3, <1>4 DEF RemoveFile

-----------------------------------------------------------------------------
(* The steps of a TransferSession that set its record to u.  They leave    *)
(* the client's files as they are, put name's listed content there, or     *)
(* take the old one away before the second try.                            *)
KeepsCopy(r, name, u) ==
    /\ \A n \in Name : OwnTemp(r, n)'
    /\ \A n \in Name \ {name} : Content(disk', n) = Content(disk, n)
    /\ \/ u.status = "ok" /\ Content(disk', name) = run[r].files[name]
       \/ u.status # "ok" /\ Content(disk', name) = Content(disk, name)
       \/ /\ u.status # "ok" /\ u.pc = "retrying"
          /\ ~Exists(disk', name) /\ Content(disk', name) = NoFile

Transferred(r, name) == Copies' /\ (Quiet(r) => KeepsCopy(r, name, transfer'[r][name]))

LEMMA TransferStepInv ==
    ASSUME IInv, NEW r \in Run, NEW name \in Name, NEW u \in TransferRecord,
           TransferActive(r, name), SetTransfer(r, name, u),
           u.pc \notin {"none", "requested"},
           u.pc # "ended" => u.status = "none" /\ u.inode # NoFile,
           disk' \in Disk, faults' \in 0..MaxFaults, Inodes'
    PROVE  /\ IInv'
           /\ Copies /\ (Quiet(r) => KeepsCopy(r, name, u)) => Transferred(r, name)
<1>1. Typed /\ Stages(r) /\ Uploads(r)
  BY DEF IInv
<1>2. /\ transfer' \in [Run -> [Name -> TransferRecord]]
      /\ transfer'[r][name] = u
      /\ \A n \in Name \ {name} : transfer'[r][n] = transfer[r][n]
      /\ \A q \in Run \ {r} : transfer'[q] = transfer[q]
  <2>1. transfer \in [Run -> [Name -> TransferRecord]]
    BY <1>1 DEF Typed
  <2> QED
    BY <2>1 DEF SetTransfer
<1>3. UNCHANGED <<local, registry, run, control, upload, edits>>
  BY DEF SetTransfer
<1>4. Typed'
  BY <1>1, <1>2, <1>3 DEF Typed
<1>5. Active(r) /\ transfer[r][name].pc \notin {"none", "ended"}
  BY DEF Active, TransferActive
<1>6. /\ run[r].launched # 0 /\ run[r].completion # "ok"
      /\ control[r].pc \notin {"none", "listing", "scanning", "cleaning", "acked"}
      /\ run[r].pc # "idle"
  <2>1. run[r].launched # 0
    BY <1>5, NothingLaunched
  <2>2. run[r].completion # "ok"
    BY <1>5, UploadsOver
  <2> QED
    BY <1>1, <2>1, <2>2 DEF Stages
<1>7. Own(r)
  <2>1. run[r].alone \in BOOLEAN
    BY <1>1 DEF Typed, RunRecord
  <2> QED
    BY <1>2, <1>3, <1>6, <2>1 DEF Own
<1>8. Stages(r)'
  BY <1>1, <1>3 DEF Stages, Planned
<1>9. Uploads(r)'
  <2>1. Launched(r)' = Launched(r)
    BY <1>3 DEF Launched
  <2>2. upload[r][name] # "ok" /\ name \in Launched(r)
    BY <1>1, <1>5 DEF Uploads
  <2> QED
    BY <1>1, <1>2, <1>3, <1>6, <2>1, <2>2 DEF Uploads
<1>10. IInv' /\ (Quiet(r)' <=> Quiet(r)) /\ (Copies /\ Copied(r)' => Copies')
  <2>1. IInv' /\ (Copies /\ Copied(r)' => Copies')
    BY <1>4, <1>5, <1>6, <1>7, <1>8, <1>9, OwnInv
  <2>2. Latest(r)' <=> Latest(r)
    BY <1>5, <1>6, <1>7, OthersKept
  <2> QED
    BY <1>3, <2>1, <2>2 DEF Quiet
<1>11. ASSUME Copied(r), Quiet(r) => KeepsCopy(r, name, u)
       PROVE  Copied(r)'
  <2>1. SUFFICES ASSUME Quiet(r) PROVE Copied(r)'
    BY <1>10 DEF Copied
  <2>2. KeepsCopy(r, name, u)
    BY <1>11, <2>1
  <2>3. \A n \in Planned(r) :
           transfer'[r][n].status = "ok" <=> Content(disk', n) = run[r].files[n]
    <3> SUFFICES ASSUME NEW n \in Planned(r)
                 PROVE  transfer'[r][n].status = "ok" <=> Content(disk', n) = run[r].files[n]
      OBVIOUS
    <3>1. n \in Name /\ run[r].files[n] # NoFile
      BY <1>1, ListingIsFunction, NoFileAssumption DEF Stages, Typed, RunRecord
    <3>2. transfer[r][n].status = "ok" <=> Content(disk, n) = run[r].files[n]
      BY <1>11, <2>1 DEF Copied
    <3>3. CASE n = name
      <4>1. transfer[r][name].status # "ok"
        BY <1>1, <1>5 DEF Uploads
      <4> QED
        BY <1>2, <2>2, <3>1, <3>2, <3>3, <4>1 DEF KeepsCopy
    <3>4. CASE n # name
      <4>1. transfer'[r][n] = transfer[r][n] /\ Content(disk', n) = Content(disk, n)
        BY <1>2, <2>2, <3>1, <3>4 DEF KeepsCopy
      <4> QED
        BY <3>2, <4>1
    <3> QED
      BY <3>3, <3>4
  <2>4. ASSUME NEW n \in DOMAIN run[r].files, control[r].pc = "planned"
        PROVE  n \in Planned(r) \/ Content(disk', n) = run[r].files[n]
    <3>1. n \in Name /\ name \in Planned(r)
      BY <1>1, <1>5, ListingIsFunction, LaunchedIsPlanned DEF Stages, Uploads, Typed, RunRecord
    <3>2. n \in Planned(r) \/ Content(disk, n) = run[r].files[n]
      BY <1>11, <2>1, <2>4 DEF Copied
    <3> QED
      BY <2>2, <3>1, <3>2 DEF KeepsCopy
  <2> QED
    BY <1>3, <1>6, <2>2, <2>3, <2>4 DEF Copied, KeepsCopy, Planned
<1> QED
  BY <1>2, <1>10, <1>11 DEF Copies, Transferred

(* A step that touches neither the directory nor a file: the session ends, *)
(* or decides what to do with the temporary file.                          *)
Decides(r, name, u) ==
    /\ u.inode = transfer[r][name].inode /\ u.status # "ok"
    /\ \/ u.pc = "ended"
       \/ u.pc = "discarding" /\ transfer[r][name].pc = "verifying"
       \/ /\ u.pc = "publishing" /\ transfer[r][name].pc = "verifying"
          /\ Content(disk, temp_file_path(name)) = run[r].files[name]
       \/ u.pc = "unlinking" /\ transfer[r][name].pc = "publishing"
       \/ u.pc = "retrying" /\ transfer[r][name].pc = "unlinking"

LEMMA DiskKeptInv ==
    ASSUME IInv, NEW r \in Run, NEW name \in Name, NEW u \in TransferRecord,
           TransferActive(r, name), SetTransfer(r, name, u),
           u.pc \notin {"none", "requested"},
           u.pc # "ended" => u.status = "none" /\ u.inode # NoFile,
           Decides(r, name, u), disk' = disk, faults' \in 0..MaxFaults
    PROVE  IInv' /\ (Copies => Transferred(r, name))
<1>1. Typed
  BY DEF IInv
<1>2. /\ transfer'[r][name] = u
      /\ \A n \in Name \ {name} : transfer'[r][n] = transfer[r][n]
      /\ \A q \in Run \ {r} : transfer'[q] = transfer[q]
      /\ run' = run
  <2>1. transfer \in [Run -> [Name -> TransferRecord]]
    BY <1>1 DEF Typed
  <2> QED
    BY <2>1 DEF SetTransfer
<1>3. Inodes'
  <2>1. ASSUME NEW q \in Run, NEW n \in Name
        PROVE  transfer'[q][n].inode = transfer[q][n].inode
    BY <1>2 DEF Decides
  <2> QED
    BY <2>1 DEF IInv, Inodes
<1>4. ASSUME Copies, Quiet(r)
      PROVE  KeepsCopy(r, name, u)
  <2>1. \A n \in Name : OwnTemp(r, n)
    BY <1>4 DEF Copies, Copied
  <2>2. \A n \in Name \ {name} : OwnTemp(r, n)'
    BY <1>2, <2>1 DEF OwnTemp, Publishing
  <2>3. OwnTemp(r, name)'
    BY <1>2, <2>1 DEF OwnTemp, Publishing, Decides
  <2> QED
    BY <2>2, <2>3 DEF KeepsCopy, Decides
<1>5. disk' \in Disk
  BY <1>1 DEF Typed
<1> QED
  BY <1>3, <1>4, <1>5, TransferStepInv

LEMMA AnsweredType ==
    ASSUME NEW t \in TransferRecord,
           NEW status \in {"ok", "write_failed", "checksum_mismatch", "lost"}
    PROVE  /\ Answered(t, status) \in TransferRecord
           /\ Answered(t, status).pc = "ended" /\ Answered(t, status).status = status
           /\ Answered(t, status).inode = t.inode
  BY DEF Answered, TransferRecord

(* Every way to end without a file.                                        *)
LEMMA FailedInv ==
    ASSUME IInv, NEW r \in Run, NEW name \in Name,
           NEW status \in {"write_failed", "checksum_mismatch"},
           TransferActive(r, name), SetTransfer(r, name, Answered(transfer[r][name], status)),
           disk' = disk, faults' \in 0..MaxFaults
    PROVE  IInv' /\ (Copies => Transferred(r, name))
<1>1. PICK u : u = Answered(transfer[r][name], status)
  OBVIOUS
<1>2. transfer[r][name] \in TransferRecord
  BY DEF IInv, Typed
<1>3. /\ u \in TransferRecord /\ u.pc = "ended" /\ u.status = status
      /\ u.inode = transfer[r][name].inode
  BY <1>1, <1>2, AnsweredType
<1>4. SetTransfer(r, name, u)
  BY <1>1
<1>5. Decides(r, name, u)
  BY <1>3 DEF Decides
<1> QED
  BY <1>3, <1>4, <1>5, DiskKeptInv

LEMMA InterruptedInv ==
    ASSUME IInv, NEW r \in Run, NEW name \in Name, Interrupted(r, name)
    PROVE  IInv' /\ (Copies => Transferred(r, name))
<1>1. faults' \in 0..MaxFaults /\ disk' = disk
  BY DEF Interrupted, IInv, Typed
<1>2. TransferActive(r, name) /\ SetTransfer(r, name, Answered(transfer[r][name], "write_failed"))
  BY DEF Interrupted, TransferActive
<1> QED
  BY <1>1, <1>2, FailedInv

LEMMA FinishTransferInv ==
    ASSUME IInv, NEW r \in Run, NEW name \in Name, finish_transfer(r, name)
    PROVE  IInv' /\ (Copies => Transferred(r, name))
<1> DEFINE t == transfer[r][name]
<1>1. /\ faults' \in 0..MaxFaults /\ disk' = disk /\ t.pc = "verifying"
      /\ TransferActive(r, name) /\ t \in TransferRecord
  BY FaultCounted DEF finish_transfer, FinishFails, IInv, Typed, TransferActive
<1>2. t.inode # NoFile /\ t.status = "none"
  BY <1>1 DEF IInv, Uploads
<1>3. CASE FinishFails(r, name)
  BY <1>1, <1>3, FailedInv DEF FinishFails
<1>4. CASE SetTransfer(r, name, [t EXCEPT !.pc =
             IF Content(disk, temp_file_path(name)) = run[r].files[name]
             THEN "publishing" ELSE "discarding"])
  <2>1. PICK u : u = [t EXCEPT !.pc =
             IF Content(disk, temp_file_path(name)) = run[r].files[name]
             THEN "publishing" ELSE "discarding"]
    OBVIOUS
  <2>2. /\ u \in TransferRecord /\ u.pc \in {"publishing", "discarding"}
        /\ u.pc = "publishing" => Content(disk, temp_file_path(name)) = run[r].files[name]
        /\ u.inode = t.inode /\ u.status = t.status
    BY <1>1, <2>1 DEF TransferRecord
  <2>3. SetTransfer(r, name, u)
    BY <1>4, <2>1
  <2>4. Decides(r, name, u)
    BY <1>1, <1>2, <2>2 DEF Decides
  <2>5. u.pc \notin {"none", "requested"} /\ (u.pc # "ended" => u.status = "none" /\ u.inode # NoFile)
    BY <1>2, <2>2
  <2> QED
    BY <1>1, <2>2, <2>3, <2>4, <2>5, DiskKeptInv
<1> QED
  BY <1>3, <1>4 DEF finish_transfer

(* The temporary file is opened: it is new, or it was there before and no  *)
(* session has it.                                                         *)
LEMMA ReceiveFileBytesInv ==
    ASSUME IInv, NEW r \in Run, NEW name \in Name, receive_file_bytes(r, name)
    PROVE  IInv' /\ (NoTempNames /\ Copies => Transferred(r, name))
<1> DEFINE t == transfer[r][name]
           temp == temp_file_path(name)
<1>1. /\ Typed /\ Inodes /\ Uploads(r) /\ t.pc = "requested" /\ t.inode = NoFile /\ t.status = "none"
      /\ TransferActive(r, name) /\ t \in TransferRecord
  BY DEF receive_file_bytes, IInv, Typed, TransferActive, Uploads
<1>2. /\ name \in StoredName /\ temp \in StoredName /\ temp # name
      /\ <<r, temp>> \in Inode /\ <<r, temp>> # NoFile
  BY Temps
<1>3. CASE /\ disk' = OpenTruncated(disk, temp, <<r, temp>>)
           /\ SetTransfer(r, name, Reading(r, name,
                  [t EXCEPT !.inode = OpenedInode(disk, temp, <<r, temp>>)]))
           /\ UNCHANGED faults
  <2>1. PICK inode, u : /\ inode = OpenedInode(disk, temp, <<r, temp>>)
                        /\ u = Reading(r, name, [t EXCEPT !.inode = inode])
    OBVIOUS
  <2>2. /\ disk' \in Disk /\ inode \in Inode
        /\ disk'.dir[temp] = inode
        /\ \A n \in StoredName \ {temp} : disk'.dir[n] = disk.dir[n]
        /\ \A i \in Inode \ {inode} : disk'.data[i] = disk.data[i]
    <3>1. disk \in Disk
      BY <1>1 DEF Typed
    <3> HIDE DEF temp
    <3> QED
      BY <1>2, <1>3, <2>1, <3>1, OpenTruncatedEffect
  <2>3. inode # NoFile
    BY <2>2, NoFileAssumption
  <2>4. /\ u \in TransferRecord /\ u.pc \in {"receiving", "verifying"} /\ u.inode = inode
        /\ u.status = "none"
    BY <1>1, <2>1, <2>2 DEF Reading, TransferRecord
  <2>5. SetTransfer(r, name, u)
    BY <1>3, <2>1
  <2>6. /\ transfer'[r][name] = u
        /\ \A n \in Name \ {name} : transfer'[r][n] = transfer[r][n]
        /\ \A q \in Run \ {r} : transfer'[q] = transfer[q]
        /\ run' = run
    <3>1. transfer \in [Run -> [Name -> TransferRecord]]
      BY <1>1 DEF Typed
    <3> QED
      BY <2>5, <3>1 DEF SetTransfer
  <2>7. \A n \in StoredName \ {temp} : disk.dir[n] # inode
    <3>1. CASE disk.dir[temp] # NoFile
      BY <1>1, <1>2, <2>1, <3>1 DEF OpenedInode, Exists, Inodes
    <3>2. CASE disk.dir[temp] = NoFile
      <4>1. inode = <<r, temp>>
        BY <2>1, <3>2 DEF OpenedInode, Exists
      <4> QED
        BY <1>1, <1>2, <4>1 DEF Inodes
    <3> QED
      BY <3>1, <3>2
  <2>8. Inodes'
    <3>1. ASSUME NEW n \in StoredName, NEW m \in StoredName,
                 disk'.dir[n] = disk'.dir[m], disk'.dir[n] # NoFile
          PROVE  n = m
      BY <1>1, <2>2, <2>7, <3>1 DEF Inodes
    <3>2. ASSUME NEW q \in Run, NEW m \in Name, NEW n \in StoredName,
                 disk'.dir[n] = <<q, temp_file_path(m)>>
          PROVE  transfer'[q][m].inode = <<q, temp_file_path(m)>>
      <4>1. <<q, temp_file_path(m)>> # NoFile
        BY Temps
      <4>2. CASE disk.dir[n] = <<q, temp_file_path(m)>>
        <5>1. transfer[q][m].inode = <<q, temp_file_path(m)>>
          BY <1>1, <4>2 DEF Inodes
        <5>2. ~(q = r /\ m = name)
          BY <1>1, <4>1, <5>1
        <5> QED
          BY <2>6, <5>1, <5>2
      <4>3. CASE disk.dir[n] # <<q, temp_file_path(m)>>
        <5>1. n = temp /\ inode = <<q, temp_file_path(m)>>
          BY <2>2, <3>2, <4>3
        <5>2. inode = <<r, temp>>
          BY <2>1, <4>3, <5>1 DEF OpenedInode
        <5>3. q = r /\ temp_file_path(m) = temp_file_path(name)
          BY <5>1, <5>2
        <5>4. m = name
          BY <5>3, Temps
        <5> QED
          BY <2>4, <2>6, <5>1, <5>3, <5>4
      <4> QED
        BY <4>2, <4>3
    <3> QED
      BY <3>1, <3>2 DEF Inodes
  <2>9. \A n \in StoredName \ {temp} : Content(disk', n) = Content(disk, n)
    <3>1. disk.dir \in [StoredName -> Inode \cup {NoFile}]
      BY <1>1 DEF Typed, Disk
    <3> QED
      BY <2>2, <2>7, <3>1 DEF Content, Exists
  <2>10. ASSUME NoTempNames, Copies, Quiet(r)
         PROVE  KeepsCopy(r, name, u)
    <3>1. \A n \in Name : OwnTemp(r, n)
      BY <2>10 DEF Copies, Copied
    <3>2. ASSUME NEW n \in Name \ {name}
          PROVE  OwnTemp(r, n)'
      <4>1. temp_file_path(n) \in StoredName \ {temp}
        BY Temps
      <4> QED
        BY <2>2, <2>6, <2>9, <3>1, <4>1 DEF OwnTemp, Publishing
    <3>3. OwnTemp(r, name)'
      BY <2>2, <2>4, <2>6 DEF OwnTemp, Publishing
    <3>4. \A n \in Name : Content(disk', n) = Content(disk, n)
      <4>1. \A n \in Name : n \in StoredName \ {temp}
        BY <2>10, Temps DEF NoTempNames
      <4> QED
        BY <2>9, <4>1
    <3> QED
      BY <2>4, <3>2, <3>3, <3>4 DEF KeepsCopy
  <2>11. faults' \in 0..MaxFaults
    BY <1>1, <1>3 DEF Typed
  <2>12. u.pc \notin {"none", "requested"} /\ (u.pc # "ended" => u.status = "none" /\ u.inode # NoFile)
    BY <2>3, <2>4
  <2> QED
    BY <1>1, <2>2, <2>4, <2>5, <2>8, <2>10, <2>11, <2>12, TransferStepInv
<1>4. CASE /\ faults < MaxFaults
           /\ faults' = faults + 1
           /\ SetTransfer(r, name, Answered(t, "write_failed"))
           /\ UNCHANGED disk
  <2>1. faults' \in 0..MaxFaults
    BY <1>1, <1>4, FaultCounted DEF Typed
  <2> QED
    BY <1>1, <1>4, <2>1, FailedInv
<1> QED
  BY <1>3, <1>4 DEF receive_file_bytes

(* A block goes to the open file; while the run is alone, that is its own  *)
(* temporary file.                                                         *)
LEMMA ReadSomeInv ==
    ASSUME IInv, NEW r \in Run, NEW name \in Name, ReadSome(r, name)
    PROVE  IInv' /\ (NoTempNames /\ Copies => Transferred(r, name))
<1> DEFINE t == transfer[r][name]
           temp == temp_file_path(name)
           position == t.received + 1
<1>1. /\ Typed /\ Inodes /\ t.pc = "receiving" /\ t.inode # NoFile /\ t.status = "none"
      /\ TransferActive(r, name) /\ t \in TransferRecord
  BY DEF ReadSome, IInv, Typed, TransferActive, Uploads
<1>2. t.inode \in Inode /\ position \in Nat \ {0}
  BY <1>1 DEF TransferRecord
<1>3. t.source[position] \in Block \cup {Hole}
  <2>1. t.source \in Contents \cup {<<>>} /\ position <= Len(t.source)
    BY <1>1 DEF ReadSome, TransferRecord
  <2>2. t.source \in Seq(Block)
    <3>1. <<>> \in Seq(Block)
      OBVIOUS
    <3> HIDE DEF t
    <3> QED
      BY <2>1, <3>1, ContentsAssumption
  <2>3. position \in DOMAIN t.source
    BY <1>2, <2>1, <2>2
  <2> QED
    BY <2>2, <2>3
<1>4. CASE /\ disk' = WriteBlock(disk, t.inode, position, t.source[position])
           /\ SetTransfer(r, name, Reading(r, name, [t EXCEPT !.received = position]))
           /\ UNCHANGED faults
  <2>1. PICK inode, block, u : /\ inode = t.inode /\ block = t.source[position]
                               /\ u = Reading(r, name, [t EXCEPT !.received = position])
    OBVIOUS
  <2>2. /\ disk' \in Disk /\ disk'.dir = disk.dir
        /\ \A i \in Inode \ {inode} : disk'.data[i] = disk.data[i]
    <3>1. disk \in Disk
      BY <1>1 DEF Typed
    <3>2. PICK p : p = position
      OBVIOUS
    <3>3. disk' = WriteBlock(disk, inode, p, block)
      BY <1>4, <2>1, <3>2
    <3>4. inode \in Inode /\ p \in Nat \ {0} /\ block \in Block \cup {Hole}
      BY <1>2, <1>3, <2>1, <3>2
    <3> HIDE DEF t, position
    <3> QED
      BY <3>1, <3>3, <3>4, WriteBlockEffect
  <2>3. /\ u \in TransferRecord /\ u.pc \in {"receiving", "verifying"} /\ u.inode = inode
        /\ u.status = "none"
    BY <1>1, <1>2, <2>1 DEF Reading, TransferRecord
  <2>4. SetTransfer(r, name, u)
    BY <1>4, <2>1
  <2>5. /\ transfer'[r][name] = u
        /\ \A n \in Name \ {name} : transfer'[r][n] = transfer[r][n]
        /\ \A q \in Run \ {r} : transfer'[q] = transfer[q]
        /\ run' = run
    <3>1. transfer \in [Run -> [Name -> TransferRecord]]
      BY <1>1 DEF Typed
    <3> QED
      BY <2>4, <3>1 DEF SetTransfer
  <2>6. Inodes'
    <3>1. ASSUME NEW q \in Run, NEW n \in Name
          PROVE  transfer'[q][n].inode = transfer[q][n].inode
      BY <2>1, <2>3, <2>5
    <3> QED
      BY <1>1, <2>2, <3>1 DEF Inodes
  <2>7. ASSUME NoTempNames, Copies, Quiet(r)
        PROVE  KeepsCopy(r, name, u)
    <3>1. \A n \in Name : OwnTemp(r, n)
      BY <2>7 DEF Copies, Copied
    <3>2. disk.dir[temp] = inode /\ temp \in StoredName
      BY <1>1, <2>1, <3>1, Temps DEF OwnTemp, Publishing
    <3>3. \A n \in StoredName \ {temp} : Content(disk', n) = Content(disk, n)
      <4>1. \A n \in StoredName \ {temp} : disk.dir[n] # inode
        BY <1>1, <1>2, <2>1, <3>2 DEF Inodes
      <4>2. disk.dir \in [StoredName -> Inode \cup {NoFile}]
        BY <1>1 DEF Typed, Disk
      <4> QED
        BY <2>2, <4>1, <4>2 DEF Content, Exists
    <3>4. ASSUME NEW n \in Name \ {name}
          PROVE  OwnTemp(r, n)'
      <4>1. temp_file_path(n) \in StoredName \ {temp}
        BY Temps
      <4> QED
        BY <2>2, <2>5, <3>1, <3>3, <4>1 DEF OwnTemp, Publishing
    <3>5. OwnTemp(r, name)'
      BY <2>2, <2>3, <2>5, <3>2 DEF OwnTemp, Publishing
    <3>6. \A n \in Name : Content(disk', n) = Content(disk, n)
      <4>1. \A n \in Name : n \in StoredName \ {temp}
        BY <2>7, Temps DEF NoTempNames
      <4> QED
        BY <3>3, <4>1
    <3> QED
      BY <2>3, <3>4, <3>5, <3>6 DEF KeepsCopy
  <2>8. faults' \in 0..MaxFaults
    BY <1>1, <1>4 DEF Typed
  <2>9. u.pc \notin {"none", "requested"} /\ (u.pc # "ended" => u.status = "none" /\ u.inode # NoFile)
    BY <1>1, <2>1, <2>3
  <2> QED
    BY <1>1, <2>2, <2>3, <2>4, <2>6, <2>7, <2>8, <2>9, TransferStepInv
<1>5. CASE /\ faults < MaxFaults
           /\ faults' = faults + 1
           /\ SetTransfer(r, name, Answered(t, "write_failed"))
           /\ UNCHANGED disk
  <2>1. faults' \in 0..MaxFaults
    BY <1>1, <1>5, FaultCounted DEF Typed
  <2> QED
    BY <1>1, <1>5, <2>1, FailedInv
<1> QED
  BY <1>4, <1>5 DEF ReadSome

(* A step that changes who has which name: no inode gets a second name.    *)
LEMMA DirectoryInv ==
    ASSUME IInv, NEW r \in Run, NEW name \in Name, NEW u \in TransferRecord,
           TransferActive(r, name), SetTransfer(r, name, u),
           u.pc \notin {"none", "requested"},
           u.pc # "ended" => u.status = "none" /\ u.inode # NoFile,
           u.inode = transfer[r][name].inode,
           disk' \in Disk, faults' \in 0..MaxFaults,
           \/ \A n \in StoredName : disk'.dir[n] \in {disk.dir[n], NoFile}
           \/ \E source, target \in StoredName :
                /\ disk'.dir[source] = NoFile /\ disk'.dir[target] = disk.dir[source]
                /\ \A n \in StoredName \ {source, target} : disk'.dir[n] = disk.dir[n]
    PROVE  /\ IInv'
           /\ Copies /\ (Quiet(r) => KeepsCopy(r, name, u)) => Transferred(r, name)
           /\ /\ transfer'[r][name] = u /\ run' = run
              /\ \A n \in Name \ {name} : transfer'[r][n] = transfer[r][n]
<1>1. Typed /\ Inodes
  BY DEF IInv
<1>2. /\ transfer'[r][name] = u
      /\ \A n \in Name \ {name} : transfer'[r][n] = transfer[r][n]
      /\ \A q \in Run \ {r} : transfer'[q] = transfer[q]
      /\ run' = run
  <2>1. transfer \in [Run -> [Name -> TransferRecord]]
    BY <1>1 DEF Typed
  <2> QED
    BY <2>1 DEF SetTransfer
<1>3. ASSUME NEW n \in StoredName, NEW m \in StoredName,
             disk'.dir[n] = disk'.dir[m], disk'.dir[n] # NoFile
      PROVE  n = m
  BY <1>1, <1>3 DEF Inodes
<1>4. ASSUME NEW q \in Run, NEW m \in Name, NEW n \in StoredName,
             disk'.dir[n] = <<q, temp_file_path(m)>>
      PROVE  transfer'[q][m].inode = <<q, temp_file_path(m)>>
  <2>1. <<q, temp_file_path(m)>> # NoFile
    BY Temps
  <2>2. \E k \in StoredName : disk.dir[k] = <<q, temp_file_path(m)>>
    BY <1>4, <2>1
  <2>3. transfer[q][m].inode = <<q, temp_file_path(m)>>
    BY <1>1, <2>2 DEF Inodes
  <2> QED
    BY <1>2, <2>3
<1>5. Inodes'
  BY <1>3, <1>4 DEF Inodes
<1> QED
  BY <1>2, <1>5, TransferStepInv

LEMMA DiscardTempInv ==
    ASSUME IInv, NEW r \in Run, NEW name \in Name, DiscardTemp(r, name)
    PROVE  IInv' /\ (NoTempNames /\ Copies => Transferred(r, name))
<1>fault. CASE Fault /\ FinishFails(r, name)
  <2>1. faults' \in 0..MaxFaults /\ TransferActive(r, name)
    BY <1>fault, FaultCounted DEF DiscardTemp, TransferActive, IInv, Typed
  <2> QED
    BY <1>fault, <2>1, FailedInv DEF FinishFails
<1>discard. SUFFICES ASSUME disk' = Remove(disk, temp_file_path(name)), UNCHANGED faults,
                            SetTransfer(r, name, Answered(transfer[r][name], "checksum_mismatch"))
                     PROVE  IInv' /\ (NoTempNames /\ Copies => Transferred(r, name))
  BY <1>fault DEF DiscardTemp
<1> DEFINE t == transfer[r][name]
           temp == temp_file_path(name)
<1>1. /\ Typed /\ t.pc = "discarding" /\ TransferActive(r, name) /\ t \in TransferRecord
      /\ temp \in StoredName /\ disk \in Disk /\ faults' \in 0..MaxFaults
  BY <1>discard, Temps DEF DiscardTemp, IInv, Typed, TransferActive
<1>2. PICK u : u = Answered(t, "checksum_mismatch")
  OBVIOUS
<1>3. /\ u \in TransferRecord /\ u.pc = "ended" /\ u.status = "checksum_mismatch"
      /\ u.inode = t.inode
  BY <1>1, <1>2, AnsweredType
<1>4. SetTransfer(r, name, u)
  BY <1>2, <1>discard
<1>5. /\ disk' \in Disk /\ disk'.data = disk.data /\ disk'.dir[temp] = NoFile
      /\ \A n \in StoredName \ {temp} : disk'.dir[n] = disk.dir[n]
  <2>1. disk' = Remove(disk, temp)
    BY <1>discard
  <2> QED
    BY <1>1, <2>1, RemoveEffect
<1>6. \A n \in StoredName : disk'.dir[n] \in {disk.dir[n], NoFile}
  BY <1>5
<1>7. u.pc \notin {"none", "requested"} /\ (u.pc # "ended" => u.status = "none" /\ u.inode # NoFile)
  BY <1>3
<1>8. /\ IInv'
      /\ Copies /\ (Quiet(r) => KeepsCopy(r, name, u)) => Transferred(r, name)
      /\ transfer'[r][name] = u /\ run' = run
      /\ \A n \in Name \ {name} : transfer'[r][n] = transfer[r][n]
  BY <1>1, <1>3, <1>4, <1>5, <1>6, <1>7, DirectoryInv
<1>9. \A n \in StoredName \ {temp} : Content(disk', n) = Content(disk, n)
  BY <1>5 DEF Content, Exists
<1>10. ASSUME NoTempNames, Copies, Quiet(r)
       PROVE  KeepsCopy(r, name, u)
  <2>1. \A n \in Name : OwnTemp(r, n)
    BY <1>10 DEF Copies, Copied
  <2>2. ASSUME NEW n \in Name \ {name}
        PROVE  OwnTemp(r, n)'
    <3>1. temp_file_path(n) \in StoredName \ {temp}
      BY Temps
    <3> QED
      BY <1>5, <1>8, <1>9, <2>1, <3>1 DEF OwnTemp, Publishing
  <2>3. OwnTemp(r, name)'
    BY <1>3, <1>8 DEF OwnTemp, Publishing
  <2>4. \A n \in Name : Content(disk', n) = Content(disk, n)
    <3>1. \A n \in Name : n \in StoredName \ {temp}
      BY <1>10, Temps DEF NoTempNames
    <3> QED
      BY <1>9, <3>1
  <2> QED
    BY <1>3, <2>2, <2>3, <2>4 DEF KeepsCopy
<1> QED
  BY <1>8, <1>10

(* A rename that succeeds: the target has the temporary file's content.    *)
LEMMA RenamedInv ==
    ASSUME IInv, NEW r \in Run, NEW name \in Name,
           transfer[r][name].pc \in {"publishing", "retrying"},
           disk' = Rename(disk, temp_file_path(name), name),
           SetTransfer(r, name, Answered(transfer[r][name], "ok")),
           UNCHANGED faults
    PROVE  /\ IInv' /\ (NoTempNames /\ Copies => Transferred(r, name))
           /\ Content(disk', name) = Content(disk, temp_file_path(name))
           /\ \A n \in StoredName \ {temp_file_path(name), name} : disk'.dir[n] = disk.dir[n]
           /\ transfer'[r][name].status = "ok"
           /\ disk'.data = disk.data
<1> DEFINE t == transfer[r][name]
           temp == temp_file_path(name)
<1>1. /\ Typed /\ TransferActive(r, name) /\ t \in TransferRecord
      /\ temp \in StoredName /\ name \in StoredName /\ temp # name
      /\ disk \in Disk /\ faults' \in 0..MaxFaults
  BY Temps DEF IInv, Typed, TransferActive
<1>2. PICK u : u = Answered(t, "ok")
  OBVIOUS
<1>3. u \in TransferRecord /\ u.pc = "ended" /\ u.status = "ok" /\ u.inode = t.inode
  BY <1>1, <1>2, AnsweredType
<1>4. SetTransfer(r, name, u)
  BY <1>2
<1>5. /\ disk' \in Disk /\ disk'.data = disk.data
      /\ disk'.dir[name] = disk.dir[temp] /\ disk'.dir[temp] = NoFile
      /\ \A n \in StoredName \ {temp, name} : disk'.dir[n] = disk.dir[n]
  <2>1. /\ disk' = Rename(disk, temp, name)
        /\ disk \in Disk /\ temp \in StoredName /\ name \in StoredName /\ temp # name
    BY <1>1
  <2> HIDE DEF temp
  <2>2. /\ disk' \in Disk /\ disk'.data = disk.data
        /\ disk'.dir[name] = disk.dir[temp] /\ disk'.dir[temp] = NoFile
    BY <2>1, RenameEffect
  <2>3. ASSUME NEW n \in StoredName, n # temp, n # name
        PROVE  disk'.dir[n] = disk.dir[n]
    BY <2>1, <2>3 DEF Rename, Disk
  <2> QED
    BY <2>2, <2>3
<1>6. u.pc \notin {"none", "requested"} /\ (u.pc # "ended" => u.status = "none" /\ u.inode # NoFile)
  BY <1>3
<1>7. /\ IInv'
      /\ Copies /\ (Quiet(r) => KeepsCopy(r, name, u)) => Transferred(r, name)
      /\ transfer'[r][name] = u /\ run' = run
      /\ \A n \in Name \ {name} : transfer'[r][n] = transfer[r][n]
  <2>1. \E source, target \in StoredName :
          /\ disk'.dir[source] = NoFile /\ disk'.dir[target] = disk.dir[source]
          /\ \A n \in StoredName \ {source, target} : disk'.dir[n] = disk.dir[n]
    BY <1>1, <1>5
  <2> QED
    BY <1>1, <1>3, <1>4, <1>5, <1>6, <2>1, DirectoryInv
<1>8. /\ Content(disk', name) = Content(disk, temp)
      /\ \A n \in StoredName \ {temp, name} : Content(disk', n) = Content(disk, n)
  BY <1>1, <1>5 DEF Content, Exists
<1>9. ASSUME NoTempNames, Copies, Quiet(r)
      PROVE  KeepsCopy(r, name, u)
  <2>1. \A n \in Name : OwnTemp(r, n)
    BY <1>9 DEF Copies, Copied
  <2>2. \A n \in Name \ {name} : n \in StoredName \ {temp, name}
                                 /\ temp_file_path(n) \in StoredName \ {temp, name}
    BY <1>9, Temps DEF NoTempNames
  <2>3. ASSUME NEW n \in Name \ {name}
        PROVE  OwnTemp(r, n)'
    BY <1>5, <1>7, <1>8, <2>1, <2>2 DEF OwnTemp, Publishing
  <2>4. OwnTemp(r, name)'
    BY <1>3, <1>7 DEF OwnTemp, Publishing
  <2>5. \A n \in Name \ {name} : Content(disk', n) = Content(disk, n)
    BY <1>8, <2>2
  <2>6. Content(disk', name) = run[r].files[name]
    BY <1>1, <1>8, <2>1 DEF OwnTemp, Publishing
  <2> QED
    BY <1>3, <2>3, <2>4, <2>5, <2>6 DEF KeepsCopy
<1> QED
  BY <1>3, <1>5, <1>7, <1>8, <1>9

LEMMA ReplaceInv ==
    ASSUME IInv, NEW r \in Run, NEW name \in Name, replace_atomically(r, name)
    PROVE  IInv' /\ (NoTempNames /\ Copies => Transferred(r, name))
<1> DEFINE t == transfer[r][name]
           temp == temp_file_path(name)
<1>1. /\ t.pc = "publishing" /\ TransferActive(r, name) /\ t \in TransferRecord
      /\ t.status = "none" /\ t.inode # NoFile
      /\ faults' \in 0..MaxFaults
  BY FaultCounted DEF replace_atomically, IInv, Typed, Uploads, TransferActive
<1>2. CASE /\ disk' = Rename(disk, temp, name) /\ SetTransfer(r, name, Answered(t, "ok"))
           /\ UNCHANGED faults
  BY <1>1, <1>2, RenamedInv
<1>3. CASE SetTransfer(r, name, [t EXCEPT !.pc = "unlinking"]) /\ UNCHANGED disk
  <2>1. PICK u : u = [t EXCEPT !.pc = "unlinking"]
    OBVIOUS
  <2>2. u \in TransferRecord /\ u.pc = "unlinking" /\ u.status = "none" /\ u.inode = t.inode
    BY <1>1, <2>1 DEF TransferRecord
  <2>3. SetTransfer(r, name, u)
    BY <1>3, <2>1
  <2>4. Decides(r, name, u)
    BY <1>1, <2>2 DEF Decides
  <2>5. u.pc \notin {"none", "requested"} /\ (u.pc # "ended" => u.status = "none" /\ u.inode # NoFile)
    BY <1>1, <2>2
  <2> QED
    BY <1>1, <1>3, <2>2, <2>3, <2>4, <2>5, DiskKeptInv
<1> QED
  BY <1>2, <1>3 DEF replace_atomically

(* The old file goes; the new one still has the temporary name.            *)
LEMMA RemoveTargetInv ==
    ASSUME IInv, NEW r \in Run, NEW name \in Name, RemoveTarget(r, name)
    PROVE  IInv' /\ (NoTempNames /\ Copies => Transferred(r, name))
<1> DEFINE t == transfer[r][name]
<1>1. /\ Typed /\ t.pc = "unlinking" /\ TransferActive(r, name) /\ t \in TransferRecord
      /\ t.status = "none" /\ t.inode # NoFile
      /\ name \in StoredName /\ disk \in Disk /\ faults' \in 0..MaxFaults
  BY Temps, FaultCounted DEF RemoveTarget, IInv, Typed, TransferActive, Uploads
<1>2. PICK u : u = [t EXCEPT !.pc = "retrying"]
  OBVIOUS
<1>3. u \in TransferRecord /\ u.pc = "retrying" /\ u.status = "none" /\ u.inode = t.inode
  BY <1>1, <1>2 DEF TransferRecord
<1>4. SetTransfer(r, name, u)
  BY <1>2 DEF RemoveTarget
<1>5. u.pc \notin {"none", "requested"} /\ (u.pc # "ended" => u.status = "none" /\ u.inode # NoFile)
  BY <1>1, <1>3
<1>6. CASE disk' = disk
  <2>1. Decides(r, name, u)
    BY <1>1, <1>3 DEF Decides
  <2> QED
    BY <1>1, <1>3, <1>4, <1>5, <1>6, <2>1, DiskKeptInv
<1>7. CASE disk' = Remove(disk, name)
  <2>1. /\ disk' \in Disk /\ disk'.data = disk.data /\ disk'.dir[name] = NoFile
        /\ \A n \in StoredName \ {name} : disk'.dir[n] = disk.dir[n]
    BY <1>1, <1>7, RemoveEffect
  <2>2. \A n \in StoredName : disk'.dir[n] \in {disk.dir[n], NoFile}
    BY <2>1
  <2>3. /\ IInv'
        /\ Copies /\ (Quiet(r) => KeepsCopy(r, name, u)) => Transferred(r, name)
        /\ transfer'[r][name] = u /\ run' = run
        /\ \A n \in Name \ {name} : transfer'[r][n] = transfer[r][n]
    BY <1>1, <1>3, <1>4, <1>5, <2>1, <2>2, DirectoryInv
  <2>4. \A n \in StoredName \ {name} : Content(disk', n) = Content(disk, n)
    BY <2>1 DEF Content, Exists
  <2>5. ASSUME NoTempNames, Copies, Quiet(r)
        PROVE  KeepsCopy(r, name, u)
    <3>1. \A n \in Name : OwnTemp(r, n)
      BY <2>5 DEF Copies, Copied
    <3>2. \A n \in Name : temp_file_path(n) \in StoredName \ {name}
      BY <2>5, Temps DEF NoTempNames
    <3>3. ASSUME NEW n \in Name \ {name}
          PROVE  OwnTemp(r, n)'
      BY <2>1, <2>3, <2>4, <3>1, <3>2 DEF OwnTemp, Publishing
    <3>4. OwnTemp(r, name)'
      BY <1>1, <1>3, <2>1, <2>3, <2>4, <3>1, <3>2 DEF OwnTemp, Publishing
    <3>5. \A n \in Name \ {name} : Content(disk', n) = Content(disk, n)
      BY <2>4, Temps
    <3>6. ~Exists(disk', name) /\ Content(disk', name) = NoFile
      BY <2>1 DEF Content, Exists
    <3> QED
      BY <1>3, <3>3, <3>4, <3>5, <3>6 DEF KeepsCopy
  <2> QED
    BY <2>3, <2>5
<1> QED
  BY <1>6, <1>7 DEF RemoveTarget

LEMMA RetryRenameInv ==
    ASSUME IInv, NEW r \in Run, NEW name \in Name, RetryRename(r, name)
    PROVE  IInv' /\ (NoTempNames /\ Copies => Transferred(r, name))
<1> DEFINE t == transfer[r][name]
           temp == temp_file_path(name)
<1>1. /\ t.pc = "retrying" /\ TransferActive(r, name)
      /\ faults' \in 0..MaxFaults
  BY FaultCounted DEF RetryRename, IInv, Typed, TransferActive
<1>2. CASE /\ disk' = Rename(disk, temp, name) /\ SetTransfer(r, name, Answered(t, "ok"))
           /\ UNCHANGED faults
  BY <1>1, <1>2, RenamedInv
<1>3. CASE FinishFails(r, name)
  BY <1>1, <1>3, FailedInv DEF FinishFails
<1> QED
  BY <1>2, <1>3 DEF RetryRename

-----------------------------------------------------------------------------
(* The other steps: a run begins, the user edits, the server crashes.      *)

(* A run that begins alone finds nobody active; nobody who is active stays *)
(* alone.                                                                  *)
LEMMA BeginEffect ==
    ASSUME IInv, NEW r \in Run, Begin(r)
    PROVE  /\ Typed'
           /\ run[r].pc = "idle" /\ \A q \in 1..(r - 1) : run[q].pc # "idle"
           /\ run'[r].pc \in {"listed", "over"}
           /\ run'[r].files = [name \in {n \in Name : local[n] # NoFile} |-> local[name]]
           /\ run'[r].launched = 0 /\ run'[r].completion = "none"
           /\ run'[r].alone <=> \A q \in Run \ {r} : ~Active(q)
           /\ \A q \in Run \ {r} :
                /\ run'[q].pc = run[q].pc /\ run'[q].files = run[q].files
                /\ run'[q].launched = run[q].launched
                /\ run'[q].completion = run[q].completion
                /\ run'[q].alone => run[q].alone /\ ~Active(q)
                /\ ~Active(q) => run'[q] = run[q]
           /\ control'[r].pc \in {"none", "listing"} /\ control'[r].plan = control[r].plan
           /\ faults' = faults => run'[r].pc = "listed" /\ control'[r].pc = "listing"
           /\ \A q \in Run \ {r} : control'[q] = control[q]
           /\ UNCHANGED <<local, disk, upload, transfer>>
<1> DEFINE files == [name \in {n \in Name : local[n] # NoFile} |-> local[name]]
           others == {q \in Run \ {r} : Active(q)}
           begun(pc) == [q \in Run |->
               IF q = r THEN [run[r] EXCEPT !.pc = pc, !.files = files,
                                            !.alone = (others = {})]
               ELSE IF q \in others THEN [run[q] EXCEPT !.alone = FALSE]
               ELSE run[q]]
<1>1. /\ Typed /\ run[r].pc = "idle" /\ \A q \in 1..(r - 1) : run[q].pc # "idle"
      /\ UNCHANGED <<local, disk, registry, upload, transfer, edits>>
      /\ Stages(r) /\ control[r].pc = "none"
  BY DEF Begin, IInv, Stages
<1>2. run \in [Run -> RunRecord] /\ control \in [Run -> ControlRecord] /\ run[r] \in RunRecord
  BY <1>1 DEF Typed
<1>3. files \in Listing
  <2>1. files \in [{n \in Name : local[n] # NoFile} -> Contents]
    BY <1>1 DEF Typed
  <2>2. {n \in Name : local[n] # NoFile} \in SUBSET Name
    OBVIOUS
  <2> QED
    BY <2>1, <2>2, Zenon DEF Listing
<1>4. (others = {}) \in BOOLEAN /\ ((others = {}) <=> \A q \in Run \ {r} : ~Active(q))
  OBVIOUS
<1>5. PICK pc \in {"listed", "over"} :
        /\ run' = begun(pc)
        /\ control' = [control EXCEPT ![r].pc = "listing"] \/ UNCHANGED control
        /\ \/ faults' = faults /\ pc = "listed" /\ control' = [control EXCEPT ![r].pc = "listing"]
           \/ faults < MaxFaults /\ faults' = faults + 1
  BY DEF Begin
<1> HIDE DEF files
<1>6. PICK none \in BOOLEAN : none = (others = {})
  OBVIOUS
<1>7. ASSUME NEW q \in Run \ {r}
      PROVE  /\ run'[q] \in RunRecord
             /\ run'[q].pc = run[q].pc /\ run'[q].files = run[q].files
             /\ run'[q].launched = run[q].launched
             /\ run'[q].completion = run[q].completion
             /\ run'[q].alone => run[q].alone /\ ~Active(q)
             /\ ~Active(q) => run'[q] = run[q]
  <2>1. run[q] \in RunRecord
    BY <1>2
  <2>2. CASE Active(q)
    <3>1. run'[q] = [run[q] EXCEPT !.alone = FALSE]
      BY <1>5, <2>2
    <3> QED
      BY <2>1, <2>2, <3>1 DEF RunRecord
  <2>3. CASE ~Active(q)
    <3>1. run'[q] = run[q]
      BY <1>5, <2>3
    <3> QED
      BY <2>1, <2>3, <3>1
  <2> QED
    BY <2>2, <2>3
<1>8. /\ run'[r] \in RunRecord /\ run'[r].pc = pc /\ run'[r].files = files
      /\ run'[r].launched = run[r].launched /\ run'[r].completion = run[r].completion
      /\ run'[r].alone = none
  <2>1. run'[r] = [run[r] EXCEPT !.pc = pc, !.files = files, !.alone = none]
    BY <1>5, <1>6
  <2> QED
    BY <1>2, <1>3, <2>1 DEF RunRecord
<1>9. /\ control' \in [Run -> ControlRecord]
      /\ control'[r].pc \in {"none", "listing"} /\ control'[r].plan = control[r].plan
      /\ \A q \in Run \ {r} : control'[q] = control[q]
      /\ faults' = faults => pc = "listed" /\ control'[r].pc = "listing"
  <2>1. faults + 1 # faults
    BY <1>1, BoundsAssumption DEF Typed
  <2> QED
    BY <1>1, <1>2, <1>5, <2>1 DEF ControlRecord
<1>10. faults' \in 0..MaxFaults
  BY <1>1, <1>5, FaultCounted DEF Typed
<1>11. Typed'
  <2>1. run' \in [Run -> RunRecord]
    <3>1. run' = [q \in Run |-> run'[q]]
      BY <1>5
    <3> QED
      BY <1>7, <1>8, <3>1
  <2> QED
    BY <1>1, <1>9, <1>10, <2>1 DEF Typed
<1>12. run[r].launched = 0 /\ run[r].completion = "none"
  BY <1>1 DEF Stages
<1>13. run'[r].alone <=> \A q \in Run \ {r} : ~Active(q)
  <2>1. CASE none = TRUE
    BY <1>6, <1>8, <2>1
  <2>2. CASE none = FALSE
    BY <1>6, <1>8, <2>2
  <2> QED
    BY <2>1, <2>2
<1>14. run'[r].files = [name \in {n \in Name : local[n] # NoFile} |-> local[name]]
  BY <1>8 DEF files
<1> QED
  BY <1>1, <1>7, <1>8, <1>9, <1>11, <1>12, <1>13, <1>14

LEMMA BeginInv ==
    ASSUME IInv, NEW r \in Run, Begin(r)
    PROVE  IInv' /\ Copies'
<1>1. /\ Typed' /\ Ordered /\ Inodes /\ run[r].pc = "idle" /\ run[r].launched = 0
      /\ \A q \in 1..(r - 1) : run[q].pc # "idle"
      /\ run'[r].pc # "idle"
      /\ UNCHANGED <<local, disk, upload, transfer>>
  BY BeginEffect DEF IInv, Stages
<1>2. \A q \in Run : q < r => run[q].pc # "idle"
  BY <1>1, BoundsAssumption DEF Run
<1>3. \A q \in Run : q > r => run[q].pc = "idle"
  BY <1>1 DEF Ordered
<1>4. \A q \in Run \ {r} : run'[q].pc = run[q].pc
  BY BeginEffect
<1>5. Ordered'
  BY <1>1, <1>2, <1>3, <1>4 DEF Ordered, Run
<1>6. Inodes'
  BY <1>1 DEF Inodes
<1>7. \A q \in Run \ {r} : Active(q)' <=> Active(q)
  <2>1. \A q \in Run \ {r} : control'[q] = control[q]
    BY BeginEffect
  <2> QED
    BY <1>1, <1>4, <2>1 DEF Active, RunActive, ControlActive, TransferActive
<1>8. ASSUME NEW q \in Run \ {r}
      PROVE  Stages(q)' /\ Uploads(q)' /\ Undisturbed(q)' /\ ~Quiet(q)'
  <2>1. Stages(q) /\ Uploads(q) /\ Undisturbed(q)
    BY DEF IInv
  <2>2. /\ run'[q].pc = run[q].pc /\ run'[q].files = run[q].files
        /\ run'[q].launched = run[q].launched /\ run'[q].completion = run[q].completion
        /\ control'[q] = control[q]
        /\ run'[q].alone => run[q].alone /\ ~Active(q)
    BY BeginEffect
  <2>3. Stages(q)'
    BY <2>1, <2>2 DEF Stages, Planned
  <2>4. Uploads(q)'
    BY <1>1, <2>1, <2>2 DEF Uploads, Launched, Planned
  <2>5. SUFFICES ASSUME run[q].alone, ~Active(q)
                 PROVE  Undisturbed(q)' /\ ~Quiet(q)'
    BY <2>2, <2>3, <2>4 DEF Undisturbed, Quiet
  <2>6. q < r
    BY <1>3, <2>1, <2>5 DEF Stages, Run
  <2>7. Undisturbed(q)'
    BY <1>7, <2>1, <2>5, <2>6 DEF Undisturbed, Run
  <2>8. ~Latest(q)'
    BY <1>1, <2>6 DEF Latest, Begun, Run
  <2> QED
    BY <2>7, <2>8 DEF Quiet
<1>9. Stages(r)' /\ Uploads(r)'
  <2>1. Stages(r) /\ Uploads(r)
    BY DEF IInv
  <2>2. /\ run'[r].launched = 0 /\ run'[r].completion = "none" /\ control'[r].plan = <<>>
        /\ run'[r].pc \in {"listed", "over"} /\ control'[r].pc \in {"none", "listing"}
    BY <1>1, <2>1, BeginEffect DEF Stages
  <2>3. control[r].plan = <<>> /\ run[r].launched = 0
    BY <1>1, <2>1 DEF Stages
  <2>4. Range(<<>>) = {} /\ IsInjective(<<>>) /\ Len(<<>>) = 0
    BY DEF Range, IsInjective
  <2>5. Stages(r)'
    BY <2>2, <2>4 DEF Stages, Planned
  <2>6. Launched(r)' = {} /\ Launched(r) = {}
    BY <2>2, <2>3 DEF Launched
  <2>7. Uploads(r)'
    BY <1>1, <2>1, <2>2, <2>6 DEF Uploads
  <2> QED
    BY <2>5, <2>7
<1>10. Undisturbed(r)'
  <2>1. run'[r].alone => \A q \in Run \ {r} : ~Active(q)
    BY BeginEffect
  <2>2. \A q \in Run : q < r \/ q > r => q \in Run \ {r}
    BY DEF Run
  <2>3. \A q \in Run : q > r => run'[q].pc = "idle"
    BY <1>3, <1>4, <2>2
  <2> QED
    BY <1>7, <2>1, <2>2, <2>3 DEF Undisturbed
<1>11. Copied(r)'
  <2>1. \A n \in Name : OwnTemp(r, n)'
    BY <1>1, NothingLaunched DEF OwnTemp, Publishing
  <2>2. control'[r].pc \in {"none", "listing"} /\ control'[r].plan = <<>>
    BY <1>1, BeginEffect DEF IInv, Stages
  <2>3. Planned(r)' = {}
    BY <2>2 DEF Planned, Range
  <2> QED
    BY <2>1, <2>2, <2>3 DEF Copied
<1>12. \A q \in Run : Stages(q)' /\ Uploads(q)' /\ Undisturbed(q)'
  BY <1>8, <1>9, <1>10
<1>13. \A q \in Run : Copied(q)'
  BY <1>8, <1>11 DEF Copied
<1> QED
  BY <1>1, <1>5, <1>6, <1>12, <1>13 DEF IInv, Copies

(* Nothing that the invariant speaks of changes.                           *)
LEMMA KeptInv ==
    ASSUME IInv, Typed', UNCHANGED <<disk, run, control, upload, transfer>>
    PROVE  IInv' /\ (Copies => Copies')
<1>1. Ordered' /\ Inodes'
  BY DEF IInv, Ordered, Inodes
<1>2. ASSUME NEW r \in Run
      PROVE  /\ Stages(r)' /\ Uploads(r)' /\ Undisturbed(r)'
             /\ Copied(r) => Copied(r)'
  <2>1. Stages(r) /\ Uploads(r) /\ Undisturbed(r)
    BY DEF IInv
  <2>2. Stages(r)'
    BY <2>1 DEF Stages, Planned
  <2>3. Uploads(r)'
    BY <2>1 DEF Uploads, Launched, Planned
  <2>4. Undisturbed(r)'
    BY <2>1 DEF Undisturbed, Active, RunActive, ControlActive, TransferActive
  <2>5. Copied(r) => Copied(r)'
    BY DEF Copied, Quiet, Latest, Begun, OwnTemp, Publishing, Planned, Unexpected
  <2> QED
    BY <2>2, <2>3, <2>4, <2>5
<1> QED
  BY <1>1, <1>2 DEF IInv, Copies

LEMMA EditInv ==
    ASSUME IInv, NEW name \in Name, Edit(name)
    PROVE  IInv' /\ (Copies => Copies')
<1>1. Typed /\ UNCHANGED <<disk, registry, run, control, upload, transfer, faults>>
  BY DEF IInv, Edit
<1>2. local' \in [Name -> Contents \cup {NoFile}]
  BY <1>1 DEF Edit, Typed
<1>3. edits' \in 0..MaxEdits
  BY <1>1, FaultCounted DEF Edit, Typed
<1>4. Typed'
  BY <1>1, <1>2, <1>3 DEF Typed
<1> QED
  BY <1>1, <1>4, KeptInv

LEMMA CrashServerEffect ==
    ASSUME IInv, CrashServer
    PROVE  /\ Typed' /\ UNCHANGED <<local, disk, run, upload, edits>>
           /\ \A r \in Run :
                /\ control'[r].plan = control[r].plan
                /\ \/ control'[r] = control[r] /\ ~ControlActive(r)
                   \/ control'[r].pc = "dropped" /\ ControlActive(r)
                /\ \A name \in Name :
                     /\ transfer'[r][name].inode = transfer[r][name].inode
                     /\ \/ transfer'[r][name] = transfer[r][name] /\ ~TransferActive(r, name)
                        \/ /\ transfer'[r][name].pc = "ended" /\ TransferActive(r, name)
                           /\ transfer'[r][name].status = "lost"
<1>1. /\ Typed /\ control \in [Run -> ControlRecord]
      /\ transfer \in [Run -> [Name -> TransferRecord]]
  BY DEF IInv, Typed
<1>2. ASSUME NEW r \in Run
      PROVE  /\ control'[r] \in ControlRecord
             /\ control'[r].plan = control[r].plan
             /\ \/ control'[r] = control[r] /\ ~ControlActive(r)
                \/ control'[r].pc = "dropped" /\ ControlActive(r)
  <2>1. control[r] \in ControlRecord
    BY <1>1
  <2>2. CASE ControlActive(r)
    <3>1. control'[r] = [control[r] EXCEPT !.pc = "dropped", !.todo = {}, !.found = NoFiles]
      BY <2>2 DEF CrashServer
    <3> QED
      BY <2>1, <2>2, <3>1, EmptyListing DEF ControlRecord
  <2>3. CASE ~ControlActive(r)
    BY <2>1, <2>3 DEF CrashServer
  <2> QED
    BY <2>2, <2>3
<1>3. ASSUME NEW r \in Run, NEW name \in Name
      PROVE  /\ transfer'[r][name] \in TransferRecord
             /\ transfer'[r][name].inode = transfer[r][name].inode
             /\ \/ transfer'[r][name] = transfer[r][name] /\ ~TransferActive(r, name)
                \/ /\ transfer'[r][name].pc = "ended" /\ TransferActive(r, name)
                   /\ transfer'[r][name].status = "lost"
  <2>1. transfer[r][name] \in TransferRecord
    BY <1>1
  <2>2. CASE TransferActive(r, name)
    <3>1. transfer'[r][name] = Answered(transfer[r][name], "lost")
      BY <2>2 DEF CrashServer
    <3> QED
      BY <2>1, <2>2, <3>1, AnsweredType
  <2>3. CASE ~TransferActive(r, name)
    BY <2>1, <2>3 DEF CrashServer
  <2> QED
    BY <2>2, <2>3
<1>4. control' \in [Run -> ControlRecord]
  <2>1. control' = [r \in Run |-> control'[r]]
    BY DEF CrashServer
  <2> QED
    BY <1>2, <2>1
<1>5. transfer' \in [Run -> [Name -> TransferRecord]]
  <2>1. transfer' = [r \in Run |-> [name \in Name |-> transfer'[r][name]]]
    BY DEF CrashServer
  <2> QED
    BY <1>3, <2>1
<1>6. DOMAIN registry' \subseteq Name /\ faults' \in 0..MaxFaults
  BY <1>1, EmptyListing, FaultCounted DEF CrashServer, Typed
<1>7. UNCHANGED <<local, disk, run, upload, edits>>
  BY DEF CrashServer
<1>8. Typed'
  BY <1>1, <1>4, <1>5, <1>6, <1>7 DEF Typed
<1> QED
  BY <1>2, <1>3, <1>7, <1>8

LEMMA CrashServerInv ==
    ASSUME IInv, CrashServer
    PROVE  IInv' /\ (Copies => Copies')
<1>1. Typed' /\ UNCHANGED <<local, disk, run, upload, edits>>
  BY CrashServerEffect
<1>2. Ordered'
  BY <1>1 DEF IInv, Ordered
<1>3. Inodes'
  BY <1>1, CrashServerEffect DEF IInv, Inodes
<1>4. ASSUME NEW r \in Run
      PROVE  /\ Stages(r)' /\ Uploads(r)' /\ Undisturbed(r)'
             /\ Copied(r) => Copied(r)'
  <2>1. Typed /\ Stages(r) /\ Uploads(r) /\ Undisturbed(r)
    BY DEF IInv
  <2>2. /\ control'[r].plan = control[r].plan
        /\ \/ control'[r] = control[r]
           \/ control'[r].pc = "dropped" /\ control[r].pc \notin {"none", "acked"}
    BY CrashServerEffect DEF ControlActive
  <2>3. Planned(r)' = Planned(r) /\ Launched(r)' = Launched(r)
    BY <1>1, <2>2 DEF Planned, Launched
  <2>4. Stages(r)'
    BY <1>1, <2>1, <2>2, <2>3 DEF Stages
  <2>5. ASSUME NEW name \in Name
        PROVE  /\ transfer'[r][name].inode = transfer[r][name].inode
               /\ \/ transfer'[r][name] = transfer[r][name]
                  \/ /\ transfer'[r][name].pc = "ended"
                     /\ transfer[r][name].pc \notin {"none", "ended"}
                     /\ transfer'[r][name].status = "lost"
    BY CrashServerEffect DEF TransferActive
  <2>6. Uploads(r)'
    <3>1. run'[r].completion = "ok" => /\ run'[r].launched = Len(control'[r].plan)
                                       /\ \A name \in Planned(r)' : upload'[r][name] = "ok"
      BY <1>1, <2>1, <2>2, <2>3 DEF Uploads
    <3>2. ASSUME NEW name \in Name
          PROVE  /\ transfer'[r][name].pc # "none" => name \in Launched(r)'
                 /\ upload'[r][name] # "none" => transfer'[r][name].pc # "none"
                 /\ transfer'[r][name].pc \in {"none", "requested"} =>
                        transfer'[r][name].inode = NoFile
                 /\ transfer'[r][name].pc \notin {"none", "requested", "ended"} =>
                        transfer'[r][name].inode # NoFile
                 /\ transfer'[r][name].status # "none" => transfer'[r][name].pc = "ended"
                 /\ upload'[r][name] = "ok" => transfer'[r][name].status = "ok"
      <4>1. CASE transfer'[r][name] = transfer[r][name]
        BY <1>1, <2>1, <2>3, <4>1 DEF Uploads
      <4>2. CASE transfer'[r][name] # transfer[r][name]
        BY <1>1, <2>1, <2>3, <2>5, <4>2 DEF Uploads
      <4> QED
        BY <4>1, <4>2
    <3> QED
      BY <3>1, <3>2 DEF Uploads
  <2>7. \A q \in Run : Active(q)' => Active(q)
    <3>1. \A q \in Run : ControlActive(q)' => ControlActive(q)
      BY CrashServerEffect DEF ControlActive
    <3>2. \A q \in Run, name \in Name : TransferActive(q, name)' => TransferActive(q, name)
      BY CrashServerEffect DEF TransferActive
    <3>3. \A q \in Run : RunActive(q)' => RunActive(q)
      BY <1>1 DEF RunActive
    <3> QED
      BY <3>1, <3>2, <3>3 DEF Active
  <2>8. Undisturbed(r)'
    BY <1>1, <2>1, <2>7 DEF Undisturbed
  <2>9. ASSUME Copied(r) PROVE Copied(r)'
    <3>1. SUFFICES ASSUME Quiet(r) PROVE Copied(r)'
      BY <1>1 DEF Copied, Quiet, Latest, Begun
    <3>2. \A name \in Name : OwnTemp(r, name)'
      <4>1. \A name \in Name : transfer'[r][name].pc \in {"none", "ended"}
        BY CrashServerEffect DEF TransferActive
      <4> QED
        BY <4>1 DEF OwnTemp, Publishing
    <3>3. control'[r].pc \notin {"scanning", "planned", "cleaning"}
      BY CrashServerEffect DEF ControlActive
    <3>4. \A name \in Planned(r)' :
             transfer'[r][name].status = "ok" <=> Content(disk', name) = run'[r].files[name]
      <4> SUFFICES ASSUME NEW name \in Planned(r)
                   PROVE  transfer'[r][name].status = "ok" <=> Content(disk, name) = run[r].files[name]
        BY <1>1, <2>3
      <4>1. name \in Name
        BY <2>1, ListingIsFunction DEF Stages, Typed, RunRecord
      <4>2. transfer'[r][name].status = "ok" <=> transfer[r][name].status = "ok"
        BY <2>1, <2>5, <4>1 DEF Uploads
      <4> QED
        BY <2>9, <3>1, <4>2 DEF Copied
    <3>5. CASE control'[r].pc = "acked"
      <4>1. control'[r] = control[r] /\ control[r].pc = "acked"
        BY <2>2, <3>5
      <4>2. /\ \A name \in DOMAIN run[r].files :
                  name \in Planned(r) \/ Content(disk, name) = run[r].files[name]
            /\ Unexpected(r) = {}
        BY <2>9, <3>1, <4>1 DEF Copied
      <4> QED
        BY <1>1, <2>3, <3>2, <3>4, <3>5, <4>1, <4>2 DEF Copied, Unexpected
    <3>6. CASE control'[r].pc # "acked"
      BY <3>2, <3>3, <3>4, <3>6 DEF Copied
    <3> QED
      BY <3>5, <3>6
  <2> QED
    BY <2>4, <2>6, <2>8, <2>9
<1> QED
  BY <1>1, <1>2, <1>3, <1>4 DEF IInv, Copies

LEMMA TransferStepKept ==
    ASSUME IInv, NEW r \in Run, NEW name \in Name, TransferStep(r, name)
    PROVE  IInv' /\ (NoTempNames /\ Copies => Transferred(r, name))
  BY ReceiveFileBytesInv, ReadSomeInv, InterruptedInv, FinishTransferInv, DiscardTempInv,
     ReplaceInv, RemoveTargetInv, RetryRenameInv DEF TransferStep

LEMMA StepInv ==
    ASSUME IInv, [Next]_vars
    PROVE  IInv' /\ (NoTempNames /\ Copies => Copies')
<1>1. ASSUME NEW r \in Run, ClientStep(r)
      PROVE  IInv' /\ (Copies => Copies')
  BY <1>1, ClientOnlyInv, LaunchNextInv, UploadOnlyInv
  DEF ClientStep, ClientOnly, UploadOnly
<1>2. ASSUME NEW r \in Run, ControlStep(r)
      PROVE  IInv' /\ (Copies => Copies')
  BY <1>2, ReadFileListInv, ScanFileInv, RemoveFileInv, ReadSyncCompleteInv, AcknowledgeInv,
     DropControlInv DEF ControlStep
<1>3. ASSUME NEW r \in Run, NEW name \in Name, TransferStep(r, name)
      PROVE  IInv' /\ (NoTempNames /\ Copies => Copies')
  BY <1>3, TransferStepKept DEF Transferred
<1>4. CASE Environment
  BY <1>4, BeginInv, EditInv, ClientOnlyInv, UploadOnlyInv, CrashServerInv
  DEF Environment, ClientOnly, UploadOnly
<1>5. CASE UNCHANGED vars
  <2>1. Typed'
    BY <1>5 DEF vars, IInv, Typed
  <2> QED
    BY <1>5, <2>1, KeptInv DEF vars
<1> QED
  BY <1>1, <1>2, <1>3, <1>4, <1>5 DEF Next, Process

(* IInv is an inductive invariant of the whole program: who holds a file,  *)
(* a thread or a transfer, and how the two ends agree about it.            *)
THEOREM Invariant == Spec => []IInv
  BY InitInv, StepInv, PTL DEF Spec

(* The types (TypeOK), and with them: the uploads launched are a beginning *)
(* of the plan, which names listed files.                                  *)
THEOREM TypeCorrect == Spec => []TypeOK
<1>1. ASSUME IInv PROVE TypeOK
  <2>1. Typed
    BY <1>1 DEF IInv
  <2>2. ASSUME NEW r \in Run
        PROVE  Stages(r)
    BY <1>1 DEF IInv
  <2>3. /\ disk.dir \in [StoredName -> Inode \cup {NoFile}]
        /\ DOMAIN disk.data = Inode
    BY <2>1 DEF Typed, Disk
  <2>4. ASSUME NEW r \in Run
        PROVE  /\ run[r].pc \in {"idle", "listed", "uploading", "completing", "over", "killed"}
               /\ run[r].completion \in {"none", "ok", "failed"}
               /\ control[r].pc \in {"none", "listing", "scanning", "planned", "cleaning",
                                     "acked", "errored", "dropped"}
               /\ control[r].todo \subseteq StoredName
    BY <2>1 DEF Typed, RunRecord, ControlRecord
  <2>5. ASSUME NEW r \in Run, NEW name \in Name
        PROVE  /\ upload[r][name] \in {"none", "waiting", "ok", "failed"}
               /\ transfer[r][name].inode \in Inode \cup {NoFile}
    BY <2>1 DEF Typed, UploadState, TransferRecord
  <2> QED
    BY <2>1, <2>2, <2>3, <2>4, <2>5 DEF TypeOK, Typed, Stages
<1> QED
  BY <1>1, Invariant, PTL

-----------------------------------------------------------------------------
(* A copy that is kept in step with the run is exact when it ends.         *)
LEMMA ExactCopyFollows == ASSUME IInv, Copies PROVE ExactCopy
<1>1. SUFFICES ASSUME NEW r \in Run, control[r].pc = "acked", run[r].alone, Latest(r)
               PROVE  Mirrors(r)
  BY DEF ExactCopy
<1>2. Copied(r) /\ Stages(r) /\ Typed
  BY DEF Copies, IInv
<1>3. \A name \in Planned(r) : transfer[r][name].status = "ok"
  BY <1>1, <1>2, UploadsOver DEF Stages
<1>4. \A name \in DOMAIN run[r].files : Content(disk, name) = run[r].files[name]
  BY <1>1, <1>2, <1>3 DEF Copied, Quiet
<1>5. Present(disk) \subseteq DOMAIN run[r].files
  BY <1>1, <1>2 DEF Copied, Quiet, Unexpected
<1>6. ASSUME NEW name \in DOMAIN run[r].files
      PROVE  name \in Present(disk)
  <2>1. name \in Name /\ run[r].files[name] \in Contents
    BY <1>2, ListingIsFunction DEF Typed, RunRecord
  <2>2. Content(disk, name) # NoFile
    BY <1>4, <2>1, NoFileAssumption
  <2> QED
    BY <1>2, <2>1, <2>2, Temps DEF Content, Present, Typed, Disk
<1> QED
  BY <1>4, <1>5, <1>6 DEF Mirrors

(* With no temporary file under a client's name, every acknowledged run    *)
(* that was alone leaves an exact copy (ExactCopy): the whole program.     *)
THEOREM ExactCopyHolds ==
    ASSUME NoTempNames
    PROVE  Spec => []ExactCopy
<1>1. Init => IInv /\ Copies
  BY InitInv
<1>2. IInv /\ Copies /\ [Next]_vars => IInv' /\ Copies'
  BY StepInv
<1>3. IInv /\ Copies => ExactCopy
  BY ExactCopyFollows
<1> QED
  BY <1>1, <1>2, <1>3, PTL DEF Spec

-----------------------------------------------------------------------------
(* The inductive invariant of RepeatIsQuiet: until the second run has its  *)
(* plan, the directory still has what the first one brought there.         *)
Scanned == {"none", "listing", "scanning"}

Follows(r) == r # 1 /\ run[r - 1].alone /\ run[r].alone

Brought(r) ==
    {name \in DOMAIN run[r].files :
        control[r].pc = "acked" \/ transfer[r][name].status = "ok"}

Repeated(r) ==
    Follows(r) =>
        /\ Latest(r) /\ control[r].pc \in Scanned =>
               \A name \in Brought(r - 1) : Content(disk, name) = run[r - 1].files[name]
        /\ \A name \in Brought(r - 1) \cap DOMAIN run[r].files :
               run[r].files[name] = run[r - 1].files[name] => name \notin Planned(r)

Repeats == \A r \in Run : Repeated(r)

(* The run before stays as it is: it is over.                              *)
LEMMA BroughtKept ==
    ASSUME IInv, NEW s \in Run, Own(s), Active(s), NEW r \in Run, Follows(r)'
    PROVE  /\ r - 1 \in Run /\ r - 1 # r /\ Follows(r)
           /\ Brought(r - 1)' = Brought(r - 1)
           /\ run'[r - 1] = run[r - 1] /\ run'[r].files = run[r].files
<1>1. r - 1 \in Run /\ r - 1 # r /\ r - 1 < r
  BY BoundsAssumption DEF Follows, Run
<1>2. run'[r].files = run[r].files /\ (run'[r].alone <=> run[r].alone)
  BY DEF Own
<1>3. run[r].alone
  BY <1>2 DEF Follows
<1>4. ~Active(r - 1)
  BY <1>1, <1>3 DEF IInv, Undisturbed
<1>5. r - 1 # s
  BY <1>4
<1>6. PICK q \in Run \ {s} : q = r - 1
  BY <1>1, <1>5
<1>7. run'[q] = run[q] /\ control'[q] = control[q] /\ transfer'[q] = transfer[q]
  BY DEF Own
<1>8. run[q].alone
  BY <1>6, <1>7 DEF Follows
<1> QED
  BY <1>1, <1>2, <1>3, <1>6, <1>7, <1>8 DEF Follows, Brought

LEMMA OthersRepeat ==
    ASSUME IInv, Repeats, NEW s \in Run, Own(s), Active(s), run[s].pc # "idle", NEW r \in Run \ {s}
    PROVE  Repeated(r)'
<1>1. SUFFICES ASSUME Follows(r)' PROVE Repeated(r)'
  BY DEF Repeated
<1>2. /\ Follows(r) /\ Brought(r - 1)' = Brought(r - 1)
      /\ run'[r - 1] = run[r - 1] /\ run'[r].files = run[r].files
  BY <1>1, BroughtKept
<1>3. control'[r] = control[r] /\ ~Quiet(r)'
  BY OthersKept DEF Own
<1>4. ~Latest(r)'
  BY <1>1, <1>3 DEF Quiet, Follows
<1>5. Planned(r)' = Planned(r)
  BY <1>3 DEF Planned
<1> QED
  BY <1>2, <1>4, <1>5 DEF Repeats, Repeated

(* A step of the run itself that leaves the scan alone.                    *)
LEMMA OwnRepeats ==
    ASSUME IInv, Repeats, NEW r \in Run, Own(r), Active(r), run[r].pc # "idle",
           \/ /\ control'[r].plan = control[r].plan
              /\ control'[r].pc \in Scanned => control[r].pc \in Scanned /\ disk' = disk
           \/ Repeated(r)'
    PROVE  Repeats'
<1>1. SUFFICES ASSUME control'[r].plan = control[r].plan,
                      control'[r].pc \in Scanned => control[r].pc \in Scanned /\ disk' = disk,
                      Follows(r)'
               PROVE  Repeated(r)'
  BY OthersRepeat DEF Repeats, Repeated
<1>2. /\ Follows(r) /\ Brought(r - 1)' = Brought(r - 1)
      /\ run'[r - 1] = run[r - 1] /\ run'[r].files = run[r].files
  BY <1>1, BroughtKept
<1>3. Latest(r)' <=> Latest(r)
  BY OthersKept
<1>4. Planned(r)' = Planned(r)
  BY <1>1 DEF Planned
<1> QED
  BY <1>1, <1>2, <1>3, <1>4 DEF Repeats, Repeated

LEMMA ScanRepeats ==
    ASSUME IInv, Repeats, Copies', NEW r \in Run, control[r].pc \in {"listing", "scanning"},
           NEW todo \in SUBSET StoredName, NEW found \in Found, continue_scan(r, todo, found),
           UNCHANGED <<local, disk, run, upload, transfer>>
    PROVE  Repeats'
<1>1. Typed /\ Stages(r) /\ Active(r) /\ run[r].pc # "idle" /\ control[r].plan = <<>>
  BY DEF IInv, Stages, Active, ControlActive
<1>2. Own(r)
  <2>1. \A q \in Run \ {r} : control'[q] = control[q]
    BY ContinueScanEffect
  <2> QED
    BY <1>1, <2>1 DEF Own, Typed, RunRecord
<1>3. CASE control'[r].pc = "scanning"
  <2>1. control'[r].plan = control[r].plan
    BY <1>3, ContinueScanEffect
  <2> QED
    BY <1>1, <1>2, <2>1, OwnRepeats DEF Scanned
<1>4. CASE control'[r].pc = "planned"
  <2>1. SUFFICES ASSUME Follows(r)'
                 PROVE  \A name \in Brought(r - 1)' \cap DOMAIN run'[r].files :
                            run'[r].files[name] = run'[r - 1].files[name] => name \notin Planned(r)'
    BY <1>1, <1>2, <1>4, OwnRepeats DEF Repeated, Scanned
  <2>2. /\ Follows(r) /\ Brought(r - 1)' = Brought(r - 1) /\ r - 1 \in Run
        /\ run' = run /\ disk' = disk
    BY <1>1, <1>2, <2>1, BroughtKept
  <2>3. Quiet(r)' /\ Latest(r)
    <3>1. \A q \in Run : q > r => run[q].pc = "idle"
      BY <1>1, <2>2 DEF IInv, Undisturbed, Follows
    <3>2. Latest(r)
      BY <3>1 DEF Latest, Begun, Run
    <3>3. Latest(r)'
      BY <2>2, <3>2 DEF Latest, Begun
    <3> QED
      BY <2>2, <3>2, <3>3 DEF Quiet, Follows
  <2>4. \A name \in Brought(r - 1) : Content(disk, name) = run[r - 1].files[name]
    BY <2>2, <2>3 DEF Repeats, Repeated, Scanned
  <2>5. ASSUME NEW name \in Brought(r - 1) \cap DOMAIN run[r].files,
               run[r].files[name] = run[r - 1].files[name]
        PROVE  name \notin Planned(r)'
    <3>1. name \in Planned(r)' =>
            (transfer'[r][name].status = "ok" <=> Content(disk', name) = run'[r].files[name])
      BY <2>3 DEF Copies, Copied
    <3>2. transfer'[r][name].status = "none"
      <4>1. name \in Name
        BY <1>1, ListingIsFunction DEF Typed, RunRecord
      <4> QED
        BY <1>1, <4>1, NothingLaunched DEF Stages
    <3> QED
      BY <2>2, <2>4, <2>5, <3>1, <3>2
  <2> QED
    BY <2>2, <2>5
<1> QED
  BY <1>3, <1>4, ContinueScanEffect

LEMMA OwnStepEffect ==
    ASSUME IInv, NEW r \in Run, OwnStep(r)
    PROVE  Own(r) /\ Active(r) /\ run[r].pc # "idle"
<1>1. /\ Typed /\ run \in [Run -> RunRecord] /\ control \in [Run -> ControlRecord]
      /\ upload \in [Run -> [Name -> UploadState]]
      /\ transfer \in [Run -> [Name -> TransferRecord]]
      /\ run[r].alone \in BOOLEAN
  BY DEF IInv, Typed, RunRecord
<1>2. Active(r) => run[r].pc # "idle"
  <2>1. run[r].pc = "idle" => run[r].launched = 0 /\ control[r].pc = "none"
    BY DEF IInv, Stages
  <2>2. run[r].pc = "idle" => \A name \in Name : transfer[r][name].pc = "none"
    BY <2>1, NothingLaunched
  <2> QED
    BY <2>1, <2>2 DEF Active, RunActive, ControlActive, TransferActive
<1>3. CASE ClientOnly(r)
  BY <1>2, <1>3, ClientOnlyEffect DEF Active
<1>4. ASSUME UNCHANGED <<local, run>>, Active(r),
             \A q \in Run \ {r} : /\ control'[q] = control[q] /\ upload'[q] = upload[q]
                                  /\ transfer'[q] = transfer[q]
      PROVE  Own(r) /\ Active(r)
  BY <1>1, <1>2, <1>4 DEF Own
<1>5. CASE launch_next(r)
  <2>1. /\ Active(r) /\ UNCHANGED <<local, control>>
        /\ run' = [run EXCEPT ![r].launched = @ + 1]
    BY <1>5 DEF launch_next, Active, RunActive
  <2>2. \A q \in Run \ {r} : upload'[q] = upload[q] /\ transfer'[q] = transfer[q]
    BY <1>1, <1>5 DEF launch_next
  <2>3. /\ \A q \in Run \ {r} : run'[q] = run[q]
        /\ run'[r].files = run[r].files /\ run'[r].alone = run[r].alone
        /\ run'[r].pc = run[r].pc
    BY <1>1, <2>1 DEF RunRecord
  <2>4. run[r].pc # "idle" /\ run'[r].pc # "idle"
    BY <1>2, <2>1, <2>3
  <2> HIDE <1>1
  <2>5. run'[r].alone \in BOOLEAN
    BY <1>1, <2>3
  <2>6. Own(r)
    BY <2>1, <2>2, <2>3, <2>4, <2>5 DEF Own
  <2> QED
    BY <2>1, <2>4, <2>6
<1>6. ASSUME NEW name \in Name, UploadOnly(r, name)
      PROVE  Own(r) /\ Active(r)
  <2>1. /\ UNCHANGED <<local, run, control, transfer>> /\ Active(r)
        /\ \E v \in {"ok", "failed"} : upload' = [upload EXCEPT ![r][name] = v]
    BY <1>6 DEF UploadOnly, read_transfer_result, SourceMissing, SourceTooShort, Closes, LoseConnection, Active, RunActive
  <2>2. \A q \in Run \ {r} : upload'[q] = upload[q]
    BY <1>1, <2>1
  <2> QED
    BY <1>4, <2>1, <2>2
<1>7. CASE ControlStep(r)
  <2>1. UNCHANGED <<local, run, upload, transfer>> /\ ControlActive(r)
    BY <1>7 DEF ControlStep, read_file_list, ScanFile, RemoveFile, read_sync_complete,
                Acknowledge, DropControl, ControlActive
  <2>2. \A q \in Run \ {r} : control'[q] = control[q]
    BY <1>1, <1>7 DEF ControlStep, read_file_list, ScanFile, RemoveFile, read_sync_complete,
                Acknowledge, DropControl, continue_scan
  <2>3. Active(r)
    BY <2>1 DEF Active
  <2> QED
    BY <1>2, <1>4, <2>1, <2>2, <2>3
<1>8. ASSUME NEW name \in Name, TransferStep(r, name)
      PROVE  Own(r) /\ Active(r)
  <2>1. TransferActive(r, name) /\ \E u : SetTransfer(r, name, u)
    BY <1>8 DEF TransferStep, receive_file_bytes, ReadSome, Interrupted, finish_transfer,
                FinishFails, DiscardTemp, replace_atomically, RemoveTarget, RetryRename,
                TransferActive
  <2>2. /\ UNCHANGED <<local, run, control, upload>>
        /\ \A q \in Run \ {r} : transfer'[q] = transfer[q]
    BY <1>1, <2>1 DEF SetTransfer
  <2> QED
    BY <1>4, <2>1, <2>2 DEF Active
<1> QED
  BY <1>2, <1>3, <1>5, <1>6, <1>7, <1>8
  DEF OwnStep, Process, ClientStep, ClientOnly, UploadOnly

LEMMA OwnStepRepeats ==
    ASSUME IInv, Copies', Repeats, NEW r \in Run, OwnStep(r)
    PROVE  Repeats'
<1>1. Own(r) /\ Active(r) /\ run[r].pc # "idle" /\ Typed /\ Stages(r)
  BY OwnStepEffect DEF IInv
<1>2. CASE control' = control /\ disk' = disk
  BY <1>1, <1>2, OwnRepeats
<1>3. CASE read_file_list(r)
  <2>1. PICK todo, found : todo = Present(disk) /\ found = NoFiles
    OBVIOUS
  <2>2. todo \in SUBSET StoredName /\ found \in Found
    BY <1>1, <2>1, EmptyListing DEF Present, Typed, Disk
  <2>3. /\ continue_scan(r, todo, found) /\ control[r].pc \in {"listing", "scanning"}
        /\ UNCHANGED <<local, disk, run, upload, transfer>>
    BY <1>3, <2>1 DEF read_file_list
  <2> QED
    BY <2>2, <2>3, ScanRepeats
<1>4. ASSUME NEW name \in StoredName, ScanFile(r, name)
      PROVE  Repeats'
  <2>1. /\ control[r].pc = "scanning" /\ UNCHANGED <<local, disk, run, upload, transfer>>
        /\ control \in [Run -> ControlRecord]
    BY <1>1, <1>4 DEF ScanFile, Typed
  <2>2. CASE /\ Exists(disk, name)
             /\ continue_scan(r, control[r].todo \ {name},
                              [n \in DOMAIN control[r].found \cup {name} |->
                                 IF n = name THEN Content(disk, name)
                                             ELSE control[r].found[n]])
    <3>1. PICK todo, old, data :
            todo = control[r].todo \ {name} /\ old = control[r].found /\ data = Content(disk, name)
      OBVIOUS
    <3> DEFINE found == [n \in DOMAIN old \cup {name} |-> IF n = name THEN data ELSE old[n]]
    <3>2. todo \in SUBSET StoredName /\ old \in Found
      BY <2>1, <3>1 DEF ControlRecord
    <3>3. data \in Data
      BY <1>1, <2>2, <3>1 DEF Exists, Content, Typed, Disk
    <3>4. found \in Found
      BY <3>2, <3>3, FoundExtended
    <3>5. continue_scan(r, todo, found)
      BY <2>2, <3>1
    <3> HIDE DEF found
    <3> QED
      BY <2>1, <3>2, <3>4, <3>5, ScanRepeats
  <2>3. CASE control' = [control EXCEPT ![r].pc = "errored", ![r].todo = {}, ![r].found = NoFiles]
    <3>1. control'[r].plan = control[r].plan /\ control'[r].pc = "errored"
      BY <2>1, <2>3 DEF ControlRecord
    <3> QED
      BY <1>1, <3>1, OwnRepeats DEF Scanned
  <2> QED
    BY <1>4, <2>2, <2>3 DEF ScanFile
<1>5. CASE \/ read_sync_complete(r) \/ Acknowledge(r) \/ DropControl(r)
           \/ \E name \in StoredName : RemoveFile(r, name)
  <2>1. control \in [Run -> ControlRecord]
    BY <1>1 DEF Typed
  <2>2. /\ control'[r].plan = control[r].plan
        /\ control'[r].pc \in {"cleaning", "acked", "errored", "dropped"}
    BY <1>5, <2>1 DEF read_sync_complete, Acknowledge, DropControl, RemoveFile, ControlRecord
  <2> QED
    BY <1>1, <2>2, OwnRepeats DEF Scanned
<1>6. ASSUME NEW name \in Name, TransferStep(r, name)
      PROVE  Repeats'
  <2>1. control' = control /\ transfer[r][name].pc # "none"
    BY <1>6 DEF TransferStep, receive_file_bytes, ReadSome, Interrupted, finish_transfer, FinishFails,
                DiscardTemp, replace_atomically, RemoveTarget, RetryRename, SetTransfer
  <2>2. control[r].pc \notin Scanned
    BY <1>1, <2>1, NothingLaunched DEF Stages, Scanned
  <2> QED
    BY <1>1, <2>1, <2>2, OwnRepeats
<1>7. ASSUME NEW name \in Name, UploadOnly(r, name)
      PROVE  control' = control /\ disk' = disk
  BY <1>7 DEF UploadOnly, read_transfer_result, SourceMissing, SourceTooShort, Closes, LoseConnection
<1>8. CASE launch_next(r) \/ ClientOnly(r)
  BY <1>2, <1>8 DEF launch_next, ClientOnly, read_sync_plan, send_sync_complete, EndRun, KillClient
<1> QED
  BY <1>2, <1>3, <1>4, <1>5, <1>6, <1>7, <1>8
  DEF OwnStep, Process, ClientStep, ControlStep, ClientOnly, UploadOnly

LEMMA BeginRepeats ==
    ASSUME IInv, Copies, Repeats, NEW s \in Run, Begin(s)
    PROVE  Repeats'
<1>1. /\ run[s].pc = "idle" /\ Stages(s) /\ IInv' /\ ExactCopy
      /\ \A q \in Run : q > s => run[q].pc = "idle"
      /\ \A q \in 1..(s - 1) : run[q].pc # "idle"
      /\ UNCHANGED <<local, disk, transfer>>
  <2>1. /\ run[s].pc = "idle" /\ \A q \in 1..(s - 1) : run[q].pc # "idle"
        /\ UNCHANGED <<local, disk, transfer>>
    BY BeginEffect
  <2>2. IInv' /\ ExactCopy
    BY BeginInv, ExactCopyFollows
  <2>3. Stages(s) /\ \A q \in Run : q > s => run[q].pc = "idle"
    BY <2>1 DEF IInv, Ordered
  <2> QED
    BY <2>1, <2>2, <2>3
<1>2. SUFFICES ASSUME NEW r \in Run, Follows(r)' PROVE Repeated(r)'
  BY DEF Repeats, Repeated
<1>3. r - 1 \in Run \ {r} /\ r \in Run \ {r - 1}
  BY <1>2, BoundsAssumption DEF Follows, Run
<1>4. r - 1 # s
  <2>1. r = s + 1 => run[r].pc = "idle" /\ run'[r].pc = run[r].pc
    <3>1. r = s + 1 => r > s /\ r \in Run \ {s}
      BY DEF Run
    <3>2. \A q \in Run \ {s} : run'[q].pc = run[q].pc
      BY BeginEffect
    <3> QED
      BY <1>1, <3>1, <3>2
  <2>2. run'[r].pc # "idle"
    BY <1>1, <1>2 DEF IInv, Stages, Follows
  <2> QED
    BY <1>3, <2>1, <2>2 DEF Run
<1>5. /\ run'[r - 1].files = run[r - 1].files
      /\ control'[r - 1] = control[r - 1]
      /\ run'[r - 1].alone => run[r - 1].alone
  <2>1. PICK q \in Run \ {s} : q = r - 1
    BY <1>3, <1>4
  <2>2. /\ run'[q].files = run[q].files
        /\ control'[q] = control[q]
        /\ run'[q].alone => run[q].alone
    BY BeginEffect
  <2> QED
    BY <2>1, <2>2
<1>6. Brought(r - 1)' = Brought(r - 1)
  BY <1>1, <1>5 DEF Brought
<1>7. CASE r = s
  <2>1. control'[r].pc \in {"none", "listing"} /\ control'[r].plan = <<>>
    BY <1>1, <1>7, BeginEffect DEF Stages
  <2>2. Planned(r)' = {}
    BY <2>1 DEF Planned, Range
  <2>3. Latest(r - 1) /\ Quiet(r - 1) /\ run[r - 1].alone
    <3>1. Latest(r - 1)
      BY <1>1, <1>3, <1>7, BoundsAssumption DEF Latest, Begun, Run
    <3> QED
      BY <1>2, <1>5, <3>1 DEF Follows, Quiet
  <2>4. ASSUME NEW name \in Brought(r - 1)
        PROVE  Content(disk, name) = run[r - 1].files[name]
    <3>1. CASE control[r - 1].pc = "acked"
      <4>1. Mirrors(r - 1)
        BY <1>1, <1>3, <2>3, <3>1 DEF ExactCopy
      <4> QED
        BY <4>1 DEF Mirrors, Brought
    <3>2. CASE transfer[r - 1][name].status = "ok"
      <4>1. /\ Typed /\ Stages(r - 1) /\ Uploads(r - 1) /\ Copied(r - 1)
        BY <1>3 DEF IInv, Copies
      <4>2. name \in Name
        BY <1>3, <4>1, ListingIsFunction DEF Brought, Typed, RunRecord
      <4>3. name \in Planned(r - 1)
        BY <1>3, <3>2, <4>1, <4>2, LaunchedIsPlanned DEF Uploads, Stages
      <4> QED
        BY <2>3, <3>2, <4>1, <4>3 DEF Copied
    <3> QED
      BY <3>1, <3>2 DEF Brought
  <2> QED
    BY <1>1, <1>5, <1>6, <2>2, <2>4 DEF Repeated
<1>8. CASE r # s
  <2>1. /\ run'[r].files = run[r].files /\ control'[r] = control[r]
        /\ run'[r].alone => run[r].alone
    <3>1. \A q \in Run \ {s} : /\ run'[q].files = run[q].files /\ control'[q] = control[q]
                               /\ run'[q].alone => run[q].alone
      BY BeginEffect
    <3> QED
      BY <1>8, <3>1
  <2>2. Follows(r)
    BY <1>2, <1>5, <2>1 DEF Follows
  <2>3. run[r].pc # "idle"
    BY <2>2 DEF IInv, Stages, Follows
  <2>4. s > r
    BY <1>1, <1>8, <2>3 DEF Run
  <2>5. ~Latest(r)'
    <3>1. s \in Begun'
      BY BeginEffect DEF Begun
    <3> QED
      BY <2>4, <3>1 DEF Latest, Run
  <2>6. Planned(r)' = Planned(r)
    BY <2>1 DEF Planned
  <2> QED
    BY <1>5, <1>6, <2>1, <2>2, <2>5, <2>6 DEF Repeats, Repeated
<1> QED
  BY <1>7, <1>8

LEMMA RestRepeats ==
    ASSUME IInv, Repeats,
           CrashServer \/ UNCHANGED <<disk, run, control, transfer>>
    PROVE  Repeats'
<1>1. /\ UNCHANGED <<disk, run>>
      /\ \A q \in Run : /\ control'[q].plan = control[q].plan
                        /\ control'[q] = control[q] \/ control'[q].pc = "dropped"
                        /\ control'[q].pc = "acked" => control[q].pc = "acked"
  BY CrashServerEffect
<1>2. SUFFICES ASSUME NEW r \in Run, Follows(r)'
               PROVE  Repeated(r)'
  BY DEF Repeats, Repeated
<1>3. r - 1 \in Run
  BY <1>2, BoundsAssumption DEF Follows, Run
<1>4. Follows(r) /\ Repeated(r)
  BY <1>1, <1>2, <1>3 DEF Follows, Repeats
<1>5. (Latest(r)' <=> Latest(r)) /\ Planned(r)' = Planned(r)
  BY <1>1 DEF Latest, Begun, Planned
<1>6. Brought(r - 1)' \subseteq Brought(r - 1)
  <2>1. \A name \in Name : transfer'[r - 1][name].status = "ok" => transfer[r - 1][name].status = "ok"
    <3>1. CASE CrashServer
      BY <1>3, <3>1, CrashServerEffect
    <3>2. CASE transfer' = transfer
      BY <3>2
    <3> QED
      BY <3>1, <3>2
  <2>2. DOMAIN run[r - 1].files \subseteq Name
    BY <1>3, ListingIsFunction DEF IInv, Typed, RunRecord
  <2> QED
    BY <1>1, <1>3, <2>1, <2>2 DEF Brought
<1>7. control'[r].pc \in Scanned => control'[r] = control[r]
  BY <1>1 DEF Scanned
<1> QED
  BY <1>1, <1>4, <1>5, <1>6, <1>7 DEF Repeated

(* With no temporary file under a client's name, a run does not upload     *)
(* again what the run before it has brought to the server                  *)
(* (RepeatIsQuiet).                                                        *)
THEOREM RepeatIsQuietHolds ==
    ASSUME NoTempNames
    PROVE  Spec => []RepeatIsQuiet
<1>1. Init => IInv /\ Copies /\ Repeats
  <2>1. Init => Repeats
    BY DEF Init, Repeats, Repeated, Follows
  <2> QED
    BY <2>1, InitInv
<1>2. IInv /\ Copies /\ Repeats /\ [Next]_vars => IInv' /\ Copies' /\ Repeats'
  <2>1. ASSUME IInv, Copies, Repeats, [Next]_vars
        PROVE  Repeats'
    <3>1. CASE \E r \in Run : OwnStep(r)
      BY <2>1, <3>1, StepInv, OwnStepRepeats
    <3>2. CASE \E r \in Run : Begin(r)
      BY <2>1, <3>2, BeginRepeats
    <3>3. CASE CrashServer \/ (\E name \in Name : Edit(name)) \/ UNCHANGED vars
      BY <2>1, <3>3, RestRepeats DEF Edit, vars
    <3> QED
      BY <2>1, <3>1, <3>2, <3>3 DEF Next, Environment, OwnStep
  <2> QED
    BY <2>1, StepInv
<1>3. Repeats => RepeatIsQuiet
  BY DEF Repeats, Repeated, Follows, Brought, RepeatIsQuiet
<1> QED
  BY <1>1, <1>2, <1>3, PTL DEF Spec

-----------------------------------------------------------------------------
(* What happens to the client's own names.                                 *)

LEMMA ActiveTransferListed ==
    ASSUME IInv, NEW r \in Run, NEW name \in Name, transfer[r][name].pc # "none"
    PROVE  /\ name \in DOMAIN run[r].files /\ run[r].files[name] \in Contents
           /\ run[r].files[name] # NoFile
<1>1. Typed /\ Stages(r) /\ name \in Launched(r)
  BY DEF IInv, Uploads
<1>2. name \in DOMAIN run[r].files
  BY <1>1, LaunchedIsPlanned DEF Stages
<1>3. run[r].files[name] \in Contents
  BY <1>1, <1>2, ListingIsFunction DEF Typed, RunRecord
<1> QED
  BY <1>2, <1>3, NoFileAssumption

LEMMA ActiveHasBegun ==
    ASSUME IInv, NEW r \in Run, Active(r)
    PROVE  run[r].pc # "idle"
<1>1. run[r].pc = "idle" => run[r].launched = 0 /\ control[r].pc = "none"
  BY DEF IInv, Stages
<1>2. run[r].pc = "idle" => \A name \in Name : transfer[r][name].pc = "none"
  BY <1>1, NothingLaunched
<1> QED
  BY <1>1, <1>2 DEF Active, RunActive, ControlActive, TransferActive

LEMMA AloneIsQuiet ==
    ASSUME IInv, NEW r \in Run, Active(r), run[r].alone
    PROVE  Quiet(r)
<1>1. ASSUME NEW q \in Run, run[q].pc # "idle", ~(q <= r)
      PROVE  FALSE
  <2>1. q > r
    BY <1>1 DEF Run
  <2> QED
    BY <1>1, <2>1 DEF IInv, Undisturbed
<1> QED
  BY <1>1 DEF Quiet, Latest, Begun

(* A step of the cleanup.                                                  *)
Removed(r, name) ==
    /\ control[r].pc = "cleaning" /\ name \in control[r].todo
    /\ disk'.data = disk.data /\ disk'.dir[name] = NoFile
    /\ \A n \in StoredName \ {name} : disk'.dir[n] = disk.dir[n]
    /\ run' = run
    /\ control' = [control EXCEPT ![r].todo = @ \ {name}]

(* What one of run r's own steps does to the directory.                    *)
LEMMA OwnStepDisk ==
    ASSUME IInv, NEW r \in Run, OwnStep(r)
    PROVE  \/ disk' = disk
           \/ \E name \in StoredName : Removed(r, name)
           \/ \E name \in Name : TransferStep(r, name)
<1>1. /\ Typed /\ disk \in Disk
  BY DEF IInv, Typed
<1>2. ASSUME NEW name \in StoredName, RemoveFile(r, name)
      PROVE  Removed(r, name) \/ disk' = disk
  <2>1. CASE disk' = Remove(disk, name) /\ control' = [control EXCEPT ![r].todo = @ \ {name}]
    <3>1. /\ disk'.data = disk.data /\ disk'.dir[name] = NoFile
          /\ \A n \in StoredName \ {name} : disk'.dir[n] = disk.dir[n]
      BY <1>1, <2>1, RemoveEffect
    <3> QED
      BY <1>2, <2>1, <3>1 DEF RemoveFile, Removed
  <2> QED
    BY <1>2, <2>1 DEF RemoveFile
<1>3. ASSUME ClientStep(r) \/ KillClient(r) \/
             \E name \in Name : SourceTooShort(r, name) \/ LoseConnection(r, name)
      PROVE  disk' = disk
  BY <1>3 DEF ClientStep, read_sync_plan, launch_next, read_transfer_result, SourceMissing,
              SourceTooShort, Closes, send_sync_complete, EndRun, KillClient, LoseConnection
<1>4. ASSUME ControlStep(r)
      PROVE  disk' = disk \/ \E name \in StoredName : Removed(r, name)
  BY <1>2, <1>4 DEF ControlStep, read_file_list, ScanFile, read_sync_complete, Acknowledge,
                    DropControl
<1> QED
  BY <1>3, <1>4 DEF OwnStep, Process

(* A listed file of a run that is alone is removed only when it is out of  *)
(* date and the new one complete under the temporary name.                 *)
LEMMA FileKeptStep ==
    ASSUME IInv, Copies, NoTempNames, [Next]_vars, NEW r \in Run, Active(r), run[r].alone,
           NEW name \in DOMAIN run[r].files
    PROVE  \/ StaysOrArrives(r, name)
           \/ /\ Content(disk, name) # run[r].files[name]
              /\ ~Exists(disk', name)
              /\ Content(disk', temp_file_path(name)) = run[r].files[name]
<1>1. Quiet(r) /\ Typed /\ Stages(r) /\ Uploads(r) /\ Copied(r)
  BY AloneIsQuiet DEF IInv, Copies
<1>2. name \in Name /\ name \in StoredName /\ run[r].files[name] \in Contents
  BY <1>1, ListingIsFunction, Temps DEF Typed, RunRecord
<1>3. CASE disk' = disk
  BY <1>3 DEF StaysOrArrives
<1>4. ASSUME NEW n \in StoredName, Removed(r, n)
      PROVE  StaysOrArrives(r, name)
  <2>1. n # name
    BY <1>1, <1>4 DEF Removed, Stages
  <2> QED
    BY <1>2, <1>4, <2>1 DEF Removed, StaysOrArrives, Content, Exists
<1>5. ASSUME NEW n \in Name, TransferStep(r, n), n # name
      PROVE  StaysOrArrives(r, name)
  BY <1>1, <1>2, <1>5, TransferStepKept DEF Transferred, KeepsCopy, StaysOrArrives
<1>6. ASSUME TransferStep(r, name), ~StaysOrArrives(r, name)
      PROVE  /\ Content(disk, name) # run[r].files[name]
             /\ ~Exists(disk', name)
             /\ Content(disk', temp_file_path(name)) = run[r].files[name]
  <2>1. PICK u : u = transfer'[r][name]
    OBVIOUS
  <2>2. KeepsCopy(r, name, u)
    BY <1>1, <1>2, <1>6, <2>1, TransferStepKept DEF Transferred
  <2>3. u.pc = "retrying" /\ ~Exists(disk', name)
    BY <1>6, <2>2 DEF KeepsCopy, StaysOrArrives
  <2>4. transfer[r][name].pc \notin {"none", "ended"} /\ run' = run
    BY <1>6 DEF TransferStep, receive_file_bytes, ReadSome, Interrupted, finish_transfer, FinishFails,
                DiscardTemp, replace_atomically, RemoveTarget, RetryRename, SetTransfer
  <2>5. Content(disk, name) # run[r].files[name]
    <3>1. transfer[r][name].status # "ok" /\ name \in Planned(r)
      BY <1>1, <1>2, <2>4, LaunchedIsPlanned DEF Uploads, Stages
    <3> QED
      BY <1>1, <3>1 DEF Copied
  <2>6. Content(disk', temp_file_path(name)) = run[r].files[name]
    BY <1>2, <2>1, <2>2, <2>3, <2>4 DEF KeepsCopy, OwnTemp, Publishing
  <2> QED
    BY <2>3, <2>5, <2>6
<1>7. ASSUME NEW q \in Run, OwnStep(q)
      PROVE  q = r
  <2>1. Own(q) /\ Active(q) /\ run[q].pc # "idle"
    BY <1>7, OwnStepEffect
  <2> QED
    BY <1>1, <2>1, OthersKept
<1>8. CASE \E q \in Run : OwnStep(q)
  BY <1>3, <1>4, <1>5, <1>6, <1>7, <1>8, OwnStepDisk
<1>9. CASE ~ \E q \in Run : OwnStep(q)
  <2>1. disk' = disk
    BY <1>9, BeginEffect DEF Next, Environment, OwnStep, Edit, CrashServer, vars
  <2> QED
    BY <1>3, <2>1
<1> QED
  BY <1>8, <1>9

(* With no temporary file under a client's name, whatever fails in a run   *)
(* that is alone: a listed file stays, or what was listed arrives at once; *)
(* and replace_atomically's second try removes only what is out of date,   *)
(* when the new file is complete and verified (FileKept).                  *)
THEOREM FileKeptHolds ==
    ASSUME NoTempNames
    PROVE  Spec => FileKept
<1>1. IInv /\ Copies /\ [Next]_vars =>
        [\A r \in Run : Active(r) /\ run[r].alone =>
            \A name \in DOMAIN run[r].files :
                \/ StaysOrArrives(r, name)
                \/ /\ Content(disk, name) # run[r].files[name]
                   /\ ~Exists(disk', name)
                   /\ Content(disk', temp_file_path(name)) = run[r].files[name]]_vars
  BY FileKeptStep
<1>2. IInv /\ Copies /\ [Next]_vars => IInv' /\ Copies'
  BY StepInv
<1> QED
  BY <1>1, <1>2, InitInv, PTL DEF Spec, FileKept

-----------------------------------------------------------------------------
(* The refinement of Mirror.                                               *)
Copy == [name \in Name |-> Content(disk, name)]
Synced == \E r \in Begun : Latest(r) /\ control[r].pc = "acked"

LEMMA LatestIsChosen ==
    ASSUME NEW S \in SUBSET Run, NEW r \in S, \A q \in S : q <= r
    PROVE  (CHOOSE p \in S : \A q \in S : q <= p) = r
<1> DEFINE chosen == CHOOSE p \in S : \A q \in S : q <= p
<1>1. chosen \in S /\ \A q \in S : q <= chosen
  OBVIOUS
<1> HIDE DEF chosen
<1>2. chosen <= r /\ r <= chosen /\ chosen \in Int /\ r \in Int
  BY <1>1 DEF Run
<1> QED
  BY <1>2 DEF chosen

LEMMA LatestListed ==
    ASSUME NEW r \in Run, run[r].pc # "idle", Latest(r)
    PROVE  LatestListing = run[r].files /\ (Synced <=> control[r].pc = "acked")
<1>1. Begun \in SUBSET Run /\ r \in Begun
  BY DEF Begun
<1>2. \A p \in Begun : Latest(p) => p = r
  <2>1. \A p \in Begun : Latest(p) => p <= r /\ r <= p
    BY <1>1 DEF Latest
  <2> QED
    BY <2>1 DEF Begun, Run
<1>3. LatestListing = run[r].files
  <2>1. (CHOOSE p \in Begun : \A q \in Begun : q <= p) = r
    BY <1>1, LatestIsChosen DEF Latest
  <2> QED
    BY <1>1, <2>1 DEF LatestListing, Latest
<1>4. Synced <=> control[r].pc = "acked"
  BY <1>1, <1>2 DEF Synced
<1> QED
  BY <1>3, <1>4

LEMMA LatestListedNext ==
    ASSUME NEW r \in Run, run'[r].pc # "idle", Latest(r)'
    PROVE  LatestListing' = run'[r].files /\ (Synced' <=> control'[r].pc = "acked")
<1>1. Begun' \in SUBSET Run /\ r \in Begun'
  BY DEF Begun
<1>2. \A p \in Begun' : Latest(p)' => p = r
  <2>1. \A p \in Begun' : Latest(p)' => p <= r /\ r <= p
    BY <1>1 DEF Latest
  <2> QED
    BY <2>1 DEF Begun, Run
<1>3. LatestListing' = run'[r].files
  <2>1. (CHOOSE p \in Begun' : \A q \in Begun' : q <= p) = r
    BY <1>1, LatestIsChosen DEF Latest
  <2> QED
    BY <1>1, <2>1 DEF LatestListing, Latest
<1>4. Synced' <=> control'[r].pc = "acked"
  BY <1>1, <1>2 DEF Synced
<1> QED
  BY <1>3, <1>4

LEMMA PromiseStutters ==
    ASSUME \A n \in Name : Content(disk', n) = Content(disk, n),
           LatestListing' = LatestListing, Synced' <=> Synced
    PROVE  UNCHANGED Promise!mirrorVars
<1>1. Copy' = Copy
  BY DEF Copy
<1>2. Synced' = Synced
  BY DEF Synced
<1> QED
  BY <1>1, <1>2 DEF Promise!mirrorVars, Copy, Synced

LEMMA PromiseBegins ==
    ASSUME \A n \in Name : Content(disk', n) = Content(disk, n),
           LatestListing' \in Listing, ~Synced'
    PROVE  Promise!Begin
<1>1. Copy' = Copy
  BY DEF Copy
<1>2. Synced' = FALSE
  BY DEF Synced
<1> QED
  BY <1>1, <1>2 DEF Promise!Begin, Copy, Synced, Listing

LEMMA PromiseReplaces ==
    ASSUME NEW name \in Name, name \in DOMAIN LatestListing, ~Synced,
           Content(disk', name) = LatestListing[name],
           \A n \in Name \ {name} : Content(disk', n) = Content(disk, n),
           LatestListing' = LatestListing, Synced' <=> Synced
    PROVE  Promise!Replace(name)
<1>1. Copy' = [Copy EXCEPT ![name] = LatestListing[name]]
  BY DEF Copy
<1>2. Synced' = Synced
  BY DEF Synced
<1> QED
  BY <1>1, <1>2 DEF Promise!Replace, Copy, Synced

LEMMA PromiseLoses ==
    ASSUME NEW name \in Name, name \in DOMAIN LatestListing, ~Synced,
           Content(disk, name) # LatestListing[name], Content(disk', name) = NoFile,
           \A n \in Name \ {name} : Content(disk', n) = Content(disk, n),
           LatestListing' = LatestListing, Synced' <=> Synced
    PROVE  Promise!Lose(name)
<1>1. Copy' = [Copy EXCEPT ![name] = NoFile]
  BY DEF Copy
<1>2. Synced' = Synced
  BY DEF Synced
<1>3. Copy[name] # LatestListing[name]
  BY DEF Copy
<1> QED
  BY <1>1, <1>2, <1>3 DEF Promise!Lose, Copy, Synced

LEMMA PromiseDeletes ==
    ASSUME NEW name \in Name, name \notin DOMAIN LatestListing, ~Synced,
           DOMAIN LatestListing \subseteq Name,
           \A n \in DOMAIN LatestListing : Content(disk, n) = LatestListing[n],
           Content(disk', name) = NoFile,
           \A n \in Name \ {name} : Content(disk', n) = Content(disk, n),
           LatestListing' = LatestListing, Synced' <=> Synced
    PROVE  Promise!Delete(name)
<1>1. Copy' = [Copy EXCEPT ![name] = NoFile]
  BY DEF Copy
<1>2. Synced' = Synced
  BY DEF Synced
<1>3. \A n \in DOMAIN LatestListing : Copy[n] = LatestListing[n]
  BY DEF Copy
<1> QED
  BY <1>1, <1>2, <1>3 DEF Promise!Delete, Promise!Complete, Copy, Synced

LEMMA PromiseAcknowledges ==
    ASSUME ~Synced, Synced', DOMAIN LatestListing \subseteq Name,
           \A n \in DOMAIN LatestListing : Content(disk, n) = LatestListing[n],
           \A n \in Name \ DOMAIN LatestListing : Content(disk, n) = NoFile,
           \A n \in Name : Content(disk', n) = Content(disk, n),
           LatestListing' = LatestListing
    PROVE  Promise!Acknowledge
<1>1. Copy' = Copy
  BY DEF Copy
<1>2. Synced' = TRUE
  BY DEF Synced
<1>3. /\ \A n \in DOMAIN LatestListing : Copy[n] = LatestListing[n]
      /\ \A n \in Name \ DOMAIN LatestListing : Copy[n] = NoFile
  BY DEF Copy
<1> QED
  BY <1>1, <1>2, <1>3 DEF Promise!Acknowledge, Promise!Complete, Copy, Synced

(* No run begins before everything else is over.                           *)
Serial == \A r \in Run : run[r].pc # "idle" => run[r].alone

LEMMA SerialStep ==
    ASSUME Overlapping = {}, IInv, Serial, [Next]_vars
    PROVE  Serial'
<1>1. CASE \E r \in Run : OwnStep(r)
  <2>1. PICK r \in Run : OwnStep(r)
    BY <1>1
  <2>2. Own(r) /\ run[r].pc # "idle"
    BY <2>1, OwnStepEffect
  <2> QED
    BY <2>2 DEF Serial, Own
<1>2. CASE \E r \in Run : Begin(r)
  <2>1. PICK r \in Run : Begin(r)
    BY <1>2
  <2>2. \A q \in Run : ~Active(q)
    BY <2>1 DEF Begin
  <2>3. run'[r].alone /\ \A q \in Run \ {r} : run'[q] = run[q]
    BY <2>1, <2>2, BeginEffect
  <2> QED
    BY <2>3 DEF Serial
<1>3. CASE UNCHANGED run
  BY <1>3 DEF Serial
<1> QED
  BY <1>1, <1>2, <1>3 DEF Next, Environment, OwnStep, CrashServer, Edit, vars

LEMMA SerialIsQuiet ==
    ASSUME IInv, Serial, NEW r \in Run, Active(r)
    PROVE  Quiet(r)
  BY ActiveHasBegun, AloneIsQuiet DEF Serial

(* What the latest run's list has at the server when its cleanup begins.   *)
LEMMA CleaningIsComplete ==
    ASSUME IInv, Copies, NEW r \in Run, Quiet(r), control[r].pc = "cleaning"
    PROVE  \A n \in DOMAIN run[r].files : Content(disk, n) = run[r].files[n]
<1>1. Stages(r) /\ Copied(r)
  BY DEF IInv, Copies
<1>2. \A name \in Planned(r) : transfer[r][name].status = "ok"
  BY <1>1, UploadsOver DEF Stages
<1> QED
  BY <1>1, <1>2 DEF Copied

(* An upload's step replaces its file, loses the old one of it, or leaves  *)
(* the client's files as they are.                                         *)
LEMMA TransferPromise ==
    ASSUME IInv, Copies, Serial, NoTempNames, NEW r \in Run, NEW name \in Name,
           TransferStep(r, name)
    PROVE  \/ UNCHANGED Promise!mirrorVars
           \/ Promise!Replace(name)
           \/ Promise!Lose(name)
<1>1. /\ transfer[r][name].pc \notin {"none", "ended"} /\ run' = run /\ control' = control
      /\ Active(r)
  BY DEF TransferStep, receive_file_bytes, ReadSome, Interrupted, finish_transfer, FinishFails,
         DiscardTemp, replace_atomically, RemoveTarget, RetryRename, SetTransfer, Active,
         TransferActive
<1>2. Quiet(r) /\ run[r].pc # "idle" /\ Stages(r) /\ Uploads(r) /\ Copied(r)
  BY <1>1, SerialIsQuiet, ActiveHasBegun DEF IInv, Copies
<1>3. LatestListing = run[r].files /\ (Synced <=> control[r].pc = "acked")
  BY <1>2, LatestListed DEF Quiet
<1>4. ~Synced
  BY <1>1, <1>2, <1>3, UploadsOver DEF Stages
<1>5. name \in DOMAIN LatestListing /\ name \in Planned(r)
  <2>1. name \in Launched(r)
    BY <1>1, <1>2 DEF Uploads
  <2>2. name \in Planned(r)
    BY <1>2, <2>1, LaunchedIsPlanned DEF IInv, Stages
  <2> QED
    BY <1>2, <1>3, <2>2 DEF Stages
<1>6. LatestListing' = LatestListing /\ (Synced' <=> Synced)
  BY <1>1 DEF LatestListing, Synced, Begun, Latest
<1>7. PICK u : u = transfer'[r][name]
  OBVIOUS
<1>8. KeepsCopy(r, name, u)
  BY <1>2, <1>7, TransferStepKept DEF Transferred
<1>9. \A n \in Name \ {name} : Content(disk', n) = Content(disk, n)
  BY <1>8 DEF KeepsCopy
<1>10. CASE Content(disk', name) = run[r].files[name]
  BY <1>3, <1>4, <1>5, <1>6, <1>9, <1>10, PromiseReplaces
<1>11. CASE Content(disk', name) = Content(disk, name)
  BY <1>6, <1>9, <1>11, PromiseStutters
<1>12. CASE Content(disk', name) = NoFile
  <2>1. Content(disk, name) # LatestListing[name]
    BY <1>1, <1>2, <1>3, <1>5 DEF Uploads, Copied
  <2> QED
    BY <1>4, <1>5, <1>6, <1>9, <1>12, <2>1, PromiseLoses
<1> QED
  BY <1>8, <1>10, <1>11, <1>12 DEF KeepsCopy

LEMMA RemovedPromise ==
    ASSUME IInv, Copies, Serial, NEW r \in Run, NEW name \in StoredName, Removed(r, name)
    PROVE  UNCHANGED Promise!mirrorVars \/ (name \in Name /\ Promise!Delete(name))
<1>1. Active(r) /\ control[r].pc = "cleaning"
  BY DEF Removed, Active, ControlActive
<1>2. Quiet(r) /\ run[r].pc # "idle" /\ Stages(r) /\ Typed
  BY <1>1, SerialIsQuiet, ActiveHasBegun DEF IInv
<1>3. LatestListing = run[r].files /\ ~Synced
  BY <1>1, <1>2, LatestListed DEF Quiet
<1>4. control'[r].pc = "cleaning" /\ run' = run
  BY <1>1, <1>2 DEF Removed, Typed, ControlRecord
<1>5. Latest(r)'
  BY <1>2, <1>4 DEF Quiet, Latest, Begun
<1>6. LatestListing' = LatestListing /\ ~Synced'
  BY <1>2, <1>3, <1>4, <1>5, LatestListedNext
<1>7. \A n \in Name \ {name} : Content(disk', n) = Content(disk, n)
  BY Temps DEF Removed, Content, Exists
<1>8. CASE name \notin Name
  BY <1>3, <1>6, <1>7, <1>8, PromiseStutters
<1>9. CASE name \in Name
  <2>1. name \notin DOMAIN run[r].files /\ DOMAIN run[r].files \subseteq Name
    BY <1>1, <1>2, ListingIsFunction DEF Removed, Stages, Typed, RunRecord
  <2>2. Content(disk', name) = NoFile
    BY DEF Removed, Content, Exists
  <2>3. \A n \in DOMAIN run[r].files : Content(disk, n) = run[r].files[n]
    BY <1>1, <1>2, CleaningIsComplete
  <2> QED
    BY <1>3, <1>6, <1>7, <1>9, <2>1, <2>2, <2>3, PromiseDeletes
<1> QED
  BY <1>8, <1>9

LEMMA AcknowledgedOnce ==
    ASSUME IInv, NEW r \in Run, OwnStep(r)
    PROVE  /\ control[r].pc = "acked" => control'[r].pc = "acked"
           /\ control'[r].pc = "acked" => control[r].pc = "acked" \/ Acknowledge(r)
<1>1. control \in [Run -> ControlRecord]
  BY DEF IInv, Typed
<1>2. CASE control' = control
  BY <1>2
<1>3. CASE ControlStep(r)
  <2>1. control[r].pc # "acked"
    BY <1>3 DEF ControlStep, read_file_list, ScanFile, RemoveFile, read_sync_complete,
                Acknowledge, DropControl
  <2>2. ASSUME NEW todo, NEW found, continue_scan(r, todo, found),
               control[r].pc \in {"listing", "scanning"}
        PROVE  control'[r].pc # "acked"
    BY <1>1, <2>2 DEF continue_scan, ControlRecord
  <2>3. read_file_list(r) => control'[r].pc # "acked"
    BY <2>2 DEF read_file_list
  <2>4. ASSUME NEW name \in StoredName, ScanFile(r, name)
        PROVE  control'[r].pc # "acked"
    <3>1. CASE \E todo, found : continue_scan(r, todo, found)
      BY <2>2, <2>4, <3>1 DEF ScanFile
    <3>2. CASE control' = [control EXCEPT ![r].pc = "errored", ![r].todo = {},
                                          ![r].found = NoFiles]
      BY <1>1, <3>2 DEF ControlRecord
    <3> QED
      BY <2>4, <3>1, <3>2 DEF ScanFile
  <2>5. ASSUME NEW name \in StoredName, RemoveFile(r, name)
        PROVE  control'[r].pc # "acked"
    BY <1>1, <2>5 DEF RemoveFile, ControlRecord
  <2>6. read_sync_complete(r) \/ DropControl(r) => control'[r].pc # "acked"
    BY <1>1 DEF read_sync_complete, DropControl, ControlRecord
  <2> QED
    BY <1>3, <2>1, <2>3, <2>4, <2>5, <2>6 DEF ControlStep
<1>4. ASSUME ClientStep(r) \/ KillClient(r) \/
             \E name \in Name : SourceTooShort(r, name) \/ LoseConnection(r, name)
      PROVE  control' = control
  BY <1>4 DEF ClientStep, read_sync_plan, launch_next, read_transfer_result, SourceMissing,
              SourceTooShort, Closes, send_sync_complete, EndRun, KillClient, LoseConnection
<1>5. ASSUME NEW name \in Name, TransferStep(r, name)
      PROVE  control' = control
  BY <1>5 DEF TransferStep, receive_file_bytes, ReadSome, Interrupted, finish_transfer,
              FinishFails, DiscardTemp, replace_atomically, RemoveTarget, RetryRename, SetTransfer
<1> QED
  BY <1>2, <1>3, <1>4, <1>5 DEF OwnStep, Process

(* The steps that leave the client's files at the server as they are.      *)
LEMMA OwnPromise ==
    ASSUME IInv, Copies, Serial, NEW r \in Run, OwnStep(r),
           \A n \in Name : Content(disk', n) = Content(disk, n)
    PROVE  UNCHANGED Promise!mirrorVars \/ Promise!Acknowledge
<1>1. Own(r) /\ Active(r) /\ run[r].pc # "idle" /\ Stages(r) /\ Copied(r) /\ Typed
  BY OwnStepEffect DEF IInv, Copies
<1>2. Quiet(r) /\ Latest(r) /\ Latest(r)'
  BY <1>1, SerialIsQuiet, OthersKept DEF Quiet
<1>3. LatestListing = run[r].files /\ (Synced <=> control[r].pc = "acked")
  BY <1>1, <1>2, LatestListed
<1>4. LatestListing' = LatestListing /\ (Synced' <=> control'[r].pc = "acked")
  BY <1>1, <1>2, <1>3, LatestListedNext DEF Own
<1>5. CASE control'[r].pc = "acked" <=> control[r].pc = "acked"
  BY <1>3, <1>4, <1>5, PromiseStutters
<1>6. CASE Acknowledge(r)
  <2>1. control[r].pc = "cleaning" /\ control[r].todo = {} /\ control'[r].pc = "acked"
    BY <1>1, <1>6 DEF Acknowledge, Typed, ControlRecord
  <2>2. DOMAIN run[r].files \subseteq Name
    BY <1>1, ListingIsFunction DEF Typed, RunRecord
  <2>3. \A n \in DOMAIN run[r].files : Content(disk, n) = run[r].files[n]
    BY <1>2, <2>1, CleaningIsComplete
  <2>4. Unexpected(r) = {}
    BY <1>1, <1>2, <2>1 DEF Copied
  <2>5. \A n \in Name \ DOMAIN run[r].files : Content(disk, n) = NoFile
    BY <1>1, <2>4, Temps DEF Unexpected, Present, Content, Typed, Disk
  <2> QED
    BY <1>3, <1>4, <2>1, <2>2, <2>3, <2>5, PromiseAcknowledges
<1> QED
  BY <1>5, <1>6, AcknowledgedOnce

LEMMA BeginPromise ==
    ASSUME IInv, NEW r \in Run, Begin(r)
    PROVE  Promise!Begin
<1>1. /\ Ordered /\ Typed' /\ run'[r].pc # "idle" /\ run[r].pc = "idle"
      /\ control'[r].pc # "acked" /\ disk' = disk
      /\ \A q \in Run \ {r} : run'[q].pc = run[q].pc
  BY BeginEffect DEF IInv
<1>2. Latest(r)'
  <2>1. ASSUME NEW q \in Run, run'[q].pc # "idle", ~(q <= r)
        PROVE  FALSE
    <3>1. r < q /\ run[q].pc # "idle"
      BY <1>1, <2>1 DEF Run
    <3> QED
      BY <1>1, <3>1 DEF Ordered
  <2> QED
    BY <2>1 DEF Latest, Begun
<1>3. LatestListing' = run'[r].files /\ ~Synced'
  BY <1>1, <1>2, LatestListedNext
<1>4. run'[r].files \in Listing
  BY <1>1 DEF Typed, RunRecord
<1> QED
  BY <1>1, <1>3, <1>4, PromiseBegins

LEMMA RestPromise ==
    ASSUME IInv, CrashServer \/ UNCHANGED <<disk, run, control>>
    PROVE  UNCHANGED Promise!mirrorVars
<1>1. disk' = disk /\ run' = run
  BY CrashServerEffect
<1>2. \A r \in Run : control'[r].pc = "acked" <=> control[r].pc = "acked"
  <2>1. CASE CrashServer
    BY <2>1, CrashServerEffect DEF ControlActive
  <2>2. CASE control' = control
    BY <2>2
  <2> QED
    BY <2>1, <2>2
<1>3. LatestListing' = LatestListing /\ (Synced' <=> Synced)
  BY <1>1, <1>2 DEF LatestListing, Synced, Begun, Latest
<1> QED
  BY <1>1, <1>3, PromiseStutters

LEMMA PromiseStep ==
    ASSUME IInv, Copies, Serial, NoTempNames, [Next]_vars
    PROVE  [Promise!Next]_(Promise!mirrorVars)
<1>1. ASSUME NEW r \in Run, OwnStep(r)
      PROVE  UNCHANGED Promise!mirrorVars \/ Promise!Next
  <2>1. CASE disk' = disk
    BY <1>1, <2>1, OwnPromise DEF Promise!Next
  <2>2. ASSUME NEW name \in StoredName, Removed(r, name)
        PROVE  UNCHANGED Promise!mirrorVars \/ Promise!Next
    BY <2>2, RemovedPromise DEF Promise!Next
  <2>3. ASSUME NEW name \in Name, TransferStep(r, name)
        PROVE  UNCHANGED Promise!mirrorVars \/ Promise!Next
    BY <2>3, TransferPromise DEF Promise!Next
  <2> QED
    BY <1>1, <2>1, <2>2, <2>3, OwnStepDisk
<1>2. ASSUME NEW r \in Run, Begin(r)
      PROVE  Promise!Next
  BY <1>2, BeginPromise DEF Promise!Next
<1>3. CASE CrashServer \/ (\E name \in Name : Edit(name)) \/ UNCHANGED vars
  BY <1>3, RestPromise DEF Edit, vars
<1> QED
  BY <1>1, <1>2, <1>3 DEF Next, Environment, OwnStep

(* When runs do not overlap and no temporary file is under a client's      *)
(* name, the system implements Mirror (KeepsPromise).                      *)
THEOREM KeepsPromiseHolds ==
    ASSUME NoTempNames, Overlapping = {}
    PROVE  Spec => KeepsPromise
<1>1. Init => Serial
  BY DEF Init, Serial
<1>2. IInv /\ Copies /\ Serial /\ [Next]_vars => IInv' /\ Copies' /\ Serial'
  BY StepInv, SerialStep
<1>3. IInv /\ Copies /\ Serial /\ [Next]_vars => [Promise!Next]_(Promise!mirrorVars)
  BY PromiseStep
<1>4. Init => Promise!Init
  <2>1. SUFFICES ASSUME Init PROVE Promise!Init
    OBVIOUS
  <2>2. Begun = {}
    BY <2>1 DEF Init, Begun
  <2>3. LatestListing = [name \in {} |-> NoFile] /\ ~Synced
    BY <2>2 DEF LatestListing, Synced, NoFiles
  <2>4. Synced = FALSE
    BY <2>3 DEF Synced
  <2> QED
    BY <2>3, <2>4 DEF Promise!Init, Synced
<1> QED
  BY <1>1, <1>2, <1>3, <1>4, InitInv, PTL DEF Spec, KeepsPromise, Promise!Spec

-----------------------------------------------------------------------------
(* The inductive invariant of UndisturbedSucceeds: what a run that is      *)
(* alone has reached while nothing fails and nobody edits the sources.     *)
Written(r, name) == [i \in 1..transfer[r][name].received |-> run[r].files[name][i]]

SmoothRun(r) ==
    /\ run[r].pc # "killed" /\ control[r].pc \notin {"errored", "dropped"}
    /\ run[r].pc = "over" => run[r].ok /\ control[r].pc = "acked"
    /\ run[r].completion # "failed"
    /\ \A name \in DOMAIN run[r].files : local[name] = run[r].files[name]
    /\ control[r].pc = "scanning" => control[r].todo \subseteq Present(disk)

SmoothClient(r, name) ==
    /\ upload[r][name] # "failed"
    /\ name \in Launched(r) => upload[r][name] # "none"
    /\ upload[r][name] = "waiting" => run[r].pc = "uploading"
    /\ TransferActive(r, name) => upload[r][name] = "waiting"

(* The temporary file holds what was received of the listed content.       *)
SmoothTransfer(r, name) ==
    /\ transfer[r][name].pc = "ended" => transfer[r][name].status = "ok"
    /\ transfer[r][name].pc # "none" => transfer[r][name].source = run[r].files[name]
    /\ transfer[r][name].pc \in {"none", "requested"} => transfer[r][name].received = 0
    /\ transfer[r][name].pc = "receiving" =>
           transfer[r][name].received < Len(run[r].files[name])
    /\ transfer[r][name].pc = "verifying" =>
           transfer[r][name].received = Len(run[r].files[name])
    /\ transfer[r][name].pc \in {"receiving", "verifying"} =>
           disk.data[transfer[r][name].inode] = Written(r, name)
    /\ transfer[r][name].pc \notin {"discarding", "unlinking", "retrying"}

Smooth(r) ==
    /\ run[r].pc = "idle" => \A name \in Name : transfer[r][name].received = 0
    /\ run[r].alone => /\ SmoothRun(r)
                       /\ \A name \in Name : SmoothClient(r, name) /\ SmoothTransfer(r, name)

AllSmooth == faults = 0 /\ edits = 0 => \A r \in Run : Smooth(r)

LEMMA FaultsCount ==
    ASSUME IInv, [Next]_vars, faults' = 0, edits' = 0
    PROVE  faults = 0 /\ edits = 0
<1>1. faults \in Nat /\ edits \in Nat
  BY BoundsAssumption DEF IInv, Typed
<1>2. ASSUME NEW r \in Run, NEW name \in Name, TransferStep(r, name)
      PROVE  faults' \in {faults, faults + 1} /\ edits' = edits
  BY <1>2 DEF TransferStep, receive_file_bytes, ReadSome, Interrupted, finish_transfer,
              FinishFails, DiscardTemp, replace_atomically, RemoveTarget, RetryRename, SetTransfer
<1>3. ASSUME NEW r \in Run, ClientStep(r) \/ ControlStep(r)
      PROVE  faults' \in {faults, faults + 1} /\ edits' = edits
  BY <1>3 DEF ClientStep, ControlStep, read_sync_plan, launch_next, read_transfer_result,
     SourceMissing, Closes, send_sync_complete, EndRun, read_file_list, ScanFile, RemoveFile,
     read_sync_complete, Acknowledge, DropControl
<1>4. ASSUME Environment \/ UNCHANGED vars
      PROVE  faults' \in {faults, faults + 1} /\ edits' \in {edits, edits + 1}
  BY <1>4 DEF Environment, Begin, Edit, KillClient, SourceTooShort, Closes, LoseConnection,
              CrashServer, vars
<1>5. faults' \in {faults, faults + 1} /\ edits' \in {edits, edits + 1}
  BY <1>2, <1>3, <1>4 DEF Next, Process
<1> QED
  BY <1>1, <1>5

(* Nobody else disturbs a run that is alone.                               *)
LEMMA SmoothOthers ==
    ASSUME IInv, NEW s \in Run, OwnStep(s), NEW r \in Run \ {s}, Smooth(r)
    PROVE  Smooth(r)'
<1>1. /\ run'[r] = run[r] /\ control'[r] = control[r] /\ upload'[r] = upload[r]
      /\ transfer'[r] = transfer[r] /\ local' = local
      /\ Active(s) /\ run[s].pc # "idle"
  BY OwnStepEffect DEF Own
<1>2. run[r].alone => ~Active(r)
  <2>1. r < s \/ s < r
    BY DEF Run
  <2> QED
    BY <1>1, <2>1 DEF IInv, Undisturbed
<1>3. run[r].alone => control[r].pc # "scanning"
  BY <1>2 DEF Active, ControlActive
<1>4. \A name \in Name : run[r].alone => transfer[r][name].pc \in {"none", "ended"}
  BY <1>2 DEF Active, TransferActive
<1>5. run[r].alone /\ SmoothRun(r) => SmoothRun(r)'
  BY <1>1, <1>3 DEF SmoothRun
<1>6. ASSUME NEW name \in Name, run[r].alone, SmoothClient(r, name), SmoothTransfer(r, name)
      PROVE  SmoothClient(r, name)' /\ SmoothTransfer(r, name)'
  BY <1>1, <1>4, <1>6 DEF SmoothClient, SmoothTransfer, TransferActive, Launched
<1> QED
  BY <1>1, <1>5, <1>6 DEF Smooth

LEMMA SmoothTransferKept ==
    ASSUME NEW r \in Run, NEW name \in Name, SmoothTransfer(r, name),
           transfer'[r][name] = transfer[r][name], run'[r].files = run[r].files,
           transfer[r][name].pc \in {"receiving", "verifying"} =>
               disk'.data[transfer[r][name].inode] = disk.data[transfer[r][name].inode]
    PROVE  SmoothTransfer(r, name)'
<1>1. Written(r, name)' = Written(r, name)
  BY DEF Written
<1> QED
  BY <1>1 DEF SmoothTransfer

(* The steps of the client.                                                *)
LEMMA SmoothClientOnly ==
    ASSUME IInv, NEW r \in Run, read_sync_plan(r) \/ send_sync_complete(r) \/ EndRun(r),
           SmoothRun(r), \A name \in Name : SmoothClient(r, name) /\ SmoothTransfer(r, name)
    PROVE  SmoothRun(r)' /\ \A name \in Name : SmoothClient(r, name)' /\ SmoothTransfer(r, name)'
<1>1. /\ disk' = disk /\ control' = control /\ upload' = upload /\ transfer' = transfer
      /\ local' = local /\ run'[r].files = run[r].files /\ run'[r].launched = run[r].launched
  BY ClientOnlyEffect DEF ClientOnly, Own
<1>2. Typed /\ Stages(r) /\ run \in [Run -> RunRecord]
  BY DEF IInv, Typed
<1>3. \A name \in Name : SmoothTransfer(r, name)'
  BY <1>1, SmoothTransferKept
<1>4. \A name \in Name : TransferActive(r, name)' <=> TransferActive(r, name)
  BY <1>1 DEF TransferActive
<1>5. Launched(r)' = Launched(r)
  BY <1>1 DEF Launched
<1>6. CASE read_sync_plan(r)
  <2>1. run'[r].pc = "uploading" /\ run'[r].completion = run[r].completion
    BY <1>2, <1>6 DEF read_sync_plan, RunRecord
  <2> QED
    BY <1>1, <1>3, <1>4, <1>5, <2>1 DEF SmoothRun, SmoothClient
<1>7. CASE send_sync_complete(r)
  <2>1. run[r].launched = Len(control[r].plan) /\ \A name \in Name : upload[r][name] # "waiting"
    BY <1>7 DEF send_sync_complete, Waiting
  <2>2. Planned(r) \subseteq Launched(r) /\ Planned(r) \subseteq Name
    <3>1. control[r].plan \in Seq(Name)
      BY <1>2 DEF Typed, ControlRecord
    <3>2. DOMAIN control[r].plan = 1..Len(control[r].plan)
      BY <3>1
    <3> QED
      BY <2>1, <3>1, <3>2 DEF Planned, Launched, Range
  <2>3. \A name \in Planned(r) : upload[r][name] = "ok"
    BY <1>2, <2>1, <2>2 DEF SmoothClient, Typed, UploadState
  <2>4. run'[r].pc = "completing" /\ run'[r].completion = "ok"
    BY <1>2, <1>7, <2>3 DEF send_sync_complete, RunRecord
  <2> QED
    BY <1>1, <1>3, <1>4, <1>5, <2>1, <2>4 DEF SmoothRun, SmoothClient
<1>8. CASE EndRun(r)
  <2>1. control[r].pc = "acked" /\ run[r].pc # "uploading"
    BY <1>8 DEF EndRun, SmoothRun
  <2>2. run'[r].pc = "over" /\ run'[r].ok /\ run'[r].completion = run[r].completion
    BY <1>2, <1>8, <2>1 DEF EndRun, RunRecord
  <2> QED
    BY <1>1, <1>3, <1>4, <1>5, <2>1, <2>2 DEF SmoothRun, SmoothClient
<1> QED
  BY <1>6, <1>7, <1>8

LEMMA SmoothLaunch ==
    ASSUME IInv, NEW r \in Run, launch_next(r),
           SmoothRun(r), \A name \in Name : SmoothClient(r, name) /\ SmoothTransfer(r, name)
    PROVE  SmoothRun(r)' /\ \A name \in Name : SmoothClient(r, name)' /\ SmoothTransfer(r, name)'
<1>1. Typed /\ Stages(r) /\ Uploads(r)
  BY DEF IInv
<1>2. /\ control[r].plan \in Seq(Name) /\ run[r].launched \in Nat
      /\ run[r].launched + 1 \in 1..Len(control[r].plan)
  BY <1>1 DEF launch_next, Stages, Typed, ControlRecord
<1>3. PICK name \in Name : name = control[r].plan[run[r].launched + 1]
  BY <1>2
<1>4. name \in Planned(r) /\ name \in DOMAIN run[r].files
  BY <1>1, <1>2, <1>3 DEF Planned, Range, Stages
<1>5. name \notin Launched(r)
  <2>1. SUFFICES ASSUME NEW i \in 1..run[r].launched, control[r].plan[i] = name
                 PROVE  FALSE
    BY DEF Launched
  <2>2. /\ i \in DOMAIN control[r].plan /\ run[r].launched + 1 \in DOMAIN control[r].plan
        /\ i # run[r].launched + 1
    BY <1>2
  <2> QED
    BY <1>1, <1>3, <2>1, <2>2 DEF Stages, IsInjective
<1>6. PICK t \in TransferRecord : t = transfer[r][name]
  BY <1>1 DEF Typed
<1>7. PICK u : u = [t EXCEPT !.pc = "requested", !.source = local[name]]
  OBVIOUS
<1>8. t.pc = "none" /\ t.received = 0 /\ u.pc = "requested" /\ u.received = 0
      /\ u.source = local[name]
  BY <1>1, <1>5, <1>6, <1>7 DEF Uploads, SmoothTransfer, TransferRecord
<1>9. /\ transfer' = [transfer EXCEPT ![r][name] = u]
      /\ upload' = [upload EXCEPT ![r][name] = "waiting"]
      /\ run' = [run EXCEPT ![r].launched = @ + 1]
      /\ control' = control /\ local' = local /\ disk' = disk
      /\ run[r].pc = "uploading"
  BY <1>3, <1>6, <1>7 DEF launch_next
<1>10. /\ transfer'[r][name] = u
       /\ \A n \in Name \ {name} : transfer'[r][n] = transfer[r][n]
  BY <1>1, <1>9 DEF Typed
<1>11. /\ upload'[r][name] = "waiting"
       /\ \A n \in Name \ {name} : upload'[r][n] = upload[r][n]
  BY <1>1, <1>9 DEF Typed
<1>12. /\ run'[r].pc = "uploading" /\ run'[r].files = run[r].files
       /\ run'[r].completion = run[r].completion
       /\ run'[r].launched = run[r].launched + 1
  BY <1>1, <1>9 DEF Typed, RunRecord
<1>13. Launched(r)' \subseteq Launched(r) \cup {name}
  <2>1. \A i \in 1..run[r].launched + 1 : i \in 1..run[r].launched \/ i = run[r].launched + 1
    BY <1>2
  <2> QED
    BY <1>3, <1>9, <1>12, <2>1 DEF Launched
<1>14. SmoothRun(r)'
  BY <1>9, <1>12 DEF SmoothRun
<1>15. SmoothClient(r, name)' /\ SmoothTransfer(r, name)'
  <2>1. u.source = run[r].files[name]
    BY <1>4, <1>8 DEF SmoothRun
  <2> QED
    BY <1>8, <1>10, <1>11, <1>12, <2>1 DEF SmoothClient, SmoothTransfer
<1>16. ASSUME NEW n \in Name \ {name}
       PROVE  SmoothClient(r, n)' /\ SmoothTransfer(r, n)'
  <2>1. SmoothTransfer(r, n)'
    BY <1>9, <1>10, <1>12, SmoothTransferKept
  <2>2. SmoothClient(r, n)'
    BY <1>9, <1>10, <1>11, <1>12, <1>13 DEF SmoothClient, TransferActive
  <2> QED
    BY <2>1, <2>2
<1> QED
  BY <1>14, <1>15, <1>16

LEMMA SmoothUpload ==
    ASSUME IInv, NEW r \in Run, NEW name \in Name,
           read_transfer_result(r, name) \/ SourceMissing(r, name) \/ SourceTooShort(r, name),
           SmoothRun(r), \A n \in Name : SmoothClient(r, n) /\ SmoothTransfer(r, n)
    PROVE  SmoothRun(r)' /\ \A n \in Name : SmoothClient(r, n)' /\ SmoothTransfer(r, n)'
<1>1. Typed /\ Uploads(r) /\ upload[r][name] = "waiting"
  BY DEF IInv, read_transfer_result, SourceMissing, SourceTooShort, Closes
<1>2. transfer[r][name].pc # "none"
  BY <1>1 DEF Uploads
<1>3. ~SourceMissing(r, name) /\ ~SourceTooShort(r, name)
  <2>1. /\ transfer[r][name].source = run[r].files[name]
        /\ run[r].files[name] \in Contents /\ run[r].files[name] # NoFile
    BY <1>2, ActiveTransferListed DEF SmoothTransfer
  <2>2. Len(run[r].files[name]) \in Nat
    BY <2>1, ContentsAssumption
  <2> QED
    BY <2>1, <2>2 DEF SourceMissing, SourceTooShort, Shortened
<1>4. /\ upload' = [upload EXCEPT ![r][name] = "ok"]
      /\ UNCHANGED <<local, disk, run, control, transfer>>
      /\ transfer[r][name].pc = "ended"
  BY <1>3 DEF read_transfer_result, SmoothTransfer
<1>5. /\ upload'[r][name] = "ok"
      /\ \A n \in Name \ {name} : upload'[r][n] = upload[r][n]
  BY <1>1, <1>4 DEF Typed
<1>6. SmoothRun(r)'
  BY <1>4 DEF SmoothRun
<1>7. \A n \in Name : SmoothTransfer(r, n)'
  BY <1>4, SmoothTransferKept
<1>8. \A n \in Name : SmoothClient(r, n)'
  BY <1>4, <1>5 DEF SmoothClient, TransferActive, Launched
<1> QED
  BY <1>6, <1>7, <1>8

(* The control session's steps; while it scans or cleans up, no upload is  *)
(* going on.                                                               *)
LEMMA SmoothControl ==
    ASSUME IInv, NEW r \in Run, ControlStep(r), run[r].alone, faults = 0, faults' = 0,
           SmoothRun(r), \A name \in Name : SmoothClient(r, name) /\ SmoothTransfer(r, name)
    PROVE  SmoothRun(r)' /\ \A name \in Name : SmoothClient(r, name)' /\ SmoothTransfer(r, name)'
<1>1. /\ Typed /\ Stages(r) /\ control \in [Run -> ControlRecord]
  BY DEF IInv, Typed
<1>2. UNCHANGED <<local, run, upload, transfer>>
  BY DEF ControlStep, read_file_list, ScanFile, RemoveFile, read_sync_complete,
         Acknowledge, DropControl
<1>3. ASSUME control'[r].pc \notin {"errored", "dropped"},
             run[r].pc = "over" => control'[r].pc = "acked",
             control'[r].pc = "scanning" => control'[r].todo \subseteq Present(disk'),
             Launched(r)' = Launched(r),
             \/ disk'.data = disk.data
             \/ \A n \in Name : transfer[r][n].pc \notin {"receiving", "verifying"}
      PROVE  SmoothRun(r)' /\ \A n \in Name : SmoothClient(r, n)' /\ SmoothTransfer(r, n)'
  <2>1. SmoothRun(r)'
    BY <1>2, <1>3 DEF SmoothRun
  <2>2. \A n \in Name : SmoothTransfer(r, n)'
    BY <1>2, <1>3, SmoothTransferKept
  <2>3. \A n \in Name : SmoothClient(r, n)'
    BY <1>2, <1>3 DEF SmoothClient, TransferActive
  <2> QED
    BY <2>1, <2>2, <2>3
<1>4. ASSUME control[r].pc \in {"listing", "scanning"}, disk' = disk,
             NEW todo \in SUBSET Present(disk), NEW found, continue_scan(r, todo, found)
      PROVE  SmoothRun(r)' /\ \A n \in Name : SmoothClient(r, n)' /\ SmoothTransfer(r, n)'
  <2>1. control'[r].pc \in {"planned", "scanning"} /\
        (control'[r].pc = "scanning" => control'[r].todo = todo)
    BY <1>1, <1>4 DEF continue_scan, ControlRecord
  <2>2. Launched(r)' = Launched(r)
    <3>1. run[r].launched = 0
      BY <1>1, <1>4 DEF Stages
    <3> QED
      BY <1>2, <3>1 DEF Launched
  <2>3. run[r].pc # "over"
    BY <1>4 DEF SmoothRun
  <2> QED
    BY <1>3, <1>4, <2>1, <2>2, <2>3
<1>5. CASE read_file_list(r)
  BY <1>4, <1>5 DEF read_file_list
<1>6. ASSUME NEW name \in StoredName, ScanFile(r, name)
      PROVE  SmoothRun(r)' /\ \A n \in Name : SmoothClient(r, n)' /\ SmoothTransfer(r, n)'
  <2>1. control[r].todo \subseteq Present(disk) /\ control[r].pc = "scanning" /\ disk' = disk
    BY <1>6 DEF ScanFile, SmoothRun
  <2>2. Exists(disk, name)
    BY <1>6, <2>1 DEF ScanFile, Present
  <2>3. \E found : continue_scan(r, control[r].todo \ {name}, found)
    BY <1>6, <2>2 DEF ScanFile
  <2>4. control[r].todo \ {name} \in SUBSET Present(disk)
    BY <2>1
  <2> QED
    BY <1>4, <2>1, <2>3, <2>4
<1>7. ASSUME NEW name \in StoredName, RemoveFile(r, name)
      PROVE  SmoothRun(r)' /\ \A n \in Name : SmoothClient(r, n)' /\ SmoothTransfer(r, n)'
  <2>1. /\ control' = [control EXCEPT ![r].todo = @ \ {name}] /\ control[r].pc = "cleaning"
    BY <1>7 DEF RemoveFile
  <2>2. control'[r].pc = "cleaning" /\ control'[r].plan = control[r].plan
    BY <1>1, <2>1 DEF ControlRecord
  <2>3. Launched(r)' = Launched(r)
    BY <1>2, <2>2 DEF Launched
  <2>4. \A n \in Name : transfer[r][n].pc \in {"none", "ended"}
    BY <1>1, <2>1, UploadsOver DEF Stages
  <2>5. run[r].pc # "over"
    BY <2>1 DEF SmoothRun
  <2> QED
    BY <1>3, <2>2, <2>3, <2>4, <2>5
<1>8. CASE read_sync_complete(r) \/ Acknowledge(r)
  <2>1. ASSUME read_sync_complete(r)
        PROVE  /\ control'[r].pc = "cleaning" /\ run[r].pc # "over"
               /\ control'[r].plan = control[r].plan /\ disk' = disk
    <3>1. control' = [control EXCEPT ![r].pc = "cleaning", ![r].todo = Unexpected(r)]
      BY <2>1 DEF read_sync_complete, SmoothRun
    <3> QED
      BY <1>1, <2>1, <3>1 DEF read_sync_complete, SmoothRun, ControlRecord
  <2>2. ASSUME Acknowledge(r)
        PROVE  /\ control'[r].pc = "acked"
               /\ control'[r].plan = control[r].plan /\ disk' = disk
    BY <1>1, <2>2 DEF Acknowledge, ControlRecord
  <2>3. Launched(r)' = Launched(r)
    BY <1>2, <1>8, <2>1, <2>2 DEF Launched
  <2> QED
    BY <1>3, <1>8, <2>1, <2>2, <2>3
<1>9. ~DropControl(r)
  BY <1>1 DEF DropControl, RunActive, SmoothRun, Stages
<1> QED
  BY <1>5, <1>6, <1>7, <1>8, <1>9 DEF ControlStep

(* The transfer sessions' steps.                                           *)
LEMMA SmoothSession ==
    ASSUME IInv, Copies, NoTempNames, NEW r \in Run, NEW name \in Name, TransferStep(r, name),
           run[r].alone, faults = 0, faults' = 0,
           SmoothRun(r), \A n \in Name : SmoothClient(r, n) /\ SmoothTransfer(r, n)
    PROVE  SmoothRun(r)' /\ \A n \in Name : SmoothClient(r, n)' /\ SmoothTransfer(r, n)'
<1>1. Typed /\ Uploads(r) /\ Inodes /\ disk \in Disk
      /\ transfer \in [Run -> [Name -> TransferRecord]]
  BY DEF IInv, Typed
<1>2. PICK t \in TransferRecord : t = transfer[r][name]
  BY <1>1
<1>3. PICK temp \in StoredName : temp = temp_file_path(name)
  BY Temps
<1>4. PICK file : file = run[r].files[name]
  OBVIOUS
<1>5. TransferActive(r, name)
  BY DEF TransferStep, receive_file_bytes, ReadSome, Interrupted, finish_transfer,
         DiscardTemp, replace_atomically, RemoveTarget, RetryRename, TransferActive
<1>6. /\ file \in Contents /\ file # NoFile /\ file \in Seq(Block)
      /\ Len(file) \in Nat /\ DOMAIN file = 1..Len(file)
  BY <1>4, <1>5, ActiveTransferListed, ContentsAssumption DEF TransferActive
<1>7. /\ upload[r][name] = "waiting" /\ run[r].pc = "uploading"
      /\ control[r].pc # "scanning"
  BY <1>1, <1>5 DEF SmoothClient, IInv, Stages
<1>8. \A n \in Name : OwnTemp(r, n)
  <2>1. Quiet(r)
    BY <1>5, AloneIsQuiet DEF Active
  <2> QED
    BY <2>1 DEF Copies, Copied
<1>9. UNCHANGED <<local, run, control, upload>>
  BY DEF TransferStep, receive_file_bytes, ReadSome, Interrupted, finish_transfer,
         FinishFails, DiscardTemp, replace_atomically, RemoveTarget, RetryRename, SetTransfer
<1>10. SmoothRun(r)'
  BY <1>7, <1>9 DEF SmoothRun
<1>11. ASSUME NEW u \in TransferRecord, SetTransfer(r, name, u), u.pc # "none",
              u.source = t.source, u.pc # "requested",
              u.pc = "ended" => u.status = "ok",
              u.pc = "receiving" => u.received < Len(file),
              u.pc = "verifying" => u.received = Len(file),
              u.pc \in {"receiving", "verifying"} =>
                  disk'.data[u.inode] = [i \in 1..u.received |-> file[i]],
              u.pc \notin {"discarding", "unlinking", "retrying"},
              \A n \in Name \ {name} :
                  transfer[r][n].pc \in {"receiving", "verifying"} =>
                      disk'.data[transfer[r][n].inode] = disk.data[transfer[r][n].inode]
       PROVE  \A n \in Name : SmoothClient(r, n)' /\ SmoothTransfer(r, n)'
  <2>1. /\ transfer'[r][name] = u
        /\ \A n \in Name \ {name} : transfer'[r][n] = transfer[r][n]
    BY <1>1, <1>11 DEF SetTransfer
  <2>2. ASSUME NEW n \in Name \ {name}
        PROVE  SmoothClient(r, n)' /\ SmoothTransfer(r, n)'
    <3>1. SmoothTransfer(r, n)'
      BY <1>9, <1>11, <2>1, SmoothTransferKept
    <3> QED
      BY <1>9, <2>1, <3>1 DEF SmoothClient, TransferActive, Launched
  <2>3. SmoothClient(r, name)'
    BY <1>7, <1>9, <2>1 DEF SmoothClient
  <2>4. Written(r, name)' = [i \in 1..u.received |-> file[i]]
    BY <1>4, <1>9, <2>1 DEF Written
  <2>5. u.source = file
    BY <1>2, <1>4, <1>5, <1>11 DEF SmoothTransfer, TransferActive
  <2>6. SmoothTransfer(r, name)'
    BY <1>4, <1>9, <1>11, <2>1, <2>4, <2>5 DEF SmoothTransfer
  <2> QED
    BY <2>2, <2>3, <2>6
<1>12. ASSUME NEW n \in Name \ {name}, transfer[r][n].pc \in {"receiving", "verifying"}
       PROVE  /\ disk.dir[temp_file_path(n)] = transfer[r][n].inode
              /\ transfer[r][n].inode \in Inode /\ transfer[r][n].inode # NoFile
              /\ temp_file_path(n) \in StoredName /\ temp_file_path(n) # temp
  BY <1>1, <1>3, <1>8, <1>12, Temps DEF OwnTemp, Publishing, Uploads, TransferRecord
<1>13. CASE receive_file_bytes(r, name)
  <2>1. PICK inode : inode = OpenedInode(disk, temp, <<r, temp>>)
    OBVIOUS
  <2>2. PICK u : u = Reading(r, name, [t EXCEPT !.inode = inode])
    OBVIOUS
  <2>3. /\ disk' = OpenTruncated(disk, temp, <<r, temp>>) /\ SetTransfer(r, name, u)
        /\ t.pc = "requested"
    BY <1>2, <1>3, <1>13, <2>1, <2>2 DEF receive_file_bytes
  <2>4. /\ inode \in Inode /\ disk'.data[inode] = <<>>
        /\ \A i \in Inode \ {inode} : disk'.data[i] = disk.data[i]
    BY <1>1, <2>1, <2>3, Temps, OpenTruncatedEffect
  <2>5. t.received = 0
    BY <1>2, <2>3 DEF SmoothTransfer
  <2>6. /\ u \in TransferRecord /\ u.source = t.source /\ u.received = 0 /\ u.inode = inode
        /\ u.pc = IF 0 < Len(file) THEN "receiving" ELSE "verifying"
    BY <1>2, <1>4, <2>2, <2>4, <2>5 DEF Reading, TransferRecord
  <2>7. ASSUME NEW n \in Name \ {name}, transfer[r][n].pc \in {"receiving", "verifying"}
        PROVE  transfer[r][n].inode # inode
    <3>1. t.inode = NoFile
      BY <1>1, <1>2, <2>3 DEF Uploads
    <3>2. disk.dir[temp_file_path(n)] # <<r, temp>>
      BY <1>1, <1>2, <1>3, <1>12, <2>7, <3>1, Temps DEF Inodes
    <3> QED
      BY <1>1, <1>12, <2>1, <2>7, <3>2 DEF OpenedInode, Exists, Inodes
  <2>8. \A n \in Name \ {name} :
            transfer[r][n].pc \in {"receiving", "verifying"} =>
                disk'.data[transfer[r][n].inode] = disk.data[transfer[r][n].inode]
    BY <1>12, <2>4, <2>7
  <2>9. disk'.data[u.inode] = [i \in 1..u.received |-> file[i]]
    BY <2>4, <2>6
  <2>10. u.pc = "receiving" => u.received < Len(file)
    BY <2>6
  <2>11. u.pc = "verifying" => u.received = Len(file)
    BY <1>6, <2>6
  <2>12. u.pc \in {"receiving", "verifying"}
    BY <2>6
  <2> QED
    BY <1>10, <1>11, <2>3, <2>6, <2>8, <2>9, <2>10, <2>11, <2>12
<1>14. CASE ReadSome(r, name)
  <2>1. PICK position, block : position = t.received + 1 /\ block = t.source[position]
    OBVIOUS
  <2>2. PICK u : u = Reading(r, name, [t EXCEPT !.received = position])
    OBVIOUS
  <2>3. /\ disk' = WriteBlock(disk, t.inode, position, block) /\ SetTransfer(r, name, u)
        /\ t.pc = "receiving" /\ position <= Len(t.source)
    BY <1>2, <1>14, <2>1, <2>2 DEF ReadSome
  <2>4. /\ t.source = file /\ t.received < Len(file) /\ t.received \in Nat
        /\ disk.data[t.inode] = [i \in 1..t.received |-> file[i]]
    BY <1>2, <1>4, <2>3 DEF SmoothTransfer, Written, TransferRecord
  <2>5. t.inode \in Inode /\ disk.dir[temp] = t.inode
    BY <1>1, <1>2, <1>3, <1>8, <2>3 DEF Uploads, OwnTemp, Publishing, TransferRecord
  <2>6. /\ u \in TransferRecord /\ u.source = t.source /\ u.received = position
        /\ u.inode = t.inode
        /\ u.pc = IF position < Len(file) THEN "receiving" ELSE "verifying"
    <3>1. PICK w : w = [t EXCEPT !.received = position]
      OBVIOUS
    <3>2. /\ w \in TransferRecord /\ w.source = t.source /\ w.received = position
          /\ w.inode = t.inode
      BY <1>2, <2>1, <2>4, <3>1 DEF TransferRecord
    <3>3. u = [w EXCEPT !.pc = IF w.received < Len(file) THEN "receiving" ELSE "verifying"]
      BY <1>4, <2>2, <3>1 DEF Reading
    <3> QED
      BY <3>2, <3>3 DEF TransferRecord
  <2>7. disk'.data[t.inode] = [i \in 1..position |-> file[i]]
    <3>1. PICK old : old = disk.data[t.inode]
      OBVIOUS
    <3>2. Len(old) = t.received /\ \A i \in 1..t.received : old[i] = file[i]
      BY <2>4, <3>1
    <3>3. [i \in 1..position |-> IF i = position THEN block
                                 ELSE IF i <= Len(old) THEN old[i] ELSE Hole]
            = [i \in 1..position |-> file[i]]
      BY <2>1, <2>4, <3>2
    <3>4. (IF Len(old) > position THEN Len(old) ELSE position) = position
      BY <2>1, <2>4, <3>2
    <3> DEFINE new == [i \in 1..position |-> IF i = position THEN block
                                 ELSE IF i <= Len(old) THEN old[i] ELSE Hole]
    <3>5. disk' = [disk EXCEPT !.data[t.inode] = new]
      BY <2>3, <3>1, <3>4 DEF WriteBlock
    <3> HIDE DEF new
    <3>6. disk'.data[t.inode] = new
      BY <1>1, <2>5, <3>5 DEF Disk
    <3> QED
      BY <3>3, <3>6 DEF new
  <2>8. \A i \in Inode \ {t.inode} : disk'.data[i] = disk.data[i]
    BY <1>1, <2>3, <2>5 DEF WriteBlock, Disk
  <2>9. \A n \in Name \ {name} :
            transfer[r][n].pc \in {"receiving", "verifying"} =>
                disk'.data[transfer[r][n].inode] = disk.data[transfer[r][n].inode]
    BY <1>1, <1>12, <2>5, <2>8 DEF Inodes
  <2>10. position <= Len(file) /\ position \in Nat
    BY <2>1, <2>3, <2>4
  <2> QED
    BY <1>6, <1>10, <1>11, <2>3, <2>6, <2>7, <2>9, <2>10
<1>15. CASE finish_transfer(r, name)
  <2>1. t.pc = "verifying" /\ disk' = disk
    BY <1>2, <1>15 DEF finish_transfer, FinishFails
  <2>2. /\ disk.dir[temp] = t.inode /\ t.inode # NoFile
        /\ t.received = Len(file) /\ disk.data[t.inode] = [i \in 1..t.received |-> file[i]]
    BY <1>1, <1>2, <1>3, <1>4, <1>8, <2>1 DEF OwnTemp, Publishing, Uploads, SmoothTransfer, Written
  <2>3. Exists(disk, temp) /\ Content(disk, temp) = file
    BY <1>6, <2>2 DEF Exists, Content
  <2>4. SetTransfer(r, name, [t EXCEPT !.pc = "publishing"])
    BY <1>2, <1>3, <1>4, <1>15, <2>3 DEF finish_transfer
  <2>5. /\ [t EXCEPT !.pc = "publishing"] \in TransferRecord
        /\ [t EXCEPT !.pc = "publishing"].pc = "publishing"
        /\ [t EXCEPT !.pc = "publishing"].source = t.source
    BY <1>2 DEF TransferRecord
  <2> QED
    BY <1>10, <1>11, <2>1, <2>4, <2>5
<1>16. CASE replace_atomically(r, name)
  <2>1. t.pc = "publishing"
    BY <1>2, <1>16 DEF replace_atomically
  <2>2. Exists(disk, temp)
    BY <1>2, <1>3, <1>4, <1>6, <1>8, <2>1 DEF OwnTemp, Publishing, Content
  <2>3. disk' = Rename(disk, temp, name) /\ SetTransfer(r, name, Answered(t, "ok"))
    BY <1>2, <1>3, <1>16, <2>2 DEF replace_atomically
  <2>4. disk'.data = disk.data
    BY <1>1, <2>3 DEF Rename, Disk
  <2>5. /\ Answered(t, "ok") \in TransferRecord /\ Answered(t, "ok").pc = "ended"
        /\ Answered(t, "ok").source = t.source /\ Answered(t, "ok").status = "ok"
    BY <1>2 DEF Answered, TransferRecord
  <2> QED
    BY <1>10, <1>11, <2>3, <2>4, <2>5
<1>17. ~Interrupted(r, name)
  BY <1>7 DEF Interrupted, RunActive
<1>18. ~DiscardTemp(r, name)
  BY DEF DiscardTemp, SmoothTransfer
<1>19. ~RemoveTarget(r, name) /\ ~RetryRename(r, name)
  BY DEF RemoveTarget, RetryRename, SmoothTransfer
<1> QED
  BY <1>13, <1>14, <1>15, <1>16, <1>17, <1>18, <1>19 DEF TransferStep

LEMMA SmoothBegin ==
    ASSUME IInv, NEW s \in Run, Begin(s), faults = 0, faults' = 0, NEW r \in Run, Smooth(r)
    PROVE  Smooth(r)'
<1>1. /\ Typed /\ UNCHANGED <<local, disk, upload, transfer>>
      /\ run[s].pc = "idle" /\ run'[s].pc # "idle"
  BY BeginEffect DEF IInv
<1>2. CASE r = s
  <2>1. /\ run'[r].pc = "listed" /\ control'[r].pc = "listing"
    BY <1>2, BeginEffect
  <2>2. /\ run'[r].files = [n \in {m \in Name : local[m] # NoFile} |-> local[n]]
        /\ run'[r].launched = 0 /\ run'[r].completion = "none"
    BY <1>2, BeginEffect
  <2>3. SmoothRun(r)'
    BY <1>1, <2>1, <2>2 DEF SmoothRun
  <2>4. run[r].launched = 0 /\ Uploads(r)
    BY <1>1, <1>2 DEF IInv, Stages
  <2>5. \A n \in Name : transfer[r][n].pc = "none" /\ upload[r][n] = "none"
    BY <1>1, <2>4, NothingLaunched DEF Uploads, Typed, UploadState
  <2>6. Launched(r)' = {}
    BY <2>2 DEF Launched
  <2>7. \A n \in Name : SmoothClient(r, n)'
    BY <1>1, <2>5, <2>6 DEF SmoothClient, TransferActive
  <2>8. \A n \in Name : SmoothTransfer(r, n)'
    BY <1>1, <1>2, <2>5 DEF SmoothTransfer, Smooth
  <2> QED
    BY <2>1, <2>3, <2>7, <2>8 DEF Smooth
<1>3. CASE r # s
  <2>1. /\ control'[r] = control[r] /\ run'[r].pc = run[r].pc
        /\ run'[r].alone => run[r].alone /\ run'[r] = run[r]
    <3>1. \A q \in Run \ {s} : /\ run'[q].pc = run[q].pc /\ control'[q] = control[q]
                               /\ run'[q].alone => run[q].alone /\ ~Active(q)
                               /\ ~Active(q) => run'[q] = run[q]
      BY BeginEffect
    <3>2. PICK q \in Run \ {s} : q = r
      BY <1>3
    <3> QED
      BY <3>1, <3>2
  <2>2. run'[r].alone /\ SmoothRun(r) => SmoothRun(r)'
    BY <1>1, <2>1 DEF SmoothRun
  <2>3. ASSUME NEW n \in Name, run'[r].alone, SmoothClient(r, n), SmoothTransfer(r, n)
        PROVE  SmoothClient(r, n)' /\ SmoothTransfer(r, n)'
    <3>1. SmoothTransfer(r, n)'
      BY <1>1, <2>1, <2>3, SmoothTransferKept
    <3> QED
      BY <1>1, <2>1, <2>3, <3>1 DEF SmoothClient, TransferActive, Launched
  <2> QED
    BY <1>1, <2>1, <2>2, <2>3 DEF Smooth
<1> QED
  BY <1>2, <1>3

LEMMA SmoothStep ==
    ASSUME IInv, Copies, NoTempNames, AllSmooth, [Next]_vars
    PROVE  AllSmooth'
<1>1. SUFFICES ASSUME faults' = 0, edits' = 0, NEW r \in Run
               PROVE  Smooth(r)'
  BY DEF AllSmooth
<1>2. faults = 0 /\ edits = 0 /\ Smooth(r)
  BY <1>1, FaultsCount DEF AllSmooth
<1>3. ASSUME NEW s \in Run, OwnStep(s)
      PROVE  Smooth(r)'
  <2>1. CASE s # r
    BY <1>2, <1>3, <2>1, SmoothOthers
  <2>2. CASE s = r
    <3>1. /\ run'[r].pc # "idle" /\ (run'[r].alone <=> run[r].alone)
      BY <1>3, <2>2, OwnStepEffect DEF Own
    <3>2. SUFFICES ASSUME run[r].alone
                   PROVE  SmoothRun(r)' /\ \A n \in Name : SmoothClient(r, n)' /\ SmoothTransfer(r, n)'
      BY <3>1 DEF Smooth
    <3>3. SmoothRun(r) /\ \A n \in Name : SmoothClient(r, n) /\ SmoothTransfer(r, n)
      BY <1>2, <3>2 DEF Smooth
    <3>4. ~KillClient(r) /\ \A name \in Name : ~LoseConnection(r, name)
      BY <1>1, <1>2 DEF KillClient, LoseConnection
    <3>5. \/ ClientStep(r) \/ ControlStep(r) \/ \E name \in Name : TransferStep(r, name)
          \/ \E name \in Name : SourceTooShort(r, name)
      BY <1>3, <2>2, <3>4 DEF OwnStep, Process
    <3>6. CASE ClientStep(r) \/ \E name \in Name : SourceTooShort(r, name)
      BY <3>3, <3>6, SmoothClientOnly, SmoothLaunch, SmoothUpload DEF ClientStep
    <3>7. CASE ControlStep(r)
      BY <1>1, <1>2, <3>2, <3>3, <3>7, SmoothControl
    <3>8. ASSUME NEW name \in Name, TransferStep(r, name)
          PROVE  SmoothRun(r)' /\ \A n \in Name : SmoothClient(r, n)' /\ SmoothTransfer(r, n)'
      BY <1>1, <1>2, <3>2, <3>3, <3>8, SmoothSession
    <3> QED
      BY <3>5, <3>6, <3>7, <3>8
  <2> QED
    BY <2>1, <2>2
<1>4. ASSUME NEW s \in Run, Begin(s)
      PROVE  Smooth(r)'
  BY <1>1, <1>2, <1>4, SmoothBegin
<1>5. ~CrashServer /\ \A name \in Name : ~Edit(name)
  BY <1>1, <1>2 DEF CrashServer, Edit
<1>6. ASSUME UNCHANGED vars
      PROVE  Smooth(r)'
  <2>1. SmoothRun(r) => SmoothRun(r)'
    BY <1>6 DEF vars, SmoothRun
  <2>2. \A n \in Name : SmoothClient(r, n) => SmoothClient(r, n)'
    BY <1>6 DEF vars, SmoothClient, TransferActive, Launched
  <2>3. \A n \in Name : SmoothTransfer(r, n) => SmoothTransfer(r, n)'
    BY <1>6, SmoothTransferKept DEF vars
  <2> QED
    BY <1>2, <1>6, <2>1, <2>2, <2>3 DEF vars, Smooth
<1> QED
  BY <1>3, <1>4, <1>5, <1>6 DEF Next, Environment, OwnStep

(* With no temporary file under a client's name, a run that nothing        *)
(* disturbs succeeds (UndisturbedSucceeds).                                *)
THEOREM UndisturbedSucceedsHolds ==
    ASSUME NoTempNames
    PROVE  Spec => []UndisturbedSucceeds
<1>1. Init => AllSmooth
  <2>1. SUFFICES ASSUME Init, NEW r \in Run PROVE Smooth(r)
    BY DEF AllSmooth
  <2>2. ~run[r].alone /\ \A name \in Name : transfer[r][name].received = 0
    BY <2>1 DEF Init
  <2> QED
    BY <2>2 DEF Smooth
<1>2. IInv /\ Copies /\ AllSmooth /\ [Next]_vars => IInv' /\ Copies' /\ AllSmooth'
  BY StepInv, SmoothStep
<1>3. AllSmooth => UndisturbedSucceeds
  BY DEF AllSmooth, Smooth, SmoothRun, UndisturbedSucceeds
<1> QED
  BY <1>1, <1>2, <1>3, InitInv, PTL DEF Spec
=============================================================================

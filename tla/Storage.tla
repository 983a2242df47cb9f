------------------------------ MODULE Storage ------------------------------
(***************************************************************************)
(* The directory a server keeps for one client id, and the functions of    *)
(* src/src/common/file_utils.cpp and sync_logic.cpp that work on it.       *)
(*                                                                         *)
(* A name is a pair <<base, k>>: the base name with k times ".part" after  *)
(* it.  A disk is a record: `dir' maps a name to an inode or NoFile,       *)
(* `data' an inode to its blocks, so that a process that holds an open     *)
(* file and a name that was renamed over it can meet on one inode.  A      *)
(* block stands for some thousands of bytes (more than the stream's own    *)
(* buffer, which such a write bypasses); Hole is what a write beyond the   *)
(* end of a truncated file leaves before it.  A content stands for its     *)
(* size and its checksum (CRC-32 without collisions).                      *)
(***************************************************************************)
EXTENDS Naturals, Sequences, FiniteSets

CONSTANTS NoFile,  \* no file has the name
          Hole     \* a block of zeros that nobody wrote

temp_file_path(name) == <<name[1], name[2] + 1>>

Exists(disk, name) == disk.dir[name] # NoFile
Content(disk, name) == IF Exists(disk, name) THEN disk.data[disk.dir[name]]
                                             ELSE NoFile
Present(disk) == {name \in DOMAIN disk.dir : Exists(disk, name)}

(* An ofstream opened with std::ios::trunc: the file that has the name is  *)
(* emptied, whoever else has it open; without one, `fresh' is created.     *)
OpenTruncated(disk, name, fresh) ==
    IF Exists(disk, name)
    THEN [disk EXCEPT !.data[disk.dir[name]] = <<>>]
    ELSE [disk EXCEPT !.dir[name] = fresh, !.data[fresh] = <<>>]

OpenedInode(disk, name, fresh) ==
    IF Exists(disk, name) THEN disk.dir[name] ELSE fresh

(* A write through an open file, whatever name the inode has by now.       *)
WriteBlock(disk, inode, position, block) ==
    LET old == disk.data[inode]
        length == IF Len(old) > position THEN Len(old) ELSE position
    IN [disk EXCEPT !.data[inode] =
           [i \in 1..length |-> IF i = position THEN block
                                ELSE IF i <= Len(old) THEN old[i] ELSE Hole]]

Rename(disk, source, target) ==
    [disk EXCEPT !.dir[target] = disk.dir[source], !.dir[source] = NoFile]

Remove(disk, name) == [disk EXCEPT !.dir[name] = NoFile]

(* Those of `names' that are in `order', in that order.                    *)
InOrder(order, names) ==
    LET chosen == {i \in DOMAIN order : order[i] \in names}
        Rank(i) == Cardinality({j \in chosen : j <= i})
    IN [k \in 1..Cardinality(chosen) |-> order[CHOOSE i \in chosen : Rank(i) = k]]

(* Slips: what the server lacks is forgotten; what it has is not looked at. *)
compute_upload_plan_changed_only(order, client_files, server_files) ==
    InOrder(order, {name \in DOMAIN client_files \cap DOMAIN server_files :
                      server_files[name] # client_files[name]})

compute_upload_plan_of_all(order, client_files, server_files) ==
    InOrder(order, DOMAIN client_files)

(* The files the client has to send, in the order of its own list: those   *)
(* the server lacks or has with another size or checksum.                  *)
compute_upload_plan(order, client_files, server_files) ==
    InOrder(order, {name \in DOMAIN client_files :
                      name \in DOMAIN server_files =>
                          server_files[name] # client_files[name]})
=============================================================================

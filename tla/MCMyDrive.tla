----------------------------- MODULE MCMyDrive -----------------------------
(* Values for the runs of MyDrive.  A block is a number; the contents of   *)
(* two blocks are enough for a torn file, the short one for a size that    *)
(* differs.                                                                *)
EXTENDS MyDrive, TLC

A == <<"a", 0>>
B == <<"b", 0>>
APart == temp_file_path(A)
One == <<1, 1>>
Two == <<2, 2>>
Short == <<3>>

JustA == <<A>>
TwoFiles == <<A, B>>
PartFile == <<A, APart>>
TwoContents == {One, Two}
ThreeContents == {One, Two, Short}

(* The directory `files', and NoFile for every other name of `names'.      *)
Directory(files, names) ==
    [name \in names |-> IF name \in DOMAIN files THEN files[name] ELSE NoFile]

LocalTwo == {Directory((A :> One) @@ (B :> Two), Name)}
(* A server with an old a, no b, and what an interrupted upload left.      *)
StoredTwo == {Directory((A :> Two) @@ (APart :> Short), StoredName)}
LocalA == {Directory(A :> One, Name)}
StoredOld == {Directory(A :> Two, StoredName)}
StoredA == {Directory(NoFiles, StoredName), Directory(A :> Two, StoredName)}
StoredEmpty == {Directory(NoFiles, StoredName)}
(* The client has a and a.part, the server has a.part already.             *)
LocalPart == {Directory((A :> One) @@ (APart :> Two), Name)}
StoredPart == {Directory(APart :> Two, StoredName)}
NoOverlap == {}
OverlapTwo == {2}
OverlapThree == {2, 3}
=============================================================================

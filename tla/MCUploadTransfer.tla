-------------------------- MODULE MCUploadTransfer --------------------------
(* Files of up to three blocks, chunks of two, and a socket that holds two *)
(* blocks: a file takes a full chunk and a short one, a chunk may be sent  *)
(* in two pieces, and a writer meets back pressure.                        *)
EXTENDS UploadTransfer

MCBlock == {"x", "y"}
MCContents == {<<>>, <<"x">>, <<"x", "y">>, <<"x", "x">>, <<"x", "y", "x">>}
MCBothModes == BOOLEAN
=============================================================================

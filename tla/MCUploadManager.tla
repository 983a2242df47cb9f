-------------------------- MODULE MCUploadManager --------------------------
(* The pool on every queue of up to five files, the empty one included.    *)
EXTENDS UploadManager

MCQueueSizes == 0..5
=============================================================================

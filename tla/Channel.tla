------------------------------ MODULE Channel ------------------------------
(***************************************************************************)
(* What a connection promises to the handlers on top of it: the messages   *)
(* sent are handed over one by one, unchanged and in their order, until    *)
(* the connection breaks; nothing is handed over after that.  Module       *)
(* Framing shows that frames over TCP implement it.                        *)
(***************************************************************************)
EXTENDS Naturals, Sequences

VARIABLES sent,       \* the messages written, oldest first
          delivered,  \* the messages handed over, oldest first
          broken      \* a read has ended with an error

vars == <<sent, delivered, broken>>

Init == sent = <<>> /\ delivered = <<>> /\ broken = FALSE

Send ==
    /\ Len(sent') = Len(sent) + 1
    /\ SubSeq(sent', 1, Len(sent)) = sent
    /\ UNCHANGED <<delivered, broken>>

HandOver ==
    /\ ~broken
    /\ Len(delivered) < Len(sent)
    /\ delivered' = Append(delivered, sent[Len(delivered) + 1])
    /\ UNCHANGED <<sent, broken>>

Break ==
    /\ broken' = TRUE
    /\ UNCHANGED <<sent, delivered>>

Spec == Init /\ [][Send \/ HandOver \/ Break]_vars
=============================================================================

----------------------------- MODULE MCFraming -----------------------------
(* Payloads shorter than the limit, of exactly the limit and beyond it,    *)
(* some of which look like a header; files shorter and longer than the     *)
(* request says.                                                           *)
EXTENDS Framing

Payloads == {<<>>, <<1>>, <<1, 1, 0>>, <<0, 1, 1, 0>>}

Message(type, payload) == [type |-> type, payload |-> payload]

Control ==
    {<<Message("hello", a), Message("hello", b), Message("sync_complete", c)>> :
        a \in Payloads \ {<<1>>}, b, c \in Payloads}

Uploads ==
    {<<Message("transfer_request", <<size, 0>>), Message("file", bytes)>> :
        size \in 0..2, bytes \in {<<>>, <<1>>, <<1, 2>>, <<1, 1, 0, 0, 0>>}}

MCScripts == Control \cup Uploads
=============================================================================

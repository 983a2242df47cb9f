------------------------------ MODULE MCConfig ------------------------------
(* Numbers at the ends of every width and on both sides of them, texts     *)
(* that are no numbers, and a second line for the count.                   *)
EXTENDS Config

Number(sort, n) == [sort |-> sort, n |-> n]
LineOf(key, value) == [key |-> key, value |-> value]

Numbers ==
    {Number("plus", n) : n \in {0, 1, Connections, Connections + 1, PortMax, PortMax + 1,
                               UintMax, UintMax + 1, UintMax + 2, ULongMax, ULongMax + 1}}
    \cup {Number("minus", n) : n \in {0, 1, ULongMax - 1, ULongMax, ULongMax + 1}}
Texts == {Number("empty", 0), Number("word", 0)}

AtMostOne(key, choices) == {<<>>} \cup {<<LineOf(key, value)>> : value \in choices}

MCFiles ==
    {text \o port \o <<LineOf("none", Number("word", 0))>> \o count \o again \o flag :
        text \in AtMostOne("text", Texts),
        port \in AtMostOne("port", Numbers \cup Texts),
        count \in AtMostOne("count", Numbers \cup Texts),
        again \in AtMostOne("count", {Number("plus", 2), Number("empty", 0)}),
        flag \in AtMostOne("flag", {Number("true", 0)})}
=============================================================================

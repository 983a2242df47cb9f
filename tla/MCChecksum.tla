----------------------------- MODULE MCChecksum -----------------------------
(* The real word and polynomial (0xedb88320); any two contents of up to    *)
(* three bytes out of three values, and two longer ones with changes, of   *)
(* which one is the content that tests/test_main.cpp tries.                *)
EXTENDS Checksum

MCPolynomial == {5, 8, 9, 15, 19, 20, 21, 23, 24, 26, 27, 29, 30, 31}

Char(code) == {i \in Byte : (code \div 2^i) % 2 = 1}
abcdef == [i \in 1..6 |-> Char(96 + i)]

Values == {{}, {0}, {7}}
Short == UNION {[1..n -> Values] : n \in 0..3}
Zeros == [i \in 1..9 |-> {}]
Changes(long) ==
    UNION {{[long EXCEPT ![k] = a, ![k + 3] = b] : a, b \in Values} : k \in 1..(Len(long) - 3)}

MCPairs ==
    {pair \in Short \X Short : Len(pair[1]) = Len(pair[2])}
    \cup {<<long, twin_>> : long \in {abcdef}, twin_ \in Changes(abcdef)}
    \cup {<<long, twin_>> : long \in {Zeros}, twin_ \in Changes(Zeros)}
=============================================================================

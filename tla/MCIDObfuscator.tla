--------------------------- MODULE MCIDObfuscator ---------------------------
(* A small modulus, base and word: tokens of up to four digits go beyond     *)
(* the modulus and beyond the word; one digit is no digit, one tag is no     *)
(* type.                                                                     *)
EXTENDS IDObfuscator

CONSTANTS ban, mute, other, MaxLen

Token(tag, digits) == [tag |-> tag, digits |-> digits]

Some ==
    {Token(ban, d) : d \in UNION {[1 .. n -> 0 .. Base - 1] : n \in 0 .. MaxLen}}
    \cup {Token(ban, <<1, Base>>), Token(mute, <<1, 0>>), Token(other, <<1>>)}

SomeIds == 0 .. IdModulus
=============================================================================

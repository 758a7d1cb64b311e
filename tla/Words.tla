------------------------------- MODULE Words -------------------------------
(***************************************************************************)
(* The unsigned words of the virtual machine and what C's operators do to  *)
(* them.  The bitwise ones go bit by bit.                                  *)
(***************************************************************************)
EXTENDS Integers

CONSTANT WordBits       \* uint32_t: 32 in the source; TLC's integers allow 30

ASSUME WordAssumption == WordBits \in 17 .. 32

Word == 0 .. 2 ^ WordBits - 1
Wrap(x) == x % 2 ^ WordBits
Byte == 0 .. 255

\* Bit k of x, and the number with the bits b.
Bit(x, k) == (x \div 2 ^ k) % 2
FromBits(b) ==
    LET sum[n \in 0 .. WordBits] ==
            IF n = 0 THEN 0 ELSE sum[n - 1] + b[n - 1] * 2 ^ (n - 1)
    IN  sum[WordBits]

\* &, | and ^
And(x, y) == FromBits([k \in 0 .. WordBits - 1 |-> Bit(x, k) * Bit(y, k)])
Or(x, y) ==
    FromBits([k \in 0 .. WordBits - 1 |->
                 IF Bit(x, k) = 0 THEN Bit(y, k) ELSE 1])
Xor(x, y) ==
    FromBits([k \in 0 .. WordBits - 1 |-> (Bit(x, k) + Bit(y, k)) % 2])

\* A number of 2 * half values read with its sign.
Signed(x, half) == IF x < half THEN x ELSE x - 2 * half

\* <<, >> and >> of an int32_t.
ShiftLeft(x, k) ==
    IF k >= WordBits THEN 0 ELSE (x % 2 ^ (WordBits - k)) * 2 ^ k
ShiftRight(x, k) == IF k >= WordBits THEN 0 ELSE x \div 2 ^ k
ShiftRightSigned(x, k) ==
    LET signed == Signed(x, 2 ^ (WordBits - 1)) IN
    Wrap(IF k >= WordBits THEN (IF signed < 0 THEN -1 ELSE 0)
                          ELSE signed \div 2 ^ k)

\* The word that the bytes of m from a on hold, the least first, and byte j of
\* the word x.
WordAt(m, a) ==
    Wrap(m[a] + ShiftLeft(m[a + 1], 8) + ShiftLeft(m[a + 2], 16)
              + ShiftLeft(m[a + 3], 24))
ByteOf(x, j) == ShiftRight(x, 8 * j) % 256
=============================================================================

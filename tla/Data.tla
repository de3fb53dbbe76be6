-------------------------------- MODULE Data --------------------------------
(***************************************************************************)
(* Data and BitVector (src/utmremote/data.py), and the bytes of an int in  *)
(* src/utmremote/cod.py: numbers, bits and runs of bytes in a sequence of  *)
(* bytes.  What pops something off returns it with what is behind it.  An  *)
(* int has IntBytes bytes where the code has 8.                            *)
(***************************************************************************)
EXTENDS Digits, Integers, SequencesExt

CONSTANT IntBytes  \* bytes of an int

ASSUME IntBytesIsPositive == IntBytes \in Nat \ {0}

Octet == 0..255

\* d without its first n bytes.
Behind(d, n) == SubSeq(d, n + 1, Len(d))

\* Seven bits a byte, the lowest first; all but the last have the top bit.
Uleb128(n) ==
    LET push[x \in 0..n] ==
            IF x < 128 THEN <<x>> ELSE <<128 + (x % 128)>> \o push[x \div 128]
    IN  push[n]

\* The byte that ends the number at the front of d.
UlebEnd(d) ==
    CHOOSE i \in DOMAIN d : d[i] < 128 /\ \A j \in 1..(i - 1) : d[j] >= 128

PopUleb(d) ==
    LET last == UlebEnd(d)
        septets == [i \in 1..last |-> d[last + 1 - i] % 128]
    IN  [num |-> Number(septets, 128), rest |-> Behind(d, last)]

BitBytes(n) == (n + 7) \div 8

\* What a bit counts in its byte.
Weight(i) == <<1, 2, 4, 8, 16, 32, 64, 128>>[((i - 1) % 8) + 1]

BitVector(bits) ==
    LET bit(i) == IF i \in DOMAIN bits /\ bits[i] THEN 1 ELSE 0
    IN  [j \in 1..BitBytes(Len(bits)) |->
            Number([k \in 1..8 |-> bit(8*j + 1 - k)], 2)]

Bit(vector, i) == (vector[BitBytes(i)] \div Weight(i)) % 2 = 1

\* struct.pack('<q', n)
LittleEndian(n) ==
    LET over[i \in 0..IntBytes] == IF i = 0 THEN n ELSE over[i - 1] \div 256
    IN  [i \in 1..IntBytes |-> over[i - 1] % 256]

\* How many ints there are: 256 to the number of their bytes.
IntCount == Number([i \in 1..(IntBytes + 1) |-> IF i = 1 THEN 1 ELSE 0], 256)

\* The bytes from the last to the first.
UnLittleEndian(d) == Number([i \in DOMAIN d |-> d[Len(d) + 1 - i]], 256)
=============================================================================

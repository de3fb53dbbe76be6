----------------------------- MODULE Containers -----------------------------
(***************************************************************************)
(* The containers of CodEncoder and CodDecoder (src/utmremote/cod.py),     *)
(* given the bytes of the values in them, and the table of shapes.  A part *)
(* of a container is the bytes of a value, or Null.                        *)
(*                                                                         *)
(* A key of a shape is one byte, its place among all keys.                 *)
(***************************************************************************)
EXTENDS Data, FiniteSets

CONSTANTS Names,  \* every key there is, in the order of sorted()
          Null,   \* None
          Raised  \* an exception

ASSUME NamesDiffer ==
    Names \in Seq(ToSet(Names)) /\ IsInjective(Names) /\ Len(Names) < 256
ASSUME NullIsNoValue == Null # Raised /\ {Null, Raised} \cap Seq(Octet) = {}

NoNull(n) == [i \in 1..n |-> FALSE]

-----------------------------------------------------------------------------
(* CodEncoder.                                                             *)

\* The sizes of parts, and the parts, without those that are null.
Lengths(parts) ==
    FlattenSeq([i \in DOMAIN parts |->
                   IF parts[i] = Null THEN <<>> ELSE Uleb128(Len(parts[i]))])

Joined(parts) ==
    FlattenSeq([i \in DOMAIN parts |-> IF parts[i] = Null THEN <<>> ELSE parts[i]])

NullBits(parts) == BitVector([i \in DOMAIN parts |-> parts[i] = Null])

\* A nullable list, as the format has it.
NullableList(parts) ==
    <<2>> \o Uleb128(Len(parts)) \o NullBits(parts)
          \o Lengths(parts) \o Joined(parts)

OneSize(parts) == \A i, j \in DOMAIN parts : Len(parts[i]) = Len(parts[j])

\* A list without nulls.
PlainList(parts) ==
    IF OneSize(parts)
    THEN <<0>> \o Uleb128(Len(parts))
               \o Uleb128(IF parts = <<>> THEN 0 ELSE Len(parts[1]))
               \o Joined(parts)
    ELSE <<1>> \o Uleb128(Len(parts)) \o Lengths(parts) \o Joined(parts)

\* A list whose elements are the bytes of b.
BytesList(b) == <<0>> \o Uleb128(Len(b)) \o <<1>> \o b

TextBytes(characters) == Uleb128(Len(characters)) \o characters

KeyedContainer(id, parts) ==
    IF Null \in ToSet(parts)
    THEN <<1>> \o Uleb128(id) \o NullBits(parts) \o Lengths(parts) \o Joined(parts)
    ELSE <<0>> \o Uleb128(id) \o Lengths(parts) \o Joined(parts)

NameByte(key) == SelectInSeq(Names, LAMBDA n : n = key)

ShapeBytes(shape) ==
    Uleb128(Len(shape))
        \o FlattenSeq([i \in DOMAIN shape |-> <<1, NameByte(shape[i])>>])

ShapeTable(shapes) ==
    Uleb128(Len(shapes)) \o FlattenSeq([i \in DOMAIN shapes |-> ShapeBytes(shapes[i])])

-----------------------------------------------------------------------------
(* CodDecoder.                                                             *)

\* The sizes of parts, with 0 for those that are null.
PopSizes(d, nulls) ==
    LET sizeOf(popped, null) ==
            IF null THEN [num |-> 0, rest |-> popped.rest] ELSE PopUleb(popped.rest)
        more(popped, next) ==
            [sizes |-> Append(popped.sizes, next.num), rest |-> next.rest]
        pop[i \in 0..Len(nulls)] ==
            IF i = 0 THEN [sizes |-> <<>>, rest |-> d]
            ELSE LET popped == pop[i - 1]
                 IN  more(popped, sizeOf(popped, nulls[i]))
    IN  pop[Len(nulls)]

\* Runs of bytes one behind the other in d.
Slices(sizes, d) ==
    LET offset[i \in 0..Len(sizes)] ==
            IF i = 0 THEN 0 ELSE offset[i - 1] + sizes[i]
    IN  [i \in DOMAIN sizes |-> SubSeq(d, offset[i - 1] + 1, offset[i])]

PopParts(d, nulls) ==
    LET popped == PopSizes(d, nulls)
        slices == Slices(popped.sizes, popped.rest)
    IN  [i \in DOMAIN nulls |-> IF nulls[i] THEN Null ELSE slices[i]]

PopNullable(d, count) ==
    PopParts(Behind(d, BitBytes(count)), [i \in 1..count |-> Bit(d, i)])

\* _decode_unkeyed_container up to the values.  A nullable one stops at its
\* first element that is not null, at a name that is not defined.
UnkeyedParts(d) ==
    LET count == PopUleb(Tail(d))
    IN  CASE d[1] = 0 -> LET size == PopUleb(count.rest)
                         IN  Slices([i \in 1..count.num |-> size.num], size.rest)
          [] d[1] = 1 -> PopParts(count.rest, NoNull(count.num))
          [] d[1] = 2 -> LET parts == PopNullable(count.rest, count.num)
                         IN  IF \A i \in DOMAIN parts : parts[i] = Null
                             THEN parts ELSE Raised

PopBytes(d) == FlattenSeq(UnkeyedParts(d))

PopText(d) ==
    LET len == PopUleb(d)
    IN  SubSeq(len.rest, 1, len.num)

\* The index of the shape of a keyed container.
ShapeIndex(d) == PopUleb(Tail(d)).num + 1

KeyedParts(d, shape) ==
    LET rest == PopUleb(Tail(d)).rest
    IN  IF d[1] = 0 THEN PopParts(rest, NoNull(Len(shape)))
                    ELSE PopNullable(rest, Len(shape))

PopShape(d) ==
    LET count == PopUleb(d)
    IN  [shape |-> [i \in 1..count.num |-> Names[count.rest[2*i]]],
         rest |-> Behind(count.rest, 2 * count.num)]

\* The table of shapes at the front of d.
ShapesOf(d) ==
    LET count == PopUleb(d)
        pop[i \in 0..count.num] ==
            IF i = 0 THEN [shapes |-> <<>>, rest |-> count.rest]
            ELSE LET popped == pop[i - 1]
                     next == PopShape(popped.rest)
                 IN  [shapes |-> Append(popped.shapes, next.shape),
                      rest |-> next.rest]
    IN  pop[count.num]
=============================================================================

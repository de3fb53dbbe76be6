------------------------------- MODULE Codec -------------------------------
(***************************************************************************)
(* The encoding of requests and replies: CodEncoder and CodDecoder         *)
(* (src/utmremote/cod.py), with the containers in Containers.              *)
(* An encoding is a table of shapes, which are lists of keys, and the      *)
(* bytes of the value, which refer to the shapes by their index.           *)
(*                                                                         *)
(* A character of a string is one byte.  The decoder is given the type     *)
(* that the annotations of the message class announce; the encoder goes by *)
(* the class of the object it is given.                                    *)
(***************************************************************************)
EXTENDS Types, Containers

CONSTANTS Depth,  \* how deep values are nested
          Typed   \* Typed[n]: the values n deep at most, as <<type, value>>

VARIABLES sample,     \* the type the decoder is given, and the value
          peerSends,  \* the encoder is the server's, which can encode nulls
          encoding,       \* what encode returned, or <<>>
          result      \* what decode returned, or Null

valueVars == <<sample, peerSends, encoding, result>>

-----------------------------------------------------------------------------
(* Values and their types.                                                 *)

Keys == ToSet(Names)
Tables == Seq(Seq(Keys))
TypesUsed == UNION {{p[1] : p \in Typed[n]} : n \in 0..Depth}
Values == UNION {{p[2] : p \in Typed[n]} : n \in 0..Depth}

\* A part of what is nested n deep, of type t or of some type.
IsPart(n, t, x) == x = Null \/ (n > 0 /\ <<t, x>> \in Typed[n - 1])
IsSomePart(n, x) == \E t \in TypesUsed : IsPart(n, t, x)

HasType(n, t, val) ==
    \/ t.k = "int" /\ val = Num(val.v) /\ val.v \in Int
    \/ t.k = "member" /\ val = Num(val.v) /\ val.v \in Nat /\ t.max \in Nat
    \/ t.k = "bool" /\ val = Bool(val.v) /\ val.v \in BOOLEAN
    \/ t.k = "str" /\ val = Str(val.v) /\ val.v \in Seq(Octet)
    \/ t.k = "bytes" /\ val = Bytes(val.v) /\ val.v \in Seq(Octet)
    \/ t.k = "enum" /\ val = Enum(val.v) /\ val.v \in Keys
                    /\ IsSomePart(n, Dict(<<>>))
    \/ t.k = "list" /\ val = List(val.v) /\ val.v \in Seq(ToSet(val.v))
                    /\ \A i \in DOMAIN val.v : IsPart(n, t.of, val.v[i])
    \/ t.k = "dict" /\ val = Dict(val.v) /\ DOMAIN val.v \subseteq Keys
                    /\ \A key \in DOMAIN val.v : IsPart(n, t.of, val.v[key])
    \/ /\ t.k = "struct" /\ val.k = "struct" /\ val.declares \subseteq Keys
       /\ \A key \in DOMAIN val.v \cap val.declares : IsSomePart(n, val.v[key])
       /\ \A key \in DOMAIN val.v \cap DOMAIN t.fields :
              IsPart(n, t.fields[key], val.v[key])

ASSUME DepthIsNat == Depth \in Nat
ASSUME ValuesAreTyped ==
    \A n \in 0..Depth : \A p \in Typed[n] :
        p = <<p[1], p[2]>> /\ p[2] # Raised /\ HasType(n, p[1], p[2])
ASSUME RaisedIsNoParts ==
    Raised \notin Seq(Seq(Octet) \cup {Null}) \cup Seq(Values \cup {Null})

-----------------------------------------------------------------------------
(* CodEncoder.  An encoder maps a value and a table of shapes to the bytes *)
(* of the value and the table after it; "below" encodes the parts.         *)

Sorted(keys) ==
    LET upto[i \in 0..Len(Names)] ==
            IF i = 0 THEN <<>>
            ELSE IF Names[i] \in keys THEN Append(upto[i - 1], Names[i])
                                      ELSE upto[i - 1]
    IN  upto[Len(Names)]

\* Mutant: a shape that is in the table is entered again.
WithShapeAgain(shapes, shape) == Append(shapes, shape)

\* Shapes.lookupID: the table, and the id of the shape in it.
WithShape(shapes, shape) ==
    IF Contains(shapes, shape) THEN shapes ELSE Append(shapes, shape)

\* Where x is in s.
Place(s, x) == SelectInSeq(s, LAMBDA y : y = x)

ShapeId(shapes, shape) == Place(shapes, shape) - 1

\* Values one after another, with the table they share.
Encoded(below, values, shapes) ==
    LET part(v, table) == IF v = Null THEN [data |-> Null, shapes |-> table]
                                      ELSE below[v][table]
        more(e, d) == [parts |-> Append(e.parts, d.data), shapes |-> d.shapes]
        encode[i \in 0..Len(values)] ==
            IF i = 0 THEN [parts |-> <<>>, shapes |-> shapes]
            ELSE LET e == encode[i - 1]
                 IN  IF Raised \in ToSet(e.parts) THEN e
                     ELSE more(e, part(values[i], e.shapes))
    IN  encode[Len(values)]

\* The client's encoder of a list takes the length of every element, None
\* included.
UnkeyedContainer(server, parts) ==
    CASE Raised \in ToSet(parts) -> Raised
      [] Raised \notin ToSet(parts) /\ Null \in ToSet(parts) ->
            IF server THEN NullableList(parts) ELSE Raised
      [] OTHER -> PlainList(parts)

\* The keys of a container.  Of an object only attributes that its class
\* declares are encoded, unless they are None.
KeysOf(val) ==
    CASE val.k = "enum" -> {val.v}
      [] val.k = "dict" -> DOMAIN val.v
      [] val.k = "struct" -> {key \in val.declares \cap DOMAIN val.v :
                                  val.v[key] # Null}

ValueAt(val, key) == IF val.k = "enum" THEN Dict(<<>>) ELSE val.v[key]

Keyed(below, val, shapes) ==
    LET shape == Sorted(KeysOf(val))
        table == WithShape(shapes, shape)
        e == Encoded(below, [i \in DOMAIN shape |-> ValueAt(val, shape[i])], table)
    IN  [data |-> IF Raised \in ToSet(e.parts) THEN Raised
                 ELSE KeyedContainer(ShapeId(table, shape), e.parts),
         shapes |-> e.shapes]

Unkeyed(server, below, val, shapes) ==
    LET e == Encoded(below, val.v, shapes)
    IN  [data |-> UnkeyedContainer(server, e.parts), shapes |-> e.shapes]

IntFits(n) == n \in -(IntCount \div 2)..(IntCount \div 2 - 1)

EncoderOf(server, below, val, shapes) ==
    CASE val.k = "bool" ->
            [data |-> <<IF val.v THEN 1 ELSE 0>>, shapes |-> shapes]
      [] val.k = "int" ->
            [data |-> IF IntFits(val.v) THEN LittleEndian(val.v) ELSE Raised,
             shapes |-> shapes]
      [] val.k = "str" -> [data |-> TextBytes(val.v), shapes |-> shapes]
      [] val.k = "bytes" -> [data |-> BytesList(val.v), shapes |-> shapes]
      [] val.k = "list" -> Unkeyed(server, below, val, shapes)
      [] val.k \in {"struct", "dict", "enum"} -> Keyed(below, val, shapes)

\* By the depth of the values.
Encoders(server) ==
    LET encoder[n \in 0..Depth] ==
            [val \in Values |-> [shapes \in Tables |->
                EncoderOf(server, IF n = 0 THEN <<>> ELSE encoder[n - 1], val, shapes)]]
    IN  encoder

\* CodEncoder.encode
Encode(server, val) ==
    LET e == Encoders(server)[Depth][val][<<>>]
    IN  IF e.data = Raised THEN Raised
        ELSE ShapeTable(e.shapes) \o e.data

-----------------------------------------------------------------------------
(* CodDecoder.  A decoder maps a type, bytes and a table to a value.       *)

Decoded(below, t, part, shapes) ==
    IF part = Null THEN Null ELSE below[t][part][shapes]

\* The value of a container, unless decoding one of its parts raised.
Unless(raised, value) == IF raised THEN Raised ELSE value

DecodedList(below, t, d, shapes) ==
    LET parts == UnkeyedParts(d)
        values == [i \in DOMAIN parts |-> Decoded(below, t.of, parts[i], shapes)]
    IN  IF parts = Raised THEN Raised
        ELSE Unless(Raised \in ToSet(values), List(values))

DecodedKeyed(below, t, d, shapes) ==
    LET shape == shapes[ShapeIndex(d)]
        parts == KeyedParts(d, shape)
        keys == ToSet(shape)
        part(key) == parts[Place(shape, key)]
        entries == [key \in keys |-> Decoded(below, t.of, part(key), shapes)]
        fields == [key \in DOMAIN t.fields |->
                      IF key \in keys
                      THEN Decoded(below, t.fields[key], part(key), shapes) ELSE Null]
    IN  CASE t.k = "enum" -> Unless(shape[1] \notin t.members, Enum(shape[1]))
          [] t.k = "dict" ->
                Unless(\E key \in keys : entries[key] = Raised, Dict(entries))
          [] t.k = "struct" ->
                Unless(\/ \E key \in keys \ DOMAIN t.fields : part(key) # Null
                       \/ \E key \in DOMAIN t.fields : fields[key] = Raised,
                       Object(t, fields))

DecoderOf(below, t, d, shapes) ==
    CASE t.k = "bool" -> Bool(d[1] # 0)
      [] t.k = "int" -> Num(UnLittleEndian(d))
      [] t.k = "member" -> LET n == UnLittleEndian(d)
                           IN  Unless(n > t.max, Num(n))
      [] t.k = "str" -> Str(PopText(d))
      [] t.k = "bytes" -> Bytes(PopBytes(d))
      [] t.k = "list" -> DecodedList(below, t, d, shapes)
      [] t.k \in {"struct", "dict", "enum"} -> DecodedKeyed(below, t, d, shapes)

Decoders ==
    LET decoder[n \in 0..Depth] ==
            [t \in TypesUsed |-> [d \in Seq(Octet) |-> [shapes \in Tables |->
                DecoderOf(IF n = 0 THEN <<>> ELSE decoder[n - 1], t, d, shapes)]]]
    IN  decoder

\* CodDecoder.decode; a shape that names a key twice is refused.
Decode(t, d) ==
    LET s == ShapesOf(d)
    IN  IF \A i \in DOMAIN s.shapes : IsInjective(s.shapes[i])
        THEN Decoders[Depth][t][s.rest][s.shapes] ELSE Raised

-----------------------------------------------------------------------------
(* One value on its way.                                                   *)

EncodeValue ==
    /\ encoding = <<>>
    /\ encoding' = Encode(peerSends, sample[2])
    /\ UNCHANGED <<sample, peerSends, result>>

DecodeValue ==
    /\ encoding \notin {<<>>, Raised}
    /\ result = Null
    /\ result' = Decode(sample[1], encoding)
    /\ UNCHANGED <<sample, peerSends, encoding>>

-----------------------------------------------------------------------------
(* Properties.                                                             *)

\* What a value is to the other end.  An int is encoded as signed and decoded
\* as unsigned.  Attributes that were not declared are not sent, and declared
\* ones that were not set are None.  A None in a list is refused, except by the
\* server in a list of nothing else; and so is what the decoder does not know.
ReadingOf(server, below, t, val) ==
    LET part(u, x) == IF x = Null THEN Null ELSE below[u][x]
        elements == [i \in DOMAIN val.v |-> part(t.of, val.v[i])]
        fields == [key \in DOMAIN t.fields |->
                      IF key \in KeysOf(val) THEN below[t.fields[key]][val.v[key]]
                                             ELSE Null]
    IN  CASE t.k = "int" ->
                Unless(~IntFits(val.v),
                       Num(IF val.v < 0 THEN val.v + IntCount ELSE val.v))
          [] t.k = "member" -> Unless(~IntFits(val.v) \/ val.v > t.max, val)
          [] t.k = "list" ->
                Unless(\/ Raised \in ToSet(elements)
                       \/ /\ Null \in ToSet(val.v)
                          /\ ~(server /\ ToSet(val.v) = {Null}),
                       List(elements))
          [] t.k = "enum" -> Unless(val.v \notin t.members, val)
          [] t.k = "dict" -> Unless(Raised \in ToSet(elements), Dict(elements))
          [] t.k = "struct" ->
                Unless(~(KeysOf(val) \subseteq DOMAIN t.fields)
                           \/ Raised \in ToSet(fields),
                       Object(t, fields))
          [] OTHER -> val

Readings(server) ==
    LET reading[n \in 0..Depth] ==
            [t \in TypesUsed |-> [val \in Values |->
                ReadingOf(server, IF n = 0 THEN <<>> ELSE reading[n - 1], t, val)]]
    IN  reading

Reading(server, t, val) == Readings(server)[Depth][t][val]

\* Nothing is lost or changed on the way: what is decoded from the bytes of a
\* value is its reading, across nested containers that share shapes, elements
\* of equal and of different sizes, lengths on either side of 128, absent
\* fields and absent values of dictionaries.  What cannot be read is refused,
\* by the encoder or by the decoder, and nothing else is.
RoundTrip ==
    /\ encoding = Raised => Reading(peerSends, sample[1], sample[2]) = Raised
    /\ result # Null => result = Reading(peerSends, sample[1], sample[2])
    /\ encoding \notin {<<>>, Raised} => IsInjective(ShapesOf(encoding).shapes)
=============================================================================

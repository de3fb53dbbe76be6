------------------------------- MODULE Types -------------------------------
(***************************************************************************)
(* The types that annotations announce and the values that have them, as   *)
(* far as CodDecoder.decode and CodEncoder.encode tell them apart          *)
(* (src/utmremote/cod.py).                                                 *)
(*                                                                         *)
(* Whatever is a str to the decoder is a string: UUID, Date and every      *)
(* StrEnum.  An IntFlag takes any int; an IntEnum only its members, which  *)
(* are 0..max.                                                             *)
(***************************************************************************)
EXTENDS Naturals

IntType == [k |-> "int"]
MemberType(max) == [k |-> "member", max |-> max]
BoolType == [k |-> "bool"]
StrType == [k |-> "str"]
BytesType == [k |-> "bytes"]
EnumType(members) == [k |-> "enum", members |-> members]
ListOf(t) == [k |-> "list", of |-> t]
DictOf(t) == [k |-> "dict", of |-> t]

\* A Codable class with the types of its fields.
Class(fields) == [k |-> "struct", fields |-> fields]

\* Fields of one type.
Ints(names) == [n \in names |-> IntType]
Bools(names) == [n \in names |-> BoolType]
Strs(names) == [n \in names |-> StrType]

NoFields == <<>>

\* Two functions in one; where both have a value, the first has it.
f ++ g == [x \in DOMAIN f \cup DOMAIN g |-> IF x \in DOMAIN f THEN f[x] ELSE g[x]]

Num(n) == [k |-> "int", v |-> n]
Bool(b) == [k |-> "bool", v |-> b]
Str(s) == [k |-> "str", v |-> s]
Bytes(s) == [k |-> "bytes", v |-> s]
Enum(name) == [k |-> "enum", v |-> name]
List(s) == [k |-> "list", v |-> s]
Dict(f) == [k |-> "dict", v |-> f]

\* An object of a class has the attributes it was given, declared or not.
Object(class, attributes) ==
    [k |-> "struct", declares |-> DOMAIN class.fields, v |-> attributes]
=============================================================================

---------------------------- MODULE CodecProofs ----------------------------
(***************************************************************************)
(* What becomes of bytes and of the values they stand for: the numbers,    *)
(* bits and containers of Data and Containers for values of any size,      *)
(* safety of Framing for any number of frames, of any size, with headers   *)
(* of any length, and safety of Codec and of Messages for any values,      *)
(* however deep they are nested.                                           *)
(*                                                                         *)
(* Numbers, joined sequences, popped parts, encoders and decoders are      *)
(* recursive definitions.  Of each the proofs need its steps (NumberReads, *)
(* FlattenReads, UlebSteps, LeftOver, StepsExist): that there is a         *)
(* function with those steps is an induction, with the induction principle *)
(* stated for sets of naturals.                                            *)
(***************************************************************************)
EXTENDS Messages, Framing, SequenceTheorems, WellFoundedInduction, TLAPS

-----------------------------------------------------------------------------
(* Induction.                                                              *)

\* Induction for a set of naturals.
LEMMA Induct ==
    ASSUME NEW T \in SUBSET Nat, 0 \in T, \A n \in T : n + 1 \in T
    PROVE  T = Nat
<1> DEFINE U == Nat \ T
<1>1. SUFFICES ASSUME U # {} PROVE FALSE
  OBVIOUS
<1>2. PICK n \in U : \A m \in U : ~(<<m, n>> \in OpToRel(<, Nat))
  <2> HIDE DEF U
  <2>1. U \subseteq Nat
    BY DEF U
  <2> QED
    BY <1>1, <2>1, WFMin, NatLessThanWellFounded
<1>3. \A m \in U : ~(m < n)
  BY <1>2 DEF OpToRel
<1>4. n - 1 \in T /\ n # 0
  BY <1>3
<1> QED
  BY <1>4

\* Induction up to a number.
LEMMA InductTo ==
    ASSUME NEW n \in Nat, NEW T, 0 \in T,
           \A i \in 0..(n - 1) : i \in T => i + 1 \in T
    PROVE  0..n \subseteq T
<1> DEFINE U == {i \in Nat : i <= n => i \in T}
<1>1. 0 \in U /\ U \in SUBSET Nat
  OBVIOUS
<1>2. \A i \in U : i + 1 \in U
  OBVIOUS
<1>3. U = Nat
  <2> HIDE DEF U
  <2> QED
    BY <1>1, <1>2, Induct
<1> QED
  BY <1>3

-----------------------------------------------------------------------------
(* Numbers written as digits.                                              *)

\* What a number is when the digits up to one are read.
LEMMA NumberReads ==
    ASSUME NEW base \in Nat, NEW s \in Seq(Nat)
    PROVE  \E f \in [0..Len(s) -> Nat] :
               /\ f[0] = 0 /\ Number(s, base) = f[Len(s)]
               /\ \A i \in 1..Len(s) : f[i] = f[i - 1] * base + s[i]
<1> DEFINE Digit(f, i) == IF i = 0 THEN 0 ELSE f[i - 1] * base + s[i]
           Value == CHOOSE f : f = [i \in 0..Len(s) |-> Digit(f, i)]
           Begun(n) == \E f \in [0..n -> Nat] : \A i \in 0..n : f[i] = Digit(f, i)
<1>1. Number(s, base) = Value[Len(s)]
  BY DEF Number
<1>2. \A n \in 0..Len(s) : Begun(n)
  <2> DEFINE T == {n \in Nat : n <= Len(s) => Begun(n)}
  <2>1. Begun(0)
    <3> DEFINE f == [i \in 0..0 |-> 0]
    <3>1. f \in [0..0 -> Nat] /\ \A i \in 0..0 : f[i] = Digit(f, i)
      OBVIOUS
    <3> QED
      BY <3>1
  <2>2. ASSUME NEW n \in Nat, n + 1 <= Len(s), Begun(n) PROVE Begun(n + 1)
    <3>1. PICK f \in [0..n -> Nat] : \A i \in 0..n : f[i] = Digit(f, i)
      BY <2>2
    <3>2. s[n + 1] \in Nat /\ f[n] * base \in Nat
      BY <2>2
    <3> DEFINE g == [i \in 0..(n + 1) |->
                        IF i = n + 1 THEN f[n] * base + s[n + 1] ELSE f[i]]
    <3>3. g \in [0..(n + 1) -> Nat]
      <4>1. \A i \in 0..(n + 1) : i # n + 1 => i \in 0..n
        OBVIOUS
      <4>2. \A i \in 0..n : f[i] \in Nat
        OBVIOUS
      <4>3. f[n] * base + s[n + 1] \in Nat
        BY <3>2
      <4> QED
        BY <4>1, <4>2, <4>3
    <3>4. ASSUME NEW i \in 0..(n + 1) PROVE g[i] = Digit(g, i)
      <4>1. CASE i = n + 1
        <5>1. g[n] = f[n] /\ i - 1 = n /\ i # 0
          BY <4>1
        <5> QED
          BY <4>1, <5>1
      <4>2. CASE i # n + 1
        <5>1. i \in 0..n /\ g[i] = f[i] /\ f[i] = Digit(f, i)
          BY <3>1, <4>2
        <5>2. i # 0 => g[i - 1] = f[i - 1]
          BY <5>1
        <5> QED
          BY <5>1, <5>2
      <4> QED
        BY <4>1, <4>2
    <3> QED
      BY <3>3, <3>4
  <2> HIDE DEF Begun
  <2>3. 0 \in T /\ T \subseteq Nat
    BY <2>1
  <2>4. \A n \in T : n + 1 \in T
    BY <2>2
  <2>5. T = Nat
    <3> HIDE DEF T
    <3> QED
      BY <2>3, <2>4, Induct
  <2> QED
    BY <2>5
<1>3. PICK f \in [0..Len(s) -> Nat] : \A i \in 0..Len(s) : f[i] = Digit(f, i)
  <2> HIDE DEF Begun
  <2>1. Begun(Len(s))
    BY <1>2
  <2> QED
    BY <2>1 DEF Begun
<1>4. f = [i \in 0..Len(s) |-> Digit(f, i)]
  BY <1>3
<1>5. Value = [i \in 0..Len(s) |-> Digit(Value, i)]
  BY <1>4
<1>6. \A i \in 0..Len(s) : Value[i] = Digit(Value, i)
   BY <1>5
<1> HIDE DEF Value
<1> DEFINE Reached == {n \in Nat : n <= Len(s) => Value[n] \in Nat}
<1>7. Reached = Nat
  <2>1. 0 \in Reached
    BY <1>6
  <2>2. ASSUME NEW n \in Reached, n + 1 <= Len(s) PROVE n + 1 \in Reached
    <3>1. s[n + 1] \in Nat /\ Value[n] * base \in Nat
      BY <2>2
    <3>2. Value[n + 1] = Value[n] * base + s[n + 1]
      BY <1>6, <2>2
    <3> DEFINE x == Value[n] * base
               y == s[n + 1]
    <3>3. x \in Nat /\ y \in Nat /\ Value[n + 1] = x + y
      BY <3>1, <3>2
    <3> HIDE DEF x, y
    <3> QED
      BY <3>3
  <2>3. \A n \in Reached : n + 1 \in Reached
    BY <2>2
  <2> QED
    BY <2>1, <2>3, Induct
<1>8. Value \in [0..Len(s) -> Nat]
  <2>1. \A i \in 0..Len(s) : Value[i] \in Nat
    <3> SUFFICES ASSUME NEW i \in 0..Len(s) PROVE Value[i] \in Nat
      OBVIOUS
    <3>1. i \in Reached
      <4> HIDE DEF Reached
      <4> QED
        BY <1>7
    <3> QED
      BY <3>1
  <2>2. Value = [i \in 0..Len(s) |-> Value[i]]
    BY <1>5
  <2> QED
    BY <2>1, <2>2
<1>9. Value[0] = 0 /\ \A i \in 1..Len(s) : Value[i] = Value[i - 1] * base + s[i]
  BY <1>6
<1> QED
  BY <1>1, <1>8, <1>9

\* A digit more.
LEMMA NumberAppend ==
    ASSUME NEW base \in Nat, NEW s \in Seq(Nat), NEW x \in Nat
    PROVE  /\ Number(s, base) \in Nat
           /\ Number(Append(s, x), base) = Number(s, base) * base + x
<1> DEFINE t == Append(s, x)
           n == Len(s)
<1>1. /\ t \in Seq(Nat) /\ Len(t) = n + 1 /\ t[n + 1] = x /\ n \in Nat
      /\ \A i \in 1..n : t[i] = s[i]
  BY AppendProperties
<1> HIDE DEF t, n
<1>2. PICK f \in [0..n -> Nat] :
          /\ f[0] = 0 /\ Number(s, base) = f[n]
          /\ \A i \in 1..n : f[i] = f[i - 1] * base + s[i]
  BY NumberReads DEF n
<1>3. PICK g \in [0..(n + 1) -> Nat] :
          /\ g[0] = 0 /\ Number(t, base) = g[n + 1]
          /\ \A i \in 1..(n + 1) : g[i] = g[i - 1] * base + t[i]
  <2> DEFINE m == Len(t)
  <2> HIDE DEF m
  <2>1. PICK g \in [0..m -> Nat] :
            /\ g[0] = 0 /\ Number(t, base) = g[m]
            /\ \A i \in 1..m : g[i] = g[i - 1] * base + t[i]
    BY <1>1, NumberReads DEF m
  <2>2. m = n + 1
    BY <1>1 DEF m
  <2> QED
    BY <2>1, <2>2
<1> DEFINE T == {i \in 0..n : g[i] = f[i]}
<1>4. 0 \in T
  BY <1>1, <1>2, <1>3
<1>5. ASSUME NEW i \in 0..(n - 1), i \in T PROVE i + 1 \in T
  <2>1. i + 1 \in 1..n /\ i + 1 \in 1..(n + 1) /\ (i + 1) - 1 = i
    BY <1>1
  <2> QED
    BY <1>1, <1>2, <1>3, <1>5, <2>1
<1>6. 0..n \subseteq T
  <2> HIDE DEF T
  <2> QED
    BY <1>1, <1>4, <1>5, InductTo
<1>7. g[n] = f[n] /\ f[n] \in Nat
  BY <1>1, <1>6
<1>8. g[n + 1] = g[n] * base + x
  <2>1. n + 1 \in 1..(n + 1) /\ (n + 1) - 1 = n
    BY <1>1
  <2> QED
    BY <1>1, <1>3, <2>1
<1> QED
  BY <1>2, <1>3, <1>7, <1>8 DEF t

LEMMA NumberEmpty == ASSUME NEW base \in Nat PROVE Number(<<>>, base) = 0
<1> DEFINE s == <<>>
           l == Len(s)
<1>1. s \in Seq(Nat) /\ l = 0
  OBVIOUS
<1> HIDE DEF s, l
<1>2. PICK f \in [0..l -> Nat] : f[0] = 0 /\ Number(s, base) = f[l]
  BY <1>1, NumberReads DEF l
<1> QED
  BY <1>1, <1>2 DEF s

LEMMA NumberIsNat ==
    ASSUME NEW base \in Nat, NEW s \in Seq(Nat) PROVE Number(s, base) \in Nat
  BY NumberAppend

(* What is behind a part of a sequence.                                    *)

LEMMA BehindTyped ==
    ASSUME NEW S, NEW d \in Seq(S), NEW n \in 0..Len(d)
    PROVE  /\ Behind(d, n) \in Seq(S) /\ Len(Behind(d, n)) = Len(d) - n
           /\ \A i \in 1..(Len(d) - n) : Behind(d, n)[i] = d[n + i]
<1> DEFINE l == Len(d)
<1>1. l \in Nat /\ n \in Nat /\ n <= l
  OBVIOUS
<1>2. \A i \in (n + 1)..l : d[i] \in S
  OBVIOUS
<1> HIDE DEF l
<1>3. Behind(d, n) = SubSeq(d, n + 1, l)
  BY DEF Behind, l
<1>4. /\ Behind(d, n) \in Seq(S)
      /\ Len(Behind(d, n)) = IF n + 1 <= l THEN l - (n + 1) + 1 ELSE 0
      /\ \A i \in 1..(l - (n + 1) + 1) : Behind(d, n)[i] = d[(n + 1) + i - 1]
  BY <1>1, <1>2, <1>3, SubSeqProperties
<1>5. \A i \in 1..(l - n) : Behind(d, n)[i] = d[n + i]
  BY <1>1, <1>4
<1>6. Len(Behind(d, n)) = l - n
  BY <1>1, <1>4
<1> QED
  BY <1>4, <1>5, <1>6 DEF l

LEMMA BehindFirst ==
    ASSUME NEW S, NEW s \in Seq(S), NEW t \in Seq(S)
    PROVE  Behind(s \o t, Len(s)) = t
<1> DEFINE c == s \o t
           b == Behind(c, Len(s))
<1>1. /\ c \in Seq(S) /\ Len(c) = Len(s) + Len(t)
      /\ \A i \in 1..(Len(s) + Len(t)) :
             c[i] = IF i <= Len(s) THEN s[i] ELSE t[i - Len(s)]
  BY ConcatProperties
<1>2. Len(s) \in Nat /\ Len(t) \in Nat
  OBVIOUS
<1> HIDE DEF c
<1>3. Len(s) \in 0..Len(c)
  BY <1>1, <1>2
<1>4. /\ b \in Seq(S) /\ Len(b) = Len(c) - Len(s)
      /\ \A i \in 1..(Len(c) - Len(s)) : b[i] = c[Len(s) + i]
  BY <1>1, <1>3, BehindTyped
<1> HIDE DEF b
<1>5. Len(b) = Len(t)
  BY <1>1, <1>2, <1>4
<1>6. ASSUME NEW i \in 1..Len(b) PROVE b[i] = t[i]
  <2>1. /\ b[i] = c[Len(s) + i] /\ Len(s) + i \in 1..(Len(s) + Len(t))
        /\ ~(Len(s) + i <= Len(s)) /\ (Len(s) + i) - Len(s) = i
    BY <1>1, <1>2, <1>4, <1>5
  <2> QED
    BY <1>1, <2>1
<1>7. b = t
  BY <1>4, <1>5, <1>6, SeqEqual
<1> QED
  BY <1>7 DEF b, c

\* The first part of a sequence.
LEMMA FrontOf ==
    ASSUME NEW S, NEW s \in Seq(S), NEW t \in Seq(S)
    PROVE  SubSeq(s \o t, 1, Len(s)) = s
<1>1. CASE Len(s) = 0
  BY <1>1, SubSeqEmpty
<1>2. CASE Len(s) # 0
  <2>1. 1 \in 1..Len(s) /\ Len(s) \in 1..Len(s)
    BY <1>2
  <2>2. SubSeq(s \o t, 1, Len(s)) = SubSeq(s, 1, Len(s))
    BY <2>1, SubSeqOfConcat1
  <2> QED
    BY <2>2, SubSeqFull
<1> QED
  BY <1>1, <1>2

\* Cutting out what is in the middle.
LEMMA MiddleOf ==
    ASSUME NEW S, NEW s \in Seq(S), NEW t \in Seq(S), NEW u \in Seq(S)
    PROVE  SubSeq(s \o (t \o u), Len(s) + 1, Len(s) + Len(t)) = t
<1>1. t \o u \in Seq(S) /\ Len(t \o u) = Len(t) + Len(u)
  BY ConcatProperties
<1>2. Len(s) \in Nat /\ Len(t) \in Nat /\ Len(u) \in Nat
  OBVIOUS
<1>3. CASE Len(t) = 0
  BY <1>2, <1>3, SubSeqEmpty
<1>4. CASE Len(t) # 0
  <2> DEFINE v == t \o u
             l == Len(s)
             m == Len(t)
  <2>1. /\ l + 1 \in (l + 1)..(l + Len(v))
        /\ l + m \in (l + 1)..(l + Len(v))
        /\ (l + 1) - l = 1 /\ (l + m) - l = m
    BY <1>1, <1>2, <1>4
  <2> HIDE DEF v
  <2>2. SubSeq(s \o v, l + 1, l + m) = SubSeq(v, 1, m)
    <3>1. v \in Seq(S)
      BY <1>1 DEF v
    <3>2. SubSeq(s \o v, l + 1, l + m) = SubSeq(v, (l + 1) - l, (l + m) - l)
      BY <2>1, <3>1, SubSeqOfConcat2
    <3> QED
      BY <2>1, <3>2
  <2>3. SubSeq(v, 1, m) = t
    BY FrontOf DEF v
  <2> QED
    BY <2>2, <2>3 DEF v
<1> QED
  BY <1>3, <1>4
-----------------------------------------------------------------------------
(* Numbers of seven bits a byte.                                           *)

LEMMA OctetIsNat == \A b \in Octet : b \in Nat /\ b < 256
  BY DEF Octet

\* The byte at last ends a number.
EndsNumber(d, last) ==
    /\ last \in Nat \ {0} /\ last <= Len(d)
    /\ d[last] < 128
    /\ \A j \in 1..(last - 1) : d[j] >= 128

\* The digits of the number in the first bytes, the highest first.
Septets(d, last) == [i \in 1..last |-> d[last + 1 - i] % 128]

LEMMA PopNumber ==
    ASSUME NEW d \in Seq(Octet), NEW last, EndsNumber(d, last)
    PROVE  /\ PopUleb(d) = [num |-> Number(Septets(d, last), 128),
                            rest |-> Behind(d, last)]
           /\ Septets(d, last) \in Seq(Nat) /\ Len(Septets(d, last)) = last
           /\ \A i \in 1..last : Septets(d, last)[i] = d[last + 1 - i] % 128
<1>1. /\ DOMAIN d = 1..Len(d) /\ last \in 1..Len(d) /\ last \in Nat \ {0}
      /\ d[last] < 128 /\ \A j \in 1..(last - 1) : d[j] >= 128
  BY DEF EndsNumber
<1>2. \A i \in DOMAIN d : d[i] \in Nat
  BY <1>1, ElementOfSeq, OctetIsNat
<1>3. UlebEnd(d) = last
  <2>1. ASSUME NEW i \in DOMAIN d, d[i] < 128,
               \A j \in 1..(i - 1) : d[j] >= 128
        PROVE  i = last
    <3>1. i \in Nat \ {0} /\ d[i] \in Nat /\ d[last] \in Nat
      BY <1>1, <1>2
    <3>2. ~(i \in 1..(last - 1)) /\ ~(last \in 1..(i - 1))
      BY <1>1, <2>1, <3>1
    <3> QED
      BY <1>1, <3>1, <3>2
  <2> QED
    BY <1>1, <2>1 DEF UlebEnd
<1>4. PopUleb(d) = [num |-> Number(Septets(d, last), 128),
                    rest |-> Behind(d, last)]
  BY <1>3 DEF PopUleb, Septets
<1>5. \A i \in 1..last : d[last + 1 - i] % 128 \in Nat
  <2> SUFFICES ASSUME NEW i \in 1..last PROVE d[last + 1 - i] % 128 \in Nat
    OBVIOUS
  <2>1. last + 1 - i \in DOMAIN d
    BY <1>1
  <2> QED
    BY <1>2, <2>1
<1>6. /\ Septets(d, last) \in Seq(Nat) /\ Len(Septets(d, last)) = last
      /\ \A i \in 1..last : Septets(d, last)[i] = d[last + 1 - i] % 128
  BY <1>1, <1>5 DEF Septets
<1> QED
  BY <1>4, <1>6

LEMMA InFront ==
    ASSUME NEW b \in Octet, NEW d \in Seq(Octet)
    PROVE  /\ <<b>> \o d \in Seq(Octet) /\ Len(<<b>> \o d) = Len(d) + 1
           /\ (<<b>> \o d)[1] = b
           /\ \A i \in 1..Len(d) : (<<b>> \o d)[i + 1] = d[i]
<1>1. <<b>> \in Seq(Octet) /\ Len(<<b>>) = 1 /\ <<b>>[1] = b
  OBVIOUS
<1>2. Len(d) \in Nat
  OBVIOUS
<1> DEFINE h == <<b>>
<1> HIDE DEF h
<1>3. /\ h \o d \in Seq(Octet) /\ Len(h \o d) = 1 + Len(d)
      /\ \A i \in 1..(1 + Len(d)) :
             (h \o d)[i] = IF i <= 1 THEN h[i] ELSE d[i - 1]
  BY <1>1, ConcatProperties DEF h
<1>4. (h \o d)[1] = b
  BY <1>1, <1>2, <1>3 DEF h
<1>5. \A i \in 1..Len(d) : (h \o d)[i + 1] = d[i]
  BY <1>2, <1>3
<1> QED
  BY <1>2, <1>3, <1>4, <1>5 DEF h

\* A byte without the top bit is a number.
LEMMA PopLast ==
    ASSUME NEW b \in 0..127, NEW d \in Seq(Octet)
    PROVE  /\ EndsNumber(<<b>> \o d, 1)
           /\ PopUleb(<<b>> \o d) = [num |-> b, rest |-> d]
<1> DEFINE c == <<b>> \o d
           one == 1
           s == Septets(c, one)
<1>1. b \in Octet
  BY DEF Octet
<1>2. c \in Seq(Octet) /\ Len(c) = Len(d) + 1 /\ c[1] = b /\ Len(d) \in Nat
  BY <1>1, InFront
<1>3. Behind(c, one) = d
  <2>1. <<b>> \in Seq(Octet) /\ Len(<<b>>) = 1
    BY <1>1
  <2> QED
    BY <2>1, BehindFirst
<1> HIDE DEF c
<1>4. EndsNumber(c, one)
  BY <1>2 DEF EndsNumber
<1>5. /\ PopUleb(c) = [num |-> Number(s, 128), rest |-> Behind(c, one)]
      /\ s \in Seq(Nat) /\ Len(s) = one
      /\ \A i \in 1..one : s[i] = c[one + 1 - i] % 128
  <2> HIDE DEF one
  <2>1. c \in Seq(Octet)
    BY <1>2
  <2>2. PopUleb(c) = [num |-> Number(Septets(c, one), 128), rest |-> Behind(c, one)]
    BY <1>4, <2>1, PopNumber
  <2>3. Septets(c, one) \in Seq(Nat) /\ Len(Septets(c, one)) = one
    BY <1>4, <2>1, PopNumber
  <2>4. \A i \in 1..one : Septets(c, one)[i] = c[one + 1 - i] % 128
    BY <1>4, <2>1, PopNumber
  <2> QED
    BY <2>2, <2>3, <2>4
<1> HIDE DEF s
<1>6. s = Append(<<>>, b)
  <2>1. s[1] = b
    <3>1. s[1] = c[one + 1 - 1] % 128
      BY <1>5
    <3>2. b % 128 = b
      OBVIOUS
    <3> QED
      BY <1>2, <3>1, <3>2
  <2>2. s = <<b>>
    BY <1>5, <2>1
  <2> QED
    BY <2>2
<1>7. Number(s, 128) = b
  <2>1. Number(Append(<<>>, b), 128) = Number(<<>>, 128) * 128 + b
    <3>1. <<>> \in Seq(Nat) /\ b \in Nat /\ 128 \in Nat
      OBVIOUS
    <3> QED
      BY <3>1, NumberAppend
  <2>2. Number(<<>>, 128) = 0
    BY NumberEmpty
  <2> QED
    BY <1>6, <2>1, <2>2
<1> QED
  BY <1>3, <1>4, <1>5, <1>7 DEF c

\* A byte with the top bit comes before the rest of its number.
LEMMA PopMore ==
    ASSUME NEW b \in 128..255, NEW d \in Seq(Octet), NEW last, EndsNumber(d, last)
    PROVE  /\ EndsNumber(<<b>> \o d, last + 1)
           /\ PopUleb(d).num \in Nat
           /\ PopUleb(<<b>> \o d)
                  = [num |-> PopUleb(d).num * 128 + (b % 128),
                     rest |-> PopUleb(d).rest]
<1> DEFINE c == <<b>> \o d
           s == Septets(d, last)
           t == Septets(c, last + 1)
<1>0. b \in Octet
  BY DEF Octet
<1>1. /\ c \in Seq(Octet) /\ Len(c) = Len(d) + 1 /\ c[1] = b
      /\ Len(d) \in Nat /\ \A i \in 1..Len(d) : c[i + 1] = d[i]
  BY <1>0, InFront
<1> HIDE DEF c
<1>2. /\ last \in Nat \ {0} /\ last <= Len(d)
      /\ d[last] < 128 /\ \A j \in 1..(last - 1) : d[j] >= 128
  BY DEF EndsNumber
<1>3. Behind(c, last + 1) = Behind(d, last)
  <2> DEFINE n == Len(d) - last
             u == Behind(c, last + 1)
             v == Behind(d, last)
  <2>1. last + 1 \in 0..Len(c) /\ last \in 0..Len(d) /\ n = Len(c) - (last + 1)
    BY <1>1, <1>2
  <2>2. /\ u \in Seq(Octet) /\ Len(u) = Len(c) - (last + 1)
        /\ \A i \in 1..(Len(c) - (last + 1)) : u[i] = c[(last + 1) + i]
    BY <1>1, <2>1, BehindTyped
  <2>3. /\ v \in Seq(Octet) /\ Len(v) = n
        /\ \A i \in 1..n : v[i] = d[last + i]
    BY <1>1, <2>1, BehindTyped
  <2> HIDE DEF u, v
  <2>4. ASSUME NEW i \in 1..n PROVE u[i] = v[i]
    <3>1. last + i \in 1..Len(d) /\ (last + 1) + i = (last + i) + 1
      BY <1>1, <1>2
    <3> QED
      BY <1>1, <2>1, <2>2, <2>3, <3>1
  <2>5. Len(u) = n
    BY <2>1, <2>2
  <2> HIDE DEF n
  <2>6. u = v
    BY <2>2, <2>3, <2>4, <2>5, SeqEqual
  <2> QED
    BY <2>6 DEF u, v
<1>4. EndsNumber(c, last + 1)
  <2>1. ASSUME NEW j \in 1..((last + 1) - 1) PROVE c[j] >= 128
    <3>1. CASE j = 1
      BY <1>1, <3>1
    <3>2. CASE j # 1
      <4>1. j - 1 \in 1..(last - 1) /\ j - 1 \in 1..Len(d) /\ (j - 1) + 1 = j
        BY <1>1, <1>2, <3>2
      <4> QED
        BY <1>1, <1>2, <4>1
    <3> QED
      BY <3>1, <3>2
  <2>2. last + 1 \in Nat \ {0} /\ last + 1 <= Len(c) /\ c[last + 1] < 128
    BY <1>1, <1>2
  <2> QED
    BY <2>1, <2>2 DEF EndsNumber
<1>5. /\ PopUleb(d) = [num |-> Number(s, 128), rest |-> Behind(d, last)]
      /\ s \in Seq(Nat) /\ Len(s) = last
      /\ \A i \in 1..last : s[i] = d[last + 1 - i] % 128
  BY PopNumber
<1>6. /\ PopUleb(c) = [num |-> Number(t, 128), rest |-> Behind(c, last + 1)]
      /\ t \in Seq(Nat) /\ Len(t) = last + 1
      /\ \A i \in 1..(last + 1) : t[i] = c[(last + 1) + 1 - i] % 128
  <2> DEFINE m == last + 1
  <2>1. c \in Seq(Octet) /\ EndsNumber(c, m)
    BY <1>1, <1>4
  <2> HIDE DEF m
  <2>2. PopUleb(c) = [num |-> Number(Septets(c, m), 128), rest |-> Behind(c, m)]
    BY <2>1, PopNumber
  <2>3. Septets(c, m) \in Seq(Nat) /\ Len(Septets(c, m)) = m
    BY <2>1, PopNumber
  <2>4. \A i \in 1..m : Septets(c, m)[i] = c[m + 1 - i] % 128
    BY <2>1, PopNumber
  <2> QED
    BY <2>2, <2>3, <2>4 DEF m
<1> HIDE DEF s, t
<1>7. t = Append(s, b % 128)
  <2> DEFINE r == Append(s, b % 128)
  <2>1. b % 128 \in Nat
    OBVIOUS
  <2>2. /\ r \in Seq(Nat) /\ Len(r) = last + 1 /\ r[last + 1] = b % 128
        /\ \A i \in 1..last : r[i] = s[i]
    BY <1>5, <2>1, AppendProperties
  <2> HIDE DEF r
  <2>3. ASSUME NEW i \in 1..(last + 1) PROVE t[i] = r[i]
    <3>1. CASE i = last + 1
      <4>1. (last + 1) + 1 - i = 1 /\ i \in 1..(last + 1)
        BY <1>2, <3>1
      <4> QED
        BY <1>1, <1>6, <2>2, <3>1, <4>1
    <3>2. CASE i # last + 1
      <4>1. /\ i \in 1..last /\ last + 1 - i \in 1..Len(d)
            /\ (last + 1) + 1 - i = (last + 1 - i) + 1
        BY <1>1, <1>2, <3>2
      <4>2. c[(last + 1) + 1 - i] = d[last + 1 - i]
        BY <1>1, <4>1
      <4>3. r[i] = s[i] /\ s[i] = d[last + 1 - i] % 128
        BY <1>5, <2>2, <4>1
      <4> QED
        BY <1>6, <4>2, <4>3
    <3> QED
      BY <3>1, <3>2
  <2>4. t = r
    BY <1>6, <2>2, <2>3, SeqEqual
  <2> QED
    BY <2>4 DEF r
<1>8. /\ Number(s, 128) \in Nat
      /\ Number(t, 128) = Number(s, 128) * 128 + (b % 128)
  <2>1. b % 128 \in Nat /\ 128 \in Nat
    OBVIOUS
  <2> QED
    BY <1>5, <1>7, <2>1, NumberAppend
<1>9. /\ PopUleb(c) = [num |-> Number(s, 128) * 128 + (b % 128),
                       rest |-> Behind(d, last)]
      /\ PopUleb(d).num = Number(s, 128) /\ PopUleb(d).rest = Behind(d, last)
  BY <1>3, <1>5, <1>6, <1>8
<1> QED
  BY <1>4, <1>8, <1>9 DEF c

\* The bytes of all numbers up to n.
PushStep(f, x) ==
    IF x < 128 THEN <<x>> ELSE <<128 + (x % 128)>> \o f[x \div 128]

Pushed(n) == CHOOSE f : f = [x \in 0..n |-> PushStep(f, x)]

LEMMA Septet ==
    ASSUME NEW x \in Nat
    PROVE  /\ x \div 128 \in Nat /\ (x >= 128 => x \div 128 < x)
           /\ 128 + (x % 128) \in 128..255
           /\ (x \div 128) * 128 + ((128 + (x % 128)) % 128) = x
  OBVIOUS

LEMMA PushedSteps ==
    \A n \in Nat : \A x \in 0..n : Pushed(n)[x] = PushStep(Pushed(n), x)
<1> DEFINE Begun(n) == \E f \in [0..n -> Seq(Octet)] :
                           \A x \in 0..n : f[x] = PushStep(f, x)
           T == {n \in Nat : Begun(n)}
<1>1. 0 \in T
  <2> DEFINE f == [x \in 0..0 |-> <<0>>]
  <2>1. f \in [0..0 -> Seq(Octet)]
    BY DEF Octet
  <2>2. \A x \in 0..0 : f[x] = PushStep(f, x)
    BY DEF PushStep
  <2> HIDE DEF f
  <2> QED
    BY <2>1, <2>2
<1>2. ASSUME NEW n \in Nat, Begun(n) PROVE Begun(n + 1)
  <2>1. PICK f \in [0..n -> Seq(Octet)] : \A x \in 0..n : f[x] = PushStep(f, x)
    BY <1>2
  <2> DEFINE m == n + 1
             next == PushStep(f, m)
             g == [x \in 0..m |-> IF x = m THEN next ELSE f[x]]
  <2>2. m \in Nat /\ n < m /\ \A x \in 0..m : x # m => x \in 0..n
    OBVIOUS
  <2>3. \A x \in 0..m : x >= 128 => x \div 128 \in 0..n
    <3> SUFFICES ASSUME NEW x \in 0..m, x >= 128 PROVE x \div 128 \in 0..n
      OBVIOUS
    <3>1. x \div 128 \in Nat /\ x \div 128 < x /\ x <= n + 1
      BY Septet
    <3> QED
      BY <3>1
  <2>4. next \in Seq(Octet)
    <3>1. CASE m < 128
      BY <2>2, <3>1 DEF PushStep, Octet
    <3>2. CASE m >= 128
      <4>1. m \div 128 \in 0..n
        BY <2>2, <2>3, <3>2
      <4> DEFINE t == f[m \div 128]
                 b == 128 + (m % 128)
      <4>2. t \in Seq(Octet)
        BY <4>1
      <4>3. b \in Octet
        BY <2>2, Septet DEF Octet
      <4>4. next = <<b>> \o t
        BY <2>2, <3>2 DEF PushStep
      <4> HIDE DEF t, b, next
      <4> QED
        BY <4>2, <4>3, <4>4, InFront
    <3> QED
      BY <2>2, <3>1, <3>2
  <2> HIDE DEF m
  <2>5. ASSUME NEW x \in 0..m PROVE g[x] = PushStep(g, x)
    <3>1. x >= 128 => g[x \div 128] = f[x \div 128]
      <4> SUFFICES ASSUME x >= 128 PROVE g[x \div 128] = f[x \div 128]
        OBVIOUS
      <4>1. x \div 128 \in 0..n
        BY <2>3
      <4>2. x \div 128 \in 0..m /\ x \div 128 # m
        BY <2>2, <4>1
      <4> QED
        BY <4>2
    <3>2. PushStep(g, x) = PushStep(f, x)
      BY <2>2, <3>1 DEF PushStep
    <3>3. g[x] = PushStep(f, x)
      BY <2>1, <2>2
    <3> QED
      BY <3>2, <3>3
  <2>6. g \in [0..m -> Seq(Octet)]
    <3> HIDE DEF next
    <3> QED
      BY <2>2, <2>4
  <2> HIDE DEF g
  <2> QED
    BY <2>5, <2>6 DEF m
<1>3. T = Nat
  <2>1. T \in SUBSET Nat /\ \A n \in T : n + 1 \in T
    <3> HIDE DEF Begun
    <3> QED
      BY <1>2
  <2> HIDE DEF T
  <2> QED
    BY <1>1, <2>1, Induct
<1>4. ASSUME NEW n \in Nat PROVE \A x \in 0..n : Pushed(n)[x] = PushStep(Pushed(n), x)
  <2>1. Begun(n)
    BY <1>3
  <2>2. PICK f \in [0..n -> Seq(Octet)] : \A x \in 0..n : f[x] = PushStep(f, x)
    BY <2>1
  <2>3. f = [x \in 0..n |-> PushStep(f, x)]
    <3> HIDE DEF PushStep
    <3> QED
      BY <2>2
  <2>4. Pushed(n) = [x \in 0..n |-> PushStep(Pushed(n), x)]
    <3> HIDE DEF PushStep
    <3> QED
      BY <2>3 DEF Pushed
  <2> QED
    BY <2>4
<1> QED
  BY <1>4

\* A number is pushed alike among all bounds.
LEMMA UlebSteps ==
    \A n \in Nat :
        Uleb128(n) = IF n < 128 THEN <<n>>
                                ELSE <<128 + (n % 128)>> \o Uleb128(n \div 128)
<1>1. \A n \in Nat : Uleb128(n) = Pushed(n)[n]
  BY DEF Uleb128, Pushed, PushStep
<1> DEFINE Same(x) == \A n \in Nat : x <= n => Pushed(n)[x] = Pushed(x)[x]
           T == {m \in Nat : \A x \in 0..m : Same(x)}
<1>2. ASSUME NEW x \in Nat, x >= 128 => Same(x \div 128) PROVE Same(x)
  <2> SUFFICES ASSUME NEW n \in Nat, x <= n PROVE Pushed(n)[x] = Pushed(x)[x]
    OBVIOUS
  <2>1. x \in 0..n /\ x \in 0..x
    OBVIOUS
  <2>2. /\ Pushed(n)[x] = PushStep(Pushed(n), x)
        /\ Pushed(x)[x] = PushStep(Pushed(x), x)
    BY <2>1, PushedSteps
  <2>3. x >= 128 => Pushed(n)[x \div 128] = Pushed(x)[x \div 128]
    <3> SUFFICES ASSUME x >= 128
                 PROVE  Pushed(n)[x \div 128] = Pushed(x)[x \div 128]
      OBVIOUS
    <3>1. x \div 128 \in Nat /\ x \div 128 <= n /\ x \div 128 <= x
      BY Septet
    <3> QED
      BY <1>2, <3>1
  <2> QED
    BY <2>2, <2>3 DEF PushStep
<1> HIDE DEF Same
<1>3. 0 \in T
  <2>1. Same(0)
    BY <1>2
  <2> QED
    BY <2>1
<1>4. ASSUME NEW m \in T PROVE m + 1 \in T
  <2>1. ASSUME NEW x \in 0..(m + 1) PROVE Same(x)
    <3>1. x >= 128 => x \div 128 \in 0..m
      <4>1. x \in Nat /\ x <= m + 1
        OBVIOUS
      <4>2. x \div 128 \in Nat /\ (x >= 128 => x \div 128 < x)
        BY <4>1, Septet
      <4> QED
        BY <4>1, <4>2
    <3> QED
      BY <1>2, <3>1
  <2> QED
    BY <2>1
<1>5. T = Nat
  <2>1. T \in SUBSET Nat
    OBVIOUS
  <2> HIDE DEF T
  <2> QED
    BY <1>3, <1>4, <2>1, Induct
<1>6. \A x \in Nat : Same(x)
  BY <1>5
<1> SUFFICES ASSUME NEW n \in Nat
             PROVE  Uleb128(n) = IF n < 128 THEN <<n>>
                                 ELSE <<128 + (n % 128)>> \o Uleb128(n \div 128)
  OBVIOUS
<1>7. Uleb128(n) = PushStep(Pushed(n), n)
  BY <1>1, PushedSteps
<1>8. n >= 128 => Pushed(n)[n \div 128] = Uleb128(n \div 128)
  <2> SUFFICES ASSUME n >= 128
               PROVE  Pushed(n)[n \div 128] = Uleb128(n \div 128)
    OBVIOUS
  <2>1. n \div 128 \in Nat /\ n \div 128 <= n
    BY Septet
  <2>2. Same(n \div 128)
    BY <1>6, <2>1
  <2> QED
    BY <1>1, <2>1, <2>2 DEF Same
<1> QED
  BY <1>7, <1>8 DEF PushStep

\* A number that is pushed is popped, whatever is behind it.
Popped(n) ==
    /\ Uleb128(n) \in Seq(Octet)
    /\ \A d \in Seq(Octet) :
           /\ \E last : EndsNumber(Uleb128(n) \o d, last)
           /\ PopUleb(Uleb128(n) \o d) = [num |-> n, rest |-> d]

LEMMA UlebPopped == \A n \in Nat : Popped(n)
<1> DEFINE T == {m \in Nat : \A n \in 0..m : Popped(n)}
<1>1. ASSUME NEW n \in 0..127 PROVE Popped(n)
  <2>1. Uleb128(n) = <<n>>
    <3>1. n \in Nat /\ n < 128
      OBVIOUS
    <3> QED
      BY <3>1, UlebSteps
  <2>2. <<n>> \in Seq(Octet)
    BY DEF Octet
  <2> QED
    BY <2>1, <2>2, PopLast DEF Popped
<1>2. ASSUME NEW n \in Nat, n >= 128, Popped(n \div 128) PROVE Popped(n)
  <2> DEFINE b == 128 + (n % 128)
             q == n \div 128
             u == Uleb128(q)
  <2>1. Uleb128(n) = <<b>> \o u
    BY <1>2, UlebSteps
  <2>2. b \in 128..255 /\ b \in Octet /\ q * 128 + (b % 128) = n /\ q \in Nat
    BY Septet DEF Octet
  <2>3. u \in Seq(Octet) /\ <<b>> \in Seq(Octet)
    BY <1>2, <2>2 DEF Popped
  <2>4. Popped(q)
    BY <1>2
  <2> HIDE DEF b, q
  <2>5. <<b>> \o u \in Seq(Octet)
    BY <2>2, <2>3, InFront
  <2>6. ASSUME NEW d \in Seq(Octet)
        PROVE  /\ \E last : EndsNumber((<<b>> \o u) \o d, last)
               /\ PopUleb((<<b>> \o u) \o d) = [num |-> n, rest |-> d]
    <3> DEFINE v == u \o d
    <3>1. (<<b>> \o u) \o d = <<b>> \o v
      BY <2>3, ConcatAssociative
    <3>2. v \in Seq(Octet)
      BY <2>3, ConcatProperties
    <3>3. PICK last : EndsNumber(v, last)
      BY <2>4 DEF Popped
    <3>4. PopUleb(v) = [num |-> q, rest |-> d]
      BY <2>4 DEF Popped
    <3> HIDE DEF v
    <3>5. /\ EndsNumber(<<b>> \o v, last + 1)
          /\ PopUleb(<<b>> \o v) = [num |-> PopUleb(v).num * 128 + (b % 128),
                                    rest |-> PopUleb(v).rest]
      BY <2>2, <3>2, <3>3, PopMore
    <3>6. PopUleb(<<b>> \o v) = [num |-> n, rest |-> d]
      BY <2>2, <3>4, <3>5
    <3> QED
      BY <3>1, <3>5, <3>6
  <2> HIDE DEF u
  <2> QED
    BY <2>1, <2>5, <2>6 DEF Popped
<1>3. 0 \in T
  BY <1>1
<1>4. ASSUME NEW m \in T PROVE m + 1 \in T
  <2>1. ASSUME NEW n \in 0..(m + 1) PROVE Popped(n)
    <3>1. CASE n < 128
      BY <1>1, <3>1
    <3>2. CASE n >= 128
      <4>1. n \div 128 \in 0..m
        <5>1. n \in Nat /\ n <= m + 1
          OBVIOUS
        <5>2. n \div 128 \in Nat /\ n \div 128 < n
          BY <3>2, <5>1, Septet
        <5> QED
          BY <5>1, <5>2
      <4> QED
        BY <1>2, <3>2, <4>1
    <3> QED
      BY <3>1, <3>2
  <2> QED
    BY <2>1
<1>5. T = Nat
  <2>1. T \in SUBSET Nat
    OBVIOUS
  <2> HIDE DEF T
  <2> QED
    BY <1>3, <1>4, <2>1, Induct
<1>6. ASSUME NEW n \in Nat PROVE Popped(n)
  <2>1. n \in T
    <3> HIDE DEF T
    <3> QED
      BY <1>5
  <2>2. n \in 0..n
    OBVIOUS
  <2> QED
    BY <2>1, <2>2
<1> QED
  BY <1>6

\* Whatever number is pushed and whatever is behind it, popUleb128 returns
\* the number and stops right behind it.
THEOREM UlebRoundTrip ==
    ASSUME NEW n \in Nat, NEW d \in Seq(Octet)
    PROVE  PopUleb(Uleb128(n) \o d) = [num |-> n, rest |-> d]
  BY UlebPopped DEF Popped

-----------------------------------------------------------------------------
(* The bits of a vector.                                                   *)

LEMMA Parity == \A a \in 0..1, y \in Nat : (a + 2*y) % 2 = a
  OBVIOUS

\* A byte of eight bits, the highest first.
LEMMA ByteOfBits ==
    ASSUME NEW s \in Seq({0, 1}), Len(s) = 8
    PROVE  /\ Number(s, 2) \in Octet
           /\ \A k \in 1..8 : (Number(s, 2) \div Weight(k)) % 2 = s[9 - k]
<1>1. s \in Seq(Nat)
  BY SeqMonotonic
<1> DEFINE l == Len(s)
           two == 2
           byte == Number(s, 2)
<1>2. PICK f \in [0..8 -> Nat] :
          /\ f[0] = 0 /\ byte = f[8]
          /\ \A i \in 1..8 : f[i] = f[i - 1] * 2 + s[i]
  <2>1. two \in Nat
    OBVIOUS
  <2> HIDE DEF l, two
  <2>2. PICK f \in [0..l -> Nat] :
            /\ f[0] = 0 /\ Number(s, two) = f[l]
            /\ \A i \in 1..l : f[i] = f[i - 1] * two + s[i]
    BY <1>1, <2>1, NumberReads DEF l
  <2> QED
    BY <2>2 DEF l, two
<1>3. PICK a1 \in 0..1, a2 \in 0..1, a3 \in 0..1, a4 \in 0..1,
           a5 \in 0..1, a6 \in 0..1, a7 \in 0..1, a8 \in 0..1 :
          /\ s[1] = a1 /\ s[2] = a2 /\ s[3] = a3 /\ s[4] = a4
          /\ s[5] = a5 /\ s[6] = a6 /\ s[7] = a7 /\ s[8] = a8
  <2>1. \A i \in 1..8 : s[i] \in {0, 1}
    BY ElementOfSeq
  <2>2. \A i \in 1..8 : s[i] \in 0..1
    BY <2>1
  <2> QED
    BY <2>2
<1> HIDE DEF byte
<1>4. byte = 128*a1 + 64*a2 + 32*a3 + 16*a4 + 8*a5 + 4*a6 + 2*a7 + a8
  <2>1. /\ f[1] = a1 /\ f[2] = f[1] * 2 + a2
        /\ f[3] = f[2] * 2 + a3 /\ f[4] = f[3] * 2 + a4
        /\ f[5] = f[4] * 2 + a5 /\ f[6] = f[5] * 2 + a6
        /\ f[7] = f[6] * 2 + a7 /\ f[8] = f[7] * 2 + a8
    BY <1>2, <1>3
  <2> QED
    BY <1>2, <2>1
<1>5. /\ byte \in Octet
      /\ (byte \div 1) % 2 = s[8] /\ (byte \div 2) % 2 = s[7]
      /\ (byte \div 4) % 2 = s[6] /\ (byte \div 8) % 2 = s[5]
      /\ (byte \div 16) % 2 = s[4] /\ (byte \div 32) % 2 = s[3]
      /\ (byte \div 64) % 2 = s[2] /\ (byte \div 128) % 2 = s[1]
  <2>0. byte \in Octet
    BY <1>4 DEF Octet
  <2>1. (byte \div 1) % 2 = a8
    <3> DEFINE low == 0
               high == 64*a1 + 32*a2 + 16*a3 + 8*a4 + 4*a5 + 2*a6 + a7
    <3>1. low \in 0..0 /\ high \in Nat /\ byte = low + 1*a8 + 2*high
      BY <1>4
    <3> HIDE DEF low, high
    <3>2. PICK x \in 0..0, y \in Nat : byte = x + 1*a8 + 2*y
      BY <3>1, Zenon
    <3>3. (x + 1*a8 + 2*y) \div 1 = a8 + 2*y
      OBVIOUS
    <3>4. (a8 + 2*y) % 2 = a8
      BY Parity, Zenon
    <3> QED
      BY <3>2, <3>3, <3>4, Zenon
  <2>2. (byte \div 2) % 2 = a7
    <3> DEFINE low == a8
               high == 32*a1 + 16*a2 + 8*a3 + 4*a4 + 2*a5 + a6
    <3>1. low \in 0..1 /\ high \in Nat /\ byte = low + 2*a7 + 4*high
      BY <1>4
    <3> HIDE DEF low, high
    <3>2. PICK x \in 0..1, y \in Nat : byte = x + 2*a7 + 4*y
      BY <3>1, Zenon
    <3>3. (x + 2*a7 + 4*y) \div 2 = a7 + 2*y
      OBVIOUS
    <3>4. (a7 + 2*y) % 2 = a7
      BY Parity, Zenon
    <3> QED
      BY <3>2, <3>3, <3>4, Zenon
  <2>3. (byte \div 4) % 2 = a6
    <3> DEFINE low == 2*a7 + a8
               high == 16*a1 + 8*a2 + 4*a3 + 2*a4 + a5
    <3>1. low \in 0..3 /\ high \in Nat /\ byte = low + 4*a6 + 8*high
      BY <1>4
    <3> HIDE DEF low, high
    <3>2. PICK x \in 0..3, y \in Nat : byte = x + 4*a6 + 8*y
      BY <3>1, Zenon
    <3>3. (x + 4*a6 + 8*y) \div 4 = a6 + 2*y
      OBVIOUS
    <3>4. (a6 + 2*y) % 2 = a6
      BY Parity, Zenon
    <3> QED
      BY <3>2, <3>3, <3>4, Zenon
  <2>4. (byte \div 8) % 2 = a5
    <3> DEFINE low == 4*a6 + 2*a7 + a8
               high == 8*a1 + 4*a2 + 2*a3 + a4
    <3>1. low \in 0..7 /\ high \in Nat /\ byte = low + 8*a5 + 16*high
      BY <1>4
    <3> HIDE DEF low, high
    <3>2. PICK x \in 0..7, y \in Nat : byte = x + 8*a5 + 16*y
      BY <3>1, Zenon
    <3>3. (x + 8*a5 + 16*y) \div 8 = a5 + 2*y
      OBVIOUS
    <3>4. (a5 + 2*y) % 2 = a5
      BY Parity, Zenon
    <3> QED
      BY <3>2, <3>3, <3>4, Zenon
  <2>5. (byte \div 16) % 2 = a4
    <3> DEFINE low == 8*a5 + 4*a6 + 2*a7 + a8
               high == 4*a1 + 2*a2 + a3
    <3>1. low \in 0..15 /\ high \in Nat /\ byte = low + 16*a4 + 32*high
      BY <1>4
    <3> HIDE DEF low, high
    <3>2. PICK x \in 0..15, y \in Nat : byte = x + 16*a4 + 32*y
      BY <3>1, Zenon
    <3>3. (x + 16*a4 + 32*y) \div 16 = a4 + 2*y
      OBVIOUS
    <3>4. (a4 + 2*y) % 2 = a4
      BY Parity, Zenon
    <3> QED
      BY <3>2, <3>3, <3>4, Zenon
  <2>6. (byte \div 32) % 2 = a3
    <3> DEFINE low == 16*a4 + 8*a5 + 4*a6 + 2*a7 + a8
               high == 2*a1 + a2
    <3>1. low \in 0..31 /\ high \in Nat /\ byte = low + 32*a3 + 64*high
      BY <1>4
    <3> HIDE DEF low, high
    <3>2. PICK x \in 0..31, y \in Nat : byte = x + 32*a3 + 64*y
      BY <3>1, Zenon
    <3>3. (x + 32*a3 + 64*y) \div 32 = a3 + 2*y
      OBVIOUS
    <3>4. (a3 + 2*y) % 2 = a3
      BY Parity, Zenon
    <3> QED
      BY <3>2, <3>3, <3>4, Zenon
  <2>7. (byte \div 64) % 2 = a2
    <3> DEFINE low == 32*a3 + 16*a4 + 8*a5 + 4*a6 + 2*a7 + a8
               high == a1
    <3>1. low \in 0..63 /\ high \in Nat /\ byte = low + 64*a2 + 128*high
      BY <1>4
    <3> HIDE DEF low, high
    <3>2. PICK x \in 0..63, y \in Nat : byte = x + 64*a2 + 128*y
      BY <3>1, Zenon
    <3>3. (x + 64*a2 + 128*y) \div 64 = a2 + 2*y
      OBVIOUS
    <3>4. (a2 + 2*y) % 2 = a2
      BY Parity, Zenon
    <3> QED
      BY <3>2, <3>3, <3>4, Zenon
  <2>8. (byte \div 128) % 2 = a1
    <3> DEFINE low == 64*a2 + 32*a3 + 16*a4 + 8*a5 + 4*a6 + 2*a7 + a8
               high == 0
    <3>1. low \in 0..127 /\ high \in Nat /\ byte = low + 128*a1 + 256*high
      BY <1>4
    <3> HIDE DEF low, high
    <3>2. PICK x \in 0..127, y \in Nat : byte = x + 128*a1 + 256*y
      BY <3>1, Zenon
    <3>3. (x + 128*a1 + 256*y) \div 128 = a1 + 2*y
      OBVIOUS
    <3>4. (a1 + 2*y) % 2 = a1
      BY Parity, Zenon
    <3> QED
      BY <3>2, <3>3, <3>4, Zenon
  <2> QED
    BY <1>3, <2>0, <2>1, <2>2, <2>3, <2>4, <2>5, <2>6, <2>7, <2>8
<1>6. /\ Weight(1) = 1 /\ Weight(2) = 2 /\ Weight(3) = 4 /\ Weight(4) = 8
      /\ Weight(5) = 16 /\ Weight(6) = 32 /\ Weight(7) = 64 /\ Weight(8) = 128
  BY DEF Weight
<1>7. ASSUME NEW k \in 1..8 PROVE (byte \div Weight(k)) % 2 = s[9 - k]
  <2>1. \/ k = 1 \/ k = 2 \/ k = 3 \/ k = 4 \/ k = 5 \/ k = 6 \/ k = 7 \/ k = 8
    OBVIOUS
  <2>2. /\ 9 - 1 = 8 /\ 9 - 2 = 7 /\ 9 - 3 = 6 /\ 9 - 4 = 5
        /\ 9 - 5 = 4 /\ 9 - 6 = 3 /\ 9 - 7 = 2 /\ 9 - 8 = 1
    OBVIOUS
  <2>3. CASE k = 1
    BY <1>5, <1>6, <2>2, <2>3
  <2>4. CASE k = 2
    BY <1>5, <1>6, <2>2, <2>4
  <2>5. CASE k = 3
    BY <1>5, <1>6, <2>2, <2>5
  <2>6. CASE k = 4
    BY <1>5, <1>6, <2>2, <2>6
  <2>7. CASE k = 5
    BY <1>5, <1>6, <2>2, <2>7
  <2>8. CASE k = 6
    BY <1>5, <1>6, <2>2, <2>8
  <2>9. CASE k = 7
    BY <1>5, <1>6, <2>2, <2>9
  <2>10. CASE k = 8
    BY <1>5, <1>6, <2>2, <2>10
  <2> QED
    BY <2>1, <2>3, <2>4, <2>5, <2>6, <2>7, <2>8, <2>9, <2>10
<1> QED
  BY <1>5, <1>7 DEF byte

\* Every bit of a vector is read as it was set, whatever is behind it.
LEMMA BitsRead ==
    ASSUME NEW bits \in Seq(BOOLEAN), NEW d \in Seq(Octet)
    PROVE  /\ BitVector(bits) \in Seq(Octet)
           /\ Len(BitVector(bits)) = BitBytes(Len(bits))
           /\ \A i \in 1..Len(bits) : Bit(BitVector(bits) \o d, i) <=> bits[i]
<1> DEFINE n == Len(bits)
           bit(i) == IF i \in DOMAIN bits /\ bits[i] THEN 1 ELSE 0
           byte(j) == [k \in 1..8 |-> bit(8*j + 1 - k)]
           v == BitVector(bits)
<1>1. n \in Nat /\ BitBytes(n) \in Nat /\ DOMAIN bits = 1..n
  BY DEF BitBytes
<1>2. v = [j \in 1..BitBytes(n) |-> Number(byte(j), 2)]
  BY DEF BitVector
<1> HIDE DEF v
<1>3. \A j : /\ byte(j) \in Seq({0, 1}) /\ Len(byte(j)) = 8
             /\ \A k \in 1..8 : byte(j)[k] = bit(8*j + 1 - k)
  OBVIOUS
<1> HIDE DEF byte
<1>4. v \in Seq(Octet) /\ Len(v) = BitBytes(n)
  <2>1. \A j \in 1..BitBytes(n) : Number(byte(j), 2) \in Octet
    BY <1>3, ByteOfBits
  <2> DEFINE m == BitBytes(n)
  <2> HIDE DEF m
  <2> QED
    BY <1>1, <1>2, <2>1 DEF m
<1>5. ASSUME NEW i \in 1..n PROVE Bit(v \o d, i) <=> bits[i]
  <2> DEFINE j == BitBytes(i)
             k == ((i - 1) % 8) + 1
  <2>1. /\ j \in 1..BitBytes(n) /\ k \in 1..8 /\ 9 - k \in 1..8
        /\ 8*j + 1 - (9 - k) = i /\ j \in Nat
    BY <1>1 DEF BitBytes
  <2>2. (v \o d)[j] = v[j]
    BY <1>1, <1>4, <2>1, ConcatProperties
  <2>3. v[j] = Number(byte(j), 2)
    BY <1>2, <2>1
  <2>4. Weight(i) = Weight(k)
    BY <1>1 DEF Weight
  <2>5. byte(j)[9 - k] = bit(i)
    BY <1>3, <2>1
  <2> HIDE DEF j, k
  <2>6. (Number(byte(j), 2) \div Weight(k)) % 2 = byte(j)[9 - k]
    BY <1>3, <2>1, ByteOfBits
  <2>7. bit(i) = 1 <=> bits[i]
    BY <1>1
  <2> QED
    BY <2>2, <2>3, <2>4, <2>5, <2>6, <2>7 DEF Bit, j
<1> QED
  BY <1>4, <1>5 DEF v

-----------------------------------------------------------------------------
(* Sequences one behind the other.                                         *)

\* What is joined up to one.
LEMMA FlattenReads ==
    ASSUME NEW S, NEW s \in Seq(Seq(S))
    PROVE  \E f \in [0..Len(s) -> Seq(S)] :
               /\ f[0] = <<>> /\ FlattenSeq(s) = f[Len(s)]
               /\ \A i \in 1..Len(s) : f[i] = f[i - 1] \o s[i]
<1> DEFINE l == Len(s)
           Begun(n) == \E f \in [0..n -> Seq(S)] :
                           /\ f[0] = <<>>
                           /\ \A i \in 1..n : f[i] = f[i - 1] \o s[i]
<1>1. l \in Nat /\ \A i \in 1..l : s[i] \in Seq(S)
  BY ElementOfSeq
<1>2. FlattenSeq(s) =
          IF l = 0 THEN s
          ELSE (CHOOSE f : f = [i \in 1..l |->
                                   IF i = 1 THEN s[i] ELSE f[i - 1] \o s[i]])[l]
  BY DEF FlattenSeq
<1>3. l = 0 => s = <<>>
  BY EmptySeq
<1> HIDE DEF l
<1>4. Begun(l)
  <2> DEFINE T == {n \in Nat : n <= l => Begun(n)}
  <2>1. Begun(0)
    <3> DEFINE f == [i \in 0..0 |-> <<>>]
    <3>1. f \in [0..0 -> Seq(S)] /\ f[0] = <<>>
      OBVIOUS
    <3> HIDE DEF f
    <3> QED
      BY <3>1
  <2>2. ASSUME NEW n \in Nat, n + 1 <= l, Begun(n) PROVE Begun(n + 1)
    <3>1. PICK f \in [0..n -> Seq(S)] :
              f[0] = <<>> /\ \A i \in 1..n : f[i] = f[i - 1] \o s[i]
      BY <2>2
    <3> DEFINE m == n + 1
               next == f[n] \o s[m]
               g == [i \in 0..m |-> IF i = m THEN next ELSE f[i]]
    <3>2. /\ m \in Nat /\ n < m /\ m \in 1..l /\ m - 1 = n /\ 0 \in 0..m /\ m # 0
          /\ \A i \in 0..m : i # m => i \in 0..n
          /\ \A i \in 1..m : i - 1 \in 0..m /\ i - 1 # m /\ (i # m => i \in 1..n)
      BY <1>1, <2>2
    <3>3. next \in Seq(S)
      <4>1. f[n] \in Seq(S) /\ s[m] \in Seq(S)
        BY <1>1, <3>2
      <4> QED
        BY <4>1, ConcatProperties
    <3> HIDE DEF m
    <3>4. g[0] = <<>>
      BY <3>1, <3>2
    <3>5. ASSUME NEW i \in 1..m PROVE g[i] = g[i - 1] \o s[i]
      <4>1. g[i - 1] = f[i - 1]
        BY <3>2
      <4>2. CASE i = m
        <5>1. g[i] = next /\ i - 1 = n
          BY <3>2, <4>2
        <5> QED
          BY <4>1, <4>2, <5>1
      <4>3. CASE i # m
        <5>1. i \in 1..n /\ i \in 0..m
          BY <3>2, <4>3
        <5> QED
          BY <3>1, <4>1, <4>3, <5>1
      <4> QED
        BY <4>2, <4>3
    <3>6. g \in [0..m -> Seq(S)]
      <4> HIDE DEF next
      <4> QED
        BY <3>2, <3>3
    <3> HIDE DEF g
    <3> QED
      BY <3>4, <3>5, <3>6 DEF m
  <2> HIDE DEF Begun
  <2>3. 0 \in T /\ T \in SUBSET Nat
    BY <2>1
  <2>4. ASSUME NEW n \in T PROVE n + 1 \in T
    <3>1. n \in Nat /\ n + 1 \in Nat /\ (n + 1 <= l => n <= l)
      BY <1>1
    <3>2. n <= l => Begun(n)
      OBVIOUS
    <3>3. n + 1 <= l => Begun(n + 1)
      BY <2>2, <3>1, <3>2
    <3> QED
      BY <3>1, <3>3
  <2>5. T = Nat
    <3> HIDE DEF T
    <3> QED
      BY <2>3, <2>4, Induct
  <2>6. l \in T /\ l <= l
    <3> HIDE DEF T
    <3> QED
      BY <1>1, <2>5
  <2>7. l <= l => Begun(l)
    BY <2>6
  <2> QED
    BY <2>6, <2>7
<1>5. PICK f \in [0..l -> Seq(S)] :
          f[0] = <<>> /\ \A i \in 1..l : f[i] = f[i - 1] \o s[i]
  BY <1>4
<1>6. CASE l = 0
  BY <1>2, <1>3, <1>5, <1>6 DEF l
<1>7. CASE l # 0
  <2> DEFINE Step(h, i) == IF i = 1 THEN s[i] ELSE h[i - 1] \o s[i]
             c == CHOOSE h : h = [i \in 1..l |-> Step(h, i)]
             g == [i \in 1..l |-> f[i]]
  <2>1. \A i \in 1..l : f[i] = Step(g, i)
    <3> SUFFICES ASSUME NEW i \in 1..l PROVE f[i] = Step(g, i)
      OBVIOUS
    <3>1. CASE i = 1
      <4>0. 1 \in 1..l /\ 1 - 1 = 0
        BY <1>1, <1>7
      <4>1. f[1] = <<>> \o s[1] /\ s[1] \in Seq(S)
        BY <1>1, <1>5, <4>0
      <4>2. <<>> \o s[1] = s[1]
        BY <4>1, ConcatEmptySeq
      <4> QED
        BY <3>1, <4>1, <4>2
    <3>2. CASE i # 1
      <4>1. i - 1 \in 1..l
        BY <1>1, <3>2
      <4> QED
        BY <1>5, <3>2, <4>1
    <3> QED
      BY <3>1, <3>2
  <2>2. g = [i \in 1..l |-> Step(g, i)]
    BY <2>1
  <2>3. c = [i \in 1..l |-> Step(c, i)]
    <3> HIDE DEF g, Step
    <3> QED
      BY <2>2
  <2>4. FlattenSeq(s) = c[l]
    BY <1>2, <1>7
  <2> HIDE DEF c
  <2>5. \A i \in 1..l : c[i] = Step(c, i)
    BY <2>3
  <2>6. \A i \in 1..l : g[i] = Step(g, i)
    BY <2>2
  <2> DEFINE T == {i \in 0..l : i # 0 => c[i] = f[i]}
  <2>7. 0 \in T
    BY <1>1
  <2>8. ASSUME NEW i \in 0..(l - 1), i \in T PROVE i + 1 \in T
    <3>1. i + 1 \in 1..l /\ i + 1 # 0 /\ (i + 1) - 1 = i /\ i + 1 \in 0..l
      BY <1>1
    <3>2. c[i + 1] = Step(c, i + 1) /\ f[i + 1] = Step(g, i + 1)
      BY <2>1, <2>5, <3>1
    <3>3. i # 0 => c[i] = f[i] /\ g[i] = f[i]
      BY <2>8
    <3>4. Step(c, i + 1) = Step(g, i + 1)
      <4>1. CASE i = 0
        BY <4>1
      <4>2. CASE i # 0
        BY <3>1, <3>3, <4>2
      <4> QED
        BY <4>1, <4>2
    <3> QED
      BY <3>1, <3>2, <3>4
  <2>9. 0..l \subseteq T
    <3> HIDE DEF T
    <3> QED
      BY <1>1, <2>7, <2>8, InductTo
  <2>10. c[l] = f[l]
    BY <1>1, <1>7, <2>9
  <2> QED
    BY <1>5, <2>4, <2>10 DEF l
<1> QED
  BY <1>6, <1>7

\* Where each of them is, whatever is behind the last.
Laid(s, w, off) ==
    /\ off[0] = 0
    /\ \A i \in 1..Len(s) :
           /\ off[i] = off[i - 1] + Len(s[i])
           /\ SubSeq(w, off[i - 1] + 1, off[i]) = s[i]
           /\ Behind(w, off[i - 1]) = s[i] \o Behind(w, off[i])

LEMMA Pieces ==
    ASSUME NEW S, NEW s \in Seq(Seq(S)), NEW d \in Seq(S)
    PROVE  /\ FlattenSeq(s) \in Seq(S)
           /\ \E off \in [0..Len(s) -> Nat] :
                  /\ Laid(s, FlattenSeq(s) \o d, off)
                  /\ off[Len(s)] = Len(FlattenSeq(s))
                  /\ \A i \in 0..Len(s) :
                         Behind(FlattenSeq(s) \o d, off[i]) \in Seq(S)
<1> DEFINE l == Len(s)
           w == FlattenSeq(s) \o d
<1>0. \A p, q, t \in Seq(S) : (p \o q) \o t = p \o (q \o t)
  BY ConcatAssociative
<1>1. l \in Nat /\ \A i \in 1..l : s[i] \in Seq(S)
  BY ElementOfSeq
<1>2. PICK f \in [0..l -> Seq(S)] :
          /\ f[0] = <<>> /\ FlattenSeq(s) = f[l]
          /\ \A i \in 1..l : f[i] = f[i - 1] \o s[i]
  BY FlattenReads
<1> HIDE DEF l
<1> DEFINE T == {i \in 0..l : \E t \in Seq(S) : w = f[l - i] \o t}
           off == [i \in 0..l |-> Len(f[i])]
<1>3. 0..l \subseteq T
  <2>1. 0 \in T
    <3>1. l - 0 = l /\ 0 \in 0..l /\ w = f[l] \o d
      BY <1>1, <1>2
    <3> HIDE DEF w
    <3> QED
      BY <3>1
  <2>2. ASSUME NEW i \in 0..(l - 1), i \in T PROVE i + 1 \in T
    <3> DEFINE j == l - i
    <3>1. /\ j \in 1..l /\ j - 1 \in 0..l /\ j \in 0..l
          /\ l - (i + 1) = j - 1 /\ i + 1 \in 0..l
      BY <1>1
    <3>2. PICK t \in Seq(S) : w = f[j] \o t
      BY <2>2
    <3> HIDE DEF j
    <3>3. f[j] = f[j - 1] \o s[j] /\ f[j - 1] \in Seq(S) /\ s[j] \in Seq(S)
      BY <1>1, <1>2, <3>1
    <3> HIDE DEF w
    <3> DEFINE p == f[j - 1]
               q == s[j]
    <3>4. p \in Seq(S) /\ q \in Seq(S) /\ w = (p \o q) \o t
      BY <3>2, <3>3
    <3> HIDE DEF p, q
    <3>5. w = p \o (q \o t)
      <4>1. (p \o q) \o t = p \o (q \o t)
        BY <1>0, <3>4
      <4> QED
        BY <3>4, <4>1
    <3>6. q \o t \in Seq(S)
      BY <3>4, ConcatProperties
    <3> QED
      BY <3>1, <3>5, <3>6 DEF p, q
  <2> HIDE DEF T
  <2> QED
    BY <1>1, <2>1, <2>2, InductTo
<1>4. ASSUME NEW i \in 0..l PROVE \E t \in Seq(S) : w = f[i] \o t
  <2>1. l - i \in 0..l /\ l - (l - i) = i
    BY <1>1
  <2>2. l - i \in T
    <3> HIDE DEF T
    <3> QED
      BY <1>3, <2>1
  <2> HIDE DEF w
  <2>3. \E t \in Seq(S) : w = f[l - (l - i)] \o t
    BY <2>2
  <2> QED
    BY <2>1, <2>3
<1> HIDE DEF w, T
<1>5. \A i \in 0..l : f[i] \in Seq(S) /\ Len(f[i]) \in Nat
  <2>1. \A i \in 0..l : f[i] \in Seq(S)
    OBVIOUS
  <2> QED
    BY <2>1, LenProperties
<1>6. off \in [0..l -> Nat] /\ \A i \in 0..l : off[i] = Len(f[i])
  BY <1>5
<1> HIDE DEF off
<1>7. ASSUME NEW i \in 0..l PROVE Behind(w, off[i]) \in Seq(S)
  <2>1. PICK t \in Seq(S) : w = f[i] \o t
    BY <1>4
  <2>2. Behind(w, off[i]) = t
    BY <1>5, <1>6, <2>1, BehindFirst
  <2> QED
    BY <2>2
<1>8. ASSUME NEW i \in 1..l
      PROVE  /\ off[i] = off[i - 1] + Len(s[i])
             /\ SubSeq(w, off[i - 1] + 1, off[i]) = s[i]
             /\ Behind(w, off[i - 1]) = s[i] \o Behind(w, off[i])
  <2> DEFINE p == f[i - 1]
             q == s[i]
  <2>1. i \in 0..l /\ i - 1 \in 0..l
    BY <1>1
  <2>2. PICK t \in Seq(S) : w = f[i] \o t
    BY <1>4, <2>1
  <2>3. /\ p \in Seq(S) /\ q \in Seq(S) /\ f[i] = p \o q /\ f[i] \in Seq(S)
        /\ off[i] = Len(p \o q) /\ off[i - 1] = Len(p)
    BY <1>1, <1>2, <1>5, <1>6, <2>1
  <2>4. Behind(w, off[i]) = t
    BY <1>6, <2>1, <2>2, <2>3, BehindFirst
  <2> HIDE DEF p, q
  <2>5. Len(p \o q) = Len(p) + Len(q)
    BY <2>3, ConcatProperties
  <2>6. w = p \o (q \o t) /\ q \o t \in Seq(S)
    <3>1. w = (p \o q) \o t
      BY <2>2, <2>3
    <3>2. (p \o q) \o t = p \o (q \o t)
      BY <1>0, <2>3
    <3>3. q \o t \in Seq(S)
      BY <2>3, ConcatProperties
    <3> QED
      BY <3>1, <3>2, <3>3
  <2>7. Behind(w, Len(p)) = q \o t
    BY <2>3, <2>6, BehindFirst
  <2>8. SubSeq(w, Len(p) + 1, Len(p) + Len(q)) = q
    BY <2>3, <2>6, MiddleOf
  <2>9. /\ off[i] = Len(p) + Len(q) /\ off[i - 1] = Len(p)
    BY <2>3, <2>5
  <2> QED
    BY <2>4, <2>7, <2>8, <2>9 DEF p, q
<1>9. off[0] = 0
  BY <1>1, <1>2, <1>6
<1>10. Laid(s, w, off)
  BY <1>8, <1>9 DEF Laid, l
<1>11. off[l] = Len(FlattenSeq(s)) /\ FlattenSeq(s) \in Seq(S)
  BY <1>1, <1>2, <1>6
<1> QED
  BY <1>6, <1>7, <1>10, <1>11 DEF l, w

-----------------------------------------------------------------------------
(* The parts of a container.                                               *)

Runs(parts) == [i \in DOMAIN parts |-> IF parts[i] = Null THEN <<>> ELSE parts[i]]

Sizes(parts) == [i \in DOMAIN parts |-> IF parts[i] = Null THEN 0 ELSE Len(parts[i])]

SizeBytes(parts) ==
    [i \in DOMAIN parts |->
        IF parts[i] = Null THEN <<>> ELSE Uleb128(Len(parts[i]))]

Parts == Seq(Seq(Octet) \cup {Null})

LEMMA PartsTyped ==
    ASSUME NEW parts \in Parts
    PROVE  /\ DOMAIN parts = 1..Len(parts) /\ Len(parts) \in Nat
           /\ \A i \in DOMAIN parts : parts[i] # Null => parts[i] \in Seq(Octet)
           /\ Runs(parts) \in Seq(Seq(Octet)) /\ Len(Runs(parts)) = Len(parts)
           /\ Sizes(parts) \in Seq(Nat) /\ Len(Sizes(parts)) = Len(parts)
           /\ SizeBytes(parts) \in Seq(Seq(Octet))
           /\ Len(SizeBytes(parts)) = Len(parts)
<1> DEFINE n == Len(parts)
<1>1. DOMAIN parts = 1..n /\ n \in Nat
  BY DEF Parts
<1>2. \A i \in 1..n : parts[i] \in Seq(Octet) \cup {Null}
  BY <1>1, ElementOfSeq DEF Parts
<1> HIDE DEF n
<1>3. \A i \in 1..n : parts[i] # Null =>
          Uleb128(Len(parts[i])) \in Seq(Octet) /\ Len(parts[i]) \in Nat
  <2> SUFFICES ASSUME NEW i \in 1..n, parts[i] # Null
               PROVE  Uleb128(Len(parts[i])) \in Seq(Octet) /\ Len(parts[i]) \in Nat
    OBVIOUS
  <2>1. Len(parts[i]) \in Nat
    BY <1>2, LenProperties
  <2> QED
    BY <2>1, UlebPopped DEF Popped
<1>4. <<>> \in Seq(Octet) /\ 0 \in Nat
  OBVIOUS
<1>5. Runs(parts) \in Seq(Seq(Octet)) /\ Len(Runs(parts)) = n
  <2>1. Runs(parts) \in [1..n -> Seq(Octet)]
    BY <1>1, <1>2, <1>4 DEF Runs
  <2> QED
    BY <1>1, <2>1
<1>6. Sizes(parts) \in Seq(Nat) /\ Len(Sizes(parts)) = n
  <2>1. Sizes(parts) \in [1..n -> Nat]
    BY <1>1, <1>3, <1>4 DEF Sizes
  <2> QED
    BY <1>1, <2>1
<1>7. SizeBytes(parts) \in Seq(Seq(Octet)) /\ Len(SizeBytes(parts)) = n
  <2>1. SizeBytes(parts) \in [1..n -> Seq(Octet)]
    BY <1>1, <1>3, <1>4 DEF SizeBytes
  <2> QED
    BY <1>1, <2>1
<1> QED
  BY <1>1, <1>2, <1>5, <1>6, <1>7 DEF n

\* What is cut out between offsets that add up the sizes.
LEMMA SlicesRead ==
    ASSUME NEW sizes \in Seq(Nat), NEW d, NEW off \in [0..Len(sizes) -> Nat],
           off[0] = 0, \A i \in 1..Len(sizes) : off[i] = off[i - 1] + sizes[i]
    PROVE  Slices(sizes, d) =
               [i \in 1..Len(sizes) |-> SubSeq(d, off[i - 1] + 1, off[i])]
<1> DEFINE n == Len(sizes)
           Step(f, i) == IF i = 0 THEN 0 ELSE f[i - 1] + sizes[i]
           c == CHOOSE f : f = [i \in 0..n |-> Step(f, i)]
<1>1. n \in Nat /\ DOMAIN sizes = 1..n
  OBVIOUS
<1>2. Slices(sizes, d) = [i \in 1..n |-> SubSeq(d, c[i - 1] + 1, c[i])]
  BY <1>1 DEF Slices
<1> HIDE DEF n
<1>3. off = [i \in 0..n |-> Step(off, i)]
  <2>1. \A i \in 0..n : off[i] = Step(off, i)
    BY <1>1 DEF n
  <2>2. off = [i \in 0..n |-> off[i]]
    BY DEF n
  <2> HIDE DEF Step
  <2> QED
    BY <2>1, <2>2
<1>4. c = [i \in 0..n |-> Step(c, i)]
  <2> HIDE DEF Step
  <2> QED
    BY <1>3
<1> HIDE DEF c
<1>5. \A i \in 0..n : c[i] = Step(c, i)
  BY <1>4
<1>6. \A i \in 0..n : off[i] = Step(off, i)
  BY <1>3
<1> DEFINE T == {i \in 0..n : c[i] = off[i]}
<1>7. 0..n \subseteq T
  <2>1. 0 \in T
    BY <1>1, <1>5, <1>6
  <2>2. ASSUME NEW i \in 0..(n - 1), i \in T PROVE i + 1 \in T
    <3>1. i + 1 \in 0..n /\ i + 1 # 0 /\ (i + 1) - 1 = i
      BY <1>1
    <3>2. c[i + 1] = c[i] + sizes[i + 1] /\ off[i + 1] = off[i] + sizes[i + 1]
      BY <1>5, <1>6, <3>1
    <3> QED
      BY <2>2, <3>1, <3>2
  <2> HIDE DEF T
  <2> QED
    BY <1>1, <2>1, <2>2, InductTo
<1>8. \A i \in 1..n : c[i] = off[i] /\ c[i - 1] = off[i - 1]
  <2> SUFFICES ASSUME NEW i \in 1..n PROVE c[i] = off[i] /\ c[i - 1] = off[i - 1]
    OBVIOUS
  <2>1. i \in 0..n /\ i - 1 \in 0..n
    BY <1>1
  <2> QED
    BY <1>7, <2>1
<1> QED
  BY <1>2, <1>8 DEF n

\* Parts that are joined are cut out again.
LEMMA JoinedSlices ==
    ASSUME NEW parts \in Parts
    PROVE  /\ Joined(parts) \in Seq(Octet)
           /\ Slices(Sizes(parts), Joined(parts)) = Runs(parts)
<1> DEFINE s == Runs(parts)
           sizes == Sizes(parts)
           n == Len(parts)
           e == <<>>
           j == Joined(parts)
<1>1. /\ DOMAIN parts = 1..n /\ n \in Nat
      /\ s \in Seq(Seq(Octet)) /\ Len(s) = n
      /\ sizes \in Seq(Nat) /\ Len(sizes) = n
  BY PartsTyped
<1>2. j = FlattenSeq(s)
  BY DEF Joined, Runs
<1>3. \A i \in 1..n : sizes[i] = Len(s[i])
  BY <1>1 DEF Sizes, Runs
<1>4. s = [i \in 1..n |-> s[i]]
  BY <1>1
<1>5. e \in Seq(Octet)
  OBVIOUS
<1> HIDE DEF s, sizes, n, j, e
<1>6. /\ j \in Seq(Octet)
      /\ \E off \in [0..Len(s) -> Nat] : Laid(s, j \o e, off)
  BY <1>1, <1>2, <1>5, Pieces
<1>7. j \o e = j
  BY <1>6, ConcatEmptySeq DEF e
<1>8. PICK off \in [0..n -> Nat] : Laid(s, j, off)
  BY <1>1, <1>6, <1>7
<1>9. off[0] = 0 /\ \A i \in 1..n : off[i] = off[i - 1] + sizes[i]
  BY <1>1, <1>3, <1>8 DEF Laid
<1>10. Slices(sizes, j) = [i \in 1..n |-> SubSeq(j, off[i - 1] + 1, off[i])]
  <2> DEFINE m == Len(sizes)
  <2>1. m = n
    BY <1>1
  <2> HIDE DEF m
  <2>2. off \in [0..m -> Nat] /\ \A i \in 1..m : off[i] = off[i - 1] + sizes[i]
    BY <1>9, <2>1
  <2>3. Slices(sizes, j) = [i \in 1..m |-> SubSeq(j, off[i - 1] + 1, off[i])]
    BY <1>1, <1>9, <2>2, SlicesRead DEF m
  <2> QED
    BY <2>1, <2>3
<1>11. \A i \in 1..n : SubSeq(j, off[i - 1] + 1, off[i]) = s[i]
  BY <1>1, <1>8 DEF Laid
<1>12. Slices(sizes, j) = s
  BY <1>4, <1>10, <1>11
<1> QED
  BY <1>6, <1>12 DEF j, s, sizes

LEMMA FrontGrows ==
    ASSUME NEW S, NEW s \in Seq(S), NEW i \in 1..Len(s)
    PROVE  Append(SubSeq(s, 1, i - 1), s[i]) = SubSeq(s, 1, i)
<1> DEFINE one == 1
           u == SubSeq(s, one, i - 1)
<1>1. one \in 1..Len(s) /\ i \in one..Len(s) /\ i \in Nat /\ s[i] \in S
  OBVIOUS
<1>2. u \in Seq(S)
  <2>1. \A j \in one..(i - 1) : s[j] \in S
    OBVIOUS
  <2>2. one \in Int /\ i - 1 \in Int
    BY <1>1
  <2> HIDE DEF one
  <2> QED
    BY <2>1, <2>2, SubSeqProperties
<1> HIDE DEF one
<1>3. SubSeq(s, one, i) = u \o <<s[i]>>
  BY <1>1, SubSeqRecursiveSecond
<1>4. Append(u, s[i]) = u \o <<s[i]>>
  <2> HIDE DEF u
  <2> QED
    BY <1>1, <1>2, AppendIsConcat
<1> QED
  BY <1>3, <1>4 DEF one

\* The sizes of parts are popped, with 0 for those that are null.
LEMMA SizesPopped ==
    ASSUME NEW parts \in Parts, NEW d \in Seq(Octet),
           NEW nulls, Len(nulls) = Len(parts),
           \A i \in 1..Len(parts) : nulls[i] <=> parts[i] = Null
    PROVE  /\ Lengths(parts) \in Seq(Octet)
           /\ PopSizes(Lengths(parts) \o d, nulls) =
                  [sizes |-> Sizes(parts), rest |-> d]
<1> DEFINE n == Len(parts)
           s == SizeBytes(parts)
           sizes == Sizes(parts)
           w == Lengths(parts) \o d
           SizeOf(p, null) == IF null THEN [num |-> 0, rest |-> p.rest]
                                    ELSE PopUleb(p.rest)
           More(p, next) == [sizes |-> Append(p.sizes, next.num), rest |-> next.rest]
           Step(f, i) == IF i = 0 THEN [sizes |-> <<>>, rest |-> w]
                         ELSE More(f[i - 1], SizeOf(f[i - 1], nulls[i]))
           c == CHOOSE f : f = [i \in 0..n |-> Step(f, i)]
<1>1. PopSizes(w, nulls) = c[n]
  BY DEF PopSizes
<1>2. /\ DOMAIN parts = 1..n /\ n \in Nat
      /\ s \in Seq(Seq(Octet)) /\ Len(s) = n
      /\ sizes \in Seq(Nat) /\ Len(sizes) = n
      /\ \A i \in 1..n : parts[i] # Null => parts[i] \in Seq(Octet)
  BY PartsTyped
<1>3. Lengths(parts) = FlattenSeq(s)
  BY DEF Lengths, SizeBytes
<1>4. ASSUME NEW i \in 1..n
      PROVE  /\ nulls[i] => s[i] = <<>> /\ sizes[i] = 0
             /\ ~nulls[i] => /\ s[i] = Uleb128(Len(parts[i]))
                             /\ sizes[i] = Len(parts[i]) /\ Len(parts[i]) \in Nat
  <2>1. parts[i] # Null => Len(parts[i]) \in Nat
    BY <1>2, LenProperties
  <2>2. nulls[i] <=> parts[i] = Null
    OBVIOUS
  <2> QED
    BY <1>2, <2>1, <2>2 DEF SizeBytes, Sizes
<1> HIDE DEF n, s, sizes, c
<1>5. /\ Lengths(parts) \in Seq(Octet)
      /\ \E off \in [0..Len(s) -> Nat] :
             /\ Laid(s, w, off) /\ off[Len(s)] = Len(Lengths(parts))
             /\ \A i \in 0..Len(s) : Behind(w, off[i]) \in Seq(Octet)
  <2>1. /\ FlattenSeq(s) \in Seq(Octet)
        /\ \E off \in [0..Len(s) -> Nat] :
               /\ Laid(s, FlattenSeq(s) \o d, off)
               /\ off[Len(s)] = Len(FlattenSeq(s))
               /\ \A i \in 0..Len(s) :
                      Behind(FlattenSeq(s) \o d, off[i]) \in Seq(Octet)
    BY <1>2, Pieces
  <2> QED
    BY <1>3, <2>1
<1>6. PICK off \in [0..n -> Nat] :
          /\ Laid(s, w, off) /\ off[n] = Len(Lengths(parts))
          /\ \A i \in 0..n : Behind(w, off[i]) \in Seq(Octet)
  BY <1>2, <1>5
<1>7. Behind(w, off[n]) = d /\ w \in Seq(Octet)
  BY <1>5, <1>6, BehindFirst, ConcatProperties
<1>8. off[0] = 0 /\ \A i \in 1..n : Behind(w, off[i - 1]) = s[i] \o Behind(w, off[i])
  BY <1>2, <1>6 DEF Laid
<1>9. Behind(w, 0) = w
  BY <1>7, SubSeqFull DEF Behind
<1> HIDE DEF w
<1> DEFINE g == [i \in 0..n |-> [sizes |-> SubSeq(sizes, 1, i),
                                 rest |-> Behind(w, off[i])]]
<1>10. \A i \in 0..n : /\ g[i].sizes = SubSeq(sizes, 1, i)
                       /\ g[i].rest = Behind(w, off[i])
                       /\ g[i] = [sizes |-> SubSeq(sizes, 1, i),
                                  rest |-> Behind(w, off[i])]
  OBVIOUS
<1> HIDE DEF g
<1>11. ASSUME NEW i \in 0..n PROVE g[i] = Step(g, i)
  <2>1. CASE i = 0
    <3>1. SubSeq(sizes, 1, 0) = <<>>
      BY SubSeqEmpty
    <3> QED
      BY <1>2, <1>8, <1>9, <1>10, <2>1, <3>1
  <2>2. CASE i # 0
    <3> DEFINE p == g[i - 1]
               b == Behind(w, off[i])
    <3>1. i \in 1..n /\ i - 1 \in 0..n /\ i \in 1..Len(sizes)
      BY <1>2, <2>2
    <3>2. /\ p.sizes = SubSeq(sizes, 1, i - 1) /\ p.rest = s[i] \o b
          /\ b \in Seq(Octet)
      BY <1>6, <1>8, <1>10, <3>1
    <3>3. Append(SubSeq(sizes, 1, i - 1), sizes[i]) = SubSeq(sizes, 1, i)
      BY <1>2, <3>1, FrontGrows
    <3> HIDE DEF b, p
    <3>4. SizeOf(p, nulls[i]) = [num |-> sizes[i], rest |-> b]
      <4>1. CASE nulls[i]
        <5>1. sizes[i] = 0 /\ p.rest = <<>> \o b
          BY <1>4, <3>1, <3>2, <4>1
        <5>2. p.rest = b
          BY <3>2, <5>1, ConcatEmptySeq
        <5> QED
          BY <4>1, <5>1, <5>2
      <4>2. CASE ~nulls[i]
        <5> DEFINE m == Len(parts[i])
        <5>1. m \in Nat /\ p.rest = Uleb128(m) \o b /\ sizes[i] = m
          BY <1>4, <3>1, <3>2, <4>2
        <5> HIDE DEF m
        <5>2. PopUleb(p.rest) = [num |-> m, rest |-> b]
          BY <3>2, <5>1, UlebRoundTrip
        <5> QED
          BY <4>2, <5>1, <5>2
      <4> QED
        BY <4>1, <4>2
    <3> HIDE DEF SizeOf
    <3>5. More(p, SizeOf(p, nulls[i])) = [sizes |-> SubSeq(sizes, 1, i), rest |-> b]
      <4> DEFINE x == SizeOf(p, nulls[i])
      <4>1. x.num = sizes[i] /\ x.rest = b
        BY <3>4
      <4> HIDE DEF x
      <4>2. More(p, x) = [sizes |-> SubSeq(sizes, 1, i), rest |-> b]
        BY <3>2, <3>3, <4>1
      <4> QED
        BY <4>2 DEF x
    <3>6. Step(g, i) = More(p, SizeOf(p, nulls[i]))
      BY <2>2 DEF p
    <3> HIDE DEF Step, More
    <3>7. g[i] = [sizes |-> SubSeq(sizes, 1, i), rest |-> b]
      BY <1>10 DEF b
    <3> QED
      BY <3>5, <3>6, <3>7
  <2> QED
    BY <2>1, <2>2
<1>12. g = [i \in 0..n |-> Step(g, i)]
  <2>1. g = [i \in 0..n |-> g[i]]
    BY DEF g
  <2> HIDE DEF Step
  <2> QED
    BY <1>11, <2>1
<1>13. c = [i \in 0..n |-> Step(c, i)]
  <2> HIDE DEF Step
  <2> QED
    BY <1>12 DEF c
<1> HIDE DEF SizeOf, More
<1> DEFINE T == {i \in 0..n : c[i] = g[i]}
<1>14. 0..n \subseteq T
  <2>0. \A i \in 0..n : c[i] = Step(c, i)
    <3> HIDE DEF Step
    <3> QED
      BY <1>13
  <2>1. 0 \in T
    <3>1. 0 \in 0..n /\ c[0] = Step(c, 0) /\ g[0] = Step(g, 0)
      BY <1>2, <1>11, <2>0
    <3> QED
      BY <3>1
  <2>2. ASSUME NEW i \in 0..(n - 1), i \in T PROVE i + 1 \in T
    <3>1. i + 1 \in 0..n /\ i + 1 # 0 /\ (i + 1) - 1 = i
      BY <1>2
    <3>2. c[i + 1] = Step(c, i + 1) /\ g[i + 1] = Step(g, i + 1)
      BY <1>11, <2>0, <3>1
    <3>3. c[i] = g[i]
      BY <2>2
    <3> QED
      BY <3>1, <3>2, <3>3
  <2> HIDE DEF T
  <2> QED
    BY <1>2, <2>1, <2>2, InductTo
<1>15. c[n] = [sizes |-> sizes, rest |-> d]
  <2>1. n \in 0..n
    BY <1>2
  <2>2. c[n] = g[n]
    BY <1>14, <2>1
  <2>3. SubSeq(sizes, 1, n) = sizes
    BY <1>2, SubSeqFull
  <2> QED
    BY <1>7, <1>10, <2>1, <2>2, <2>3
<1> QED
  BY <1>1, <1>5, <1>15 DEF w, sizes

\* Parts behind their sizes are popped.
LEMMA PartsPopped ==
    ASSUME NEW parts \in Parts, NEW nulls,
           DOMAIN nulls = DOMAIN parts, Len(nulls) = Len(parts),
           \A i \in 1..Len(parts) : nulls[i] <=> parts[i] = Null
    PROVE  PopParts(Lengths(parts) \o Joined(parts), nulls) = parts
<1>1. /\ Joined(parts) \in Seq(Octet)
      /\ Slices(Sizes(parts), Joined(parts)) = Runs(parts)
  BY JoinedSlices
<1>2. PopSizes(Lengths(parts) \o Joined(parts), nulls) =
          [sizes |-> Sizes(parts), rest |-> Joined(parts)]
  BY <1>1, SizesPopped
<1>3. PopParts(Lengths(parts) \o Joined(parts), nulls) =
          [i \in DOMAIN parts |-> IF nulls[i] THEN Null ELSE Runs(parts)[i]]
  BY <1>1, <1>2 DEF PopParts
<1>4. DOMAIN parts = 1..Len(parts)
  BY PartsTyped
<1>5. \A i \in DOMAIN parts : (IF nulls[i] THEN Null ELSE Runs(parts)[i]) = parts[i]
  BY <1>4 DEF Runs
<1>6. parts = [i \in DOMAIN parts |-> parts[i]]
  BY DEF Parts
<1> QED
  BY <1>3, <1>5, <1>6

-----------------------------------------------------------------------------
(* Containers.                                                             *)

LEMMA FirstByte ==
    ASSUME NEW b \in Octet, NEW d \in Seq(Octet)
    PROVE  (<<b>> \o d)[1] = b /\ Tail(<<b>> \o d) = d
<1> DEFINE h == <<b>>
           c == h \o d
<1>1. h \in Seq(Octet) /\ Len(h) = 1
  OBVIOUS
<1>2. c \in Seq(Octet) /\ Len(c) = Len(d) + 1 /\ c[1] = b
  BY InFront
<1>3. Behind(c, Len(h)) = d
  <2> HIDE DEF h
  <2> QED
    BY <1>1, BehindFirst
<1> HIDE DEF c
<1>4. Len(d) \in Nat
  OBVIOUS
<1>5. c # <<>>
  BY <1>2, <1>4
<1>6. Tail(c) = SubSeq(c, 2, Len(c))
  BY <1>2, <1>5, TailIsSubSeq
<1> QED
  BY <1>1, <1>2, <1>3, <1>6 DEF Behind, c

\* Sequences of bytes can be grouped at will.
LEMMA ConcatBytes ==
    ASSUME NEW p \in Seq(Octet), NEW q \in Seq(Octet) PROVE p \o q \in Seq(Octet)
  BY ConcatProperties

Equal(p, q) == p = q

LEMMA Grouping ==
    ASSUME NEW p \in Seq(Octet), NEW q \in Seq(Octet), NEW r \in Seq(Octet)
    PROVE  Equal((p \o q) \o r, p \o (q \o r))
  BY ConcatAssociative DEF Equal

LEMMA GroupingFour ==
    ASSUME NEW p \in Seq(Octet), NEW q \in Seq(Octet), NEW r \in Seq(Octet),
           NEW s \in Seq(Octet)
    PROVE  Equal(((p \o q) \o r) \o s, p \o (q \o (r \o s)))
<1>1. p \o q \in Seq(Octet) /\ r \o s \in Seq(Octet)
  BY ConcatBytes
<1>2. Equal((p \o q) \o (r \o s), p \o (q \o (r \o s)))
  BY <1>1, Grouping
<1>3. Equal(((p \o q) \o r) \o s, (p \o q) \o (r \o s))
  BY <1>1, Grouping
<1> QED
  BY <1>2, <1>3 DEF Equal

LEMMA GroupingFive ==
    ASSUME NEW p \in Seq(Octet), NEW q \in Seq(Octet), NEW r \in Seq(Octet),
           NEW s \in Seq(Octet), NEW t \in Seq(Octet)
    PROVE  Equal((((p \o q) \o r) \o s) \o t, p \o (q \o (r \o (s \o t))))
<1>1. p \o q \in Seq(Octet) /\ r \o (s \o t) \in Seq(Octet)
  BY ConcatBytes
<1>2. Equal((p \o q) \o (r \o (s \o t)), p \o (q \o (r \o (s \o t))))
  BY <1>1, Grouping
<1>3. Equal((((p \o q) \o r) \o s) \o t, (p \o q) \o (r \o (s \o t)))
  BY <1>1, GroupingFour
<1> QED
  BY <1>2, <1>3 DEF Equal

\* The bytes of parts.
LEMMA PartBytes ==
    ASSUME NEW parts \in Parts
    PROVE  /\ Lengths(parts) \in Seq(Octet) /\ Joined(parts) \in Seq(Octet)
           /\ NullBits(parts) \in Seq(Octet)
           /\ \A n \in Nat : Uleb128(n) \in Seq(Octet)
           /\ \A b \in 0..2 : <<b>> \in Seq(Octet) /\ b \in Octet
<1> DEFINE nulls == [i \in DOMAIN parts |-> parts[i] = Null]
           d == <<>>
<1>1. DOMAIN parts = 1..Len(parts) /\ Len(parts) \in Nat
  BY PartsTyped
<1>2. nulls \in Seq(BOOLEAN) /\ Len(nulls) = Len(parts) /\ d \in Seq(Octet)
  BY <1>1
<1>3. NullBits(parts) = BitVector(nulls)
  BY DEF NullBits
<1>4. \A i \in 1..Len(parts) : nulls[i] <=> parts[i] = Null
  BY <1>1
<1> HIDE DEF nulls, d
<1>5. BitVector(nulls) \in Seq(Octet)
  BY <1>2, BitsRead
<1>6. Lengths(parts) \in Seq(Octet)
  BY <1>2, <1>4, SizesPopped
<1>7. \A n \in Nat : Uleb128(n) \in Seq(Octet)
  BY UlebPopped DEF Popped
<1>8. \A b \in 0..2 : <<b>> \in Seq(Octet) /\ b \in Octet
  BY DEF Octet
<1> QED
  BY <1>3, <1>5, <1>6, <1>7, <1>8, JoinedSlices

\* Parts behind the bits of those that are null are popped.
LEMMA NullablePopped ==
    ASSUME NEW parts \in Parts
    PROVE  PopNullable(NullBits(parts) \o (Lengths(parts) \o Joined(parts)),
                       Len(parts)) = parts
<1> DEFINE n == Len(parts)
           nulls == [i \in DOMAIN parts |-> parts[i] = Null]
           v == NullBits(parts)
           rest == Lengths(parts) \o Joined(parts)
           read == [i \in 1..n |-> Bit(v \o rest, i)]
<1>1. DOMAIN parts = 1..n /\ n \in Nat
  BY PartsTyped
<1>2. rest \in Seq(Octet)
  BY PartBytes, ConcatBytes
<1>3. nulls \in Seq(BOOLEAN) /\ Len(nulls) = n /\ v = BitVector(nulls)
  BY <1>1 DEF NullBits
<1>4. \A i \in 1..n : nulls[i] <=> parts[i] = Null
  BY <1>1
<1> HIDE DEF nulls, rest, v, n
<1>5. /\ v \in Seq(Octet) /\ Len(v) = BitBytes(n)
      /\ \A i \in 1..n : Bit(v \o rest, i) <=> nulls[i]
  BY <1>2, <1>3, BitsRead
<1>6. Behind(v \o rest, BitBytes(n)) = rest
  BY <1>2, <1>5, BehindFirst
<1>7. PopNullable(v \o rest, n) = PopParts(rest, read)
  BY <1>6 DEF PopNullable
<1>8. /\ DOMAIN read = 1..n /\ Len(read) = n
      /\ \A i \in 1..n : read[i] <=> parts[i] = Null
  BY <1>1, <1>4, <1>5
<1> HIDE DEF read
<1>9. PopParts(rest, read) = parts
  BY <1>1, <1>8, PartsPopped DEF n, rest
<1> QED
  BY <1>7, <1>9 DEF n, rest, v

\* Parts that are not null are popped.
LEMMA PlainPopped ==
    ASSUME NEW parts \in Parts, \A i \in 1..Len(parts) : parts[i] # Null
    PROVE  PopParts(Lengths(parts) \o Joined(parts), NoNull(Len(parts))) = parts
<1> DEFINE n == Len(parts)
           nulls == NoNull(n)
<1>1. DOMAIN parts = 1..n /\ n \in Nat
  BY PartsTyped
<1>2. /\ DOMAIN nulls = 1..n /\ Len(nulls) = n
      /\ \A i \in 1..n : nulls[i] <=> parts[i] = Null
  BY <1>1 DEF NoNull
<1> HIDE DEF nulls
<1> QED
  BY <1>1, <1>2, PartsPopped DEF nulls

\* Decoding a keyed container, nullable or not, gives the shape it was written
\* with and every part as it was, null or not, under the key it was put.
THEOREM KeyedRoundTrip ==
    ASSUME NEW parts \in Seq(Seq(Octet) \cup {Null}), NEW id \in Nat,
           NEW shape, Len(shape) = Len(parts)
    PROVE  /\ ShapeIndex(KeyedContainer(id, parts)) = id + 1
           /\ KeyedParts(KeyedContainer(id, parts), shape) = parts
<1> DEFINE u == Uleb128(id)
           v == NullBits(parts)
           l == Lengths(parts)
           j == Joined(parts)
           d == KeyedContainer(id, parts)
<1>1. /\ parts \in Parts /\ DOMAIN parts = 1..Len(parts)
      /\ ToSet(parts) = {parts[i] : i \in DOMAIN parts}
  BY PartsTyped DEF Parts, ToSet
<1>2. /\ u \in Seq(Octet) /\ v \in Seq(Octet) /\ l \in Seq(Octet)
      /\ j \in Seq(Octet) /\ <<0>> \in Seq(Octet) /\ <<1>> \in Seq(Octet)
      /\ 0 \in Octet /\ 1 \in Octet
  BY <1>1, PartBytes
<1>3. d = IF Null \in ToSet(parts) THEN (((<<1>> \o u) \o v) \o l) \o j
                                   ELSE ((<<0>> \o u) \o l) \o j
  BY DEF KeyedContainer
<1>4. \A r \in Seq(Octet) : PopUleb(u \o r) = [num |-> id, rest |-> r]
  BY UlebRoundTrip
<1> HIDE DEF u, v, l, j, d
<1>5. CASE Null \in ToSet(parts)
  <2> DEFINE r == v \o (l \o j)
  <2>1. r \in Seq(Octet) /\ u \o r \in Seq(Octet)
    BY <1>2, ConcatBytes
  <2>2. d = <<1>> \o (u \o r)
    <3>1. Equal((((<<1>> \o u) \o v) \o l) \o j, <<1>> \o (u \o r))
      BY <1>2, GroupingFive
    <3> QED
      BY <1>3, <1>5, <3>1 DEF Equal
  <2>3. PopNullable(r, Len(parts)) = parts
    BY <1>1, NullablePopped DEF l, j, v
  <2> HIDE DEF r
  <2>4. d[1] = 1 /\ Tail(d) = u \o r
    BY <1>2, <2>1, <2>2, FirstByte
  <2>5. PopUleb(Tail(d)).num = id /\ PopUleb(Tail(d)).rest = r
    <3>1. PopUleb(u \o r) = [num |-> id, rest |-> r]
      BY <1>4, <2>1
    <3>2. PopUleb(Tail(d)) = [num |-> id, rest |-> r]
      BY <2>4, <3>1, Zenon
    <3> QED
      BY <3>2
  <2> QED
    BY <2>3, <2>4, <2>5 DEF ShapeIndex, KeyedParts, d
<1>6. CASE Null \notin ToSet(parts)
  <2> DEFINE r == l \o j
  <2>1. r \in Seq(Octet) /\ u \o r \in Seq(Octet)
    BY <1>2, ConcatBytes
  <2>2. d = <<0>> \o (u \o r)
    <3>1. Equal(((<<0>> \o u) \o l) \o j, <<0>> \o (u \o r))
      BY <1>2, GroupingFour
    <3> QED
      BY <1>3, <1>6, <3>1 DEF Equal
  <2>3. PopParts(r, NoNull(Len(parts))) = parts
    BY <1>1, <1>6, PlainPopped DEF l, j
  <2> HIDE DEF r
  <2>4. d[1] = 0 /\ Tail(d) = u \o r
    BY <1>2, <2>1, <2>2, FirstByte
  <2>5. PopUleb(Tail(d)).num = id /\ PopUleb(Tail(d)).rest = r
    <3>1. PopUleb(u \o r) = [num |-> id, rest |-> r]
      BY <1>4, <2>1
    <3>2. PopUleb(Tail(d)) = [num |-> id, rest |-> r]
      BY <2>4, <3>1, Zenon
    <3> QED
      BY <3>2
  <2> QED
    BY <2>3, <2>4, <2>5 DEF ShapeIndex, KeyedParts, d
<1> QED
  BY <1>5, <1>6

\* Decoding a list without nulls, of one size or of several, gives its elements.
THEOREM ListRoundTrip ==
    ASSUME NEW parts \in Seq(Seq(Octet))
    PROVE  UnkeyedParts(PlainList(parts)) = parts
<1> DEFINE n == Len(parts)
           u == Uleb128(n)
           size == IF parts = <<>> THEN 0 ELSE Len(parts[1])
           v == Uleb128(size)
           l == Lengths(parts)
           j == Joined(parts)
           d == PlainList(parts)
<1>1. parts \in Parts
  BY SeqMonotonic DEF Parts
<1>2. /\ n \in Nat /\ DOMAIN parts = 1..n
      /\ \A i \in 1..n : parts[i] \in Seq(Octet) /\ Len(parts[i]) \in Nat
  BY ElementOfSeq, LenProperties
<1>3. \A i \in 1..n : parts[i] # Null
  BY <1>2, NullIsNoValue
<1>4. Runs(parts) = parts
  <2>1. Runs(parts) = [i \in 1..n |-> parts[i]]
    BY <1>2, <1>3 DEF Runs
  <2> QED
    BY <1>2, <2>1
<1>5. size \in Nat
  <2>1. parts # <<>> => 1 \in 1..n
    BY <1>2, EmptySeq
  <2> QED
    BY <1>2, <2>1
<1>6. /\ u \in Seq(Octet) /\ v \in Seq(Octet) /\ l \in Seq(Octet)
      /\ j \in Seq(Octet) /\ <<0>> \in Seq(Octet) /\ <<1>> \in Seq(Octet)
      /\ 0 \in Octet /\ 1 \in Octet
  <2> HIDE DEF size, n
  <2> QED
    BY <1>1, <1>2, <1>5, PartBytes
<1>7. d = IF OneSize(parts) THEN ((<<0>> \o u) \o v) \o j
                            ELSE ((<<1>> \o u) \o l) \o j
  BY DEF PlainList
<1>8. \A r \in Seq(Octet) : PopUleb(u \o r) = [num |-> n, rest |-> r]
  BY <1>2, UlebRoundTrip
<1>9. \A r \in Seq(Octet) : PopUleb(v \o r) = [num |-> size, rest |-> r]
  BY <1>5, UlebRoundTrip
<1>10. Slices(Sizes(parts), j) = parts
  BY <1>1, <1>4, JoinedSlices
<1>11. PopParts(l \o j, NoNull(n)) = parts
  BY <1>1, <1>3, PlainPopped
<1>12. OneSize(parts) => Sizes(parts) = [i \in 1..n |-> size]
  <2> SUFFICES ASSUME OneSize(parts)
               PROVE  Sizes(parts) = [i \in 1..n |-> size]
    OBVIOUS
  <2>1. Sizes(parts) = [i \in 1..n |-> Len(parts[i])]
    BY <1>2, <1>3 DEF Sizes
  <2>2. \A i \in 1..n : Len(parts[i]) = size
    <3> SUFFICES ASSUME NEW i \in 1..n PROVE Len(parts[i]) = size
      OBVIOUS
    <3>1. parts # <<>> /\ 1 \in 1..n
      BY <1>2
    <3> QED
      BY <1>2, <3>1 DEF OneSize
  <2> HIDE DEF size
  <2> QED
    BY <2>1, <2>2
<1> HIDE DEF u, v, l, j, d, n, size
<1>13. CASE OneSize(parts)
  <2> DEFINE r == v \o j
  <2>1. r \in Seq(Octet) /\ u \o r \in Seq(Octet)
    BY <1>6, ConcatBytes
  <2>2. d = <<0>> \o (u \o r)
    <3>1. Equal(((<<0>> \o u) \o v) \o j, <<0>> \o (u \o r))
      BY <1>6, GroupingFour
    <3> QED
      BY <1>7, <1>13, <3>1 DEF Equal
  <2>3. PopUleb(r).num = size /\ PopUleb(r).rest = j
    <3>1. PopUleb(v \o j) = [num |-> size, rest |-> j]
      BY <1>6, <1>9
    <3> QED
      BY <3>1
  <2> HIDE DEF r
  <2>4. d[1] = 0 /\ Tail(d) = u \o r
    BY <1>6, <2>1, <2>2, FirstByte
  <2>5. PopUleb(Tail(d)).num = n /\ PopUleb(Tail(d)).rest = r
    <3>1. PopUleb(u \o r) = [num |-> n, rest |-> r]
      BY <1>8, <2>1
    <3>2. PopUleb(Tail(d)) = [num |-> n, rest |-> r]
      BY <2>4, <3>1, Zenon
    <3> QED
      BY <3>2
  <2>6. UnkeyedParts(d) = Slices([i \in 1..n |-> size], j)
    <3> DEFINE count == PopUleb(Tail(d))
               sizeOf == PopUleb(count.rest)
    <3>1. count.num = n /\ sizeOf.num = size /\ sizeOf.rest = j
      BY <2>3, <2>5
    <3>2. UnkeyedParts(d) = Slices([i \in 1..count.num |-> sizeOf.num], sizeOf.rest)
      BY <2>4 DEF UnkeyedParts
    <3> HIDE DEF count, sizeOf
    <3> QED
      BY <3>1, <3>2
  <2> QED
    BY <1>10, <1>12, <1>13, <2>6 DEF d
<1>14. CASE ~OneSize(parts)
  <2> DEFINE r == l \o j
  <2>1. r \in Seq(Octet) /\ u \o r \in Seq(Octet)
    BY <1>6, ConcatBytes
  <2>2. d = <<1>> \o (u \o r)
    <3>1. Equal(((<<1>> \o u) \o l) \o j, <<1>> \o (u \o r))
      BY <1>6, GroupingFour
    <3> QED
      BY <1>7, <1>14, <3>1 DEF Equal
  <2> HIDE DEF r
  <2>4. d[1] = 1 /\ Tail(d) = u \o r
    BY <1>6, <2>1, <2>2, FirstByte
  <2>5. PopUleb(Tail(d)).num = n /\ PopUleb(Tail(d)).rest = r
    <3>1. PopUleb(u \o r) = [num |-> n, rest |-> r]
      BY <1>8, <2>1
    <3>2. PopUleb(Tail(d)) = [num |-> n, rest |-> r]
      BY <2>4, <3>1, Zenon
    <3> QED
      BY <3>2
  <2>6. UnkeyedParts(d) = PopParts(r, NoNull(n))
    BY <2>4, <2>5 DEF UnkeyedParts
  <2> QED
    BY <1>11, <2>6 DEF d, r
<1> QED
  BY <1>13, <1>14

\* Bytes one by one, joined again.
LEMMA JoinedBytes ==
    ASSUME NEW b \in Seq(Octet)
    PROVE  /\ [i \in DOMAIN b |-> <<b[i]>>] \in Seq(Seq(Octet))
           /\ FlattenSeq([i \in DOMAIN b |-> <<b[i]>>]) = b
<1> DEFINE n == Len(b)
           s == [i \in DOMAIN b |-> <<b[i]>>]
<1>1. n \in Nat /\ DOMAIN b = 1..n /\ \A i \in 1..n : b[i] \in Octet
  BY ElementOfSeq
<1>2. s \in Seq(Seq(Octet)) /\ Len(s) = n /\ \A i \in 1..n : s[i] = <<b[i]>>
  <2>1. s \in [1..n -> Seq(Octet)]
    BY <1>1
  <2> QED
    BY <1>1, <2>1
<1> HIDE DEF s, n
<1>3. PICK f \in [0..n -> Seq(Octet)] :
          /\ f[0] = <<>> /\ FlattenSeq(s) = f[n]
          /\ \A i \in 1..n : f[i] = f[i - 1] \o s[i]
  <2>1. \E f \in [0..Len(s) -> Seq(Octet)] :
            /\ f[0] = <<>> /\ FlattenSeq(s) = f[Len(s)]
            /\ \A i \in 1..Len(s) : f[i] = f[i - 1] \o s[i]
    BY <1>2, FlattenReads
  <2> QED
    BY <1>2, <2>1
<1> DEFINE T == {i \in 0..n : f[i] = SubSeq(b, 1, i)}
<1>4. 0 \in T
  <2>1. SubSeq(b, 1, 0) = <<>>
    BY SubSeqEmpty
  <2> QED
    BY <1>1, <1>3, <2>1
<1>5. ASSUME NEW i \in 0..(n - 1), i \in T PROVE i + 1 \in T
  <2>1. i + 1 \in 1..n /\ i + 1 \in 0..n /\ (i + 1) - 1 = i
    BY <1>1
  <2>2. f[i + 1] = SubSeq(b, 1, i) \o <<b[i + 1]>>
    BY <1>2, <1>3, <1>5, <2>1
  <2>3. SubSeq(b, 1, i) \o <<b[i + 1]>> = SubSeq(b, 1, i + 1)
    BY <1>1, <2>1, FrontGrows DEF n
  <2> QED
    BY <2>1, <2>2, <2>3
<1>6. n \in T
  <2> HIDE DEF T
  <2>1. 0..n \subseteq T
    BY <1>1, <1>4, <1>5, InductTo
  <2> QED
    BY <1>1, <2>1
<1>7. SubSeq(b, 1, n) = b
  BY DEF n
<1> QED
  BY <1>2, <1>3, <1>6, <1>7 DEF s

\* Bytes that are encoded as a list of bytes are decoded as they were.
THEOREM BytesRoundTrip ==
    ASSUME NEW b \in Seq(Octet)
    PROVE  PopBytes(BytesList(b)) = b
<1> DEFINE n == Len(b)
           s == [i \in DOMAIN b |-> <<b[i]>>]
           d == BytesList(b)
<1>1. s \in Seq(Seq(Octet)) /\ FlattenSeq(s) = b
  BY JoinedBytes
<1>2. n \in Nat /\ DOMAIN b = 1..n /\ Len(s) = n
  OBVIOUS
<1>3. Uleb128(1) = <<1>> /\ Uleb128(0) = <<0>>
  <2>1. 1 \in Nat /\ 1 < 128 /\ 0 \in Nat /\ 0 < 128
    OBVIOUS
  <2> QED
    BY <2>1, UlebSteps
<1>4. CASE b # <<>>
  <2>1. OneSize(s) /\ s # <<>> /\ Len(s[1]) = 1
    BY <1>2, <1>4 DEF OneSize
  <2>2. Joined(s) = FlattenSeq(s)
    <3>1. \A i \in DOMAIN s : s[i] # Null
      <4>1. \A i \in DOMAIN s : s[i] \in Seq(Octet)
        BY <1>1
      <4> QED
        BY <4>1, NullIsNoValue
    <3>2. Joined(s) = FlattenSeq([i \in DOMAIN s |-> s[i]])
      BY <3>1 DEF Joined
    <3>3. s = [i \in DOMAIN s |-> s[i]]
      OBVIOUS
    <3> QED
      BY <3>2, <3>3
  <2> HIDE DEF s
  <2>3. PlainList(s) = <<0>> \o Uleb128(n) \o Uleb128(1) \o b
    BY <1>1, <1>2, <2>1, <2>2 DEF PlainList
  <2>4. PlainList(s) = d
    BY <1>3, <2>3 DEF BytesList
  <2>5. UnkeyedParts(d) = s
    BY <1>1, <2>4, ListRoundTrip
  <2> QED
    BY <1>1, <2>5 DEF PopBytes
<1>5. CASE b = <<>>
  <2> DEFINE u == Uleb128(0)
             r == <<1>> \o <<>>
  <2>1. u = <<0>> /\ n = 0 /\ r = Uleb128(1) \o <<>> /\ r = <<1>>
    BY <1>3, <1>5
  <2>2. PopUleb(r).num = 1 /\ PopUleb(r).rest = <<>>
    <3>1. <<>> \in Seq(Octet)
      OBVIOUS
    <3>2. PopUleb(Uleb128(1) \o <<>>) = [num |-> 1, rest |-> <<>>]
      BY <3>1, UlebRoundTrip
    <3> QED
      BY <2>1, <3>2
  <2>3. d = <<0>> \o (u \o r) /\ r \in Seq(Octet) /\ u \o r \in Seq(Octet)
    <3>1. 0 \in Octet /\ 1 \in Octet
      BY DEF Octet
    <3>2. /\ <<0>> \in Seq(Octet) /\ <<1>> \in Seq(Octet)
          /\ <<>> \in Seq(Octet) /\ u \in Seq(Octet)
      <4>1. <<0>> \in Seq(Octet) /\ <<1>> \in Seq(Octet)
        BY <3>1
      <4>2. <<>> \in Seq(Octet)
        OBVIOUS
      <4> HIDE DEF u
      <4> QED
        BY <2>1, <4>1, <4>2, Zenon
    <3>3. d = ((<<0>> \o u) \o <<1>>) \o <<>>
      BY <1>5, <2>1 DEF BytesList
    <3>4. Equal(((<<0>> \o u) \o <<1>>) \o <<>>, <<0>> \o (u \o (<<1>> \o <<>>)))
      BY <3>2, GroupingFour
    <3>5. r \in Seq(Octet)
      BY <3>2, ConcatBytes
    <3>6. u \o r \in Seq(Octet)
      <4> HIDE DEF u, r
      <4> QED
        BY <3>2, <3>5, ConcatBytes
    <3> QED
      BY <3>3, <3>4, <3>5, <3>6 DEF Equal
  <2>4. d[1] = 0 /\ Tail(d) = u \o r
    <3>1. 0 \in Octet
      BY DEF Octet
    <3> HIDE DEF d, u, r
    <3> QED
      BY <2>3, <3>1, FirstByte
  <2> HIDE DEF d
  <2>5. PopUleb(Tail(d)).num = 0 /\ PopUleb(Tail(d)).rest = r
    <3>1. PopUleb(u \o r) = [num |-> 0, rest |-> r]
      BY <2>3, UlebRoundTrip
    <3> HIDE DEF u, r
    <3>2. PopUleb(Tail(d)) = [num |-> 0, rest |-> r]
      BY <2>4, <3>1, Zenon
    <3> QED
      BY <3>2
  <2>6. UnkeyedParts(d) = Slices([i \in 1..0 |-> 1], <<>>)
    <3> HIDE DEF u, r
    <3> QED
      BY <2>2, <2>4, <2>5 DEF UnkeyedParts
  <2>7. Slices([i \in 1..0 |-> 1], <<>>) = <<>>
    BY DEF Slices
  <2>8. FlattenSeq(<<>>) = <<>>
    <3>1. s = <<>>
      BY <1>5
    <3> QED
      BY <1>1, <1>5, <3>1
  <2> QED
    BY <1>5, <2>6, <2>7, <2>8 DEF PopBytes, d
<1> QED
  BY <1>4, <1>5

\* A string is decoded as it was encoded, whatever is behind it.
THEOREM TextRoundTrip ==
    ASSUME NEW s \in Seq(Octet), NEW d \in Seq(Octet)
    PROVE  PopText(TextBytes(s) \o d) = s
<1> DEFINE u == Uleb128(Len(s))
<1>1. Len(s) \in Nat /\ u \in Seq(Octet)
  BY UlebPopped DEF Popped
<1>2. s \o d \in Seq(Octet)
  BY ConcatBytes
<1>3. TextBytes(s) \o d = u \o (s \o d)
  <2>1. Equal((u \o s) \o d, u \o (s \o d))
    BY <1>1, Grouping
  <2> QED
    BY <2>1 DEF TextBytes, Equal
<1>4. PopUleb(u \o (s \o d)) = [num |-> Len(s), rest |-> s \o d]
  BY <1>1, <1>2, UlebRoundTrip
<1>5. SubSeq(s \o d, 1, Len(s)) = s
  BY FrontOf
<1> QED
  BY <1>3, <1>4, <1>5 DEF PopText

\* A nullable list is read as it was written only when all of it is null: the
\* first element that is not stops _decode_unkeyed_container.
THEOREM NullableListFate ==
    ASSUME NEW parts \in Seq(Seq(Octet) \cup {Null})
    PROVE  UnkeyedParts(NullableList(parts)) =
               IF \A i \in DOMAIN parts : parts[i] = Null THEN parts ELSE Raised
<1> DEFINE n == Len(parts)
           u == Uleb128(n)
           v == NullBits(parts)
           l == Lengths(parts)
           j == Joined(parts)
           r == v \o (l \o j)
           d == NullableList(parts)
<1>1. parts \in Parts /\ n \in Nat
  BY DEF Parts
<1>2. /\ u \in Seq(Octet) /\ v \in Seq(Octet) /\ l \in Seq(Octet)
      /\ j \in Seq(Octet) /\ <<2>> \in Seq(Octet) /\ 2 \in Octet
  BY <1>1, PartBytes
<1>3. d = (((<<2>> \o u) \o v) \o l) \o j
  BY DEF NullableList
<1>4. \A x \in Seq(Octet) : PopUleb(u \o x) = [num |-> n, rest |-> x]
  BY <1>1, UlebRoundTrip
<1>5. PopNullable(r, n) = parts
  BY <1>1, NullablePopped
<1> HIDE DEF u, v, l, j, d, n
<1>6. r \in Seq(Octet) /\ u \o r \in Seq(Octet)
  BY <1>2, ConcatBytes
<1>7. d = <<2>> \o (u \o r)
  <2>1. Equal((((<<2>> \o u) \o v) \o l) \o j, <<2>> \o (u \o r))
    BY <1>2, GroupingFive
  <2> QED
    BY <1>3, <2>1 DEF Equal
<1> HIDE DEF r
<1>8. d[1] = 2 /\ Tail(d) = u \o r
  BY <1>2, <1>6, <1>7, FirstByte
<1>9. PopUleb(Tail(d)).num = n /\ PopUleb(Tail(d)).rest = r
  <2>1. PopUleb(u \o r) = [num |-> n, rest |-> r]
    BY <1>4, <1>6
  <2>2. PopUleb(Tail(d)) = [num |-> n, rest |-> r]
    BY <1>8, <2>1, Zenon
  <2> QED
    BY <2>2
<1>10. UnkeyedParts(d) =
           IF \A i \in DOMAIN parts : parts[i] = Null THEN parts ELSE Raised
  BY <1>5, <1>8, <1>9 DEF UnkeyedParts
<1> QED
  BY <1>10 DEF d

-----------------------------------------------------------------------------
(* The table of shapes.                                                    *)

\* A key is found at its byte.
LEMMA NameAt ==
    ASSUME NEW key \in ToSet(Names)
    PROVE  NameByte(key) \in Octet /\ Names[NameByte(key)] = key
<1> DEFINE I == {i \in 1..Len(Names) : Names[i] = key}
<1>1. Len(Names) \in Nat /\ DOMAIN Names = 1..Len(Names) /\ Len(Names) < 256
  BY NamesDiffer
<1>2. PICK k \in 1..Len(Names) : Names[k] = key
  BY <1>1 DEF ToSet
<1>3. I = {k}
  BY <1>1, <1>2, NamesDiffer DEF IsInjective
<1>4. Min(I) = k
  BY <1>2, <1>3 DEF Min
<1>5. NameByte(key) = Min(I)
  BY <1>3 DEF NameByte, SelectInSeq
<1> QED
  BY <1>1, <1>2, <1>4, <1>5 DEF Octet

ShapeKeys(shape) == [i \in DOMAIN shape |-> <<1, NameByte(shape[i])>>]

LEMMA ShapePopped ==
    ASSUME NEW shape \in Seq(ToSet(Names)), NEW d \in Seq(Octet)
    PROVE  /\ ShapeBytes(shape) \in Seq(Octet)
           /\ PopShape(ShapeBytes(shape) \o d) = [shape |-> shape, rest |-> d]
<1> DEFINE n == Len(shape)
           s == ShapeKeys(shape)
           f == FlattenSeq(s)
           w == f \o d
           u == Uleb128(n)
<1>1. /\ n \in Nat /\ DOMAIN shape = 1..n
      /\ \A i \in 1..n : shape[i] \in ToSet(Names)
  BY ElementOfSeq
<1>2. \A i \in 1..n : /\ NameByte(shape[i]) \in Octet
                      /\ Names[NameByte(shape[i])] = shape[i]
  BY <1>1, NameAt
<1>3. /\ s \in Seq(Seq(Octet)) /\ Len(s) = n
      /\ \A i \in 1..n : Len(s[i]) = 2 /\ s[i][2] = NameByte(shape[i])
  <2>1. 1 \in Octet
    BY DEF Octet
  <2>2. \A i \in 1..n : <<1, NameByte(shape[i])>> \in Seq(Octet)
    BY <1>2, <2>1
  <2>3. s = [i \in 1..n |-> <<1, NameByte(shape[i])>>]
    BY <1>1 DEF ShapeKeys
  <2> HIDE DEF s, n
  <2> QED
    BY <1>1, <2>2, <2>3
<1>4. ShapeBytes(shape) = u \o f
  BY DEF ShapeBytes, ShapeKeys
<1>5. u \in Seq(Octet) /\ \A r \in Seq(Octet) : PopUleb(u \o r) = [num |-> n, rest |-> r]
  BY <1>1, UlebRoundTrip, UlebPopped DEF Popped
<1> HIDE DEF n, s, u
<1>6. /\ f \in Seq(Octet)
      /\ \E off \in [0..Len(s) -> Nat] : Laid(s, w, off) /\ off[Len(s)] = Len(f)
  <2>1. s \in Seq(Seq(Octet))
    BY <1>3
  <2>2. /\ FlattenSeq(s) \in Seq(Octet)
        /\ \E off \in [0..Len(s) -> Nat] :
               /\ Laid(s, FlattenSeq(s) \o d, off)
               /\ off[Len(s)] = Len(FlattenSeq(s))
               /\ \A i \in 0..Len(s) :
                      Behind(FlattenSeq(s) \o d, off[i]) \in Seq(Octet)
    BY <2>1, Pieces
  <2> QED
    BY <2>2
<1> HIDE DEF f
<1>7. PICK off \in [0..n -> Nat] : Laid(s, w, off) /\ off[n] = Len(f)
  BY <1>3, <1>6
<1>8. /\ off[0] = 0
      /\ \A i \in 1..n : /\ off[i] = off[i - 1] + 2
                         /\ SubSeq(w, off[i - 1] + 1, off[i]) = s[i]
  BY <1>3, <1>7 DEF Laid
<1>9. w \in Seq(Octet) /\ Behind(w, Len(f)) = d
  BY <1>6, ConcatBytes, BehindFirst
<1> HIDE DEF w
<1> DEFINE T == {i \in 0..n : off[i] = 2*i}
<1>10. 0..n \subseteq T
  <2>1. 0 \in T
    BY <1>1, <1>8
  <2>2. ASSUME NEW i \in 0..(n - 1), i \in T PROVE i + 1 \in T
    <3>1. i + 1 \in 0..n /\ i + 1 \in 1..n /\ (i + 1) - 1 = i
      BY <1>1
    <3>2. off[i + 1] = off[i] + 2 /\ off[i] = 2*i
      BY <1>8, <2>2, <3>1
    <3> QED
      BY <3>1, <3>2
  <2> HIDE DEF T
  <2> QED
    BY <1>1, <2>1, <2>2, InductTo
<1>11. Len(f) = 2*n
  BY <1>1, <1>7, <1>10
<1>12. ASSUME NEW i \in 1..n PROVE w[2*i] = NameByte(shape[i])
  <2>1. off[i] = 2*i /\ off[i - 1] = 2*i - 2
    BY <1>1, <1>10
  <2> DEFINE m == 2*i - 1
  <2>2. SubSeq(w, m, 2*i) = s[i] /\ m \in Nat /\ 2*i = m + 1
    <3>1. m \in Nat /\ off[i - 1] + 1 = m /\ off[i] = 2*i /\ 2*i = m + 1
      BY <1>1, <2>1
    <3>2. SubSeq(w, off[i - 1] + 1, off[i]) = s[i]
      BY <1>8
    <3> HIDE DEF m
    <3> QED
      BY <3>1, <3>2
  <2> HIDE DEF m
  <2>3. SubSeq(w, m, m + 1)[2] = w[m + 1]
    BY <2>2
  <2> QED
    BY <1>3, <2>2, <2>3
<1>13. PopUleb(ShapeBytes(shape) \o d) = [num |-> n, rest |-> w]
  <2>1. Equal((u \o f) \o d, u \o (f \o d))
    BY <1>5, <1>6, Grouping
  <2>2. ShapeBytes(shape) \o d = u \o w
    BY <1>4, <2>1 DEF Equal, w
  <2> QED
    BY <1>5, <1>9, <2>2
<1>14. PopShape(ShapeBytes(shape) \o d) =
           [shape |-> [i \in 1..n |-> Names[w[2*i]]], rest |-> Behind(w, 2*n)]
  BY <1>13 DEF PopShape
<1>15. [i \in 1..n |-> Names[w[2*i]]] = shape
  <2>1. \A i \in 1..n : Names[w[2*i]] = shape[i]
    BY <1>2, <1>12
  <2>2. shape = [i \in 1..n |-> shape[i]]
    BY <1>1
  <2> QED
    BY <2>1, <2>2
<1>16. ShapeBytes(shape) \in Seq(Octet)
  BY <1>4, <1>5, <1>6, ConcatBytes
<1> QED
  BY <1>9, <1>11, <1>14, <1>15, <1>16

\* The table of shapes is read as it was written, whatever is behind it.
THEOREM ShapesRoundTrip ==
    ASSUME NEW shapes \in Seq(Seq(ToSet(Names))), NEW d \in Seq(Octet)
    PROVE  ShapesOf(ShapeTable(shapes) \o d) = [shapes |-> shapes, rest |-> d]
<1> DEFINE n == Len(shapes)
           s == [i \in DOMAIN shapes |-> ShapeBytes(shapes[i])]
           t == FlattenSeq(s)
           w == t \o d
           u == Uleb128(n)
           More(p, next) == [shapes |-> Append(p.shapes, next.shape),
                             rest |-> next.rest]
           Step(f, i) == IF i = 0 THEN [shapes |-> <<>>, rest |-> w]
                         ELSE More(f[i - 1], PopShape(f[i - 1].rest))
           c == CHOOSE f : f = [i \in 0..n |-> Step(f, i)]
<1>1. /\ n \in Nat /\ DOMAIN shapes = 1..n
      /\ \A i \in 1..n : shapes[i] \in Seq(ToSet(Names))
  BY ElementOfSeq
<1>2. /\ s \in Seq(Seq(Octet)) /\ Len(s) = n
      /\ \A i \in 1..n : s[i] = ShapeBytes(shapes[i])
  <2>1. \A i \in 1..n : ShapeBytes(shapes[i]) \in Seq(Octet)
    <3> SUFFICES ASSUME NEW i \in 1..n PROVE ShapeBytes(shapes[i]) \in Seq(Octet)
      OBVIOUS
    <3> DEFINE e == <<>>
    <3>1. e \in Seq(Octet)
      OBVIOUS
    <3> HIDE DEF e
    <3> QED
      BY <1>1, <3>1, ShapePopped
  <2>2. s = [i \in 1..n |-> ShapeBytes(shapes[i])]
    BY <1>1
  <2> HIDE DEF s, n
  <2> QED
    BY <1>1, <2>1, <2>2
<1>3. ShapeTable(shapes) = u \o t
  BY DEF ShapeTable
<1>4. u \in Seq(Octet) /\ \A r \in Seq(Octet) : PopUleb(u \o r) = [num |-> n, rest |-> r]
  BY <1>1, UlebRoundTrip, UlebPopped DEF Popped
<1> HIDE DEF n, s, u
<1>5. /\ t \in Seq(Octet)
      /\ \E off \in [0..Len(s) -> Nat] :
             /\ Laid(s, w, off) /\ off[Len(s)] = Len(t)
             /\ \A i \in 0..Len(s) : Behind(w, off[i]) \in Seq(Octet)
  BY <1>2, Pieces
<1> HIDE DEF t
<1>6. PICK off \in [0..n -> Nat] :
          /\ Laid(s, w, off) /\ off[n] = Len(t)
          /\ \A i \in 0..n : Behind(w, off[i]) \in Seq(Octet)
  BY <1>2, <1>5
<1>7. /\ w \in Seq(Octet) /\ Behind(w, Len(t)) = d
  BY <1>5, ConcatBytes, BehindFirst
<1>8. PopUleb(ShapeTable(shapes) \o d) = [num |-> n, rest |-> w]
  <2>1. Equal((u \o t) \o d, u \o (t \o d))
    BY <1>4, <1>5, Grouping
  <2>2. ShapeTable(shapes) \o d = u \o w
    BY <1>3, <2>1 DEF Equal
  <2> HIDE DEF w
  <2> QED
    BY <1>4, <1>7, <2>2
<1>9. ShapesOf(ShapeTable(shapes) \o d) = c[n]
  <2> DEFINE x == ShapeTable(shapes) \o d
  <2>1. PopUleb(x).num = n /\ PopUleb(x).rest = w
    BY <1>8
  <2> HIDE DEF x, w
  <2> QED
    BY <2>1 DEF ShapesOf, x
<1> HIDE DEF w, c
<1>10. off[0] = 0 /\ \A i \in 1..n : Behind(w, off[i - 1]) = s[i] \o Behind(w, off[i])
  BY <1>2, <1>6 DEF Laid
<1>11. Behind(w, 0) = w
  BY <1>7, SubSeqFull DEF Behind
<1> DEFINE g == [i \in 0..n |-> [shapes |-> SubSeq(shapes, 1, i),
                                 rest |-> Behind(w, off[i])]]
<1>12. \A i \in 0..n : /\ g[i].shapes = SubSeq(shapes, 1, i)
                       /\ g[i].rest = Behind(w, off[i])
                       /\ g[i] = [shapes |-> SubSeq(shapes, 1, i),
                                  rest |-> Behind(w, off[i])]
  OBVIOUS
<1> HIDE DEF g
<1>13. ASSUME NEW i \in 0..n PROVE g[i] = Step(g, i)
  <2>1. CASE i = 0
    <3>1. SubSeq(shapes, 1, 0) = <<>>
      BY SubSeqEmpty
    <3> QED
      BY <1>1, <1>10, <1>11, <1>12, <2>1, <3>1
  <2>2. CASE i # 0
    <3> DEFINE p == g[i - 1]
               b == Behind(w, off[i])
    <3>1. i \in 1..n /\ i - 1 \in 0..n
      BY <1>1, <2>2
    <3>2. /\ p.shapes = SubSeq(shapes, 1, i - 1) /\ b \in Seq(Octet)
          /\ p.rest = ShapeBytes(shapes[i]) \o b
      BY <1>2, <1>6, <1>10, <1>12, <3>1
    <3>3. Append(SubSeq(shapes, 1, i - 1), shapes[i]) = SubSeq(shapes, 1, i)
      BY <1>1, <3>1, FrontGrows DEF n
    <3> HIDE DEF b, p
    <3>4. PopShape(p.rest) = [shape |-> shapes[i], rest |-> b]
      <4>1. PopShape(ShapeBytes(shapes[i]) \o b) = [shape |-> shapes[i], rest |-> b]
        BY <1>1, <3>1, <3>2, ShapePopped
      <4> QED
        BY <3>2, <4>1
    <3>5. More(p, PopShape(p.rest)) = [shapes |-> SubSeq(shapes, 1, i), rest |-> b]
      <4> DEFINE x == PopShape(p.rest)
      <4>1. x.shape = shapes[i] /\ x.rest = b
        BY <3>4
      <4> HIDE DEF x
      <4>2. More(p, x) = [shapes |-> SubSeq(shapes, 1, i), rest |-> b]
        BY <3>2, <3>3, <4>1
      <4> QED
        BY <4>2 DEF x
    <3>6. Step(g, i) = More(p, PopShape(p.rest))
      BY <2>2 DEF p
    <3> HIDE DEF Step, More
    <3>7. g[i] = [shapes |-> SubSeq(shapes, 1, i), rest |-> b]
      BY <1>12 DEF b
    <3> QED
      BY <3>5, <3>6, <3>7
  <2> QED
    BY <2>1, <2>2
<1>14. g = [i \in 0..n |-> Step(g, i)]
  <2>1. g = [i \in 0..n |-> g[i]]
    BY DEF g
  <2> HIDE DEF Step
  <2> QED
    BY <1>13, <2>1
<1>15. c = [i \in 0..n |-> Step(c, i)]
  <2> HIDE DEF Step
  <2> QED
    BY <1>14 DEF c
<1>16. \A i \in 0..n : c[i] = Step(c, i)
  <2> HIDE DEF Step
  <2> QED
    BY <1>15
<1> HIDE DEF More
<1> DEFINE T == {i \in 0..n : c[i] = g[i]}
<1>17. 0..n \subseteq T
  <2>1. 0 \in T
    <3>1. 0 \in 0..n /\ c[0] = Step(c, 0) /\ g[0] = Step(g, 0)
      BY <1>1, <1>13, <1>16
    <3> QED
      BY <3>1
  <2>2. ASSUME NEW i \in 0..(n - 1), i \in T PROVE i + 1 \in T
    <3>1. i + 1 \in 0..n /\ i + 1 # 0 /\ (i + 1) - 1 = i
      BY <1>1
    <3>2. c[i + 1] = Step(c, i + 1) /\ g[i + 1] = Step(g, i + 1)
      BY <1>13, <1>16, <3>1
    <3>3. c[i] = g[i]
      BY <2>2
    <3> QED
      BY <3>1, <3>2, <3>3
  <2> HIDE DEF T
  <2> QED
    BY <1>1, <2>1, <2>2, InductTo
<1>18. c[n] = [shapes |-> shapes, rest |-> d]
  <2>1. n \in 0..n
    BY <1>1
  <2>2. c[n] = g[n]
    BY <1>17, <2>1
  <2>3. SubSeq(shapes, 1, n) = shapes
    BY SubSeqFull DEF n
  <2> QED
    BY <1>6, <1>7, <1>12, <2>1, <2>2, <2>3
<1> QED
  BY <1>9, <1>18

-----------------------------------------------------------------------------
(* The bytes of an int.                                                    *)

\* What is left of a number when some of its bytes are taken off.
LEMMA LeftOver ==
    ASSUME NEW n \in Int
    PROVE  \E over \in [0..IntBytes -> Int] :
               /\ over[0] = n
               /\ \A i \in 1..IntBytes : over[i] = over[i - 1] \div 256
               /\ LittleEndian(n) = [i \in 1..IntBytes |-> over[i - 1] % 256]
<1> DEFINE l == IntBytes
           Step(f, i) == IF i = 0 THEN n ELSE f[i - 1] \div 256
           c == CHOOSE f : f = [i \in 0..l |-> Step(f, i)]
           Begun(m) == \E f \in [0..m -> Int] : \A i \in 0..m : f[i] = Step(f, i)
<1>1. l \in Nat
  BY IntBytesIsPositive
<1>2. LittleEndian(n) = [i \in 1..l |-> c[i - 1] % 256]
  BY DEF LittleEndian
<1> HIDE DEF l
<1>3. Begun(l)
  <2> DEFINE T == {m \in Nat : Begun(m)}
  <2>1. 0 \in T
    <3> DEFINE f == [i \in 0..0 |-> n]
    <3>1. f \in [0..0 -> Int] /\ \A i \in 0..0 : f[i] = Step(f, i)
      OBVIOUS
    <3> HIDE DEF f
    <3> QED
      BY <3>1
  <2>2. ASSUME NEW m \in Nat, Begun(m) PROVE Begun(m + 1)
    <3>1. PICK f \in [0..m -> Int] : \A i \in 0..m : f[i] = Step(f, i)
      BY <2>2
    <3> DEFINE k == m + 1
               next == f[m] \div 256
               g == [i \in 0..k |-> IF i = k THEN next ELSE f[i]]
    <3>2. /\ k \in Nat /\ k # 0 /\ k - 1 = m /\ m # k /\ m \in 0..k
          /\ \A i \in 0..k : i # k => i \in 0..m
          /\ \A i \in 0..m : i # 0 => i - 1 \in 0..m
          /\ \A i \in 0..m : i \in 0..k /\ i # k
      OBVIOUS
    <3>3. next \in Int
      OBVIOUS
    <3> HIDE DEF k
    <3>4. \A i \in 0..m : g[i] = f[i]
      BY <3>2
    <3>5. ASSUME NEW i \in 0..k PROVE g[i] = Step(g, i)
      <4>1. CASE i = k
        <5>1. g[i] = next /\ g[m] = f[m]
          BY <3>2, <4>1
        <5> QED
          BY <3>2, <4>1, <5>1
      <4>2. CASE i # k
        <5>1. i \in 0..m /\ g[i] = f[i] /\ f[i] = Step(f, i)
          BY <3>1, <3>2, <3>4, <4>2
        <5>2. i # 0 => g[i - 1] = f[i - 1]
          BY <3>2, <3>4, <5>1
        <5> QED
          BY <5>1, <5>2
      <4> QED
        BY <4>1, <4>2
    <3>6. g \in [0..k -> Int]
      <4> HIDE DEF next
      <4> QED
        BY <3>2, <3>3
    <3> HIDE DEF g
    <3> QED
      BY <3>5, <3>6 DEF k
  <2> HIDE DEF Begun
  <2>3. T = Nat
    <3>1. T \in SUBSET Nat /\ \A m \in T : m + 1 \in T
      BY <2>2
    <3> HIDE DEF T
    <3> QED
      BY <2>1, <3>1, Induct
  <2> QED
    BY <1>1, <2>3
<1>4. PICK f \in [0..l -> Int] : \A i \in 0..l : f[i] = Step(f, i)
  BY <1>3
<1>5. f = [i \in 0..l |-> Step(f, i)]
  <2> HIDE DEF Step
  <2> QED
    BY <1>4
<1>6. c = [i \in 0..l |-> Step(c, i)]
  <2> HIDE DEF Step
  <2> QED
    BY <1>5
<1>7. \A i \in 0..l : c[i] = Step(c, i)
  <2> HIDE DEF Step, c
  <2> QED
    BY <1>6
<1> HIDE DEF c
<1> DEFINE T == {i \in 0..l : c[i] = f[i]}
<1>8. 0..l \subseteq T
  <2>1. 0 \in T
    BY <1>1, <1>4, <1>7
  <2>2. ASSUME NEW i \in 0..(l - 1), i \in T PROVE i + 1 \in T
    <3>1. i + 1 \in 0..l /\ i + 1 # 0 /\ (i + 1) - 1 = i
      BY <1>1
    <3>2. c[i + 1] = Step(c, i + 1) /\ f[i + 1] = Step(f, i + 1)
      BY <1>4, <1>7, <3>1
    <3>3. c[i] = f[i]
      BY <2>2
    <3> QED
      BY <3>1, <3>2, <3>3
  <2> HIDE DEF T
  <2> QED
    BY <1>1, <2>1, <2>2, InductTo
<1>9. LittleEndian(n) = [i \in 1..l |-> f[i - 1] % 256]
  <2>1. \A i \in 1..l : c[i - 1] = f[i - 1]
    <3> SUFFICES ASSUME NEW i \in 1..l PROVE c[i - 1] = f[i - 1]
      OBVIOUS
    <3>1. i - 1 \in 0..l
      BY <1>1
    <3> QED
      BY <1>8, <3>1
  <2> QED
    BY <1>2, <2>1
<1>10. f[0] = n /\ \A i \in 1..l : f[i] = f[i - 1] \div 256
  BY <1>1, <1>4
<1> QED
  BY <1>9, <1>10 DEF l

LEMMA Digits256 ==
    ASSUME NEW p \in Nat, NEW v \in 0..(p - 1), NEW b \in 0..255
    PROVE  v * 256 + b \in 0..(p * 256 - 1)
  OBVIOUS

LEMMA LastByte == \A x \in Int : x % 256 \in 0..255
  OBVIOUS

LEMMA Scaled ==
    ASSUME NEW q \in Int, NEW p \in Nat, NEW v \in Nat, NEW x \in Int,
           x \div 256 = q * p + v
    PROVE  x = q * (p * 256) + (v * 256 + (x % 256))
<1>1. x = (x \div 256) * 256 + (x % 256)
  OBVIOUS
<1>2. (q * p) * 256 = q * (p * 256)
  OBVIOUS
<1> DEFINE y == q * p
<1>3. y \in Int
  OBVIOUS
<1> HIDE DEF y
<1>4. (y + v) * 256 = y * 256 + v * 256
  BY <1>3
<1> QED
  BY <1>1, <1>2, <1>4 DEF y

\* An int comes back as itself, counted modulo the number of ints there are: it
\* is packed as signed and unpacked as unsigned.
THEOREM IntRoundTrip ==
    ASSUME NEW n \in Int
    PROVE  /\ UnLittleEndian(LittleEndian(n)) \in 0..(IntCount - 1)
           /\ \E q \in Int : n = q * IntCount + UnLittleEndian(LittleEndian(n))
<1> DEFINE l == IntBytes
           d == LittleEndian(n)
           s == [i \in 1..l |-> d[l + 1 - i]]
           w == [i \in 1..(l + 1) |-> IF i = 1 THEN 1 ELSE 0]
           ls == Len(s)
           lw == Len(w)
           base == 256
<1>1. l \in Nat
  BY IntBytesIsPositive
<1>2. PICK over \in [0..l -> Int] :
          /\ over[0] = n /\ \A i \in 1..l : over[i] = over[i - 1] \div 256
          /\ d = [i \in 1..l |-> over[i - 1] % 256]
  BY LeftOver
<1> HIDE DEF l
<1>3. Len(d) = l /\ DOMAIN d = 1..l
  BY <1>1, <1>2
<1>4. UnLittleEndian(d) = Number(s, base)
  <2> HIDE DEF d
  <2> QED
    BY <1>3 DEF UnLittleEndian
<1>5. \A i \in 1..l : over[i - 1] % 256 \in 0..255
  <2> SUFFICES ASSUME NEW i \in 1..l PROVE over[i - 1] % 256 \in 0..255
    OBVIOUS
  <2>1. i - 1 \in 0..l
    BY <1>1
  <2>2. over[i - 1] \in Int
    BY <2>1
  <2> QED
    BY <2>2, LastByte
<1> HIDE DEF d
<1>6. /\ s \in Seq(Nat) /\ ls = l
      /\ \A i \in 1..l : s[i] = over[l - i] % 256 /\ s[i] \in 0..255
  <2>1. ASSUME NEW i \in 1..l
        PROVE  d[l + 1 - i] = over[l - i] % 256 /\ d[l + 1 - i] \in 0..255
    <3>1. l + 1 - i \in 1..l /\ (l + 1 - i) - 1 = l - i
      BY <1>1
    <3> QED
      BY <1>2, <1>5, <3>1
  <2> QED
    BY <1>1, <2>1
<1>7. /\ w \in Seq(Nat) /\ lw = l + 1 /\ w[1] = 1
      /\ \A i \in 1..l : w[i + 1] = 0
  BY <1>1
<1>8. base \in Nat
  OBVIOUS
<1> HIDE DEF s, w, ls, lw
<1>9. PICK f \in [0..l -> Nat] :
          /\ f[0] = 0 /\ Number(s, base) = f[l]
          /\ \A i \in 1..l : f[i] = f[i - 1] * base + s[i]
  <2> HIDE DEF base
  <2>1. PICK f \in [0..ls -> Nat] :
            /\ f[0] = 0 /\ Number(s, base) = f[ls]
            /\ \A i \in 1..ls : f[i] = f[i - 1] * base + s[i]
    BY <1>6, <1>8, NumberReads DEF ls
  <2> QED
    BY <1>6, <2>1
<1>10. PICK p \in [0..(l + 1) -> Nat] :
           /\ p[0] = 0 /\ Number(w, base) = p[l + 1]
           /\ \A i \in 1..(l + 1) : p[i] = p[i - 1] * base + w[i]
  <2> HIDE DEF base
  <2>1. PICK p \in [0..lw -> Nat] :
            /\ p[0] = 0 /\ Number(w, base) = p[lw]
            /\ \A i \in 1..lw : p[i] = p[i - 1] * base + w[i]
    BY <1>7, <1>8, NumberReads DEF lw
  <2> QED
    BY <1>7, <2>1
<1>11. p[1] = 1 /\ \A i \in 1..l : p[i + 1] = p[i] * 256
  <2>1. p[1] = 1
    BY <1>1, <1>7, <1>10
  <2>2. ASSUME NEW i \in 1..l PROVE p[i + 1] = p[i] * 256
    <3>1. i + 1 \in 1..(l + 1) /\ (i + 1) - 1 = i /\ i \in 0..(l + 1)
      BY <1>1
    <3>2. p[i + 1] = p[i] * 256 + w[i + 1]
      BY <1>10, <3>1
    <3>3. w[i + 1] = 0
      BY <1>7
    <3>4. p[i + 1] \in Nat /\ p[i] \in Nat
      BY <1>1, <3>1
    <3> DEFINE x == p[i]
    <3> HIDE DEF x
    <3>5. p[i + 1] = x * 256 + 0 /\ x \in Nat
      BY <3>2, <3>3, <3>4 DEF x
    <3> QED
      BY <3>5 DEF x
  <2> QED
    BY <2>1, <2>2
<1> DEFINE q == over[l]
           T == {i \in 0..l : /\ f[i] \in 0..(p[i + 1] - 1)
                              /\ over[l - i] = q * p[i + 1] + f[i]}
<1>12. q \in Int
  BY <1>1
<1> HIDE DEF q
<1>13. 0..l \subseteq T
  <2>1. 0 \in T
    <3>1. l - 0 = l /\ 0 + 1 = 1 /\ 0 \in 0..l /\ f[0] = 0 /\ p[1] = 1
      BY <1>1, <1>9, <1>11
    <3>2. over[l] = q * 1 + 0
      BY <1>12 DEF q
    <3> QED
      BY <3>1, <3>2
  <2>2. ASSUME NEW i \in 0..(l - 1), i \in T PROVE i + 1 \in T
    <3> DEFINE b == s[i + 1]
               x == over[l - (i + 1)]
               v == f[i]
               z == p[i + 1]
    <3>1. /\ i + 1 \in 1..l /\ i + 1 \in 0..l /\ (i + 1) - 1 = i
          /\ l - (i + 1) \in 0..l /\ l - i \in 1..l /\ (l - i) - 1 = l - (i + 1)
          /\ i + 1 \in 0..(l + 1) /\ i \in 0..l
      BY <1>1
    <3>2. v \in 0..(z - 1) /\ over[l - i] = q * z + v
      BY <2>2
    <3>3. v \in Nat /\ z \in Nat /\ x \in Int /\ b \in 0..255 /\ b = x % 256
      <4>1. b \in 0..255 /\ b = x % 256
        BY <1>6, <3>1
      <4>2. v \in Nat /\ z \in Nat /\ x \in Int
        BY <3>1
      <4> QED
        BY <4>1, <4>2
    <3>4. over[l - i] = x \div 256
      BY <1>2, <3>1
    <3>5. f[i + 1] = v * 256 + b /\ p[(i + 1) + 1] = z * 256
      BY <1>9, <1>11, <3>1
    <3> HIDE DEF b, x, v, z
    <3>6. v * 256 + b \in 0..(z * 256 - 1)
      BY <3>2, <3>3, Digits256
    <3>7. x = q * (z * 256) + (v * 256 + b)
      <4>1. x \div 256 = q * z + v
        BY <3>2, <3>4
      <4> QED
        BY <1>12, <3>3, <4>1, Scaled
    <3>8. /\ f[i + 1] \in 0..(p[(i + 1) + 1] - 1)
          /\ x = q * p[(i + 1) + 1] + f[i + 1]
      BY <3>5, <3>6, <3>7
    <3> QED
      BY <3>1, <3>8 DEF x
  <2> HIDE DEF T
  <2> QED
    BY <1>1, <2>1, <2>2, InductTo
<1>14. /\ Number(s, base) \in 0..(Number(w, base) - 1)
       /\ n = q * Number(w, base) + Number(s, base)
  <2>1. l \in T
    <3> HIDE DEF T
    <3>1. l \in 0..l
      BY <1>1
    <3> QED
      BY <1>13, <3>1
  <2>2. over[l - l] = n
    BY <1>1, <1>2
  <2> HIDE DEF base
  <2> QED
    BY <1>9, <1>10, <2>1, <2>2
<1>15. IntCount = Number(w, base)
  BY DEF IntCount, w, l
<1> QED
  BY <1>4, <1>12, <1>14, <1>15 DEF d, l

-----------------------------------------------------------------------------
(* Framing: that frames arrive as sent follows from where the bytes that   *)
(* data_received has used up end, which is where a frame starts or its     *)
(* body starts (InStep).                                                   *)

\* A frame starts where the one before ends and looks as it was sent.
Layout ==
    /\ Len(starts) = Len(sent) + 1
    /\ starts[1] = 0
    /\ starts[Len(starts)] = Len(stream)
    /\ \A i \in DOMAIN sent :
           /\ starts[i + 1] = starts[i] + HeaderLen + Len(sent[i])
           /\ SubSeq(stream, starts[i] + 1, starts[i] + HeaderLen)
                  = Header(Len(sent[i]))
           /\ SubSeq(stream, starts[i] + HeaderLen + 1, starts[i + 1]) = sent[i]
    /\ \A i, j \in DOMAIN starts : i < j => starts[i] + HeaderLen < starts[j]

\* A body that is being received is shorter than its header says.
BodyIsShort ==
    inBody => Len(header) = HeaderLen /\ Len(body) < BigEndian(header)

\* How much of the stream the loop has used up.
Used == received - Len(chunk)

\* While chunks end where a header or a body does, the loop is at the start
\* of the frame that comes after those delivered, or of its body.
InStep ==
    LET d == Len(delivered)
    IN  /\ received \in Ends
        /\ Used \in 0..received
        /\ chunk = SubSeq(stream, Used + 1, received)
        /\ d <= Len(sent)
        /\ \A i \in 1..d : delivered[i] = sent[i]
        /\ ~inBody
        /\ \/ header = <<>> /\ Used = starts[d + 1]
           \/ /\ d < Len(sent)
              /\ header = Header(Len(sent[d + 1]))
              /\ Used = starts[d + 1] + HeaderLen

FramingInv == TypeOK /\ Layout /\ BodyIsShort /\ (cut \/ InStep)

\* However it got there, a sequence of bytes read as a number is one.
LEMMA BigEndianIsNat ==
    ASSUME NEW h \in Seq(Byte)
    PROVE  BigEndian(h) \in Nat
<1>1. Byte \subseteq Nat /\ Base \in Nat
  BY SizesArePositive DEF Byte
<1>2. h \in Seq(Nat)
  BY <1>1, SeqMonotonic
<1> QED
  BY <1>1, <1>2, NumberIsNat DEF BigEndian

\* The header of a body tells how long the body is.
LEMMA HeaderTells ==
    ASSUME NEW b \in Bodies
    PROVE  /\ Header(Len(b)) \in Seq(Byte)
           /\ Len(Header(Len(b))) = HeaderLen
           /\ BigEndian(Header(Len(b))) = Len(b)
<1>1. /\ Header(Len(b)) \in [1..HeaderLen -> Byte]
      /\ BigEndian(Header(Len(b))) = Len(b)
  BY BodiesFit DEF Header
<1> QED
  BY <1>1, SizesArePositive

-----------------------------------------------------------------------------
(* Pieces of sequences.                                                    *)

\* The two pieces of a chunk.
LEMMA Cut ==
    ASSUME NEW S, NEW s \in Seq(S), NEW n \in Nat
    PROVE  /\ Upto(s, n) \in Seq(S) /\ From(s, n) \in Seq(S)
           /\ Len(Upto(s, n)) = IF n < Len(s) THEN n ELSE Len(s)
           /\ Len(From(s, n)) = IF n < Len(s) THEN Len(s) - n ELSE 0
<1>1. \A i \in 1..(IF n < Len(s) THEN n ELSE Len(s)) : s[i] \in S
  OBVIOUS
<1>2. \A i \in (n + 1)..Len(s) : s[i] \in S
  OBVIOUS
<1> QED
  BY <1>1, <1>2, SubSeqProperties DEF Upto, From

\* The pieces of a piece of a sequence.
LEMMA CutPiece ==
    ASSUME NEW S, NEW s \in Seq(S), NEW u \in Nat, NEW r \in u..Len(s),
           NEW n \in 0..(r - u)
    PROVE  /\ SubSeq(s, u + 1, r) \in Seq(S)
           /\ Len(SubSeq(s, u + 1, r)) = r - u
           /\ Upto(SubSeq(s, u + 1, r), n) = SubSeq(s, u + 1, u + n)
           /\ From(SubSeq(s, u + 1, r), n) = SubSeq(s, u + n + 1, r)
<1> DEFINE c == SubSeq(s, u + 1, r)
<1>1. /\ c \in Seq(S) /\ Len(c) = r - u
      /\ \A i \in 1..(r - u) : c[i] = s[u + i]
  <2>1. u + 1 \in Int /\ r \in Int /\ r - (u + 1) + 1 = r - u
    OBVIOUS
  <2>2. \A i \in (u + 1)..r : s[i] \in S
    OBVIOUS
  <2>3. c \in Seq(S)
    BY <2>1, <2>2, SubSeqProperties
  <2>4. Len(c) = r - u
    BY <2>1, <2>2, SubSeqProperties
  <2>5. ASSUME NEW i \in 1..(r - u)
        PROVE  c[i] = s[u + i]
    <3>1. i \in 1..(r - (u + 1) + 1) /\ u + 1 + i - 1 = u + i
      OBVIOUS
    <3> QED
      BY <2>1, <2>2, <3>1, SubSeqProperties
  <2> QED
    BY <2>3, <2>4, <2>5
<1> HIDE DEF c
<1>2. Upto(c, n) = SubSeq(s, u + 1, u + n)
  <2>1. /\ Upto(c, n) \in Seq(S) /\ Len(Upto(c, n)) = n
        /\ \A i \in 1..n : Upto(c, n)[i] = c[i]
    <3>1. Upto(c, n) = SubSeq(c, 1, n)
      BY <1>1 DEF Upto
    <3>2. \A i \in 1..n : c[i] \in S
      BY <1>1
    <3> QED
      BY <3>1, <3>2, SubSeqProperties
  <2>2. /\ SubSeq(s, u + 1, u + n) \in Seq(S)
        /\ Len(SubSeq(s, u + 1, u + n)) = n
        /\ \A i \in 1..n : SubSeq(s, u + 1, u + n)[i] = s[u + i]
    <3> DEFINE first == u + 1
               last == u + n
    <3>1. /\ \A i \in first..last : s[i] \in S
          /\ first \in Int /\ last \in Int /\ last - first + 1 = n
      OBVIOUS
    <3>2. \A i \in 1..n : first + i - 1 = u + i
      OBVIOUS
    <3> HIDE DEF first, last
    <3>3. /\ SubSeq(s, first, last) \in Seq(S)
          /\ Len(SubSeq(s, first, last)) = n
          /\ \A i \in 1..n : SubSeq(s, first, last)[i] = s[first + i - 1]
      BY <3>1, SubSeqProperties
    <3> QED
      BY <3>2, <3>3 DEF first, last
  <2> DEFINE a == Upto(c, n)
             b == SubSeq(s, u + 1, u + n)
  <2>3. /\ a \in Seq(S) /\ Len(a) = n
        /\ b \in Seq(S) /\ Len(b) = n
        /\ \A i \in 1..n : a[i] = b[i]
    <3>1. \A i \in 1..n : c[i] = s[u + i]
      BY <1>1
    <3> QED
      BY <2>1, <2>2, <3>1
  <2> HIDE DEF a, b
  <2>4. a = b
    BY <2>3, SeqEqual
  <2> QED
    BY <2>4 DEF a, b
<1>3. From(c, n) = SubSeq(s, u + n + 1, r)
  <2>1. /\ From(c, n) \in Seq(S) /\ Len(From(c, n)) = r - u - n
        /\ \A i \in 1..(r - u - n) : From(c, n)[i] = c[n + i]
    <3> DEFINE e == r - u
    <3>1. From(c, n) = SubSeq(c, n + 1, e)
      BY <1>1 DEF From
    <3>2. \A i \in (n + 1)..e : c[i] \in S
      BY <1>1
    <3>3. e \in Nat /\ n + 1 \in Int /\ n <= e
      OBVIOUS
    <3> HIDE DEF e
    <3>4. /\ From(c, n) \in Seq(S)
          /\ Len(From(c, n)) = IF n + 1 <= e THEN e - (n + 1) + 1 ELSE 0
          /\ \A i \in 1..(e - (n + 1) + 1) :
                 From(c, n)[i] = c[(n + 1) + i - 1]
      BY <3>1, <3>2, <3>3, SubSeqProperties
    <3>5. Len(From(c, n)) = e - n
      BY <3>3, <3>4
    <3>6. \A i \in 1..(e - n) : From(c, n)[i] = c[n + i]
      BY <3>3, <3>4
    <3> QED
      BY <3>4, <3>5, <3>6 DEF e
  <2>2. /\ SubSeq(s, u + n + 1, r) \in Seq(S)
        /\ Len(SubSeq(s, u + n + 1, r)) = r - u - n
        /\ \A i \in 1..(r - u - n) :
               SubSeq(s, u + n + 1, r)[i] = s[u + n + i]
    <3>1. \A i \in (u + n + 1)..r : s[i] \in S
      OBVIOUS
    <3> QED
      BY <3>1, SubSeqProperties
  <2>3. \A i \in 1..(r - u - n) : c[n + i] = s[u + (n + i)]
    BY <1>1
  <2>4. \A i \in 1..(r - u - n) :
            From(c, n)[i] = SubSeq(s, u + n + 1, r)[i]
    BY <2>1, <2>2, <2>3
  <2> QED
    BY <2>1, <2>2, <2>4, SeqEqual
<1> QED
  BY <1>1, <1>2, <1>3 DEF c
-----------------------------------------------------------------------------
(* The sender.                                                             *)

LEMMA InitFraming == Init => FramingInv
<1> SUFFICES ASSUME Init PROVE FramingInv
  OBVIOUS
<1>1. TypeOK
  <2>1. <<>> \in Seq(Byte) /\ <<>> \in Seq(Bodies) /\ <<>> \in Seq(Seq(Byte))
    BY EmptySeq
  <2>2. <<0>> \in Seq(Nat) /\ Len(<<>>) = 0 /\ HeaderLen \in Nat
    BY SizesArePositive
  <2>3. /\ stream \in Seq(Byte) /\ chunk \in Seq(Byte)
        /\ header \in Seq(Byte) /\ body \in Seq(Byte)
        /\ received \in 0..Len(stream) /\ Len(header) <= HeaderLen
    BY <2>1, <2>2 DEF Init
  <2>4. /\ sent \in Seq(Bodies) /\ delivered \in Seq(Seq(Byte))
        /\ starts \in Seq(Nat) /\ inBody \in BOOLEAN /\ cut \in BOOLEAN
    BY <2>1, <2>2 DEF Init
  <2> QED
    BY <2>3, <2>4 DEF TypeOK
<1>2. Layout /\ BodyIsShort
  BY DEF Init, Layout, BodyIsShort
<1>3. InStep
  <2>1. received \in Ends
    BY DEF Init, Ends
  <2>2. SubSeq(stream, 1, 0) = <<>>
    BY SubSeqEmpty
  <2>3. /\ received = 0 /\ Len(chunk) = 0 /\ chunk = <<>> /\ Len(delivered) = 0
        /\ Len(sent) = 0 /\ starts[1] = 0 /\ ~inBody /\ header = <<>>
    BY DEF Init
  <2> QED
    BY <2>1, <2>2, <2>3 DEF InStep, Used
<1> QED
  BY <1>1, <1>2, <1>3 DEF FramingInv

\* Where frames start.
LEMMA LayoutTells ==
    ASSUME FramingInv
    PROVE  /\ HeaderLen \in Nat \ {0}
           /\ Len(sent) \in Nat /\ Len(stream) \in Nat
           /\ DOMAIN sent = 1..Len(sent)
           /\ DOMAIN starts = 1..(Len(sent) + 1)
           /\ starts[Len(sent) + 1] = Len(stream)
           /\ \A i \in 1..(Len(sent) + 1) : starts[i] \in Nat
           /\ \A i, j \in 1..(Len(sent) + 1) :
                  i < j => starts[i] + HeaderLen < starts[j]
           /\ \A i \in 1..Len(sent) :
                  /\ sent[i] \in Bodies /\ Len(sent[i]) \in Nat
                  /\ starts[i + 1] = starts[i] + HeaderLen + Len(sent[i])
                  /\ SubSeq(stream, starts[i] + 1, starts[i] + HeaderLen)
                         = Header(Len(sent[i]))
                  /\ SubSeq(stream, starts[i] + HeaderLen + 1, starts[i + 1])
                         = sent[i]
<1>1. /\ HeaderLen \in Nat \ {0}
      /\ sent \in Seq(Bodies) /\ stream \in Seq(Byte) /\ starts \in Seq(Nat)
  BY SizesArePositive DEF FramingInv, TypeOK
<1>2. /\ Len(sent) \in Nat /\ Len(stream) \in Nat
      /\ DOMAIN sent = 1..Len(sent)
      /\ DOMAIN starts = 1..(Len(sent) + 1)
      /\ starts[Len(sent) + 1] = Len(stream)
  BY <1>1 DEF FramingInv, Layout
<1>3. \A i \in 1..(Len(sent) + 1) : starts[i] \in Nat
  BY <1>1, <1>2
<1>4. \A i, j \in 1..(Len(sent) + 1) : i < j => starts[i] + HeaderLen < starts[j]
  BY <1>2 DEF FramingInv, Layout
<1>5. \A i \in 1..Len(sent) : sent[i] \in Bodies /\ Len(sent[i]) \in Nat
  BY <1>1, BodiesFit, LenProperties
<1>6. \A i \in 1..Len(sent) :
          /\ starts[i + 1] = starts[i] + HeaderLen + Len(sent[i])
          /\ SubSeq(stream, starts[i] + 1, starts[i] + HeaderLen)
                 = Header(Len(sent[i]))
          /\ SubSeq(stream, starts[i] + HeaderLen + 1, starts[i + 1]) = sent[i]
  BY <1>2 DEF FramingInv, Layout
<1> QED
  BY <1>1, <1>2, <1>3, <1>4, <1>5, <1>6

\* Where the loop is.
LEMMA InStepTells ==
    ASSUME FramingInv, InStep
    PROVE  /\ stream \in Seq(Byte) /\ received \in 0..Len(stream)
           /\ chunk \in Seq(Byte) /\ Len(chunk) \in Nat
           /\ received \in Nat /\ Used \in Nat /\ Used <= received
           /\ Used = received - Len(chunk)
           /\ chunk = SubSeq(stream, Used + 1, received)
           /\ delivered \in Seq(Seq(Byte)) /\ Len(delivered) \in Nat
           /\ Len(delivered) <= Len(sent)
           /\ \A i \in 1..Len(delivered) : delivered[i] = sent[i]
<1>1. /\ stream \in Seq(Byte) /\ received \in 0..Len(stream)
      /\ chunk \in Seq(Byte) /\ delivered \in Seq(Seq(Byte))
  BY DEF FramingInv, TypeOK
<1>2. Len(stream) \in Nat /\ Len(chunk) \in Nat /\ Len(delivered) \in Nat
  BY <1>1, LenProperties
<1>3. /\ Used \in 0..received
      /\ chunk = SubSeq(stream, Used + 1, received)
      /\ Len(delivered) <= Len(sent)
      /\ \A i \in 1..Len(delivered) : delivered[i] = sent[i]
  BY DEF InStep
<1> QED
  BY <1>1, <1>2, <1>3 DEF Used

\* The frames sent before lie where they did, and the new one comes last.
LEMMA SendKeepsLayout ==
    ASSUME FramingInv, NEW b \in Bodies, Send(b)
    PROVE  /\ Layout'
           /\ stream' \in Seq(Byte) /\ Len(stream) <= Len(stream')
           /\ \A i, j \in 0..Len(stream) :
                  SubSeq(stream', i + 1, j) = SubSeq(stream, i + 1, j)
<1> DEFINE n == Len(sent)
           h == Header(Len(b))
           f == Frame(b)
           l == Len(stream)
<1>1. /\ sent \in Seq(Bodies) /\ stream \in Seq(Byte) /\ starts \in Seq(Nat)
      /\ HeaderLen \in Nat \ {0}
      /\ b \in Seq(Byte) /\ Len(b) \in Nat \ {0}
      /\ h \in Seq(Byte) /\ Len(h) = HeaderLen
  BY SizesArePositive, BodiesFit, HeaderTells, EmptySeq DEF FramingInv, TypeOK
<1> HIDE DEF h
<1>2. f = h \o b /\ f \in Seq(Byte) /\ Len(f) = HeaderLen + Len(b)
  <2>1. f = h \o b
    BY DEF Frame, h
  <2> HIDE DEF f
  <2> QED
    BY <1>1, <2>1, ConcatProperties
<1> HIDE DEF f
<1>3. /\ stream' = stream \o f /\ stream' \in Seq(Byte)
      /\ Len(stream') = l + HeaderLen + Len(b)
  <2>1. stream' = stream \o f
    BY DEF Send, f
  <2> QED
    <3>1. stream' \in Seq(Byte) /\ Len(stream') = l + Len(f)
      BY <1>1, <1>2, <2>1, ConcatProperties
    <3> QED
      BY <1>1, <1>2, <2>1, <3>1
<1>4. /\ sent' = Append(sent, b) /\ Len(sent') = n + 1
      /\ \A i \in 1..n : sent'[i] = sent[i]
      /\ sent'[n + 1] = b
  BY <1>1 DEF Send
<1>5. /\ Len(starts') = n + 2
      /\ \A i \in 1..(n + 1) : starts'[i] = starts[i]
      /\ starts'[n + 2] = Len(stream')
      /\ starts[n + 1] = l /\ starts[1] = 0
      /\ \A i \in 1..(n + 1) : starts[i] \in Nat
  BY <1>1, <1>3 DEF Send, FramingInv, Layout
<1>6. \A i, j \in 0..l : SubSeq(stream', i + 1, j) = SubSeq(stream, i + 1, j)
  <2> SUFFICES ASSUME NEW i \in 0..l, NEW j \in 0..l
               PROVE  SubSeq(stream', i + 1, j) = SubSeq(stream, i + 1, j)
    OBVIOUS
  <2>1. CASE i + 1 <= j
    BY <1>1, <1>2, <1>3, <2>1, SubSeqOfConcat1
  <2>2. CASE j < i + 1
    BY <2>2, SubSeqEmpty
  <2> QED
    BY <2>1, <2>2
<1>7. /\ SubSeq(stream', l + 1, l + HeaderLen) = h
      /\ SubSeq(stream', l + HeaderLen + 1, Len(stream')) = b
  <2>1. SubSeq(stream', l + 1, l + HeaderLen) = SubSeq(f, 1, HeaderLen)
    BY <1>1, <1>2, <1>3, SubSeqOfConcat2
  <2>2. SubSeq(f, 1, HeaderLen) = SubSeq(h, 1, HeaderLen)
    BY <1>1, <1>2, SubSeqOfConcat1
  <2>3. SubSeq(stream', l + HeaderLen + 1, Len(stream'))
            = SubSeq(f, HeaderLen + 1, HeaderLen + Len(b))
    BY <1>1, <1>2, <1>3, SubSeqOfConcat2
  <2>4. SubSeq(f, HeaderLen + 1, HeaderLen + Len(b)) = SubSeq(b, 1, Len(b))
    BY <1>1, <1>2, SubSeqOfConcat2
  <2> QED
    BY <1>1, <2>1, <2>2, <2>3, <2>4, SubSeqFull
<1>8. \A i \in 1..n :
          /\ starts[i + 1] = starts[i] + HeaderLen + Len(sent[i])
          /\ SubSeq(stream, starts[i] + 1, starts[i] + HeaderLen)
                 = Header(Len(sent[i]))
          /\ SubSeq(stream, starts[i] + HeaderLen + 1, starts[i + 1]) = sent[i]
          /\ starts[i] \in 0..l /\ starts[i] + HeaderLen \in 0..l
          /\ starts[i + 1] \in 0..l
  <2> SUFFICES ASSUME NEW i \in 1..n
               PROVE  /\ starts[i] \in 0..l /\ starts[i] + HeaderLen \in 0..l
                      /\ starts[i + 1] \in 0..l
    <3>1. DOMAIN sent = 1..n
      BY <1>1
    <3>2. \A i \in DOMAIN sent :
              /\ starts[i + 1] = starts[i] + HeaderLen + Len(sent[i])
              /\ SubSeq(stream, starts[i] + 1, starts[i] + HeaderLen)
                     = Header(Len(sent[i]))
              /\ SubSeq(stream, starts[i] + HeaderLen + 1, starts[i + 1]) = sent[i]
      BY DEF FramingInv, Layout
    <3> QED
      BY <3>1, <3>2
  <2> SUFFICES starts[i + 1] <= l /\ Len(sent[i]) \in Nat
    <3>1. /\ starts[i + 1] = starts[i] + HeaderLen + Len(sent[i])
          /\ starts[i] \in Nat /\ starts[i + 1] \in Nat /\ l \in Nat
      BY <1>1, LayoutTells
    <3> DEFINE x == Len(sent[i])
               y == starts[i]
               z == starts[i + 1]
    <3> HIDE DEF x, y, z, l
    <3>2. /\ z = y + HeaderLen + x /\ y \in Nat /\ z \in Nat /\ l \in Nat
          /\ HeaderLen \in Nat
      BY <1>1, <3>1 DEF x, y, z
    <3> SUFFICES z <= l /\ x \in Nat => y <= l /\ y + HeaderLen <= l
      BY <3>2 DEF x, y, z
    <3> QED
      BY <3>2
  <2>1. Len(sent[i]) \in Nat
    BY <1>1, BodiesFit, LenProperties
  <2>2. CASE i = n
    BY <1>5, <2>1, <2>2
  <2>3. CASE i # n
    <3>1. i + 1 \in DOMAIN starts /\ n + 1 \in DOMAIN starts /\ i + 1 < n + 1
      <4>1. DOMAIN starts = 1..(n + 1) /\ n \in Nat
        BY <1>1 DEF FramingInv, Layout
      <4> QED
        BY <2>3, <4>1
    <3>2. starts[i + 1] + HeaderLen < starts[n + 1]
      BY <3>1 DEF FramingInv, Layout
    <3>3. starts[n + 1] = l /\ starts[i + 1] \in Nat /\ l \in Nat
      BY <1>1, <1>5, LayoutTells
    <3>4. starts[i + 1] <= l
      BY <1>1, <3>2, <3>3
    <3> QED
      BY <2>1, <3>4
  <2> QED
    BY <2>2, <2>3
<1> HIDE DEF n, l
<1>9. n \in Nat /\ l \in Nat /\ DOMAIN sent' = 1..(n + 1)
      /\ DOMAIN starts' = 1..(n + 2)
  BY <1>1, <1>4, <1>5 DEF n, l, Send
<1>10. ASSUME NEW i \in DOMAIN sent'
       PROVE  /\ starts'[i + 1] = starts'[i] + HeaderLen + Len(sent'[i])
              /\ SubSeq(stream', starts'[i] + 1, starts'[i] + HeaderLen)
                     = Header(Len(sent'[i]))
              /\ SubSeq(stream', starts'[i] + HeaderLen + 1, starts'[i + 1])
                     = sent'[i]
  <2>1. CASE i = n + 1
    <3>1. /\ starts'[i] = l /\ sent'[i] = b /\ i + 1 = n + 2
          /\ starts'[i + 1] = Len(stream')
      BY <1>4, <1>5, <1>9, <2>1
    <3>2. starts'[i + 1] = starts'[i] + HeaderLen + Len(sent'[i])
      BY <1>3, <3>1
    <3> QED
      BY <1>7, <3>1, <3>2 DEF h
  <2>2. CASE i # n + 1
    <3>1. i \in 1..n /\ i + 1 \in 1..(n + 1) /\ i \in 1..(n + 1)
      BY <1>9, <2>2
    <3>2. /\ starts'[i] = starts[i] /\ starts'[i + 1] = starts[i + 1]
          /\ sent'[i] = sent[i]
      BY <1>4, <1>5, <3>1
    <3>3. SubSeq(stream', starts[i] + 1, starts[i] + HeaderLen)
              = SubSeq(stream, starts[i] + 1, starts[i] + HeaderLen)
      BY <1>6, <1>8, <3>1
    <3>4. SubSeq(stream', starts[i] + HeaderLen + 1, starts[i + 1])
              = SubSeq(stream, starts[i] + HeaderLen + 1, starts[i + 1])
      BY <1>6, <1>8, <3>1
    <3> QED
      BY <1>8, <3>1, <3>2, <3>3, <3>4
  <2> QED
    BY <2>1, <2>2
<1>11. ASSUME NEW i \in DOMAIN starts', NEW j \in DOMAIN starts', i < j
       PROVE  starts'[i] + HeaderLen < starts'[j]
  <2>1. CASE j \in 1..(n + 1)
    <3>1. i \in DOMAIN starts /\ j \in DOMAIN starts
      BY <1>1, <1>9, <1>11, <2>1 DEF n, FramingInv, Layout
    <3> QED
      BY <1>5, <1>9, <1>11, <2>1, <3>1 DEF FramingInv, Layout
  <2>2. CASE j = n + 2
    <3>1. i \in 1..(n + 1) /\ starts'[i] = starts[i] /\ starts[i] \in Nat
      BY <1>5, <1>9, <1>11, <2>2
    <3>2. starts[i] <= l
      <4>1. CASE i = n + 1
        BY <1>5, <1>9, <4>1
      <4>2. CASE i # n + 1
        <5>1. i \in 1..n
          BY <1>9, <3>1, <4>2
        <5> QED
          BY <1>8, <1>9, <5>1
      <4> QED
        BY <4>1, <4>2
    <3>3. starts'[j] = l + HeaderLen + Len(b)
      BY <1>3, <1>5, <2>2
    <3> QED
      BY <1>1, <1>9, <3>1, <3>2, <3>3
  <2> QED
    BY <1>9, <2>1, <2>2
<1>12. Layout'
  <2>1. /\ Len(starts') = Len(sent') + 1 /\ starts'[1] = 0
        /\ starts'[Len(starts')] = Len(stream')
    BY <1>4, <1>5, <1>9
  <2> QED
    BY <2>1, <1>10, <1>11 DEF Layout
<1> QED
  BY <1>1, <1>3, <1>6, <1>12 DEF l

LEMMA SendKeeps ==
    ASSUME FramingInv, NEW b \in Bodies, Send(b) PROVE FramingInv'
<1>1. /\ Layout' /\ stream' \in Seq(Byte) /\ Len(stream) <= Len(stream')
      /\ \A i, j \in 0..Len(stream) :
             SubSeq(stream', i + 1, j) = SubSeq(stream, i + 1, j)
  BY SendKeepsLayout
<1>2. /\ sent' = Append(sent, b) /\ starts' = Append(starts, Len(stream'))
      /\ UNCHANGED <<received, chunk, header, body, inBody, delivered, cut>>
      /\ sent \in Seq(Bodies) /\ starts \in Seq(Nat)
      /\ Len(stream) \in Nat /\ Len(stream') \in Nat
  BY <1>1 DEF Send, FramingInv, TypeOK
<1>3. TypeOK'
  <2>1. sent' \in Seq(Bodies) /\ starts' \in Seq(Nat)
    BY <1>2
  <2>2. received' \in 0..Len(stream')
    BY <1>1, <1>2 DEF FramingInv, TypeOK
  <2> QED
    BY <1>1, <1>2, <2>1, <2>2 DEF FramingInv, TypeOK
<1>4. BodyIsShort'
  BY <1>2 DEF FramingInv, BodyIsShort
<1>5. ASSUME InStep PROVE InStep'
  <2>1. /\ Len(sent') = Len(sent) + 1 /\ Len(sent) \in Nat
        /\ \A i \in 1..Len(sent) : sent'[i] = sent[i]
        /\ Len(starts) = Len(sent) + 1
        /\ \A i \in 1..(Len(sent) + 1) : starts'[i] = starts[i]
    BY <1>2 DEF FramingInv, Layout
  <2>2. received' \in Ends'
    <3>1. DOMAIN sent \subseteq DOMAIN sent' /\ DOMAIN starts \subseteq DOMAIN starts'
      BY <1>2
    <3>2. \A i \in DOMAIN starts : starts'[i] = starts[i]
      BY <1>2
    <3>3. \A i \in DOMAIN sent : i \in DOMAIN starts
      BY <1>2, <2>1
    <3> QED
      BY <1>2, <1>5, <3>1, <3>2, <3>3 DEF InStep, Ends
  <2>3. Used' = Used
    BY <1>2 DEF Used
  <2>4. /\ Used \in 0..Len(stream) /\ received \in 0..Len(stream)
        /\ Len(delivered) \in Nat
    BY <1>2, <1>5, InStepTells
  <2>5. chunk' = SubSeq(stream', Used' + 1, received')
    BY <1>1, <1>2, <1>5, <2>3, <2>4 DEF InStep
  <2>6. /\ Len(delivered) + 1 \in 1..(Len(sent) + 1)
        /\ \A i \in 1..Len(delivered) : i \in 1..Len(sent)
        /\ Len(delivered) <= Len(sent')
        /\ Len(delivered) < Len(sent) => /\ Len(delivered) + 1 \in 1..Len(sent)
                                         /\ Len(delivered) < Len(sent')
    BY <1>5, <2>1, <2>4 DEF InStep
  <2>7. /\ Len(delivered') = Len(delivered) /\ ~inBody'
        /\ \A i \in 1..Len(delivered) : delivered'[i] = sent'[i]
        /\ starts'[Len(delivered) + 1] = starts[Len(delivered) + 1]
        /\ Used' \in 0..received'
    BY <1>2, <1>5, <2>1, <2>3, <2>6 DEF InStep
  <2>8. CASE header = <<>> /\ Used = starts[Len(delivered) + 1]
    BY <1>2, <2>2, <2>3, <2>5, <2>6, <2>7, <2>8 DEF InStep
  <2>9. CASE /\ Len(delivered) < Len(sent)
             /\ header = Header(Len(sent[Len(delivered) + 1]))
             /\ Used = starts[Len(delivered) + 1] + HeaderLen
    <3>1. sent'[Len(delivered) + 1] = sent[Len(delivered) + 1]
      BY <2>1, <2>6, <2>9
    <3> QED
      BY <1>2, <2>2, <2>3, <2>5, <2>6, <2>7, <2>9, <3>1 DEF InStep
  <2> QED
    BY <1>5, <2>8, <2>9 DEF InStep
<1> QED
  BY <1>1, <1>2, <1>3, <1>4, <1>5 DEF FramingInv
-----------------------------------------------------------------------------
(* The receiver.                                                           *)

LEMMA ReceiveKeeps ==
    ASSUME FramingInv, NEW n \in (received + 1)..Len(stream), Receive(n)
    PROVE  FramingInv'
<1>1. /\ stream \in Seq(Byte) /\ received \in Nat /\ n \in received..Len(stream)
      /\ chunk = <<>> /\ Len(chunk) = 0
      /\ received' = n /\ chunk' = SubSeq(stream, received + 1, n)
      /\ cut' = (cut \/ n \notin Ends)
      /\ UNCHANGED <<sent, stream, starts, header, body, inBody, delivered>>
      /\ Len(stream) \in Nat
  BY DEF Receive, FramingInv, TypeOK
<1>2. chunk' \in Seq(Byte) /\ Len(chunk') = n - received
  BY <1>1, CutPiece
<1>3. TypeOK'
  BY <1>1, <1>2 DEF FramingInv, TypeOK
<1>4. Layout' /\ BodyIsShort'
  BY <1>1 DEF FramingInv, Layout, BodyIsShort
<1>5. ASSUME InStep, n \in Ends PROVE InStep'
  <2>1. Used = received /\ Used' = received
    BY <1>1, <1>2 DEF Used
  <2>2. Ends' = Ends
    BY <1>1 DEF Ends
  <2> QED
    BY <1>1, <1>5, <2>1, <2>2 DEF InStep
<1> QED
  BY <1>1, <1>3, <1>4, <1>5 DEF FramingInv

-----------------------------------------------------------------------------
(* The loop.                                                               *)

\* As chunks end where a header or a body does, one that is not used up
\* reaches at least to the end of the next header,
LEMMA HeaderIsThere ==
    ASSUME FramingInv, InStep, chunk # <<>>, header = <<>>
    PROVE  /\ Len(delivered) < Len(sent)
           /\ Used = starts[Len(delivered) + 1]
           /\ Used + HeaderLen <= received
<1> DEFINE d == Len(delivered)
           n == Len(sent)
<1>1. /\ d \in Nat /\ n \in Nat /\ HeaderLen \in Nat \ {0}
      /\ d + 1 \in 1..(n + 1) /\ received \in Nat
      /\ \A i \in 1..(n + 1) : starts[i] \in Nat
      /\ \A i, j \in 1..(n + 1) : i < j => starts[i] + HeaderLen < starts[j]
  BY InStepTells, LayoutTells
<1>2. Used = starts[d + 1]
  <2>1. ASSUME NEW b \in Bodies PROVE Header(Len(b)) # <<>>
    BY <1>1, HeaderTells
  <2>2. d < n => sent[d + 1] \in Bodies
    BY <1>1, LayoutTells
  <2> QED
    BY <2>1, <2>2 DEF InStep
<1>3. starts[d + 1] < received
  <2>1. Len(chunk) \in Nat \ {0} /\ Used = received - Len(chunk)
    BY InStepTells, EmptySeq
  <2> QED
    BY <1>1, <1>2, <2>1
<1> HIDE DEF d, n
<1>4. ASSUME NEW i \in 1..(n + 1), received = starts[i]
      PROVE  d < n /\ starts[d + 1] + HeaderLen <= received
  <2>1. i # d + 1 /\ ~(i < d + 1)
    BY <1>1, <1>3, <1>4
  <2>2. d + 1 < i
    BY <1>1, <2>1
  <2>3. starts[d + 1] + HeaderLen < starts[i]
    BY <1>1, <2>2
  <2> QED
    BY <1>1, <1>4, <2>2, <2>3
<1>5. ASSUME NEW i \in 1..n, received = starts[i] + HeaderLen
      PROVE  d < n /\ starts[d + 1] + HeaderLen <= received
  <2>1. i \in 1..(n + 1)
    BY <1>1
  <2>2. ~(i < d + 1)
    BY <1>1, <1>3, <1>5, <2>1
  <2>3. i = d + 1 \/ starts[d + 1] + HeaderLen < starts[i]
    BY <1>1, <2>1, <2>2
  <2> QED
    BY <1>1, <1>5, <2>1, <2>2, <2>3
<1>6. \/ \E i \in 1..(n + 1) : received = starts[i]
      \/ \E i \in 1..n : received = starts[i] + HeaderLen
  BY LayoutTells DEF InStep, Ends, n
<1> QED
  BY <1>2, <1>4, <1>5, <1>6 DEF d, n

\* or to the end of the next body.
LEMMA BodyIsThere ==
    ASSUME FramingInv, InStep, chunk # <<>>, Len(header) = HeaderLen
    PROVE  LET b == sent[Len(delivered) + 1]
           IN  /\ Len(delivered) < Len(sent) /\ b \in Bodies
               /\ header = Header(Len(b)) /\ BigEndian(header) = Len(b)
               /\ Used = starts[Len(delivered) + 1] + HeaderLen
               /\ Used + Len(b) <= received
<1> DEFINE d == Len(delivered)
           n == Len(sent)
           b == sent[d + 1]
<1>1. /\ d \in Nat /\ n \in Nat /\ HeaderLen \in Nat \ {0} /\ received \in Nat
      /\ \A i \in 1..(n + 1) : starts[i] \in Nat
      /\ \A i, j \in 1..(n + 1) : i < j => starts[i] + HeaderLen < starts[j]
  BY InStepTells, LayoutTells
<1>2. d < n /\ header = Header(Len(b)) /\ Used = starts[d + 1] + HeaderLen
  BY <1>1, EmptySeq DEF InStep
<1>3. /\ b \in Bodies /\ Len(b) \in Nat /\ BigEndian(header) = Len(b)
      /\ starts[d + 2] = starts[d + 1] + HeaderLen + Len(b)
  <2>1. d + 1 \in 1..n /\ (d + 1) + 1 = d + 2
    BY <1>1, <1>2
  <2>2. /\ b \in Bodies /\ Len(b) \in Nat
        /\ starts[(d + 1) + 1] = starts[d + 1] + HeaderLen + Len(b)
    BY <2>1, LayoutTells
  <2> QED
    BY <1>2, <2>1, <2>2, HeaderTells
<1>4. starts[d + 1] + HeaderLen < received
  <2>1. Len(chunk) \in Nat \ {0} /\ Used = received - Len(chunk)
    BY InStepTells, EmptySeq
  <2> QED
    BY <1>1, <1>2, <2>1
<1> HIDE DEF d, n, b
<1>5. d + 1 \in 1..(n + 1) /\ d + 2 \in 1..(n + 1)
  BY <1>1, <1>2
<1>6. ASSUME NEW i \in 1..(n + 1),
             received = starts[i] \/ received = starts[i] + HeaderLen
      PROVE  starts[d + 2] <= received
  <2>1. i # d + 1 /\ ~(i < d + 1)
    BY <1>1, <1>4, <1>5, <1>6
  <2>2. i = d + 2 \/ d + 2 < i
    BY <1>1, <2>1
  <2>3. starts[d + 2] <= starts[i]
    BY <1>1, <1>5, <2>2
  <2> QED
    BY <1>1, <1>5, <1>6, <2>3
<1>7. \E i \in 1..(n + 1) :
          received = starts[i] \/ received = starts[i] + HeaderLen
  <2>1. DOMAIN sent = 1..n /\ DOMAIN starts = 1..(n + 1)
    BY LayoutTells DEF n
  <2>2. 1..n \subseteq 1..(n + 1)
    BY <1>1
  <2> QED
    BY <2>1, <2>2 DEF InStep, Ends
<1>8. starts[d + 2] <= received
  BY <1>6, <1>7
<1> QED
  BY <1>2, <1>3, <1>8 DEF d, n, b

\* What is cut off the chunk, and what is left.
LEMMA CutChunk ==
    ASSUME FramingInv, InStep, NEW n \in Nat, Used + n <= received
    PROVE  /\ Upto(chunk, n) = SubSeq(stream, Used + 1, Used + n)
           /\ From(chunk, n) = SubSeq(stream, Used + n + 1, received)
           /\ Used + n \in 0..received
           /\ received - Len(From(chunk, n)) = Used + n
<1>1. PICK u : u = Used
  OBVIOUS
<1>2. /\ u \in Nat /\ received \in Nat /\ Len(stream) \in Nat
      /\ stream \in Seq(Byte) /\ u + n <= received /\ received <= Len(stream)
      /\ chunk = SubSeq(stream, u + 1, received)
  <2>1. /\ stream \in Seq(Byte) /\ received \in Nat /\ Used \in Nat
        /\ received \in 0..Len(stream)
        /\ chunk = SubSeq(stream, Used + 1, received)
    BY InStepTells
  <2>2. Len(stream) \in Nat
    BY LayoutTells
  <2> QED
    BY <1>1, <2>1, <2>2
<1>3. /\ n \in 0..(received - u) /\ received \in u..Len(stream)
      /\ u + n \in Nat /\ received \in (u + n)..Len(stream)
      /\ 0 \in 0..(received - (u + n)) /\ u + n \in 0..received
  BY <1>2
<1>4. /\ Upto(chunk, n) = SubSeq(stream, u + 1, u + n)
      /\ From(chunk, n) = SubSeq(stream, u + n + 1, received)
  BY <1>2, <1>3, CutPiece
<1>5. Len(SubSeq(stream, (u + n) + 1, received)) = received - (u + n)
  BY <1>2, <1>3, CutPiece
<1>6. received - Len(From(chunk, n)) = u + n
  <2>1. received - (received - (u + n)) = u + n
    BY <1>2, <1>3
  <2>2. (u + n) + 1 = u + n + 1
    BY <1>2
  <2> QED
    BY <1>4, <1>5, <2>1, <2>2
<1> QED
  BY <1>1, <1>3, <1>4, <1>6

LEMMA StartHeaderKeeps == ASSUME FramingInv, StartHeader PROVE FramingInv'
<1>1. /\ header = <<>> /\ chunk # <<>> /\ Len(header) = 0
      /\ header' = Upto(chunk, HeaderLen) /\ chunk' = From(chunk, HeaderLen)
      /\ UNCHANGED <<sent, stream, starts, received, body, inBody, delivered, cut>>
      /\ chunk \in Seq(Byte) /\ HeaderLen \in Nat \ {0}
  BY SizesArePositive DEF StartHeader, wire, FramingInv, TypeOK
<1>2. /\ header' \in Seq(Byte) /\ chunk' \in Seq(Byte)
      /\ Len(header') <= HeaderLen
  BY <1>1, Cut
<1>3. TypeOK' /\ Layout'
  BY <1>1, <1>2 DEF FramingInv, TypeOK, Layout
<1>4. BodyIsShort'
  BY <1>1 DEF FramingInv, BodyIsShort
<1>5. ASSUME InStep PROVE InStep'
  <2> DEFINE d == Len(delivered)
  <2>1. /\ d < Len(sent) /\ Used = starts[d + 1]
        /\ Used + HeaderLen <= received
    BY <1>1, <1>5, HeaderIsThere
  <2>2. /\ header' = SubSeq(stream, Used + 1, Used + HeaderLen)
        /\ chunk' = SubSeq(stream, Used + HeaderLen + 1, received)
        /\ Used' = Used + HeaderLen /\ Used + HeaderLen \in 0..received
    BY <1>1, <1>5, <2>1, CutChunk DEF Used
  <2>5. header' = Header(Len(sent[d + 1]))
    <3>1. d + 1 \in 1..Len(sent)
      BY <1>5, <2>1, InStepTells, LayoutTells
    <3> QED
      BY <2>1, <2>2, <3>1, LayoutTells
  <2>6. received' \in Ends'
    BY <1>1, <1>5 DEF InStep, Ends
  <2>7. /\ Used' \in 0..received'
        /\ chunk' = SubSeq(stream', Used' + 1, received')
        /\ Used' = starts'[d + 1] + HeaderLen
    BY <1>1, <2>1, <2>2
  <2> QED
    BY <1>1, <1>5, <2>1, <2>5, <2>6, <2>7 DEF InStep
<1> QED
  BY <1>1, <1>3, <1>4, <1>5 DEF FramingInv

\* A header in two pieces is not met as long as no chunk cuts one.
LEMMA ContinueHeaderKeeps == ASSUME FramingInv, ContinueHeader PROVE FramingInv'
<1>1. /\ Len(header) \in 1..(HeaderLen - 1)
      /\ header' = header \o Upto(chunk, HeaderLen - Len(header))
      /\ chunk' = From(chunk, HeaderLen - Len(header'))
      /\ UNCHANGED <<sent, stream, starts, received, body, inBody, delivered, cut>>
      /\ chunk \in Seq(Byte) /\ header \in Seq(Byte) /\ HeaderLen \in Nat \ {0}
  BY SizesArePositive DEF ContinueHeader, wire, FramingInv, TypeOK
<1>2. header' \in Seq(Byte) /\ Len(header') <= HeaderLen
  <2> DEFINE more == Upto(chunk, HeaderLen - Len(header))
  <2>1. HeaderLen - Len(header) \in Nat
    BY <1>1
  <2>2. more \in Seq(Byte) /\ Len(more) <= HeaderLen - Len(header)
    BY <1>1, <2>1, Cut
  <2> HIDE DEF more
  <2>3. header \o more \in Seq(Byte) /\ Len(header \o more) = Len(header) + Len(more)
    BY <1>1, <2>2, ConcatProperties
  <2> QED
    BY <1>1, <2>2, <2>3 DEF more
<1>3. chunk' \in Seq(Byte)
  <2>1. HeaderLen - Len(header') \in Nat
    BY <1>1, <1>2
  <2> QED
    BY <1>1, <2>1, Cut
<1>4. TypeOK' /\ Layout'
  BY <1>1, <1>2, <1>3 DEF FramingInv, TypeOK, Layout
<1>5. BodyIsShort'
  BY <1>1 DEF FramingInv, BodyIsShort
<1>6. ~InStep
  <2>1. ASSUME NEW b \in Bodies PROVE header # Header(Len(b))
    BY <1>1, HeaderTells
  <2>2. Len(delivered) < Len(sent) => sent[Len(delivered) + 1] \in Bodies
    BY DEF FramingInv, TypeOK
  <2>3. header # <<>>
    BY <1>1
  <2> QED
    BY <2>1, <2>2, <2>3 DEF InStep
<1> QED
  BY <1>1, <1>4, <1>5, <1>6 DEF FramingInv

\* What Keep leaves behind.
LEMMA KeepLeaves ==
    ASSUME NEW b \in Seq(Byte), NEW n \in Nat, Len(b) <= n, Keep(b, n),
           FramingInv, Len(header) = HeaderLen
    PROVE  /\ header' \in Seq(Byte) /\ Len(header') <= HeaderLen
           /\ body' \in Seq(Byte) /\ inBody' \in BOOLEAN
           /\ delivered' \in Seq(Seq(Byte))
           /\ inBody' => header' = header /\ Len(body') < n
<1>1. /\ header \in Seq(Byte) /\ Len(header) <= HeaderLen
      /\ delivered \in Seq(Seq(Byte))
      /\ <<>> \in Seq(Byte) /\ Len(<<>>) = 0 /\ HeaderLen \in Nat
  BY SizesArePositive, EmptySeq DEF FramingInv, TypeOK
<1>2. CASE Len(b) = n
  <2>1. /\ delivered' = Append(delivered, b) /\ header' = <<>> /\ body' = <<>>
        /\ inBody' = FALSE
    BY <1>2 DEF Keep
  <2>2. Append(delivered, b) \in Seq(Seq(Byte))
    BY <1>1, AppendProperties
  <2>3. Len(header') <= HeaderLen
    BY <1>1, <2>1
  <2> QED
    BY <1>1, <2>1, <2>2, <2>3, Zenon
<1>3. CASE Len(b) # n
  <2>1. /\ body' = b /\ inBody' = TRUE
        /\ delivered' = delivered /\ header' = header
    BY <1>3 DEF Keep
  <2> QED
    BY <1>1, <1>3, <2>1
<1> QED
  BY <1>2, <1>3

LEMMA StartBodyKeeps == ASSUME FramingInv, StartBody PROVE FramingInv'
<1> DEFINE msglen == BigEndian(header)
<1>1. /\ Len(header) = HeaderLen /\ chunk # <<>> /\ ~inBody
      /\ Keep(Upto(chunk, msglen), msglen) /\ chunk' = From(chunk, msglen)
      /\ UNCHANGED <<sent, stream, starts, received, cut>>
      /\ chunk \in Seq(Byte) /\ msglen \in Nat
  BY BigEndianIsNat DEF StartBody, wire, FramingInv, TypeOK
<1> HIDE DEF msglen
<1>2. /\ Upto(chunk, msglen) \in Seq(Byte) /\ Len(Upto(chunk, msglen)) <= msglen
      /\ chunk' \in Seq(Byte)
  BY <1>1, Cut
<1>3. /\ header' \in Seq(Byte) /\ Len(header') <= HeaderLen
      /\ body' \in Seq(Byte) /\ inBody' \in BOOLEAN
      /\ delivered' \in Seq(Seq(Byte))
      /\ inBody' => header' = header /\ Len(body') < msglen
  BY <1>1, <1>2, KeepLeaves
<1>4. TypeOK' /\ Layout'
  BY <1>1, <1>2, <1>3 DEF FramingInv, TypeOK, Layout
<1>5. BodyIsShort'
  BY <1>1, <1>3 DEF BodyIsShort, msglen
<1>6. ASSUME InStep PROVE InStep'
  <2> DEFINE d == Len(delivered)
             b == sent[d + 1]
  <2>1. /\ d < Len(sent) /\ b \in Bodies /\ msglen = Len(b)
        /\ Used = starts[d + 1] + HeaderLen /\ Used + Len(b) <= received
    BY <1>1, <1>6, BodyIsThere DEF msglen
  <2>2. /\ d \in Nat /\ Len(sent) \in Nat
        /\ delivered \in Seq(Seq(Byte))
    BY <1>6, InStepTells, LayoutTells
  <2>3. /\ Upto(chunk, msglen) = SubSeq(stream, Used + 1, Used + msglen)
        /\ chunk' = SubSeq(stream, Used + msglen + 1, received)
        /\ Used' = Used + msglen /\ Used + msglen \in 0..received
    BY <1>1, <1>6, <2>1, CutChunk DEF Used
  <2>4. /\ d + 1 \in DOMAIN sent /\ (d + 1) + 1 = d + 2
        /\ starts[d + 2] = starts[d + 1] + HeaderLen + Len(b)
        /\ SubSeq(stream, starts[d + 1] + HeaderLen + 1, starts[d + 2]) = b
    <3>1. d + 1 \in 1..Len(sent) /\ (d + 1) + 1 = d + 2
      BY <2>1, <2>2
    <3> QED
      BY <3>1, LayoutTells
  <2>5. Upto(chunk, msglen) = b
    <3>1. Used + msglen = starts[d + 2]
      BY <2>1, <2>4
    <3> QED
      BY <2>1, <2>3, <2>4, <3>1
  <2>6. /\ delivered' = Append(delivered, b) /\ header' = <<>> /\ ~inBody'
    BY <1>1, <2>1, <2>5 DEF Keep
  <2>8. Used' = starts[d + 2]
    BY <2>1, <2>3, <2>4
  <2>9. received' \in Ends'
    BY <1>1, <1>6 DEF InStep, Ends
  <2>10. /\ b \in Seq(Byte) /\ Len(delivered') = d + 1
         /\ \A i \in 1..(d + 1) : delivered'[i] = sent[i]
    <3>1. b \in Seq(Byte)
      BY <2>1, BodiesFit
    <3>2. \A i \in 1..d : delivered[i] = sent[i]
      BY <1>6 DEF InStep
    <3>3. /\ Len(delivered') = d + 1 /\ delivered'[d + 1] = b
          /\ \A i \in 1..d : delivered'[i] = delivered[i]
      BY <2>2, <2>6, <3>1
    <3>4. ASSUME NEW i \in 1..(d + 1) PROVE delivered'[i] = sent[i]
      <4>1. i = d + 1 \/ i \in 1..d
        BY <2>2
      <4> QED
        BY <3>2, <3>3, <4>1
    <3> QED
      BY <3>1, <3>3, <3>4
  <2>11. Used' \in 0..received' /\ d + 1 <= Len(sent)
    BY <1>1, <2>1, <2>2, <2>3
  <2> HIDE DEF b, d
  <2> QED
    BY <1>1, <2>2, <2>3, <2>4, <2>6, <2>8, <2>9, <2>10, <2>11 DEF InStep
<1> QED
  BY <1>1, <1>4, <1>5, <1>6 DEF FramingInv

\* Nor is a body in two pieces.
LEMMA ContinueBodyKeeps == ASSUME FramingInv, ContinueBody PROVE FramingInv'
<1> DEFINE msglen == BigEndian(header)
           more == Upto(chunk, msglen - Len(body))
           grown == body \o more
<1>1. /\ Len(header) = HeaderLen /\ inBody
      /\ Keep(grown, msglen) /\ chunk' = From(chunk, msglen - Len(grown))
      /\ UNCHANGED <<sent, stream, starts, received, cut>>
      /\ chunk \in Seq(Byte) /\ body \in Seq(Byte) /\ msglen \in Nat
      /\ Len(body) < msglen
  BY BigEndianIsNat DEF ContinueBody, wire, FramingInv, TypeOK, BodyIsShort
<1> HIDE DEF msglen
<1>2. more \in Seq(Byte) /\ Len(more) <= msglen - Len(body)
  <2>1. msglen - Len(body) \in Nat
    BY <1>1
  <2> QED
    BY <1>1, <2>1, Cut
<1> HIDE DEF more
<1>3. grown \in Seq(Byte) /\ Len(grown) <= msglen
  BY <1>1, <1>2, ConcatProperties
<1> HIDE DEF grown
<1>4. chunk' \in Seq(Byte)
  <2>1. msglen - Len(grown) \in Nat
    BY <1>1, <1>3
  <2> QED
    BY <1>1, <2>1, Cut
<1>5. /\ header' \in Seq(Byte) /\ Len(header') <= HeaderLen
      /\ body' \in Seq(Byte) /\ inBody' \in BOOLEAN
      /\ delivered' \in Seq(Seq(Byte))
      /\ inBody' => header' = header /\ Len(body') < msglen
  BY <1>1, <1>3, KeepLeaves
<1>6. TypeOK' /\ Layout'
  BY <1>1, <1>4, <1>5 DEF FramingInv, TypeOK, Layout
<1>7. BodyIsShort'
  BY <1>1, <1>5 DEF BodyIsShort, msglen
<1> QED
  BY <1>1, <1>6, <1>7 DEF FramingInv, InStep

LEMMA NextFraming == FramingInv /\ [Next]_vars => FramingInv'
<1> SUFFICES ASSUME FramingInv, [Next]_vars PROVE FramingInv'
  OBVIOUS
<1>1. ASSUME NEW b \in Bodies, Send(b) PROVE FramingInv'
  BY <1>1, SendKeeps
<1>2. ASSUME NEW n \in (received + 1)..Len(stream), Receive(n) PROVE FramingInv'
  BY <1>2, ReceiveKeeps
<1>3. CASE Loop
  BY <1>3, StartHeaderKeeps, ContinueHeaderKeeps, StartBodyKeeps,
     ContinueBodyKeeps DEF Loop
<1>4. CASE UNCHANGED vars
  BY <1>4 DEF vars, wire, FramingInv, TypeOK, Layout, BodyIsShort, InStep,
              Used, Ends
<1> QED
  BY <1>1, <1>2, <1>3, <1>4 DEF Next

LEMMA FramingInvHolds == Spec => []FramingInv
  BY InitFraming, NextFraming, PTL DEF Spec

\* What data_received keeps between calls has its types, and a header that
\* is being received never grows too long, however the stream is cut.
THEOREM FramesTyped == Spec => []TypeOK
<1>1. FramingInv => TypeOK
  BY DEF FramingInv
<1> QED
  BY <1>1, FramingInvHolds, PTL

\* As long as chunks end where headers and bodies end, the frames reach
\* serviceReply whole, in the order sent, and none is left behind.
THEOREM FramesReachService == Spec => []FramesArrive
<1>1. FramingInv => FramesArrive
  <2> SUFFICES ASSUME FramingInv, InStep
               PROVE  /\ IsPrefix(delivered, sent)
                      /\ received = Len(stream) /\ chunk = <<>>
                             => delivered = sent
    BY DEF FramingInv, FramesArrive
  <2> DEFINE d == Len(delivered)
             n == Len(sent)
  <2>1. /\ delivered \in Seq(Seq(Byte)) /\ sent \in Seq(Bodies)
        /\ d \in Nat /\ n \in Nat /\ d <= n
        /\ \A i \in 1..d : delivered[i] = sent[i]
    BY InStepTells, LayoutTells DEF FramingInv, TypeOK
  <2>2. sent \in Seq(Seq(Byte))
    BY <2>1, BodiesFit, SeqMonotonic
  <2>3. IsPrefix(delivered, sent)
    <3>1. SubSeq(delivered, 1, d) = delivered
      BY <2>1, SubSeqFull
    <3>2. /\ SubSeq(sent, 1, d) \in Seq(Seq(Byte))
          /\ Len(SubSeq(sent, 1, d)) = d
          /\ \A i \in 1..d : SubSeq(sent, 1, d)[i] = sent[i]
      <4>1. \A i \in 1..d : sent[i] \in Seq(Byte)
        BY <2>1, <2>2
      <4> QED
        BY <2>1, <4>1, SubSeqProperties
    <3>3. delivered = SubSeq(sent, 1, d)
      BY <2>1, <3>2, SeqEqual
    <3> QED
      BY <2>1, <3>1, <3>3 DEF IsPrefix
  <2>4. ASSUME received = Len(stream), chunk = <<>> PROVE delivered = sent
    <3>1. /\ Used = starts[n + 1] /\ HeaderLen \in Nat \ {0}
          /\ \A i, j \in 1..(n + 1) : i < j => starts[i] + HeaderLen < starts[j]
          /\ \A i \in 1..(n + 1) : starts[i] \in Nat
      <4>1. Used = Len(stream) /\ starts[n + 1] = Len(stream)
        BY <2>4, InStepTells, LayoutTells, EmptySeq
      <4> QED
        BY <4>1, LayoutTells
    <3>2. CASE d < n
      <4>1. /\ starts[d + 1] + HeaderLen < starts[n + 1]
            /\ starts[d + 1] \in Nat /\ starts[n + 1] \in Nat
        BY <2>1, <3>1, <3>2
      <4>2. Used = starts[d + 1] \/ Used = starts[d + 1] + HeaderLen
        BY DEF InStep
      <4> QED
        BY <3>1, <4>1, <4>2
    <3>3. CASE d = n
      BY <2>1, <2>2, <3>3, SeqEqual
    <3> QED
      BY <2>1, <3>2, <3>3
  <2> QED
    BY <2>3, <2>4
<1> QED
  BY <1>1, FramingInvHolds, PTL

-----------------------------------------------------------------------------
(* The recursive functions of Codec.  Each is determined by how its value  *)
(* at a number follows from the one before.                                *)

\* One value more, unless one raised.
EncodeMore(below, e, v) ==
    LET d == IF v = Null THEN [data |-> Null, shapes |-> e.shapes]
                         ELSE below[v][e.shapes]
    IN  IF Raised \in ToSet(e.parts) THEN e
        ELSE [parts |-> Append(e.parts, d.data), shapes |-> d.shapes]

Step(what, i, before) ==
    CASE what[1] = "encoders" ->
            [val \in Values |-> [shapes \in Tables |->
                EncoderOf(what[2], before, val, shapes)]]
      [] what[1] = "decoders" ->
            [t \in TypesUsed |-> [d \in Seq(Octet) |-> [shapes \in Tables |->
                DecoderOf(before, t, d, shapes)]]]
      [] what[1] = "readings" ->
            [t \in TypesUsed |-> [val \in Values |->
                ReadingOf(what[2], before, t, val)]]
      [] what[1] = "sorted" ->
            IF i = 0 THEN <<>>
            ELSE IF Names[i] \in what[2] THEN Append(before, Names[i]) ELSE before
      [] what[1] = "encoded" ->
            IF i = 0 THEN [parts |-> <<>>, shapes |-> what[4]]
            ELSE EncodeMore(what[2], before, what[3][i])

LEMMA StepsExist ==
    ASSUME NEW what, NEW m \in Nat
    PROVE  \E f : f = [n \in 0..m |-> Step(what, n, IF n = 0 THEN <<>> ELSE f[n - 1])]
<1> DEFINE Value(f, n) == Step(what, n, IF n = 0 THEN <<>> ELSE f[n - 1])
           Begun(n) == \E f : f = [i \in 0..n |-> Value(f, i)]
           T == {n \in Nat : Begun(n)}
<1>1. Begun(0)
  <2> DEFINE f == [i \in 0..0 |-> Step(what, 0, <<>>)]
  <2>1. f = [i \in 0..0 |-> Value(f, i)]
    OBVIOUS
  <2> QED
    BY <2>1
<1>2. ASSUME NEW n \in Nat, Begun(n) PROVE Begun(n + 1)
  <2>1. PICK f : f = [i \in 0..n |-> Value(f, i)]
    BY <1>2
  <2> DEFINE g == [i \in 0..(n + 1) |->
                      IF i = n + 1 THEN Step(what, n + 1, f[n]) ELSE f[i]]
  <2>2. ASSUME NEW i \in 0..(n + 1) PROVE g[i] = Value(g, i)
    <3>1. CASE i = n + 1
      <4>1. i # 0 /\ i - 1 = n /\ g[n] = f[n]
        BY <3>1
      <4> QED
        BY <3>1, <4>1
    <3>2. CASE i # n + 1
      <4>1. i \in 0..n /\ g[i] = f[i] /\ f[i] = Value(f, i)
        BY <2>1, <3>2
      <4>2. i # 0 => g[i - 1] = f[i - 1]
        BY <4>1
      <4> QED
        BY <4>1, <4>2
    <3> QED
      BY <3>1, <3>2
  <2>3. g = [i \in 0..(n + 1) |-> Value(g, i)]
    BY <2>2
  <2> QED
    BY <2>3
<1>3. T = Nat
  <2>1. 0 \in T /\ T \in SUBSET Nat /\ \A n \in T : n + 1 \in T
    BY <1>1, <1>2
  <2> HIDE DEF T
  <2> QED
    BY <2>1, Induct
<1> QED
  BY <1>3

\* What is below values that are nested n deep.
Below(f, n) == IF n = 0 THEN <<>> ELSE f[n - 1]

LEMMA EncodersSteps ==
    ASSUME NEW server, NEW n \in 0..Depth, NEW val \in Values, NEW shapes \in Tables
    PROVE  Encoders(server)[n][val][shapes] =
               EncoderOf(server, Below(Encoders(server), n), val, shapes)
<1> DEFINE what == <<"encoders", server>>
           Row(f, m) == [v \in Values |-> [s \in Tables |->
                            EncoderOf(server, IF m = 0 THEN <<>> ELSE f[m - 1], v, s)]]
           E == CHOOSE f : f = [m \in 0..Depth |-> Row(f, m)]
<1>1. PICK f : f = [m \in 0..Depth |-> Step(what, m, IF m = 0 THEN <<>> ELSE f[m - 1])]
  BY StepsExist, DepthIsNat
<1>2. \A m : Step(what, m, IF m = 0 THEN <<>> ELSE f[m - 1]) = Row(f, m)
  BY DEF Step
<1>3. f = [m \in 0..Depth |-> Row(f, m)]
  BY <1>1, <1>2
<1>4. E = [m \in 0..Depth |-> Row(E, m)]
  BY <1>3
<1>5. Encoders(server) = E
  BY DEF Encoders
<1> HIDE DEF E
<1>6. E[n] = Row(E, n)
  BY <1>4
<1> QED
  BY <1>5, <1>6 DEF Below

LEMMA DecodersSteps ==
    ASSUME NEW n \in 0..Depth, NEW t \in TypesUsed, NEW d \in Seq(Octet),
           NEW shapes \in Tables
    PROVE  Decoders[n][t][d][shapes] = DecoderOf(Below(Decoders, n), t, d, shapes)
<1> DEFINE what == <<"decoders">>
           Row(f, m) == [u \in TypesUsed |-> [c \in Seq(Octet) |-> [s \in Tables |->
                            DecoderOf(IF m = 0 THEN <<>> ELSE f[m - 1], u, c, s)]]]
           D == CHOOSE f : f = [m \in 0..Depth |-> Row(f, m)]
<1>1. PICK f : f = [m \in 0..Depth |-> Step(what, m, IF m = 0 THEN <<>> ELSE f[m - 1])]
  BY StepsExist, DepthIsNat
<1>2. \A m : Step(what, m, IF m = 0 THEN <<>> ELSE f[m - 1]) = Row(f, m)
  BY DEF Step
<1>3. f = [m \in 0..Depth |-> Row(f, m)]
  BY <1>1, <1>2
<1>4. D = [m \in 0..Depth |-> Row(D, m)]
  BY <1>3
<1>5. Decoders = D
  BY DEF Decoders
<1> HIDE DEF D
<1>6. D[n] = Row(D, n)
  BY <1>4
<1> QED
  BY <1>5, <1>6 DEF Below

LEMMA ReadingsSteps ==
    ASSUME NEW server, NEW n \in 0..Depth, NEW t \in TypesUsed, NEW val \in Values
    PROVE  Readings(server)[n][t][val] =
               ReadingOf(server, Below(Readings(server), n), t, val)
<1> DEFINE what == <<"readings", server>>
           Row(f, m) == [u \in TypesUsed |-> [v \in Values |->
                            ReadingOf(server, IF m = 0 THEN <<>> ELSE f[m - 1], u, v)]]
           R == CHOOSE f : f = [m \in 0..Depth |-> Row(f, m)]
<1>1. PICK f : f = [m \in 0..Depth |-> Step(what, m, IF m = 0 THEN <<>> ELSE f[m - 1])]
  BY StepsExist, DepthIsNat
<1>2. \A m : Step(what, m, IF m = 0 THEN <<>> ELSE f[m - 1]) = Row(f, m)
  BY DEF Step
<1>3. f = [m \in 0..Depth |-> Row(f, m)]
  BY <1>1, <1>2
<1>4. R = [m \in 0..Depth |-> Row(R, m)]
  BY <1>3
<1>5. Readings(server) = R
  BY DEF Readings
<1> HIDE DEF R
<1>6. R[n] = Row(R, n)
  BY <1>4
<1> QED
  BY <1>5, <1>6 DEF Below

LEMMA EncodedSteps ==
    ASSUME NEW below, NEW values, NEW shapes, Len(values) \in Nat
    PROVE  \E f : /\ Encoded(below, values, shapes) = f[Len(values)]
                  /\ f[0] = [parts |-> <<>>, shapes |-> shapes]
                  /\ \A i \in 1..Len(values) :
                         f[i] = EncodeMore(below, f[i - 1], values[i])
<1> DEFINE m == Len(values)
           what == <<"encoded", below, values, shapes>>
           Next1(f, i) == IF i = 0 THEN [parts |-> <<>>, shapes |-> shapes]
                         ELSE EncodeMore(below, f[i - 1], values[i])
           E == CHOOSE f : f = [i \in 0..m |-> Next1(f, i)]
<1>1. PICK f : f = [i \in 0..m |-> Step(what, i, IF i = 0 THEN <<>> ELSE f[i - 1])]
  BY StepsExist
<1>2. \A i : Step(what, i, IF i = 0 THEN <<>> ELSE f[i - 1]) = Next1(f, i)
  BY DEF Step
<1>3. f = [i \in 0..m |-> Next1(f, i)]
  BY <1>1, <1>2
<1>4. E = [i \in 0..m |-> Next1(E, i)]
  BY <1>3
<1>5. Encoded(below, values, shapes) = E[m]
  BY DEF Encoded, EncodeMore
<1> HIDE DEF E
<1>6. E[0] = [parts |-> <<>>, shapes |-> shapes]
  BY <1>4
<1>7. \A i \in 1..m : E[i] = EncodeMore(below, E[i - 1], values[i])
  BY <1>4
<1> QED
  BY <1>5, <1>6, <1>7

-----------------------------------------------------------------------------
(* Shapes.                                                                 *)

\* A container's keys are in its shape, each once.
LEMMA SortedKeys ==
    ASSUME NEW keys \in SUBSET Keys
    PROVE  /\ Sorted(keys) \in Seq(Keys)
           /\ IsInjective(Sorted(keys))
           /\ ToSet(Sorted(keys)) = keys
<1> DEFINE m == Len(Names)
           what == <<"sorted", keys>>
           Value(f, i) == IF i = 0 THEN <<>>
                          ELSE IF Names[i] \in keys THEN Append(f[i - 1], Names[i])
                                                    ELSE f[i - 1]
           S == CHOOSE f : f = [i \in 0..m |-> Value(f, i)]
<1>1. /\ m \in Nat /\ DOMAIN Names = 1..m /\ Keys = {Names[i] : i \in 1..m}
      /\ \A i, j \in 1..m : Names[i] = Names[j] => i = j
  BY NamesDiffer DEF Keys, ToSet, IsInjective
<1>2. S = [i \in 0..m |-> Value(S, i)]
  <2>1. PICK f : f = [i \in 0..m |-> Step(what, i, IF i = 0 THEN <<>> ELSE f[i - 1])]
    BY <1>1, StepsExist
  <2>2. \A i : Step(what, i, IF i = 0 THEN <<>> ELSE f[i - 1]) = Value(f, i)
    BY DEF Step
  <2>3. f = [i \in 0..m |-> Value(f, i)]
    BY <2>1, <2>2
  <2> QED
    BY <2>3
<1>3. Sorted(keys) = S[m]
  BY DEF Sorted
<1> HIDE DEF S
<1> DEFINE Begun(i) == /\ S[i] \in Seq(Keys)
                       /\ \A a, b \in 1..Len(S[i]) : S[i][a] = S[i][b] => a = b
                       /\ {S[i][a] : a \in 1..Len(S[i])} =
                              keys \cap {Names[j] : j \in 1..i}
           T == {i \in 0..m : Begun(i)}
<1>4. 0 \in T
  <2>1. S[0] = <<>> /\ 0 \in 0..m
    BY <1>1, <1>2
  <2>2. Len(S[0]) = 0 /\ 1..0 = {}
    BY <2>1
  <2>3. S[0] \in Seq(Keys)
    BY <2>1
  <2> QED
    BY <2>1, <2>2, <2>3
<1>5. ASSUME NEW i \in 0..(m - 1), i \in T PROVE i + 1 \in T
  <2> DEFINE s == S[i]
             name == Names[i + 1]
             l == Len(s)
  <2>1. /\ S[i + 1] = IF name \in keys THEN Append(s, name) ELSE s
        /\ i + 1 \in 1..m /\ i + 1 \in 0..m /\ name \in Keys
        /\ \A j \in 1..i : Names[j] # name
    <3> HIDE DEF T
    <3>1. i + 1 \in 1..m /\ i + 1 \in 0..m /\ i + 1 # 0 /\ (i + 1) - 1 = i
      BY <1>1
    <3>2. \A j \in 1..i : j \in 1..m /\ j # i + 1
      BY <1>1
    <3> QED
      BY <1>1, <1>2, <3>1, <3>2
  <2>2. /\ s \in Seq(Keys) /\ l \in Nat
        /\ \A a, b \in 1..l : s[a] = s[b] => a = b
        /\ {s[a] : a \in 1..l} = keys \cap {Names[j] : j \in 1..i}
    <3>1. Begun(i)
      BY <1>5
    <3>2. Len(S[i]) \in Nat
      BY <3>1
    <3> QED
      BY <3>1, <3>2
  <2>3. {Names[j] : j \in 1..(i + 1)} = {Names[j] : j \in 1..i} \cup {name}
    BY <1>1, <1>5
  <2>4. CASE name \notin keys
    <3>1. keys \cap {Names[j] : j \in 1..(i + 1)} = keys \cap {Names[j] : j \in 1..i}
      BY <2>3, <2>4
    <3>2. S[i + 1] = s
      BY <2>1, <2>4
    <3> QED
      BY <2>1, <2>2, <3>1, <3>2
  <2>5. CASE name \in keys
    <3>1. S[i + 1] = Append(s, name)
      BY <2>1, <2>5
    <3> HIDE DEF s, name
    <3> DEFINE r == Append(s, name)
    <3>2. /\ r \in Seq(Keys) /\ Len(r) = l + 1 /\ r[l + 1] = name
          /\ \A a \in 1..l : r[a] = s[a]
      BY <2>1, <2>2, AppendProperties
    <3>3. \A a \in 1..l : s[a] # name
      <4>1. \A a \in 1..l : s[a] \in {Names[j] : j \in 1..i}
        BY <2>2
      <4> QED
        BY <4>1, <2>1
    <3>4. \A a, b \in 1..(l + 1) : r[a] = r[b] => a = b
      <4>1. \A a \in 1..(l + 1) : a \in 1..l \/ a = l + 1
        BY <2>2
      <4> QED
        BY <2>2, <3>2, <3>3, <4>1
    <3>5. {r[a] : a \in 1..(l + 1)} = {s[a] : a \in 1..l} \cup {name}
      <4>1. \A a \in 1..(l + 1) : a \in 1..l \/ a = l + 1
        BY <2>2
      <4>2. \A a \in 1..l : a \in 1..(l + 1)
        BY <2>2
      <4>3. l + 1 \in 1..(l + 1)
        BY <2>2
      <4> HIDE DEF r, l
      <4> QED
        BY <3>2, <4>1, <4>2, <4>3
    <3>6. {r[a] : a \in 1..(l + 1)} = keys \cap {Names[j] : j \in 1..(i + 1)}
      BY <2>2, <2>3, <2>5, <3>5
    <3>7. Len(r) = l + 1 /\ S[i + 1] = r /\ r \in Seq(Keys)
      BY <3>1, <3>2
    <3>8. Len(S[i + 1]) = l + 1
      BY <3>7
    <3> HIDE DEF r, l
    <3>9. Begun(i + 1)
      BY <3>4, <3>6, <3>7, <3>8
    <3> QED
      BY <2>1, <3>9
  <2> QED
    BY <2>4, <2>5
<1>6. m \in T
  <2> HIDE DEF T
  <2>1. 0..m \subseteq T
    BY <1>1, <1>4, <1>5, InductTo
  <2> QED
    BY <1>1, <2>1
<1>7. keys \cap {Names[j] : j \in 1..m} = keys
  BY <1>1
<1>8. DOMAIN S[m] = 1..Len(S[m])
  BY <1>6
<1> QED
  BY <1>3, <1>6, <1>7, <1>8 DEF IsInjective, ToSet

LEMMA Lowest ==
    ASSUME NEW S \in SUBSET Nat, S # {}
    PROVE  Min(S) \in S
<1>1. PICK x \in S : \A y \in S : ~(<<y, x>> \in OpToRel(<, Nat))
  BY WFMin, NatLessThanWellFounded, Zenon
<1>2. \A y \in S : x <= y
  <2>1. \A y \in S : ~(y < x)
    BY <1>1 DEF OpToRel
  <2>2. \A y \in S : y \in Nat /\ x \in Nat
    OBVIOUS
  <2> QED
    BY <2>1, <2>2
<1>3. \E z \in S : \A y \in S : z <= y
  BY <1>2
<1>4. Min(S) = CHOOSE z \in S : \A y \in S : z <= y
  BY DEF Min
<1> QED
  BY <1>3, <1>4

LEMMA Found ==
    ASSUME NEW S, NEW s \in Seq(S), NEW x \in ToSet(s)
    PROVE  Place(s, x) \in 1..Len(s) /\ s[Place(s, x)] = x
<1> DEFINE I == {i \in 1..Len(s) : s[i] = x}
<1>1. Len(s) \in Nat /\ DOMAIN s = 1..Len(s)
  OBVIOUS
<1>2. I # {} /\ I \in SUBSET Nat
  BY <1>1 DEF ToSet
<1>3. Place(s, x) = Min(I)
  BY <1>2 DEF Place, SelectInSeq
<1>4. Min(I) \in I
  <2> HIDE DEF I
  <2> QED
    BY <1>2, Lowest
<1> QED
  BY <1>3, <1>4

\* A table has no shape twice, and a shape no key.
TableFine(t) == t \in Tables /\ IsInjective(t) /\ \A i \in 1..Len(t) : IsInjective(t[i])

Extends(t, u) == Len(t) <= Len(u) /\ \A i \in 1..Len(t) : u[i] = t[i]

LEMMA ExtendsItself == ASSUME NEW t \in Tables PROVE Extends(t, t)
  BY DEF Extends, Tables

LEMMA ExtendsOn ==
    ASSUME NEW t \in Tables, NEW u \in Tables, NEW w \in Tables,
           Extends(t, u), Extends(u, w)
    PROVE  Extends(t, w)
<1>1. Len(t) \in Nat /\ Len(u) \in Nat /\ Len(w) \in Nat
  BY DEF Tables
<1>2. \A i \in 1..Len(t) : i \in 1..Len(u)
  BY <1>1 DEF Extends
<1> QED
  BY <1>1, <1>2 DEF Extends

\* A shape is found in whatever the table grows to.
LEMMA ShapeIsThere ==
    ASSUME NEW t, TableFine(t), NEW shape \in Seq(Keys), IsInjective(shape)
    PROVE  LET u == WithShape(t, shape)
           IN  /\ TableFine(u) /\ Extends(t, u)
               /\ ShapeId(u, shape) \in Nat
               /\ \A w \in Tables : Extends(u, w) => w[ShapeId(u, shape) + 1] = shape
<1> DEFINE u == WithShape(t, shape)
           l == Len(t)
           S == Seq(Keys)
<1>1. /\ t \in Seq(S) /\ l \in Nat /\ \A i \in 1..l : t[i] \in S /\ IsInjective(t[i])
      /\ DOMAIN t = 1..l
      /\ \A i, j \in 1..l : t[i] = t[j] => i = j
  BY DEF TableFine, Tables, IsInjective
<1>2. TableFine(u) /\ Extends(t, u) /\ shape \in ToSet(u) /\ u \in Seq(S)
  <2>1. CASE Contains(t, shape)
    <3>1. u = t
      BY <2>1 DEF WithShape
    <3>2. shape \in ToSet(t)
      BY <1>1, <2>1 DEF Contains, ToSet
    <3> QED
      BY <1>1, <3>1, <3>2, ExtendsItself DEF TableFine
  <2>2. CASE ~Contains(t, shape)
    <3>1. u = Append(t, shape)
      BY <2>2 DEF WithShape
    <3> HIDE DEF S
    <3>2. shape \in S
      BY DEF S
    <3>3. /\ u \in Seq(S) /\ Len(u) = l + 1 /\ u[l + 1] = shape
          /\ \A i \in 1..l : u[i] = t[i]
      BY <1>1, <3>1, <3>2, AppendProperties
    <3>4. \A i \in 1..l : t[i] # shape
      BY <2>2 DEF Contains
    <3>5. DOMAIN u = 1..(l + 1) /\ \A i \in 1..(l + 1) : i \in 1..l \/ i = l + 1
      BY <1>1, <3>3
    <3>6. IsInjective(u)
      BY <1>1, <3>3, <3>4, <3>5 DEF IsInjective
    <3>7. \A i \in 1..(l + 1) : IsInjective(u[i])
      <4> SUFFICES ASSUME NEW i \in 1..(l + 1) PROVE IsInjective(u[i])
        OBVIOUS
      <4>1. CASE i = l + 1
        <5>1. u[i] = shape
          BY <3>3, <4>1
        <5> QED
          BY <5>1
      <4>2. CASE i \in 1..l
        <5>1. u[i] = t[i] /\ IsInjective(t[i])
          BY <1>1, <3>3, <4>2
        <5> QED
          BY <5>1
      <4> QED
        BY <3>5, <4>1, <4>2
    <3>8. shape \in ToSet(u)
      <4>1. l + 1 \in DOMAIN u
        BY <1>1, <3>5
      <4> QED
        BY <3>3, <4>1 DEF ToSet
    <3>9. TableFine(u)
      BY <3>3, <3>6, <3>7 DEF TableFine, Tables, S
    <3>10. Extends(t, u)
      BY <1>1, <3>3 DEF Extends
    <3> QED
      BY <3>3, <3>8, <3>9, <3>10
  <2> QED
    BY <2>1, <2>2
<1> HIDE DEF u, S
<1>3. Place(u, shape) \in 1..Len(u) /\ u[Place(u, shape)] = shape
  BY <1>2, Found
<1>4. ShapeId(u, shape) \in Nat /\ ShapeId(u, shape) + 1 = Place(u, shape)
  <2>1. Len(u) \in Nat
    BY <1>2
  <2> QED
    BY <1>3, <2>1 DEF ShapeId
<1>5. \A w \in Tables : Extends(u, w) => w[ShapeId(u, shape) + 1] = shape
  BY <1>3, <1>4 DEF Extends
<1> QED
  BY <1>2, <1>4, <1>5 DEF u
-----------------------------------------------------------------------------
(* Values one after another.                                               *)

\* Bytes from which the reading of x is decoded, with whatever the table
\* grows to.
Tells(decode, read, t, x, data, table) ==
    \A u \in Tables : Extends(table, u) => decode[t][data][u] = read[t][x]

\* An encoder raises what cannot be read, and tells the reading of the rest.
Faithful(below, decode, read, t, x) ==
    \A table : TableFine(table) =>
        LET e == below[x][table]
        IN  \/ e.data = Raised /\ read[t][x] = Raised
            \/ /\ e.data \in Seq(Octet)
               /\ TableFine(e.shapes) /\ Extends(table, e.shapes)
               /\ Tells(decode, read, t, x, e.data, e.shapes)

SomeRaised(read, types, values, m) ==
    \E i \in 1..m : values[i] # Null /\ read[types[i]][values[i]] = Raised

AllTold(decode, read, types, values, m, table, e) ==
    /\ e.parts \in Parts /\ Len(e.parts) = m
    /\ TableFine(e.shapes) /\ Extends(table, e.shapes)
    /\ \A i \in 1..m : e.parts[i] = Null <=> values[i] = Null
    /\ \A i \in 1..m :
           values[i] # Null =>
               Tells(decode, read, types[i], values[i], e.parts[i], e.shapes)

LEMMA NoneRaised ==
    ASSUME NEW parts \in Parts
    PROVE  Raised \notin ToSet(parts)
<1>1. \A i \in DOMAIN parts : parts[i] \in Seq(Octet) \cup {Null}
  BY PartsTyped
<1>2. Raised \notin Seq(Octet) /\ Raised # Null
  BY NullIsNoValue
<1> QED
  BY <1>1, <1>2 DEF ToSet

\* What was told of a part is true when the table has grown.
LEMMA TellsOn ==
    ASSUME NEW decode, NEW read, NEW t, NEW x, NEW data,
           NEW table \in Tables, NEW more \in Tables, Extends(table, more),
           Tells(decode, read, t, x, data, table)
    PROVE  Tells(decode, read, t, x, data, more)
<1> SUFFICES ASSUME NEW u \in Tables, Extends(more, u)
             PROVE  decode[t][data][u] = read[t][x]
  BY DEF Tells
<1>1. Extends(table, u)
  BY ExtendsOn
<1> QED
  BY <1>1 DEF Tells

LEMMA OneMore ==
    ASSUME NEW decode, NEW read, NEW types, NEW values, NEW m \in Nat,
           NEW table, TableFine(table), NEW e,
           AllTold(decode, read, types, values, m, table, e),
           NEW part \in Seq(Octet) \cup {Null}, NEW shapes,
           TableFine(shapes), Extends(e.shapes, shapes),
           part = Null <=> values[m + 1] = Null,
           values[m + 1] # Null =>
               Tells(decode, read, types[m + 1], values[m + 1], part, shapes)
    PROVE  AllTold(decode, read, types, values, m + 1, table,
                   [parts |-> Append(e.parts, part), shapes |-> shapes])
<1> DEFINE parts == Append(e.parts, part)
           S == Seq(Octet) \cup {Null}
<1>1. e.parts \in Seq(S) /\ Len(e.parts) = m
  BY DEF AllTold, Parts
<1>2. /\ parts \in Seq(S) /\ Len(parts) = m + 1 /\ parts[m + 1] = part
      /\ \A i \in 1..m : parts[i] = e.parts[i]
  <2> HIDE DEF S
  <2>1. part \in S
    BY DEF S
  <2> QED
    BY <1>1, <2>1, AppendProperties
<1>3. parts \in Parts
  BY <1>2 DEF Parts
<1>4. /\ table \in Tables /\ e.shapes \in Tables /\ shapes \in Tables
      /\ Extends(table, e.shapes)
  BY DEF TableFine, AllTold
<1>5. Extends(table, shapes)
  BY <1>4, ExtendsOn
<1> HIDE DEF parts
<1>6. \A i \in 1..(m + 1) : i \in 1..m \/ i = m + 1
  OBVIOUS
<1>7. \A i \in 1..(m + 1) : parts[i] = Null <=> values[i] = Null
  <2>1. \A i \in 1..m : e.parts[i] = Null <=> values[i] = Null
    BY DEF AllTold
  <2> QED
    BY <1>2, <1>6, <2>1
<1>8. ASSUME NEW i \in 1..(m + 1), values[i] # Null
      PROVE  Tells(decode, read, types[i], values[i], parts[i], shapes)
  <2>1. CASE i = m + 1
    <3>1. parts[i] = part
      BY <1>2, <2>1
    <3> QED
      BY <1>8, <2>1, <3>1
  <2>2. CASE i \in 1..m
    <3>1. parts[i] = e.parts[i]
      BY <1>2, <2>2
    <3>2. Tells(decode, read, types[i], values[i], e.parts[i], e.shapes)
      BY <1>8, <2>2 DEF AllTold
    <3>3. Tells(decode, read, types[i], values[i], e.parts[i], shapes)
      BY <1>4, <3>2, TellsOn
    <3> QED
      BY <3>1, <3>3
  <2> QED
    BY <1>6, <2>1, <2>2
<1> DEFINE d == [parts |-> parts, shapes |-> shapes]
<1>9. d.parts = parts /\ d.shapes = shapes
  OBVIOUS
<1> HIDE DEF d
<1>10. AllTold(decode, read, types, values, m + 1, table, d)
  BY <1>2, <1>3, <1>5, <1>7, <1>8, <1>9 DEF AllTold
<1> QED
  BY <1>10 DEF d, parts

LEMMA PartsEncoded ==
    ASSUME NEW below, NEW decode, NEW read, NEW types, NEW values,
           Len(values) \in Nat, NEW table, TableFine(table),
           \A i \in 1..Len(values) :
               values[i] # Null => Faithful(below, decode, read, types[i], values[i])
    PROVE  LET e == Encoded(below, values, table)
           IN  \/ /\ Raised \in ToSet(e.parts)
                  /\ SomeRaised(read, types, values, Len(values))
               \/ /\ Raised \notin ToSet(e.parts)
                  /\ AllTold(decode, read, types, values, Len(values), table, e)
<1> DEFINE m == Len(values)
<1>1. PICK f : /\ Encoded(below, values, table) = f[m]
               /\ f[0] = [parts |-> <<>>, shapes |-> table]
               /\ \A i \in 1..m : f[i] = EncodeMore(below, f[i - 1], values[i])
  BY EncodedSteps
<1> DEFINE Stopped(n) == /\ Raised \in ToSet(f[n].parts)
                         /\ SomeRaised(read, types, values, m)
           Begun(n) == Stopped(n) \/ AllTold(decode, read, types, values, n, table, f[n])
           T == {n \in 0..m : Begun(n)}
<1>2. m \in Nat
  OBVIOUS
<1> HIDE DEF m
<1>3. 0 \in T
  <2>1. f[0].parts = <<>> /\ f[0].shapes = table /\ <<>> \in Parts /\ Len(<<>>) = 0
    BY <1>1 DEF Parts
  <2>2. Extends(table, table)
    BY ExtendsItself DEF TableFine
  <2>3. AllTold(decode, read, types, values, 0, table, f[0])
    <3>1. \A i \in 1..0 : FALSE
      OBVIOUS
    <3> QED
      BY <2>1, <2>2, <3>1 DEF AllTold
  <2> QED
    BY <1>2, <2>3
<1>4. ASSUME NEW n \in 0..(m - 1), n \in T PROVE n + 1 \in T
  <2> DEFINE e == f[n]
             v == values[n + 1]
  <2>1. /\ f[n + 1] = EncodeMore(below, e, v)
        /\ n \in Nat /\ n + 1 \in 1..m /\ n + 1 \in 0..m /\ Begun(n)
    <3>1. n \in Nat /\ n + 1 \in 1..m /\ n + 1 \in 0..m /\ (n + 1) - 1 = n
      BY <1>2
    <3> QED
      BY <1>1, <1>4, <3>1
  <2> SUFFICES Begun(n + 1)
    BY <2>1
  <2>2. CASE Stopped(n)
    <3>1. f[n + 1] = e
      BY <2>1, <2>2 DEF EncodeMore
    <3> QED
      BY <2>2, <3>1
  <2>3. CASE AllTold(decode, read, types, values, n, table, e)
    <3>1. Raised \notin ToSet(e.parts) /\ TableFine(e.shapes) /\ e.parts \in Parts
      BY <2>3, NoneRaised DEF AllTold
    <3> HIDE DEF e, v
    <3>2. CASE v = Null
      <4>1. f[n + 1] = [parts |-> Append(e.parts, Null), shapes |-> e.shapes]
        BY <2>1, <3>1, <3>2 DEF EncodeMore
      <4>2. Extends(e.shapes, e.shapes)
        BY <3>1, ExtendsItself DEF TableFine
      <4>3. values[n + 1] = Null
        BY <3>2 DEF v
      <4>4. AllTold(decode, read, types, values, n + 1, table,
                    [parts |-> Append(e.parts, Null), shapes |-> e.shapes])
        <5> DEFINE part == Null
        <5>1. part \in Seq(Octet) \cup {Null}
          OBVIOUS
        <5>2. part = Null <=> values[n + 1] = Null
          BY <4>3
        <5> HIDE DEF part
        <5>3. AllTold(decode, read, types, values, n + 1, table,
                      [parts |-> Append(e.parts, part), shapes |-> e.shapes])
          BY <2>1, <2>3, <3>1, <4>2, <4>3, <5>1, <5>2, OneMore
        <5> QED
          BY <5>3 DEF part
      <4> QED
        BY <4>1, <4>4
    <3>3. CASE v # Null
      <4> DEFINE d == below[v][e.shapes]
      <4>1. f[n + 1] = [parts |-> Append(e.parts, d.data), shapes |-> d.shapes]
        BY <2>1, <3>1, <3>3 DEF EncodeMore
      <4>2. values[n + 1] # Null
            /\ Faithful(below, decode, read, types[n + 1], values[n + 1])
        BY <2>1, <3>3 DEF v, m
      <4>3. \/ d.data = Raised /\ read[types[n + 1]][values[n + 1]] = Raised
            \/ /\ d.data \in Seq(Octet)
               /\ TableFine(d.shapes) /\ Extends(e.shapes, d.shapes)
               /\ Tells(decode, read, types[n + 1], values[n + 1], d.data, d.shapes)
        BY <3>1, <4>2 DEF Faithful, v
      <4> HIDE DEF d
      <4>4. CASE d.data = Raised /\ read[types[n + 1]][values[n + 1]] = Raised
        <5>1. f[n + 1].parts = Append(e.parts, Raised)
          BY <4>1, <4>4
        <5>2. Raised \in ToSet(Append(e.parts, Raised))
          <6> DEFINE S == Seq(Octet) \cup {Null, Raised}
          <6>1. e.parts \in Seq(S) /\ Raised \in S
            BY <3>1, SeqMonotonic DEF Parts
          <6> HIDE DEF S
          <6> DEFINE q == Append(e.parts, Raised)
          <6>2. q[Len(e.parts) + 1] = Raised /\ Len(q) = Len(e.parts) + 1
                /\ q \in Seq(S) /\ Len(e.parts) \in Nat
            BY <6>1, AppendProperties
          <6>3. Len(e.parts) + 1 \in DOMAIN q
            BY <6>2
          <6> QED
            BY <6>2, <6>3 DEF ToSet
        <5>3. SomeRaised(read, types, values, m)
          BY <2>1, <4>2, <4>4 DEF SomeRaised
        <5> QED
          BY <5>1, <5>2, <5>3
      <4>5. CASE /\ d.data \in Seq(Octet)
                 /\ TableFine(d.shapes) /\ Extends(e.shapes, d.shapes)
                 /\ Tells(decode, read, types[n + 1], values[n + 1], d.data, d.shapes)
        <5>1. d.data \in Seq(Octet) \cup {Null} /\ d.data # Null
          BY <4>5, NullIsNoValue
        <5> DEFINE part == d.data
                   shapes == d.shapes
        <5>2. part \in Seq(Octet) \cup {Null} /\ TableFine(shapes)
              /\ Extends(e.shapes, shapes) /\ (part = Null <=> values[n + 1] = Null)
              /\ Tells(decode, read, types[n + 1], values[n + 1], part, shapes)
          BY <4>2, <4>5, <5>1
        <5> HIDE DEF part, shapes
        <5>3. AllTold(decode, read, types, values, n + 1, table,
                      [parts |-> Append(e.parts, part), shapes |-> shapes])
          BY <2>1, <2>3, <5>2, OneMore
        <5> QED
          BY <4>1, <5>3 DEF part, shapes
      <4> QED
        BY <4>3, <4>4, <4>5
    <3> QED
      BY <3>2, <3>3
  <2> QED
    BY <2>1, <2>2, <2>3
<1>5. m \in T
  <2> HIDE DEF T
  <2>1. 0..m \subseteq T
    BY <1>2, <1>3, <1>4, InductTo
  <2> QED
    BY <1>2, <2>1
<1>6. Begun(m)
  BY <1>5
<1>7. AllTold(decode, read, types, values, m, table, f[m])
          => Raised \notin ToSet(f[m].parts)
  BY NoneRaised DEF AllTold
<1> QED
  BY <1>1, <1>6, <1>7 DEF m
-----------------------------------------------------------------------------
(* The bytes of values.                                                    *)

LEMMA UlebBytes == \A n \in Nat : Uleb128(n) \in Seq(Octet)
  BY UlebPopped DEF Popped

LEMMA KeyedBytes ==
    ASSUME NEW parts \in Parts, NEW id \in Nat
    PROVE  KeyedContainer(id, parts) \in Seq(Octet)
<1> DEFINE u == Uleb128(id)
           v == NullBits(parts)
           l == Lengths(parts)
           j == Joined(parts)
<1>1. /\ u \in Seq(Octet) /\ v \in Seq(Octet) /\ l \in Seq(Octet)
      /\ j \in Seq(Octet) /\ <<0>> \in Seq(Octet) /\ <<1>> \in Seq(Octet)
  BY PartBytes
<1>2. KeyedContainer(id, parts) =
          IF Null \in ToSet(parts) THEN (((<<1>> \o u) \o v) \o l) \o j
                                   ELSE ((<<0>> \o u) \o l) \o j
  BY DEF KeyedContainer
<1> HIDE DEF u, v, l, j
<1>3. (((<<1>> \o u) \o v) \o l) \o j \in Seq(Octet)
  BY <1>1, ConcatBytes
<1>4. ((<<0>> \o u) \o l) \o j \in Seq(Octet)
  BY <1>1, ConcatBytes
<1> QED
  BY <1>2, <1>3, <1>4

LEMMA NullableBytes ==
    ASSUME NEW parts \in Parts
    PROVE  NullableList(parts) \in Seq(Octet)
<1> DEFINE u == Uleb128(Len(parts))
           v == NullBits(parts)
           l == Lengths(parts)
           j == Joined(parts)
<1>1. /\ u \in Seq(Octet) /\ v \in Seq(Octet) /\ l \in Seq(Octet)
      /\ j \in Seq(Octet) /\ <<2>> \in Seq(Octet)
  BY PartsTyped, PartBytes
<1>2. NullableList(parts) = (((<<2>> \o u) \o v) \o l) \o j
  BY DEF NullableList
<1> HIDE DEF u, v, l, j
<1>3. (((<<2>> \o u) \o v) \o l) \o j \in Seq(Octet)
  BY <1>1, ConcatBytes
<1> QED
  BY <1>2, <1>3

LEMMA PlainBytes ==
    ASSUME NEW parts \in Seq(Seq(Octet))
    PROVE  PlainList(parts) \in Seq(Octet)
<1> DEFINE size == IF parts = <<>> THEN 0 ELSE Len(parts[1])
           u == Uleb128(Len(parts))
           v == Uleb128(size)
           l == Lengths(parts)
           j == Joined(parts)
<1>1. parts \in Parts
  BY SeqMonotonic DEF Parts
<1>2. size \in Nat /\ Len(parts) \in Nat
  <2>1. Len(parts) \in Nat /\ \A i \in 1..Len(parts) : parts[i] \in Seq(Octet)
    BY ElementOfSeq
  <2>2. parts # <<>> => 1 \in 1..Len(parts)
    BY <2>1, EmptySeq
  <2> QED
    BY <2>1, <2>2
<1> HIDE DEF size
<1>3. /\ u \in Seq(Octet) /\ v \in Seq(Octet) /\ l \in Seq(Octet)
      /\ j \in Seq(Octet) /\ <<0>> \in Seq(Octet) /\ <<1>> \in Seq(Octet)
  BY <1>1, <1>2, PartBytes
<1>4. PlainList(parts) = IF OneSize(parts) THEN ((<<0>> \o u) \o v) \o j
                                           ELSE ((<<1>> \o u) \o l) \o j
  BY DEF PlainList, size
<1> HIDE DEF u, v, l, j
<1>5. ((<<0>> \o u) \o v) \o j \in Seq(Octet)
  BY <1>3, ConcatBytes
<1>6. ((<<1>> \o u) \o l) \o j \in Seq(Octet)
  BY <1>3, ConcatBytes
<1> QED
  BY <1>4, <1>5, <1>6

LEMMA ScalarBytes ==
    ASSUME NEW s \in Seq(Octet)
    PROVE  /\ TextBytes(s) \in Seq(Octet) /\ BytesList(s) \in Seq(Octet)
           /\ PopText(TextBytes(s)) = s /\ PopBytes(BytesList(s)) = s
<1> DEFINE u == Uleb128(Len(s))
           e == <<>>
<1>1. u \in Seq(Octet) /\ e \in Seq(Octet)
  <2>1. Len(s) \in Nat
    OBVIOUS
  <2> QED
    BY <2>1, UlebBytes
<1>2. <<0>> \in Seq(Octet) /\ <<1>> \in Seq(Octet)
  BY DEF Octet
<1>3. TextBytes(s) = u \o s /\ BytesList(s) = ((<<0>> \o u) \o <<1>>) \o s
  BY DEF TextBytes, BytesList
<1> HIDE DEF u
<1>4. TextBytes(s) \in Seq(Octet) /\ BytesList(s) \in Seq(Octet)
  BY <1>1, <1>2, <1>3, ConcatBytes
<1>5. TextBytes(s) \o e = TextBytes(s)
  BY <1>4, ConcatEmptySeq
<1> HIDE DEF e
<1>6. PopText(TextBytes(s) \o e) = s
  BY <1>1, TextRoundTrip
<1> QED
  BY <1>4, <1>5, <1>6, BytesRoundTrip

LEMMA IntCountIsNat == IntCount \in Nat
<1> DEFINE w == [i \in 1..(IntBytes + 1) |-> IF i = 1 THEN 1 ELSE 0]
           base == 256
<1>1. w \in Seq(Nat) /\ base \in Nat
  <2>1. IntBytes + 1 \in Nat
    BY IntBytesIsPositive
  <2> QED
    BY <2>1
<1>2. IntCount = Number(w, base)
  BY DEF IntCount
<1> HIDE DEF w, base
<1> QED
  BY <1>1, <1>2, NumberIsNat

\* A negative int comes back as a large one.
LEMMA IntBack ==
    ASSUME NEW n \in Int, IntFits(n)
    PROVE  /\ LittleEndian(n) \in Seq(Octet)
           /\ UnLittleEndian(LittleEndian(n)) = IF n < 0 THEN n + IntCount ELSE n
<1> DEFINE c == IntCount
           x == UnLittleEndian(LittleEndian(n))
           l == IntBytes
           d == LittleEndian(n)
<1>1. x \in 0..(c - 1) /\ \E q \in Int : n = q * c + x
  BY IntRoundTrip
<1>2. l \in Nat
  BY IntBytesIsPositive
<1>3. PICK over \in [0..l -> Int] :
          /\ over[0] = n
          /\ \A i \in 1..l : over[i] = over[i - 1] \div 256
          /\ d = [i \in 1..l |-> over[i - 1] % 256]
  BY LeftOver, Zenon
<1>4. d \in Seq(Octet)
  <2> HIDE DEF l, d
  <2>1. \A i \in 1..l : over[i - 1] % 256 \in Octet
    <3> SUFFICES ASSUME NEW i \in 1..l PROVE over[i - 1] % 256 \in Octet
      OBVIOUS
    <3>1. i - 1 \in 0..l
      BY <1>2
    <3>2. over[i - 1] \in Int
      BY <3>1
    <3> QED
      BY <3>2, LastByte DEF Octet
  <2> DEFINE b == [i \in 1..l |-> over[i - 1] % 256]
  <2>2. b \in [1..l -> Octet]
    BY <2>1
  <2>3. b \in Seq(Octet)
    <3> HIDE DEF b
    <3> QED
      BY <1>2, <2>2
  <2> QED
    BY <1>3, <2>3
<1>5. c \in Nat /\ n >= -(c \div 2) /\ n <= c \div 2 - 1
  BY IntCountIsNat DEF IntFits
<1> HIDE DEF c, x, l, d
<1>6. PICK q \in Int : n = q * c + x
  BY <1>1
<1>7. c > 0 /\ n >= -c /\ n < c /\ x >= 0 /\ x < c /\ x \in Int
  BY <1>1, <1>5
<1>8. q = 0 \/ q = -1
  <2>1. CASE q >= 1
    <3>1. q * c >= c
      BY <1>5, <2>1
    <3> QED
      BY <1>5, <1>6, <1>7, <3>1
  <2>2. CASE q <= -2
    <3>1. q * c <= -2 * c
      BY <1>5, <2>2
    <3>2. n <= -2 * c + x
      BY <1>5, <1>6, <1>7, <3>1
    <3> QED
      BY <1>5, <1>7, <3>2
  <2> QED
    BY <2>1, <2>2
<1>9. x = IF n < 0 THEN n + c ELSE n
  <2>1. CASE q = 0
    BY <1>5, <1>6, <1>7, <2>1
  <2>2. CASE q = -1
    <3>1. n = -c + x
      BY <1>5, <1>6, <1>7, <2>2
    <3> QED
      BY <1>5, <1>7, <3>1
  <2> QED
    BY <1>8, <2>1, <2>2
<1> QED
  BY <1>4, <1>9 DEF c, x, d
-----------------------------------------------------------------------------
(* One value, when its parts are told faithfully.                          *)

Arrives(server, below, decode, read, t, val, table) ==
    LET e == EncoderOf(server, below, val, table)
        reading == ReadingOf(server, read, t, val)
    IN  \/ e.data = Raised /\ reading = Raised
        \/ /\ e.data \in Seq(Octet)
           /\ TableFine(e.shapes) /\ Extends(table, e.shapes)
           /\ \A u \in Tables :
                  Extends(e.shapes, u) => DecoderOf(decode, t, e.data, u) = reading

LEMMA ScalarArrives ==
    ASSUME NEW server, NEW below, NEW decode, NEW read, NEW n, NEW t, NEW val,
           HasType(n, t, val), t.k \in {"int", "member", "bool", "str", "bytes"},
           NEW table, TableFine(table)
    PROVE  Arrives(server, below, decode, read, t, val, table)
<1> DEFINE e == EncoderOf(server, below, val, table)
           reading == ReadingOf(server, read, t, val)
<1>1. Extends(table, table)
  BY ExtendsItself DEF TableFine
<1>2. SUFFICES /\ e.shapes = table
               /\ \/ e.data = Raised /\ reading = Raised
                  \/ /\ e.data \in Seq(Octet)
                     /\ \A u \in Tables : DecoderOf(decode, t, e.data, u) = reading
  <2> HIDE DEF e, reading
  <2>1. \/ e.data = Raised /\ reading = Raised
        \/ /\ e.data \in Seq(Octet)
           /\ TableFine(e.shapes) /\ Extends(table, e.shapes)
           /\ \A u \in Tables :
                  Extends(e.shapes, u) => DecoderOf(decode, t, e.data, u) = reading
    BY <1>1, <1>2
  <2> QED
    BY <2>1 DEF Arrives, e, reading
<1>3. CASE t.k = "int"
  <2>1. val = Num(val.v) /\ val.v \in Int
    BY <1>3 DEF HasType
  <2>2. val.k = "int"
    BY <2>1 DEF Num
  <2>3. e = [data |-> IF IntFits(val.v) THEN LittleEndian(val.v) ELSE Raised,
             shapes |-> table]
    BY <2>2 DEF EncoderOf
  <2>4. reading = IF ~IntFits(val.v) THEN Raised
                  ELSE Num(IF val.v < 0 THEN val.v + IntCount ELSE val.v)
    BY <1>3 DEF ReadingOf, Unless
  <2>5. \A d, u : DecoderOf(decode, t, d, u) = Num(UnLittleEndian(d))
    BY <1>3 DEF DecoderOf
  <2> HIDE DEF e, reading
  <2>6. CASE ~IntFits(val.v)
    BY <2>3, <2>4, <2>6
  <2>7. CASE IntFits(val.v)
    <3>1. e.data = LittleEndian(val.v) /\ e.shapes = table
      BY <2>3, <2>7
    <3>2. e.data \in Seq(Octet)
          /\ UnLittleEndian(e.data) = IF val.v < 0 THEN val.v + IntCount ELSE val.v
      BY <2>1, <2>7, <3>1, IntBack
    <3> QED
      BY <2>4, <2>5, <2>7, <3>1, <3>2
  <2> QED
    BY <2>6, <2>7
<1>4. CASE t.k = "member"
  <2>1. val = Num(val.v) /\ val.v \in Nat /\ t.max \in Nat
    BY <1>4 DEF HasType
  <2>2. val.k = "int"
    BY <2>1 DEF Num
  <2>3. e = [data |-> IF IntFits(val.v) THEN LittleEndian(val.v) ELSE Raised,
             shapes |-> table]
    BY <2>2 DEF EncoderOf
  <2>4. reading = IF ~IntFits(val.v) \/ val.v > t.max THEN Raised ELSE val
    BY <1>4 DEF ReadingOf, Unless
  <2>5. \A d, u : DecoderOf(decode, t, d, u) =
                      IF UnLittleEndian(d) > t.max THEN Raised
                      ELSE Num(UnLittleEndian(d))
    BY <1>4 DEF DecoderOf, Unless
  <2> HIDE DEF e, reading
  <2>6. CASE ~IntFits(val.v)
    BY <2>3, <2>4, <2>6
  <2>7. CASE IntFits(val.v)
    <3>1. e.data = LittleEndian(val.v) /\ e.shapes = table
      BY <2>3, <2>7
    <3>2. val.v \in Int /\ ~(val.v < 0)
      BY <2>1
    <3>3. e.data \in Seq(Octet) /\ UnLittleEndian(e.data) = val.v
      BY <2>7, <3>1, <3>2, IntBack
    <3> QED
      BY <2>1, <2>4, <2>5, <2>7, <3>1, <3>3
  <2> QED
    BY <2>6, <2>7
<1>5. CASE t.k = "bool"
  <2>1. val = Bool(val.v) /\ val.v \in BOOLEAN
    BY <1>5 DEF HasType
  <2>2. val.k = "bool"
    BY <2>1 DEF Bool
  <2> DEFINE b == IF val.v THEN 1 ELSE 0
  <2>3. e = [data |-> <<b>>, shapes |-> table]
    BY <2>2 DEF EncoderOf
  <2>4. reading = val
    BY <1>5 DEF ReadingOf
  <2>5. \A d, u : DecoderOf(decode, t, d, u) = Bool(d[1] # 0)
    BY <1>5 DEF DecoderOf
  <2> HIDE DEF e, reading
  <2>6. b \in Octet
    BY DEF Octet
  <2>7. (b # 0) = val.v
    BY <2>1
  <2> HIDE DEF b
  <2>8. e.data = <<b>> /\ e.shapes = table /\ e.data[1] = b
    BY <2>3
  <2>9. Bool(e.data[1] # 0) = val
    BY <2>1, <2>7, <2>8
  <2>10. <<b>> \in Seq(Octet)
    BY <2>6
  <2> QED
    BY <2>4, <2>5, <2>8, <2>9, <2>10
<1>6. CASE t.k = "str"
  <2>1. val = Str(val.v) /\ val.v \in Seq(Octet)
    BY <1>6 DEF HasType
  <2>2. val.k = "str"
    BY <2>1 DEF Str
  <2>3. e = [data |-> TextBytes(val.v), shapes |-> table]
    BY <2>2 DEF EncoderOf
  <2>4. reading = val
    BY <1>6 DEF ReadingOf
  <2>5. \A d, u : DecoderOf(decode, t, d, u) = Str(PopText(d))
    BY <1>6 DEF DecoderOf
  <2> HIDE DEF e, reading
  <2> QED
    BY <2>1, <2>3, <2>4, <2>5, ScalarBytes
<1>7. CASE t.k = "bytes"
  <2>1. val = Bytes(val.v) /\ val.v \in Seq(Octet)
    BY <1>7 DEF HasType
  <2>2. val.k = "bytes"
    BY <2>1 DEF Bytes
  <2>3. e = [data |-> BytesList(val.v), shapes |-> table]
    BY <2>2 DEF EncoderOf
  <2>4. reading = val
    BY <1>7 DEF ReadingOf
  <2>5. \A d, u : DecoderOf(decode, t, d, u) = Bytes(PopBytes(d))
    BY <1>7 DEF DecoderOf
  <2> HIDE DEF e, reading
  <2> QED
    BY <2>1, <2>3, <2>4, <2>5, ScalarBytes
<1> QED
  BY <1>3, <1>4, <1>5, <1>6, <1>7

PartsFaithful(n, below, decode, read) ==
    \A t, x : x # Null /\ IsPart(n, t, x) => Faithful(below, decode, read, t, x)

LEMMA ListArrives ==
    ASSUME NEW server \in BOOLEAN, NEW below, NEW decode, NEW read, NEW n,
           NEW t, NEW val, HasType(n, t, val), t.k = "list",
           PartsFaithful(n, below, decode, read),
           NEW table, TableFine(table)
    PROVE  Arrives(server, below, decode, read, t, val, table)
<1> DEFINE c == Encoded(below, val.v, table)
           m == Len(val.v)
           types == [i \in 1..m |-> t.of]
           e == EncoderOf(server, below, val, table)
           reading == ReadingOf(server, read, t, val)
           elements == [i \in DOMAIN val.v |->
                           IF val.v[i] = Null THEN Null ELSE read[t.of][val.v[i]]]
           refused == Null \in ToSet(val.v) /\ ~(server /\ ToSet(val.v) = {Null})
<1>1. /\ val = List(val.v) /\ val.v \in Seq(ToSet(val.v))
      /\ \A i \in DOMAIN val.v : IsPart(n, t.of, val.v[i])
  BY DEF HasType
<1>2. m \in Nat /\ DOMAIN val.v = 1..m
  BY <1>1
<1>3. e = [data |-> UnkeyedContainer(server, c.parts), shapes |-> c.shapes]
  <2>1. val.k = "list"
    BY <1>1 DEF List
  <2> QED
    BY <2>1 DEF EncoderOf, Unkeyed
<1>4. reading = IF Raised \in ToSet(elements) \/ refused THEN Raised ELSE List(elements)
  BY DEF ReadingOf, Unless
<1>5. \A d, u : DecoderOf(decode, t, d, u) = DecodedList(decode, t, d, u)
  BY DEF DecoderOf
<1>6. \/ Raised \in ToSet(c.parts) /\ SomeRaised(read, types, val.v, m)
      \/ /\ Raised \notin ToSet(c.parts)
         /\ AllTold(decode, read, types, val.v, m, table, c)
  <2>1. \A i \in 1..m : val.v[i] # Null =>
            Faithful(below, decode, read, types[i], val.v[i])
    BY <1>1, <1>2 DEF PartsFaithful
  <2> HIDE DEF types
  <2> QED
    BY <1>2, <2>1, PartsEncoded
<1> HIDE DEF e, reading, c
<1> SUFFICES \/ e.data = Raised /\ reading = Raised
             \/ /\ e.data \in Seq(Octet)
                /\ TableFine(e.shapes) /\ Extends(table, e.shapes)
                /\ \A u \in Tables :
                       Extends(e.shapes, u) => DecodedList(decode, t, e.data, u) = reading
  BY <1>5 DEF Arrives, e, reading
<1>7. CASE Raised \in ToSet(c.parts) /\ SomeRaised(read, types, val.v, m)
  <2>1. e.data = Raised
    BY <1>3, <1>7 DEF UnkeyedContainer
  <2>2. PICK i \in 1..m : val.v[i] # Null /\ read[t.of][val.v[i]] = Raised
    BY <1>7 DEF SomeRaised
  <2>3. elements[i] = Raised /\ i \in DOMAIN elements
    BY <1>2, <2>2
  <2>4. Raised \in ToSet(elements)
    <3> HIDE DEF elements
    <3> QED
      BY <2>3 DEF ToSet
  <2> QED
    BY <1>4, <2>1, <2>4
<1>8. CASE /\ Raised \notin ToSet(c.parts)
           /\ AllTold(decode, read, types, val.v, m, table, c)
  <2>1. /\ c.parts \in Parts /\ Len(c.parts) = m /\ DOMAIN c.parts = 1..m
        /\ TableFine(c.shapes) /\ Extends(table, c.shapes)
        /\ \A i \in 1..m : c.parts[i] = Null <=> val.v[i] = Null
        /\ \A i \in 1..m : val.v[i] # Null =>
               Tells(decode, read, t.of, val.v[i], c.parts[i], c.shapes)
    BY <1>8, PartsTyped DEF AllTold
  <2>2. /\ Null \in ToSet(c.parts) <=> \E i \in 1..m : val.v[i] = Null
        /\ Null \in ToSet(val.v) <=> \E i \in 1..m : val.v[i] = Null
    BY <1>2, <2>1 DEF ToSet
  <2>3. c.parts # Raised
    BY <2>1, RaisedIsNoParts DEF Parts
  \* What the decoder makes of the parts.
  <2>4. ASSUME NEW u \in Tables, Extends(c.shapes, u)
        PROVE  [i \in DOMAIN c.parts |-> Decoded(decode, t.of, c.parts[i], u)] = elements
    <3>1. \A i \in 1..m : Decoded(decode, t.of, c.parts[i], u) = elements[i]
      <4> SUFFICES ASSUME NEW i \in 1..m
                   PROVE  Decoded(decode, t.of, c.parts[i], u) = elements[i]
        OBVIOUS
      <4>1. elements[i] = IF val.v[i] = Null THEN Null ELSE read[t.of][val.v[i]]
        BY <1>2
      <4> HIDE DEF elements
      <4>2. CASE val.v[i] = Null
        BY <2>1, <4>1, <4>2 DEF Decoded
      <4>3. CASE val.v[i] # Null
        <5>1. decode[t.of][c.parts[i]][u] = read[t.of][val.v[i]]
          BY <2>1, <2>4, <4>3 DEF Tells
        <5> QED
          BY <2>1, <4>1, <4>3, <5>1 DEF Decoded
      <4> QED
        BY <4>2, <4>3
    <3>2. DOMAIN elements = 1..m
      BY <1>2
    <3>3. elements = [i \in 1..m |-> elements[i]]
      BY <1>2
    <3> HIDE DEF elements
    <3> QED
      BY <2>1, <3>1, <3>3
  <2>5. ASSUME UnkeyedParts(e.data) = c.parts, ~refused, NEW u \in Tables,
               Extends(c.shapes, u)
        PROVE  DecodedList(decode, t, e.data, u) = reading
    <3>1. [i \in DOMAIN UnkeyedParts(e.data) |->
              Decoded(decode, t.of, UnkeyedParts(e.data)[i], u)] = elements
      BY <2>4, <2>5
    <3> HIDE DEF elements, refused
    <3>2. UnkeyedParts(e.data) # Raised
      BY <2>3, <2>5
    <3> QED
      BY <1>4, <2>5, <3>1, <3>2 DEF DecodedList, Unless
  <2>6. e.shapes = c.shapes /\ e.data = UnkeyedContainer(server, c.parts)
    BY <1>3
  <2>7. CASE Null \notin ToSet(c.parts)
    <3>1. c.parts \in Seq(Seq(Octet))
      <4>1. \A i \in 1..m : c.parts[i] \in Seq(Octet)
        BY <2>1, <2>2, <2>7, PartsTyped DEF ToSet
      <4>2. c.parts = [i \in 1..m |-> c.parts[i]]
        BY <2>1 DEF Parts
      <4>3. c.parts \in [1..m -> Seq(Octet)]
        BY <4>1, <4>2
      <4> QED
        BY <1>2, <4>3
    <3>2. e.data = PlainList(c.parts)
      BY <1>8, <2>6, <2>7 DEF UnkeyedContainer
    <3>3. e.data \in Seq(Octet) /\ UnkeyedParts(e.data) = c.parts
      BY <3>1, <3>2, PlainBytes, ListRoundTrip
    <3>4. ~refused
      BY <2>2, <2>7
    <3> HIDE DEF refused
    <3> QED
      BY <2>1, <2>5, <2>6, <3>3, <3>4
  <2>8. CASE Null \in ToSet(c.parts)
    <3>1. Null \in ToSet(val.v)
      BY <2>2, <2>8
    <3>2. CASE ~server
      <4>1. e.data = Raised
        BY <1>8, <2>6, <2>8, <3>2 DEF UnkeyedContainer
      <4> QED
        BY <1>4, <3>1, <3>2, <4>1
    <3>3. CASE server
      <4>1. e.data = NullableList(c.parts)
        BY <1>8, <2>6, <2>8, <3>3 DEF UnkeyedContainer
      <4>2. /\ e.data \in Seq(Octet)
            /\ UnkeyedParts(e.data) =
                   IF \A i \in DOMAIN c.parts : c.parts[i] = Null THEN c.parts ELSE Raised
        BY <2>1, <4>1, NullableBytes, NullableListFate DEF Parts
      <4>3. CASE \A i \in 1..m : c.parts[i] = Null
        <5>1. ToSet(val.v) = {Null}
          BY <1>2, <2>1, <3>1, <4>3 DEF ToSet
        <5>2. ~refused
          BY <3>3, <5>1
        <5> HIDE DEF refused
        <5> QED
          BY <2>1, <2>5, <2>6, <4>2, <4>3, <5>2
      <4>4. CASE ~ \A i \in 1..m : c.parts[i] = Null
        <5>1. ToSet(val.v) # {Null}
          BY <1>2, <2>1, <4>4 DEF ToSet
        <5>2. reading = Raised
          BY <1>4, <3>1, <5>1
        <5>3. UnkeyedParts(e.data) = Raised
          BY <2>1, <4>2, <4>4
        <5>4. \A u : DecodedList(decode, t, e.data, u) = Raised
          BY <5>3 DEF DecodedList
        <5> QED
          BY <2>1, <2>6, <4>2, <5>2, <5>4
      <4> QED
        BY <4>3, <4>4
    <3> QED
      BY <3>2, <3>3
  <2> QED
    BY <2>7, <2>8
<1> QED
  BY <1>6, <1>7, <1>8

\* What the decoder finds in the bytes of a container, for the keys in it.
KeysTold(decode, read, kinds, val, data, u) ==
    LET shape == u[ShapeIndex(data)]
        part(key) == KeyedParts(data, shape)[Place(shape, key)]
    IN  /\ shape \in Seq(Keys) /\ ToSet(shape) = KeysOf(val)
        /\ \A key \in KeysOf(val) :
               /\ part(key) = Null <=> ValueAt(val, key) = Null
               /\ Decoded(decode, kinds[key], part(key), u) =
                      IF ValueAt(val, key) = Null THEN Null
                      ELSE read[kinds[key]][ValueAt(val, key)]

KeyedTold(decode, read, kinds, val, table, e) ==
    \/ /\ e.data = Raised
       /\ \E key \in KeysOf(val) : /\ ValueAt(val, key) # Null
                                   /\ read[kinds[key]][ValueAt(val, key)] = Raised
    \/ /\ e.data \in Seq(Octet)
       /\ TableFine(e.shapes) /\ Extends(table, e.shapes)
       /\ \A u \in Tables :
              Extends(e.shapes, u) => KeysTold(decode, read, kinds, val, e.data, u)

LEMMA KeyedTells ==
    ASSUME NEW below, NEW decode, NEW read, NEW val, KeysOf(val) \in SUBSET Keys,
           NEW kinds,
           \A key \in KeysOf(val) :
               ValueAt(val, key) # Null =>
                   Faithful(below, decode, read, kinds[key], ValueAt(val, key)),
           NEW table, TableFine(table)
    PROVE  KeyedTold(decode, read, kinds, val, table, Keyed(below, val, table))
<1> DEFINE keys == KeysOf(val)
           shape == Sorted(keys)
           m == Len(shape)
           values == [i \in DOMAIN shape |-> ValueAt(val, shape[i])]
           types == [i \in 1..m |-> kinds[shape[i]]]
           start == WithShape(table, shape)
           c == Encoded(below, values, start)
           id == ShapeId(start, shape)
           e == Keyed(below, val, table)
<1>1. shape \in Seq(Keys) /\ IsInjective(shape) /\ ToSet(shape) = keys
  BY SortedKeys
<1>2. m \in Nat /\ DOMAIN shape = 1..m /\ \A i \in 1..m : shape[i] \in keys
  BY <1>1 DEF ToSet
<1>3. /\ TableFine(start) /\ Extends(table, start) /\ id \in Nat
      /\ \A w \in Tables : Extends(start, w) => w[id + 1] = shape
  BY <1>1, ShapeIsThere
<1>4. /\ e.data = IF Raised \in ToSet(c.parts) THEN Raised ELSE KeyedContainer(id, c.parts)
      /\ e.shapes = c.shapes
  BY DEF Keyed
<1>5. /\ Len(values) = m
      /\ \A i \in 1..m : values[i] = ValueAt(val, shape[i]) /\ types[i] = kinds[shape[i]]
  BY <1>2
<1> HIDE DEF shape, values, types, start, c, e, id
<1>6. \A i \in 1..m : values[i] # Null => Faithful(below, decode, read, types[i], values[i])
  BY <1>2, <1>5
<1>7. \/ Raised \in ToSet(c.parts) /\ SomeRaised(read, types, values, m)
      \/ /\ Raised \notin ToSet(c.parts)
         /\ AllTold(decode, read, types, values, m, start, c)
  BY <1>2, <1>3, <1>5, <1>6, PartsEncoded DEF c
<1>8. CASE Raised \in ToSet(c.parts) /\ SomeRaised(read, types, values, m)
  <2>1. e.data = Raised
    BY <1>4, <1>8
  <2>2. PICK i \in 1..m : values[i] # Null /\ read[types[i]][values[i]] = Raised
    BY <1>8 DEF SomeRaised
  <2>3. \E key \in keys : /\ ValueAt(val, key) # Null
                          /\ read[kinds[key]][ValueAt(val, key)] = Raised
    BY <1>2, <1>5, <2>2
  <2> QED
    BY <2>1, <2>3 DEF KeyedTold, e
<1>9. CASE /\ Raised \notin ToSet(c.parts)
           /\ AllTold(decode, read, types, values, m, start, c)
  <2>1. /\ c.parts \in Parts /\ Len(c.parts) = m
        /\ TableFine(c.shapes) /\ Extends(start, c.shapes)
        /\ \A i \in 1..m : c.parts[i] = Null <=> values[i] = Null
        /\ \A i \in 1..m : values[i] # Null =>
               Tells(decode, read, types[i], values[i], c.parts[i], c.shapes)
    BY <1>9 DEF AllTold
  <2>2. e.data = KeyedContainer(id, c.parts) /\ e.data \in Seq(Octet)
    BY <1>3, <1>4, <1>9, <2>1, KeyedBytes
  <2>3. table \in Tables /\ start \in Tables /\ c.shapes \in Tables
    BY <1>3, <2>1 DEF TableFine
  <2>4. Extends(table, c.shapes)
    BY <1>3, <2>1, <2>3, ExtendsOn
  <2>5. ASSUME NEW u \in Tables, Extends(c.shapes, u)
        PROVE  KeysTold(decode, read, kinds, val, e.data, u)
    <3>1. Extends(start, u)
      BY <2>1, <2>3, <2>5, ExtendsOn
    <3>2. u[id + 1] = shape
      BY <1>3, <3>1
    <3>3. ShapeIndex(e.data) = id + 1 /\ KeyedParts(e.data, shape) = c.parts
      BY <1>2, <1>3, <2>1, <2>2, KeyedRoundTrip DEF m, Parts
    <3>4. u[ShapeIndex(e.data)] = shape
      BY <3>2, <3>3
    <3>5. ASSUME NEW key \in keys
          PROVE  LET part == c.parts[Place(shape, key)]
                 IN  /\ part = Null <=> ValueAt(val, key) = Null
                     /\ Decoded(decode, kinds[key], part, u) =
                            IF ValueAt(val, key) = Null THEN Null
                            ELSE read[kinds[key]][ValueAt(val, key)]
      <4> DEFINE i == Place(shape, key)
                 part == c.parts[i]
      <4>1. i \in 1..m /\ shape[i] = key
        <5>1. key \in ToSet(shape)
          BY <1>1
        <5> QED
          BY <1>1, <5>1, Found DEF m
      <4> HIDE DEF i
      <4>2. values[i] = ValueAt(val, key) /\ types[i] = kinds[key]
        BY <1>5, <4>1
      <4>3. part = Null <=> ValueAt(val, key) = Null
        BY <2>1, <4>1, <4>2
      <4>4. Decoded(decode, kinds[key], part, u) =
                IF ValueAt(val, key) = Null THEN Null
                ELSE read[kinds[key]][ValueAt(val, key)]
        <5>1. CASE ValueAt(val, key) = Null
          BY <4>3, <5>1 DEF Decoded
        <5>2. CASE ValueAt(val, key) # Null
          <6>1. Tells(decode, read, kinds[key], ValueAt(val, key), part, c.shapes)
            BY <2>1, <4>1, <4>2, <5>2
          <6>2. decode[kinds[key]][part][u] = read[kinds[key]][ValueAt(val, key)]
            BY <2>5, <6>1 DEF Tells
          <6> QED
            BY <4>3, <5>2, <6>2 DEF Decoded
        <5> QED
          BY <5>1, <5>2
      <4> QED
        BY <4>3, <4>4 DEF i
    <3> QED
      BY <1>1, <3>3, <3>4, <3>5 DEF KeysTold
  <2> QED
    BY <1>4, <2>1, <2>2, <2>4, <2>5 DEF KeyedTold, e
<1> QED
  BY <1>7, <1>8, <1>9

\* An object of a class without fields stands for a member of an enumeration.
LEMMA EnumArrives ==
    ASSUME NEW server \in BOOLEAN, NEW below, NEW decode, NEW read, NEW n,
           NEW t, NEW val, HasType(n, t, val), t.k = "enum",
           PartsFaithful(n, below, decode, read),
           \A u : IsPart(n, u, Dict(<<>>)) /\ Dict(<<>>) # Null
                      => read[u][Dict(<<>>)] # Raised,
           NEW table, TableFine(table)
    PROVE  Arrives(server, below, decode, read, t, val, table)
<1> DEFINE e == EncoderOf(server, below, val, table)
           reading == ReadingOf(server, read, t, val)
           key == val.v
<1>1. val = Enum(key) /\ key \in Keys /\ IsSomePart(n, Dict(<<>>))
  BY DEF HasType
<1>2. PICK kind : IsPart(n, kind, Dict(<<>>))
  BY <1>1 DEF IsSomePart
<1>3. val.k = "enum"
  BY <1>1 DEF Enum
<1>4. KeysOf(val) = {key} /\ ValueAt(val, key) = Dict(<<>>)
  BY <1>3 DEF KeysOf, ValueAt
<1>5. e = Keyed(below, val, table)
  BY <1>3 DEF EncoderOf
<1>6. reading = Unless(key \notin t.members, val)
  BY DEF ReadingOf
<1>7. \A d, u : DecoderOf(decode, t, d, u) = DecodedKeyed(decode, t, d, u)
  BY DEF DecoderOf
<1> DEFINE kinds == [k \in {key} |-> kind]
<1>8. kinds[key] = kind
  OBVIOUS
<1> HIDE DEF kinds, e, reading, key
<1>9. KeyedTold(decode, read, kinds, val, table, e)
  <2>1. \A k \in KeysOf(val) : ValueAt(val, k) # Null =>
            Faithful(below, decode, read, kinds[k], ValueAt(val, k))
    BY <1>2, <1>4, <1>8 DEF PartsFaithful
  <2>2. KeysOf(val) \in SUBSET Keys
    BY <1>1, <1>4
  <2> QED
    BY <1>5, <2>1, <2>2, KeyedTells
<1>10. ~ \E k \in KeysOf(val) : /\ ValueAt(val, k) # Null
                               /\ read[kinds[k]][ValueAt(val, k)] = Raised
  BY <1>2, <1>4, <1>8
<1>11. ASSUME NEW u \in Tables, KeysTold(decode, read, kinds, val, e.data, u)
       PROVE  DecoderOf(decode, t, e.data, u) = reading
  <2> DEFINE shape == u[ShapeIndex(e.data)]
  <2>1. shape \in Seq(Keys) /\ ToSet(shape) = {key}
    BY <1>4, <1>11 DEF KeysTold
  <2>2. DecodedKeyed(decode, t, e.data, u)
            = Unless(shape[1] \notin t.members, Enum(shape[1]))
    BY DEF DecodedKeyed
  <2> HIDE DEF shape
  <2>3. shape[1] = key
    <3>1. Len(shape) \in Nat /\ DOMAIN shape = 1..Len(shape)
      BY <2>1
    <3>2. PICK i \in 1..Len(shape) : shape[i] = key
      BY <2>1, <3>1 DEF ToSet
    <3>3. 1 \in DOMAIN shape
      BY <3>1, <3>2
    <3> QED
      BY <2>1, <3>3 DEF ToSet
  <2> QED
    BY <1>1, <1>6, <1>7, <2>2, <2>3
<1> QED
  BY <1>9, <1>10, <1>11 DEF KeyedTold, Arrives, e, reading

LEMMA DictArrives ==
    ASSUME NEW server \in BOOLEAN, NEW below, NEW decode, NEW read, NEW n,
           NEW t, NEW val, HasType(n, t, val), t.k = "dict",
           PartsFaithful(n, below, decode, read),
           NEW table, TableFine(table)
    PROVE  Arrives(server, below, decode, read, t, val, table)
<1> DEFINE e == EncoderOf(server, below, val, table)
           reading == ReadingOf(server, read, t, val)
           keys == DOMAIN val.v
           elements == [key \in keys |-> IF val.v[key] = Null THEN Null
                                         ELSE read[t.of][val.v[key]]]
           kinds == [key \in keys |-> t.of]
<1>1. /\ val = Dict(val.v) /\ keys \subseteq Keys
      /\ \A key \in keys : IsPart(n, t.of, val.v[key])
  BY DEF HasType
<1>2. val.k = "dict"
  BY <1>1 DEF Dict
<1>3. KeysOf(val) = keys /\ \A key : ValueAt(val, key) = val.v[key]
  BY <1>2 DEF KeysOf, ValueAt
<1>4. e = Keyed(below, val, table)
  BY <1>2 DEF EncoderOf
<1>5. reading = IF Raised \in ToSet(elements) THEN Raised ELSE Dict(elements)
  BY DEF ReadingOf, Unless
<1>6. \A d, u : DecoderOf(decode, t, d, u) = DecodedKeyed(decode, t, d, u)
  BY DEF DecoderOf
<1>7. /\ \A key \in keys : kinds[key] = t.of
      /\ \A key \in keys : elements[key] = IF val.v[key] = Null THEN Null
                                           ELSE read[t.of][val.v[key]]
      /\ DOMAIN elements = keys
  OBVIOUS
<1>8. elements = [key \in keys |-> elements[key]]
  OBVIOUS
<1> HIDE DEF kinds, e, reading, keys, elements
<1>9. KeyedTold(decode, read, kinds, val, table, e)
  <2>1. \A k \in KeysOf(val) : ValueAt(val, k) # Null =>
            Faithful(below, decode, read, kinds[k], ValueAt(val, k))
    BY <1>1, <1>3, <1>7 DEF PartsFaithful
  <2>2. KeysOf(val) \in SUBSET Keys
    BY <1>1, <1>3
  <2> QED
    BY <1>4, <2>1, <2>2, KeyedTells
<1>10. ASSUME \E k \in KeysOf(val) : /\ ValueAt(val, k) # Null
                                     /\ read[kinds[k]][ValueAt(val, k)] = Raised
       PROVE  reading = Raised
  <2>1. PICK k \in keys : val.v[k] # Null /\ read[t.of][val.v[k]] = Raised
    BY <1>3, <1>7, <1>10
  <2>2. elements[k] = Raised /\ k \in DOMAIN elements
    BY <1>7, <2>1
  <2> QED
    BY <1>5, <2>2 DEF ToSet
<1>11. ASSUME NEW u \in Tables, KeysTold(decode, read, kinds, val, e.data, u)
       PROVE  DecoderOf(decode, t, e.data, u) = reading
  <2> DEFINE shape == u[ShapeIndex(e.data)]
             part(key) == KeyedParts(e.data, shape)[Place(shape, key)]
             entries == [key \in ToSet(shape) |-> Decoded(decode, t.of, part(key), u)]
  <2>1. ToSet(shape) = keys /\ \A key \in keys :
            Decoded(decode, t.of, part(key), u) = elements[key]
    BY <1>3, <1>7, <1>11 DEF KeysTold
  <2>2. DecodedKeyed(decode, t, e.data, u) =
            IF \E key \in ToSet(shape) : entries[key] = Raised THEN Raised
            ELSE Dict(entries)
    BY DEF DecodedKeyed, Unless
  <2>3. entries = elements
    <3> HIDE DEF shape, part
    <3> QED
      BY <1>8, <2>1
  <2>4. (\E key \in keys : elements[key] = Raised) <=> Raised \in ToSet(elements)
    BY <1>7 DEF ToSet
  <2> HIDE DEF shape, entries
  <2> QED
    BY <1>5, <1>6, <2>1, <2>2, <2>3, <2>4
<1> QED
  BY <1>9, <1>10, <1>11 DEF KeyedTold, Arrives, e, reading

\* An attribute that the decoder has no type for is encoded, and makes the
\* decoder refuse the object.
LEMMA StructArrives ==
    ASSUME NEW server \in BOOLEAN, NEW below, NEW decode, NEW read, NEW n,
           NEW t, NEW val, HasType(n, t, val), t.k = "struct",
           PartsFaithful(n, below, decode, read),
           NEW table, TableFine(table)
    PROVE  Arrives(server, below, decode, read, t, val, table)
<1> DEFINE e == EncoderOf(server, below, val, table)
           reading == ReadingOf(server, read, t, val)
           keys == KeysOf(val)
           known == DOMAIN t.fields
           fields == [key \in known |->
                         IF key \in keys THEN read[t.fields[key]][val.v[key]] ELSE Null]
           kinds == [key \in keys |->
                        IF key \in known THEN t.fields[key]
                        ELSE CHOOSE u : IsPart(n, u, val.v[key])]
<1>1. /\ val.k = "struct" /\ val.declares \subseteq Keys
      /\ \A key \in DOMAIN val.v \cap val.declares : IsSomePart(n, val.v[key])
      /\ \A key \in DOMAIN val.v \cap DOMAIN t.fields :
             IsPart(n, t.fields[key], val.v[key])
  BY DEF HasType
<1>2. /\ keys \subseteq Keys
      /\ \A key \in keys : /\ key \in DOMAIN val.v \cap val.declares
                           /\ val.v[key] # Null
      /\ \A key : ValueAt(val, key) = val.v[key]
  BY <1>1 DEF KeysOf, ValueAt
<1>3. e = Keyed(below, val, table)
  BY <1>1 DEF EncoderOf
<1>4. reading = IF ~(keys \subseteq known) \/ Raised \in ToSet(fields) THEN Raised
                ELSE Object(t, fields)
  BY DEF ReadingOf, Unless
<1>5. \A d, u : DecoderOf(decode, t, d, u) = DecodedKeyed(decode, t, d, u)
  BY DEF DecoderOf
<1>6. /\ \A key \in keys : key \in known => kinds[key] = t.fields[key]
      /\ \A key \in keys : IsPart(n, kinds[key], val.v[key])
  <2>1. ASSUME NEW key \in keys, key \in known
        PROVE  kinds[key] = t.fields[key] /\ IsPart(n, kinds[key], val.v[key])
    <3>1. key \in DOMAIN val.v \cap DOMAIN t.fields
      BY <1>2, <2>1
    <3> QED
      BY <1>1, <2>1, <3>1
  <2>2. ASSUME NEW key \in keys, key \notin known
        PROVE  IsPart(n, kinds[key], val.v[key])
    <3>1. \E u : IsPart(n, u, val.v[key])
      BY <1>1, <1>2 DEF IsSomePart
    <3>2. kinds[key] = CHOOSE u : IsPart(n, u, val.v[key])
      BY <2>2
    <3> QED
      BY <3>1, <3>2
  <2> QED
    BY <2>1, <2>2
<1>7. /\ DOMAIN fields = known
      /\ \A key \in known : fields[key] =
             IF key \in keys THEN read[t.fields[key]][val.v[key]] ELSE Null
  OBVIOUS
<1>8. fields = [key \in known |-> fields[key]]
  OBVIOUS
<1> HIDE DEF kinds, e, reading, keys, fields
<1>9. KeyedTold(decode, read, kinds, val, table, e)
  <2>1. \A k \in KeysOf(val) : ValueAt(val, k) # Null =>
            Faithful(below, decode, read, kinds[k], ValueAt(val, k))
    BY <1>2, <1>6 DEF PartsFaithful, keys
  <2>2. KeysOf(val) \in SUBSET Keys
    BY <1>2 DEF keys
  <2> QED
    BY <1>3, <2>1, <2>2, KeyedTells
<1>10. ASSUME \E k \in KeysOf(val) : /\ ValueAt(val, k) # Null
                                     /\ read[kinds[k]][ValueAt(val, k)] = Raised
       PROVE  reading = Raised
  <2>1. PICK k \in keys : read[kinds[k]][val.v[k]] = Raised
    BY <1>2, <1>10 DEF keys
  <2>2. CASE k \notin known
    BY <1>4, <2>2
  <2>3. CASE k \in known
    <3>1. fields[k] = Raised /\ k \in DOMAIN fields
      BY <1>6, <1>7, <2>1, <2>3
    <3>2. Raised \in ToSet(fields)
      BY <3>1 DEF ToSet
    <3> QED
      BY <1>4, <3>2
  <2> QED
    BY <2>2, <2>3
<1>11. ASSUME NEW u \in Tables, KeysTold(decode, read, kinds, val, e.data, u)
       PROVE  DecoderOf(decode, t, e.data, u) = reading
  <2> DEFINE shape == u[ShapeIndex(e.data)]
             part(key) == KeyedParts(e.data, shape)[Place(shape, key)]
             told == [key \in known |->
                         IF key \in ToSet(shape)
                         THEN Decoded(decode, t.fields[key], part(key), u) ELSE Null]
  <2>1. /\ ToSet(shape) = keys
        /\ \A key \in keys : /\ part(key) # Null
                             /\ Decoded(decode, kinds[key], part(key), u) =
                                    read[kinds[key]][val.v[key]]
    BY <1>2, <1>11 DEF KeysTold, keys
  <2>2. DecodedKeyed(decode, t, e.data, u) =
            IF \/ \E key \in ToSet(shape) \ known : part(key) # Null
               \/ \E key \in known : told[key] = Raised
            THEN Raised ELSE Object(t, told)
    BY DEF DecodedKeyed, Unless
  <2>3. told = fields
    <3> HIDE DEF shape, part
    <3>1. \A key \in known : told[key] = fields[key]
      BY <1>6, <1>7, <2>1
    <3>2. told = [key \in known |-> told[key]]
      OBVIOUS
    <3> HIDE DEF told
    <3> QED
      BY <1>8, <3>1, <3>2
  <2>4. (\E key \in known : fields[key] = Raised) <=> Raised \in ToSet(fields)
    BY <1>7 DEF ToSet
  <2> HIDE DEF shape, told, part
  <2>5. (\E key \in ToSet(shape) \ known : part(key) # Null) <=> ~(keys \subseteq known)
    BY <2>1
  <2> QED
    BY <1>4, <1>5, <2>2, <2>3, <2>4, <2>5
<1> QED
  BY <1>9, <1>10, <1>11 DEF KeyedTold, Arrives, e, reading

-----------------------------------------------------------------------------
(* All values.                                                             *)

LEMMA PairTyped ==
    ASSUME NEW n \in 0..Depth, NEW t, NEW x, <<t, x>> \in Typed[n]
    PROVE  t \in TypesUsed /\ x \in Values /\ x # Raised /\ HasType(n, t, x)
<1> DEFINE p == <<t, x>>
<1>1. p \in Typed[n] /\ p[1] = t /\ p[2] = x
  OBVIOUS
<1>2. p[2] # Raised /\ HasType(n, p[1], p[2])
  BY <1>1, ValuesAreTyped
<1>3. p[1] \in TypesUsed /\ p[2] \in Values
  BY <1>1 DEF TypesUsed, Values
<1> QED
  BY <1>1, <1>2, <1>3

AllFaithful(server, n) ==
    \A t, x : <<t, x>> \in Typed[n] =>
        Faithful(Encoders(server)[n], Decoders[n], Readings(server)[n], t, x)

\* The empty dictionary, which a member of an enumeration has, can be read.
LEMMA EmptyIsRead ==
    ASSUME NEW server \in BOOLEAN, NEW n \in 0..Depth, NEW t,
           <<t, Dict(<<>>)>> \in Typed[n]
    PROVE  Readings(server)[n][t][Dict(<<>>)] # Raised
<1> DEFINE x == Dict(<<>>)
           read == Below(Readings(server), n)
           elements == [i \in DOMAIN x.v |->
                           IF x.v[i] = Null THEN Null ELSE read[t.of][x.v[i]]]
<1>1. t \in TypesUsed /\ x \in Values /\ x # Raised /\ HasType(n, t, x)
  BY PairTyped
<1>2. x.k = "dict" /\ x.v = <<>>
  BY DEF Dict
<1>3. t.k = "dict"
  BY <1>1, <1>2 DEF HasType, Num, Bool, Str, Bytes, Enum, List
<1>4. Readings(server)[n][t][x] = ReadingOf(server, read, t, x)
  BY <1>1, ReadingsSteps
<1>5. elements = <<>>
  BY <1>2
<1>6. Raised \notin ToSet(elements)
  <2>1. DOMAIN elements = {}
    BY <1>2
  <2> HIDE DEF elements
  <2> QED
    BY <2>1 DEF ToSet
<1>7. ReadingOf(server, read, t, x) = IF Raised \in ToSet(elements) THEN Raised
                                      ELSE Dict(elements)
  BY <1>3 DEF ReadingOf, Unless
<1> HIDE DEF elements, x
<1>8. Dict(elements) = x
  BY <1>5 DEF x
<1> QED
  BY <1>1, <1>4, <1>6, <1>7, <1>8 DEF x

LEMMA ValueArrives ==
    ASSUME NEW server \in BOOLEAN, NEW n \in 0..Depth, NEW t, NEW x,
           <<t, x>> \in Typed[n], n > 0 => AllFaithful(server, n - 1),
           NEW table, TableFine(table)
    PROVE  Arrives(server, Below(Encoders(server), n), Below(Decoders, n),
                   Below(Readings(server), n), t, x, table)
<1> DEFINE below == Below(Encoders(server), n)
           decode == Below(Decoders, n)
           read == Below(Readings(server), n)
<1>1. HasType(n, t, x)
  BY PairTyped
<1>2. PartsFaithful(n, below, decode, read)
  <2> SUFFICES ASSUME NEW u, NEW y, y # Null, IsPart(n, u, y)
               PROVE  Faithful(below, decode, read, u, y)
    BY DEF PartsFaithful
  <2>1. n > 0 /\ <<u, y>> \in Typed[n - 1]
    BY DEF IsPart
  <2>2. n # 0
    BY <2>1
  <2> QED
    BY <2>1, <2>2 DEF AllFaithful, Below
<1>3. \A u : IsPart(n, u, Dict(<<>>)) /\ Dict(<<>>) # Null
                 => read[u][Dict(<<>>)] # Raised
  <2> SUFFICES ASSUME NEW u, IsPart(n, u, Dict(<<>>)), Dict(<<>>) # Null
               PROVE  read[u][Dict(<<>>)] # Raised
    OBVIOUS
  <2>1. n > 0 /\ <<u, Dict(<<>>)>> \in Typed[n - 1]
    BY DEF IsPart
  <2>2. n - 1 \in 0..Depth /\ n # 0
    BY <2>1, DepthIsNat
  <2>3. Readings(server)[n - 1][u][Dict(<<>>)] # Raised
    BY <2>1, <2>2, EmptyIsRead
  <2> QED
    BY <2>2, <2>3 DEF Below
<1> HIDE DEF below, decode, read
<1>4. \/ t.k \in {"int", "member", "bool", "str", "bytes"} \/ t.k = "enum"
      \/ t.k = "list" \/ t.k = "dict" \/ t.k = "struct"
  BY <1>1 DEF HasType
<1>5. Arrives(server, below, decode, read, t, x, table)
  <2>1. CASE t.k \in {"int", "member", "bool", "str", "bytes"}
    BY <1>1, <2>1, ScalarArrives
  <2>2. CASE t.k = "enum"
    BY <1>1, <1>2, <1>3, <2>2, EnumArrives
  <2>3. CASE t.k = "list"
    BY <1>1, <1>2, <2>3, ListArrives
  <2>4. CASE t.k = "dict"
    BY <1>1, <1>2, <2>4, DictArrives
  <2>5. CASE t.k = "struct"
    BY <1>1, <1>2, <2>5, StructArrives
  <2> QED
    BY <1>4, <2>1, <2>2, <2>3, <2>4, <2>5
<1> QED
  BY <1>5 DEF below, decode, read

LEMMA LevelFaithful ==
    ASSUME NEW server \in BOOLEAN, NEW n \in 0..Depth,
           n > 0 => AllFaithful(server, n - 1)
    PROVE  AllFaithful(server, n)
<1> SUFFICES ASSUME NEW t, NEW x, <<t, x>> \in Typed[n], NEW table, TableFine(table)
             PROVE  LET e == Encoders(server)[n][x][table]
                    IN  \/ e.data = Raised /\ Readings(server)[n][t][x] = Raised
                        \/ /\ e.data \in Seq(Octet)
                           /\ TableFine(e.shapes) /\ Extends(table, e.shapes)
                           /\ Tells(Decoders[n], Readings(server)[n], t, x, e.data,
                                    e.shapes)
  BY DEF AllFaithful, Faithful
<1> DEFINE below == Below(Encoders(server), n)
           decode == Below(Decoders, n)
           read == Below(Readings(server), n)
           e == Encoders(server)[n][x][table]
           reading == Readings(server)[n][t][x]
<1>1. t \in TypesUsed /\ x \in Values /\ table \in Tables
  BY PairTyped DEF TableFine
<1>2. e = EncoderOf(server, below, x, table)
  BY <1>1, EncodersSteps
<1>3. reading = ReadingOf(server, read, t, x)
  BY <1>1, ReadingsSteps
<1>4. Arrives(server, below, decode, read, t, x, table)
  BY ValueArrives
<1>5. \A d \in Seq(Octet), u \in Tables :
          Decoders[n][t][d][u] = DecoderOf(decode, t, d, u)
  BY <1>1, DecodersSteps
<1> HIDE DEF below, decode, read, e, reading
<1>6. \/ e.data = Raised /\ reading = Raised
      \/ /\ e.data \in Seq(Octet)
         /\ TableFine(e.shapes) /\ Extends(table, e.shapes)
         /\ \A u \in Tables :
                Extends(e.shapes, u) => DecoderOf(decode, t, e.data, u) = reading
  BY <1>2, <1>3, <1>4 DEF Arrives
<1> QED
  BY <1>5, <1>6 DEF Tells, e, reading

LEMMA EveryLevelFaithful ==
    ASSUME NEW server \in BOOLEAN
    PROVE  \A n \in 0..Depth : AllFaithful(server, n)
<1> DEFINE T == {n \in 0..Depth : AllFaithful(server, n)}
<1>1. 0 \in T
  BY LevelFaithful, DepthIsNat
<1>2. ASSUME NEW n \in 0..(Depth - 1), n \in T PROVE n + 1 \in T
  <2>1. n + 1 \in 0..Depth /\ (n + 1) - 1 = n
    BY DepthIsNat
  <2> QED
    BY <1>2, <2>1, LevelFaithful
<1>3. 0..Depth \subseteq T
  <2> HIDE DEF T
  <2> QED
    BY <1>1, <1>2, DepthIsNat, InductTo
<1> QED
  BY <1>3

-----------------------------------------------------------------------------
(* A message: the table of shapes and the bytes behind it.                 *)

LEMMA TableBytes ==
    ASSUME NEW shapes \in Tables
    PROVE  ShapeTable(shapes) \in Seq(Octet)
<1> DEFINE n == Len(shapes)
           s == [i \in DOMAIN shapes |-> ShapeBytes(shapes[i])]
<1>1. /\ n \in Nat /\ DOMAIN shapes = 1..n
      /\ \A i \in 1..n : shapes[i] \in Seq(ToSet(Names))
  BY ElementOfSeq DEF Tables, Keys
<1>2. \A i \in 1..n : ShapeBytes(shapes[i]) \in Seq(Octet)
  <2> DEFINE e == <<>>
  <2>1. e \in Seq(Octet)
    OBVIOUS
  <2> HIDE DEF e, n
  <2> QED
    BY <1>1, <2>1, ShapePopped
<1>3. s = [i \in 1..n |-> ShapeBytes(shapes[i])]
  BY <1>1
<1>4. s \in Seq(Seq(Octet))
  <2> HIDE DEF s, n
  <2> QED
    BY <1>1, <1>2, <1>3
<1>5. ShapeTable(shapes) = Uleb128(n) \o FlattenSeq(s)
  BY DEF ShapeTable
<1>6. Uleb128(n) \in Seq(Octet)
  BY <1>1, UlebBytes
<1> HIDE DEF n, s
<1>7. FlattenSeq(s) \in Seq(Octet)
  <2> DEFINE e == <<>>
  <2>1. e \in Seq(Octet)
    OBVIOUS
  <2> HIDE DEF e
  <2> QED
    BY <1>4, <2>1, Pieces
<1> QED
  BY <1>5, <1>6, <1>7, ConcatBytes

\* CodEncoder.encode raises only what cannot be read; what CodDecoder.decode
\* makes of anything else that it returns is the reading of the value, and no
\* shape names a key twice.
THEOREM EncodingRoundTrip ==
    ASSUME NEW server \in BOOLEAN, NEW t, NEW x, <<t, x>> \in Typed[Depth]
    PROVE  \/ Encode(server, x) = Raised /\ Reading(server, t, x) = Raised
           \/ /\ Encode(server, x) \in Seq(Octet)
              /\ Decode(t, Encode(server, x)) = Reading(server, t, x)
              /\ IsInjective(ShapesOf(Encode(server, x)).shapes)
<1> DEFINE none == <<>>
           e == Encoders(server)[Depth][x][none]
           bytes == ShapeTable(e.shapes) \o e.data
<1>1. Depth \in 0..Depth /\ t \in TypesUsed /\ x \in Values
  BY PairTyped, DepthIsNat
<1>2. TableFine(none)
  BY DEF TableFine, Tables, IsInjective
<1>3. Encode(server, x) = IF e.data = Raised THEN Raised ELSE bytes
  BY DEF Encode
<1>4. Faithful(Encoders(server)[Depth], Decoders[Depth], Readings(server)[Depth], t, x)
  BY <1>1, EveryLevelFaithful DEF AllFaithful
<1> HIDE DEF none
<1>5. \/ e.data = Raised /\ Reading(server, t, x) = Raised
      \/ /\ e.data \in Seq(Octet) /\ TableFine(e.shapes)
         /\ Tells(Decoders[Depth], Readings(server)[Depth], t, x, e.data, e.shapes)
  BY <1>2, <1>4 DEF Faithful, Reading
<1> HIDE DEF e
<1>6. ASSUME e.data \in Seq(Octet), TableFine(e.shapes),
             Tells(Decoders[Depth], Readings(server)[Depth], t, x, e.data, e.shapes)
      PROVE  /\ bytes \in Seq(Octet)
             /\ Decode(t, bytes) = Reading(server, t, x)
             /\ IsInjective(ShapesOf(bytes).shapes)
  <2>1. /\ e.shapes \in Tables /\ IsInjective(e.shapes)
        /\ \A i \in 1..Len(e.shapes) : IsInjective(e.shapes[i])
    BY <1>6 DEF TableFine
  <2>2. ShapesOf(bytes) = [shapes |-> e.shapes, rest |-> e.data]
    BY <1>6, <2>1, ShapesRoundTrip DEF Tables, Keys
  <2>3. bytes \in Seq(Octet)
    BY <1>6, <2>1, TableBytes, ConcatBytes
  <2>4. Decoders[Depth][t][e.data][e.shapes] = Reading(server, t, x)
    BY <1>6, <2>1, ExtendsItself DEF Tells, Reading
  <2>5. DOMAIN e.shapes = 1..Len(e.shapes)
    BY <2>1 DEF Tables
  <2> HIDE DEF bytes
  <2> QED
    BY <2>1, <2>2, <2>3, <2>4, <2>5 DEF Decode
<1>7. \A d \in Seq(Octet) : d # Raised
  BY NullIsNoValue
<1> HIDE DEF bytes
<1> QED
  BY <1>3, <1>5, <1>6, <1>7

-----------------------------------------------------------------------------
(* RoundTrip.                                                              *)

\* What is on its way is the encoding of the sample, and what has arrived is
\* what is decoded from it.
ValueInv ==
    /\ sample \in Typed[Depth] /\ peerSends \in BOOLEAN
    /\ encoding \in {<<>>, Encode(peerSends, sample[2])}
    /\ \/ result = Null
       \/ /\ encoding = Encode(peerSends, sample[2]) /\ encoding # Raised
          /\ result = Decode(sample[1], encoding)

\* Only what has a class is handled.
TalkInv ==
    /\ talk.kind = "call" => talk.name \in DOMAIN SM
    /\ talk.kind = "notice" /\ result # Null => talk.name \in DOMAIN CM

LEMMA SentContains ==
    /\ \A m \in DOMAIN SM : \A given \in Arguments(m) : RequestOf(m, given) \in Sent
    /\ \A m \in DOMAIN SM : \A fields \in Replies(m) : ReplyOf(m, fields) \in Sent
    /\ \A m \in DOMAIN CM : \A class \in ClassesOf(m), given \in Notices(m) :
           NoticeOf(m, class, given) \in Sent
    /\ \A m \in DOMAIN CM : AnswerOf(m) \in Sent
<1> DEFINE S(m) == {RequestOf(m, given) : given \in Arguments(m)}
                       \cup {ReplyOf(m, fields) : fields \in Replies(m)}
           C(m) == {NoticeOf(m, class, given) : class \in ClassesOf(m),
                                                given \in Notices(m)}
                       \cup {AnswerOf(m)}
<1>1. Sent = (UNION {S(i) : i \in DOMAIN SM}) \cup (UNION {C(i) : i \in DOMAIN CM})
  BY DEF Sent
<1>2. \A m : /\ \A given \in Arguments(m) : RequestOf(m, given) \in S(m)
             /\ \A fields \in Replies(m) : ReplyOf(m, fields) \in S(m)
             /\ \A class \in ClassesOf(m), given \in Notices(m) :
                    NoticeOf(m, class, given) \in C(m)
             /\ AnswerOf(m) \in C(m)
  <2>1. ASSUME NEW m, NEW given \in Arguments(m) PROVE RequestOf(m, given) \in S(m)
    OBVIOUS
  <2>2. ASSUME NEW m, NEW fields \in Replies(m) PROVE ReplyOf(m, fields) \in S(m)
    OBVIOUS
  <2>3. ASSUME NEW m, NEW class \in ClassesOf(m), NEW given \in Notices(m)
        PROVE  NoticeOf(m, class, given) \in C(m)
    OBVIOUS
  <2>4. ASSUME NEW m PROVE AnswerOf(m) \in C(m)
    OBVIOUS
  <2> HIDE DEF S, C
  <2> QED
    BY <2>1, <2>2, <2>3, <2>4
<1> HIDE DEF S, C
<1>3. /\ \A m \in DOMAIN SM : S(m) \subseteq Sent
      /\ \A m \in DOMAIN CM : C(m) \subseteq Sent
  BY <1>1
<1> QED
  BY <1>2, <1>3

LEMMA SentBegins ==
    ASSUME NEW pair \in Sent, NEW fromServer \in BOOLEAN, InitOf(pair, fromServer)
    PROVE  ValueInv /\ result = Null
<1>1. pair \in Typed[Depth]
  BY SentIsTyped
<1> QED
  BY <1>1 DEF InitOf, ValueInv

LEMMA SentNext ==
    ASSUME NEW pair \in Sent, NEW fromServer \in BOOLEAN, Answer(pair, fromServer)
    PROVE  ValueInv' /\ result' = Null /\ talk' = talk
<1>1. pair \in Typed[Depth]
  BY SentIsTyped
<1> QED
  BY <1>1 DEF Answer, ValueInv

LEMMA InitValue == MInit => ValueInv /\ TalkInv
<1>1. ASSUME ValueIsSent PROVE ValueInv /\ TalkInv
  BY <1>1 DEF ValueIsSent, InitOf, ValueInv, TalkInv
<1>2. ASSUME OperationIsCalled PROVE ValueInv /\ TalkInv
  <2>1. PICK m \in DOMAIN SM : \E given \in Arguments(m) :
            /\ InitOf(RequestOf(m, given), FALSE)
            /\ talk = [kind |-> "call", name |-> m, given |-> given]
    BY <1>2 DEF OperationIsCalled
  <2>2. PICK given \in Arguments(m) :
            /\ InitOf(RequestOf(m, given), FALSE)
            /\ talk = [kind |-> "call", name |-> m, given |-> given]
    BY <2>1
  <2>3. RequestOf(m, given) \in Sent
    BY SentContains
  <2>4. talk.kind = "call" /\ talk.name = m
    BY <2>2
  <2>5. ValueInv
    BY <2>2, <2>3, SentBegins
  <2> QED
    BY <2>4, <2>5 DEF TalkInv
<1>3. ASSUME ServerRequests PROVE ValueInv /\ TalkInv
  <2>1. PICK m \in DOMAIN CM : \E given \in Notices(m), class \in ClassesOf(m) :
            /\ InitOf(NoticeOf(m, class, given), TRUE)
            /\ talk.kind = "notice"
    <3>1. \A m, n, given, new :
              [kind |-> "notice", name |-> n, given |-> given, newer |-> new].kind
                  = "notice"
      OBVIOUS
    <3> QED
      BY <1>3, <3>1, Zenon DEF ServerRequests
  <2>4. PICK given \in Notices(m), class \in ClassesOf(m) :
            InitOf(NoticeOf(m, class, given), TRUE) /\ talk.kind = "notice"
    BY <2>1
  <2>2. NoticeOf(m, class, given) \in Sent
    BY SentContains
  <2>3. ValueInv /\ result = Null
    BY <2>2, <2>4, SentBegins
  <2> QED
    BY <2>3, <2>4 DEF TalkInv
<1> QED
  BY <1>1, <1>2, <1>3 DEF MInit

LEMMA NextValue == ValueInv /\ TalkInv /\ [MNext]_allVars => ValueInv' /\ TalkInv'
<1> SUFFICES ASSUME ValueInv, TalkInv, [MNext]_allVars PROVE ValueInv' /\ TalkInv'
  OBVIOUS
<1>1. ASSUME UNCHANGED allVars PROVE ValueInv' /\ TalkInv'
  BY <1>1 DEF allVars, ValueInv, TalkInv
<1>2. ASSUME Sending PROVE ValueInv' /\ TalkInv'
  BY <1>2, NullIsNoValue DEF Sending, EncodeValue, ValueInv, TalkInv
<1>3. ASSUME Receiving PROVE ValueInv' /\ TalkInv'
  BY <1>3 DEF Receiving, DecodeValue, ValueInv, TalkInv
<1>4. ASSUME ServerReplies PROVE ValueInv' /\ TalkInv'
  <2>1. talk.kind = "call" /\ talk.name \in DOMAIN SM
    BY <1>4 DEF ServerReplies, TalkInv
  <2>2. PICK fields \in Replies(talk.name) : Answer(ReplyOf(talk.name, fields), TRUE)
    BY <1>4 DEF ServerReplies
  <2>3. ReplyOf(talk.name, fields) \in Sent
    BY <2>1, SentContains
  <2>4. ValueInv' /\ talk' = talk /\ result' = Null
    BY <2>2, <2>3, SentNext
  <2> QED
    BY <2>4 DEF TalkInv
<1>5. ASSUME Handle PROVE ValueInv' /\ TalkInv'
  <2>1. talk.kind = "notice" /\ talk.name \in DOMAIN CM
    BY <1>5 DEF Handle, TalkInv
  <2>2. AnswerOf(talk.name) \in Sent
    BY <2>1, SentContains
  <2>3. ValueInv' /\ talk' = talk /\ result' = Null
    BY <1>5, <2>2, SentNext DEF Handle
  <2> QED
    BY <2>3 DEF TalkInv
<1>6. ASSUME Return \/ HandleFails \/ ServerGetsReply PROVE ValueInv' /\ TalkInv'
  BY <1>6 DEF Return, HandleFails, ServerGetsReply, valueVars, ValueInv, TalkInv
<1> QED
  BY <1>1, <1>2, <1>3, <1>4, <1>5, <1>6 DEF MNext

LEMMA ValueInvHolds == MSpec => []ValueInv
<1>1. MSpec => [](ValueInv /\ TalkInv)
  BY InitValue, NextValue, PTL DEF MSpec
<1> QED
  BY <1>1, PTL

LEMMA ArrivesRight == ValueInv => RoundTrip
<1> SUFFICES ASSUME ValueInv PROVE RoundTrip
  OBVIOUS
<1> DEFINE t == sample[1]
           x == sample[2]
           bytes == Encode(peerSends, x)
           reading == Reading(peerSends, t, x)
<1>1. sample = <<t, x>> /\ <<t, x>> \in Typed[Depth]
  BY DepthIsNat, ValuesAreTyped DEF ValueInv
<1>2. \/ bytes = Raised /\ reading = Raised
      \/ /\ bytes \in Seq(Octet) /\ Decode(t, bytes) = reading
         /\ IsInjective(ShapesOf(bytes).shapes)
  BY <1>1, EncodingRoundTrip DEF ValueInv
<1>3. /\ encoding \in {<<>>, bytes}
      /\ result = Null \/ (encoding = bytes /\ encoding # Raised
                             /\ result = Decode(t, encoding))
  BY DEF ValueInv
<1>4. \A d \in Seq(Octet) : d # Raised
  BY NullIsNoValue
<1>5. <<>> # Raised
  <2>1. <<>> \in Seq(Octet)
    OBVIOUS
  <2> QED
    BY <1>4, <2>1
<1> HIDE DEF t, x, bytes, reading
<1>6. /\ encoding = Raised => reading = Raised
      /\ result # Null => result = reading
      /\ encoding \notin {<<>>, Raised} => IsInjective(ShapesOf(encoding).shapes)
  BY <1>2, <1>3, <1>4, <1>5
<1> QED
  BY <1>6 DEF RoundTrip, reading, t, x

\* Whatever is sent by either end in a talk, a value is told as its reading or
\* refused by the encoder or by the decoder if it has none.
THEOREM ValuesArrive == MSpec => []RoundTrip
  BY ValueInvHolds, ArrivesRight, PTL

-----------------------------------------------------------------------------
(* What the declarations and the operations say of each message.           *)

LEMMA Combined ==
    ASSUME NEW f, NEW g
    PROVE  /\ DOMAIN (f ++ g) = DOMAIN f \cup DOMAIN g
           /\ \A x \in DOMAIN f : (f ++ g)[x] = f[x]
           /\ \A x \in DOMAIN g \ DOMAIN f : (f ++ g)[x] = g[x]
  BY DEF ++

LEMMA FieldNames ==
    /\ \A S : DOMAIN Ints(S) = S /\ DOMAIN Bools(S) = S /\ DOMAIN Strs(S) = S
    /\ DOMAIN NoFields = {}
  BY DEF Ints, Bools, Strs, NoFields

ServerMessages ==
    {"serverHandshake", "listVirtualMachines", "reorderVirtualMachines",
     "getVirtualMachineInformation", "getQEMUConfiguration", "getPackageSize",
     "getPackageFile", "sendPackageFile", "deletePackageFile",
     "mountGuestToolsOnVirtualMachine", "startVirtualMachine",
     "stopVirtualMachine", "restartVirtualMachine", "pauseVirtualMachine",
     "resumeVirtualMachine", "saveSnapshotVirtualMachine",
     "deleteSnapshotVirtualMachine", "restoreSnapshotVirtualMachine",
     "changePointerTypeVirtualMachine"}

ClientMessages ==
    {"clientHandshake", "listHasChanged", "qemuConfigurationHasChanged",
     "mountedDrivesHasChanged", "virtualMachineDidTransition",
     "virtualMachineDidError"}

LEMMA MessageNames ==
    DOMAIN SM = ServerMessages /\ DOMAIN CM = ClientMessages
<1>1. DOMAIN SM = ServerMessages
  BY DEF SM, ServerMessages
<1>2. DOMAIN CM = ClientMessages
  BY DEF CM, ClientMessages
<1> QED
  BY <1>1, <1>2

IsClass(t) == t = Class(t.fields) /\ t.k = "struct"

LEMMA ClassIsClass == \A f : Class(f).fields = f /\ IsClass(Class(f))
  BY DEF IsClass, Class

LEMMA Exchanges ==
    ASSUME NEW f, NEW g
    PROVE  /\ IsClass(Exchange(f, g).request) /\ IsClass(Exchange(f, g).reply)
           /\ Exchange(f, g).request.fields = f
           /\ Exchange(f, g).reply.fields = g
<1>1. Exchange(f, g).request = Class(f) /\ Exchange(f, g).reply = Class(g)
  BY DEF Exchange
<1> QED
  BY <1>1, ClassIsClass

LEMMA ServerClasses ==
    \A m \in DOMAIN SM : IsClass(SM[m].request) /\ IsClass(SM[m].reply)
<1>1. \A m \in ServerMessages : \E f, g : SM[m] = Exchange(f, g)
  BY DEF SM, ServerMessages
<1> QED
  BY <1>1, MessageNames, Exchanges

LEMMA ClientClasses ==
    \A m \in DOMAIN CM : IsClass(CM[m].request) /\ IsClass(CM[m].reply)
<1>1. \A m \in ClientMessages : \E f, g : CM[m] = Exchange(f, g)
  BY DEF CM, ClientMessages
<1> QED
  BY <1>1, MessageNames, Exchanges

\* The keywords of an operation are declared, but for the offset.
LEMMA SendsDeclared ==
    ASSUME NEW m \in DOMAIN SM
    PROVE  Sends[m] \ {"toOffset"} \subseteq DOMAIN SM[m].request.fields
<1> DEFINE declared == DOMAIN SM[m].request.fields
<1>1. CASE m = "serverHandshake"
  <2>1. Sends[m] = {"password", "version"}
    BY <1>1 DEF Sends
  <2>2. declared = {"password", "version"}
    BY <1>1, Exchanges, FieldNames DEF SM, Id, Ids, PackageFile, ++
  <2> QED
    BY <2>1, <2>2
<1>2. CASE m = "listVirtualMachines"
  <2>1. Sends[m] = {}
    BY <1>2 DEF Sends
  <2> QED
    BY <2>1
<1>3. CASE m = "reorderVirtualMachines"
  <2>1. Sends[m] = {"ids", "toOffset"}
    BY <1>3 DEF Sends
  <2>2. declared = {"ids", "offset"}
    BY <1>3, Exchanges, FieldNames DEF SM, Id, Ids, PackageFile, ++
  <2> QED
    BY <2>1, <2>2
<1>4. CASE m = "getVirtualMachineInformation"
  <2>1. Sends[m] = {"ids"}
    BY <1>4 DEF Sends
  <2>2. declared = {"ids"}
    BY <1>4, Exchanges, FieldNames DEF SM, Id, Ids, PackageFile, ++
  <2> QED
    BY <2>1, <2>2
<1>5. CASE m \in {"getQEMUConfiguration", "getPackageSize",
                "mountGuestToolsOnVirtualMachine",
                "restartVirtualMachine", "pauseVirtualMachine",
                "resumeVirtualMachine"}
  <2>1. Sends[m] = {"id"}
    BY <1>5 DEF Sends
  <2>2. SM[m].request.fields = Id
    BY <1>5, Exchanges DEF SM
  <2>3. declared = {"id"}
    BY <2>2, FieldNames DEF Id
  <2> QED
    BY <2>1, <2>3
<1>6. CASE m = "getPackageFile"
  <2>1. Sends[m] = {"id", "relativePathComponents", "lastModified"}
    BY <1>6 DEF Sends
  <2>2. declared = {"id", "relativePathComponents", "lastModified"}
    BY <1>6, Exchanges, FieldNames DEF SM, Id, Ids, PackageFile, ++
  <2> QED
    BY <2>1, <2>2
<1>7. CASE m = "sendPackageFile"
  <2>1. Sends[m] = {"id", "relativePathComponents", "lastModified", "data"}
    BY <1>7 DEF Sends
  <2>2. declared = {"id", "relativePathComponents", "lastModified", "data"}
    BY <1>7, Exchanges, FieldNames DEF SM, Id, Ids, PackageFile, ++
  <2> QED
    BY <2>1, <2>2
<1>8. CASE m = "deletePackageFile"
  <2>1. Sends[m] = {"id", "relativePathComponents"}
    BY <1>8 DEF Sends
  <2>2. declared = {"id", "relativePathComponents"}
    BY <1>8, Exchanges, FieldNames DEF SM, Id, Ids, PackageFile, ++
  <2> QED
    BY <2>1, <2>2
<1>9. CASE m = "startVirtualMachine"
  <2>1. Sends[m] = {"id", "options"}
    BY <1>9 DEF Sends
  <2>2. declared = {"id", "options"}
    BY <1>9, Exchanges, FieldNames DEF SM, Id, Ids, PackageFile, ++
  <2> QED
    BY <2>1, <2>2
<1>10. CASE m = "stopVirtualMachine"
  <2>1. Sends[m] = {"id", "method"}
    BY <1>10 DEF Sends
  <2>2. declared = {"id", "method"}
    BY <1>10, Exchanges, FieldNames DEF SM, Id, Ids, PackageFile, ++
  <2> QED
    BY <2>1, <2>2
<1>11. CASE m \in {"saveSnapshotVirtualMachine",
                "deleteSnapshotVirtualMachine",
                "restoreSnapshotVirtualMachine"}
  <2>1. Sends[m] = {"id", "name"}
    BY <1>11 DEF Sends
  <2>2. SM[m].request.fields = Strs({"id", "name"})
    BY <1>11, Exchanges DEF SM
  <2>3. declared = {"id", "name"}
    BY <2>2, FieldNames
  <2> QED
    BY <2>1, <2>3
<1>12. CASE m = "changePointerTypeVirtualMachine"
  <2>1. Sends[m] = {"id", "isTabletMode"}
    BY <1>12 DEF Sends
  <2>2. declared = {"id", "isTabletMode"}
    BY <1>12, Exchanges, FieldNames DEF SM, Id, Ids, PackageFile, ++
  <2> QED
    BY <2>1, <2>2
<1> QED
  BY <1>1, <1>2, <1>3, <1>4, <1>5, <1>6, <1>7, <1>8, <1>9, <1>10, <1>11,
     <1>12, MessageNames DEF ServerMessages

\* An operation returns every field of the reply but the terms of the handshake.
LEMMA RepliesReturned ==
    ASSUME NEW m \in DOMAIN SM
    PROVE  ToSet(Returns[m]) = DOMAIN SM[m].reply.fields \ {"version", "capabilities"}
<1> DEFINE terms == {"version", "capabilities"}
           said == DOMAIN SM[m].reply.fields \ terms
           returning == {"serverHandshake", "listVirtualMachines",
                         "getVirtualMachineInformation", "getQEMUConfiguration",
                         "getPackageSize", "getPackageFile", "startVirtualMachine"}
<1>1. CASE m = "serverHandshake"
  <2>1. said = {"isAuthenticated", "model"}
    BY <1>1, Exchanges DEF SM
  <2>2. Returns[m] = <<"isAuthenticated", "model">>
    BY <1>1 DEF Returns, ++
  <2> QED
    BY <2>1, <2>2 DEF ToSet
<1>2. CASE m = "listVirtualMachines"
  <2>1. said = {"ids"}
    BY <1>2, Exchanges DEF SM, Ids
  <2>2. Returns[m] = <<"ids">>
    BY <1>2 DEF Returns, ++
  <2> QED
    BY <2>1, <2>2 DEF ToSet
<1>3. CASE m = "getVirtualMachineInformation"
  <2>1. said = {"informations"}
    BY <1>3, Exchanges DEF SM
  <2>2. Returns[m] = <<"informations">>
    BY <1>3 DEF Returns, ++
  <2> QED
    BY <2>1, <2>2 DEF ToSet
<1>4. CASE m = "getQEMUConfiguration"
  <2>1. said = {"configuration"}
    BY <1>4, Exchanges DEF SM
  <2>2. Returns[m] = <<"configuration">>
    BY <1>4 DEF Returns, ++
  <2> QED
    BY <2>1, <2>2 DEF ToSet
<1>5. CASE m = "getPackageSize"
  <2>1. said = {"size"}
    BY <1>5, Exchanges, FieldNames DEF SM
  <2>2. Returns[m] = <<"size">>
    BY <1>5 DEF Returns, ++
  <2> QED
    BY <2>1, <2>2 DEF ToSet
<1>6. CASE m = "getPackageFile"
  <2>1. said = {"data", "lastModified"}
    BY <1>6, Exchanges DEF SM
  <2>2. Returns[m] = <<"data", "lastModified">>
    BY <1>6 DEF Returns, ++
  <2> QED
    BY <2>1, <2>2 DEF ToSet
<1>7. CASE m = "startVirtualMachine"
  <2>1. said = {"serverInfo"}
    BY <1>7, Exchanges DEF SM
  <2>2. Returns[m] = <<"serverInfo">>
    BY <1>7 DEF Returns, ++
  <2> QED
    BY <2>1, <2>2 DEF ToSet
<1>8. CASE m \notin returning
  <2>1. \E f : SM[m] = Exchange(f, NoFields)
    BY <1>8, MessageNames DEF SM, ServerMessages
  <2>2. said = {}
    BY <2>1, Exchanges, FieldNames
  <2>3. Returns[m] = <<>>
    BY <1>8 DEF Returns, ++
  <2> QED
    BY <2>2, <2>3 DEF ToSet
<1> QED
  BY <1>1, <1>2, <1>3, <1>4, <1>5, <1>6, <1>7, <1>8

\* The client is told every field of a request but the version.
LEMMA NoticesPassed ==
    ASSUME NEW m \in DOMAIN CM
    PROVE  ToSet(Passes[m]) = DOMAIN CM[m].request.fields \ {"version"}
<1> DEFINE said == DOMAIN CM[m].request.fields \ {"version"}
<1>0. DOMAIN Id = {"id"} /\ DOMAIN Ids = {"ids"}
  BY FieldNames DEF Id, Ids
<1>1. CASE m = "clientHandshake"
  <2>1. said = {}
    BY <1>1, Exchanges, FieldNames DEF CM
  <2>2. Passes[m] = <<>>
    BY <1>1 DEF Passes
  <2> QED
    BY <2>1, <2>2 DEF ToSet
<1>2. CASE m = "listHasChanged"
  <2>1. said = {"ids"}
    BY <1>0, <1>2, Exchanges DEF CM
  <2>2. Passes[m] = <<"ids">>
    BY <1>2 DEF Passes
  <2> QED
    BY <2>1, <2>2 DEF ToSet
<1>3. CASE m = "qemuConfigurationHasChanged"
  <2> DEFINE f == [configuration |-> QemuConfiguration]
  <2>1. CM[m].request.fields = Id ++ f /\ DOMAIN f = {"configuration"}
    BY <1>3, Exchanges DEF CM
  <2> HIDE DEF f
  <2>2. said = {"id", "configuration"}
    BY <1>0, <2>1 DEF ++
  <2>3. Passes[m] = <<"id", "configuration">>
    BY <1>3 DEF Passes
  <2> QED
    BY <2>2, <2>3 DEF ToSet
<1>4. CASE m = "mountedDrivesHasChanged"
  <2> DEFINE f == [mountedDrives |-> DictOf(StrType)]
  <2>1. CM[m].request.fields = Id ++ f /\ DOMAIN f = {"mountedDrives"}
    BY <1>4, Exchanges DEF CM
  <2> HIDE DEF f
  <2>2. said = {"id", "mountedDrives"}
    BY <1>0, <2>1 DEF ++
  <2>3. Passes[m] = <<"id", "mountedDrives">>
    BY <1>4 DEF Passes
  <2> QED
    BY <2>2, <2>3 DEF ToSet
<1>5. CASE m = "virtualMachineDidTransition"
  <2> DEFINE f == [state |-> VirtualMachineState]
             g == Bools({"isTakeoverAllowed"})
  <2>1. /\ CM[m].request.fields = (Id ++ f) ++ g
        /\ DOMAIN f = {"state"} /\ DOMAIN g = {"isTakeoverAllowed"}
    BY <1>5, Exchanges, FieldNames DEF CM
  <2> HIDE DEF f, g
  <2>2. said = {"id", "state", "isTakeoverAllowed"}
    BY <1>0, <2>1 DEF ++
  <2>3. Passes[m] = <<"id", "state", "isTakeoverAllowed">>
    BY <1>5 DEF Passes
  <2> QED
    BY <2>2, <2>3 DEF ToSet
<1>6. CASE m = "virtualMachineDidError"
  <2>1. said = {"id", "errorMessage"}
    BY <1>6, Exchanges, FieldNames DEF CM
  <2>2. Passes[m] = <<"id", "errorMessage">>
    BY <1>6 DEF Passes
  <2> QED
    BY <2>1, <2>2 DEF ToSet
<1> QED
  BY <1>1, <1>2, <1>3, <1>4, <1>5, <1>6, MessageNames DEF ClientMessages

-----------------------------------------------------------------------------
(* An object with what was given to it.                                    *)

LEMMA AttributesTyped ==
    ASSUME NEW f, NEW a \in Attributes(f)
    PROVE  DOMAIN a = DOMAIN f /\ \A n \in DOMAIN f : a[n] \in ValuesOf(f[n])
<1>1. CASE f = NoFields
  BY <1>1, FieldNames DEF Attributes
<1>2. CASE f # NoFields
  BY <1>2 DEF Attributes
<1> QED
  BY <1>1, <1>2

\* What an object is to the other end, if all that its class declares and what
\* was given for it are known there.
LEMMA ObjectRead ==
    ASSUME NEW server \in BOOLEAN, NEW t, NEW class, NEW a,
           t.k = "struct", <<t, Object(class, a)>> \in Typed[Depth],
           DOMAIN t.fields \subseteq DOMAIN class.fields,
           \A key \in DOMAIN t.fields \cap DOMAIN a :
               a[key] \in ValuesOf(t.fields[key]),
           Reading(server, t, Object(class, a)) # Raised
    PROVE  LET r == Reading(server, t, Object(class, a))
           IN  /\ DOMAIN r.v = DOMAIN t.fields
               /\ \A key \in DOMAIN t.fields \cap DOMAIN a : r.v[key] = a[key]
               /\ KeysOf(Object(class, a)) \subseteq DOMAIN t.fields
<1> DEFINE x == Object(class, a)
           r == Reading(server, t, x)
           below == Below(Readings(server), Depth)
           fields == [key \in DOMAIN t.fields |->
                         IF key \in KeysOf(x) THEN below[t.fields[key]][x.v[key]]
                                              ELSE Null]
<1>1. /\ Depth \in 0..Depth /\ t \in TypesUsed /\ x \in Values
      /\ HasType(Depth, t, x)
  BY PairTyped, DepthIsNat
<1>2. x.k = "struct" /\ x.v = a /\ x.declares = DOMAIN class.fields
  BY DEF Object
<1>3. r = ReadingOf(server, below, t, x)
  BY <1>1, ReadingsSteps DEF Reading
<1>4. ReadingOf(server, below, t, x) =
          IF ~(KeysOf(x) \subseteq DOMAIN t.fields) \/ Raised \in ToSet(fields)
          THEN Raised ELSE Object(t, fields)
  BY DEF ReadingOf, Unless
<1>5. KeysOf(x) \subseteq DOMAIN t.fields /\ Raised \notin ToSet(fields)
  BY <1>3, <1>4
<1>6. r = Object(t, fields)
  BY <1>3, <1>4, <1>5
<1>7. r.v = fields
  BY <1>6 DEF Object
<1>8. KeysOf(x) = {key \in DOMAIN class.fields \cap DOMAIN a : a[key] # Null}
  BY <1>2 DEF KeysOf
<1>9. ASSUME NEW key \in DOMAIN t.fields \cap DOMAIN a PROVE fields[key] = a[key]
  <2>1. CASE a[key] = Null
    BY <1>8, <2>1
  <2>2. CASE a[key] # Null
    <3>1. key \in KeysOf(x) /\ fields[key] = below[t.fields[key]][a[key]]
      BY <1>2, <1>8, <2>2
    <3>2. IsPart(Depth, t.fields[key], a[key])
      BY <1>1, <1>2 DEF HasType
    <3>3. Depth > 0 /\ <<t.fields[key], a[key]>> \in Typed[Depth - 1]
      BY <2>2, <3>2 DEF IsPart
    <3>4. below = Readings(server)[Depth - 1] /\ Depth - 1 \in 0..Depth
      BY <3>3, DepthIsNat DEF Below
    <3>5. fields[key] \in {a[key], Raised}
      <4> DEFINE p == <<t.fields[key], a[key]>>
      <4>1. p \in Typed[Depth - 1] /\ p[1] = t.fields[key] /\ p[2] = a[key]
        BY <3>3
      <4> HIDE DEF p, fields, below, x
      <4>2. Readings(server)[Depth - 1][p[1]][p[2]] \in {p[2], Raised}
        BY <3>4, <4>1, ValuesReadThemselves
      <4> QED
        BY <3>1, <3>4, <4>1, <4>2
    <3>6. fields[key] \in ToSet(fields)
      BY DEF ToSet
    <3> QED
      BY <1>5, <3>5, <3>6
  <2> QED
    BY <2>1, <2>2
<1>10. DOMAIN fields = DOMAIN t.fields
  OBVIOUS
<1> HIDE DEF fields
<1> QED
  BY <1>5, <1>7, <1>9, <1>10

LEMMA RequestRead ==
    ASSUME NEW server \in BOOLEAN, NEW m \in DOMAIN SM, NEW given \in Arguments(m),
           Understood(server, RequestOf(m, given))
    PROVE  LET r == Reading(server, SM[m].request, RequestOf(m, given)[2])
           IN  \A k \in DOMAIN given \ {"toOffset"} :
                   k \in DOMAIN r.v /\ r.v[k] = given[k]
<1> DEFINE t == SM[m].request
           x == Object(t, given)
           r == Reading(server, t, x)
           kinds == [k \in Sends[m] |-> FieldOf(m, k)]
<1>1. RequestOf(m, given) = <<t, x>> /\ <<t, x>> \in Typed[Depth]
  BY SentContains, SentIsTyped DEF RequestOf
<1>2. t.k = "struct"
  BY ServerClasses DEF IsClass
<1>3. r # Raised
  BY DEF Understood, RequestOf
<1>4. DOMAIN given = DOMAIN kinds /\ \A k \in DOMAIN kinds : given[k] \in ValuesOf(kinds[k])
  <2>1. given \in Attributes(kinds)
    BY DEF Arguments
  <2> HIDE DEF kinds
  <2> QED
    BY <2>1, AttributesTyped
<1>5. DOMAIN given = Sends[m]
      /\ \A k \in DOMAIN given \cap DOMAIN t.fields : given[k] \in ValuesOf(t.fields[k])
  <2>1. /\ DOMAIN kinds = Sends[m]
        /\ \A k \in DOMAIN kinds \cap DOMAIN t.fields : kinds[k] = t.fields[k]
    BY Zenon DEF FieldOf
  <2> HIDE DEF kinds
  <2> QED
    BY <1>4, <2>1
<1>6. Sends[m] \ {"toOffset"} \subseteq DOMAIN t.fields
  BY SendsDeclared
<1> HIDE DEF t
<1>7. /\ DOMAIN r.v = DOMAIN t.fields
      /\ \A k \in DOMAIN t.fields \cap DOMAIN given : r.v[k] = given[k]
  BY <1>1, <1>2, <1>3, <1>5, ObjectRead
<1>8. RequestOf(m, given)[2] = x
  BY <1>1
<1> HIDE DEF x, r
<1>9. \A k \in DOMAIN given \ {"toOffset"} : k \in DOMAIN r.v /\ r.v[k] = given[k]
  BY <1>5, <1>6, <1>7
<1> QED
  BY <1>8, <1>9 DEF r, t

LEMMA ReturnsSequences == \A m \in DOMAIN SM : \E n \in Nat : DOMAIN Returns[m] = 1..n
<1> SUFFICES ASSUME NEW m \in DOMAIN SM PROVE \E n \in Nat : DOMAIN Returns[m] = 1..n
  OBVIOUS
<1>1. Returns[m] \in {<<"isAuthenticated", "model">>, <<"ids">>, <<"informations">>,
                      <<"configuration">>, <<"size">>, <<"data", "lastModified">>,
                      <<"serverInfo">>, <<>>}
  BY DEF Returns, ++
<1>2. \A a : DOMAIN <<a>> = 1..1
  OBVIOUS
<1>3. \A a, b : DOMAIN <<a, b>> = 1..2
  OBVIOUS
<1>4. DOMAIN <<>> = 1..0
  OBVIOUS
<1> QED
  BY <1>1, <1>2, <1>3, <1>4

\* What is returned of a reply.
LEMMA ReplyReturned ==
    ASSUME NEW server \in BOOLEAN, NEW m \in DOMAIN SM, NEW fields \in Replies(m)
    PROVE  LET x == ReplyOf(m, fields)[2]
               o == Returned(m, Reading(server, SM[m].reply, x))
           IN  /\ x.v = fields
               /\ IF o = Raised
                  THEN \/ m = "serverHandshake" /\ fields.version # Num(1)
                       \/ ~Understood(server, ReplyOf(m, fields))
                  ELSE \A k \in DOMAIN fields \ {"version", "capabilities"} :
                           fields[k] \in ToSet(o)
<1> DEFINE t == SM[m].reply
           x == Object(t, fields)
           r == Reading(server, t, x)
           told == Returns[m]
           o == Of(r, told)
<1>1. /\ ReplyOf(m, fields) = <<t, x>> /\ <<t, x>> \in Typed[Depth]
      /\ ReplyOf(m, fields)[2] = x
  BY SentContains, SentIsTyped DEF ReplyOf
<1>2. t.k = "struct"
  BY ServerClasses DEF IsClass
<1>3. /\ DOMAIN fields = DOMAIN t.fields
      /\ \A k \in DOMAIN t.fields : fields[k] \in ValuesOf(t.fields[k])
  BY AttributesTyped DEF Replies
<1>4. ToSet(told) = DOMAIN t.fields \ {"version", "capabilities"}
  BY RepliesReturned
<1>5. PICK n \in Nat : DOMAIN told = 1..n
  BY ReturnsSequences
<1>6. x.v = fields /\ x.k = "struct"
  BY DEF Object
<1>7. Understood(server, ReplyOf(m, fields)) <=> r # Raised
  BY <1>1 DEF Understood
<1>8. Returned(m, r) = IF r = Raised \/ (m = "serverHandshake" /\ r.v.version # Num(1))
                       THEN Raised ELSE o
  BY DEF Returned
<1> HIDE DEF t, told
<1>9. ASSUME r # Raised PROVE \A k \in DOMAIN fields : r.v[k] = fields[k]
  BY <1>1, <1>2, <1>3, <1>9, ObjectRead
<1>10. \A k \in DOMAIN fields : fields[k] \in Values \cup {Null}
  <2> SUFFICES ASSUME NEW k \in DOMAIN fields, fields[k] # Null
               PROVE  fields[k] \in Values
    OBVIOUS
  <2>1. Depth \in 0..Depth /\ HasType(Depth, t, x)
    BY <1>1, PairTyped, DepthIsNat
  <2>2. IsPart(Depth, t.fields[k], x.v[k])
    BY <1>2, <1>3, <1>6, <2>1 DEF HasType
  <2>3. Depth - 1 \in 0..Depth /\ <<t.fields[k], fields[k]>> \in Typed[Depth - 1]
    BY <1>6, <2>2, DepthIsNat DEF IsPart
  <2> QED
    BY <2>3, PairTyped
<1> HIDE DEF x, r
<1>11. ASSUME r # Raised
       PROVE  /\ o \in Seq(Values \cup {Null})
              /\ \A k \in DOMAIN fields \ {"version", "capabilities"} :
                     fields[k] \in ToSet(o)
  <2>1. \A i \in 1..n : told[i] \in DOMAIN fields
    BY <1>3, <1>4, <1>5 DEF ToSet
  <2>2. o = [i \in 1..n |-> fields[told[i]]]
    BY <1>5, <1>9, <1>11, <2>1 DEF Of
  <2>3. o \in Seq(Values \cup {Null})
    BY <1>5, <1>10, <2>1, <2>2
  <2>4. ASSUME NEW k \in DOMAIN fields \ {"version", "capabilities"}
        PROVE  fields[k] \in ToSet(o)
    <3>1. PICK i \in 1..n : told[i] = k
      BY <1>3, <1>4, <1>5 DEF ToSet
    <3> HIDE DEF o
    <3> QED
      BY <2>2, <3>1 DEF ToSet
  <2> QED
    BY <2>3, <2>4
<1>12. o \in Seq(Values \cup {Null}) => o # Raised
  BY RaisedIsNoParts
<1>13. m = "serverHandshake" => "version" \in DOMAIN fields
  BY <1>3, Exchanges DEF SM, t
<1> HIDE DEF o
<1>14. IF Returned(m, r) = Raised
       THEN \/ m = "serverHandshake" /\ fields.version # Num(1)
            \/ ~Understood(server, ReplyOf(m, fields))
       ELSE \A k \in DOMAIN fields \ {"version", "capabilities"} :
                fields[k] \in ToSet(Returned(m, r))
  BY <1>7, <1>8, <1>9, <1>11, <1>12, <1>13
<1> QED
  BY <1>1, <1>6, <1>14 DEF r, t

\* A request of the server, as far as it is handled.
LEMMA NoticeRead ==
    ASSUME NEW server \in BOOLEAN, NEW m \in DOMAIN CM, NEW given \in Notices(m),
           NEW class \in ClassesOf(m), Understood(server, NoticeOf(m, class, given))
    PROVE  LET r == Reading(server, CM[m].request, NoticeOf(m, class, given)[2])
           IN  /\ class = CM[m].request
               /\ ToSet(Of(r, Passes[m])) =
                      {given[k] : k \in DOMAIN given \ {"version"}}
<1> DEFINE t == CM[m].request
           a == given ++ Newly(Bool(TRUE))
           x == Object(class, a)
           r == Reading(server, t, x)
           told == Passes[m]
<1>1. /\ NoticeOf(m, class, given) = <<t, x>> /\ <<t, x>> \in Typed[Depth]
      /\ NoticeOf(m, class, given)[2] = x
  BY SentContains, SentIsTyped DEF NoticeOf
<1>2. t.k = "struct"
  BY ClientClasses DEF IsClass
<1>3. r # Raised
  <2> DEFINE p == NoticeOf(m, class, given)
  <2>1. p[1] = t /\ p[2] = x
    BY <1>1
  <2>2. Reading(server, p[1], p[2]) # Raised
    BY DEF Understood
  <2> HIDE DEF p, x, t
  <2> QED
    BY <2>1, <2>2
<1>4. /\ DOMAIN given = DOMAIN t.fields
      /\ \A k \in DOMAIN t.fields : given[k] \in ValuesOf(t.fields[k])
  BY AttributesTyped DEF Notices
<1>5. New \notin DOMAIN t.fields
  BY NewIsNew
<1>6. ToSet(told) = DOMAIN t.fields \ {"version"}
  BY NoticesPassed
<1>7. class = t \/ DOMAIN class.fields = DOMAIN t.fields \cup {New}
  <2>1. class = t \/ class = Class(t.fields ++ Newly(BoolType))
    BY DEF ClassesOf
  <2>2. \A f : DOMAIN (f ++ Newly(BoolType)) = DOMAIN f \cup {New}
    BY DEF ++, Newly
  <2> HIDE DEF t
  <2> QED
    BY <2>1, <2>2, ClassIsClass
<1> HIDE DEF t, told
<1>8. /\ DOMAIN a = DOMAIN given \cup {New}
      /\ \A k \in DOMAIN given : a[k] = given[k]
      /\ a[New] = Bool(TRUE)
  BY <1>4, <1>5 DEF ++, Newly
<1> HIDE DEF a
<1>9. DOMAIN t.fields \subseteq DOMAIN class.fields
  BY <1>7
<1>10. \A k \in DOMAIN t.fields \cap DOMAIN a : a[k] \in ValuesOf(t.fields[k])
  BY <1>4, <1>8
<1>11. /\ DOMAIN r.v = DOMAIN t.fields
       /\ \A k \in DOMAIN t.fields \cap DOMAIN a : r.v[k] = a[k]
       /\ KeysOf(x) \subseteq DOMAIN t.fields
  BY <1>1, <1>2, <1>3, <1>9, <1>10, ObjectRead
<1>12. class = t
  <2>1. KeysOf(x) = {k \in DOMAIN class.fields \cap DOMAIN a : a[k] # Null}
    BY DEF KeysOf, Object
  <2>2. New \notin KeysOf(x)
    BY <1>5, <1>11
  <2>3. a[New] # Null /\ New \in DOMAIN a
    BY <1>8, NewIsNew
  <2> QED
    BY <1>7, <2>1, <2>2, <2>3
<1> HIDE DEF x, r
<1>13. \A k \in DOMAIN given : r.v[k] = given[k]
  BY <1>4, <1>8, <1>11
<1>14. ToSet(Of(r, told)) = {given[k] : k \in DOMAIN given \ {"version"}}
  <2>1. \A i \in DOMAIN told : told[i] \in DOMAIN given \ {"version"}
    BY <1>4, <1>6 DEF ToSet
  <2>2. \A k \in DOMAIN given \ {"version"} : \E i \in DOMAIN told : told[i] = k
    BY <1>4, <1>6 DEF ToSet
  <2>3. Of(r, told) = [i \in DOMAIN told |-> given[told[i]]]
    BY <1>13, <2>1 DEF Of
  <2> QED
    BY <2>1, <2>2, <2>3 DEF ToSet
<1> QED
  BY <1>1, <1>12, <1>14 DEF r, t, told

-----------------------------------------------------------------------------
(* CallsGetThrough and NoticesGetThrough.                                  *)

ReadingBy(server, pair) == Reading(server, pair[1], pair[2])

\* An operation: what the server has seen is its reading of the request, and
\* the caller gets what is returned of the reading of the reply.
CallInv ==
    LET request == RequestOf(talk.name, talk.given)
    IN  talk.kind = "call" =>
            /\ talk.name \in DOMAIN SM /\ talk.given \in Arguments(talk.name)
            /\ Understood(FALSE, request)
            /\ \/ leg = "there" /\ sample = request /\ peerSends = FALSE /\ seen = Null
               \/ /\ leg \in {"back", "over"} /\ peerSends = TRUE
                  /\ seen = ReadingBy(FALSE, request)
                  /\ \E fields \in Replies(talk.name) :
                         sample = ReplyOf(talk.name, fields)
                  /\ leg = "over" =>
                         outcome = Returned(talk.name, ReadingBy(TRUE, sample))

\* A request of the server, of message m and class class: it is on its way,
\* refused, or handled.
NoticeAt(m, class) ==
    LET notice == NoticeOf(m, class, talk.given)
    IN  /\ talk.given \in Notices(m) /\ talk.name \in {m, New}
        /\ talk.newer <=> \/ talk.name = New \/ class # CM[m].request
                          \/ ~Understood(TRUE, NoticeOf(m, CM[m].request, talk.given))
        /\ \/ leg = "there" /\ sample = notice /\ peerSends = TRUE /\ seen = Null
           \/ /\ leg = "over" /\ seen = Null /\ outcome = Raised
              /\ talk.name = New \/ ~Understood(TRUE, notice)
           \/ /\ leg \in {"back", "over"} /\ talk.name = m /\ Understood(TRUE, notice)
              /\ seen = Of(ReadingBy(TRUE, notice), Passes[m])
              /\ leg = "over" => outcome = <<>>

NoticeInv ==
    talk.kind = "notice" => \E m \in DOMAIN CM : \E class \in ClassesOf(m) : NoticeAt(m, class)

LEMMA InitTalk == MInit => CallInv /\ NoticeInv
<1>1. ASSUME ValueIsSent PROVE CallInv /\ NoticeInv
  BY <1>1 DEF ValueIsSent, CallInv, NoticeInv
<1>2. ASSUME OperationIsCalled PROVE CallInv /\ NoticeInv
  <2>1. PICK m \in DOMAIN SM : \E given \in Arguments(m) :
            /\ Understood(FALSE, RequestOf(m, given))
            /\ InitOf(RequestOf(m, given), FALSE)
            /\ talk = [kind |-> "call", name |-> m, given |-> given]
            /\ leg = "there"
    BY <1>2, Zenon DEF OperationIsCalled
  <2>2. PICK given \in Arguments(m) :
            /\ Understood(FALSE, RequestOf(m, given))
            /\ InitOf(RequestOf(m, given), FALSE)
            /\ talk = [kind |-> "call", name |-> m, given |-> given]
            /\ leg = "there"
    BY <2>1
  <2>3. talk.kind = "call" /\ talk.name = m /\ talk.given = given
    BY <2>2
  <2> QED
    BY <2>2, <2>3 DEF CallInv, NoticeInv, InitOf
<1>3. ASSUME ServerRequests PROVE CallInv /\ NoticeInv
  <2> DEFINE Newer(m, given, class, name) ==
                 \/ name = New \/ class # CM[m].request
                 \/ ~Understood(TRUE, NoticeOf(m, CM[m].request, given))
             Begun(m, given, class, name) ==
                 /\ InitOf(NoticeOf(m, class, given), TRUE)
                 /\ talk = [kind |-> "notice", name |-> name, given |-> given,
                            newer |-> Newer(m, given, class, name)]
                 /\ leg = "there"
  <2>1. PICK m \in DOMAIN CM : \E given \in Notices(m) : \E class \in ClassesOf(m) :
            \E name \in {m, New} : Begun(m, given, class, name)
    BY <1>3, Zenon DEF ServerRequests
  <2>2. PICK given \in Notices(m) : \E class \in ClassesOf(m) :
            \E name \in {m, New} : Begun(m, given, class, name)
    BY <2>1, Zenon
  <2>3. PICK class \in ClassesOf(m) :
            \E name \in {m, New} : Begun(m, given, class, name)
    BY <2>2, Zenon
  <2>4. PICK name \in {m, New} : Begun(m, given, class, name)
    BY <2>3, Zenon
  <2>5. \A n, g, new : LET r == [kind |-> "notice", name |-> n, given |-> g, newer |-> new]
                       IN  r.kind = "notice" /\ r.name = n /\ r.given = g /\ r.newer = new
    BY Zenon
  <2>6. /\ talk.kind = "notice" /\ talk.name = name /\ talk.given = given
        /\ talk.newer = Newer(m, given, class, name)
    BY <2>4, <2>5, Zenon
  <2>7. talk.newer <=> Newer(m, given, class, talk.name)
    BY <2>6, Zenon
  <2>8. InitOf(NoticeOf(m, class, given), TRUE) /\ leg = "there"
    BY <2>4, Zenon
  <2>9. /\ leg = "there" /\ sample = NoticeOf(m, class, talk.given)
        /\ peerSends = TRUE /\ seen = Null
    BY <2>6, <2>8 DEF InitOf
  <2>10. NoticeAt(m, class)
    BY <2>4, <2>6, <2>7, <2>9, Zenon DEF NoticeAt
  <2> QED
    BY <2>6, <2>10 DEF CallInv, NoticeInv
<1> QED
  BY <1>1, <1>2, <1>3 DEF MInit

LEMMA ReadAsSent ==
    ASSUME ValueInv, result # Null
    PROVE  result = ReadingBy(peerSends, sample)
  BY ArrivesRight DEF RoundTrip, ReadingBy

\* Nothing but the bytes and what is decoded from them has changed.
LEMMA TalkStays ==
    ASSUME CallInv, NoticeInv, UNCHANGED <<sample, peerSends, talk, leg, seen, outcome>>
    PROVE  CallInv' /\ NoticeInv'
<1>1. CallInv'
  BY DEF CallInv
<1>2. NoticeInv'
  BY DEF NoticeInv, NoticeAt
<1> QED
  BY <1>1, <1>2

LEMMA NextTalk ==
    ASSUME ValueInv, TalkInv, CallInv, NoticeInv, [MNext]_allVars
    PROVE  CallInv' /\ NoticeInv'
<1>1. ASSUME UNCHANGED allVars \/ Sending \/ Receiving PROVE CallInv' /\ NoticeInv'
  <2>1. UNCHANGED <<sample, peerSends, talk, leg, seen, outcome>>
    BY <1>1 DEF allVars, Sending, Receiving, EncodeValue, DecodeValue
  <2> QED
    BY <2>1, TalkStays
<1>2. ASSUME ServerReplies PROVE CallInv' /\ NoticeInv'
  <2>1. /\ talk.kind = "call" /\ leg = "there" /\ result # Null /\ seen' = result
        /\ \E fields \in Replies(talk.name) : Answer(ReplyOf(talk.name, fields), TRUE)
    BY <1>2 DEF ServerReplies
  <2>2. PICK fields \in Replies(talk.name) : Answer(ReplyOf(talk.name, fields), TRUE)
    BY <2>1
  <2>3. /\ talk' = talk /\ leg' = "back" /\ peerSends' = TRUE
        /\ sample' = ReplyOf(talk.name, fields)
    BY <2>2 DEF Answer
  <2>4. /\ talk.name \in DOMAIN SM /\ talk.given \in Arguments(talk.name)
        /\ Understood(FALSE, RequestOf(talk.name, talk.given))
        /\ sample = RequestOf(talk.name, talk.given) /\ peerSends = FALSE
    BY <2>1 DEF CallInv
  <2>5. seen' = ReadingBy(FALSE, RequestOf(talk.name, talk.given))
    BY <2>1, <2>4, ReadAsSent
  <2> QED
    BY <2>1, <2>3, <2>4, <2>5 DEF CallInv, NoticeInv
<1>3. ASSUME Return PROVE CallInv' /\ NoticeInv'
  <2>1. /\ talk.kind = "call" /\ leg = "back" /\ result # Null /\ leg' = "over"
        /\ outcome' = Returned(talk.name, result)
        /\ sample' = sample /\ peerSends' = peerSends /\ talk' = talk /\ seen' = seen
    BY <1>3 DEF Return, valueVars
  <2>2. /\ talk.name \in DOMAIN SM /\ talk.given \in Arguments(talk.name)
        /\ Understood(FALSE, RequestOf(talk.name, talk.given))
        /\ peerSends = TRUE
        /\ seen = ReadingBy(FALSE, RequestOf(talk.name, talk.given))
        /\ \E fields \in Replies(talk.name) : sample = ReplyOf(talk.name, fields)
    BY <2>1 DEF CallInv
  <2>3. outcome' = Returned(talk.name, ReadingBy(TRUE, sample))
    BY <2>1, <2>2, ReadAsSent
  <2> QED
    BY <2>1, <2>2, <2>3 DEF CallInv, NoticeInv
<1>4. ASSUME Handle PROVE CallInv' /\ NoticeInv'
  <2>1. /\ talk.kind = "notice" /\ leg = "there" /\ result # Null /\ result # Raised
        /\ seen' = Of(result, Passes[talk.name])
        /\ Answer(AnswerOf(talk.name), FALSE)
    BY <1>4 DEF Handle
  <2>2. talk' = talk /\ leg' = "back"
    BY <2>1 DEF Answer
  <2>3. talk.name \in DOMAIN CM
    BY <2>1 DEF TalkInv
  <2>4. PICK m \in DOMAIN CM : \E class \in ClassesOf(m) : NoticeAt(m, class)
    BY <2>1 DEF NoticeInv
  <2>5. PICK class \in ClassesOf(m) : NoticeAt(m, class)
    BY <2>4
  <2> DEFINE notice == NoticeOf(m, class, talk.given)
  <2>6. sample = notice /\ peerSends = TRUE /\ talk.name = m
    BY <2>1, <2>3, <2>5, NewIsNew DEF NoticeAt
  <2>7. result = ReadingBy(TRUE, notice)
    BY <2>1, <2>6, ReadAsSent
  <2>8. Understood(TRUE, notice)
    BY <2>1, <2>7 DEF Understood, ReadingBy
  <2>9. NoticeAt(m, class)'
    BY <2>1, <2>2, <2>5, <2>6, <2>7, <2>8 DEF NoticeAt
  <2> QED
    BY <2>1, <2>2, <2>9 DEF CallInv, NoticeInv
<1>5. ASSUME HandleFails PROVE CallInv' /\ NoticeInv'
  <2>1. /\ talk.kind = "notice" /\ leg = "there" /\ CannotHandle
        /\ leg' = "over" /\ outcome' = Raised /\ talk' = talk /\ seen' = seen
    BY <1>5 DEF HandleFails
  <2>2. PICK m \in DOMAIN CM : \E class \in ClassesOf(m) : NoticeAt(m, class)
    BY <2>1 DEF NoticeInv
  <2>3. PICK class \in ClassesOf(m) : NoticeAt(m, class)
    BY <2>2
  <2> DEFINE notice == NoticeOf(m, class, talk.given)
  <2>4. sample = notice /\ peerSends = TRUE /\ seen = Null /\ talk.name \in {m, New}
    BY <2>1, <2>3 DEF NoticeAt
  <2>5. talk.name = New \/ ~Understood(TRUE, notice)
    <3>1. CASE talk.name \notin DOMAIN CM
      BY <2>4, <3>1
    <3>2. CASE result = Raised
      <4>1. Raised = ReadingBy(TRUE, notice)
        BY <2>4, <3>2, NullIsNoValue, ReadAsSent
      <4> QED
        BY <4>1 DEF Understood, ReadingBy
    <3> QED
      BY <2>1, <3>1, <3>2 DEF CannotHandle
  <2>6. NoticeAt(m, class)'
    BY <2>1, <2>3, <2>4, <2>5 DEF NoticeAt
  <2> QED
    BY <2>1, <2>6 DEF CallInv, NoticeInv
<1>6. ASSUME ServerGetsReply PROVE CallInv' /\ NoticeInv'
  <2>1. /\ talk.kind = "notice" /\ leg = "back" /\ leg' = "over"
        /\ outcome' = Of(result, <<>>) /\ talk' = talk /\ seen' = seen
    BY <1>6 DEF ServerGetsReply
  <2>2. PICK m \in DOMAIN CM : \E class \in ClassesOf(m) : NoticeAt(m, class)
    BY <2>1 DEF NoticeInv
  <2>3. PICK class \in ClassesOf(m) : NoticeAt(m, class)
    BY <2>2
  <2>4. Of(result, <<>>) = <<>>
    BY DEF Of
  <2>5. NoticeAt(m, class)'
    BY <2>1, <2>3, <2>4 DEF NoticeAt
  <2> QED
    BY <2>1, <2>5 DEF CallInv, NoticeInv
<1> QED
  BY <1>1, <1>2, <1>3, <1>4, <1>5, <1>6 DEF MNext

LEMMA TalkInvHolds == MSpec => [](CallInv /\ NoticeInv)
<1> DEFINE I == ValueInv /\ TalkInv /\ CallInv /\ NoticeInv
<1>1. MInit => I
  BY InitValue, InitTalk
<1>2. I /\ [MNext]_allVars => I'
  BY NextValue, NextTalk
<1>3. I => CallInv /\ NoticeInv
  OBVIOUS
<1> HIDE DEF I
<1> QED
  BY <1>1, <1>2, <1>3, PTL DEF MSpec

LEMMA CallsGetIt == CallInv => CallsGetThrough
<1> SUFFICES ASSUME CallInv, talk.kind = "call"
             PROVE  /\ seen # Null => \A k \in DOMAIN talk.given \ {"toOffset"} :
                                          k \in DOMAIN seen.v /\ seen.v[k] = talk.given[k]
                    /\ leg = "over" =>
                          IF outcome = Raised
                          THEN \/ talk.name = "serverHandshake"
                                  /\ sample[2].v.version # Num(1)
                               \/ ~Understood(TRUE, sample)
                          ELSE \A k \in DOMAIN sample[2].v
                                            \ {"version", "capabilities"} :
                                   sample[2].v[k] \in ToSet(outcome)
  BY DEF CallsGetThrough
<1> DEFINE m == talk.name
           given == talk.given
           request == RequestOf(m, given)
<1>1. m \in DOMAIN SM /\ given \in Arguments(m) /\ Understood(FALSE, request)
  BY DEF CallInv
<1>2. ASSUME seen # Null
      PROVE  \A k \in DOMAIN given \ {"toOffset"} :
                 k \in DOMAIN seen.v /\ seen.v[k] = given[k]
  <2>1. seen = ReadingBy(FALSE, request)
    BY <1>2 DEF CallInv
  <2>2. ReadingBy(FALSE, request) = Reading(FALSE, SM[m].request, request[2])
    BY DEF ReadingBy, RequestOf
  <2> HIDE DEF m, given
  <2>3. LET r == Reading(FALSE, SM[m].request, RequestOf(m, given)[2])
        IN  \A k \in DOMAIN given \ {"toOffset"} :
                k \in DOMAIN r.v /\ r.v[k] = given[k]
    BY <1>1, RequestRead DEF request
  <2> QED
    BY <2>1, <2>2, <2>3 DEF request
<1>3. ASSUME leg = "over"
      PROVE  IF outcome = Raised
             THEN \/ m = "serverHandshake" /\ sample[2].v.version # Num(1)
                  \/ ~Understood(TRUE, sample)
             ELSE \A k \in DOMAIN sample[2].v \ {"version", "capabilities"} :
                      sample[2].v[k] \in ToSet(outcome)
  <2>1. /\ outcome = Returned(m, ReadingBy(TRUE, sample))
        /\ \E fields \in Replies(m) : sample = ReplyOf(m, fields)
    BY <1>3 DEF CallInv
  <2>2. PICK fields \in Replies(m) : sample = ReplyOf(m, fields)
    BY <2>1
  <2>3. ReadingBy(TRUE, sample) = Reading(TRUE, SM[m].reply, sample[2])
    BY <2>2 DEF ReadingBy, ReplyOf
  <2> HIDE DEF m, given, request
  <2>4. /\ sample[2].v = fields
        /\ IF outcome = Raised
           THEN \/ m = "serverHandshake" /\ fields.version # Num(1)
                \/ ~Understood(TRUE, sample)
           ELSE \A k \in DOMAIN fields \ {"version", "capabilities"} :
                    fields[k] \in ToSet(outcome)
    BY <1>1, <2>1, <2>2, <2>3, ReplyReturned
  <2> QED
    BY <2>4
<1> QED
  BY <1>2, <1>3

LEMMA NoticesGetIt == NoticeInv => NoticesGetThrough
<1> SUFFICES ASSUME NoticeInv, talk.kind = "notice"
             PROVE  /\ seen # Null =>
                          ToSet(seen) = {talk.given[k] : k \in DOMAIN talk.given
                                                                   \ {"version"}}
                    /\ leg = "over" => (outcome = Raised <=> talk.newer)
                    /\ seen # Null => ~talk.newer
  BY DEF NoticesGetThrough
<1>1. PICK m \in DOMAIN CM : \E class \in ClassesOf(m) : NoticeAt(m, class)
  BY DEF NoticeInv
<1>2. PICK class \in ClassesOf(m) : NoticeAt(m, class)
  BY <1>1
<1> DEFINE given == talk.given
           notice == NoticeOf(m, class, given)
           newer == \/ talk.name = New \/ class # CM[m].request
                    \/ ~Understood(TRUE, NoticeOf(m, CM[m].request, given))
<1>3. /\ given \in Notices(m)
      /\ talk.newer <=> newer
      /\ \/ leg = "there" /\ seen = Null
         \/ /\ leg = "over" /\ seen = Null /\ outcome = Raised
            /\ talk.name = New \/ ~Understood(TRUE, notice)
         \/ /\ leg \in {"back", "over"} /\ talk.name = m /\ Understood(TRUE, notice)
            /\ seen = Of(ReadingBy(TRUE, notice), Passes[m])
            /\ leg = "over" => outcome = <<>>
  BY <1>2 DEF NoticeAt
<1>4. m # New /\ Raised # <<>>
  <2>1. <<>> \in Seq(Octet)
    OBVIOUS
  <2> QED
    BY <2>1, NewIsNew, NullIsNoValue
<1>5. ASSUME Understood(TRUE, notice)
      PROVE  /\ class = CM[m].request
             /\ ToSet(Of(ReadingBy(TRUE, notice), Passes[m])) =
                    {given[k] : k \in DOMAIN given \ {"version"}}
  <2>1. ReadingBy(TRUE, notice) = Reading(TRUE, CM[m].request, notice[2])
    BY DEF ReadingBy, NoticeOf
  <2> HIDE DEF given
  <2>2. LET r == Reading(TRUE, CM[m].request, NoticeOf(m, class, given)[2])
        IN  /\ class = CM[m].request
            /\ ToSet(Of(r, Passes[m])) = {given[k] : k \in DOMAIN given \ {"version"}}
    BY <1>3, <1>5, NoticeRead DEF notice
  <2> QED
    BY <2>1, <2>2 DEF notice
<1>6. CASE leg = "there" /\ seen = Null
  BY <1>6
<1>7. CASE /\ leg = "over" /\ seen = Null /\ outcome = Raised
           /\ talk.name = New \/ ~Understood(TRUE, notice)
  <2>1. newer
    BY <1>7
  <2> QED
    BY <1>3, <1>7, <2>1
<1>8. CASE /\ leg \in {"back", "over"} /\ talk.name = m /\ Understood(TRUE, notice)
           /\ seen = Of(ReadingBy(TRUE, notice), Passes[m])
           /\ leg = "over" => outcome = <<>>
  <2>1. ~newer
    BY <1>4, <1>5, <1>8
  <2> HIDE DEF newer
  <2> QED
    BY <1>3, <1>4, <1>5, <1>8, <2>1
<1> QED
  BY <1>3, <1>6, <1>7, <1>8

\* What an operation is given reaches the server in the field that declares it,
\* and what the server replies reaches the caller, or the operation raises.
THEOREM OperationsGetThrough == MSpec => []CallsGetThrough
  BY TalkInvHolds, CallsGetIt, PTL

\* A request of the server is handled with all that it says, or refused because
\* there is something in it that the client does not know.
THEOREM RequestsGetThrough == MSpec => []NoticesGetThrough
  BY TalkInvHolds, NoticesGetIt, PTL
=============================================================================

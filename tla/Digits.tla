------------------------------- MODULE Digits -------------------------------
(***************************************************************************)
(* Numbers written as sequences of digits.                                 *)
(***************************************************************************)
EXTENDS Naturals, Sequences

\* The highest digit comes first.
Number(digits, base) ==
    LET value[i \in 0..Len(digits)] ==
            IF i = 0 THEN 0 ELSE value[i - 1] * base + digits[i]
    IN  value[Len(digits)]
=============================================================================

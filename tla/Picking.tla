------------------------------- MODULE Picking -------------------------------
(***************************************************************************)
(* What a filter over an iterator collects.                                *)
(***************************************************************************)
EXTENDS Integers, Sequences

(* The elements of s at the positions in K, in their order.                *)
Picked(s, K) ==
  LET picked[i \in 0 .. Len(s)] ==
        IF i = 0 THEN <<>>
        ELSE IF i \in K THEN Append(picked[i - 1], s[i]) ELSE picked[i - 1]
  IN  picked[Len(s)]
=============================================================================

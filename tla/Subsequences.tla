---------------------------- MODULE Subsequences ----------------------------
(***************************************************************************)
(* The subsequences of a sequence, given by the places that are kept.      *)
(***************************************************************************)
EXTENDS Naturals, Sequences

\* The elements at the chosen places, in order.
Filtered(s, chosen) ==
    LET Kept[i \in 0..Len(s)] ==
            IF i = 0 THEN <<>>
            ELSE IF i \in chosen THEN Append(Kept[i - 1], s[i]) ELSE Kept[i - 1]
    IN  Kept[Len(s)]
=============================================================================

------------------------------- MODULE Lists --------------------------------
(***************************************************************************)
(* The filter of a list, by the set of elements it keeps: what Array's     *)
(* filter returns.  A recursive function, about which one can prove.       *)
(***************************************************************************)
EXTENDS Naturals, Sequences

\* The elements of s that are in T, in their order.
Only(s, T) ==
  LET upTo[i \in 0..Len(s)] ==
        IF i = 0 THEN << >>
        ELSE IF s[i] \in T THEN Append(upTo[i - 1], s[i]) ELSE upTo[i - 1]
  IN upTo[Len(s)]
=============================================================================

------------------------------- MODULE Selection -------------------------------
(***************************************************************************)
(* The elements of a sequence that are in a set, in their order: what      *)
(* SelectSeq is for a test, written as a recursive function over the       *)
(* positions so that its laws can be proved (SelectionProofs).             *)
(***************************************************************************)
EXTENDS Integers, Sequences

Select(s, S) ==
  LET kept[i \in 0..Len(s)] ==
        IF i = 0 THEN <<>>
        ELSE IF s[i] \in S THEN Append(kept[i - 1], s[i]) ELSE kept[i - 1]
  IN kept[Len(s)]
===============================================================================

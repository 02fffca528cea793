------------------------------ MODULE Sublists ------------------------------
(***************************************************************************)
(* The elements of a sequence that belong to a set, in their order: what a *)
(* loop over a list with a condition keeps.  SelectSeq with the condition  *)
(* as its test has the same value; this definition is one the proof system *)
(* can unfold, since it is a function and its test is a set.               *)
(***************************************************************************)
EXTENDS Naturals, Sequences

Within(s, S) ==
    LET kept[n \in 0 .. Len(s)] ==
            IF n = 0 THEN <<>>
            ELSE IF s[n] \in S THEN Append(kept[n - 1], s[n]) ELSE kept[n - 1]
    IN kept[Len(s)]

=============================================================================

------------------------------- MODULE Selection -------------------------------
(* The elements at some places of a sequence, in order: what the filters   *)
(* of list comprehensions and loops leave.                                 *)
EXTENDS Naturals, Sequences

Only(s, places) ==
  LET kept[k \in 0..Len(s)] ==
        IF k = 0 THEN <<>>
        ELSE IF k \in places THEN Append(kept[k - 1], s[k]) ELSE kept[k - 1]
  IN  kept[Len(s)]

=============================================================================

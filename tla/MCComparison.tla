---------------------------- MODULE MCComparison ----------------------------
(* A section new in the current filing (A), one in both (B) and one removed *)
(* (C).  Parsing the current filing again replaces A and B, with the same  *)
(* texts.  One pair is unchanged, and the other settings align B otherwise. *)
EXTENDS ComparisonPipeline

MCPairs == {"a", "b", "e", "same", "c", "a2", "b2"}
MCNames == {"A", "B", "C", "A2", "B2"}
MCItems == [pair: MCPairs, live: BOOLEAN]
MCTokens == [item \in MCItems |-> 1]
MCLocal == {[pair |-> "same", live |-> TRUE]}

Removed == [name |-> "C", pairs |-> <<"c">>]
MCLayout ==
  [print \in Prints |->
     IF print.parse = 1
     THEN <<[name |-> "A", pairs |-> <<"a">>],
            [name |-> "B", pairs |-> IF print.settings = "s1" THEN <<"b", "same">>
                                                             ELSE <<"same", "e">>],
            Removed>>
     ELSE <<[name |-> "A2", pairs |-> <<"a2">>], [name |-> "B2", pairs |-> <<"b2">>], Removed>>]

MCText ==
  [item \in MCItems |->
     IF ~item.live THEN IF item.pair \in {"a", "a2"} THEN "none" ELSE "previous only"
     ELSE CASE item.pair \in {"a", "a2"}     -> "t"
            [] item.pair \in {"b", "b2"} -> "u"
            [] item.pair = "e"               -> "v"
            [] item.pair = "c"               -> "w"
            [] item.pair = "same"            -> "x"]

MCTwoSided == {"B", "B2"}
MCOneSided == {item \in MCItems : ~item.live \/ item.pair \in {"a", "a2", "c"}}
MCVersions == [old |-> "v1", new |-> "v2"]

=============================================================================
